----------------------------- MODULE Generation -----------------------------
(***************************************************************************)
(* One call of generate() of an LLM adapter: its total deadline, the       *)
(* retries with exponential backoff and the one recovery of an exhausted   *)
(* output budget (src/src/llm/base.py, claude.py, openai.py, the pure part *)
(* of budget.py).                                                          *)
(*                                                                         *)
(* The clock counts in base delays.  The transport cancels a request at    *)
(* the deadline, so no request outlasts it.                                *)
(***************************************************************************)
EXTENDS Integers

CONSTANTS
    Timeout,     \* total budget of time
    Retries,     \* retry_times, as configured: any integer
    Limits,      \* output limits a model may have
    Budgets,     \* explicit output budgets
    AutoBudget,  \* 8192 in the code
    Unset

ASSUME CallAssumption == /\ Retries \in Int /\ AutoBudget \in Nat
                         /\ Limits \subseteq Nat /\ Budgets \subseteq Nat /\ Unset \notin Nat

VARIABLES
    protocol,  \* "claude" or "openai"
    explicit,  \* the explicit budget, or Unset
    limit,     \* the limit of the model if known, or Unset
    now, stage,
    budget,    \* output budget of the next request
    attempt,   \* attempts of the current _call_with_retry
    calls,     \* requests sent so far
    recovered, \* the request with a recovered budget is under way or done
    response,  \* the last response: [text, truncated, used]
    result     \* "text", "unavailable" or Unset

callvars == <<protocol, explicit, limit, now, stage, budget, attempt, calls, recovered, response, result>>

Response == [text : BOOLEAN, truncated : BOOLEAN, used : 0 .. 2 * AutoBudget]
Times == 0 .. Timeout
Deadline == Timeout

SmallerOf(a, b) == IF a < b THEN a ELSE b
LargerOf(a, b) == IF a > b THEN a ELSE b
Automatic(known) == IF known = Unset THEN AutoBudget ELSE SmallerOf(AutoBudget, known)

\* recovery_budget: twice what was used, at least AutoBudget, within the limit;
\* Unset when that is not more than what was used.
Recovery(used, known) ==
    LET ceiling   == IF known = Unset THEN AutoBudget ELSE known
        candidate == SmallerOf(LargerOf(AutoBudget, 2 * used), ceiling)
    IN  IF candidate > used THEN candidate ELSE Unset

\* The number of retries is never negative; the recovery has none.
Allowed == IF recovered THEN 0 ELSE LargerOf(0, Retries)

NoResponse == [text |-> FALSE, truncated |-> FALSE, used |-> 0]

CallInit == /\ protocol \in {"claude", "openai"}
        /\ explicit \in Budgets \union {Unset}
        /\ limit \in Limits \union {Unset}
        /\ now = 0 /\ stage = "plan" /\ budget = Unset /\ attempt = 0 /\ calls = 0
        /\ recovered = FALSE /\ response = NoResponse /\ result = Unset

Request == <<protocol, explicit, limit>>
Elapse(until) == now' \in now .. until

\* Claude needs a budget and asks for the limit of the model first, which
\* takes time; OpenAI sends no budget of its own.
Plan ==
    /\ stage = "plan"
    /\ budget' = IF protocol = "claude" /\ explicit = Unset THEN Automatic(limit) ELSE explicit
    /\ IF protocol = "claude" /\ explicit = Unset THEN Elapse(Deadline) ELSE UNCHANGED now
    /\ stage' = "call"
    /\ UNCHANGED <<Request, attempt, calls, recovered, response, result>>

InTimeAnyway == TRUE
InTime == now < Deadline

\* A request is sent only before the deadline.  Its answer, or its failure,
\* comes at the deadline at the latest; an answer at the deadline is a failure.
Call ==
    /\ stage = "call" /\ InTime
    /\ calls' = calls + 1
    /\ Elapse(Deadline)
    /\ \/ /\ now' < Deadline
          /\ response' \in {r \in Response : r.used <= (IF budget = Unset THEN 2 * AutoBudget ELSE budget)}
          /\ stage' = "read"
       \/ UNCHANGED response /\ stage' = "failed"
    /\ UNCHANGED <<Request, budget, attempt, recovered, result>>

\* The deadline has passed: TimeoutError ends the call.
CallTooLate ==
    /\ stage = "call" /\ ~InTime
    /\ stage' = "done" /\ result' = "unavailable"
    /\ UNCHANGED <<Request, now, budget, attempt, calls, recovered, response>>

Delay == 2 ^ attempt
Patient == now + Delay < Deadline

\* After a failure the adapter sleeps and tries again, unless the sleep would
\* reach the deadline or the attempts are used up.
Failed ==
    /\ stage = "failed"
    /\ IF attempt < Allowed /\ Patient
       THEN /\ now' = now + Delay /\ attempt' = attempt + 1 /\ stage' = "call"
            /\ UNCHANGED result
       ELSE /\ stage' = "done" /\ result' = "unavailable"
            /\ UNCHANGED <<now, attempt>>
    /\ UNCHANGED <<Request, budget, calls, recovered, response>>

Recoverable == response.truncated /\ ~response.text /\ explicit = Unset

\* What the recovery starts from: Claude knows its budget, OpenAI what it used.
Used == IF protocol = "claude" THEN budget ELSE response.used

RecoverOnce == ~recovered

\* The whole budget went by without text: one more request with a larger one,
\* if there is a larger one; OpenAI asks for the limit only now.
Read ==
    /\ stage = "read"
    /\ IF Recoverable /\ RecoverOnce /\ Used > 0 /\ Recovery(Used, limit) # Unset
       THEN /\ budget' = Recovery(Used, limit)
            /\ recovered' = TRUE /\ attempt' = 0 /\ stage' = "call"
            /\ IF protocol = "openai" THEN Elapse(Deadline) ELSE UNCHANGED now
            /\ UNCHANGED result
       ELSE /\ stage' = "done" /\ result' = IF response.text THEN "text" ELSE "unavailable"
            /\ UNCHANGED <<now, budget, recovered, attempt>>
    /\ UNCHANGED <<Request, calls, response>>

CallNext == Plan \/ Call \/ CallTooLate \/ Failed \/ Read

CallSpec == CallInit /\ [][CallNext]_callvars /\ WF_callvars(CallNext)

-----------------------------------------------------------------------------
\* Every variable keeps to its domain.
GenerationTypeOK ==
    /\ now \in Times /\ attempt \in Nat /\ calls \in Nat
    /\ stage \in {"plan", "call", "failed", "read", "done"}
    /\ budget \in Nat \union {Unset}
    /\ response \in Response /\ recovered \in BOOLEAN
    /\ result \in {"text", "unavailable", Unset}

\* At most retry_times + 2 requests are paid for: the retries of the first
\* call, and one recovery, which only follows an automatic budget.
RequestsBounded == /\ calls <= LargerOf(0, Retries) + (IF recovered THEN 2 ELSE 1)
                   /\ recovered => explicit = Unset

\* The deadline bounds the whole call: no request starts at or after it and
\* no sleep ends there, so the last moment belongs to a request.
DeadlineKeptNow ==
    /\ calls' > calls => now < Deadline
    /\ attempt' > attempt => now' < Deadline

\* A recovery asks for strictly more output than the request that ran dry,
\* and for no more than the model can give.
RecoveryGrowsNow ==
    recovered' /\ ~recovered =>
       /\ budget' > Used
       /\ budget' <= IF limit = Unset THEN AutoBudget ELSE limit

\* Action property: both together.
CallKept == [][DeadlineKeptNow /\ RecoveryGrowsNow]_callvars
=============================================================================
