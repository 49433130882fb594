------------------------------ MODULE PlanGraph ------------------------------
(***************************************************************************)
(* The execution of a plan: the conditional loop decide -> execute ->      *)
(* feedback of agent/graph.py, the tool selection of agent/tool_selector.py*)
(* it calls, and the wrapper agent/executor.py.  A plan is any list of      *)
(* steps with any dependencies a model may write down: also on itself, on a *)
(* later step, in a circle, or on an id no step has.                        *)
(***************************************************************************)
EXTENDS Naturals, Sequences

CONSTANTS
  N,          \* the number of steps of the plan
  Unknown,    \* an id that names no step
  Tools,      \* names of registered tools
  Strange,    \* a tool name the model invents
  Matches     \* what the registry may match for a description: lists of tools, best first

Ids == 1..N
NoTool == "no tool"

ASSUME PlanAssumption ==
  /\ N \in Nat /\ Unknown \notin Ids
  /\ NoTool \notin Tools /\ Matches \subseteq Seq(Tools)

VARIABLES
  dependsOn,   \* depends_on of each step
  candidates,  \* what the registry matches for the description of each step
  status,      \* the status of each step: "pending", "done", "failed", "skipped"
  tool,        \* tool_name of each step
  pending,     \* the steps in pending_ids, which lists them in the order of the plan
  results,     \* tool_results: sequence of [step, status]
  node         \* the node that runs next; "end" when the graph is left

planVars == <<dependsOn, candidates, status, tool, pending, results, node>>
givenPlan == <<dependsOn, candidates>>

-----------------------------------------------------------------------------
Terminal(st) == {i \in Ids : st[i] \in {"done", "skipped"}}

\* The steps that may run.
Ready(st) == {i \in Ids : st[i] = "pending" /\ dependsOn[i] \subseteq Terminal(st)}

\* The steps that fall with step i: the pending dependents, theirs, and so on, which is
\* the least set that is closed under them.  A step is skipped before its own
\* dependents are looked at, so a circle ends.
FallWith(st, i, S) == \A j \in Ids : st[j] = "pending" /\ dependsOn[j] \cap (S \cup {i}) # {} => j \in S
Skips(st, i) == {j \in Ids : \A S \in SUBSET Ids : FallWith(st, i, S) => j \in S}

\* A cascade of one level, and the whole one.
CascadeOnce(st, i) == [j \in Ids |-> IF st[j] = "pending" /\ i \in dependsOn[j] THEN "skipped" ELSE st[j]]
CascadeSkip(st, i) == [j \in Ids |-> IF j \in Skips(st, i) THEN "skipped" ELSE st[j]]

-----------------------------------------------------------------------------
\* Tool selection.  What the model may answer, twice: a tool, an invented name, or nothing.
ModelAnswers == Tools \cup {Strange, NoTool}
Candidate(i, name) == \E k \in 1..Len(candidates[i]) : candidates[i][k] = name

\* The first answer that names a candidate.
LLMSelect(i, first, second) ==
  IF Candidate(i, first) THEN first ELSE IF Candidate(i, second) THEN second ELSE NoTool

KeywordFallback(i) == IF candidates[i] = <<>> THEN NoTool ELSE Head(candidates[i])

\* Without a model, when it fails, or when it names no candidate, the best match is taken.
ToolChoices(i) == {KeywordFallback(i)} \cup ({LLMSelect(i, x, y) : x, y \in ModelAnswers} \ {NoTool})

PlanInit ==
  /\ dependsOn \in [Ids -> SUBSET (Ids \cup {Unknown})]
  /\ candidates \in [Ids -> Matches]
  /\ status = [i \in Ids |-> "pending"]
  /\ tool = [i \in Ids |-> NoTool]
  /\ pending = Ready(status)
  /\ results = <<>>
  /\ node = "decide"

\* pending_ids[0].
CurrentStep == CHOOSE i \in pending : \A j \in pending : i <= j

\* route_from_decide: a step without a tool goes straight to feedback.
Route(t) == IF t = NoTool THEN "feedback" ELSE "execute"

\* decide_node: a step the plan gave no tool gets one.
DecideNode ==
  /\ node = "decide"
  /\ IF pending = {}
     THEN node' = "end" /\ tool' = tool
     ELSE /\ IF tool[CurrentStep] = NoTool
             THEN \E c \in ToolChoices(CurrentStep) : tool' = [tool EXCEPT ![CurrentStep] = c]
             ELSE tool' = tool
          /\ node' = Route(tool'[CurrentStep])
  /\ UNCHANGED <<givenPlan, status, pending, results>>

\* execute_node: an unknown tool and an exception are error results.
ExecuteNode ==
  /\ node = "execute"
  /\ \E r \in IF tool[CurrentStep] \in Tools THEN {"success", "partial", "error"} ELSE {"error"} :
       results' = Append(results, [step |-> CurrentStep, status |-> r])
  /\ node' = "feedback"
  /\ UNCHANGED <<givenPlan, status, tool, pending>>

\* The places of the results of step i, and whether the first one is an error or missing.
ResultsOf(i) == {k \in 1..Len(results) : results[k].step = i}
WentWrong(i) == \A k \in ResultsOf(i) : (\A l \in ResultsOf(i) : k <= l) => results[k].status = "error"

\* feedback_node: the first result of the step decides; then pending_ids is
\* computed anew and the route goes back to decide or ends.
FeedbackNode ==
  /\ node = "feedback"
  /\ status' = IF WentWrong(CurrentStep)
               THEN CascadeSkip([status EXCEPT ![CurrentStep] = "failed"], CurrentStep)
               ELSE [status EXCEPT ![CurrentStep] = "done"]
  /\ pending' = Ready(status')
  /\ node' = IF pending' = {} THEN "end" ELSE "decide"
  /\ UNCHANGED <<givenPlan, tool, results>>

PlanEnded == node = "end" /\ UNCHANGED planVars

PlanNext == DecideNode \/ ExecuteNode \/ FeedbackNode \/ PlanEnded

PlanSpec == PlanInit /\ [][PlanNext]_planVars /\ WF_planVars(DecideNode \/ ExecuteNode \/ FeedbackNode)

-----------------------------------------------------------------------------
(* Properties                                                              *)

\* Every variable has the shape the graph's state has, and a step has at most one result.
PlanTypeOK ==
  /\ status \in [Ids -> {"pending", "done", "failed", "skipped"}]
  /\ tool \in [Ids -> Tools \cup {NoTool}]
  /\ pending \subseteq Ids
  /\ \A i \in Ids : \A k, l \in ResultsOf(i) : k = l
  /\ node \in {"decide", "execute", "feedback", "end"}

\* Everything step i waits for, directly or through others: the least set with its
\* dependencies and theirs.
WaitsWithin(i, S) == dependsOn[i] \subseteq S /\ \A j \in S \cap Ids : dependsOn[j] \subseteq S
Upstream(i) == {j \in Ids \cup {Unknown} : \A S \in SUBSET (Ids \cup {Unknown}) : WaitsWithin(i, S) => j \in S}

\* The isolation of a failure (agent/executor.py: a failed step skips the steps that
\* depend on it and the others go on): a tool ran only for steps that wait, however
\* indirectly, for no failed step, and a step is skipped exactly when it waits for one.
FailureIsolated ==
  /\ \A i \in Ids : ResultsOf(i) # {} => \A j \in Upstream(i) : j \in Ids /\ (j # i => status[j] = "done")
  /\ \A i \in Ids : status[i] = "skipped" <=> (status[i] # "failed" /\ \E j \in Upstream(i) \cap Ids : status[j] = "failed")

\* Only a step that waits for something that can never happen (an unknown id, or a
\* circle) is still pending when the graph is left: nothing runnable is forgotten.
NothingForgotten ==
  node = "end" =>
    \A i \in Ids : status[i] = "pending" =>
      \E j \in Upstream(i) \cup {i} : j = Unknown \/ (j \in Ids /\ j \in Upstream(j))

\* A tool ran only for steps that wait for no failed step, however indirectly, and
\* only a step that waits for what can never happen is pending at the end.
PlanSafe == PlanTypeOK /\ FailureIsolated /\ NothingForgotten

=============================================================================
