----------------------------- MODULE ModelLimits ----------------------------
(***************************************************************************)
(* The cache of model output limits with one query in flight per key:      *)
(* model_output_limit (src/src/llm/budget.py).                             *)
(*                                                                         *)
(* A key stands for (protocol, base_url, model, credential).  An event is  *)
(* known by the caller that created it.  Time is not counted: a waiter may *)
(* run out of it at any moment, and so may a cache entry.                  *)
(***************************************************************************)
EXTENDS Naturals, Sequences, SequencesExt, TLAPS

CONSTANTS
    Callers,   \* threads, each with one call
    Keys,
    MaxCache,  \* 128 entries in the code
    None

VARIABLES
    key,      \* key[c]: the key caller c asks for
    pc,       \* pc[c]: "new", "look", "wait", "query" or an end
    waits,    \* waits[c]: the event c waits for
    set,      \* events that have been set
    cache,    \* keys in the cache, least recently used first
    value,    \* value[k]: the cached limit of k, "limit" or None
    pending,  \* pending[k]: the event of the query for k, or None
    answer    \* answer[c]: what c returned, with the key it is about

vars == <<key, pc, waits, set, cache, value, pending, answer>>

Ends == {"returned", "raised"}
Answers == {"limit", None}

Init == /\ key \in [Callers -> Keys]
        /\ pc = [c \in Callers |-> "look"]
        /\ waits = [c \in Callers |-> None]
        /\ set = {}
        /\ cache = <<>>
        /\ value = [k \in Keys |-> None]
        /\ pending = [k \in Keys |-> None]
        /\ answer = [c \in Callers |-> None]

InCache(k) == k \in ToSet(cache)
Touch(s, k) == Append(Remove(s, k), k)
Evicted(s) == IF Len(s) > MaxCache THEN Tail(s) ELSE s

Goto(c, place) == pc' = [pc EXCEPT ![c] = place]
Return(c, v) == Goto(c, "returned") /\ answer' = [answer EXCEPT ![c] = v]

Leads(k) == pending[k] = None

\* One pass of the loop under the lock: a hit, the lead of a new query, or
\* the event of the query in flight.
Look(c) ==
    LET k == key[c] IN
    /\ pc[c] = "look"
    /\ \/ /\ InCache(k)
          /\ cache' = Touch(cache, k) /\ Return(c, value[k])
          /\ UNCHANGED <<waits, pending>>
       \/ /\ ~InCache(k)
          /\ IF Leads(k)
             THEN pending' = [pending EXCEPT ![k] = c] /\ Goto(c, "query") /\ UNCHANGED waits
             ELSE waits' = [waits EXCEPT ![c] = pending[k]] /\ Goto(c, "wait") /\ UNCHANGED pending
          /\ UNCHANGED <<cache, answer>>
    /\ UNCHANGED <<key, set, value>>

\* The event is set: the loop goes round, or the time budget is used up.
Wake(c) ==
    /\ pc[c] = "wait" /\ waits[c] \in set
    /\ Goto(c, "look") \/ Goto(c, "raised")
    /\ waits' = [waits EXCEPT ![c] = None]
    /\ UNCHANGED <<key, set, cache, value, pending, answer>>

GiveUp(c) ==
    /\ pc[c] = "wait"
    /\ Return(c, None)
    /\ waits' = [waits EXCEPT ![c] = None]
    /\ UNCHANGED <<key, set, cache, value, pending>>

Released(c) == [pending EXCEPT ![key[c]] = None]

SignalledNever(c) == set
Signalled(c) == set \union {c}

\* The query answers, does not know the limit, or fails: the finally block
\* publishes the outcome, evicts, and only then releases the waiters.
Query(c) ==
    LET k == key[c] IN
    /\ pc[c] = "query"
    /\ \E v \in Answers : value' = [value EXCEPT ![k] = v] /\ Return(c, v)
    /\ cache' = Evicted(Touch(cache, k))
    /\ pending' = Released(c)
    /\ set' = Signalled(c)
    /\ UNCHANGED <<key, waits>>

\* An entry outlives its hour or its five minutes, or the cache is cleared.
Expire(k) ==
    /\ InCache(k)
    /\ cache' = Remove(cache, k)
    /\ UNCHANGED <<key, pc, waits, set, value, pending, answer>>

Next == \/ \E c \in Callers : Look(c) \/ Wake(c) \/ GiveUp(c) \/ Query(c)
        \/ \E k \in Keys : Expire(k)

Spec == Init /\ [][Next]_vars

\* Threads go on; no waiter is obliged to time out.
FairSpec == Spec /\ \A c \in Callers : WF_vars(Look(c) \/ Wake(c) \/ Query(c))

-----------------------------------------------------------------------------
\* Every variable keeps to its domain, and the cache to its bound.
LimitsTypeOK ==
    /\ pc \in [Callers -> {"look", "wait", "query"} \union Ends]
    /\ waits \in [Callers -> Callers \union {None}] /\ set \subseteq Callers
    /\ ToSet(cache) \subseteq Keys /\ IsInjective(cache) /\ Len(cache) <= MaxCache
    /\ value \in [Keys -> Answers]
    /\ pending \in [Keys -> Callers \union {None}]
    /\ answer \in [Callers -> Answers]

\* At most one query is in flight per key, and an event stands in the table
\* exactly while the caller that made it queries: an event without a query
\* would block every later caller of the key for its whole budget.
OneQueryPerKey ==
    /\ \A k \in Keys : pending[k] # None => pc[pending[k]] = "query" /\ key[pending[k]] = k
    /\ \A c \in Callers : pc[c] = "query" => pending[key[c]] = c

\* A waiter waits for a query that is still under way or for an event that is
\* set, whatever was evicted or cleared meanwhile.
WaitersAreWoken ==
    \A c \in Callers : pc[c] = "wait" => waits[c] \in set \/ pc[waits[c]] = "query"

\* Every caller gets an answer although no wait ever times out: the queries it
\* waits for end, and it leads one itself when an entry is evicted before it
\* looks again.
CallersReturn == \A c \in Callers : <>(pc[c] \in Ends)

-----------------------------------------------------------------------------
(* Proofs, for any callers, keys and size of the cache: what is cached and *)
(* for how long makes no difference.                                       *)

FlightTypes ==
    /\ key \in [Callers -> Keys]
    /\ pc \in [Callers -> {"look", "wait", "query"} \union Ends]
    /\ waits \in [Callers -> Callers \union {None}]
    /\ pending \in [Keys -> Callers \union {None}]

FlightInv == FlightTypes /\ OneQueryPerKey /\ WaitersAreWoken

LEMMA FlightInit == Init => FlightInv
  BY DEF Init, FlightInv, FlightTypes, OneQueryPerKey, WaitersAreWoken, Ends

LEMMA FlightNext ==
    ASSUME None \notin Callers, FlightInv, [Next]_vars
    PROVE FlightInv'
<1> USE DEF FlightInv, FlightTypes, OneQueryPerKey, WaitersAreWoken, Ends
<1>1. ASSUME NEW c \in Callers, Look(c) PROVE FlightInv'
  <2> DEFINE k == key[c]
  <2>1. CASE Goto(c, "returned") /\ UNCHANGED <<key, set, waits, pending>>
    BY <1>1, <2>1 DEF Look, Goto
  <2>2. CASE /\ pending[k] = None /\ pending' = [pending EXCEPT ![k] = c] /\ Goto(c, "query")
             /\ UNCHANGED <<key, set, waits>>
    BY <1>1, <2>2 DEF Look, Goto
  <2>3. CASE /\ pending[k] # None /\ waits' = [waits EXCEPT ![c] = pending[k]] /\ Goto(c, "wait")
             /\ UNCHANGED <<key, set, pending>>
    BY <1>1, <2>3 DEF Look, Goto
  <2> QED
    BY <1>1, <2>1, <2>2, <2>3 DEF Look, Leads, Return
<1>2. ASSUME NEW c \in Callers, Wake(c) PROVE FlightInv'
  <2>1. PICK p \in {"look", "raised"} : Goto(c, p)
    BY <1>2 DEF Wake
  <2> QED
    BY <1>2, <2>1 DEF Wake, Goto
<1>3. ASSUME NEW c \in Callers, GiveUp(c) PROVE FlightInv'
  BY <1>3 DEF GiveUp, Return, Goto
<1>4. ASSUME NEW c \in Callers, Query(c) PROVE FlightInv'
  BY <1>4 DEF Query, Return, Goto, Released, Signalled
<1>5. ASSUME NEW k \in Keys, Expire(k) PROVE FlightInv'
  BY <1>5 DEF Expire
<1>6. CASE UNCHANGED vars
  BY <1>6 DEF vars
<1> QED
  BY <1>1, <1>2, <1>3, <1>4, <1>5, <1>6 DEF Next

\* One query is in flight per key, and every waiter waits for a query that is
\* under way or for an event that is set (model_output_limit): no event is
\* left behind, whatever fails, is evicted or runs out.
THEOREM QueriesAreShared ==
    ASSUME None \notin Callers
    PROVE Spec => [](OneQueryPerKey /\ WaitersAreWoken)
<1>1. Init => FlightInv
  BY FlightInit
<1>2. FlightInv /\ [Next]_vars => FlightInv'
  BY FlightNext, None \notin Callers
<1>3. FlightInv => OneQueryPerKey /\ WaitersAreWoken
  BY DEF FlightInv
<1> QED
  BY <1>1, <1>2, <1>3, PTL DEF Spec
=============================================================================
