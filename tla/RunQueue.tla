------------------------------ MODULE RunQueue ------------------------------
(***************************************************************************)
(* What the collection queue promises, without rows, phases, leases or     *)
(* clocks: runs are executed one at a time, each demand buys a bounded     *)
(* number of executions, automatic work can be withdrawn before it starts  *)
(* and manual work cannot, and a complete run is never executed again.     *)
(***************************************************************************)
EXTENDS Naturals

CONSTANTS Keys, Budget

VARIABLES
    state,   \* state[k]: "none", "waiting", "active", "over" or "complete"
    manual,  \* manual[k]: a person asked for the run
    tries    \* executions started since the run was submitted or last demanded

vars == <<state, manual, tries>>

Init == /\ state = [k \in Keys |-> "none"]
        /\ manual = [k \in Keys |-> FALSE]
        /\ tries = [k \in Keys |-> 0]

Move(k, s) == state' = [state EXCEPT ![k] = s]

\* A run enters the queue.
Submit(k) == /\ state[k] = "none"
             /\ Move(k, "waiting")
             /\ \E m \in BOOLEAN : manual' = [manual EXCEPT ![k] = m]
             /\ UNCHANGED tries

\* A person asks for a run that is already known: an active or waiting one
\* becomes manual, one that ended without success gets a new budget.
Demand(k) == \/ /\ state[k] \in {"waiting", "active"}
                /\ manual' = [manual EXCEPT ![k] = TRUE]
                /\ UNCHANGED <<state, tries>>
             \/ /\ state[k] = "over"
                /\ Move(k, "waiting")
                /\ manual' = [manual EXCEPT ![k] = TRUE]
                /\ tries' = [tries EXCEPT ![k] = 0]

Start(k) == /\ \A j \in Keys : state[j] # "active"
            /\ state[k] = "waiting"
            /\ tries[k] < Budget
            /\ Move(k, "active")
            /\ tries' = [tries EXCEPT ![k] = @ + 1]
            /\ UNCHANGED manual

End(k) == /\ state[k] = "active"
          /\ \E s \in {"over", "complete"} : Move(k, s)
          /\ UNCHANGED <<manual, tries>>

\* The executor disappeared, or the run is worth another try.
Again(k) == /\ state[k] \in {"active", "over"}
            /\ tries[k] < Budget
            /\ Move(k, "waiting")
            /\ UNCHANGED <<manual, tries>>

\* Automatic runs that have not started are withdrawn.
Withdraw == \E S \in SUBSET {k \in Keys : state[k] = "waiting" /\ ~manual[k]} :
                /\ state' = [k \in Keys |-> IF k \in S THEN "over" ELSE state[k]]
                /\ UNCHANGED <<manual, tries>>

Next == \/ \E k \in Keys : Submit(k) \/ Demand(k) \/ Start(k) \/ End(k) \/ Again(k)
        \/ Withdraw

Spec == Init /\ [][Next]_vars
=============================================================================
