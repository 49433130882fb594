------------------------------ MODULE MCUpdates ------------------------------
(***************************************************************************)
(* Small instances of UpdateService and of its queue.  A behaviour belongs *)
(* to one part, and what it does not use stays in its first state:         *)
(*   rows    the table alone: two updates of two slots, one worker         *)
(*   shared  two updates, a web process that may be shut down, no switch;  *)
(*           an earlier snapshot exists                                    *)
(*   demand  one update, no earlier snapshot, the switch moved once from   *)
(*           on or off, fair processes                                     *)
(***************************************************************************)
EXTENDS UpdateService

CONSTANTS pool, target, r1, web, d1, c1, day1

VARIABLE part

MCRunOf == [slot \in Slots |-> r1]

processes == <<environment, child, lock, proc, client, asked>>

Init == /\ ServiceInit
        /\ part \in {"rows", "shared", "demand"}
        /\ part # "demand" => enabled
        /\ child[r1].snap = (part = "shared")

Next ==
    /\ \/ /\ part = "rows" /\ UpdateNext /\ UNCHANGED processes
          /\ \A i \in Ids : upd'[i].worker # web
       \/ /\ part = "shared" /\ ServiceNext /\ toggles' = 0
          /\ \A i \in Ids : upd'[i].slot # target
       \/ /\ part = "demand" /\ ServiceNext /\ rows' <= 1
          /\ \A i \in Ids : upd'[i].slot # target
          /\ \A w \in Workers : ~proc'[w].stop
    /\ UNCHANGED part

\* Live processes go on, leases and delays run out.  The loops wait for different
\* times, so that a process does not find the execution lock held whenever it asks.
DemandFairness ==
    /\ \A w \in Workers : /\ WF_svars(part = "demand" /\ Start(w))
                          /\ WF_svars(part = "demand" /\ Step(w))
                          /\ SF_svars(part = "demand" /\ Acquire(w) /\ lock' = w)
    /\ WF_svars(part = "demand" /\ LeaseLapses(1))
    /\ WF_svars(part = "demand" /\ ChildLapses(r1))
    /\ WF_svars(part = "demand" /\ DelayOver(r1))

Spec == Init /\ [][Next]_<<svars, part>> /\ DemandFairness

-----------------------------------------------------------------------------
\* Every update a person asked for comes to rest.
AskedUpdatesEnd == part = "demand" => ((1 \in asked) ~> (upd[1].status \in Closed))
=============================================================================
