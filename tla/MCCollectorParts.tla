-------------------------- MODULE MCCollectorParts --------------------------
(***************************************************************************)
(* Small instances of CollectorStore, and of CollectorWorker with the      *)
(* instances that TLC checks in one run each for safety and for liveness.  *)
(* A behaviour belongs to one part.  Two are of the store alone:           *)
(*   rows      one run, its two instruments and distinct delays            *)
(*   two       two runs of one pool for two target days, so that the newer *)
(*             supersedes the older, without steps of their instruments    *)
(* The others say what may happen beside the processes of the service:     *)
(*   planning  one instrument, a second day, an edit of the configuration  *)
(*   outcome   two instruments, the switch moved twice                     *)
(*   shared    the second process only serves a person of the web          *)
(*   switch    the switch moved twice, two services                        *)
(*   demand    a person asks, two services                                 *)
(*   alone     whatever the constants of the cfg allow                     *)
(***************************************************************************)
EXTENDS CollectorWorker, TLC

CONSTANTS k1, k2, s1, s2, d1, d2, web, c1, c2

VARIABLE part

MCPoolOf == [k \in Keys |-> IF k = k1 THEN "p1" ELSE "p2"]
MCSameDay == [k \in Keys |-> 1]

\* One pool, and the second run is for a later day.
StorePoolOf == [k \in Keys |-> "p1"]
StoreTargetOf == [k \in Keys |-> IF k = k1 THEN 1 ELSE 2]
Symmetry == Permutations({d1, d2}) \union Permutations({s1, s2})

\* The same table with the shortest lease and delays.
Quick == INSTANCE CollectorStore WITH LeaseTicks <- 1, ShortDelay <- 1, LongDelay <- 1

processes == <<environment, lock, proc, client, reader, asked, published>>

StoreInit == WInit /\ enabled /\ published = {} /\ part \in {"rows", "two"}

StoreNext ==
    /\ \/ part = "rows" /\ Next /\ run'[k2] = run[k2]
       \/ /\ part = "two" /\ Quick!Next
          /\ \A k \in Keys : run'[k].items = run[k].items
    /\ UNCHANGED <<processes, part>>

StoreSpec == StoreInit /\ [][StoreNext]_<<wvars, part>>

OneItem == INSTANCE CollectorWorker WITH Symbols <- {s1}
Shared == INSTANCE CollectorWorker WITH Symbols <- {}, Daemons <- {d1}

NobodyAsks == client' = client
SwitchRests == toggles' = toggles
SameDay == target' = target /\ edits' = edits
NobodyStops == \A w \in Workers : proc'[w].stop => proc[w].stop

SafetyInit == \/ part = "planning" /\ OneItem!WInit
              \/ part = "outcome" /\ WInit
              \/ part = "shared" /\ Shared!WInit

SafetyNext ==
    /\ \/ part = "planning" /\ OneItem!WNext /\ NobodyAsks /\ toggles' <= 1
       \/ part = "outcome" /\ WNext /\ NobodyAsks /\ SameDay /\ NobodyStops /\ toggles' <= 1
       \/ part = "shared" /\ Shared!WNext /\ SameDay /\ NobodyStops /\ SwitchRests
    /\ UNCHANGED part

SafetySpec == SafetyInit /\ [][SafetyNext]_<<wvars, part>>

EndsInit == part \in {"switch", "demand"} /\ WInit

EndsNext == /\ WNext /\ UNCHANGED part
            /\ part = "switch" => NobodyAsks
            /\ part = "demand" => SwitchRests

EndsSpec == EndsInit /\ [][EndsNext]_<<wvars, part>> /\ Fairness

AloneSpec == /\ part = "alone" /\ WInit
             /\ [][WNext /\ UNCHANGED part]_<<wvars, part>>
             /\ Fairness

-----------------------------------------------------------------------------
\* Every run a person asked for comes to rest.
DemandEnds == part = "demand" => ManualRunsEnd
=============================================================================
