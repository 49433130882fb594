------------------------------ MODULE Runtime -------------------------------
(***************************************************************************)
(* The runtime snapshot of the web process and the push scheduler it owns: *)
(* RuntimeManager (src/src/api/runtime.py), PushScheduler                  *)
(* (src/src/push/scheduler.py) and the endpoints that edit subscriptions.  *)
(*                                                                         *)
(* A generation is one RuntimeSnapshot with its own scheduler.  reload()   *)
(* runs on the event loop, so no endpoint runs between its steps, but the  *)
(* scheduler threads of every generation do.  An endpoint that edits takes *)
(* the snapshot first, awaits, and then writes and tells that snapshot's   *)
(* scheduler.                                                              *)
(***************************************************************************)
EXTENDS Naturals

CONSTANTS
    Gens,      \* bound: generations, numbered from 1
    Subs,      \* subscriptions
    Handlers,  \* concurrent edits
    None

ASSUME GensAssumption == Gens \subseteq Nat /\ 1 \in Gens

VARIABLES
    snap,     \* the generation requests get
    built,    \* generations built so far
    want,     \* want[g]: push.enabled in the configuration of g
    sched,    \* sched[g]: "none", "paused" or "active"
    jobs,     \* jobs[g]: subscriptions with a registered job
    enabled,  \* enabled subscriptions in the store
    pc,       \* where reload() is
    prev, cand,  \* its two generations
    last,     \* how the last reload ended
    holds     \* holds[h]: generation an edit took, or None

vars == <<snap, built, want, sched, jobs, enabled, pc, prev, cand, last, holds>>

SchedulerStates == {"none", "paused", "active"}
Steps == {"idle", "stop", "start", "swap", "activate", "undo", "restore"}
Results == {"applied", "kept", "unrestored"}

Init == /\ snap = 1 /\ built = 1
        /\ want \in [Gens -> BOOLEAN]
        /\ enabled \in SUBSET Subs
        /\ sched = [g \in Gens |-> IF g = 1 /\ want[1] THEN "active" ELSE "none"]
        /\ jobs = [g \in Gens |-> IF g = 1 /\ want[1] THEN enabled ELSE {}]
        /\ pc = "idle" /\ prev = 1 /\ cand = 1 /\ last = "applied"
        /\ holds = [h \in Handlers |-> None]

\* PushScheduler.start: a scheduler that runs already is left as it is, and a
\* new one registers a job per enabled subscription.
Starts(g, mode) ==
    IF sched[g] # "none" THEN UNCHANGED <<sched, jobs>>
    ELSE /\ sched' = [sched EXCEPT ![g] = mode]
         /\ jobs' = [jobs EXCEPT ![g] = enabled]

\* PushScheduler.shutdown lets go of the scheduler even when stopping it raises.
Stops(g) == /\ sched' = [sched EXCEPT ![g] = "none"]
            /\ jobs' = [jobs EXCEPT ![g] = {}]

Continue(step) == pc' = step /\ UNCHANGED <<last>>
Finish(result) == pc' = "idle" /\ last' = result
Frame == UNCHANGED <<built, want, enabled, cand, prev, holds>>

\* _build_snapshot of the candidate; a failure leaves everything as it is.
Build ==
    /\ pc = "idle"
    /\ built + 1 \in Gens
    /\ built' = built + 1
    /\ \/ Continue("stop") /\ cand' = built + 1 /\ prev' = snap
       \/ Finish("kept") /\ UNCHANGED <<cand, prev>>
    /\ UNCHANGED <<snap, want, sched, jobs, enabled, holds>>

StopPrevious(g) == Stops(g)

\* The old scheduler is stopped first; the branch for one that still runs is
\* out of reach of PushScheduler, whose shutdown always lets go.
Stop == /\ pc = "stop"
        /\ StopPrevious(prev)
        /\ Continue("start")
        /\ Frame /\ UNCHANGED snap

CandidateModeActive == "active"
CandidateMode == "paused"

\* The candidate starts paused, if its configuration wants pushes at all.
Start ==
    /\ pc = "start"
    /\ \/ /\ IF want[cand] THEN Starts(cand, CandidateMode) ELSE UNCHANGED <<sched, jobs>>
          /\ Continue("swap")
       \/ want[cand] /\ Stops(cand) /\ Continue("restore")
    /\ Frame /\ UNCHANGED snap

SwapOnlyNew == /\ pc = "swap" /\ cand = 2
               /\ snap' = cand
               /\ Continue("activate")
               /\ Frame /\ UNCHANGED <<sched, jobs>>
Swap == /\ pc = "swap"
        /\ snap' = cand
        /\ Continue("activate")
        /\ Frame /\ UNCHANGED <<sched, jobs>>

\* _activate_scheduler resumes the committed candidate; when that raises the
\* candidate is stopped and the snapshot put back.
Activate ==
    /\ pc = "activate"
    /\ \/ /\ sched' = IF want[cand] /\ sched[cand] = "paused"
                      THEN [sched EXCEPT ![cand] = "active"] ELSE sched
          /\ Finish("applied") /\ UNCHANGED jobs
       \/ want[cand] /\ Stops(cand) /\ Continue("undo")
    /\ Frame /\ UNCHANGED snap

UndoForgotten == snap
UndoTo == IF snap = cand THEN prev ELSE snap
Undo == /\ pc = "undo"
        /\ snap' = UndoTo
        /\ Continue("restore")
        /\ Frame /\ UNCHANGED <<sched, jobs>>

\* _restore_scheduler starts the old scheduler again, or fails to.
Restore ==
    /\ pc = "restore"
    /\ \/ /\ IF want[prev] THEN Starts(prev, "active") ELSE UNCHANGED <<sched, jobs>>
          /\ Finish("kept")
       \/ want[prev] /\ Stops(prev) /\ Finish("unrestored")
    /\ Frame /\ UNCHANGED snap

-----------------------------------------------------------------------------
\* An edit takes the snapshot, then awaits its body and the names of symbols.
EditBegin(h) ==
    /\ pc = "idle" /\ holds[h] = None
    /\ holds' = [holds EXCEPT ![h] = snap]
    /\ UNCHANGED <<snap, built, want, sched, jobs, enabled, pc, prev, cand, last>>

\* The write, and reload() of the scheduler it holds: nothing if that one has
\* been shut down.
EditCommit(h) ==
    LET g == holds[h] IN
    /\ pc = "idle" /\ g # None
    /\ \E s \in Subs : enabled' = IF s \in enabled THEN enabled \ {s} ELSE enabled \union {s}
    /\ jobs' = IF sched[g] = "none" THEN jobs ELSE [jobs EXCEPT ![g] = enabled']
    /\ holds' = [holds EXCEPT ![h] = None]
    /\ UNCHANGED <<snap, built, want, sched, pc, prev, cand, last>>

Next == \/ Build \/ Stop \/ Start \/ Swap \/ Activate \/ Undo \/ Restore
        \/ \E h \in Handlers : EditBegin(h) \/ EditCommit(h)

Spec == Init /\ [][Next]_vars

\* A reload that has begun goes on.
FairSpec == Spec /\ WF_vars(Stop \/ Start \/ Swap \/ Activate \/ Undo \/ Restore)

-----------------------------------------------------------------------------
\* Every variable keeps to its domain.
RuntimeTypeOK ==
    /\ snap \in Gens /\ prev \in Gens /\ cand \in Gens /\ built \in Gens
    /\ want \in [Gens -> BOOLEAN]
    /\ sched \in [Gens -> SchedulerStates]
    /\ jobs \in [Gens -> SUBSET Subs]
    /\ enabled \in SUBSET Subs
    /\ pc \in Steps /\ last \in Results
    /\ holds \in [Handlers -> Gens \union {None}]

\* At every step of a switch, whatever fails, jobs can fire from one scheduler
\* only, that of the snapshot requests get: no push is sent twice by two
\* runtimes, and none by a configuration that was not committed.
OnlyCommittedFires == \A g \in Gens : sched[g] = "active" => g = snap

\* Between switches no scheduler of another generation is left behind.
NoSchedulerLeftBehind ==
    pc = "idle" => \A g \in Gens \ {snap} : sched[g] = "none"

\* Whatever fails on the way, one generation fires and one is left.
RuntimeSafe == RuntimeTypeOK /\ OnlyCommittedFires /\ NoSchedulerLeftBehind

\* Action property: a reload that ends without being applied leaves requests
\* on the snapshot they had before it, and an applied one on the new one; that
\* snapshot then pushes exactly if its configuration says so, unless reload
\* reported that the old scheduler could not be started again.
SwitchIsWhole ==
    [][pc # "idle" /\ pc' = "idle" =>
          /\ snap' = IF last' = "applied" THEN cand ELSE prev
          /\ last' # "unrestored" => (sched'[snap'] = "active" <=> want[snap'])]_vars

\* A reload comes to an end.
ReloadEnds == (pc # "idle") ~> (pc = "idle")
=============================================================================
