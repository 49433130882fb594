------------------------------ MODULE PushRuns ------------------------------
(***************************************************************************)
(* Subscriptions and the runs that push them: the transactions of          *)
(* PushStore (src/src/push/store.py), the thread that executes a run       *)
(* (PushExecutor.run_subscription and what its three callers do around     *)
(* it), the edits of the web interface and of the command line, and the    *)
(* death and restart of the two processes.                                 *)
(*                                                                         *)
(* "api" and "cron" are threads of the web process, "cli" is a process.    *)
(* A subscription is its switch and the number of its symbols; a pid is    *)
(* not used again while a row names it, so a row only remembers whether    *)
(* its process is gone.  The store may refuse a statement ("database is    *)
(* locked") at most MaxFaults times.                                       *)
(***************************************************************************)
EXTENDS Naturals

CONSTANTS
    Callers,     \* of "api", "cron" and "cli"
    Subs,        \* ids of subscriptions
    Runs,        \* bound: ids of runs
    Switches,    \* values of "enabled" an edit may write
    MaxSymbols,  \* bound: symbols of a subscription
    MaxFaults,   \* bound: failing statements
    MaxCrashes,  \* bound: deaths of a process
    NULL

ASSUME NullAssumption == NULL \notin Subs /\ NULL \notin Callers
ASSUME BoundsAssumption == /\ Switches \subseteq BOOLEAN /\ MaxSymbols \in Nat \ {0}
                           /\ MaxFaults \in Nat /\ MaxCrashes \in Nat

VARIABLES
    sub,     \* sub[s]: the row of the subscription
    run,     \* run[r]: the row of the run
    thread,  \* thread[r]: where the thread that executes r is
    sent,    \* sent[r]: messages that left for r
    ask,     \* ask[c]: subscription c has read and will queue
    edit,    \* an edit that has read its subscription: [s, row] or NULL
    up,      \* the web process runs
    faults, crashes

pvars == <<sub, run, thread, sent, ask, edit, up, faults, crashes>>

Web == {"api", "cron"} \intersect Callers
Active == {"queued", "running"}
Closed == {"succeeded", "partial", "failed", "interrupted"}
Pushing == {"symbol", "send", "counted", "missed"}
Places == {"none", "begin", "abort", "close", "rescue", "verify"} \union Pushing

Sizes == 1 .. MaxSymbols
Row == [present : BOOLEAN, enabled : BOOLEAN, size : Sizes]
Run == [status : {"absent", "deleted"} \union Active \union Closed, sub : Subs \union {NULL},
        by : Callers \union {NULL}, orphan : BOOLEAN, total : Nat, processed : Nat, ok : Nat]

Unused == [status |-> "absent", sub |-> NULL, by |-> NULL, orphan |-> FALSE,
           total |-> 0, processed |-> 0, ok |-> 0]

PushInit == /\ sub \in [Subs -> {[present |-> TRUE, enabled |-> e, size |-> MaxSymbols] : e \in Switches}]
            /\ run = [r \in Runs |-> Unused]
            /\ thread = [r \in Runs |-> "none"]
            /\ sent = [r \in Runs |-> 0]
            /\ ask = [c \in Callers |-> NULL]
            /\ edit = NULL
            /\ up = TRUE
            /\ faults = 0 /\ crashes = 0

ActiveRuns(s) == {r \in Runs : run[r].sub = s /\ run[r].status \in Active}
Fault == faults < MaxFaults /\ faults' = faults + 1
NoFault == UNCHANGED faults

-----------------------------------------------------------------------------
(* Asking for a run.                                                       *)

\* The endpoint, the cron job and the command look the subscription up; the
\* job of a subscription that has been switched off since does nothing.
Ask(c, s) ==
    /\ ask[c] = NULL
    /\ c \in Web => up
    /\ c = "cli" => \A r \in Runs : run[r].by = "cli" => thread[r] = "none"
    /\ sub[s].present /\ (c = "cron" => sub[s].enabled)
    /\ ask' = [ask EXCEPT ![c] = s]
    /\ UNCHANGED <<sub, run, thread, sent, edit, up, faults, crashes>>

\* AUTOINCREMENT: an id is never used again.
Fresh == {r \in Runs : run[r].status = "absent"}

Admitted(s) == sub[s].present /\ ActiveRuns(s) = {}

\* queue_run reads the subscription again, refuses a second active run (the
\* unique index) and keeps a snapshot of the symbols in the row.
Queue(c) ==
    LET s == ask[c] IN
    /\ s # NULL
    /\ IF Admitted(s)
       THEN \E r \in Fresh : /\ \A q \in Fresh : r <= q
                             /\ run' = [run EXCEPT ![r] =
                                  [Unused EXCEPT !.status = "queued", !.sub = s, !.by = c,
                                                 !.total = sub[s].size]]
                             /\ thread' = [thread EXCEPT ![r] = "begin"]
       ELSE UNCHANGED <<run, thread>>
    /\ ask' = [ask EXCEPT ![c] = NULL]
    /\ UNCHANGED <<sub, sent, edit, up, faults, crashes>>

-----------------------------------------------------------------------------
(* The thread of a run.                                                    *)

Goto(r, place) == thread' = [thread EXCEPT ![r] = place]
Rest == UNCHANGED <<sub, ask, edit, up, crashes>>

Startable(row) == row.status = "queued"

\* start_run is outside the try of run_subscription: its failure, and that of
\* the reads before it, is for the caller to report.
Begin(r) ==
    /\ thread[r] = "begin"
    /\ \/ /\ NoFault /\ Goto(r, "symbol")
          /\ run' = IF Startable(run[r]) THEN [run EXCEPT ![r].status = "running"] ELSE run
       \/ Fault /\ Goto(r, "rescue") /\ UNCHANGED run
    /\ UNCHANGED sent /\ Rest

\* The loop over the symbols of the snapshot, set_current included.  The
\* sender cannot be built, or set_current fails: the run is given up.
SymbolsOf(r) == run[r].total
Symbol(r) ==
    /\ thread[r] = "symbol"
    /\ \/ run[r].processed < SymbolsOf(r) /\ NoFault /\ Goto(r, "send")
       \/ run[r].processed >= SymbolsOf(r) /\ NoFault /\ Goto(r, "close")
       \/ Fault /\ Goto(r, "abort")
    /\ UNCHANGED <<run, sent>> /\ Rest

\* _push_one: the report is made and sent, or any step of it raises.
Send(r) ==
    /\ thread[r] = "send"
    /\ \/ Goto(r, "counted") /\ sent' = [sent EXCEPT ![r] = @ + 1]
       \/ Goto(r, "missed") /\ UNCHANGED sent
    /\ UNCHANGED <<run, faults>> /\ Rest

\* advance_run.  A success that cannot be written is written as a failure;
\* when that fails too the run is given up.
Advance(r) ==
    /\ thread[r] \in {"counted", "missed"}
    /\ \/ /\ NoFault /\ Goto(r, "symbol")
          /\ run' = [run EXCEPT ![r].processed = @ + 1,
                                ![r].ok = IF thread[r] = "counted" THEN @ + 1 ELSE @]
       \/ Fault /\ Goto(r, IF thread[r] = "counted" THEN "missed" ELSE "abort") /\ UNCHANGED run
    /\ UNCHANGED sent /\ Rest

\* finish_run without error
FinalStatus(row) ==
    IF row.processed = row.total /\ row.ok = row.total THEN "succeeded"
    ELSE IF row.ok > 0 THEN "partial" ELSE "failed"

\* finish_run writes whatever the status was, then reads the row again: the
\* read may fail after the commit.
Close(r) ==
    /\ thread[r] = "close"
    /\ \/ /\ \/ NoFault /\ Goto(r, "verify")
             \/ Fault /\ Goto(r, "rescue")
          /\ run' = [run EXCEPT ![r].status = FinalStatus(run[r])]
       \/ Fault /\ Goto(r, "rescue") /\ UNCHANGED run
    /\ UNCHANGED sent /\ Rest

\* finish_run(error=...) of the executor ("abort") and of its caller
\* ("rescue").  The command line has no such handler: its process ends.
GiveUp(r) ==
    /\ thread[r] \in {"abort", "rescue"}
    /\ IF thread[r] = "rescue" /\ run[r].by = "cli"
       THEN /\ NoFault /\ Goto(r, "none") /\ run' = [run EXCEPT ![r].orphan = TRUE]
       ELSE \/ /\ NoFault
               /\ Goto(r, IF thread[r] = "abort" THEN "verify" ELSE "none")
               /\ run' = IF run[r].status = "deleted" THEN run
                         ELSE [run EXCEPT ![r].status = "failed"]
            \/ /\ Fault /\ UNCHANGED run
               /\ Goto(r, IF thread[r] = "abort" THEN "rescue" ELSE "none")
    /\ UNCHANGED sent /\ Rest

\* The endpoint's thread closes a run that its executor left open.
Verify(r) ==
    /\ thread[r] = "verify"
    /\ Goto(r, "none")
    /\ run' = IF run[r].by = "api" /\ run[r].status \in Active
              THEN [run EXCEPT ![r].status = FinalStatus(run[r])] ELSE run
    /\ NoFault /\ UNCHANGED sent /\ Rest

-----------------------------------------------------------------------------
(* Edits and deletion.                                                     *)

\* PUT checks that the subscription exists and then resolves its symbols;
\* the command line reads the row it will write back.
EditRead(s) ==
    /\ edit = NULL /\ sub[s].present
    /\ \/ up /\ \E e \in Switches, n \in Sizes :
                   edit' = [s |-> s, row |-> [present |-> TRUE, enabled |-> e, size |-> n]]
       \/ \E e \in Switches : edit' = [s |-> s, row |-> [sub[s] EXCEPT !.enabled = e]]
    /\ UNCHANGED <<sub, run, thread, sent, ask, up, faults, crashes>>

\* update writes every column, if the row is still there.
EditWrite ==
    /\ edit # NULL
    /\ sub' = IF sub[edit.s].present THEN [sub EXCEPT ![edit.s] = edit.row] ELSE sub
    /\ edit' = NULL
    /\ UNCHANGED <<run, thread, sent, ask, up, faults, crashes>>

Deletable(s) == sub[s].present /\ ActiveRuns(s) = {}

\* delete takes the runs of the subscription with it.
Delete(s) ==
    /\ Deletable(s)
    /\ sub' = [sub EXCEPT ![s] = [present |-> FALSE, enabled |-> FALSE, size |-> 1]]
    /\ run' = [r \in Runs |-> IF run[r].sub = s
                              THEN [Unused EXCEPT !.status = "deleted"] ELSE run[r]]
    /\ UNCHANGED <<thread, sent, ask, edit, up, faults, crashes>>

-----------------------------------------------------------------------------
(* The processes.                                                          *)

Killed(dead) ==
    /\ run' = [r \in Runs |-> IF run[r].by \in dead
                              THEN [run[r] EXCEPT !.orphan = TRUE] ELSE run[r]]
    /\ thread' = [r \in Runs |-> IF run[r].by \in dead THEN "none" ELSE thread[r]]
    /\ ask' = [c \in Callers |-> IF c \in dead THEN NULL ELSE ask[c]]

Crash(dead) ==
    /\ crashes < MaxCrashes /\ crashes' = crashes + 1
    /\ Killed(dead)
    /\ up' = (up /\ "cli" \in dead)
    /\ UNCHANGED <<sub, sent, edit, faults>>

StaleAny(row) == row.status \in Active
Stale(row) == row.status \in Active /\ row.orphan

\* RuntimeManager: recover_interrupted closes the runs of dead processes only.
WebStart ==
    /\ ~up /\ up' = TRUE
    /\ run' = [r \in Runs |-> IF Stale(run[r])
                              THEN [run[r] EXCEPT !.status = "interrupted"] ELSE run[r]]
    /\ UNCHANGED <<sub, thread, sent, ask, edit, faults, crashes>>

ThreadStep(r) == \/ Begin(r) \/ Symbol(r) \/ Send(r) \/ Advance(r)
                 \/ Close(r) \/ GiveUp(r) \/ Verify(r)

PushNext ==
    \/ \E c \in Callers : (\E s \in Subs : Ask(c, s)) \/ Queue(c)
    \/ \E r \in Runs : ThreadStep(r)
    \/ \E s \in Subs : EditRead(s) \/ Delete(s)
    \/ EditWrite
    \/ Crash(Web)
    \/ "cli" \in Callers /\ Crash({"cli"})
    \/ WebStart

PushSpec == PushInit /\ [][PushNext]_pvars

\* Threads that are not killed go on, and the service is started again.
FairPushSpec == PushSpec /\ WF_pvars(WebStart) /\ \A r \in Runs : WF_pvars(ThreadStep(r))

-----------------------------------------------------------------------------
\* Every variable keeps to its domain.
PushTypeOK == /\ sub \in [Subs -> Row]
              /\ run \in [Runs -> Run]
              /\ thread \in [Runs -> Places]
              /\ sent \in [Runs -> Nat]
              /\ ask \in [Callers -> Subs \union {NULL}]
              /\ edit = NULL \/ (edit.s \in Subs /\ edit.row \in Row)
              /\ up \in BOOLEAN
              /\ faults \in 0 .. MaxFaults /\ crashes \in 0 .. MaxCrashes

\* A subscription is never pushed by two threads at once: neither clicks, the
\* job and the command line together, nor the recovery at the start of the
\* service, which must leave alone what another living process is pushing.
OnePusher ==
    \A r, q \in Runs : /\ thread[r] \in Pushing /\ thread[q] \in Pushing
                       /\ run[r].sub = run[q].sub
                       => r = q

\* The rows tell what was sent: never more successes than messages, at most
\* one message more than successes per failing statement, and "succeeded"
\* only when every symbol the subscription had when it was queued was sent
\* once, whatever was edited since.
RowsTellDeliveries ==
    \A r \in Runs : run[r].status # "deleted" =>
        /\ run[r].ok <= sent[r] /\ run[r].processed <= run[r].total
        /\ sent[r] <= run[r].ok + 1 + faults
        /\ run[r].status = "succeeded" => sent[r] = run[r].total
        /\ run[r].status = "partial" => run[r].ok \in 1 .. run[r].total - 1

\* While a run is open its subscription exists, so its result has a place:
\* deletion and queueing exclude each other although the callers look the
\* subscription up in a transaction of its own.
OpenRunsHaveSubscription ==
    \A r \in Runs : run[r].status \in Active => sub[run[r].sub].present

\* All three together.
PushSafe == OnePusher /\ RowsTellDeliveries /\ OpenRunsHaveSubscription

\* Action property: a closed run is never opened again, an interrupted one
\* keeps its status, and any other closed one can only turn into "failed".
ClosedRunStays ==
    \A r \in Runs : run[r].status \in Closed /\ run'[r].status # "deleted" =>
       \/ run'[r].status = run[r].status
       \/ run[r].status # "interrupted" /\ run'[r].status = "failed"

\* Every run the service queued is closed or deleted, although a statement
\* may fail and the service may be killed between any two steps.
ServiceRunsEnd ==
    \A r \in Runs : (run[r].status \in Active /\ run[r].by \in Web)
                    ~> (run[r].status \notin Active)
=============================================================================
