--------------------------- MODULE UpdateService ---------------------------
(***************************************************************************)
(* The processes that execute combined updates: UpdateService of           *)
(* src/src/radar/update_service.py in the web process (manual updates      *)
(* only) and in the collection service, with the people who ask for        *)
(* updates and move the switch.                                            *)
(*                                                                         *)
(* The ETF half of an update is a run of the collection queue.  Here it is *)
(* the abstract run of RunQueue, told apart a little further: ChildQueue   *)
(* checks that it does what RunQueue allows, and CollectorStore is shown   *)
(* to implement RunQueue.  A step is one transaction, one read of a run or *)
(* of the switch, or one operation on the execution lock: a run is looked  *)
(* at and then promoted or retried, and it is shown as ended before its    *)
(* executor puts it back.  settings() that reads "off" cancels automatic   *)
(* runs in the same step.  What the collection service plans by itself and *)
(* what people ask of a run directly is modelled in CollectorWorker.       *)
(***************************************************************************)
EXTENDS UpdateQueue

CONSTANTS
    Services,    \* workers of the collection service; the others are web processes
    Mortal,      \* workers that may be killed
    Stoppable,   \* web processes that may be shut down
    Clients,     \* requests of people
    Runs,        \* runs of the collection queue
    RunOf,       \* the run an update of a slot works on
    MaxToggles   \* bound: moves of the switch

\* Every update has its run.
ASSUME RunsAssumption == RunOf \in [Slots -> Runs]

VARIABLES
    enabled, toggles,  \* the switch
    today,             \* the schedule key of the day
    child,             \* child[r]: a run of the collection queue
    lock,              \* holder of the execution lock, or None
    proc,              \* proc[w]
    client,            \* client[c]
    asked              \* updates a person was told are manual while they were open

queue == <<upd, rows>>
environment == <<enabled, toggles, today>>
svars == <<queue, environment, child, lock, proc, client, asked>>

Retry    == {"cancelled", "failed"}  \* "failed" stands for "partial" too
Child == [status : {"none", "queued", "running", "completed"} \union Retry,
          manual : BOOLEAN, cancel : BOOLEAN, tries : 0..MaxAttempts,
          live : BOOLEAN, ready : BOOLEAN, snap : BOOLEAN]

NewChild == [status |-> "none", manual |-> FALSE, cancel |-> FALSE, tries |-> 0,
             live |-> FALSE, ready |-> TRUE, snap |-> FALSE]

\* "task" is the update a process works on, "next" where a check of the switch
\* goes on, "manual" the source it read, "etf" the status of the run as last read
\* ("none" after an error: such a result names no run), "snap" the snapshot.
Process(pc) == [pc |-> pc, stop |-> FALSE, task |-> 0, next |-> "idle",
                manual |-> FALSE, etf |-> "none", snap |-> FALSE]

ServiceInit ==
    /\ UpdateInit
    /\ enabled \in BOOLEAN /\ toggles = 0 /\ today \in Days
    \* a complete snapshot of an earlier day may exist
    /\ child \in [Runs -> {[NewChild EXCEPT !.snap = s] : s \in BOOLEAN}]
    /\ lock = None
    /\ proc = [w \in Workers |-> Process("new")]
    /\ client = [c \in Clients |-> [pc |-> "idle", task |-> 0]]
    /\ asked = {}

\* Where a process is while it executes an update.
Executing == {"check", "checkswitch", "calendar", "submit", "submitted", "revive",
              "takeover", "demanded", "link", "promote", "promoting", "promoted",
              "exec", "start", "childrun", "retry", "retryswitch", "putback", "read",
              "wait", "snapshot", "overseas", "stopped"}

Up(w) == proc[w].pc \notin {"new", "dead"}
At(w, pc) == proc[w].pc = pc
Working(w) == proc[w].pc \in Executing
Go(w, pc) == proc' = [proc EXCEPT ![w].pc = pc]
CheckThen(w, pc) == proc' = [proc EXCEPT ![w].pc = "check", ![w].next = pc]
Mine(w) == RunOf[upd[proc[w].task].slot]
IsManual(w) == upd[proc[w].task].source = "manual"

Reads == UNCHANGED <<queue, environment, child, lock, client, asked>>
Writes == UNCHANGED <<environment, child, lock, client, asked>>
Moves == UNCHANGED <<queue, environment, lock, client, asked>>

-----------------------------------------------------------------------------
(***************************************************************************)
(* Runs of the collection queue, as far as updates see them.               *)
(***************************************************************************)
OffIgnoresManual(c) == IF c.status = "queued" THEN [c EXCEPT !.status = "cancelled"] ELSE c

Off(c) == CASE c.manual -> c
            [] ~c.manual /\ c.status = "queued" -> [c EXCEPT !.status = "cancelled"]
            [] ~c.manual /\ c.status = "running" -> [c EXCEPT !.cancel = TRUE]
            [] OTHER -> c

ChildrenOff == child' = [r \in Runs |-> Off(child[r])]

Revived(c) == [c EXCEPT !.status = "queued", !.manual = TRUE, !.cancel = FALSE,
                        !.tries = 0, !.ready = TRUE]
Promoted(c) == IF c.status \in {"queued", "running"}
               THEN [c EXCEPT !.manual = TRUE, !.cancel = FALSE, !.ready = TRUE] ELSE c

\* CollectorStore.enqueue: an existing run is kept.
Enqueued(c, byHand) ==
    IF c.status = "none" THEN [c EXCEPT !.status = "queued", !.manual = byHand] ELSE c

ChildExpired(c) == c.status = "running" /\ ~c.live
ChildRecovered(c) ==
    IF ~ChildExpired(c) THEN c
    ELSE [c EXCEPT !.status = CASE c.cancel -> "cancelled"
                                [] ~c.cancel /\ c.tries >= MaxAttempts -> "failed"
                                [] OTHER -> "queued",
                   !.ready = FALSE]
RecoverChildren == child' = [r \in Runs |-> ChildRecovered(child[r])]

ChildFree == \A r \in Runs : child[r].status # "running"
Started(c) == [c EXCEPT !.status = "running", !.tries = @ + 1, !.live = TRUE]

\* finish: complete, partial or failed, or cancelled by what a check saw: a request,
\* the switch, or a pool that is no longer the one the run was made for.
Ended(c) == {[c EXCEPT !.status = "completed", !.snap = TRUE]}
            \union {[c EXCEPT !.status = "failed", !.snap = s] : s \in {c.snap, TRUE}}
            \union {[c EXCEPT !.status = "cancelled"]}

\* retry of an executor: the delay of another try starts, the source stays.
CanPutBack(c) == c.status \in Retry /\ c.tries < MaxAttempts
Again(c) == [c EXCEPT !.status = "queued", !.ready = FALSE, !.cancel = FALSE]

-----------------------------------------------------------------------------
(***************************************************************************)
(* schedule, execute_one and the loops around them.                        *)
(***************************************************************************)
Home(w) == IF w \in Services THEN "schedule" ELSE "acquire"

\* Behind execute_one the service executes a single run in any case, the web
\* process only when it had no update to execute.
After(w) == IF w \in Services THEN "legacy" ELSE "acquire"

Start(w) ==
    /\ At(w, "new")
    /\ w \in Services => \A v \in Services : ~Up(v)
    /\ Go(w, Home(w))
    /\ Reads

\* schedule: the daily key of every pool without target day, once the switch was
\* read as on and the time of day is past.  Pools are taken one by one.
Schedule(w) ==
    /\ At(w, "schedule") /\ ~proc[w].stop
    /\ \/ ~enabled /\ ChildrenOff /\ Go(w, "acquire")
       \/ enabled /\ Go(w, "enqueue") /\ UNCHANGED child
       \/ enabled /\ Go(w, "acquire") /\ UNCHANGED child
    /\ UNCHANGED <<queue, environment, lock, client, asked>>

ScheduleEnqueue(w) ==
    /\ At(w, "enqueue")
    /\ \E slot \in Scheduled : Enqueue(slot, "automatic", today)
    /\ Go(w, "acquire")
    /\ Writes

AcquireUnlocked(w) ==
    /\ At(w, "acquire") /\ ~proc[w].stop
    /\ lock' = w /\ RecoverChildren /\ Go(w, "switch")
    /\ UNCHANGED <<queue, environment, client, asked>>

Acquire(w) ==
    /\ At(w, "acquire")
    /\ \/ /\ ~proc[w].stop /\ lock = None
          /\ lock' = w /\ RecoverChildren /\ Go(w, "switch")
       \/ /\ ~proc[w].stop /\ lock # None
          /\ Go(w, "legacy") /\ UNCHANGED <<lock, child>>
       \/ /\ proc[w].stop
          /\ Go(w, "dead") /\ UNCHANGED <<lock, child>>
    /\ UNCHANGED <<queue, environment, client, asked>>

Switch(w) ==
    /\ At(w, "switch")
    /\ \/ enabled /\ Go(w, "recover") /\ UNCHANGED child
       \/ ~enabled /\ ChildrenOff /\ Go(w, "withdraw")
    /\ Moves

Withdraw(w) == At(w, "withdraw") /\ CancelAutomatic /\ Go(w, "recover") /\ Writes

Recover(w) == At(w, "recover") /\ RecoverExpired /\ Go(w, "claim") /\ Writes

ManualOnly(w) == w \notin Services

TakeTask(w) ==
    /\ At(w, "claim")
    /\ \/ \E i \in Ids :
             /\ Claim(i, w, ManualOnly(w))
             /\ proc' = [proc EXCEPT ![w] = [Process("check") EXCEPT
                             !.task = i, !.next = "calendar", !.stop = proc[w].stop]]
             /\ UNCHANGED lock
       \/ /\ NoClaim(ManualOnly(w))
          /\ lock' = None /\ Go(w, "legacy") /\ UNCHANGED queue
    /\ UNCHANGED <<environment, child, client, asked>>

\* execute_one of CollectorWorker: a single waiting run, the service any, the web
\* process a manual one.
Legacy(w) ==
    /\ At(w, "legacy")
    /\ \/ lock = None /\ lock' = w /\ RecoverChildren /\ Go(w, "legacyclaim")
       \/ lock # None /\ Go(w, Home(w)) /\ UNCHANGED <<lock, child>>
    /\ UNCHANGED <<queue, environment, client, asked>>

Startable(r) == ChildFree /\ child[r].status = "queued" /\ child[r].ready

LegacyStart(w) ==
    LET mine == {r \in Runs : Startable(r) /\ (ManualOnly(w) => child[r].manual)}
    IN /\ At(w, "legacyclaim")
       /\ \/ /\ \E r \in mine :
                   /\ child' = [child EXCEPT ![r] = Started(@)]
                   /\ proc' = [proc EXCEPT ![w].pc = "legacyrun", ![w].next = r]
             /\ UNCHANGED lock
          \/ mine = {} /\ lock' = None /\ Go(w, Home(w)) /\ UNCHANGED child
       /\ UNCHANGED <<queue, environment, client, asked>>

\* _execute of CollectorWorker closes run r.  What is partial, and a failure that is
\* not one of the configuration, goes to _retry.
Finish(w, r, retry, end) ==
    /\ \E c \in Ended(child[r]) :
          /\ child' = [child EXCEPT ![r] = c]
          /\ \/ c.status = "failed" /\ Go(w, retry)
             \/ ~(c.status = "failed" /\ c.snap # child[r].snap) /\ Go(w, end)
    /\ Moves

\* _retry: the row of the run, for an automatic one the switch, then the transaction,
\* which looks at the row again.
RetryLook(w, r, switch, put, end) ==
    /\ Go(w, CASE child[r].tries >= MaxAttempts -> end
               [] child[r].tries < MaxAttempts /\ child[r].manual -> put
               [] OTHER -> switch)
    /\ Reads

\* The switch is read by _retry and once more by retry.
RetrySwitch(w, put, end) ==
    /\ \/ enabled /\ Go(w, put) /\ UNCHANGED child
       \/ ~enabled /\ Go(w, end) /\ (ChildrenOff \/ UNCHANGED child)
    /\ Moves

PutBack(w, r, end) ==
    /\ child' = [child EXCEPT ![r] = IF CanPutBack(@) THEN Again(@) ELSE @]
    /\ Go(w, end)
    /\ Moves

LegacyEnd(w) == /\ At(w, "legacyrun")
                /\ Finish(w, proc[w].next, "legacyretry", "legacyover")
LegacyRetry(w) ==
    \/ /\ At(w, "legacyretry")
       /\ RetryLook(w, proc[w].next, "legacyswitch", "legacyput", "legacyover")
    \/ At(w, "legacyswitch") /\ RetrySwitch(w, "legacyput", "legacyover")
    \/ At(w, "legacyput") /\ PutBack(w, proc[w].next, "legacyover")

LegacyRelease(w) ==
    /\ At(w, "legacyover")
    /\ lock' = None
    /\ proc' = [proc EXCEPT ![w].pc = Home(w), ![w].next = "idle"]
    /\ UNCHANGED <<queue, environment, child, client, asked>>

-----------------------------------------------------------------------------
(***************************************************************************)
(* _execute: the ETF branch, then the overseas branch.                     *)
(***************************************************************************)
\* check_cancelled reads the source of the update, then the switch.
Check(w) ==
    /\ At(w, "check")
    /\ Go(w, IF IsManual(w) THEN proc[w].next ELSE "checkswitch")
    /\ Reads

CheckSwitch(w) ==
    /\ At(w, "checkswitch")
    /\ \/ enabled /\ Go(w, proc[w].next) /\ UNCHANGED child
       \/ ~enabled /\ ChildrenOff /\ Go(w, "stopped")
    /\ Moves

\* The calendar or the pool may fail: the ETF branch is then over.
Calendar(w) ==
    /\ At(w, "calendar")
    /\ \/ proc' = [proc EXCEPT ![w].pc = "submit", ![w].manual = IsManual(w)]
       \/ Go(w, "snapshot")
    /\ Reads

\* enqueue_manual or enqueue_automatic: the run enters the queue, unless it is there,
Submit(w) ==
    /\ At(w, "submit")
    /\ child' = [child EXCEPT ![Mine(w)] = Enqueued(@, proc[w].manual)]
    /\ Go(w, "submitted")
    /\ Moves

\* and is read; a manual one is retried or promoted by what was read,
Submitted(w) ==
    /\ At(w, "submitted")
    /\ LET status == child[Mine(w)].status
       IN proc' = [proc EXCEPT ![w].etf = status,
                       ![w].pc = CASE ~proc[w].manual -> "link"
                                   [] proc[w].manual /\ status \in Retry -> "revive"
                                   [] OTHER -> "takeover"]
    /\ Reads

\* where a run that was put back meanwhile refuses the retry, which ends the ETF
\* branch, and one that ended meanwhile is left as it is,
Revive(w) ==
    /\ At(w, "revive")
    /\ \/ /\ child[Mine(w)].status \in Retry
          /\ child' = [child EXCEPT ![Mine(w)] = Revived(@)]
          /\ Go(w, "demanded")
       \/ /\ child[Mine(w)].status \notin Retry
          /\ proc' = [proc EXCEPT ![w].pc = "snapshot", ![w].etf = "none"]
          /\ UNCHANGED child
    /\ Moves

Takeover(w) ==
    /\ At(w, "takeover")
    /\ child' = [child EXCEPT ![Mine(w)] = Promoted(@)]
    /\ Go(w, "demanded")
    /\ Moves

\* and read again.
Demanded(w) ==
    /\ At(w, "demanded")
    /\ proc' = [proc EXCEPT ![w].pc = "link", ![w].etf = child[Mine(w)].status]
    /\ Reads

\* The update shows which run it waits for: from here on a manual request
\* reaches the run itself.
Link(w) ==
    /\ At(w, "link")
    /\ Write(proc[w].task, w, "running", TRUE)
    /\ Go(w, "promote")
    /\ Writes

PromoteNever(w) ==
    /\ At(w, "promote")
    /\ Go(w, IF proc[w].etf = "queued" THEN "exec" ELSE "read") /\ Reads

\* The source is read again after the link was written.
Promote(w) ==
    /\ At(w, "promote")
    /\ Go(w, CASE IsManual(w) -> "promoting"
               [] ~IsManual(w) /\ proc[w].etf = "queued" -> "exec"
               [] OTHER -> "read")
    /\ Reads

Promoting(w) ==
    /\ At(w, "promoting")
    /\ child' = [child EXCEPT ![Mine(w)] = Promoted(@)]
    /\ Go(w, "promoted")
    /\ Moves

AfterPromotion(w) ==
    /\ At(w, "promoted")
    /\ Go(w, IF child[Mine(w)].status = "queued" THEN "exec" ELSE "read")
    /\ Reads

\* execute_one(run_id): recovers what is expired, then claims this run only.
Exec(w) == At(w, "exec") /\ RecoverChildren /\ Go(w, "start") /\ Moves

StartRun(w) ==
    /\ At(w, "start")
    /\ \/ /\ Startable(Mine(w))
          /\ child' = [child EXCEPT ![Mine(w)] = Started(@)]
          /\ Go(w, "childrun")
       \/ ~Startable(Mine(w)) /\ Go(w, "read") /\ UNCHANGED child
    /\ Moves

ChildEnds(w) == At(w, "childrun") /\ Finish(w, Mine(w), "retry", "read")
ChildRetry(w) ==
    \/ At(w, "retry") /\ RetryLook(w, Mine(w), "retryswitch", "putback", "read")
    \/ At(w, "retryswitch") /\ RetrySwitch(w, "putback", "read")
    \/ At(w, "putback") /\ PutBack(w, Mine(w), "read")

ReadIgnoresRetry(w) ==
    /\ At(w, "read")
    /\ proc' = [proc EXCEPT ![w].pc = "snapshot", ![w].etf = child[Mine(w)].status]
    /\ Reads

\* The loop goes on while the run waits to be executed.
Read(w) ==
    /\ At(w, "read")
    /\ IF child[Mine(w)].status = "queued" THEN CheckThen(w, "wait")
       ELSE proc' = [proc EXCEPT ![w].pc = "snapshot", ![w].etf = child[Mine(w)].status]
    /\ Reads

\* A shutdown of the web process ends the ETF branch as failed.
Wait(w) ==
    /\ At(w, "wait")
    /\ \/ /\ ~proc[w].stop
          /\ Renew(proc[w].task, w)
          /\ IF child[Mine(w)].ready THEN Go(w, "exec") ELSE CheckThen(w, "wait")
       \/ /\ proc[w].stop
          /\ proc' = [proc EXCEPT ![w].pc = "snapshot", ![w].etf = "none"]
          /\ UNCHANGED queue
    /\ Writes

\* The snapshot of the run, else the last complete one of the pool.
Snapshot(w) ==
    /\ At(w, "snapshot")
    /\ Write(proc[w].task, w, "running", proc[w].etf # "none")
    /\ proc' = [proc EXCEPT ![w].pc = "check", ![w].next = "overseas",
                            ![w].snap = child[Mine(w)].snap]
    /\ Writes

\* The status of an update: "market" is "fresh", "stale" (some index has data of
\* an earlier day or an error) or "none".
Outcome(etf, market, snap) ==
    CASE etf = "completed" /\ market = "fresh" -> "completed"
      [] ~(etf = "completed" /\ market = "fresh") /\ (snap \/ market # "none") -> "partial"
      [] OTHER -> "failed"

\* The overseas branch, its write and the closing write.
Overseas(w) ==
    /\ At(w, "overseas")
    /\ \E market \in {"fresh", "stale", "none"} :
          Write(proc[w].task, w, Outcome(proc[w].etf, market, proc[w].snap),
                proc[w].etf # "none")
    /\ lock' = None /\ Go(w, After(w))
    /\ UNCHANGED <<environment, child, client, asked>>

\* UpdateCancelled
Stopped(w) ==
    /\ At(w, "stopped")
    /\ Write(proc[w].task, w, "cancelled", proc[w].next = "overseas" /\ proc[w].etf # "none")
    /\ lock' = None /\ Go(w, After(w))
    /\ UNCHANGED <<environment, child, client, asked>>

Step(w) ==
    \/ Schedule(w) \/ ScheduleEnqueue(w) \/ Acquire(w) \/ Switch(w) \/ Withdraw(w)
    \/ Recover(w) \/ TakeTask(w) \/ Legacy(w) \/ LegacyStart(w) \/ LegacyEnd(w)
    \/ LegacyRetry(w) \/ LegacyRelease(w) \/ Check(w) \/ CheckSwitch(w) \/ Calendar(w)
    \/ Submit(w) \/ Submitted(w) \/ Revive(w) \/ Takeover(w) \/ Demanded(w) \/ Link(w)
    \/ Promote(w) \/ Promoting(w) \/ AfterPromotion(w) \/ Exec(w) \/ StartRun(w)
    \/ ChildEnds(w) \/ ChildRetry(w) \/ Read(w) \/ Wait(w) \/ Snapshot(w)
    \/ Overseas(w) \/ Stopped(w)

-----------------------------------------------------------------------------
(***************************************************************************)
(* Heartbeats, crashes, people and time.                                   *)
(***************************************************************************)
Heartbeat(w) == /\ Working(w) /\ Renew(proc[w].task, w)
                /\ UNCHANGED <<environment, child, lock, proc, client, asked>>

\* A killed process loses the lock, as the operating system arranges.
CrashKeepsLock(w) ==
    /\ w \in Mortal /\ Up(w)
    /\ proc' = [proc EXCEPT ![w] = Process("dead")]
    /\ UNCHANGED <<queue, environment, child, client, asked, lock>>

Crash(w) ==
    /\ w \in Mortal /\ Up(w)
    /\ proc' = [proc EXCEPT ![w] = Process("dead")]
    /\ lock' = IF lock = w THEN None ELSE lock
    /\ UNCHANGED <<queue, environment, child, client, asked>>

\* UpdateService.stop: the thread goes on to a safe end.
Stop(w) ==
    /\ w \in Stoppable /\ Up(w) /\ ~proc[w].stop
    /\ proc' = [proc EXCEPT ![w].stop = TRUE]
    /\ Reads

\* UpdateService.enqueue: the update, and when that is linked to a run,
Ask(c) ==
    /\ client[c].pc = "idle"
    /\ \E slot \in Slots :
          /\ Enqueue(slot, "manual", None)
          /\ LET i == CHOOSE i \in Ids : upd'[i].slot = slot /\ upd'[i].status \in Open
             IN /\ asked' = asked \union {i}
                /\ client' = [client EXCEPT ![c] =
                       [pc |-> IF upd[i].linked THEN "look" ELSE "done", task |-> i]]
    /\ UNCHANGED <<environment, child, lock, proc>>

\* the run, which is read first and then retried or promoted by what was read.
RunAsked(c) == RunOf[upd[client[c].task].slot]

Look(c) ==
    /\ client[c].pc = "look"
    /\ client' = [client EXCEPT ![c].pc =
           IF child[RunAsked(c)].status \in Retry THEN "revive" ELSE "promote"]
    /\ UNCHANGED <<queue, environment, child, lock, proc, asked>>

\* A request is "missed" when the run was put back before the retry, which is then
\* refused, or ended before the promotion, which then changes nothing.
Reach(c) ==
    /\ LET r == RunAsked(c) IN
       \/ /\ client[c].pc = "revive" /\ child[r].status \in Retry
          /\ child' = [child EXCEPT ![r] = Revived(@)]
          /\ client' = [client EXCEPT ![c].pc = "done"]
       \/ /\ client[c].pc = "promote" /\ child[r].status \notin Retry
          /\ child' = [child EXCEPT ![r] = Promoted(@)]
          /\ client' = [client EXCEPT ![c].pc = "done"]
       \/ /\ client[c].pc \in {"revive", "promote"}
          /\ (client[c].pc = "promote") = (child[r].status \in Retry)
          /\ client' = [client EXCEPT ![c].pc = "missed"]
          /\ UNCHANGED child
    /\ UNCHANGED <<queue, environment, lock, proc, asked>>

Toggle ==
    /\ toggles < MaxToggles
    /\ enabled' = ~enabled /\ toggles' = toggles + 1
    /\ UNCHANGED <<queue, today, child, lock, proc, client, asked>>

\* Leases run out.  That of a run matters only after its executor died, so the
\* heartbeat of a run is left out.
LeaseLapses(i) == Lapse(i) /\ UNCHANGED <<environment, child, lock, proc, client, asked>>
ChildLapses(r) ==
    /\ child[r].status = "running" /\ child[r].live
    /\ child' = [child EXCEPT ![r].live = FALSE]
    /\ UNCHANGED <<queue, environment, lock, proc, client, asked>>
DelayOver(r) ==
    /\ ~child[r].ready
    /\ child' = [child EXCEPT ![r].ready = TRUE]
    /\ UNCHANGED <<queue, environment, lock, proc, client, asked>>
Time == \/ \E i \in Ids : LeaseLapses(i)
        \/ \E r \in Runs : ChildLapses(r) \/ DelayOver(r)

ServiceNext ==
    \/ \E w \in Workers : Start(w) \/ Step(w) \/ Heartbeat(w) \/ Crash(w) \/ Stop(w)
    \/ \E c \in Clients : Ask(c) \/ Look(c) \/ Reach(c)
    \/ Toggle
    \/ Time

ServiceSpec == ServiceInit /\ [][ServiceNext]_svars

-----------------------------------------------------------------------------
\* The lock belongs to a live process, and every process is where its code is.
ServiceTypeOK ==
    /\ UpdateTypeOK
    /\ child \in [Runs -> Child]
    /\ lock # None => Up(lock)
    /\ \A w \in Workers : Working(w) => lock = w

\* A process that executes an update owns it, however late its heartbeat: the
\* writes of _execute never find the lease gone.
OwnerKeepsUpdate == \A w \in Workers : Working(w) => Owned(proc[w].task, w)

\* An update that a person took over while it ran reaches its run: once the link is
\* written, the executor has looked again and every request for the update is
\* through, the run is manual too, or it has ended.  A request that finds the run
\* between its end and its retry may miss it (TakeoverHolds of CollectorWorker shows
\* that), so an update with such a request is excepted; nothing else is.
TakeoverReachesRun ==
    \A w \in Workers :
        /\ Working(w) /\ IsManual(w)
        /\ proc[w].pc \in {"promoted", "exec", "start", "childrun", "retry", "retryswitch",
                           "putback", "read", "wait"}
        /\ \A c \in Clients : client[c].task = proc[w].task => client[c].pc = "done"
        => child[Mine(w)].manual \/ child[Mine(w)].status \notin {"queued", "running"}

\* What the processes and the people keep to.
ServiceSafe == ServiceTypeOK /\ OwnerKeepsUpdate /\ TakeoverReachesRun

\* Action property: an update waits for the retries of its run, and closes as
\* "completed" only when the run is complete.
ClosesOnlyAfterRun ==
    \A w \in Workers :
        At(w, "overseas") /\ upd'[proc[w].task].status # "running"
        => /\ proc[w].etf # "queued"
           /\ upd'[proc[w].task].status = "completed" =>
                 child[Mine(w)].status = "completed"

ClosesAfterRun == [][ClosesOnlyAfterRun]_svars

-----------------------------------------------------------------------------
Abstract(c) == CASE c.status = "none" -> "none"
                 [] c.status = "queued" -> "waiting"
                 [] c.status = "running" -> "active"
                 [] c.status = "completed" -> "complete"
                 [] OTHER -> "over"

Collection == INSTANCE RunQueue WITH
             Keys <- Runs, Budget <- MaxAttempts,
             state <- [r \in Runs |-> Abstract(child[r])],
             manual <- [r \in Runs |-> child[r].manual],
             tries <- [r \in Runs |-> child[r].tries]

\* The runs seen from here do only what the collection queue promises.
ChildQueue == Collection!Spec
=============================================================================
