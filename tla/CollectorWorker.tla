--------------------------- MODULE CollectorWorker ---------------------------
(***************************************************************************)
(* The processes that execute the collection queue                         *)
(* (src/src/radar/collector_worker.py, src/src/radar/refresh.py): the      *)
(* collection service, which plans automatic runs and executes all runs,   *)
(* the web process, which executes manual runs only, and the people who    *)
(* ask for runs, switch automatic collection on and off, edit pools, stop  *)
(* the service or kill a process.                                          *)
(*                                                                         *)
(* A step is one transaction of the store, one read of the configuration   *)
(* or one operation on the execution lock; between two steps anything else *)
(* may happen.  The heartbeat thread is an action of its own.              *)
(***************************************************************************)
EXTENDS CollectorStore

CONSTANTS
    Daemons,     \* workers that run serve(); the others are web processes
    Mortal,      \* workers that may be killed
    Stoppable,   \* workers that may receive a stop signal
    Clients,     \* requests of people, each made once
    LastDay,     \* bound: the last day the calendar reaches
    MaxToggles,  \* bound: how often the switch is moved
    MaxEdits     \* bound: how often a pool definition changes

ASSUME DaemonsAssumption == Daemons \subseteq Workers
ASSUME BoundsAssumption == /\ LastDay \in Nat \ {0} /\ 1..LastDay \subseteq Days
                           /\ MaxToggles \in Nat /\ MaxEdits \in Nat

VARIABLES
    enabled,    \* radar.collector.enabled in the YAML configuration
    toggles,    \* how often it was moved
    offered,    \* keys of enabled pools in their present configuration
    broken,     \* a pool file cannot be loaded
    edits,      \* how often the pool files changed
    target,     \* latest closed trading day of the calendar
    lock,       \* holder of radar_collector.execute.lock, or None
    proc,       \* proc[w]: the process with worker_id w
    client,     \* client[c]: where a manual request stands
    reader,     \* an API call of settings() has read "off" and not yet cancelled
    asked,      \* keys a person was told are taken over, with no outcome since
    published   \* keys with a completed snapshot in RadarStore

queue == <<run, rows, latest>>
environment == <<enabled, toggles, offered, broken, edits, target>>
wvars == <<queue, environment, lock, proc, client, reader, asked, published>>

Active == Waiting \union {"running"}
Retryable == {"failed", "partial", "cancelled"}
Outcome == {"completed", "partial", "failed"}

\* A process.  "next" is where a check for cancellation, or a requeue, continues,
\* "key" the run it works on, "left" the instruments still to fetch, "got" tells
\* whether one of them has data, "exc" is the exception being handled, "outcome"
\* the status chosen for finish, "flag" the switch as last read, "prev" the
\* switch in the previous round, "err" whether that round failed, "must" whether
\* this round plans whatever the time of day, "todo" and "revive" what is left
\* of the plan.
Process(life, pc) ==
    [life |-> life, pc |-> pc, stop |-> FALSE, next |-> "none", key |-> None,
     left |-> {}, got |-> FALSE, exc |-> "none", outcome |-> "none",
     flag |-> FALSE, prev |-> "none", err |-> FALSE, must |-> TRUE,
     todo |-> {}, revive |-> {}]

Home(w) == IF w \in Daemons THEN "top" ELSE "acquire"

WInit ==
    /\ Init
    /\ enabled \in BOOLEAN /\ toggles = 0
    /\ offered = Keys /\ broken = FALSE /\ edits = 0 /\ target = 1
    /\ lock = None
    /\ proc = [w \in Workers |-> Process("new", Home(w))]
    /\ client = [c \in Clients |-> [pc |-> "idle", key |-> None, api |-> FALSE,
                                    saw |-> "none"]]
    /\ reader = FALSE /\ asked = {} /\ published = {}

Up(w) == proc[w].life = "up"
At(w, pc) == Up(w) /\ proc[w].pc = pc

\* Process w moves on to pc; Then also says which of its fields change.
Go(w, pc) == proc' = [proc EXCEPT ![w].pc = pc]
CheckThen(w, pc) == proc' = [proc EXCEPT ![w].pc = "check", ![w].next = pc]
Raise(w, exc) == proc' = [proc EXCEPT ![w].pc = "handle", ![w].exc = exc]

\* A request is answered when its run has an outcome.
Answered == asked' = {k \in asked : run'[k].status \notin Outcome}

\* A process step that only reads, and one whose transaction changes the queue.
Reads == UNCHANGED <<queue, environment, lock, client, reader, asked, published>>
Writes == Answered /\ UNCHANGED <<environment, lock, client, reader, published>>

-----------------------------------------------------------------------------
(***************************************************************************)
(* serve and coordinate: the planning round of the collection service.     *)
(***************************************************************************)

\* The daemon lock admits one service at a time.
Start(w) ==
    /\ proc[w].life = "new"
    /\ w \in Daemons => \A d \in Daemons : ~Up(d)
    /\ proc' = [proc EXCEPT ![w].life = "up"]
    /\ Reads

SwitchState == IF enabled THEN "on" ELSE "off"

\* settings() at the top of the loop; a changed schedule or a failed round
\* turns the next planning into a recovery.
Top(w) ==
    /\ At(w, "top")
    /\ IF proc[w].stop
       THEN proc' = [proc EXCEPT ![w] = Process("dead", "top")]
       ELSE proc' = [proc EXCEPT ![w].must = @ \/ proc[w].err \/ proc[w].prev # SwitchState,
                                 ![w].prev = SwitchState,
                                 ![w].pc = IF enabled THEN "coordinate" ELSE "topoff"]
    /\ Reads

TopOff(w) == At(w, "topoff") /\ CancelAutomatic /\ Go(w, "coordinate") /\ Writes

EndRound(w, err) ==
    proc' = [proc EXCEPT ![w].pc = "acquire", ![w].err = err, ![w].must = FALSE,
                         ![w].todo = {}, ![w].revive = {}, ![w].key = None]

\* coordinate reads the switch again.  Without a recovery the time of day
\* decides whether there is anything to plan.
Coordinate(w) ==
    /\ At(w, "coordinate")
    /\ \/ enabled /\ Go(w, "plan")
       \/ enabled /\ ~proc[w].must /\ EndRound(w, FALSE)
       \/ ~enabled /\ Go(w, "coordinateoff")
    /\ Reads

CoordinateOff(w) ==
    At(w, "coordinateoff") /\ CancelAutomatic /\ EndRound(w, FALSE) /\ Writes

Planned == {k \in offered : TargetOf[k] = target}

\* _enqueue, its first half: older automatic runs give way, and the pools and
\* their fingerprints are read.  A pool file that cannot be read ends the round.
Plan(w) ==
    /\ At(w, "plan")
    /\ CancelSuperseded(target)
    /\ IF broken
       THEN EndRound(w, TRUE)
       ELSE proc' = [proc EXCEPT ![w].pc = "enqueue", ![w].todo = Planned]
    /\ Writes

ReviveAnyEnded(w) ==
    /\ At(w, "enqueue")
    /\ \/ \E k \in proc[w].todo :
             /\ Enqueue(k, "automatic")
             /\ proc' = [proc EXCEPT ![w].todo = @ \ {k},
                                     ![w].revive = IF run[k].status \in Retryable
                                                   THEN @ \union {k} ELSE @]
             /\ Writes
       \/ proc[w].todo = {} /\ Go(w, "revive") /\ Reads

ReviveNone(w) ==
    /\ At(w, "enqueue")
    /\ \/ \E k \in proc[w].todo : /\ Enqueue(k, "automatic")
                                  /\ proc' = [proc EXCEPT ![w].todo = @ \ {k}]
                                  /\ Writes
       \/ proc[w].todo = {} /\ Go(w, "revive") /\ Reads

\* _enqueue, its second half: one transaction per pool, noting the cancelled.
EnqueuePlanned(w) ==
    /\ At(w, "enqueue")
    /\ \/ \E k \in proc[w].todo :
             /\ Enqueue(k, "automatic")
             /\ proc' = [proc EXCEPT ![w].todo = @ \ {k},
                                     ![w].revive = IF run[k].status = "cancelled"
                                                   THEN @ \union {k} ELSE @]
             /\ Writes
       \/ /\ proc[w].todo = {}
          /\ Go(w, "revive")
          /\ Reads

\* The cancelled runs of the plan are put back, one after the other.
Revive(w) ==
    /\ At(w, "revive")
    /\ \/ \E k \in proc[w].revive :
             proc' = [proc EXCEPT ![w].pc = "reread", ![w].next = "revive",
                                  ![w].key = k, ![w].revive = @ \ {k}]
       \/ proc[w].revive = {} /\ EndRound(w, FALSE)
    /\ Reads

\* retry(manual=False): the switch is read before the transaction.
Reread(w) ==
    /\ At(w, "reread")
    /\ proc' = [proc EXCEPT ![w].pc = "requeue", ![w].flag = enabled]
    /\ Reads

\* A ValueError of retry is dropped by _retry, but ends the round of coordinate.
Requeue(w) ==
    /\ At(w, "requeue")
    /\ LET k == proc[w].key IN
       \/ /\ Retry(k, FALSE, proc[w].flag)
          /\ Go(w, proc[w].next)
          /\ Writes
       \/ /\ ~CanRetry(k, FALSE, proc[w].flag)
          /\ IF proc[w].next = "revive" THEN EndRound(w, TRUE) ELSE Go(w, "release")
          /\ Reads

-----------------------------------------------------------------------------
(***************************************************************************)
(* execute_one and _execute.                                               *)
(***************************************************************************)

AcquireUnlocked(w) ==
    /\ At(w, "acquire")
    /\ lock' = w /\ Go(w, "recover")
    /\ UNCHANGED <<queue, environment, client, reader, asked, published>>

Acquire(w) ==
    /\ At(w, "acquire")
    /\ \/ lock = None /\ lock' = w /\ Go(w, "recover")
       \/ lock # None /\ lock' = lock /\ Go(w, Home(w))
    /\ UNCHANGED <<queue, environment, client, reader, asked, published>>

Recover(w) == At(w, "recover") /\ RecoverExpired /\ Go(w, "claim") /\ Writes

ClaimRun(w) ==
    /\ At(w, "claim")
    /\ LET manualOnly == w \notin Daemons IN
       \/ \E k \in Keys :
             /\ Claim(k, w, manualOnly, Keys)
             /\ proc' = [proc EXCEPT ![w].pc = "check", ![w].next = "begin", ![w].key = k]
             /\ Writes
       \/ NothingToClaim(manualOnly, Keys) /\ Go(w, "release") /\ Reads

\* cancelled() said yes: before the refresh the run is finished at once, later
\* RadarRefreshCancelled is raised.
StopHere(w) ==
    IF proc[w].next = "begin"
    THEN proc' = [proc EXCEPT ![w].pc = "finish", ![w].outcome = "cancelled"]
    ELSE Raise(w, "cancelled")

\* cancelled(): the row first,
Check(w) ==
    /\ At(w, "check")
    /\ LET r == run[proc[w].key] IN
       \/ (r.cancel \/ proc[w].stop) /\ StopHere(w)
       \/ /\ ~(r.cancel \/ proc[w].stop)
          /\ Go(w, IF r.source = "manual" THEN "checkpool" ELSE "checkswitch")
    /\ Reads

\* for an automatic run the switch, where "off" also cancels,
CheckSwitch(w) ==
    /\ At(w, "checkswitch")
    /\ Go(w, IF enabled THEN "checkpool" ELSE "checkoff")
    /\ Reads

CheckOff(w) == At(w, "checkoff") /\ CancelAutomatic /\ StopHere(w) /\ Writes

\* and last whether the pool is still the one the run was made for.
CheckPool(w) ==
    /\ At(w, "checkpool")
    /\ \/ broken /\ Raise(w, "fatal")
       \/ ~broken /\ proc[w].key \notin offered /\ StopHere(w)
       \/ ~broken /\ proc[w].key \in offered /\ Go(w, proc[w].next)
    /\ Reads

\* refresh starts, unless the calendar, the pool or the provider refuse.
Begin(w) ==
    /\ At(w, "begin")
    /\ \/ /\ SetPhase(proc[w].key, w, "syncing")
          /\ proc' = [proc EXCEPT ![w].pc = "check", ![w].left = Symbols, ![w].got = FALSE,
                                  ![w].next = IF Symbols = {} THEN "score" ELSE "fetch"]
          /\ Writes
       \/ \E exc \in {"retryable", "fatal"} : Raise(w, exc) /\ Reads

\* One instrument is fetched, or its cache validated, and reported by on_item.
Fetch(w) ==
    /\ At(w, "fetch")
    /\ \E s \in proc[w].left : \E ok \in BOOLEAN :
          /\ LET k == proc[w].key IN
             \/ ok /\ RecordItem(k, w, s, "completed")
             \/ ~ok /\ run[k].items[s] = "completed" /\ InvalidateItem(k, w, s)
             \/ ~ok /\ run[k].items[s] # "completed" /\ RecordItem(k, w, s, "failed")
          /\ proc' = [proc EXCEPT ![w].left = @ \ {s}, ![w].got = @ \/ ok, ![w].pc = "check",
                                  ![w].next = IF proc[w].left = {s} THEN "score" ELSE "fetch"]
    /\ Writes

\* Without any data the refresh fails; scoring itself may raise.
Score(w) ==
    /\ At(w, "score")
    /\ \/ ~proc[w].got /\ Raise(w, "retryable") /\ Reads
       \/ /\ proc[w].got
          /\ SetPhase(proc[w].key, w, "scoring")
          /\ CheckThen(w, "publish") \/ \E exc \in {"retryable", "fatal"} : Raise(w, exc)
          /\ Writes

Publish(w) ==
    /\ At(w, "publish")
    /\ SetPhase(proc[w].key, w, "publishing")
    /\ CheckThen(w, "commit")
    /\ Writes

SettledAfterPublish(items) == "completed"

Settled(items) ==
    IF \A s \in Symbols : items[s] = "completed" THEN "completed" ELSE "partial"

\* complete_run makes the snapshot readable; the status for finish is chosen from
\* the items, which no one else can change.
Commit(w) ==
    /\ At(w, "commit")
    /\ published' = published \union {proc[w].key}
    /\ proc' = [proc EXCEPT ![w].pc = "finish", ![w].exc = "none",
                            ![w].outcome = Settled(run[proc[w].key].items)]
    /\ UNCHANGED <<queue, environment, lock, client, reader, asked>>

\* The exception handler reads the row before it chooses how to finish.
Handle(w) ==
    /\ At(w, "handle")
    /\ LET stopped == \/ proc[w].exc = "cancelled"
                      \/ run[proc[w].key].cancel
                      \/ proc[w].stop
       IN proc' = [proc EXCEPT ![w].pc = "finish",
                               ![w].outcome = IF stopped THEN "cancelled" ELSE "failed"]
    /\ Reads

WorthRetrying(p) == \/ p.outcome = "partial"
                    \/ p.outcome = "failed" /\ p.exc = "retryable"

FinishRun(w) ==
    /\ At(w, "finish")
    /\ Finish(proc[w].key, w, proc[w].outcome, Published(proc[w].outcome))
    /\ Go(w, IF WorthRetrying(proc[w]) THEN "retry" ELSE "release")
    /\ Writes

\* _retry: the budget and the source first, the switch for an automatic run.
RetryRun(w) ==
    /\ At(w, "retry")
    /\ LET r == run[proc[w].key] IN
       \/ r.attempt >= MaxAttempts /\ Go(w, "release")
       \/ /\ r.attempt < MaxAttempts
          /\ proc' = [proc EXCEPT ![w].next = "release",
                          ![w].pc = IF r.source = "manual" THEN "reread" ELSE "retryswitch"]
    /\ Reads

RetrySwitch(w) ==
    /\ At(w, "retryswitch")
    /\ Go(w, IF enabled THEN "reread" ELSE "retryoff")
    /\ Reads

RetryOff(w) == At(w, "retryoff") /\ CancelAutomatic /\ Go(w, "release") /\ Writes

Release(w) ==
    /\ At(w, "release")
    /\ lock' = None
    /\ proc' = [proc EXCEPT ![w] =
                   [Process("up", Home(w)) EXCEPT !.stop = proc[w].stop,
                        !.prev = proc[w].prev, !.err = proc[w].err, !.must = proc[w].must]]
    /\ UNCHANGED <<queue, environment, client, reader, asked, published>>

\* The heartbeat thread, and the loss of a process: its lock is released by the
\* operating system, its row stays "running" until the lease expires.
Heartbeat(w) ==
    /\ Up(w) /\ proc[w].key # None
    /\ RenewLease(proc[w].key, w)
    /\ UNCHANGED proc
    /\ Writes

CrashKeepsLock(w) ==
    /\ w \in Mortal /\ Up(w)
    /\ proc' = [proc EXCEPT ![w] = Process("dead", Home(w))]
    /\ UNCHANGED <<queue, lock, environment, client, reader, asked, published>>

Crash(w) ==
    /\ w \in Mortal /\ Up(w)
    /\ proc' = [proc EXCEPT ![w] = Process("dead", Home(w))]
    /\ lock' = IF lock = w THEN None ELSE lock
    /\ UNCHANGED <<queue, environment, client, reader, asked, published>>

Signal(w) ==
    /\ w \in Stoppable /\ Up(w) /\ ~proc[w].stop
    /\ proc' = [proc EXCEPT ![w].stop = TRUE]
    /\ Reads

-----------------------------------------------------------------------------
(***************************************************************************)
(* People: manual requests, the switch, the pool files, and time.          *)
(***************************************************************************)

\* The first half of a manual request: the command line enqueues, the retry
\* button of the web page reads an existing run.
Ask(c) ==
    /\ client[c].pc = "idle"
    /\ \E k \in Keys :
       \/ /\ k \in offered /\ ~broken /\ TargetOf[k] <= target
          /\ Enqueue(k, "manual")
          /\ client' = [client EXCEPT ![c] = [pc |-> "act", key |-> k, api |-> FALSE,
                                              saw |-> run'[k].status]]
       \/ /\ Present(k)
          /\ UNCHANGED queue
          /\ client' = [client EXCEPT ![c] = [pc |-> "act", key |-> k, api |-> TRUE,
                            saw |-> IF run[k].status \in Active /\ run[k].source = "manual"
                                    THEN "taken" ELSE run[k].status]]
    /\ Answered
    /\ UNCHANGED <<environment, lock, proc, reader, published>>

\* The second half acts on the status seen by the first: promote_manual for an
\* active run, retry for an ended one.  When another request was faster, the
\* web page reports the run as its own result.
Act(c) ==
    /\ client[c].pc = "act"
    /\ client' = [client EXCEPT ![c].pc = "done"]
    /\ LET k == client[c].key
           Accepted == asked' = {j \in asked \union {k} : run'[j].status \notin Outcome}
       IN \/ client[c].saw \in Active /\ PromoteManual(k) /\ Accepted
          \/ client[c].saw = "taken" /\ UNCHANGED queue /\ Accepted
          \/ client[c].saw = "completed" /\ UNCHANGED queue /\ Answered
          \/ client[c].saw \in Retryable /\ Retry(k, TRUE, TRUE) /\ Accepted
          \/ /\ client[c].saw \in Retryable /\ ~CanRetry(k, TRUE, TRUE)
             /\ UNCHANGED queue
             /\ IF client[c].api /\ run[k].status \in Active THEN Accepted ELSE Answered
    /\ UNCHANGED <<environment, lock, proc, reader, published>>

Toggle ==
    /\ toggles < MaxToggles
    /\ enabled' = ~enabled /\ toggles' = toggles + 1
    /\ UNCHANGED <<queue, offered, broken, edits, target, lock, proc, client, reader,
                   asked, published>>

\* settings() called by the web page, after saving the switch or to show it.
ReadSettings ==
    /\ ~enabled /\ ~reader /\ reader' = TRUE
    /\ UNCHANGED <<queue, environment, lock, proc, client, asked, published>>

CancelAfterRead ==
    /\ reader /\ reader' = FALSE
    /\ CancelAutomatic
    /\ Answered
    /\ UNCHANGED <<environment, lock, proc, client, published>>

Edit ==
    /\ edits < MaxEdits /\ edits' = edits + 1
    /\ \/ broken' = ~broken /\ UNCHANGED offered
       \/ \E k \in Keys : /\ offered' = IF k \in offered THEN offered \ {k}
                                        ELSE offered \union {k}
                          /\ UNCHANGED broken
    /\ UNCHANGED <<queue, enabled, toggles, target, lock, proc, client, reader, asked,
                   published>>

NextDay ==
    /\ target < LastDay /\ target' = target + 1
    /\ UNCHANGED <<queue, enabled, toggles, offered, broken, edits, lock, proc, client,
                   reader, asked, published>>

PassTime ==
    /\ Tick
    /\ UNCHANGED <<environment, lock, proc, client, reader, asked, published>>

-----------------------------------------------------------------------------

Step(w) ==
    \/ Top(w) \/ TopOff(w) \/ Coordinate(w) \/ CoordinateOff(w)
    \/ Plan(w) \/ EnqueuePlanned(w) \/ Revive(w) \/ Reread(w) \/ Requeue(w)
    \/ Acquire(w) \/ Recover(w) \/ ClaimRun(w)
    \/ Check(w) \/ CheckSwitch(w) \/ CheckOff(w) \/ CheckPool(w)
    \/ Begin(w) \/ Fetch(w) \/ Score(w) \/ Publish(w) \/ Commit(w)
    \/ Handle(w) \/ FinishRun(w) \/ RetryRun(w) \/ RetrySwitch(w) \/ RetryOff(w)
    \/ Release(w)

People == \/ \E c \in Clients : Ask(c) \/ Act(c)
          \/ Toggle \/ ReadSettings \/ CancelAfterRead \/ Edit \/ NextDay

WNext ==
    \/ \E w \in Workers : Start(w) \/ Step(w) \/ Heartbeat(w) \/ Crash(w) \/ Signal(w)
    \/ People
    \/ PassTime

WSpec == WInit /\ [][WNext]_wvars

-----------------------------------------------------------------------------
(***************************************************************************)
(* Safety.                                                                 *)
(***************************************************************************)

\* From the claim to finish.
Executing == {"check", "checkswitch", "checkoff", "checkpool", "begin", "fetch",
              "score", "publish", "commit", "handle", "finish"}
\* While the execution lock is held.
Locked == Executing \union {"recover", "claim", "retry", "retryswitch", "retryoff", "release"}

\* The domains of the variables; the lock never stays with a dead process.
WTypeOK ==
    /\ enabled \in BOOLEAN /\ toggles \in 0..MaxToggles /\ edits \in 0..MaxEdits
    /\ offered \subseteq Keys /\ broken \in BOOLEAN /\ target \in 1..LastDay
    /\ lock \in Workers \union {None} /\ (lock # None => Up(lock))
    /\ \A w \in Workers :
          /\ proc[w].life \in {"new", "up", "dead"}
          /\ proc[w].key \in Keys \union {None}
          /\ proc[w].left \subseteq Symbols
          /\ proc[w].todo \subseteq Keys /\ proc[w].revive \subseteq Keys
    /\ asked \subseteq Keys /\ published \subseteq Keys

\* A live process never loses the run it executes, however late its heartbeat:
\* the lease may lapse, but recover_expired runs under the execution lock that
\* this process still holds.  So the ValueError branches of _owned are never
\* taken by a live executor and no snapshot is published by a deposed one.
LiveOwnership ==
    \A w \in Workers : Up(w) =>
        /\ proc[w].pc \in Executing => Owned(proc[w].key, w)
        /\ proc[w].pc \in Locked => lock = w

\* What holds of the processes whatever they interleave with.
WorkersSafe == WTypeOK /\ LiveOwnership

\* What a run reports agrees with what was published: complete and partial runs
\* have a snapshot, and complete means every instrument (of the items of the row)
\* succeeded.
OutcomeMatchesSnapshot ==
    \A k \in Keys : run[k].status \in {"completed", "partial"} =>
        /\ k \in published
        /\ run[k].status = "completed"
             <=> \A s \in DOMAIN run[k].items : run[k].items[s] = "completed"

\* Action property: an automatic run that failed comes back only by a person's
\* request, which makes it a manual one with a new budget, or by the retry of the
\* process that has just failed it; no planning round puts it back, whatever it
\* noted before ("not queued again in every polling round").
FailedRunRests ==
    \A k \in Keys :
       Automatic(k) /\ run[k].status = "failed" /\ run'[k].status # "failed"
          => \/ run'[k].source = "manual" /\ run'[k].attempt = 0
             \/ \E w \in Workers : /\ At(w, "requeue") /\ proc[w].key = k
                                   /\ proc[w].next = "release"

FailuresRest == [][FailedRunRests]_wvars

\* A run that a person was told is taken over is a manual run until it has an
\* outcome, whatever happens to the switch meanwhile.
TakeoverHolds == \A k \in asked : run[k].source = "manual"

-----------------------------------------------------------------------------
(***************************************************************************)
(* Liveness.  A process that is not killed keeps running its loop, a       *)
(* service is started when none is up (the startup task restarts it), time *)
(* passes, and the daily planning time comes round while a target lasts.   *)
(* People, crashes and the heartbeat thread are not fair.                  *)
(***************************************************************************)
PlanIsDue(w) == Coordinate(w) /\ proc'[w].pc = "plan"

Fairness ==
    /\ \A w \in Workers : /\ WF_wvars(Start(w))
                          /\ WF_wvars(Step(w))
                          /\ SF_wvars(PlanIsDue(w))
    /\ WF_wvars(PassTime)

FairSpec == WSpec /\ Fairness

\* Every manual run comes to rest: crashes of the executing process, expired
\* leases and retries do not keep it in the queue, or in a retry loop, for ever.
ManualRunsEnd ==
    \A k \in Keys : <>[](run[k].source = "manual" => run[k].status \in Terminal)

\* Once the switch stays off, no automatic run stays in the queue: also the one
\* a process was about to requeue when the switch was moved.
SwitchOffDrains ==
    <>[]~enabled => \A k \in Keys : <>[](Automatic(k) => run[k].status \notin Active)

\* While the switch is on and its pool is offered, a run that was cancelled with
\* attempts left is put back by the planning rounds.
CancelledRunsReturn ==
    \A k \in Keys :
        <>[](enabled /\ ~broken /\ k \in Planned)
          => []<>~(run[k].status = "cancelled" /\ run[k].attempt < MaxAttempts)
=============================================================================
