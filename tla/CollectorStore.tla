--------------------------- MODULE CollectorStore ---------------------------
(***************************************************************************)
(* The persistent queue of radar collection runs: the SQLite tables        *)
(* collector_runs, collector_items and collector_status and the methods of *)
(* CollectorStore (src/src/radar/collector_store.py) that change them.     *)
(*                                                                         *)
(* Every method is one BEGIN IMMEDIATE transaction, so it is one atomic    *)
(* action here.  A row is unique per (pool, target day, configuration      *)
(* fingerprint) and is never deleted: a Key stands for that triple and     *)
(* run[k] for its row, "absent" until the first INSERT.                    *)
(*                                                                         *)
(* Time is relative: "lease" and "wait" are what is left until lease_until *)
(* and available_at, and Tick lets a unit of time pass.                    *)
(***************************************************************************)
EXTENDS Naturals

CONSTANTS
    Keys,        \* run identities: (universe_id, target_date, fingerprint)
    Pools,       \* universe_id
    PoolOf,      \* the pool of a key
    Days,        \* trading days of the calendar
    TargetOf,    \* the target day of a key
    Symbols,     \* the instruments of a run
    Workers,     \* worker_id: one per process lifetime (uuid4 at start)
    None,        \* SQL NULL in worker_id
    LeaseTicks,  \* lease_seconds
    ShortDelay,  \* 60 s: delay before the second attempt
    LongDelay    \* 300 s: delay before the third

ASSUME KeysAssumption == /\ PoolOf \in [Keys -> Pools]
                         /\ Days \subseteq Nat /\ TargetOf \in [Keys -> Days]
ASSUME WorkersAssumption == None \notin Workers
ASSUME TimesAssumption == /\ LeaseTicks \in Nat \ {0}
                          /\ ShortDelay \in Nat /\ LongDelay \in Nat

VARIABLES
    run,     \* run[k]: the row of key k with its items
    rows,    \* number of rows inserted so far (rowid)
    latest   \* collector_status: last outcome shown for each pool

vars == <<run, rows, latest>>

MaxAttempts == 3

Waiting  == {"queued", "retry_wait"}
Terminal == {"completed", "partial", "failed", "cancelled"}
Statuses == {"absent", "running"} \union Waiting \union Terminal
WorkPhases == {"preparing", "syncing", "scoring", "publishing"}
Phases   == {"absent"} \union Waiting \union WorkPhases \union Terminal
\* "automatic" stands for "recovery" too: every query asks for source!='manual'.
Sources  == {"none", "manual", "automatic"}
ItemStatuses == {"pending", "completed", "failed"}

Row == [status : Statuses, phase : Phases, source : Sources,
        attempt : Nat, worker : Workers \union {None}, lease : Nat,
        wait : Nat, cancel : BOOLEAN, snapshot : BOOLEAN,
        items : [Symbols -> ItemStatuses], born : Nat]

NewRow(status, source, id) ==
    [status |-> status, phase |-> status, source |-> source, attempt |-> 0,
     worker |-> None, lease |-> 0, wait |-> 0, cancel |-> FALSE,
     snapshot |-> FALSE, items |-> [s \in Symbols |-> "pending"], born |-> id]

Present(k) == run[k].status # "absent"
Running(k) == run[k].status = "running"
Automatic(k) == run[k].source # "manual"

\* _owned: only the worker recorded in a running row may write to it.
Owned(k, w) == Running(k) /\ run[k].worker = w

Init == /\ run = [k \in Keys |-> NewRow("absent", "none", 0)]
        /\ rows = 0
        /\ latest = [p \in Pools |-> "never"]

-----------------------------------------------------------------------------
(***************************************************************************)
(* Submitting, taking over and withdrawing runs.                           *)
(***************************************************************************)

\* enqueue: idempotent, an existing row is returned as it is, whatever its
\* status and its source.
Enqueue(k, source) ==
    /\ \/ /\ ~Present(k)
          /\ run' = [run EXCEPT ![k] = NewRow("queued", source, rows + 1)]
          /\ rows' = rows + 1
       \/ /\ Present(k)
          /\ UNCHANGED <<run, rows>>
    /\ UNCHANGED latest

TakenOver(r) ==
    LET manual == [r EXCEPT !.source = "manual", !.cancel = FALSE]
    IN IF r.status = "retry_wait"
       THEN [manual EXCEPT !.status = "queued", !.phase = "queued", !.wait = 0]
       ELSE manual

\* promote_manual: a manual request takes over a run that is still active; the
\* worker of a running one keeps it.  Nothing happens to a finished run.
PromoteManual(k) ==
    /\ Present(k)
    /\ \/ /\ run[k].status \in Waiting \union {"running"}
          /\ run' = [run EXCEPT ![k] = TakenOver(@)]
       \/ /\ run[k].status \in Terminal
          /\ UNCHANGED run
    /\ UNCHANGED <<rows, latest>>

Withdrawn(r) == [r EXCEPT !.status = "cancelled", !.phase = "cancelled"]

SwitchedOffIgnoresSource(r) ==
    CASE r.status \in Waiting   -> Withdrawn(r)
      [] r.status = "running"   -> [r EXCEPT !.cancel = TRUE]
      [] OTHER                  -> r

SwitchedOff(r) ==
    CASE r.source # "manual" /\ r.status \in Waiting -> Withdrawn(r)
      [] r.source # "manual" /\ r.status = "running" -> [r EXCEPT !.cancel = TRUE]
      [] OTHER -> r

\* cancel_automatic: automatic collection was switched off.
CancelAutomatic ==
    /\ run' = [k \in Keys |-> SwitchedOff(run[k])]
    /\ UNCHANGED <<rows, latest>>

\* cancel_superseded: automatic runs for a day before the target.
CancelSuperseded(target) ==
    /\ run' = [k \in Keys |-> IF /\ Automatic(k)
                                 /\ run[k].status \in Waiting
                                 /\ TargetOf[k] < target
                              THEN Withdrawn(run[k]) ELSE run[k]]
    /\ UNCHANGED <<rows, latest>>

-----------------------------------------------------------------------------
(***************************************************************************)
(* Claiming a run and keeping it.                                          *)
(***************************************************************************)

\* The rows a claim may take: manualOnly is the web process, only restricts the
\* claim to given keys (run_id).
Claimable(manualOnly, only) ==
    {k \in only : /\ run[k].status \in Waiting
                  /\ run[k].wait = 0
                  /\ manualOnly => run[k].source = "manual"}

NothingRunningUnchecked == TRUE

NothingRunning == \A k \in Keys : ~Running(k)

ClaimedKeepsAttempt(r, w) ==
    [r EXCEPT !.status = "running", !.phase = "preparing", !.worker = w,
              !.lease = LeaseTicks]

Claimed(r, w) ==
    [r EXCEPT !.status = "running", !.phase = "preparing", !.worker = w,
              !.attempt = @ + 1, !.lease = LeaseTicks]

\* claim: the oldest eligible row, and only when no row at all is running.
Claim(k, w, manualOnly, only) ==
    /\ NothingRunning
    /\ k \in Claimable(manualOnly, only)
    /\ \A j \in Claimable(manualOnly, only) : run[k].born <= run[j].born
    /\ run' = [run EXCEPT ![k] = Claimed(@, w)]
    /\ UNCHANGED <<rows, latest>>

NothingToClaim(manualOnly, only) ==
    ~NothingRunning \/ Claimable(manualOnly, only) = {}

\* renew_lease: the heartbeat thread of the owner.
RenewLease(k, w) ==
    /\ Owned(k, w)
    /\ run' = [run EXCEPT ![k].lease = LeaseTicks]
    /\ UNCHANGED <<rows, latest>>

RecoveredDropsCancel(r) ==
    LET status == IF r.attempt >= MaxAttempts THEN "failed" ELSE "retry_wait"
    IN [r EXCEPT !.status = status, !.phase = status, !.worker = None,
                 !.lease = 0,
                 !.wait = IF r.attempt <= 1 THEN ShortDelay ELSE LongDelay]

Recovered(r) ==
    LET status == CASE r.cancel -> "cancelled"
                    [] ~r.cancel /\ r.attempt >= MaxAttempts -> "failed"
                    [] OTHER -> "retry_wait"
    IN [r EXCEPT !.status = status, !.phase = status, !.worker = None,
                 !.lease = 0,
                 !.wait = IF r.attempt <= 1 THEN ShortDelay ELSE LongDelay]

Expired(k) == Running(k) /\ run[k].lease = 0

\* recover_expired.  Its update of items left 'running' has nothing to do: no
\* caller of record_item stores that status.
RecoverExpired ==
    /\ run' = [k \in Keys |-> IF Expired(k) THEN Recovered(run[k]) ELSE run[k]]
    /\ UNCHANGED <<rows, latest>>

-----------------------------------------------------------------------------
(***************************************************************************)
(* Executing a claimed run.                                                *)
(***************************************************************************)

SetPhase(k, w, phase) ==
    /\ Owned(k, w)
    /\ run' = [run EXCEPT ![k].phase = phase]
    /\ UNCHANGED <<rows, latest>>

\* record_item: never overwrites the result of a completed item.
RecordItem(k, w, s, status) ==
    /\ Owned(k, w)
    /\ run' = [run EXCEPT ![k].items[s] =
                   IF @ = "completed" THEN @ ELSE status]
    /\ UNCHANGED <<rows, latest>>

\* invalidate_item: the one way a completed item is taken back.
InvalidateItem(k, w, s) ==
    /\ Owned(k, w)
    /\ run' = [run EXCEPT ![k].items[s] = "failed"]
    /\ UNCHANGED <<rows, latest>>

Finished(r, status, snapshot) ==
    [r EXCEPT !.status = status, !.phase = status, !.snapshot = snapshot,
              !.worker = None, !.lease = 0]

FinishShowsStatus(k, w, status, snapshot) ==
    /\ Owned(k, w)
    /\ run' = [run EXCEPT ![k] = Finished(@, status, snapshot)]
    /\ latest' = [latest EXCEPT ![PoolOf[k]] = status]
    /\ UNCHANGED rows

\* finish: cancel_requested stays as it was; a cancelled run leaves the status
\* of its pool alone.
Finish(k, w, status, snapshot) ==
    /\ Owned(k, w)
    /\ run' = [run EXCEPT ![k] = Finished(@, status, snapshot)]
    /\ latest' = CASE status = "cancelled" -> latest
                   [] status \in {"completed", "partial"} /\ snapshot ->
                        [latest EXCEPT ![PoolOf[k]] = "completed"]
                   [] OTHER -> [latest EXCEPT ![PoolOf[k]] = "failed"]
    /\ UNCHANGED rows

\* retry raises ValueError, and changes nothing, unless this holds.  "enabled"
\* is the switch as the caller's process read it before the transaction.
CanRetry(k, manual, enabled) ==
    /\ run[k].status \in {"failed", "partial", "cancelled"}
    /\ ~manual => /\ ~Automatic(k) \/ enabled
                  /\ run[k].attempt < MaxAttempts

RequeuedResetsItems(r, manual) ==
    LET reset == [r EXCEPT !.phase = "queued", !.cancel = FALSE,
                           !.items = [s \in Symbols |-> "pending"]]
    IN IF manual
       THEN [reset EXCEPT !.status = "queued", !.source = "manual",
                          !.attempt = 0, !.wait = 0]
       ELSE [reset EXCEPT !.status = "retry_wait",
                          !.wait = IF r.attempt <= 1 THEN ShortDelay ELSE LongDelay]

Requeued(r, manual) ==
    LET reset == [r EXCEPT !.phase = "queued", !.cancel = FALSE,
                           !.items = [s \in Symbols |->
                               IF @[s] = "completed" THEN "completed" ELSE "pending"]]
    IN IF manual
       THEN [reset EXCEPT !.status = "queued", !.source = "manual",
                          !.attempt = 0, !.wait = 0]
       ELSE [reset EXCEPT !.status = "retry_wait",
                          !.wait = IF r.attempt <= 1 THEN ShortDelay ELSE LongDelay]

\* retry: a manual one starts with a new budget, an automatic one waits.
Retry(k, manual, enabled) ==
    /\ CanRetry(k, manual, enabled)
    /\ run' = [run EXCEPT ![k] = Requeued(@, manual)]
    /\ UNCHANGED <<rows, latest>>

-----------------------------------------------------------------------------

Left(n) == IF n = 0 THEN 0 ELSE n - 1

\* A unit of time passes.
Tick ==
    /\ run' = [k \in Keys |-> [run[k] EXCEPT !.lease = Left(@), !.wait = Left(@)]]
    /\ UNCHANGED <<rows, latest>>

\* The callers of finish pass a snapshot with the outcomes that published one.
Published(status) == status \in {"completed", "partial"}

Execute(k, w) ==
    \/ \E manualOnly \in BOOLEAN : \E only \in {Keys, {k}} :
           Claim(k, w, manualOnly, only)
    \/ RenewLease(k, w)
    \/ \E phase \in WorkPhases : SetPhase(k, w, phase)
    \/ \E s \in Symbols : \E status \in {"completed", "failed"} :
           RecordItem(k, w, s, status)
    \/ \E s \in Symbols : InvalidateItem(k, w, s)
    \/ \E status \in Terminal : Finish(k, w, status, Published(status))

Request(k) ==
    \/ \E source \in Sources \ {"none"} : Enqueue(k, source)
    \/ PromoteManual(k)
    \/ \E manual, enabled \in BOOLEAN : Retry(k, manual, enabled)

Next ==
    \/ \E k \in Keys : Request(k)
    \/ \E k \in Keys : \E w \in Workers : Execute(k, w)
    \/ \E day \in Days : CancelSuperseded(day)
    \/ CancelAutomatic
    \/ RecoverExpired
    \/ Tick

Spec == Init /\ [][Next]_vars

-----------------------------------------------------------------------------
(***************************************************************************)
(* What the queue guarantees.                                              *)
(***************************************************************************)

\* Every column keeps to its domain; collector_status, which the overview of the
\* pools reads, only ever shows "completed" or "failed".
TypeOK == /\ run \in [Keys -> Row]
          /\ rows \in Nat
          /\ latest \in [Pools -> {"never", "completed", "failed"}]

\* At most one run of the whole queue is being executed (claim: "one executor
\* for the single queue").
SingleRunning == \A j, k \in Keys : Running(j) /\ Running(k) => j = k

\* A row has an owner exactly while it runs: a finished, recovered or requeued
\* run cannot be written to by the worker that had it.
OwnedWhileRunning == \A k \in Keys : Running(k) <=> run[k].worker # None

\* cancel_requested reaches only automatic runs, and never survives into a row
\* that waits to be executed: a requeued run is not cancelled by an old request.
CancelRequestFresh ==
    \A k \in Keys : run[k].cancel => /\ Automatic(k)
                                     /\ run[k].status \in {"running"} \union Terminal

\* No run is executed more than three times in a row without a new manual
\* request: what waits still has an attempt left.
AttemptBudget ==
    \A k \in Keys : /\ run[k].attempt <= MaxAttempts
                    /\ run[k].status \in Waiting => run[k].attempt < MaxAttempts

\* An automatic run in "queued" has never been executed: every automatic
\* re-execution goes through the delay of "retry_wait".
AutomaticRetriesWait ==
    \A k \in Keys : run[k].status = "queued" /\ Automatic(k) => run[k].attempt = 0

\* The phase shown for a run agrees with its status: a run that is not executing
\* never shows an executing phase, nor a finished one another outcome.
PhaseMatchesStatus ==
    \A k \in Keys :
        /\ Running(k) <=> run[k].phase \in WorkPhases
        /\ run[k].status \in Terminal \union {"absent", "queued"}
             => run[k].phase = run[k].status

\* What the columns of a row, and its history, must agree on whatever order the
\* transactions come in: the budget, the delay of automatic attempts, the request
\* to cancel, the phase and the owner.
RowsConsistent == /\ AttemptBudget /\ AutomaticRetriesWait
                  /\ CancelRequestFresh
                  /\ PhaseMatchesStatus /\ OwnedWhileRunning

\* An item that succeeded is fetched again only after the executing owner found
\* its cache invalid; retries, recoveries, cancellations and takeovers keep it.
CompletedItemsKept ==
    \A k \in Keys : \A s \in Symbols :
        /\ run[k].items[s] = "completed"
        /\ run'[k].items[s] # "completed"
        => /\ Running(k) /\ run'[k].status = "running"
           /\ run'[k].items[s] = "failed"

\* A run whose budget is used up, or that is complete, comes back only as a manual
\* run with a new budget, a complete one not at all.
FinishedRunsStay ==
    \A k \in Keys :
        /\ run[k].status \in Terminal
        /\ run'[k].status \notin Terminal
        => /\ run[k].status # "completed"
           /\ run[k].attempt >= MaxAttempts
                => run'[k].source = "manual" /\ run'[k].attempt = 0

\* Action property: no transaction takes back what is done, neither an item that
\* succeeded nor a run that ended, but those the two steps above allow.
DoneWorkStays == [][CompletedItemsKept /\ FinishedRunsStay]_vars

\* Action property: once a person has asked for a run it never becomes automatic
\* again, and no transaction cancels it while it waits: neither switching off nor
\* a newer target day takes it out of the queue.
ManualRunsStay ==
    [][\A k \in Keys :
          run[k].source = "manual" =>
             /\ run'[k].source = "manual"
             /\ run[k].status \in Waiting => run'[k].status # "cancelled"]_vars

-----------------------------------------------------------------------------
(***************************************************************************)
(* The store implements the abstract queue.                                *)
(***************************************************************************)
Abstract(status) == CASE status = "absent"     -> "none"
                      [] status \in Waiting    -> "waiting"
                      [] status = "running"    -> "active"
                      [] status = "completed"  -> "complete"
                      [] OTHER                 -> "over"

Queue == INSTANCE RunQueue WITH
             Budget <- MaxAttempts,
             state  <- [k \in Keys |-> Abstract(run[k].status)],
             manual <- [k \in Keys |-> run[k].source = "manual"],
             tries  <- [k \in Keys |-> run[k].attempt]

\* Whatever the callers do, in whatever order, the table behaves like the
\* one-at-a-time queue with bounded budgets of RunQueue.
ImplementsQueue == Queue!Spec
=============================================================================
