--------------------------- MODULE CollectorProofs ---------------------------
(***************************************************************************)
(* Proofs about the collection queue and the processes around it, for any  *)
(* keys, pools, instruments, services, web processes, people, leases and   *)
(* delays.                                                                 *)
(*                                                                         *)
(* The rows (CollectorStore).  Every invariant but SingleRunning is about  *)
(* one row at a time.  RowInv is their conjunction for a row; a lemma per  *)
(* row transformer shows that it is kept, a step per action of Next lifts  *)
(* that to the table.                                                      *)
(*                                                                         *)
(* The processes (CollectorWorker).  Only the holder of the execution lock *)
(* claims, recovers or executes (Guarded), so a row that is executed is    *)
(* only touched by transactions that keep its status, owner and items      *)
(* (Undisturbed), and the lock goes only with its holder.  The processes   *)
(* and the people use the queue only through its methods, so everything    *)
(* proved about CollectorStore holds of them together; and what a planning *)
(* round noted stays true until the round acts on it: an automatic run     *)
(* that failed is never put back by a plan.                                *)
(***************************************************************************)
EXTENDS CollectorWorker, TLAPS


RowInv(r) ==
    /\ r \in Row
    /\ r.status = "running" <=> r.worker # None
    /\ r.cancel => r.source # "manual" /\ r.status \in {"running"} \union Terminal
    /\ r.attempt <= MaxAttempts
    /\ r.status \in Waiting => r.attempt < MaxAttempts
    /\ r.status = "queued" /\ r.source # "manual" => r.attempt = 0
    /\ r.status = "running" <=> r.phase \in WorkPhases
    /\ r.status \in Terminal \union {"absent", "queued"} => r.phase = r.status
    /\ r.status = "absent" => /\ r.source = "none" /\ r.attempt = 0
                              /\ \A s \in Symbols : r.items[s] = "pending"

RowsInv == /\ run \in [Keys -> Row]
           /\ \A k \in Keys : RowInv(run[k])

IInv == /\ RowsInv
        /\ SingleRunning
        /\ rows \in Nat
        /\ latest \in [Pools -> {"never", "completed", "failed"}]

USE DEF Waiting, Terminal, Statuses, WorkPhases, Phases, Sources, MaxAttempts

-----------------------------------------------------------------------------
(***************************************************************************)
(* The row transformers keep RowInv.                                       *)
(***************************************************************************)

\* A row just inserted, or not yet there.
LEMMA NewRowInv ==
    ASSUME NEW status \in {"absent", "queued"}, NEW source \in Sources, NEW id \in Nat,
           status = "absent" => source = "none"
    PROVE  RowInv(NewRow(status, source, id))
BY DEF RowInv, Row, NewRow, ItemStatuses

\* promote_manual on a row that is still active.
LEMMA TakenOverInv ==
    ASSUME NEW r \in Row, RowInv(r), r.status \in Waiting \union {"running"}
    PROVE  RowInv(TakenOver(r))
BY DEF RowInv, Row, TakenOver

\* cancel_superseded, and cancel_automatic, on a row that waits.
LEMMA WithdrawnInv ==
    ASSUME NEW r \in Row, RowInv(r), r.status \in Waiting
    PROVE  RowInv(Withdrawn(r))
BY DEF RowInv, Row, Withdrawn

\* cancel_automatic on any row.
LEMMA SwitchedOffInv ==
    ASSUME NEW r \in Row, RowInv(r)
    PROVE  RowInv(SwitchedOff(r))
<1>1. CASE r.source # "manual" /\ r.status \in Waiting
  BY <1>1, WithdrawnInv DEF SwitchedOff
<1>2. CASE r.source # "manual" /\ r.status = "running"
  <2>1. SwitchedOff(r) = [r EXCEPT !.cancel = TRUE]
    BY <1>2 DEF SwitchedOff
  <2> QED
    BY <1>2, <2>1 DEF RowInv, Row
<1>3. CASE ~(r.source # "manual" /\ r.status \in Waiting \union {"running"})
  BY <1>3 DEF SwitchedOff
<1> QED
  BY <1>1, <1>2, <1>3

\* claim: what waits has an attempt left and no request to cancel.
LEMMA ClaimedInv ==
    ASSUME NEW r \in Row, RowInv(r), r.status \in Waiting, NEW w \in Workers
    PROVE  RowInv(Claimed(r, w))
<1> DEFINE c == Claimed(r, w)
<1>1. r.attempt \in Nat /\ r.attempt < MaxAttempts /\ ~r.cancel
  BY DEF RowInv, Row
<1>2. c \in Row
  <2>1. r.attempt + 1 \in Nat /\ LeaseTicks \in Nat
    BY <1>1, TimesAssumption
  <2> QED
    BY <2>1 DEF Row, Claimed
<1>3. /\ c.status = "running" /\ c.phase = "preparing" /\ c.worker = w
      /\ c.attempt = r.attempt + 1 /\ c.cancel = r.cancel
  BY DEF Row, Claimed
<1> QED
  BY <1>1, <1>2, <1>3, WorkersAssumption DEF RowInv

\* recover_expired on a running row: cancelled, failed or waiting again.
LEMMA RecoveredInv ==
    ASSUME NEW r \in Row, RowInv(r), r.status = "running"
    PROVE  RowInv(Recovered(r))
<1> DEFINE c == Recovered(r)
<1>1. /\ r.attempt \in Nat /\ r.attempt <= MaxAttempts
      /\ r.cancel \in BOOLEAN /\ r.cancel => r.source # "manual"
  BY DEF RowInv, Row
<1>2. PICK status \in {"cancelled", "failed", "retry_wait"} :
        /\ r.cancel <=> status = "cancelled"
        /\ status = "retry_wait" => r.attempt < MaxAttempts
        /\ c = [r EXCEPT !.status = status, !.phase = status, !.worker = None,
                         !.lease = 0,
                         !.wait = IF r.attempt <= 1 THEN ShortDelay ELSE LongDelay]
  <2>1. CASE r.cancel
    BY <2>1 DEF Recovered
  <2>2. CASE ~r.cancel /\ r.attempt >= MaxAttempts
    BY <2>2 DEF Recovered
  <2>3. CASE ~r.cancel /\ r.attempt < MaxAttempts
    BY <1>1, <2>3 DEF Recovered
  <2> QED
    BY <1>1, <2>1, <2>2, <2>3
<1>3. /\ c.status = status /\ c.phase = status /\ c.worker = None
      /\ c.attempt = r.attempt /\ c.cancel = r.cancel /\ c.source = r.source
  BY <1>2 DEF Row
<1>4. c \in Row
  <2>1. (IF r.attempt <= 1 THEN ShortDelay ELSE LongDelay) \in Nat
    BY TimesAssumption
  <2> HIDE DEF c
  <2> QED
    BY <1>2, <2>1 DEF Row
<1> QED
  BY <1>1, <1>2, <1>3, <1>4 DEF RowInv

\* finish by the owner.
LEMMA FinishedInv ==
    ASSUME NEW r \in Row, RowInv(r), r.status = "running",
           NEW status \in Terminal, NEW snapshot \in BOOLEAN
    PROVE  RowInv(Finished(r, status, snapshot))
BY DEF RowInv, Row, Finished

\* retry: a manual one has a new budget, an automatic one an attempt left.
LEMMA RequeuedInv ==
    ASSUME NEW r \in Row, RowInv(r), r.status \in {"failed", "partial", "cancelled"},
           NEW manual \in BOOLEAN, ~manual => r.attempt < MaxAttempts
    PROVE  RowInv(Requeued(r, manual))
<1> DEFINE items == [s \in Symbols |->
                        IF r.items[s] = "completed" THEN "completed" ELSE "pending"]
           reset == [r EXCEPT !.phase = "queued", !.cancel = FALSE, !.items = items]
<1>1. /\ reset \in Row /\ reset.worker = None /\ reset.phase = "queued"
      /\ ~reset.cancel /\ reset.attempt = r.attempt
  BY DEF RowInv, Row, ItemStatuses
<1> DEFINE q == Requeued(r, manual)
<1>2. /\ q \in Row /\ q.phase = "queued" /\ q.worker = None /\ q.cancel = FALSE
      /\ \/ /\ q.status = "queued" /\ q.source = "manual" /\ q.attempt = 0
         \/ /\ q.status = "retry_wait" /\ q.attempt = r.attempt
            /\ r.attempt \in Nat /\ r.attempt < MaxAttempts
  <2>1. CASE manual
    <3>1. q = [reset EXCEPT !.status = "queued", !.source = "manual",
                            !.attempt = 0, !.wait = 0]
      BY <2>1 DEF Requeued
    <3> HIDE DEF reset, q
    <3> QED
      BY <1>1, <3>1 DEF Row
  <2>2. CASE ~manual
    <3>1. q = [reset EXCEPT !.status = "retry_wait",
                    !.wait = IF r.attempt <= 1 THEN ShortDelay ELSE LongDelay]
      BY <2>2 DEF Requeued
    <3>2. /\ (IF r.attempt <= 1 THEN ShortDelay ELSE LongDelay) \in Nat
          /\ r.attempt \in Nat /\ r.attempt < MaxAttempts
      BY <2>2, TimesAssumption DEF Row
    <3> HIDE DEF reset, q
    <3> QED
      BY <1>1, <3>1, <3>2 DEF Row
  <2> QED
    BY <2>1, <2>2
<1> HIDE DEF q
<1>3. RowInv(q)
  BY <1>2 DEF RowInv
<1> QED
  BY <1>3 DEF q

-----------------------------------------------------------------------------
(***************************************************************************)
(* The actions keep the invariant of the table.                            *)
(***************************************************************************)

\* A step that changes the one row k keeps the others, so only k is looked at.
LEMMA OneRow ==
    ASSUME RowsInv, NEW k \in Keys, NEW r, RowInv(r), run' = [run EXCEPT ![k] = r]
    PROVE  RowsInv'
<1>1. r \in Row
  BY DEF RowInv
<1> QED
  BY <1>1 DEF RowsInv

\* A step that maps every row through a function.
LEMMA EveryRow ==
    ASSUME RowsInv, NEW f, run' = [k \in Keys |-> f[k]], \A k \in Keys : RowInv(f[k])
    PROVE  RowsInv'
<1>1. \A k \in Keys : f[k] \in Row
  BY DEF RowInv
<1> QED
  BY <1>1 DEF RowsInv

\* enqueue inserts one well-formed row or changes nothing.
LEMMA EnqueueRows ==
    ASSUME RowsInv, rows \in Nat, NEW k \in Keys, NEW source \in Sources \ {"none"},
           Enqueue(k, source)
    PROVE  RowsInv' /\ rows' \in Nat
<1>1. CASE run' = [run EXCEPT ![k] = NewRow("queued", source, rows + 1)] /\ rows' = rows + 1
  <2>1. rows + 1 \in Nat
    OBVIOUS
  <2>2. RowInv(NewRow("queued", source, rows + 1))
    BY <2>1, NewRowInv
  <2>3. RowsInv'
    BY <1>1, <2>2, OneRow
  <2> QED
    BY <1>1, <2>1, <2>3
<1>2. CASE UNCHANGED <<run, rows>>
  BY <1>2 DEF RowsInv
<1> QED
  BY <1>1, <1>2 DEF Enqueue

\* promote_manual changes the one row it was asked for.
LEMMA PromoteManualRows ==
    ASSUME RowsInv, NEW k \in Keys, PromoteManual(k)
    PROVE  RowsInv'
<1>1. RowInv(run[k]) /\ run[k] \in Row
  BY DEF RowsInv
<1>2. CASE /\ run[k].status \in Waiting \union {"running"}
           /\ run' = [run EXCEPT ![k] = TakenOver(@)]
  <2>1. RowInv(TakenOver(run[k]))
    BY <1>1, <1>2, TakenOverInv
  <2> QED
    BY <1>2, <2>1, OneRow
<1>3. CASE UNCHANGED run
  BY <1>3 DEF RowsInv
<1> QED
  BY <1>2, <1>3 DEF PromoteManual

\* The two cancellations map every row.
LEMMA CancelRows ==
    ASSUME RowsInv, CancelAutomatic \/ (\E t \in Nat : CancelSuperseded(t))
    PROVE  RowsInv'
<1>1. \A k \in Keys : RowInv(run[k]) /\ run[k] \in Row
  BY DEF RowsInv
<1>2. CASE CancelAutomatic
  <2> DEFINE f == [k \in Keys |-> SwitchedOff(run[k])]
  <2>1. \A k \in Keys : RowInv(f[k])
    BY <1>1, SwitchedOffInv
  <2>2. run' = [k \in Keys |-> f[k]]
    BY <1>2 DEF CancelAutomatic
  <2> HIDE DEF f
  <2> QED
    BY <2>1, <2>2, EveryRow
<1>3. ASSUME NEW t \in Nat, CancelSuperseded(t)
      PROVE  RowsInv'
  <2> DEFINE old(k) == Automatic(k) /\ run[k].status \in Waiting /\ TargetOf[k] < t
             f == [k \in Keys |-> IF old(k) THEN Withdrawn(run[k]) ELSE run[k]]
  <2>1. \A k \in Keys : RowInv(f[k])
    BY <1>1, WithdrawnInv
  <2>2. run' = [k \in Keys |-> f[k]]
    BY <1>3 DEF CancelSuperseded
  <2> HIDE DEF f
  <2> QED
    BY <2>1, <2>2, EveryRow
<1> QED
  BY <1>2, <1>3

\* What a worker does to the run it claims: claim, renew_lease, set_phase,
\* record_item, invalidate_item, finish.
LEMMA ExecuteRows ==
    ASSUME RowsInv, NEW k \in Keys, NEW w \in Workers, Execute(k, w)
    PROVE  RowsInv'
<1>1. RowInv(run[k]) /\ run[k] \in Row
  BY DEF RowsInv
<1>2. ASSUME NEW manualOnly \in BOOLEAN, NEW only \in {Keys, {k}},
             Claim(k, w, manualOnly, only)
      PROVE  RowsInv'
  <2>1. run[k].status \in Waiting
    BY <1>2 DEF Claim, Claimable
  <2>2. RowInv(Claimed(run[k], w))
    BY <1>1, <2>1, ClaimedInv
  <2> QED
    BY <1>2, <2>2, OneRow DEF Claim
<1>3. CASE RenewLease(k, w)
  <2>1. RowInv([run[k] EXCEPT !.lease = LeaseTicks])
    BY <1>1, TimesAssumption DEF RowInv, Row
  <2> QED
    BY <1>3, <2>1, OneRow DEF RenewLease
<1>4. ASSUME NEW phase \in WorkPhases, SetPhase(k, w, phase)
      PROVE  RowsInv'
  <2> DEFINE c == [run[k] EXCEPT !.phase = phase]
  <2>1. run[k].status = "running"
    BY <1>4 DEF SetPhase, Owned, Running
  <2>2. /\ c \in Row /\ c.phase = phase /\ c.status = "running"
        /\ c.worker = run[k].worker /\ c.cancel = run[k].cancel
        /\ c.source = run[k].source /\ c.attempt = run[k].attempt
    BY <1>1, <2>1 DEF Row
  <2> HIDE DEF c
  <2>3. RowInv(c)
    BY <1>1, <1>4, <2>1, <2>2 DEF RowInv
  <2> QED
    BY <1>4, <2>3, OneRow DEF SetPhase, c
<1>5. ASSUME NEW s \in Symbols, NEW status \in ItemStatuses, Running(k)
      PROVE  RowInv([run[k] EXCEPT !.items[s] = status])
  <2> DEFINE c == [run[k] EXCEPT !.items[s] = status]
  <2>1. [run[k].items EXCEPT ![s] = status] \in [Symbols -> ItemStatuses]
    BY <1>1 DEF Row
  <2>2. /\ c \in Row /\ c.phase = run[k].phase /\ c.status = run[k].status
        /\ c.worker = run[k].worker /\ c.cancel = run[k].cancel
        /\ c.source = run[k].source /\ c.attempt = run[k].attempt
    BY <1>1, <2>1 DEF Row
  <2> HIDE DEF c
  <2>3. RowInv(c)
    BY <1>1, <1>5, <2>2 DEF RowInv, Running
  <2> QED
    BY <2>3 DEF c
<1>6. ASSUME NEW s \in Symbols, NEW status \in {"completed", "failed"},
             RecordItem(k, w, s, status)
      PROVE  RowsInv'
  <2> DEFINE i == IF run[k].items[s] = "completed" THEN "completed" ELSE status
  <2>1. i \in ItemStatuses
    BY DEF ItemStatuses
  <2>2. run' = [run EXCEPT ![k] = [run[k] EXCEPT !.items[s] = i]]
    BY <1>6 DEF RecordItem
  <2>3. Running(k)
    BY <1>6 DEF RecordItem, Owned
  <2> HIDE DEF i
  <2> QED
    BY <1>5, <2>1, <2>2, <2>3, OneRow
<1>7. ASSUME NEW s \in Symbols, InvalidateItem(k, w, s)
      PROVE  RowsInv'
  <2>1. run' = [run EXCEPT ![k] = [run[k] EXCEPT !.items[s] = "failed"]]
    BY <1>7 DEF InvalidateItem
  <2>2. Running(k)
    BY <1>7 DEF InvalidateItem, Owned
  <2> QED
    BY <1>5, <2>1, <2>2, OneRow DEF ItemStatuses
<1>8. ASSUME NEW status \in Terminal, Finish(k, w, status, Published(status))
      PROVE  RowsInv'
  <2>1. Published(status) \in BOOLEAN
    BY DEF Published
  <2>2. RowInv(Finished(run[k], status, Published(status)))
    BY <1>1, <1>8, <2>1, FinishedInv DEF Finish, Owned, Running
  <2> QED
    BY <1>8, <2>2, OneRow DEF Finish
<1> QED
  BY <1>2, <1>3, <1>4, <1>6, <1>7, <1>8 DEF Execute

\* retry changes the one row it was asked for.
LEMMA RetryRows ==
    ASSUME RowsInv, NEW k \in Keys, NEW manual \in BOOLEAN, NEW allowed \in BOOLEAN,
           Retry(k, manual, allowed)
    PROVE  RowsInv'
<1>1. RowInv(run[k]) /\ run[k] \in Row
  BY DEF RowsInv
<1>2. RowInv(Requeued(run[k], manual))
  BY <1>1, RequeuedInv DEF Retry, CanRetry
<1> QED
  BY <1>2, OneRow DEF Retry

\* recover_expired maps every expired row.
LEMMA RecoverRows ==
    ASSUME RowsInv, RecoverExpired
    PROVE  RowsInv'
<1> DEFINE f == [k \in Keys |-> IF Expired(k) THEN Recovered(run[k]) ELSE run[k]]
<1>1. \A k \in Keys : RowInv(f[k])
  BY RecoveredInv DEF RowsInv, Expired, Running
<1>2. run' = [k \in Keys |-> f[k]]
  BY DEF RecoverExpired
<1> HIDE DEF f
<1> QED
  BY <1>1, <1>2, EveryRow

\* Time only shortens leases and delays.
LEMMA TickRows ==
    ASSUME RowsInv, Tick
    PROVE  RowsInv'
<1> DEFINE f == [k \in Keys |-> [run[k] EXCEPT !.lease = Left(run[k].lease),
                                               !.wait = Left(run[k].wait)]]
<1>1. \A n \in Nat : Left(n) \in Nat
  BY DEF Left
<1>2. ASSUME NEW r \in Row, RowInv(r), NEW l \in Nat, NEW n \in Nat
      PROVE  RowInv([r EXCEPT !.lease = l, !.wait = n])
  BY <1>2 DEF RowInv, Row
<1>3. ASSUME NEW k \in Keys
      PROVE  RowInv(f[k])
  <2>1. RowInv(run[k]) /\ run[k] \in Row /\ run[k].lease \in Nat /\ run[k].wait \in Nat
    BY DEF RowsInv, Row
  <2> QED
    BY <1>1, <1>2, <2>1
<1>4. run' = [k \in Keys |-> f[k]]
  BY DEF Tick
<1> HIDE DEF f
<1> QED
  BY <1>3, <1>4, EveryRow

-----------------------------------------------------------------------------
(***************************************************************************)
(* The inductive invariant and what follows from it.                       *)
(***************************************************************************)

\* The empty table.
LEMMA InitInv == Init => IInv
<1> SUFFICES ASSUME Init PROVE IInv
  OBVIOUS
<1>1. RowInv(NewRow("absent", "none", 0))
  BY NewRowInv
<1>2. RowsInv
  BY <1>1 DEF Init, RowsInv, RowInv
<1>3. SingleRunning
  BY DEF Init, SingleRunning, Running, NewRow
<1> QED
  BY <1>2, <1>3 DEF Init, IInv

\* Every step keeps the invariant of the rows.
LEMMA NextRows ==
    ASSUME RowsInv, rows \in Nat, Next
    PROVE  RowsInv' /\ rows' \in Nat
<1>1. ASSUME NEW k \in Keys, Request(k)
      PROVE  RowsInv' /\ rows' \in Nat
  <2>1. ASSUME NEW source \in Sources \ {"none"}, Enqueue(k, source)
        PROVE  RowsInv' /\ rows' \in Nat
    BY <2>1, EnqueueRows
  <2>2. CASE PromoteManual(k)
    BY <2>2, PromoteManualRows DEF PromoteManual
  <2>3. ASSUME NEW manual \in BOOLEAN, NEW allowed \in BOOLEAN, Retry(k, manual, allowed)
        PROVE  RowsInv' /\ rows' \in Nat
    BY <2>3, RetryRows DEF Retry
  <2> QED
    BY <1>1, <2>1, <2>2, <2>3 DEF Request
<1>2. ASSUME NEW k \in Keys, NEW w \in Workers, Execute(k, w)
      PROVE  RowsInv' /\ rows' \in Nat
  <2>1. RowsInv'
    BY <1>2, ExecuteRows
  <2>2. UNCHANGED rows
    BY <1>2 DEF Execute, Claim, RenewLease, SetPhase, RecordItem, InvalidateItem, Finish
  <2> QED
    BY <2>1, <2>2
<1>3. CASE CancelAutomatic
  BY <1>3, CancelRows DEF CancelAutomatic
<1>4. ASSUME NEW day \in Days, CancelSuperseded(day)
      PROVE  RowsInv' /\ rows' \in Nat
  BY <1>4, CancelRows, KeysAssumption DEF CancelSuperseded
<1>5. CASE RecoverExpired
  BY <1>5, RecoverRows DEF RecoverExpired
<1>6. CASE Tick
  BY <1>6, TickRows DEF Tick
<1> QED
  BY <1>1, <1>2, <1>3, <1>4, <1>5, <1>6 DEF Next

\* The status each transformer leaves behind.
LEMMA TransformerStatus ==
    ASSUME NEW r \in Row
    PROVE  /\ TakenOver(r).status = IF r.status = "retry_wait" THEN "queued" ELSE r.status
           /\ SwitchedOff(r).status =
                IF r.source # "manual" /\ r.status \in Waiting THEN "cancelled" ELSE r.status
           /\ Withdrawn(r).status = "cancelled"
           /\ Recovered(r).status \in {"cancelled", "failed", "retry_wait"}
           /\ \A manual \in BOOLEAN : Requeued(r, manual).status \in Waiting
<1>1. TakenOver(r).status = IF r.status = "retry_wait" THEN "queued" ELSE r.status
  BY DEF TakenOver, Row
<1>2. SwitchedOff(r).status =
        IF r.source # "manual" /\ r.status \in Waiting THEN "cancelled" ELSE r.status
  <2>1. CASE r.source # "manual" /\ r.status \in Waiting
    BY <2>1 DEF SwitchedOff, Withdrawn, Row
  <2>2. CASE r.source # "manual" /\ r.status = "running"
    <3>1. SwitchedOff(r) = [r EXCEPT !.cancel = TRUE]
      BY <2>2 DEF SwitchedOff
    <3> QED
      BY <2>2, <3>1 DEF Row
  <2>3. CASE ~(r.source # "manual" /\ r.status \in Waiting \union {"running"})
    BY <2>3 DEF SwitchedOff
  <2> QED
    BY <2>1, <2>2, <2>3
<1>3. Withdrawn(r).status = "cancelled"
  BY DEF Withdrawn, Row
<1>4. Recovered(r).status \in {"cancelled", "failed", "retry_wait"}
  BY DEF Recovered, Row
<1>5. ASSUME NEW manual \in BOOLEAN
      PROVE  Requeued(r, manual).status \in Waiting
  BY DEF Requeued, Row
<1> QED
  BY <1>1, <1>2, <1>3, <1>4, <1>5

\* Only a claim starts a run, and it starts the only one.
LEMMA NextSingle ==
    ASSUME RowsInv, RowsInv', SingleRunning, Next
    PROVE  SingleRunning'
<1> DEFINE NoneStarted == \A k \in Keys : run'[k].status = "running" => Running(k)
<1>1. NoneStarted => SingleRunning'
  BY DEF SingleRunning, Running
<1>2. \A k \in Keys : run[k] \in Row
  BY DEF RowsInv
<1>3. ASSUME NEW k \in Keys, Request(k)
      PROVE  NoneStarted
  <2>1. ASSUME NEW source \in Sources \ {"none"}, Enqueue(k, source)
        PROVE  NoneStarted
    BY <2>1 DEF Enqueue, NewRow, Running, RowsInv
  <2>2. CASE PromoteManual(k)
    BY <1>2, <2>2, TransformerStatus DEF PromoteManual, Running, RowsInv
  <2>3. ASSUME NEW manual \in BOOLEAN, NEW allowed \in BOOLEAN, Retry(k, manual, allowed)
        PROVE  NoneStarted
    <3>1. Requeued(run[k], manual).status \in Waiting
      BY <1>2, TransformerStatus
    <3> QED
      BY <2>3, <3>1 DEF Retry, Running, RowsInv
  <2> QED
    BY <1>3, <2>1, <2>2, <2>3 DEF Request
<1>4. ASSUME NEW k \in Keys, NEW w \in Workers, Execute(k, w)
      PROVE  SingleRunning'
  <2>1. CASE /\ NothingRunning
             /\ run' = [run EXCEPT ![k] = Claimed(run[k], w)]
    BY <2>1 DEF NothingRunning, SingleRunning, Running, RowsInv
  <2>2. CASE Running(k) /\ \E r : run' = [run EXCEPT ![k] = r]
    BY <2>2 DEF SingleRunning, Running, RowsInv
  <2> QED
    BY <1>4, <2>1, <2>2 DEF Execute, Claim, RenewLease, SetPhase, RecordItem,
                            InvalidateItem, Finish, Owned
<1>5. ASSUME CancelAutomatic
      PROVE  NoneStarted
  BY <1>2, <1>5, TransformerStatus DEF CancelAutomatic, Running
<1>6. ASSUME RecoverExpired
      PROVE  NoneStarted
  BY <1>2, <1>6, TransformerStatus DEF RecoverExpired, Expired, Running
<1>7. ASSUME Tick
      PROVE  NoneStarted
  BY <1>2, <1>7 DEF Tick, Running, Row
<1>8. ASSUME NEW day \in Days, CancelSuperseded(day)
      PROVE  NoneStarted
  BY <1>2, <1>8, TransformerStatus DEF CancelSuperseded, Running
<1> HIDE DEF NoneStarted
<1> QED
  BY <1>1, <1>3, <1>4, <1>5, <1>6, <1>7, <1>8 DEF Next

\* The status of a pool keeps to its domain.
LEMMA NextLatest ==
    ASSUME latest \in [Pools -> {"never", "completed", "failed"}], [Next]_vars
    PROVE  latest' \in [Pools -> {"never", "completed", "failed"}]
BY DEF Next, Request, Execute, Enqueue, PromoteManual, CancelSuperseded, Retry, Claim,
       RenewLease, SetPhase, RecordItem, InvalidateItem, Finish, CancelAutomatic,
       RecoverExpired, Tick, vars

\* IInv is an invariant: it holds initially and every step keeps it.
THEOREM Invariance == Spec => []IInv
<1>1. IInv /\ [Next]_vars => IInv'
  <2> SUFFICES ASSUME IInv, [Next]_vars PROVE IInv'
    OBVIOUS
  <2>1. CASE Next
    BY <2>1, NextRows, NextSingle, NextLatest DEF IInv
  <2>2. CASE UNCHANGED vars
    BY <2>2 DEF vars, IInv, RowsInv, SingleRunning, Running
  <2> QED
    BY <2>1, <2>2
<1> QED
  BY InitInv, <1>1, PTL DEF Spec

\* The columns of every row keep to their domains (TypeOK).
THEOREM TypeCorrect == Spec => []TypeOK
<1>1. IInv => TypeOK
  BY DEF IInv, RowsInv, TypeOK
<1> QED
  BY Invariance, <1>1, PTL

\* Never two running runs, and a row is owned exactly while it runs
\* (SingleRunning and OwnedWhileRunning: claim, finish, recover_expired).
THEOREM OneOwner == Spec => [](SingleRunning /\ OwnedWhileRunning)
<1>1. IInv => SingleRunning /\ OwnedWhileRunning
  BY DEF IInv, RowsInv, RowInv, OwnedWhileRunning, Running
<1> QED
  BY Invariance, <1>1, PTL

\* However the transactions are ordered, no row is executed more than three times
\* per demand, automatic attempts wait, a request to cancel is gone before the row
\* waits again, and phase, owner and status agree (RowsConsistent: claim, retry,
\* promote_manual, cancel_automatic, recover_expired, finish).
THEOREM RowsStayConsistent == Spec => []RowsConsistent
<1>1. IInv => AttemptBudget /\ AutomaticRetriesWait
  BY DEF IInv, RowsInv, RowInv, AttemptBudget, AutomaticRetriesWait, Automatic
<1>2. IInv => CancelRequestFresh /\ PhaseMatchesStatus
  BY DEF IInv, RowsInv, RowInv, CancelRequestFresh, PhaseMatchesStatus, Automatic, Running
<1>3. IInv => OwnedWhileRunning
  BY DEF IInv, RowsInv, RowInv, OwnedWhileRunning, Running
<1>4. IInv => RowsConsistent
  BY <1>1, <1>2, <1>3 DEF RowsConsistent
<1> QED
  BY Invariance, <1>4, PTL

-----------------------------------------------------------------------------
(***************************************************************************)
(* Manual runs stay manual.                                                *)
(***************************************************************************)

\* What a step may not do to a row r that becomes c.
Keeps(r, c) == r.source = "manual" =>
                  /\ c.source = "manual"
                  /\ r.status \in Waiting => c.status # "cancelled"

\* The row transformers keep the source of a manual row, and withdraw none.
LEMMA TransformersKeep ==
    ASSUME NEW r \in Row
    PROVE  /\ Keeps(r, TakenOver(r)) /\ Keeps(r, SwitchedOff(r))
           /\ r.source # "manual" => Keeps(r, Withdrawn(r))
           /\ r.status = "running" => Keeps(r, Recovered(r))
           /\ \A w \in Workers : Keeps(r, Claimed(r, w))
           /\ \A manual \in BOOLEAN : Keeps(r, Requeued(r, manual))
<1>1. Keeps(r, TakenOver(r))
  BY DEF Keeps, TakenOver, Row
<1>2. Keeps(r, SwitchedOff(r))
  BY DEF Keeps, SwitchedOff
<1>3. r.source # "manual" => Keeps(r, Withdrawn(r))
  BY DEF Keeps
<1>4. r.status = "running" => Keeps(r, Recovered(r))
  BY DEF Keeps, Recovered, Row
<1>5. \A w \in Workers : Keeps(r, Claimed(r, w))
  BY DEF Keeps, Claimed, Row
<1>6. \A manual \in BOOLEAN : Keeps(r, Requeued(r, manual))
  BY DEF Keeps, Requeued, Row
<1> QED
  BY <1>1, <1>2, <1>3, <1>4, <1>5, <1>6

\* Every step keeps manual rows.
LEMMA NextKeeps ==
    ASSUME RowsInv, Next
    PROVE  \A k \in Keys : Keeps(run[k], run'[k])
<1> DEFINE Kept == \A k \in Keys : Keeps(run[k], run'[k])
<1>1. \A k \in Keys : run[k] \in Row /\ (~Present(k) => run[k].source = "none")
  BY DEF RowsInv, RowInv, Present
<1>2. \A r : Keeps(r, r)
  BY DEF Keeps
<1>3. ASSUME NEW k \in Keys, NEW r, run' = [run EXCEPT ![k] = r], Keeps(run[k], r)
      PROVE  Kept
  BY <1>2, <1>3 DEF RowsInv
<1>4. ASSUME NEW k \in Keys, Request(k)
      PROVE  Kept
  <2>1. ASSUME NEW source \in Sources \ {"none"}, Enqueue(k, source)
        PROVE  Kept
    <3>1. CASE ~Present(k)
      <4>1. Keeps(run[k], NewRow("queued", source, rows + 1))
        BY <1>1, <3>1 DEF Keeps
      <4> QED
        BY <1>3, <2>1, <3>1, <4>1 DEF Enqueue
    <3>2. CASE Present(k)
      BY <1>2, <2>1, <3>2 DEF Enqueue
    <3> QED
      BY <3>1, <3>2
  <2>2. CASE PromoteManual(k)
    BY <1>1, <1>2, <1>3, <2>2, TransformersKeep DEF PromoteManual
  <2>3. ASSUME NEW manual \in BOOLEAN, NEW allowed \in BOOLEAN, Retry(k, manual, allowed)
        PROVE  Kept
    BY <1>1, <1>3, <2>3, TransformersKeep DEF Retry
  <2> QED
    BY <1>4, <2>1, <2>2, <2>3 DEF Request
<1>5. ASSUME NEW k \in Keys, NEW w \in Workers, Execute(k, w)
      PROVE  Kept
  <2>1. CASE run' = [run EXCEPT ![k] = Claimed(run[k], w)]
    BY <1>1, <1>3, <2>1, TransformersKeep
  <2>2. ASSUME NEW r, run' = [run EXCEPT ![k] = r], Running(k), r.source = run[k].source
        PROVE  Kept
    BY <1>3, <2>2 DEF Keeps, Running
  <2>3. CASE \E manualOnly \in BOOLEAN : \E only \in {Keys, {k}} :
               Claim(k, w, manualOnly, only)
    BY <2>1, <2>3 DEF Claim
  <2>4. CASE RenewLease(k, w)
    BY <1>1, <2>2, <2>4 DEF RenewLease, Owned, Row
  <2>5. ASSUME NEW phase \in WorkPhases, SetPhase(k, w, phase)
        PROVE  Kept
    BY <1>1, <2>2, <2>5 DEF SetPhase, Owned, Row
  <2>6. ASSUME NEW s \in Symbols, NEW status \in {"completed", "failed"},
               RecordItem(k, w, s, status)
        PROVE  Kept
    BY <1>1, <2>2, <2>6 DEF RecordItem, Owned, Row
  <2>7. ASSUME NEW s \in Symbols, InvalidateItem(k, w, s)
        PROVE  Kept
    BY <1>1, <2>2, <2>7 DEF InvalidateItem, Owned, Row
  <2>8. ASSUME NEW status \in Terminal, Finish(k, w, status, Published(status))
        PROVE  Kept
    BY <1>1, <2>2, <2>8 DEF Finish, Finished, Owned, Row
  <2> QED
    BY <1>5, <2>3, <2>4, <2>5, <2>6, <2>7, <2>8 DEF Execute
<1>6. ASSUME CancelAutomatic
      PROVE  Kept
  BY <1>1, <1>6, TransformersKeep DEF CancelAutomatic
<1>7. ASSUME RecoverExpired
      PROVE  Kept
  BY <1>1, <1>2, <1>7, TransformersKeep DEF RecoverExpired, Expired, Running
<1>8. ASSUME Tick
      PROVE  Kept
  <2>1. \A k \in Keys : run'[k].source = run[k].source /\ run'[k].status = run[k].status
    BY <1>1, <1>8 DEF Tick, Row
  <2> QED
    BY <2>1 DEF Keeps
<1>9. ASSUME NEW day \in Days, CancelSuperseded(day)
      PROVE  Kept
  BY <1>1, <1>2, <1>9, TransformersKeep DEF CancelSuperseded, Automatic
<1> HIDE DEF Kept
<1>10. Kept
  BY <1>4, <1>5, <1>6, <1>7, <1>8, <1>9 DEF Next
<1> QED
  BY <1>10 DEF Kept

\* A run a person asked for never becomes automatic again and is never withdrawn
\* while it waits (ManualRunsStay: promote_manual, retry, cancel_automatic,
\* cancel_superseded, recover_expired).
THEOREM ManualKept == Spec => ManualRunsStay
<1> DEFINE Kept == \A k \in Keys :
                      run[k].source = "manual" =>
                         /\ run'[k].source = "manual"
                         /\ run[k].status \in Waiting => run'[k].status # "cancelled"
<1>1. IInv /\ [Next]_vars => [Kept]_vars
  BY NextKeeps DEF IInv, Keeps
<1>2. ManualRunsStay <=> [][Kept]_vars
  BY DEF ManualRunsStay
<1> HIDE DEF Kept
<1> QED
  BY Invariance, <1>1, <1>2, PTL DEF Spec

-----------------------------------------------------------------------------
(***************************************************************************)
(* What is done stays done.                                                *)
(***************************************************************************)

\* What a step may not do to the items of a row r that becomes c, ...
ItemsKept(r, c) == \A s \in Symbols :
                      /\ r.items[s] = "completed"
                      /\ c.items[s] # "completed"
                      => /\ r.status = "running" /\ c.status = "running"
                         /\ c.items[s] = "failed"

\* ... and to its outcome.
OutcomeKept(r, c) == /\ r.status \in Terminal
                     /\ c.status \notin Terminal
                     => /\ r.status # "completed"
                        /\ r.attempt >= MaxAttempts => c.source = "manual" /\ c.attempt = 0

DoneKept(r, c) == ItemsKept(r, c) /\ OutcomeKept(r, c)

\* A transaction that leaves the items of a row alone, and finds it unfinished or
\* leaves it so.
LEMMA SameItems ==
    ASSUME NEW r, NEW c, c.items = r.items,
           r.status \notin Terminal \/ c.status \in Terminal
    PROVE  DoneKept(r, c)
BY DEF DoneKept, ItemsKept, OutcomeKept

\* The row transformers keep what is done.
LEMMA TransformersKeepDone ==
    ASSUME NEW r \in Row
    PROVE  /\ r.status \notin Terminal => DoneKept(r, TakenOver(r))
           /\ DoneKept(r, SwitchedOff(r))
           /\ DoneKept(r, Withdrawn(r))
           /\ r.status = "running" => DoneKept(r, Recovered(r))
           /\ r.status \in Waiting => \A w \in Workers : DoneKept(r, Claimed(r, w))
           /\ r.status = "running" => \A status \in Terminal : \A snapshot \in BOOLEAN :
                                          DoneKept(r, Finished(r, status, snapshot))
<1>1. r.status \notin Terminal => DoneKept(r, TakenOver(r))
  <2>1. TakenOver(r).items = r.items
    BY DEF TakenOver, Row
  <2> QED  BY <2>1, SameItems
<1>2. DoneKept(r, Withdrawn(r))
  <2>1. Withdrawn(r).items = r.items /\ Withdrawn(r).status = "cancelled"
    BY DEF Withdrawn, Row
  <2> QED  BY <2>1, SameItems
<1>3. DoneKept(r, SwitchedOff(r))
  <2>1. [r EXCEPT !.cancel = TRUE].items = r.items /\ [r EXCEPT !.cancel = TRUE].status = r.status
    BY DEF Row
  <2>2. SwitchedOff(r).items = r.items
    BY <2>1 DEF SwitchedOff, Withdrawn, Row
  <2>3. r.status \in Terminal => SwitchedOff(r).status = r.status
    BY TransformerStatus
  <2> QED  BY <2>2, <2>3, SameItems
<1>4. ASSUME r.status = "running"
      PROVE  DoneKept(r, Recovered(r))
  <2>1. Recovered(r).items = r.items
    BY DEF Recovered, Row
  <2> QED  BY <1>4, <2>1, SameItems
<1>5. ASSUME r.status \in Waiting, NEW w \in Workers
      PROVE  DoneKept(r, Claimed(r, w))
  <2>1. Claimed(r, w).items = r.items
    BY DEF Claimed, Row
  <2> QED  BY <1>5, <2>1, SameItems
<1>6. ASSUME r.status = "running", NEW status \in Terminal, NEW snapshot \in BOOLEAN
      PROVE  DoneKept(r, Finished(r, status, snapshot))
  <2>1. Finished(r, status, snapshot).items = r.items
    BY DEF Finished, Row
  <2> QED  BY <1>6, <2>1, SameItems
<1> QED
  BY <1>1, <1>2, <1>3, <1>4, <1>5, <1>6

\* retry: a run without budget comes back only for a person, with a new one.
LEMMA RequeuedKeepsDone ==
    ASSUME NEW r \in Row, r.status \in {"failed", "partial", "cancelled"},
           NEW manual \in BOOLEAN, ~manual => r.attempt < MaxAttempts
    PROVE  DoneKept(r, Requeued(r, manual))
<1> DEFINE c == Requeued(r, manual)
<1>1. \A s \in Symbols : r.items[s] = "completed" => c.items[s] = "completed"
  BY DEF Requeued, Row
<1>2. manual => c.source = "manual" /\ c.attempt = 0
  BY DEF Requeued, Row
<1>3. r.attempt \in Nat
  BY DEF Row
<1> QED
  BY <1>1, <1>2, <1>3 DEF DoneKept, ItemsKept, OutcomeKept

\* Every step keeps what is done.
LEMMA NextKeepsDone ==
    ASSUME RowsInv, Next
    PROVE  \A k \in Keys : DoneKept(run[k], run'[k])
<1> DEFINE Kept == \A k \in Keys : DoneKept(run[k], run'[k])
<1>1. \A k \in Keys : run[k] \in Row /\ RowInv(run[k])
  BY DEF RowsInv
<1>2. \A r : DoneKept(r, r)
  BY DEF DoneKept, ItemsKept, OutcomeKept
<1>3. ASSUME NEW k \in Keys, NEW r, run' = [run EXCEPT ![k] = r], DoneKept(run[k], r)
      PROVE  Kept
  BY <1>2, <1>3 DEF RowsInv
<1>4. ASSUME NEW k \in Keys, Request(k)
      PROVE  Kept
  <2>1. ASSUME NEW source \in Sources \ {"none"}, Enqueue(k, source)
        PROVE  Kept
    <3>1. CASE ~Present(k)
      <4>1. DoneKept(run[k], NewRow("queued", source, rows + 1))
        BY <1>1, <3>1 DEF Present, RowInv, DoneKept, ItemsKept, OutcomeKept
      <4> QED
        BY <1>3, <2>1, <3>1, <4>1 DEF Enqueue
    <3>2. CASE Present(k)
      BY <1>2, <2>1, <3>2 DEF Enqueue
    <3> QED
      BY <3>1, <3>2
  <2>2. CASE PromoteManual(k)
    BY <1>1, <1>2, <1>3, <2>2, TransformersKeepDone DEF PromoteManual
  <2>3. ASSUME NEW manual \in BOOLEAN, NEW allowed \in BOOLEAN, Retry(k, manual, allowed)
        PROVE  Kept
    BY <1>1, <1>3, <2>3, RequeuedKeepsDone DEF Retry, CanRetry
  <2> QED
    BY <1>4, <2>1, <2>2, <2>3 DEF Request
<1>5. ASSUME NEW k \in Keys, NEW w \in Workers, Execute(k, w)
      PROVE  Kept
  <2>1. ASSUME NEW manualOnly \in BOOLEAN, NEW only \in {Keys, {k}},
               Claim(k, w, manualOnly, only)
        PROVE  Kept
    BY <1>1, <1>3, <2>1, TransformersKeepDone DEF Claim, Claimable
  <2>2. CASE RenewLease(k, w)
    <3>1. DoneKept(run[k], [run[k] EXCEPT !.lease = LeaseTicks])
      BY <1>1, <2>2, SameItems DEF RenewLease, Owned, Running, Row
    <3> QED
      BY <1>3, <2>2, <3>1 DEF RenewLease
  <2>3. ASSUME NEW phase \in WorkPhases, SetPhase(k, w, phase)
        PROVE  Kept
    <3>1. DoneKept(run[k], [run[k] EXCEPT !.phase = phase])
      BY <1>1, <2>3, SameItems DEF SetPhase, Owned, Running, Row
    <3> QED
      BY <1>3, <2>3, <3>1 DEF SetPhase
  <2>4. ASSUME NEW s \in Symbols, NEW i, Running(k), run[k].items[s] # "completed" \/ i \in {"completed", "failed"},
               run' = [run EXCEPT ![k] = [run[k] EXCEPT !.items[s] = i]]
        PROVE  Kept
    <3> DEFINE c == [run[k] EXCEPT !.items[s] = i]
    <3>1. /\ c.status = "running" /\ run[k].status = "running"
          /\ c.items = [run[k].items EXCEPT ![s] = i]
      BY <1>1, <2>4 DEF Row, Running
    <3>2. \A t \in Symbols : c.items[t] = IF t = s THEN i ELSE run[k].items[t]
      BY <1>1, <3>1 DEF Row
    <3> HIDE DEF c
    <3>3. DoneKept(run[k], c)
      BY <2>4, <3>1, <3>2 DEF DoneKept, ItemsKept, OutcomeKept
    <3> QED
      BY <1>3, <2>4, <3>3 DEF c
  <2>5. ASSUME NEW s \in Symbols, NEW status \in {"completed", "failed"},
               RecordItem(k, w, s, status)
        PROVE  Kept
    <3> DEFINE i == IF run[k].items[s] = "completed" THEN "completed" ELSE status
    <3>1. run' = [run EXCEPT ![k] = [run[k] EXCEPT !.items[s] = i]] /\ Running(k)
      BY <2>5 DEF RecordItem, Owned
    <3>2. i \in {"completed", "failed"}
      OBVIOUS
    <3> HIDE DEF i
    <3> QED
      BY <2>4, <3>1, <3>2
  <2>6. ASSUME NEW s \in Symbols, InvalidateItem(k, w, s)
        PROVE  Kept
    <3>1. run' = [run EXCEPT ![k] = [run[k] EXCEPT !.items[s] = "failed"]] /\ Running(k)
      BY <2>6 DEF InvalidateItem, Owned
    <3> QED
      BY <2>4, <3>1
  <2>7. ASSUME NEW status \in Terminal, Finish(k, w, status, Published(status))
        PROVE  Kept
    <3>1. Published(status) \in BOOLEAN
      BY DEF Published
    <3> QED
      BY <1>1, <1>3, <2>7, <3>1, TransformersKeepDone DEF Finish, Owned, Running
  <2> QED
    BY <1>5, <2>1, <2>2, <2>3, <2>5, <2>6, <2>7 DEF Execute
<1>6. ASSUME CancelAutomatic
      PROVE  Kept
  BY <1>1, <1>6, TransformersKeepDone DEF CancelAutomatic
<1>7. ASSUME RecoverExpired
      PROVE  Kept
  BY <1>1, <1>2, <1>7, TransformersKeepDone DEF RecoverExpired, Expired, Running
<1>8. ASSUME Tick
      PROVE  Kept
  <2>1. \A k \in Keys : run'[k].items = run[k].items /\ run'[k].status = run[k].status
    BY <1>1, <1>8 DEF Tick, Row
  <2> QED
    BY <2>1, SameItems
<1>9. ASSUME NEW day \in Days, CancelSuperseded(day)
      PROVE  Kept
  BY <1>1, <1>2, <1>9, TransformersKeepDone DEF CancelSuperseded
<1> HIDE DEF Kept
<1>10. Kept
  BY <1>4, <1>5, <1>6, <1>7, <1>8, <1>9 DEF Next
<1> QED
  BY <1>10 DEF Kept

\* No transaction takes back an item that succeeded, but the executing owner that
\* found its cache invalid, nor a run that ended, but a retry within the budget or
\* by a person (DoneWorkStays: record_item, invalidate_item, retry, recover_expired,
\* promote_manual, claim, finish).
THEOREM DoneStays == Spec => DoneWorkStays
<1>1. IInv /\ [Next]_vars => [CompletedItemsKept /\ FinishedRunsStay]_vars
  <2> SUFFICES ASSUME IInv, Next
               PROVE  CompletedItemsKept /\ FinishedRunsStay
    OBVIOUS
  <2>1. \A k \in Keys : DoneKept(run[k], run'[k])
    BY NextKeepsDone DEF IInv
  <2> QED
    BY <2>1 DEF DoneKept, ItemsKept, OutcomeKept, CompletedItemsKept, FinishedRunsStay, Running
<1> QED
  BY Invariance, <1>1, PTL DEF Spec, DoneWorkStays

-----------------------------------------------------------------------------
(***************************************************************************)
(* The table implements RunQueue: each transaction is one step of the      *)
(* abstract queue, or none.  Most change one row; what such a change is to *)
(* the queue depends on the abstract state of the row before and after.    *)
(* The two cancellations are one Withdraw, and of the rows that            *)
(* recover_expired changes there is at most one, since at most one runs.   *)
(***************************************************************************)

\* The refinement mapping of ImplementsQueue, by parts.
AState  == [k \in Keys |-> Abstract(run[k].status)]
AManual == [k \in Keys |-> run[k].source = "manual"]
ATries  == [k \in Keys |-> run[k].attempt]

-----------------------------------------------------------------------------
(***************************************************************************)
(* What the mapping sees of a step.                                        *)
(***************************************************************************)

\* A transaction that writes one row, and that the queue does not see.
LEMMA OneSame ==
    ASSUME RowsInv, NEW k \in Keys, NEW c, run' = [run EXCEPT ![k] = c],
           Abstract(c.status) = Abstract(run[k].status),
           c.source = run[k].source, c.attempt = run[k].attempt
    PROVE  UNCHANGED <<AState, AManual, ATries>>
BY DEF RowsInv, AState, AManual, ATries

\* A step that shows no one anything new is a stutter of the queue.
LEMMA Unseen ==
    ASSUME UNCHANGED <<AState, AManual, ATries>>
    PROVE  UNCHANGED Queue!vars
BY DEF Queue!vars, AState, AManual, ATries

\* Automatic runs that wait are cancelled, and nothing else changes.
LEMMA WithdrawnTogether ==
    ASSUME RowsInv, NEW S, S \subseteq Keys,
           \A k \in S : run[k].status \in Waiting /\ run[k].source # "manual",
           \A k \in S : run'[k].status = "cancelled",
           \A k \in Keys \ S : run'[k].status = run[k].status,
           \A k \in Keys : run'[k].source = run[k].source /\ run'[k].attempt = run[k].attempt
    PROVE  Queue!Next
<1>1. S \in SUBSET {k \in Keys : AState[k] = "waiting" /\ ~AManual[k]}
  BY DEF AState, AManual, Abstract
<1>2. AState' = [k \in Keys |-> IF k \in S THEN "over" ELSE AState[k]]
  BY DEF AState, Abstract
<1>3. UNCHANGED <<AManual, ATries>>
  BY DEF AManual, ATries
<1>4. Queue!Withdraw
  BY <1>1, <1>2, <1>3 DEF Queue!Withdraw, AState, AManual, ATries
<1> QED  BY <1>4 DEF Queue!Next

-----------------------------------------------------------------------------
(***************************************************************************)
(* The transactions.                                                       *)
(***************************************************************************)

\* enqueue submits the run, or finds it there already.
LEMMA EnqueueMaps ==
    ASSUME IInv, NEW k \in Keys, NEW source, Enqueue(k, source)
    PROVE  [Queue!Next]_(Queue!vars)
<1>1. CASE /\ ~Present(k)
           /\ run' = [run EXCEPT ![k] = NewRow("queued", source, rows + 1)]
  <2> DEFINE c == NewRow("queued", source, rows + 1)
  <2>1. c.status = "queued" /\ c.source = source /\ c.attempt = 0
    BY DEF NewRow
  <2>2. AState[k] = "none" /\ ATries[k] = 0 /\ Abstract(c.status) = "waiting"
    BY <1>1, <2>1 DEF AState, ATries, Abstract, Present, IInv, RowsInv, RowInv
  <2>. RowsInv /\ run' = [run EXCEPT ![k] = c]
    BY <1>1 DEF IInv
  <2> HIDE DEF c
  <2>3. /\ AState' = [AState EXCEPT ![k] = "waiting"]
        /\ AManual' = [AManual EXCEPT ![k] = (c.source = "manual")]
        /\ ATries' = [ATries EXCEPT ![k] = 0]
    BY <2>1, <2>2 DEF RowsInv, AState, AManual, ATries
  <2>4. UNCHANGED ATries
    BY <2>2, <2>3 DEF ATries
  <2>5. Queue!Submit(k)
    BY <2>2, <2>3, <2>4 DEF Queue!Submit, Queue!Move, AState, AManual, ATries
  <2> QED  BY <2>5 DEF Queue!Next
<1>2. CASE UNCHANGED run
  BY <1>2, Unseen DEF AState, AManual, ATries
<1> QED  BY <1>1, <1>2 DEF Enqueue

\* promote_manual is a demand for a run that waits or is executed.
LEMMA PromoteMaps ==
    ASSUME IInv, NEW k \in Keys, PromoteManual(k)
    PROVE  [Queue!Next]_(Queue!vars)
<1>1. CASE /\ run[k].status \in Waiting \union {"running"}
           /\ run' = [run EXCEPT ![k] = TakenOver(run[k])]
  <2> DEFINE c == TakenOver(run[k])
  <2>1. run[k] \in Row
    BY DEF IInv, RowsInv
  <2>2. c.status \in Waiting \union {"running"} /\ (c.status = "running" <=> run[k].status = "running")
    BY <1>1, <2>1, TransformerStatus
  <2>3. c.source = "manual" /\ c.attempt = run[k].attempt
    BY <2>1 DEF TakenOver, Row
  <2>. RowsInv /\ run' = [run EXCEPT ![k] = c]
    BY <1>1 DEF IInv
  <2> HIDE DEF c
  <2>4. Abstract(c.status) = AState[k] /\ AState[k] \in {"waiting", "active"} /\ c.attempt = ATries[k]
    BY <1>1, <2>2, <2>3 DEF AState, ATries, Abstract
  <2>5. /\ AState' = [AState EXCEPT ![k] = AState[k]]
        /\ AManual' = [AManual EXCEPT ![k] = TRUE]
        /\ ATries' = [ATries EXCEPT ![k] = ATries[k]]
    BY <2>3, <2>4 DEF RowsInv, AState, AManual, ATries
  <2>6. UNCHANGED <<AState, ATries>>
    BY <2>5 DEF AState, ATries
  <2>7. Queue!Demand(k)
    BY <2>4, <2>5, <2>6 DEF Queue!Demand, AState, AManual, ATries
  <2> QED  BY <2>7 DEF Queue!Next
<1>2. CASE UNCHANGED run
  BY <1>2, Unseen DEF AState, AManual, ATries
<1> QED  BY <1>1, <1>2 DEF PromoteManual

\* Both cancellations withdraw runs that wait and that no person asked for.
LEMMA CancelMaps ==
    ASSUME IInv, CancelAutomatic \/ (\E t \in Nat : CancelSuperseded(t))
    PROVE  [Queue!Next]_(Queue!vars)
<1>1. RowsInv /\ \A k \in Keys : run[k] \in Row
  BY DEF IInv, RowsInv
<1>2. CASE CancelAutomatic
  <2> DEFINE S == {k \in Keys : run[k].source # "manual" /\ run[k].status \in Waiting}
  <2>1. ASSUME NEW r \in Row
        PROVE  SwitchedOff(r).source = r.source /\ SwitchedOff(r).attempt = r.attempt
    <3>1. Withdrawn(r).source = r.source /\ Withdrawn(r).attempt = r.attempt
      BY <2>1 DEF Withdrawn, Row
    <3>2. [r EXCEPT !.cancel = TRUE].source = r.source /\ [r EXCEPT !.cancel = TRUE].attempt = r.attempt
      BY <2>1 DEF Row
    <3> QED  BY <3>1, <3>2 DEF SwitchedOff
  <2>2. \A k \in Keys : run'[k] = SwitchedOff(run[k])
    BY <1>2 DEF CancelAutomatic
  <2>3. \A k \in S : run'[k].status = "cancelled"
    BY <1>1, <2>2, TransformerStatus
  <2>4. \A k \in Keys \ S : run'[k].status = run[k].status
    BY <1>1, <2>2, TransformerStatus
  <2>5. \A k \in Keys : run'[k].source = run[k].source /\ run'[k].attempt = run[k].attempt
    BY <1>1, <2>1, <2>2
  <2>6. S \subseteq Keys /\ \A k \in S : run[k].status \in Waiting /\ run[k].source # "manual"
    OBVIOUS
  <2> HIDE DEF S
  <2> QED  BY <1>1, <2>3, <2>4, <2>5, <2>6, WithdrawnTogether
<1>3. ASSUME NEW t \in Nat, CancelSuperseded(t)
      PROVE  [Queue!Next]_(Queue!vars)
  <2> DEFINE S == {k \in Keys : Automatic(k) /\ run[k].status \in Waiting /\ TargetOf[k] < t}
  <2>1. \A k \in Keys : run'[k] = IF k \in S THEN Withdrawn(run[k]) ELSE run[k]
    BY <1>3 DEF CancelSuperseded
  <2>2. \A k \in S : run'[k].status = "cancelled"
    BY <1>1, <2>1, TransformerStatus
  <2>3. \A k \in Keys \ S : run'[k].status = run[k].status
    BY <2>1
  <2>4. ASSUME NEW r \in Row
        PROVE  Withdrawn(r).source = r.source /\ Withdrawn(r).attempt = r.attempt
    BY <2>4 DEF Withdrawn, Row
  <2>5. \A k \in Keys : run'[k].source = run[k].source /\ run'[k].attempt = run[k].attempt
    BY <1>1, <2>1, <2>4
  <2>6. S \subseteq Keys /\ \A k \in S : run[k].status \in Waiting /\ run[k].source # "manual"
    BY DEF Automatic
  <2> HIDE DEF S
  <2> QED  BY <1>1, <2>2, <2>3, <2>5, <2>6, WithdrawnTogether
<1> QED  BY <1>2, <1>3

\* retry is a demand of a person, or one more try within the budget.
LEMMA RetryMaps ==
    ASSUME IInv, NEW k \in Keys, NEW manual \in BOOLEAN, NEW allowed \in BOOLEAN,
           Retry(k, manual, allowed)
    PROVE  [Queue!Next]_(Queue!vars)
<1> DEFINE c == Requeued(run[k], manual)
<1>1. run[k] \in Row /\ RowsInv /\ run[k].attempt \in Nat
  BY DEF IInv, RowsInv, Row
<1>2. c.status \in Waiting
  BY <1>1, TransformerStatus
<1>3. /\ manual => c.source = "manual" /\ c.attempt = 0
      /\ ~manual => c.source = run[k].source /\ c.attempt = run[k].attempt
  BY <1>1 DEF Requeued, Row
<1>. run' = [run EXCEPT ![k] = c]
  BY DEF Retry
<1> HIDE DEF c
<1>4. AState[k] = "over" /\ Abstract(c.status) = "waiting"
  BY <1>2 DEF Retry, CanRetry, AState, Abstract
<1>5. /\ AState' = [AState EXCEPT ![k] = "waiting"]
      /\ AManual' = [AManual EXCEPT ![k] = (c.source = "manual")]
      /\ ATries' = [ATries EXCEPT ![k] = c.attempt]
  BY <1>1, <1>4 DEF RowsInv, AState, AManual, ATries
<1>6. CASE manual
  <2>1. Queue!Demand(k)
    BY <1>3, <1>4, <1>5, <1>6 DEF Queue!Demand, Queue!Move, AState, AManual, ATries
  <2> QED  BY <2>1 DEF Queue!Next
<1>7. CASE ~manual
  <2>1. ATries[k] < MaxAttempts
    BY <1>7 DEF Retry, CanRetry, ATries
  <2>2. UNCHANGED <<AManual, ATries>>
    BY <1>3, <1>5, <1>7 DEF AManual, ATries
  <2>3. Queue!Again(k)
    BY <1>4, <1>5, <2>1, <2>2 DEF Queue!Again, Queue!Move, AState, AManual, ATries
  <2> QED  BY <2>3 DEF Queue!Next
<1> QED  BY <1>6, <1>7

\* claim starts a run and finish ends it; what lies between is not seen.
LEMMA ExecuteMaps ==
    ASSUME IInv, NEW k \in Keys, NEW w \in Workers, Execute(k, w)
    PROVE  [Queue!Next]_(Queue!vars)
<1>. RowsInv /\ run[k] \in Row /\ RowInv(run[k])
  BY DEF IInv, RowsInv
<1>1. ASSUME NEW manualOnly \in BOOLEAN, NEW only \in {Keys, {k}},
             Claim(k, w, manualOnly, only)
      PROVE  Queue!Start(k)
  <2> DEFINE c == Claimed(run[k], w)
  <2>1. c.status = "running" /\ c.source = run[k].source /\ c.attempt = run[k].attempt + 1
    BY DEF Claimed, Row
  <2>2. run' = [run EXCEPT ![k] = c]
    BY <1>1 DEF Claim
  <2> HIDE DEF c
  <2>3. run[k].status \in Waiting /\ \A j \in Keys : run[j].status # "running"
    BY <1>1 DEF Claim, Claimable, NothingRunning, Running
  <2>4. AState[k] = "waiting" /\ Abstract(c.status) = "active"
    BY <2>1, <2>3 DEF AState, Abstract
  <2>5. ATries[k] < MaxAttempts
    BY <2>3 DEF ATries, RowInv
  <2>6. \A j \in Keys : AState[j] # "active"
    BY <2>3 DEF AState, Abstract
  <2>7. /\ AState' = [AState EXCEPT ![k] = "active"]
        /\ ATries' = [ATries EXCEPT ![k] = ATries[k] + 1]
        /\ UNCHANGED AManual
    BY <2>1, <2>2, <2>4 DEF RowsInv, AState, AManual, ATries
  <2> QED  BY <2>4, <2>5, <2>6, <2>7 DEF Queue!Start, Queue!Move, AState, AManual, ATries
<1>2. ASSUME NEW c, run' = [run EXCEPT ![k] = c], c.status = run[k].status,
             c.source = run[k].source, c.attempt = run[k].attempt
      PROVE  UNCHANGED Queue!vars
  BY <1>2, OneSame, Unseen
<1>3. CASE RenewLease(k, w)
  <2>1. run' = [run EXCEPT ![k] = [run[k] EXCEPT !.lease = LeaseTicks]]
    BY <1>3 DEF RenewLease
  <2> QED  BY <1>2, <2>1 DEF Row
<1>4. ASSUME NEW phase \in WorkPhases, SetPhase(k, w, phase)
      PROVE  UNCHANGED Queue!vars
  <2>1. run' = [run EXCEPT ![k] = [run[k] EXCEPT !.phase = phase]]
    BY <1>4 DEF SetPhase
  <2> QED  BY <1>2, <2>1 DEF Row
<1>5. ASSUME NEW s \in Symbols, NEW i, run' = [run EXCEPT ![k] = [run[k] EXCEPT !.items[s] = i]]
      PROVE  UNCHANGED Queue!vars
  BY <1>2, <1>5 DEF Row
<1>6. ASSUME NEW s \in Symbols, NEW status \in {"completed", "failed"},
             RecordItem(k, w, s, status)
      PROVE  UNCHANGED Queue!vars
  <2> DEFINE i == IF run[k].items[s] = "completed" THEN "completed" ELSE status
  <2>1. run' = [run EXCEPT ![k] = [run[k] EXCEPT !.items[s] = i]]
    BY <1>6 DEF RecordItem
  <2> HIDE DEF i
  <2> QED  BY <1>5, <2>1
<1>7. ASSUME NEW s \in Symbols, InvalidateItem(k, w, s)
      PROVE  UNCHANGED Queue!vars
  <2>1. run' = [run EXCEPT ![k] = [run[k] EXCEPT !.items[s] = "failed"]]
    BY <1>7 DEF InvalidateItem
  <2> QED  BY <1>5, <2>1
<1>8. ASSUME NEW status \in Terminal, Finish(k, w, status, Published(status))
      PROVE  Queue!End(k)
  <2> DEFINE c == Finished(run[k], status, Published(status))
             e == IF status = "completed" THEN "complete" ELSE "over"
  <2>1. c.status = status /\ c.source = run[k].source /\ c.attempt = run[k].attempt
    BY DEF Finished, Row
  <2>2. run' = [run EXCEPT ![k] = c] /\ run[k].status = "running"
    BY <1>8 DEF Finish, Owned, Running
  <2> HIDE DEF c
  <2>3. AState[k] = "active" /\ Abstract(c.status) = e
    BY <2>1, <2>2 DEF AState, Abstract
  <2>4. e \in {"over", "complete"}
    OBVIOUS
  <2> HIDE DEF e
  <2>5. AState' = [AState EXCEPT ![k] = e] /\ UNCHANGED <<AManual, ATries>>
    BY <2>1, <2>2, <2>3 DEF RowsInv, AState, AManual, ATries
  <2> QED  BY <2>3, <2>4, <2>5 DEF Queue!End, Queue!Move, AState, AManual, ATries
<1>9. [Queue!Next]_(Queue!vars) \/ UNCHANGED Queue!vars
  BY <1>1, <1>3, <1>4, <1>6, <1>7, <1>8 DEF Execute, Queue!Next
<1> QED  BY <1>9

\* recover_expired ends the run whose lease ran out, or puts it back to wait.
LEMMA RecoverMaps ==
    ASSUME IInv, RecoverExpired
    PROVE  [Queue!Next]_(Queue!vars)
<1>. RowsInv /\ SingleRunning /\ \A k \in Keys : run[k] \in Row /\ RowInv(run[k])
  BY DEF IInv, RowsInv
<1>1. CASE \A k \in Keys : ~Expired(k)
  <2>1. UNCHANGED run
    BY <1>1 DEF RecoverExpired, RowsInv
  <2> QED  BY <2>1, Unseen DEF AState, AManual, ATries
<1>2. ASSUME NEW k \in Keys, Expired(k)
      PROVE  [Queue!Next]_(Queue!vars)
  <2> DEFINE c == Recovered(run[k])
  <2>1. \A j \in Keys : Expired(j) <=> j = k
    BY <1>2 DEF SingleRunning, Expired
  <2>2. run' = [run EXCEPT ![k] = c]
    BY <2>1 DEF RecoverExpired, RowsInv
  <2>3. c.source = run[k].source /\ c.attempt = run[k].attempt
    BY DEF Recovered, Row
  <2>4. c.status \in {"cancelled", "failed", "retry_wait"}
    BY TransformerStatus
  <2>5. RowInv(c)
    BY <1>2, RecoveredInv DEF Expired, Running
  <2> HIDE DEF c
  <2>6. c.status = "retry_wait" => ATries[k] < MaxAttempts
    BY <2>3, <2>5 DEF RowInv, ATries
  <2> DEFINE e == IF c.status = "retry_wait" THEN "waiting" ELSE "over"
  <2>7. AState[k] = "active" /\ Abstract(c.status) = e
    BY <1>2, <2>4 DEF AState, Abstract, Expired, Running
  <2>8. AState' = [AState EXCEPT ![k] = e] /\ UNCHANGED <<AManual, ATries>>
    <3> HIDE DEF e
    <3> QED  BY <2>2, <2>3, <2>7 DEF RowsInv, AState, AManual, ATries
  <2>9. CASE c.status = "retry_wait"
    <3>1. Queue!Again(k)
      BY <2>6, <2>7, <2>8, <2>9 DEF Queue!Again, Queue!Move, AState, AManual, ATries
    <3> QED  BY <3>1 DEF Queue!Next
  <2>10. CASE c.status # "retry_wait"
    <3>1. Queue!End(k)
      BY <2>7, <2>8, <2>10 DEF Queue!End, Queue!Move, AState, AManual, ATries
    <3> QED  BY <3>1 DEF Queue!Next
  <2> QED  BY <2>9, <2>10
<1> QED  BY <1>1, <1>2

\* Time is not seen.
LEMMA TickMaps ==
    ASSUME IInv, Tick
    PROVE  UNCHANGED Queue!vars
<1>1. \A k \in Keys : run[k] \in Row
  BY DEF IInv, RowsInv
<1>2. \A k \in Keys : /\ run'[k].status = run[k].status
                      /\ run'[k].source = run[k].source
                      /\ run'[k].attempt = run[k].attempt
  BY <1>1 DEF Tick, Row
<1> QED  BY <1>2, Unseen DEF AState, AManual, ATries

-----------------------------------------------------------------------------
(***************************************************************************)
(* The refinement.                                                         *)
(***************************************************************************)

\* Every step of the store is a step of the queue or leaves it as it is.
LEMMA StepMaps == IInv /\ [Next]_vars => [Queue!Next]_(Queue!vars)
<1> SUFFICES ASSUME IInv, [Next]_vars PROVE [Queue!Next]_(Queue!vars)
  OBVIOUS
<1>1. ASSUME NEW k \in Keys, Request(k)
      PROVE  [Queue!Next]_(Queue!vars)
  BY <1>1, EnqueueMaps, PromoteMaps, RetryMaps DEF Request
<1>2. CASE UNCHANGED vars
  BY <1>2, Unseen DEF vars, AState, AManual, ATries
<1>3. ASSUME NEW day \in Days, CancelSuperseded(day)
      PROVE  [Queue!Next]_(Queue!vars)
  BY <1>3, CancelMaps, KeysAssumption
<1> QED
  BY <1>1, <1>2, <1>3, ExecuteMaps, CancelMaps, RecoverMaps, TickMaps DEF Next

\* The empty table is the empty queue.
LEMMA InitMaps == Init => Queue!Init
<1> SUFFICES ASSUME Init PROVE Queue!Init
  OBVIOUS
<1>1. \A k \in Keys : /\ run[k].status = "absent" /\ run[k].source = "none"
                      /\ run[k].attempt = 0
  BY DEF Init, NewRow
<1>2. \A k \in Keys : Abstract(run[k].status) = "none" /\ ~(run[k].source = "manual")
  BY <1>1 DEF Abstract
<1>3. [k \in Keys |-> run[k].source = "manual"] = [k \in Keys |-> FALSE]
  BY <1>2, Zenon
<1>4. [k \in Keys |-> Abstract(run[k].status)] = [k \in Keys |-> "none"]
  BY <1>2, Zenon
<1>5. [k \in Keys |-> run[k].attempt] = [k \in Keys |-> 0]
  BY <1>1
<1> QED  BY <1>2, <1>3, <1>4, <1>5 DEF Queue!Init

\* The table of collection runs, whatever its callers do and in whatever order,
\* behaves like the queue that executes one run at a time and at most three times
\* per demand (ImplementsQueue: enqueue, promote_manual, claim, finish, retry,
\* recover_expired and the two cancellations of CollectorStore).
THEOREM StoreImplementsQueue == Spec => ImplementsQueue
<1> QED  BY Invariance, InitMaps, StepMaps, PTL DEF Spec, ImplementsQueue, Queue!Spec

-----------------------------------------------------------------------------
(* The processes around the queue.                                         *)

Checks == {"check", "checkswitch", "checkoff", "checkpool"}
Resume == {"begin", "fetch", "score", "publish", "commit"}
Planning == {"top", "topoff", "coordinate", "coordinateoff", "plan", "enqueue",
             "revive", "acquire"}
Places == Planning \union {"reread", "requeue"} \union Locked

Fields == {"life", "pc", "stop", "next", "key", "left", "got", "exc", "outcome", "flag",
           "prev", "err", "must", "todo", "revive"}

USE DEF Executing, Locked, Checks, Resume, Planning, Places, Fields

\* What a process knows at each place of its code.
PInv(p) ==
    /\ DOMAIN p = Fields
    /\ p.life \in {"new", "up", "dead"} /\ p.pc \in Places
    /\ p.key \in Keys \union {None} /\ p.left \subseteq Symbols
    /\ p.flag \in BOOLEAN /\ p.todo \subseteq Keys /\ p.revive \subseteq Keys
    /\ p.life # "up" => p.pc \in {"top", "acquire"}
    /\ p.pc \in Checks => p.next \in Resume
    /\ p.pc \in {"reread", "requeue"} => p.next \in {"revive", "release"}
    /\ p.pc = "retryswitch" => p.next = "release"
    /\ p.pc \in Executing \union {"retry", "retryswitch", "reread", "requeue"} => p.key \in Keys
    /\ p.pc = "finish" => p.outcome \in Terminal

\* Where a process has the execution lock.
Holds(p) == /\ p.life = "up"
            /\ \/ p.pc \in Locked
               \/ p.pc \in {"reread", "requeue"} /\ p.next = "release"

\* Process w at p owns the run it executes in the table r, and what it is about to
\* report agrees with the items of the row and with the snapshots in pub.
Serves(r, pub, w, p) ==
    p.pc \in Executing =>
        /\ r[p.key].status = "running" /\ r[p.key].worker = w
        /\ p.pc = "finish" /\ p.outcome \in {"completed", "partial"} =>
              /\ p.key \in pub
              /\ p.outcome = "completed" <=> \A s \in Symbols : r[p.key].items[s] = "completed"

\* What a row reports agrees with its items and with the snapshots in pub.
Reports(r, pub, k) ==
    r[k].status \in {"completed", "partial"} =>
        /\ k \in pub
        /\ r[k].status = "completed" <=> \A s \in Symbols : r[k].items[s] = "completed"

TableOK == RowsInv /\ rows \in Nat

EnvOK == /\ enabled \in BOOLEAN /\ toggles \in 0..MaxToggles /\ edits \in 0..MaxEdits
         /\ offered \subseteq Keys /\ broken \in BOOLEAN /\ target \in 1..LastDay
         /\ asked \subseteq Keys /\ published \subseteq Keys

ClientsOK == /\ client \in [Clients -> [pc : {"idle", "act", "done"}, key : Keys \union {None},
                                        api : BOOLEAN, saw : Statuses \union {"none", "taken"}]]
             /\ \A c \in Clients : client[c].pc = "act" => client[c].key \in Keys

Guarded == /\ lock \in Workers \union {None}
           /\ \A w \in Workers : lock = w <=> Holds(proc[w])

ProcsOK == /\ DOMAIN proc = Workers
           /\ \A w \in Workers : PInv(proc[w])

WInv == /\ TableOK /\ EnvOK /\ ClientsOK /\ ProcsOK /\ Guarded
        /\ \A w \in Workers : Serves(run, published, w, proc[w])
        /\ \A k \in Keys : Reports(run, published, k)

-----------------------------------------------------------------------------
(***************************************************************************)
(* Transactions that anyone may make at any time.                          *)
(***************************************************************************)

\* They keep status, owner and items of a run being executed, and report nothing new.
Undisturbed ==
    \A k \in Keys :
        /\ Running(k) => /\ run'[k].status = "running" /\ run'[k].worker = run[k].worker
                         /\ run'[k].items = run[k].items
        /\ run'[k].status \in {"completed", "partial"} =>
              run'[k].status = run[k].status /\ run'[k].items = run[k].items

\* What a transaction of the table may leave behind.
Quiet == TableOK' /\ Undisturbed

\* A step that leaves the table alone.
LEMMA QuietSame == ASSUME TableOK, UNCHANGED <<run, rows>> PROVE Quiet
BY DEF Quiet, TableOK, RowsInv, Undisturbed, Running

\* One row becomes c.
LEMMA QuietOne ==
    ASSUME RowsInv, NEW k \in Keys, NEW c, run' = [run EXCEPT ![k] = c], TableOK',
           Running(k) => c.status = "running" /\ c.worker = run[k].worker /\ c.items = run[k].items,
           c.status \in {"completed", "partial"} => c.status = run[k].status /\ c.items = run[k].items
    PROVE  Quiet
BY DEF RowsInv, Quiet, Undisturbed, Running

\* enqueue inserts a row that was absent.
LEMMA QuietEnqueue ==
    ASSUME TableOK, NEW k \in Keys, NEW source \in Sources \ {"none"}, Enqueue(k, source)
    PROVE  Quiet
<1>1. TableOK'
  BY EnqueueRows DEF TableOK
<1>2. CASE run' = [run EXCEPT ![k] = NewRow("queued", source, rows + 1)] /\ ~Present(k)
  <2>1. NewRow("queued", source, rows + 1).status = "queued"
    BY DEF NewRow
  <2> QED
    BY <1>1, <1>2, <2>1, QuietOne DEF TableOK, Present, Running
<1>3. CASE UNCHANGED <<run, rows>>
  BY <1>3, QuietSame
<1> QED
  BY <1>2, <1>3 DEF Enqueue

\* promote_manual leaves a row with its owner.
LEMMA QuietPromote ==
    ASSUME TableOK, NEW k \in Keys, PromoteManual(k)
    PROVE  Quiet
<1>1. TableOK' /\ run[k] \in Row
  BY PromoteManualRows DEF TableOK, PromoteManual, RowsInv
<1>2. CASE run[k].status \in Waiting \union {"running"} /\ run' = [run EXCEPT ![k] = TakenOver(run[k])]
  <2> DEFINE c == TakenOver(run[k])
  <2>1. /\ c.status = IF run[k].status = "retry_wait" THEN "queued" ELSE run[k].status
        /\ c.worker = run[k].worker /\ c.items = run[k].items
    BY <1>1 DEF TakenOver, Row
  <2>2. run' = [run EXCEPT ![k] = c]
    BY <1>2
  <2> HIDE DEF c
  <2> QED
    BY <1>1, <1>2, <2>1, <2>2, QuietOne DEF TableOK, Running
<1>3. CASE UNCHANGED run
  BY <1>3, QuietSame DEF PromoteManual
<1> QED
  BY <1>2, <1>3 DEF PromoteManual

\* The cancellations withdraw rows that wait and only mark the one that runs.
LEMMA QuietCancel ==
    ASSUME TableOK, CancelAutomatic \/ (\E t \in Nat : CancelSuperseded(t))
    PROVE  Quiet
<1>1. TableOK' /\ \A k \in Keys : run[k] \in Row
  BY CancelRows DEF TableOK, CancelAutomatic, CancelSuperseded, RowsInv
<1>2. ASSUME NEW r \in Row
      PROVE  /\ Withdrawn(r).status = "cancelled"
             /\ SwitchedOff(r).worker = r.worker /\ SwitchedOff(r).items = r.items
  <2>1. /\ Withdrawn(r).status = "cancelled" /\ Withdrawn(r).worker = r.worker
        /\ Withdrawn(r).items = r.items
    BY DEF Withdrawn, Row
  <2>2. [r EXCEPT !.cancel = TRUE].worker = r.worker /\ [r EXCEPT !.cancel = TRUE].items = r.items
    BY DEF Row
  <2> QED
    BY <2>1, <2>2 DEF SwitchedOff
<1>3. CASE CancelAutomatic
  <2>1. \A k \in Keys : run'[k] = SwitchedOff(run[k])
    BY <1>3 DEF CancelAutomatic
  <2> QED
    BY <1>1, <1>2, <2>1, TransformerStatus DEF Quiet, Undisturbed, Running
<1>4. CASE \E t \in Nat : CancelSuperseded(t)
  <2>1. \A k \in Keys : \/ run'[k] = run[k]
                        \/ run'[k] = Withdrawn(run[k]) /\ run[k].status \in Waiting
    BY <1>4 DEF CancelSuperseded
  <2> QED
    BY <1>1, <1>2, <2>1 DEF Quiet, Undisturbed, Running
<1> QED
  BY <1>3, <1>4

\* retry takes a row that has an outcome.
LEMMA QuietRetry ==
    ASSUME TableOK, NEW k \in Keys, NEW manual \in BOOLEAN, NEW enough \in BOOLEAN,
           Retry(k, manual, enough)
    PROVE  Quiet
<1>1. TableOK' /\ run[k] \in Row
  BY RetryRows DEF TableOK, Retry, RowsInv
<1> DEFINE c == Requeued(run[k], manual)
<1>2. c.status \in Waiting /\ run' = [run EXCEPT ![k] = c]
  BY <1>1, TransformerStatus DEF Retry
<1>3. ~Running(k)
  BY DEF Retry, CanRetry, Running
<1> HIDE DEF c
<1> QED
  BY <1>1, <1>2, <1>3, QuietOne DEF TableOK

\* Time only shortens leases and waits.
LEMMA QuietTick ==
    ASSUME TableOK, Tick
    PROVE  Quiet
<1>1. TableOK' /\ \A k \in Keys : run[k] \in Row
  BY TickRows DEF TableOK, Tick, RowsInv
<1>2. \A k \in Keys : /\ run'[k].status = run[k].status /\ run'[k].worker = run[k].worker
                      /\ run'[k].items = run[k].items
  BY <1>1 DEF Tick, Row
<1> QED
  BY <1>1, <1>2 DEF Quiet, Undisturbed, Running

\* The heartbeat and set_phase write to a run of their own, and keep its items.
LEMMA QuietWrite ==
    ASSUME TableOK, NEW k \in Keys, NEW w \in Workers,
           RenewLease(k, w) \/ \E phase \in WorkPhases : SetPhase(k, w, phase)
    PROVE  Quiet
<1>1. TableOK' /\ run[k] \in Row
  BY ExecuteRows DEF TableOK, RenewLease, SetPhase, RowsInv, Execute
<1>2. CASE RenewLease(k, w)
  <2> DEFINE c == [run[k] EXCEPT !.lease = LeaseTicks]
  <2>1. /\ c.status = run[k].status /\ c.worker = run[k].worker /\ c.items = run[k].items
        /\ run' = [run EXCEPT ![k] = c]
    BY <1>1, <1>2 DEF RenewLease, Row
  <2> HIDE DEF c
  <2> QED
    BY <1>1, <2>1, QuietOne DEF TableOK, Running
<1>3. ASSUME NEW phase \in WorkPhases, SetPhase(k, w, phase)
      PROVE  Quiet
  <2> DEFINE c == [run[k] EXCEPT !.phase = phase]
  <2>1. /\ c.status = run[k].status /\ c.worker = run[k].worker /\ c.items = run[k].items
        /\ run' = [run EXCEPT ![k] = c]
    BY <1>1, <1>3 DEF SetPhase, Row
  <2> HIDE DEF c
  <2> QED
    BY <1>1, <2>1, QuietOne DEF TableOK, Running
<1> QED
  BY <1>2, <1>3

-----------------------------------------------------------------------------
(***************************************************************************)
(* What a step has to show.                                                *)
(***************************************************************************)

\* Quiet transactions keep what the processes serve and what the rows report, ...
LEMMA QuietServes ==
    ASSUME Quiet, NEW w \in Workers, NEW p, PInv(p), Serves(run, published, w, p),
           published \subseteq published'
    PROVE  Serves(run', published', w, p)
BY DEF Quiet, Undisturbed, Serves, Running, PInv

\* ... and what the rows report, ...
LEMMA QuietReports ==
    ASSUME Quiet, NEW k \in Keys, Reports(run, published, k), published \subseteq published'
    PROVE  Reports(run', published', k)
BY DEF Quiet, Undisturbed, Reports

\* ... and while w holds the lock no other process serves a run.
LEMMA OnlyHolderServes ==
    ASSUME ProcsOK, Guarded, NEW w \in Workers, lock = w, NEW v \in Workers, v # w
    PROVE  proc[v].pc \notin Executing /\ \A r, pub : Serves(r, pub, v, proc[v])
<1>1. PInv(proc[v]) /\ ~Holds(proc[v])
  BY DEF ProcsOK, Guarded
<1>2. proc[v].pc \notin Executing
  BY <1>1 DEF PInv, Holds
<1> QED
  BY <1>2 DEF Serves

\* A step of any kind, the lock aside, that is harmless for everyone.
Still == /\ Quiet /\ UNCHANGED lock /\ published \subseteq published'
         /\ EnvOK' /\ ClientsOK'

\* A process that only reads, or makes one of the transactions above, is harmless.
LEMMA StillReads == ASSUME WInv, Reads PROVE Still
<1>1. UNCHANGED <<run, rows, environment, lock, client, asked, published>>
  BY DEF Reads, queue
<1>2. EnvOK' /\ ClientsOK'
  BY <1>1 DEF WInv, EnvOK, ClientsOK, environment
<1> QED
  BY <1>1, <1>2, QuietSame DEF Still, WInv

\* A process step never touches the environment, the lock or the requests.
LEMMA WritesKeep ==
    ASSUME WInv, Writes PROVE UNCHANGED <<lock, published>> /\ EnvOK' /\ ClientsOK'
<1>1. UNCHANGED <<lock, client, environment, published>> /\ asked' \subseteq asked
  BY DEF Writes, Answered
<1> QED
  BY <1>1 DEF WInv, EnvOK, ClientsOK, environment

\* Nor is a quiet transaction seen by anyone else.
LEMMA StillWrites == ASSUME WInv, Writes, Quiet PROVE Still
BY WritesKeep DEF Still

\* A harmless step of process w, which neither takes nor gives back the lock.
LEMMA ProcStep ==
    ASSUME WInv, NEW w \in Workers, NEW p, PInv(p), proc' = [proc EXCEPT ![w] = p],
           Still, Holds(p) <=> Holds(proc[w]), Serves(run', published', w, p)
    PROVE  WInv'
<1>0. Quiet /\ UNCHANGED lock /\ published \subseteq published' /\ EnvOK' /\ ClientsOK'
  BY DEF Still
<1>1. ProcsOK' /\ \A v \in Workers : proc'[v] = IF v = w THEN p ELSE proc[v]
  BY DEF WInv, ProcsOK, PInv
<1>2. Guarded'
  BY <1>0, <1>1 DEF WInv, Guarded
<1>3. \A v \in Workers : Serves(run', published', v, proc'[v])
  BY <1>0, <1>1, QuietServes DEF WInv, ProcsOK
<1>4. \A k \in Keys : Reports(run', published', k)
  BY <1>0, QuietReports DEF WInv
<1> QED
  BY <1>0, <1>1, <1>2, <1>3, <1>4 DEF WInv, Quiet

\* It may go on executing the same run, unless it comes to finish.
LEMMA ServingStep ==
    ASSUME WInv, NEW w \in Workers, NEW p, PInv(p), proc' = [proc EXCEPT ![w] = p],
           Still, Holds(p), Holds(proc[w]),
           p.pc \in Executing => /\ proc[w].pc \in Executing /\ p.key = proc[w].key
                                 /\ p.pc # "finish" \/ p.outcome \notin {"completed", "partial"}
    PROVE  WInv'
<1>1. Serves(run, published, w, p)
  BY DEF WInv, Serves
<1>2. Serves(run', published', w, p)
  BY <1>1, QuietServes DEF Still
<1> QED
  BY <1>2, ProcStep

\* A harmless step that no process takes.
LEMMA WorldStep == ASSUME WInv, Still, UNCHANGED proc PROVE WInv'
<1>0. Quiet /\ UNCHANGED lock /\ published \subseteq published' /\ EnvOK' /\ ClientsOK'
  BY DEF Still
<1>1. ProcsOK' /\ Guarded'
  BY <1>0 DEF WInv, ProcsOK, Guarded
<1>2. \A v \in Workers : Serves(run', published', v, proc'[v])
  BY <1>0, QuietServes DEF WInv, ProcsOK
<1>3. \A k \in Keys : Reports(run', published', k)
  BY <1>0, QuietReports DEF WInv
<1> QED
  BY <1>0, <1>1, <1>2, <1>3 DEF WInv, Quiet

-----------------------------------------------------------------------------
(***************************************************************************)
(* The planning round.                                                     *)
(***************************************************************************)

\* Where the process goes on, it neither executes nor gains or loses the lock.
Idle(p) == p.pc \notin Executing /\ ~Holds(p)

\* A harmless step between two places outside the execution.
LEMMA IdleStep ==
    ASSUME WInv, NEW w \in Workers, Idle(proc[w]), NEW p, PInv(p), Idle(p),
           proc' = [proc EXCEPT ![w] = p], Still
    PROVE  WInv'
<1>1. Serves(run', published', w, p) /\ (Holds(p) <=> Holds(proc[w]))
  BY DEF Idle, Serves
<1> QED
  BY <1>1, ProcStep

\* EndRound brings the process to the lock.
LEMMA EndRoundInv ==
    ASSUME WInv, NEW w \in Workers, Up(w), NEW err \in BOOLEAN, EndRound(w, err)
    PROVE  \E p : PInv(p) /\ Idle(p) /\ proc' = [proc EXCEPT ![w] = p]
<1> DEFINE p == [proc[w] EXCEPT !.pc = "acquire", !.err = err, !.must = FALSE,
                                !.todo = {}, !.revive = {}, !.key = None]
<1>1. proc' = [proc EXCEPT ![w] = p]
  BY DEF EndRound
<1>2. PInv(proc[w]) /\ proc[w].life = "up"
  BY DEF WInv, ProcsOK, Up
<1>3. PInv(p) /\ p.life = "up" /\ p.pc = "acquire"
  BY <1>2 DEF PInv
<1> HIDE DEF p
<1>4. Idle(p)
  BY <1>3 DEF Idle, Holds
<1> QED
  BY <1>1, <1>3, <1>4

\* Start, Top, TopOff, Coordinate and CoordinateOff.
LEMMA TopKeeps ==
    ASSUME WInv, NEW w \in Workers,
           Start(w) \/ Top(w) \/ TopOff(w) \/ Coordinate(w) \/ CoordinateOff(w)
    PROVE  WInv'
<1>. PInv(proc[w]) /\ TableOK /\ EnvOK
  BY DEF WInv, ProcsOK, PInv
<1>1. CASE Start(w)
  <2> DEFINE p == [proc[w] EXCEPT !.life = "up"]
  <2>1. PInv(p) /\ Idle(p) /\ Idle(proc[w])
    BY <1>1 DEF Start, PInv, Idle, Holds
  <2>2. proc' = [proc EXCEPT ![w] = p] /\ Reads
    BY <1>1 DEF Start
  <2> HIDE DEF p
  <2> QED
    BY <2>1, <2>2, StillReads, IdleStep
<1>2. CASE Top(w)
  <2>1. CASE proc[w].stop
    <3> DEFINE p == Process("dead", "top")
    <3>1. PInv(p) /\ Idle(p) /\ Idle(proc[w])
      BY <1>2 DEF Top, At, Process, PInv, Idle, Holds
    <3>2. proc' = [proc EXCEPT ![w] = p] /\ Reads
      BY <1>2, <2>1 DEF Top
    <3> HIDE DEF p
    <3> QED
      BY <3>1, <3>2, StillReads, IdleStep
  <2>2. CASE ~proc[w].stop
    <3> DEFINE must == proc[w].must \/ proc[w].err \/ proc[w].prev # SwitchState
               pc == IF enabled THEN "coordinate" ELSE "topoff"
               p == [proc[w] EXCEPT !.must = must, !.prev = SwitchState, !.pc = pc]
    <3>1. proc' = [proc EXCEPT ![w] = p] /\ Reads
      BY <1>2, <2>2 DEF Top
    <3>2. must \in BOOLEAN /\ pc \in {"coordinate", "topoff"} /\ SwitchState \in {"on", "off"}
      BY DEF SwitchState
    <3> HIDE DEF must, pc
    <3>3. PInv(p) /\ Idle(p) /\ Idle(proc[w])
      BY <1>2, <3>2 DEF Top, At, Up, PInv, Idle, Holds
    <3> HIDE DEF p
    <3> QED
      BY <3>1, <3>3, StillReads, IdleStep
  <2> QED
    BY <2>1, <2>2
<1>3. CASE TopOff(w)
  <2> DEFINE p == [proc[w] EXCEPT !.pc = "coordinate"]
  <2>1. PInv(p) /\ Idle(p) /\ Idle(proc[w])
    BY <1>3 DEF TopOff, At, Up, PInv, Idle, Holds
  <2>2. proc' = [proc EXCEPT ![w] = p] /\ Writes /\ Quiet
    BY <1>3, QuietCancel DEF TopOff, Go
  <2> HIDE DEF p
  <2> QED
    BY <2>1, <2>2, StillWrites, IdleStep
<1>4. CASE Coordinate(w)
  <2>1. CASE Go(w, "plan") \/ Go(w, "coordinateoff")
    <3>1. PICK pc \in {"plan", "coordinateoff"} : proc' = [proc EXCEPT ![w].pc = pc]
      BY <2>1 DEF Go
    <3> DEFINE p == [proc[w] EXCEPT !.pc = pc]
    <3>2. PInv(p) /\ Idle(p) /\ Idle(proc[w])
      BY <1>4 DEF Coordinate, At, Up, PInv, Idle, Holds
    <3>3. proc' = [proc EXCEPT ![w] = p] /\ Reads
      BY <1>4, <3>1 DEF Coordinate
    <3> HIDE DEF p
    <3> QED
      BY <3>2, <3>3, StillReads, IdleStep
  <2>2. CASE EndRound(w, FALSE)
    <3>1. Up(w) /\ Idle(proc[w]) /\ Reads
      BY <1>4 DEF Coordinate, At, Idle, Holds
    <3>2. PICK p : PInv(p) /\ Idle(p) /\ proc' = [proc EXCEPT ![w] = p]
      BY <2>2, <3>1, EndRoundInv
    <3> QED
      BY <3>1, <3>2, StillReads, IdleStep
  <2> QED
    BY <1>4, <2>1, <2>2 DEF Coordinate
<1>5. CASE CoordinateOff(w)
  <2>1. Up(w) /\ Idle(proc[w]) /\ Writes /\ EndRound(w, FALSE) /\ Quiet
    BY <1>5, QuietCancel DEF CoordinateOff, At, Idle, Holds
  <2>2. PICK p : PInv(p) /\ Idle(p) /\ proc' = [proc EXCEPT ![w] = p]
    BY <2>1, EndRoundInv
  <2> QED
    BY <2>1, <2>2, StillWrites, IdleStep
<1> QED
  BY <1>1, <1>2, <1>3, <1>4, <1>5

\* Plan, EnqueuePlanned and Revive.
LEMMA PlanKeeps ==
    ASSUME WInv, NEW w \in Workers, Plan(w) \/ EnqueuePlanned(w) \/ Revive(w)
    PROVE  WInv'
<1>. PInv(proc[w]) /\ TableOK /\ EnvOK
  BY DEF WInv, ProcsOK, PInv
<1>0. Up(w) /\ Idle(proc[w])
  BY DEF Plan, EnqueuePlanned, Revive, At, Idle, Holds
<1>1. ASSUME NEW err \in BOOLEAN, EndRound(w, err), Still
      PROVE  WInv'
  <2>1. PICK p : PInv(p) /\ Idle(p) /\ proc' = [proc EXCEPT ![w] = p]
    BY <1>0, <1>1, EndRoundInv
  <2> QED
    BY <1>0, <1>1, <2>1, IdleStep
<1>2. CASE Plan(w)
  <2>1. Writes /\ Quiet
    BY <1>2, QuietCancel DEF Plan, EnvOK
  <2>2. CASE broken
    BY <1>1, <1>2, <2>1, <2>2, StillWrites DEF Plan
  <2>3. CASE ~broken
    <3> DEFINE p == [proc[w] EXCEPT !.pc = "enqueue", !.todo = Planned]
    <3>1. Planned \subseteq Keys
      BY DEF Planned, EnvOK
    <3>2. PInv(p) /\ Idle(p)
      BY <1>0, <3>1 DEF Up, PInv, Idle, Holds
    <3>3. proc' = [proc EXCEPT ![w] = p]
      BY <1>2, <2>3 DEF Plan
    <3> HIDE DEF p
    <3> QED
      BY <1>0, <2>1, <3>2, <3>3, StillWrites, IdleStep
  <2> QED
    BY <2>2, <2>3
<1>3. CASE EnqueuePlanned(w)
  <2>1. ASSUME NEW k \in proc[w].todo, Enqueue(k, "automatic"), Writes,
               proc' = [proc EXCEPT ![w].todo = @ \ {k},
                                    ![w].revive = IF run[k].status = "cancelled"
                                                  THEN @ \union {k} ELSE @]
        PROVE  WInv'
    <3> DEFINE revive == IF run[k].status = "cancelled" THEN proc[w].revive \union {k}
                                                        ELSE proc[w].revive
               p == [proc[w] EXCEPT !.todo = @ \ {k}, !.revive = revive]
    <3>1. k \in Keys /\ revive \subseteq Keys
      BY DEF PInv
    <3>2. proc' = [proc EXCEPT ![w] = p]
      BY <2>1
    <3> HIDE DEF revive
    <3>3. PInv(p) /\ Idle(p)
      BY <1>0, <1>3, <3>1 DEF EnqueuePlanned, At, PInv, Idle, Holds
    <3>4. Quiet
      BY <2>1, <3>1, QuietEnqueue
    <3> HIDE DEF p
    <3> QED
      BY <1>0, <2>1, <3>2, <3>3, <3>4, StillWrites, IdleStep
  <2>2. CASE Go(w, "revive") /\ Reads
    <3> DEFINE p == [proc[w] EXCEPT !.pc = "revive"]
    <3>1. PInv(p) /\ Idle(p)
      BY <1>0 DEF Up, PInv, Idle, Holds
    <3>2. proc' = [proc EXCEPT ![w] = p]
      BY <2>2 DEF Go
    <3> HIDE DEF p
    <3> QED
      BY <1>0, <2>2, <3>1, <3>2, StillReads, IdleStep
  <2> QED
    BY <1>3, <2>1, <2>2 DEF EnqueuePlanned
<1>4. CASE Revive(w)
  <2>1. ASSUME NEW k \in proc[w].revive,
               proc' = [proc EXCEPT ![w].pc = "reread", ![w].next = "revive",
                                    ![w].key = k, ![w].revive = @ \ {k}]
        PROVE  WInv'
    <3> DEFINE p == [proc[w] EXCEPT !.pc = "reread", !.next = "revive", !.key = k,
                                    !.revive = @ \ {k}]
    <3>1. k \in Keys
      BY DEF PInv
    <3>2. PInv(p) /\ Idle(p)
      BY <1>0, <3>1 DEF Up, PInv, Idle, Holds
    <3>3. proc' = [proc EXCEPT ![w] = p] /\ Reads
      BY <1>4, <2>1 DEF Revive
    <3> HIDE DEF p
    <3> QED
      BY <1>0, <3>2, <3>3, StillReads, IdleStep
  <2>2. CASE EndRound(w, FALSE)
    BY <1>1, <1>4, <2>2, StillReads DEF Revive
  <2> QED
    BY <1>4, <2>1, <2>2 DEF Revive
<1> QED
  BY <1>2, <1>3, <1>4

\* Reread and Requeue, from the planning round and, with the lock, from _retry.
LEMMA RequeueKeeps ==
    ASSUME WInv, NEW w \in Workers, Reread(w) \/ Requeue(w)
    PROVE  WInv'
<1>. PInv(proc[w]) /\ TableOK /\ EnvOK
  BY DEF WInv, ProcsOK, PInv
<1>1. /\ proc[w].life = "up" /\ proc[w].pc \in {"reread", "requeue"}
      /\ proc[w].next \in {"revive", "release"} /\ proc[w].key \in Keys
      /\ Holds(proc[w]) <=> proc[w].next = "release"
  BY DEF Reread, Requeue, At, Up, PInv, Holds
<1>2. CASE Reread(w)
  <2> DEFINE p == [proc[w] EXCEPT !.pc = "requeue", !.flag = enabled]
  <2>1. PInv(p) /\ p.pc \notin Executing /\ (Holds(p) <=> p.next = "release") /\ p.next = proc[w].next
    BY <1>1 DEF EnvOK, PInv, Holds
  <2>2. proc' = [proc EXCEPT ![w] = p] /\ Reads
    BY <1>2 DEF Reread
  <2> HIDE DEF p
  <2>3. Serves(run', published', w, p)
    BY <2>1 DEF Serves
  <2> QED
    BY <1>1, <2>1, <2>2, <2>3, StillReads, ProcStep
<1>3. ASSUME NEW pc \in {"revive", "release"}, pc = proc[w].next, Go(w, pc), Still
      PROVE  WInv'
  <2> DEFINE p == [proc[w] EXCEPT !.pc = pc]
  <2>1. PInv(p) /\ p.pc \notin Executing /\ (Holds(p) <=> pc = "release")
    BY <1>1, <1>3 DEF PInv, Holds
  <2>2. proc' = [proc EXCEPT ![w] = p]
    BY <1>3 DEF Go
  <2> HIDE DEF p
  <2>3. Serves(run', published', w, p)
    BY <2>1 DEF Serves
  <2> QED
    BY <1>1, <1>3, <2>1, <2>2, <2>3, ProcStep
<1>4. CASE Requeue(w) /\ Retry(proc[w].key, FALSE, proc[w].flag)
  <2>1. proc[w].flag \in BOOLEAN
    BY DEF PInv
  <2>3. Quiet
    BY <1>1, <1>4, <2>1, QuietRetry
  <2>4. Go(w, proc[w].next) /\ Writes
    BY <1>4 DEF Requeue, Retry
  <2> QED
    BY <1>1, <1>3, <2>3, <2>4, StillWrites
<1>5. CASE Requeue(w) /\ ~CanRetry(proc[w].key, FALSE, proc[w].flag)
  <2>1. Reads /\ IF proc[w].next = "revive" THEN EndRound(w, TRUE) ELSE Go(w, "release")
    BY <1>5 DEF Requeue, Retry
  <2>2. CASE proc[w].next = "revive"
    <3>1. PICK p : PInv(p) /\ Idle(p) /\ proc' = [proc EXCEPT ![w] = p]
      BY <1>1, <2>1, <2>2, EndRoundInv DEF Up
    <3> QED
      BY <1>1, <2>1, <2>2, <3>1, StillReads, IdleStep DEF Idle
  <2>3. CASE proc[w].next = "release"
    BY <1>1, <1>3, <2>1, <2>3, StillReads
  <2> QED
    BY <1>1, <2>2, <2>3
<1> QED
  BY <1>2, <1>4, <1>5 DEF Requeue

-----------------------------------------------------------------------------
(***************************************************************************)
(* Executing a run.                                                        *)
(***************************************************************************)

\* The ways on from a place of the execution: to a check, back from it, into the
\* exception handler, or to finish as a cancelled run.
Onward(w) ==
    \/ \E pc \in Checks : proc[w].pc \in Checks /\ Go(w, pc)
    \/ proc[w].pc \in Checks /\ Go(w, proc[w].next)
    \/ \E next \in Resume : CheckThen(w, next)
    \/ \E exc : Raise(w, exc)
    \/ proc[w].pc \in Checks /\ StopHere(w)

\* Such a step keeps the run with its process.
LEMMA OnwardStep ==
    ASSUME WInv, NEW w \in Workers, Up(w), proc[w].pc \in Executing, Onward(w), Still
    PROVE  WInv'
<1> DEFINE p == proc'[w]
           Goal == /\ proc' = [proc EXCEPT ![w] = p]
                   /\ PInv(p) /\ p.life = "up" /\ p.pc \in Executing /\ p.key = proc[w].key
                   /\ p.pc = "finish" => p.outcome = "cancelled"
<1>0. PInv(proc[w]) /\ proc[w].life = "up" /\ Holds(proc[w]) /\ DOMAIN proc = Workers
  BY DEF WInv, ProcsOK, Up, Holds
<1>1. Goal
  <2>1. ASSUME NEW pc \in Checks, proc[w].pc \in Checks, Go(w, pc) PROVE Goal
    BY <1>0, <2>1 DEF Go, PInv
  <2>2. ASSUME proc[w].pc \in Checks, Go(w, proc[w].next) PROVE Goal
    BY <1>0, <2>2 DEF Go, PInv
  <2>3. ASSUME NEW next \in Resume, CheckThen(w, next) PROVE Goal
    BY <1>0, <2>3 DEF CheckThen, PInv
  <2>4. ASSUME NEW exc, Raise(w, exc) PROVE Goal
    BY <1>0, <2>4 DEF Raise, PInv
  <2>5. ASSUME proc[w].pc \in Checks, StopHere(w) PROVE Goal
    BY <1>0, <2>4, <2>5 DEF StopHere, PInv
  <2> QED
    BY <2>1, <2>2, <2>3, <2>4, <2>5 DEF Onward
<1>2. Holds(p)
  BY <1>1 DEF Holds
<1> HIDE DEF p
<1> QED
  BY <1>0, <1>1, <1>2, ServingStep

\* Check, CheckSwitch, CheckOff and CheckPool.
LEMMA CheckKeeps ==
    ASSUME WInv, NEW w \in Workers,
           Check(w) \/ CheckSwitch(w) \/ CheckOff(w) \/ CheckPool(w)
    PROVE  WInv'
<1>1. Up(w) /\ proc[w].pc \in Checks /\ TableOK
  BY DEF Check, CheckSwitch, CheckOff, CheckPool, At, WInv
<1>2. CASE Check(w) \/ CheckSwitch(w) \/ CheckPool(w)
  <2>1. Reads
    BY <1>2 DEF Check, CheckSwitch, CheckPool
  <2>2. CASE Check(w)
    <3>1. \/ StopHere(w)
          \/ \E pc \in Checks : Go(w, pc)
      BY <2>2 DEF Check
    <3> QED
      BY <1>1, <2>1, <3>1, StillReads, OnwardStep DEF Onward
  <2>3. CASE CheckSwitch(w)
    <3>1. \E pc \in Checks : Go(w, pc)
      BY <2>3 DEF CheckSwitch
    <3> QED
      BY <1>1, <2>1, <3>1, StillReads, OnwardStep DEF Onward
  <2>4. CASE CheckPool(w)
    <3>1. Raise(w, "fatal") \/ StopHere(w) \/ Go(w, proc[w].next)
      BY <2>4 DEF CheckPool
    <3> QED
      BY <1>1, <2>1, <3>1, StillReads, OnwardStep DEF Onward
  <2> QED
    BY <1>2, <2>2, <2>3, <2>4
<1>3. CASE CheckOff(w)
  <2>1. Writes /\ Quiet /\ StopHere(w)
    BY <1>1, <1>3, QuietCancel DEF CheckOff
  <2> QED
    BY <1>1, <2>1, StillWrites, OnwardStep DEF Onward
<1> QED
  BY <1>2, <1>3

\* Begin, Score, Publish and Handle.
LEMMA PhaseKeeps ==
    ASSUME WInv, NEW w \in Workers, Begin(w) \/ Score(w) \/ Publish(w) \/ Handle(w)
    PROVE  WInv'
<1>1. /\ Up(w) /\ proc[w].pc \in Executing /\ proc[w].key \in Keys /\ TableOK
      /\ PInv(proc[w]) /\ DOMAIN proc = Workers
  BY DEF Begin, Score, Publish, Handle, At, WInv, ProcsOK, PInv
<1>2. ASSUME NEW phase \in WorkPhases, SetPhase(proc[w].key, w, phase)
      PROVE  Quiet
  BY <1>1, <1>2, QuietWrite
<1>3. CASE Begin(w)
  <2>1. CASE \E exc \in {"retryable", "fatal"} : Raise(w, exc) /\ Reads
    BY <1>1, <2>1, StillReads, OnwardStep DEF Onward
  <2>2. CASE /\ SetPhase(proc[w].key, w, "syncing")
             /\ proc' = [proc EXCEPT ![w].pc = "check", ![w].left = Symbols, ![w].got = FALSE,
                              ![w].next = IF Symbols = {} THEN "score" ELSE "fetch"]
             /\ Writes
    <3> DEFINE p == proc'[w]
    <3>1. proc' = [proc EXCEPT ![w] = p] /\ PInv(p) /\ p.life = "up" /\ p.pc = "check"
          /\ p.key = proc[w].key
      BY <1>1, <2>2 DEF PInv, Up
    <3>2. Still
      BY <1>2, <2>2, StillWrites
    <3>3. Holds(p) /\ Holds(proc[w])
      BY <1>1, <3>1 DEF Holds, Up
    <3> HIDE DEF p
    <3> QED
      BY <1>1, <3>1, <3>2, <3>3, ServingStep
  <2> QED
    BY <1>3, <2>1, <2>2 DEF Begin
<1>4. CASE Score(w)
  <2>1. CASE Raise(w, "retryable") /\ Reads
    BY <1>1, <2>1, StillReads, OnwardStep DEF Onward
  <2>2. CASE SetPhase(proc[w].key, w, "scoring") /\ Writes
    <3>1. CheckThen(w, "publish") \/ \E exc : Raise(w, exc)
      BY <1>4, <2>2 DEF Score, Reads, Writes
    <3> QED
      BY <1>1, <1>2, <2>2, <3>1, StillWrites, OnwardStep DEF Onward
  <2> QED
    BY <1>4, <2>1, <2>2 DEF Score
<1>5. CASE Publish(w)
  BY <1>1, <1>2, <1>5, StillWrites, OnwardStep DEF Publish, Onward
<1>6. CASE Handle(w)
  <2> DEFINE p == proc'[w]
  <2>1. /\ proc' = [proc EXCEPT ![w] = p] /\ PInv(p) /\ p.life = "up" /\ p.pc = "finish"
        /\ p.key = proc[w].key /\ p.outcome \in {"cancelled", "failed"}
    BY <1>1, <1>6 DEF Handle, PInv, Up
  <2>2. Holds(p) /\ Holds(proc[w])
    BY <1>1, <2>1 DEF Holds, Up
  <2>3. Still
    BY <1>6, StillReads DEF Handle
  <2> HIDE DEF p
  <2> QED
    BY <1>1, <2>1, <2>2, <2>3, ServingStep
<1> QED
  BY <1>3, <1>4, <1>5, <1>6

\* RetryRun, RetrySwitch and RetryOff: the run has an outcome, the lock is still held.
LEMMA RetryKeeps ==
    ASSUME WInv, NEW w \in Workers, RetryRun(w) \/ RetrySwitch(w) \/ RetryOff(w)
    PROVE  WInv'
<1> DEFINE p == proc'[w]
<1>1. /\ proc[w].life = "up" /\ proc[w].pc \in {"retry", "retryswitch", "retryoff"}
      /\ PInv(proc[w]) /\ DOMAIN proc = Workers /\ TableOK
  BY DEF RetryRun, RetrySwitch, RetryOff, At, Up, WInv, ProcsOK
<1>2. Still
  <2>1. CASE RetryRun(w) \/ RetrySwitch(w)
    BY <2>1, StillReads DEF RetryRun, RetrySwitch
  <2>2. CASE RetryOff(w)
    BY <1>1, <2>2, QuietCancel, StillWrites DEF RetryOff
  <2> QED
    BY <2>1, <2>2
<1>3. /\ proc' = [proc EXCEPT ![w] = p] /\ PInv(p) /\ p.life = "up"
      /\ \/ p.pc \in {"release", "retryswitch", "retryoff"}
         \/ p.pc = "reread" /\ p.next = "release"
  <2>1. CASE RetryRun(w)
    BY <1>1, <2>1 DEF RetryRun, At, Go, PInv
  <2>2. CASE RetrySwitch(w)
    BY <1>1, <2>2 DEF RetrySwitch, At, Go, PInv
  <2>3. CASE RetryOff(w)
    BY <1>1, <2>3 DEF RetryOff, At, Go, PInv
  <2> QED
    BY <2>1, <2>2, <2>3
<1>4. Holds(p) /\ Holds(proc[w])
  BY <1>1, <1>3 DEF Holds
<1> HIDE DEF p
<1> QED
  BY <1>2, <1>3, <1>4, ServingStep

-----------------------------------------------------------------------------
(***************************************************************************)
(* Taking and giving back the lock, and what only its holder does.         *)
(***************************************************************************)

\* A step that moves the lock changes nothing else but the process.
LEMMA LockStep ==
    ASSUME WInv, NEW w \in Workers, NEW p, PInv(p), proc' = [proc EXCEPT ![w] = p],
           UNCHANGED <<queue, environment, client, reader, asked, published>>,
           p.pc \notin Executing,
           \/ Holds(p) /\ lock' = w /\ lock \in {None, w}
           \/ ~Holds(p) /\ lock' = IF lock = w THEN None ELSE lock
    PROVE  WInv'
<1>1. UNCHANGED <<run, rows, client, environment, asked, published>>
  BY DEF queue
<1>2. TableOK' /\ EnvOK' /\ ClientsOK'
  BY <1>1 DEF WInv, TableOK, RowsInv, EnvOK, ClientsOK, environment
<1>3. ProcsOK' /\ \A v \in Workers : proc'[v] = IF v = w THEN p ELSE proc[v]
  BY DEF WInv, ProcsOK
<1>4. Guarded'
  BY <1>3, WorkersAssumption DEF WInv, Guarded
<1>5. \A v \in Workers : Serves(run', published', v, proc'[v])
  BY <1>1, <1>3 DEF WInv, Serves
<1>6. \A k \in Keys : Reports(run', published', k)
  BY <1>1 DEF WInv, Reports
<1> QED
  BY <1>2, <1>3, <1>4, <1>5, <1>6 DEF WInv

\* Acquire, Release and Crash.
LEMMA LockKeeps ==
    ASSUME WInv, NEW w \in Workers, Acquire(w) \/ Release(w) \/ Crash(w)
    PROVE  WInv'
<1> DEFINE p == proc'[w]
<1>1. /\ proc[w].life = "up" /\ PInv(proc[w]) /\ DOMAIN proc = Workers
      /\ lock = w <=> Holds(proc[w])
      /\ UNCHANGED <<queue, environment, client, reader, asked, published>>
  BY DEF Acquire, Release, Crash, At, Up, WInv, ProcsOK, Guarded
<1>2. CASE Acquire(w)
  <2>1. ~Holds(proc[w])
    BY <1>2 DEF Acquire, At, Holds
  <2>2. CASE lock = None /\ lock' = w /\ Go(w, "recover")
    <3>1. /\ proc' = [proc EXCEPT ![w] = p] /\ PInv(p) /\ p.life = "up" /\ p.pc = "recover"
      BY <1>1, <2>2 DEF Go, PInv
    <3>2. Holds(p)
      BY <3>1 DEF Holds
    <3> HIDE DEF p
    <3> QED
      BY <1>1, <2>2, <3>1, <3>2, LockStep
  <2>3. CASE lock' = lock /\ Go(w, Home(w))
    <3>1. /\ proc' = [proc EXCEPT ![w] = p] /\ PInv(p) /\ p.pc \in {"top", "acquire"}
      BY <1>1, <2>3 DEF Go, PInv, Home
    <3>2. ~Holds(p) /\ lock # w
      BY <1>1, <2>1, <3>1 DEF Holds
    <3> HIDE DEF p
    <3> QED
      BY <1>1, <2>3, <3>1, <3>2, LockStep
  <2> QED
    BY <1>2, <2>2, <2>3 DEF Acquire
<1>3. CASE Release(w)
  <2>1. /\ proc' = [proc EXCEPT ![w] = p] /\ PInv(p) /\ p.pc \in {"top", "acquire"}
    BY <1>1, <1>3 DEF Release, Process, PInv, Home
  <2>2. ~Holds(p) /\ lock = w /\ lock' = None
    BY <1>1, <1>3, <2>1 DEF Release, At, Holds
  <2> HIDE DEF p
  <2> QED
    BY <1>1, <2>1, <2>2, LockStep
<1>4. CASE Crash(w)
  <2>1. /\ proc' = [proc EXCEPT ![w] = p] /\ PInv(p) /\ p.pc \in {"top", "acquire"}
    BY <1>1, <1>4 DEF Crash, Process, PInv, Home
  <2>2. ~Holds(p)
    BY <2>1 DEF Holds
  <2> HIDE DEF p
  <2> QED
    BY <1>1, <1>4, <2>1, <2>2, LockStep DEF Crash
<1> QED
  BY <1>2, <1>3, <1>4

\* The holder of the lock may change the table in any way that keeps what it
\* serves itself and what the rows report.
LEMMA HolderStep ==
    ASSUME WInv, NEW w \in Workers, Holds(proc[w]), NEW p, PInv(p), Holds(p),
           proc' = [proc EXCEPT ![w] = p], UNCHANGED lock, TableOK', EnvOK', ClientsOK',
           Serves(run', published', w, p), \A k \in Keys : Reports(run', published', k)
    PROVE  WInv'
<1>1. ProcsOK' /\ \A v \in Workers : proc'[v] = IF v = w THEN p ELSE proc[v]
  BY DEF WInv, ProcsOK
<1>2. lock = w
  BY DEF WInv, Guarded
<1>3. Guarded'
  BY <1>1, <1>2 DEF WInv, Guarded
<1>4. \A v \in Workers \ {w} : Serves(run', published', v, proc[v])
  BY <1>2, OnlyHolderServes DEF WInv
<1>5. \A v \in Workers : Serves(run', published', v, proc'[v])
  BY <1>1, <1>4
<1> QED
  BY <1>1, <1>3, <1>5 DEF WInv

\* Recover and ClaimRun: no one else executes meanwhile.
LEMMA ClaimKeeps ==
    ASSUME WInv, NEW w \in Workers, Recover(w) \/ ClaimRun(w)
    PROVE  WInv'
<1> DEFINE p == proc'[w]
<1>1. /\ proc[w].life = "up" /\ PInv(proc[w]) /\ DOMAIN proc = Workers /\ Holds(proc[w])
      /\ TableOK /\ \A k \in Keys : run[k] \in Row /\ Reports(run, published, k)
  BY DEF Recover, ClaimRun, At, Up, WInv, ProcsOK, Holds, TableOK, RowsInv
<1>2. CASE Recover(w)
  <2>1. proc' = [proc EXCEPT ![w] = p] /\ PInv(p) /\ p.life = "up" /\ p.pc = "claim"
    BY <1>1, <1>2 DEF Recover, Go, PInv
  <2>2. TableOK'
    BY <1>1, <1>2, RecoverRows DEF Recover, RecoverExpired, TableOK
  <2>3. \A k \in Keys : \/ run'[k] = run[k]
                        \/ run'[k].status \in {"cancelled", "failed", "retry_wait"}
    BY <1>1, <1>2, TransformerStatus DEF Recover, RecoverExpired
  <2>4. Writes /\ UNCHANGED <<lock, published>> /\ EnvOK' /\ ClientsOK'
    BY <1>2, WritesKeep DEF Recover
  <2>5. \A k \in Keys : Reports(run', published', k)
    BY <1>1, <2>3, <2>4 DEF Reports
  <2>6. Holds(p) /\ Serves(run', published', w, p)
    BY <2>1 DEF Holds, Serves
  <2> HIDE DEF p
  <2> QED
    BY <1>1, <2>1, <2>2, <2>4, <2>5, <2>6, HolderStep
<1>3. CASE Go(w, "release") /\ Reads
  <2>1. proc' = [proc EXCEPT ![w] = p] /\ PInv(p) /\ p.life = "up" /\ p.pc = "release"
    BY <1>1, <1>3 DEF Go, PInv
  <2>2. Holds(p)
    BY <2>1 DEF Holds
  <2> HIDE DEF p
  <2> QED
    BY <1>1, <1>3, <2>1, <2>2, StillReads, ServingStep
<1>4. ASSUME NEW k \in Keys, Claim(k, w, w \notin Daemons, Keys), Writes,
             proc' = [proc EXCEPT ![w].pc = "check", ![w].next = "begin", ![w].key = k]
      PROVE  WInv'
  <2>1. /\ proc' = [proc EXCEPT ![w] = p] /\ PInv(p) /\ p.life = "up" /\ p.pc = "check"
        /\ p.key = k
    BY <1>1, <1>4 DEF PInv
  <2>2. Execute(k, w)
    BY <1>4 DEF Execute
  <2>3. TableOK'
    BY <1>1, <1>4, <2>2, ExecuteRows DEF Claim, TableOK
  <2>4. /\ run'[k].status = "running" /\ run'[k].worker = w
        /\ \A j \in Keys : j # k => run'[j] = run[j]
    BY <1>1, <1>4 DEF Claim, Claimed, Row, TableOK, RowsInv
  <2>5. UNCHANGED <<lock, published>> /\ EnvOK' /\ ClientsOK'
    BY <1>4, WritesKeep
  <2>6. \A j \in Keys : Reports(run', published', j)
    BY <1>1, <2>4, <2>5 DEF Reports
  <2>7. Holds(p) /\ Serves(run', published', w, p)
    BY <2>1, <2>4 DEF Holds, Serves
  <2> HIDE DEF p
  <2> QED
    BY <1>1, <2>1, <2>3, <2>5, <2>6, <2>7, HolderStep
<1> QED
  BY <1>2, <1>3, <1>4 DEF ClaimRun

\* An item is written to the row that is being executed.
LEMMA FetchKeeps ==
    ASSUME WInv, NEW w \in Workers, Fetch(w)
    PROVE  WInv'
<1> DEFINE p == proc'[w]
           k == proc[w].key
<1>1. /\ proc[w].life = "up" /\ PInv(proc[w]) /\ DOMAIN proc = Workers /\ Holds(proc[w])
      /\ proc[w].pc = "fetch" /\ k \in Keys /\ Writes
      /\ TableOK /\ run[k] \in Row /\ \A j \in Keys : Reports(run, published, j)
  BY DEF Fetch, At, Up, WInv, ProcsOK, PInv, Holds, TableOK, RowsInv
<1>2. PICK s \in proc[w].left, ok \in BOOLEAN :
        /\ \/ \E status \in {"completed", "failed"} : RecordItem(k, w, s, status)
           \/ InvalidateItem(k, w, s)
        /\ proc' = [proc EXCEPT ![w].left = @ \ {s}, ![w].got = @ \/ ok, ![w].pc = "check",
                                ![w].next = IF proc[w].left = {s} THEN "score" ELSE "fetch"]
  BY DEF Fetch
<1>3. /\ proc' = [proc EXCEPT ![w] = p] /\ PInv(p) /\ p.life = "up" /\ p.pc = "check"
      /\ p.key = k
  BY <1>1, <1>2 DEF PInv
<1>4. s \in Symbols
  BY <1>1, <1>2 DEF PInv
<1>5. TableOK'
  BY <1>1, <1>2, <1>4, ExecuteRows DEF RecordItem, InvalidateItem, TableOK, Execute
<1>6. /\ run'[k].status = "running" /\ run'[k].worker = w
      /\ \A j \in Keys : j # k => run'[j] = run[j]
  BY <1>1, <1>2 DEF RecordItem, InvalidateItem, Owned, Running, Row, TableOK, RowsInv
<1>7. UNCHANGED <<lock, published>> /\ EnvOK' /\ ClientsOK'
  BY <1>1, WritesKeep
<1>8. \A j \in Keys : Reports(run', published', j)
  BY <1>1, <1>6, <1>7 DEF Reports
<1>9. Holds(p) /\ Serves(run', published', w, p)
  BY <1>3, <1>6 DEF Holds, Serves
<1> HIDE DEF p
<1> QED
  BY <1>1, <1>3, <1>5, <1>7, <1>8, <1>9, HolderStep

\* complete_run, and the outcome that agrees with it.
LEMMA CommitKeeps ==
    ASSUME WInv, NEW w \in Workers, Commit(w)
    PROVE  WInv'
<1> DEFINE p == proc'[w]
           k == proc[w].key
<1>1. /\ proc[w].life = "up" /\ PInv(proc[w]) /\ DOMAIN proc = Workers /\ Holds(proc[w])
      /\ proc[w].pc = "commit" /\ k \in Keys /\ Serves(run, published, w, proc[w])
      /\ \A j \in Keys : Reports(run, published, j)
      /\ UNCHANGED <<run, rows, environment, lock, client, asked>>
  BY DEF Commit, At, Up, WInv, ProcsOK, PInv, Holds, queue
<1>2. Settled(run[k].items) \in {"completed", "partial"}
  BY DEF Settled
<1>3. /\ proc' = [proc EXCEPT ![w] = p] /\ PInv(p) /\ p.life = "up" /\ p.pc = "finish"
      /\ p.key = k /\ p.outcome = Settled(run[k].items)
  BY <1>1, <1>2 DEF Commit, PInv
<1>4. published' = published \union {k}
  BY DEF Commit
<1>5. TableOK' /\ EnvOK' /\ ClientsOK'
  BY <1>1, <1>4 DEF WInv, TableOK, RowsInv, EnvOK, ClientsOK, environment
<1>6. \A j \in Keys : Reports(run', published', j)
  BY <1>1, <1>4 DEF Reports
<1>7. Holds(p) /\ Serves(run', published', w, p)
  BY <1>1, <1>3, <1>4 DEF Holds, Serves, Settled
<1> HIDE DEF p
<1> QED
  BY <1>1, <1>3, <1>5, <1>6, <1>7, HolderStep

\* finish reports what the process serves.
LEMMA FinishKeeps ==
    ASSUME WInv, NEW w \in Workers, FinishRun(w)
    PROVE  WInv'
<1> DEFINE p == proc'[w]
           k == proc[w].key
           outcome == proc[w].outcome
<1>1. /\ proc[w].life = "up" /\ PInv(proc[w]) /\ DOMAIN proc = Workers /\ Holds(proc[w])
      /\ proc[w].pc = "finish" /\ k \in Keys /\ outcome \in Terminal
      /\ Serves(run, published, w, proc[w])
      /\ TableOK /\ run[k] \in Row /\ \A j \in Keys : Reports(run, published, j)
  BY DEF FinishRun, At, Up, WInv, ProcsOK, PInv, Holds, TableOK, RowsInv
<1>2. /\ Finish(k, w, outcome, Published(outcome)) /\ Writes
      /\ Go(w, IF WorthRetrying(proc[w]) THEN "retry" ELSE "release")
  BY DEF FinishRun
<1>3. /\ proc' = [proc EXCEPT ![w] = p] /\ PInv(p) /\ p.life = "up"
      /\ p.pc \in {"retry", "release"}
  BY <1>1, <1>2 DEF Go, PInv
<1>4. TableOK'
  BY <1>1, <1>2, ExecuteRows DEF Finish, TableOK, Execute
<1>5. /\ run'[k].status = outcome /\ run'[k].items = run[k].items
      /\ \A j \in Keys : j # k => run'[j] = run[j]
  BY <1>1, <1>2 DEF Finish, Finished, Row, TableOK, RowsInv
<1>6. UNCHANGED <<lock, published>> /\ EnvOK' /\ ClientsOK'
  BY <1>2, WritesKeep
<1>7. \A j \in Keys : Reports(run', published', j)
  BY <1>1, <1>5, <1>6 DEF Reports, Serves
<1>8. Holds(p) /\ Serves(run', published', w, p)
  BY <1>3 DEF Holds, Serves
<1> HIDE DEF p
<1> QED
  BY <1>1, <1>3, <1>4, <1>6, <1>7, <1>8, HolderStep

-----------------------------------------------------------------------------
(***************************************************************************)
(* The heartbeat, signals, people and time.                                *)
(***************************************************************************)

\* A stop signal changes one flag that the process reads later.
LEMMA SignalKeeps ==
    ASSUME WInv, NEW w \in Workers, Signal(w)
    PROVE  WInv'
<1> DEFINE p == proc'[w]
<1>1. /\ proc[w].life = "up" /\ PInv(proc[w]) /\ DOMAIN proc = Workers
      /\ Serves(run, published, w, proc[w]) /\ UNCHANGED <<run, published>>
  BY DEF Signal, Up, WInv, ProcsOK, Reads, queue
<1>2. /\ proc' = [proc EXCEPT ![w] = p] /\ PInv(p) /\ p.life = "up" /\ p.pc = proc[w].pc
      /\ p.next = proc[w].next /\ p.key = proc[w].key /\ p.outcome = proc[w].outcome
  BY <1>1 DEF Signal, PInv
<1>3. (Holds(p) <=> Holds(proc[w])) /\ Serves(run', published', w, p)
  BY <1>1, <1>2 DEF Holds, Serves
<1>4. Still
  BY StillReads DEF Signal
<1> HIDE DEF p
<1> QED
  BY <1>2, <1>3, <1>4, ProcStep

\* The heartbeat thread extends the lease of the row it owns.
LEMMA HeartbeatKeeps ==
    ASSUME WInv, NEW w \in Workers, Heartbeat(w)
    PROVE  WInv'
<1>1. proc[w].key \in Keys /\ TableOK
  BY DEF Heartbeat, WInv, ProcsOK, PInv
<1>2. Quiet
  BY <1>1, QuietWrite DEF Heartbeat
<1> QED
  BY <1>2, StillWrites, WorldStep DEF Heartbeat

\* Ask and Act.
LEMMA ClientKeeps ==
    ASSUME WInv, NEW c \in Clients, Ask(c) \/ Act(c)
    PROVE  WInv'
<1>1. TableOK /\ EnvOK /\ ClientsOK /\ UNCHANGED <<environment, lock, proc, published>>
  BY DEF WInv, Ask, Act
<1>2. Quiet
  <2>1. ASSUME NEW k \in Keys, Ask(c), Enqueue(k, "manual")
        PROVE  Quiet
    BY <1>1, <2>1, QuietEnqueue
  <2>2. CASE UNCHANGED queue
    BY <1>1, <2>2, QuietSame DEF queue
  <2>3. ASSUME Act(c), PromoteManual(client[c].key)
        PROVE  Quiet
    BY <1>1, <2>3, QuietPromote DEF Act, ClientsOK
  <2>4. ASSUME Act(c), Retry(client[c].key, TRUE, TRUE)
        PROVE  Quiet
    BY <1>1, <2>4, QuietRetry DEF Act, ClientsOK
  <2>5. CASE Ask(c)
    BY <2>1, <2>2, <2>5 DEF Ask
  <2>6. CASE Act(c)
    BY <2>2, <2>3, <2>4, <2>6 DEF Act
  <2> QED
    BY <2>5, <2>6
<1>3. \A k \in Keys : run[k].status \in Statuses /\ run'[k].status \in Statuses
  BY <1>1, <1>2 DEF Quiet, TableOK, RowsInv, Row
<1>4. asked' \subseteq Keys
  BY <1>1 DEF Ask, Act, Answered, EnvOK, ClientsOK
<1>5. ClientsOK'
  <2>1. CASE Ask(c)
    <3>1. PICK k \in Keys, api \in BOOLEAN, saw \in Statuses \union {"taken"} :
            client' = [client EXCEPT ![c] = [pc |-> "act", key |-> k, api |-> api, saw |-> saw]]
      BY <1>3, <2>1 DEF Ask
    <3> QED
      BY <1>1, <3>1 DEF ClientsOK
  <2>2. CASE Act(c)
    BY <1>1, <2>2 DEF Act, ClientsOK
  <2> QED
    BY <2>1, <2>2
<1>6. EnvOK'
  BY <1>1, <1>4 DEF EnvOK, environment
<1> QED
  BY <1>1, <1>2, <1>5, <1>6, WorldStep DEF Still

\* The switch, the pool files, the calendar and time.
LEMMA WorldKeeps ==
    ASSUME WInv, Toggle \/ ReadSettings \/ CancelAfterRead \/ Edit \/ NextDay \/ PassTime
    PROVE  WInv'
<1>1. TableOK /\ EnvOK /\ ClientsOK /\ UNCHANGED <<lock, proc, client, published>>
  BY DEF WInv, Toggle, ReadSettings, CancelAfterRead, Edit, NextDay, PassTime
<1>2. ClientsOK'
  BY <1>1 DEF ClientsOK
<1>3. Quiet
  <2>1. CASE UNCHANGED queue
    BY <1>1, <2>1, QuietSame DEF queue
  <2>2. CASE CancelAfterRead
    BY <1>1, <2>2, QuietCancel DEF CancelAfterRead
  <2>3. CASE PassTime
    BY <1>1, <2>3, QuietTick DEF PassTime
  <2> QED
    BY <2>1, <2>2, <2>3 DEF Toggle, ReadSettings, Edit, NextDay
<1>4. EnvOK'
  <2>1. CASE Toggle
    BY <1>1, <2>1, BoundsAssumption DEF Toggle, EnvOK
  <2>2. CASE ReadSettings \/ CancelAfterRead \/ PassTime
    BY <1>1, <2>2 DEF ReadSettings, CancelAfterRead, PassTime, EnvOK, environment, Answered
  <2>3. CASE Edit
    <3>1. edits' \in 0..MaxEdits
      BY <1>1, <2>3, BoundsAssumption DEF Edit, EnvOK
    <3>2. offered' \subseteq Keys /\ broken' \in BOOLEAN
      BY <1>1, <2>3 DEF Edit, EnvOK
    <3>3. UNCHANGED <<enabled, toggles, target, asked, published>>
      BY <2>3 DEF Edit
    <3> QED
      BY <1>1, <3>1, <3>2, <3>3 DEF EnvOK
  <2>4. CASE NextDay
    <3>1. target' \in 1..LastDay
      BY <1>1, <2>4, BoundsAssumption DEF NextDay, EnvOK
    <3>2. UNCHANGED <<enabled, toggles, offered, broken, edits, asked, published>>
      BY <2>4 DEF NextDay
    <3> QED
      BY <1>1, <3>1, <3>2 DEF EnvOK
  <2> QED
    BY <2>1, <2>2, <2>3, <2>4
<1> QED
  BY <1>1, <1>2, <1>3, <1>4, WorldStep DEF Still

-----------------------------------------------------------------------------
(***************************************************************************)
(* The invariant and what follows from it.                                 *)
(***************************************************************************)

\* At the start nobody executes anything.
LEMMA WInitInv == WInit => WInv
<1> SUFFICES ASSUME WInit PROVE WInv
  OBVIOUS
<1>1. TableOK
  BY InitInv DEF WInit, IInv, Init, TableOK
<1>2. EnvOK
  <2>1. toggles \in 0..MaxToggles /\ edits \in 0..MaxEdits /\ target \in 1..LastDay
    BY BoundsAssumption DEF WInit
  <2>2. /\ offered \subseteq Keys /\ asked \subseteq Keys /\ published \subseteq Keys
        /\ enabled \in BOOLEAN /\ broken \in BOOLEAN
    BY DEF WInit
  <2> QED
    BY <2>1, <2>2 DEF EnvOK
<1>. ClientsOK
  <2> DEFINE idle == [pc |-> "idle", key |-> None, api |-> FALSE, saw |-> "none"]
  <2>1. client = [c \in Clients |-> idle]
    BY DEF WInit
  <2>2. \A c \in Clients : client[c] = idle
    BY <2>1
  <2> QED
    BY <2>1, <2>2 DEF ClientsOK
<1>3. \A w \in Workers : PInv(proc[w]) /\ Idle(proc[w])
  BY DEF WInit, Process, Home, PInv, Idle, Holds
<1>4. ProcsOK /\ Guarded
  BY <1>3, WorkersAssumption DEF WInit, ProcsOK, Guarded, Idle
<1>5. \A w \in Workers : Serves(run, published, w, proc[w])
  BY <1>3 DEF Idle, Serves
<1>6. \A k \in Keys : Reports(run, published, k)
  BY DEF WInit, Init, NewRow, Reports
<1> QED
  BY <1>1, <1>2, <1>4, <1>5, <1>6 DEF WInv

\* Every step of everyone keeps the invariant.
LEMMA WNextInv == WInv /\ [WNext]_wvars => WInv'
<1> SUFFICES ASSUME WInv, [WNext]_wvars PROVE WInv'
  OBVIOUS
<1>1. ASSUME NEW w \in Workers, Step(w) PROVE WInv'
  BY <1>1, TopKeeps, PlanKeeps, RequeueKeeps, LockKeeps, ClaimKeeps, CheckKeeps, PhaseKeeps,
     FetchKeeps, CommitKeeps, FinishKeeps, RetryKeeps DEF Step
<1>2. ASSUME NEW w \in Workers, Start(w) \/ Heartbeat(w) \/ Crash(w) \/ Signal(w)
      PROVE  WInv'
  BY <1>2, TopKeeps, HeartbeatKeeps, LockKeeps, SignalKeeps
<1>3. CASE People
  BY <1>3, ClientKeeps, WorldKeeps DEF People
<1>4. CASE PassTime
  BY <1>4, WorldKeeps
<1>5. CASE UNCHANGED wvars
  <2>1. Still /\ UNCHANGED proc
    BY <1>5, StillReads DEF wvars, Reads
  <2> QED
    BY <2>1, WorldStep
<1> QED
  BY <1>1, <1>2, <1>3, <1>4, <1>5 DEF WNext

\* WInv is an invariant of the services, the web processes and the people together.
THEOREM WorkersInvariance == WSpec => []WInv
  BY WInitInv, WNextInv, PTL DEF WSpec

\* A live process never loses the run it executes nor the lock it executes under,
\* whatever crashes, expired leases, stop signals and requests do meanwhile
\* (WorkersSafe: the ValueError branches of _owned are never taken by an executor).
THEOREM NoLiveProcessIsDeposed == WSpec => []WorkersSafe
<1>1. ASSUME WInv PROVE WTypeOK
  <2>1. lock # None => Up(lock)
    BY <1>1 DEF WInv, Guarded, Holds, Up
  <2> QED
    BY <1>1, <2>1 DEF WTypeOK, WInv, EnvOK, Guarded, ProcsOK, PInv
<1>2. ASSUME WInv PROVE LiveOwnership
  BY <1>2 DEF LiveOwnership, WInv, Serves, Guarded, Holds, Up, Owned, Running
<1>3. WInv => WorkersSafe
  BY <1>1, <1>2 DEF WorkersSafe
<1> QED
  BY <1>3, WorkersInvariance, PTL

\* What a row reports was published, and "completed" means every instrument of the
\* row (OutcomeMatchesSnapshot: complete_run before finish, the status from the items).
THEOREM ReportsMatchSnapshots == WSpec => []OutcomeMatchesSnapshot
<1>1. ASSUME WInv PROVE OutcomeMatchesSnapshot
  <2>1. \A k \in Keys : DOMAIN run[k].items = Symbols
    BY <1>1 DEF WInv, TableOK, RowsInv, Row
  <2> QED
    BY <1>1, <2>1 DEF WInv, Reports, OutcomeMatchesSnapshot
<1> QED
  BY <1>1, WorkersInvariance, PTL

-----------------------------------------------------------------------------
(***************************************************************************)
(* The processes and the people use the queue only through its methods.    *)
(***************************************************************************)

\* A step of the queue that is not the retry of a process.
Calm == \/ \E k \in Keys, source \in Sources \ {"none"} : Enqueue(k, source)
        \/ \E k \in Keys : PromoteManual(k) \/ Retry(k, TRUE, TRUE)
        \/ \E k \in Keys, w \in Workers : Execute(k, w)
        \/ \E day \in Days : CancelSuperseded(day)
        \/ CancelAutomatic \/ RecoverExpired \/ Tick
        \/ UNCHANGED vars

\* The kinds of calm steps, one by one.
LEMMA CalmKinds ==
    /\ UNCHANGED vars => Calm
    /\ CancelAutomatic => Calm
    /\ RecoverExpired => Calm
    /\ Tick => Calm
    /\ \A day \in Days : CancelSuperseded(day) => Calm
    /\ \A k \in Keys : /\ Enqueue(k, "automatic") => Calm
                       /\ Enqueue(k, "manual") => Calm
                       /\ PromoteManual(k) => Calm
                       /\ Retry(k, TRUE, TRUE) => Calm
    /\ \A k \in Keys, w \in Workers : Execute(k, w) => Calm
BY DEF Calm

\* A process that does not retry makes a calm step.
LEMMA ProcessCalm ==
    ASSUME WInv, NEW w \in Workers, Start(w) \/ Step(w) \/ Heartbeat(w) \/ Crash(w) \/ Signal(w),
           ~(Requeue(w) /\ Retry(proc[w].key, FALSE, proc[w].flag))
    PROVE  Calm
<1>1. PInv(proc[w]) /\ EnvOK
  BY DEF WInv, ProcsOK
<1>2. target \in Days
  BY <1>1, BoundsAssumption DEF EnvOK
<1>3. Reads => Calm
  <2>1. Reads => UNCHANGED vars
    BY DEF Reads, queue, vars
  <2> QED
    BY <2>1, CalmKinds
<1>4. CASE Start(w) \/ Signal(w) \/ Top(w) \/ Coordinate(w) \/ Revive(w) \/ Reread(w)
          \/ Check(w) \/ CheckSwitch(w) \/ CheckPool(w) \/ Handle(w) \/ RetryRun(w)
          \/ RetrySwitch(w)
  <2>1. Reads
    BY <1>4 DEF Start, Signal, Top, Coordinate, Revive, Reread, Check, CheckSwitch, CheckPool,
                Handle, RetryRun, RetrySwitch
  <2> QED
    BY <1>3, <2>1
<1>5. CASE Acquire(w) \/ Release(w) \/ Crash(w) \/ Commit(w)
  <2>1. UNCHANGED vars
    BY <1>5 DEF Acquire, Release, Crash, Commit, queue, vars
  <2> QED
    BY <2>1, CalmKinds
<1>6. CASE TopOff(w) \/ CoordinateOff(w) \/ CheckOff(w) \/ RetryOff(w) \/ Recover(w)
  BY <1>6, CalmKinds DEF TopOff, CoordinateOff, CheckOff, RetryOff, Recover
<1>7. CASE Plan(w)
  BY <1>2, <1>7, CalmKinds DEF Plan
<1>12. CASE EnqueuePlanned(w)
  <2>1. \/ \E k \in proc[w].todo : Enqueue(k, "automatic")
        \/ Reads
    BY <1>12 DEF EnqueuePlanned
  <2> QED
    BY <1>1, <1>3, <2>1, CalmKinds DEF PInv
<1>8. ASSUME NEW k \in Keys, Execute(k, w)
      PROVE  Calm
  BY <1>8, CalmKinds
<1>9. CASE ClaimRun(w)
  <2>1. ASSUME NEW k \in Keys, Claim(k, w, w \notin Daemons, Keys)
        PROVE  Calm
    BY <1>8, <2>1 DEF Execute
  <2>2. \/ \E k \in Keys : Claim(k, w, w \notin Daemons, Keys)
        \/ Reads
    BY <1>9 DEF ClaimRun
  <2> QED
    BY <1>3, <2>1, <2>2
<1>10. CASE Begin(w) \/ Score(w) \/ Publish(w) \/ Fetch(w) \/ FinishRun(w) \/ Heartbeat(w)
  <2> DEFINE k == proc[w].key
  <2>1. k \in Keys
    BY <1>1, <1>10 DEF Begin, Score, Publish, Fetch, FinishRun, Heartbeat, At, PInv
  <2>2. CASE \/ RenewLease(k, w) \/ \E phase \in WorkPhases : SetPhase(k, w, phase)
             \/ \E s \in Symbols : \/ \E status \in {"completed", "failed"} : RecordItem(k, w, s, status)
                                   \/ InvalidateItem(k, w, s)
             \/ \E status \in Terminal : Finish(k, w, status, Published(status))
    BY <1>8, <2>1, <2>2 DEF Execute
  <2>3. CASE Begin(w) \/ Score(w) \/ Publish(w) \/ Heartbeat(w)
    <3>1. \/ RenewLease(k, w) \/ \E phase \in WorkPhases : SetPhase(k, w, phase)
          \/ Reads
      BY <2>3 DEF Begin, Score, Publish, Heartbeat
    <3> QED
      BY <1>3, <2>2, <3>1
  <2>4. CASE Fetch(w)
    <3>1. \E s \in Symbols : \/ \E status \in {"completed", "failed"} : RecordItem(k, w, s, status)
                             \/ InvalidateItem(k, w, s)
      BY <1>1, <2>4 DEF Fetch, PInv
    <3> QED
      BY <2>2, <3>1
  <2>5. CASE FinishRun(w)
    <3>1. \E status \in Terminal : Finish(k, w, status, Published(status))
      BY <1>1, <2>5 DEF FinishRun, At, PInv
    <3> QED
      BY <2>2, <3>1
  <2> QED
    BY <1>10, <2>3, <2>4, <2>5
<1>11. CASE Requeue(w)
  BY <1>3, <1>11 DEF Requeue
<1> QED
  BY <1>4, <1>5, <1>6, <1>7, <1>9, <1>10, <1>11, <1>12 DEF Step

\* Everyone else makes calm steps.
LEMMA OthersCalm ==
    ASSUME WInv, People \/ PassTime \/ UNCHANGED wvars
    PROVE  Calm
<1>1. ASSUME NEW c \in Clients, Ask(c)
      PROVE  Calm
  <2>1. \/ \E k \in Keys : Enqueue(k, "manual")
        \/ UNCHANGED vars
    BY <1>1 DEF Ask, queue, vars
  <2> QED
    BY <2>1, CalmKinds
<1>2. ASSUME NEW c \in Clients, Act(c)
      PROVE  Calm
  <2>1. client[c].key \in Keys
    BY <1>2 DEF Act, WInv, ClientsOK
  <2>2. \/ PromoteManual(client[c].key) \/ Retry(client[c].key, TRUE, TRUE)
        \/ UNCHANGED vars
    BY <1>2 DEF Act, queue, vars
  <2> QED
    BY <2>1, <2>2, CalmKinds
<1>3. CASE Toggle \/ ReadSettings \/ CancelAfterRead \/ Edit \/ NextDay \/ PassTime
  <2>1. UNCHANGED vars \/ CancelAutomatic \/ Tick
    BY <1>3 DEF Toggle, ReadSettings, CancelAfterRead, Edit, NextDay, PassTime, queue, vars
  <2> QED
    BY <2>1, CalmKinds
<1>4. CASE UNCHANGED wvars
  BY <1>4, CalmKinds DEF wvars, queue, vars
<1> QED
  BY <1>1, <1>2, <1>3, <1>4 DEF People

\* Both are methods of the queue.
LEMMA QueueSteps == WInv /\ [WNext]_wvars => [Next]_vars
<1> SUFFICES ASSUME WInv, [WNext]_wvars PROVE [Next]_vars
  OBVIOUS
<1>1. ASSUME Calm PROVE [Next]_vars
  BY <1>1 DEF Calm, Next, Request
<1>2. ASSUME NEW w \in Workers, Requeue(w), Retry(proc[w].key, FALSE, proc[w].flag)
      PROVE  [Next]_vars
  <2>1. proc[w].key \in Keys /\ proc[w].flag \in BOOLEAN
    BY <1>2 DEF Requeue, At, WInv, ProcsOK, PInv
  <2> QED
    BY <1>2, <2>1 DEF Next, Request
<1>3. ASSUME NEW w \in Workers, Start(w) \/ Step(w) \/ Heartbeat(w) \/ Crash(w) \/ Signal(w)
      PROVE  [Next]_vars
  BY <1>1, <1>2, <1>3, ProcessCalm
<1> QED
  BY <1>1, <1>3, OthersCalm DEF WNext

\* The services, the web processes and the people together behave like one user of
\* the queue (Spec: every step is one transaction of CollectorStore or none), ...
THEOREM WorkersUseTheQueue == WSpec => Spec
<1>1. WInit => Init
  BY DEF WInit
<1> QED
  BY <1>1, QueueSteps, WorkersInvariance, PTL DEF WSpec, Spec

\* ... so they keep what the queue promises: one run at a time within its budget,
\* manual runs and finished work preserved (RowsConsistent, ManualRunsStay,
\* DoneWorkStays, ImplementsQueue).
THEOREM WorkersKeepTheQueue ==
    WSpec => []RowsConsistent /\ ManualRunsStay /\ DoneWorkStays /\ ImplementsQueue
BY WorkersUseTheQueue, RowsStayConsistent, ManualKept, DoneStays, StoreImplementsQueue, PTL

-----------------------------------------------------------------------------
(***************************************************************************)
(* What a planning round notes.                                            *)
(***************************************************************************)

\* A process is about to put back a run of its plan.
Reviving(p) == p.pc \in {"reread", "requeue"} /\ p.next = "revive"

\* The runs it found cancelled and has not put back yet.
Notes(p) == p.revive \union (IF Reviving(p) THEN {p.key} ELSE {})

\* Only a service that is up plans, and it notes each run once.
Plans(w, p) ==
    /\ w \notin Daemons => \/ p.pc \in Locked \union {"acquire"}
                           \/ p.pc \in {"reread", "requeue"} /\ p.next = "release"
    /\ p.revive # {} => p.pc \in {"enqueue", "revive"} \/ Reviving(p)
    /\ Reviving(p) => p.key \notin p.revive

\* What is noted in the table r: as long as no person asks, the run stays cancelled.
Noted(r, p) == \A k \in Notes(p) : r[k].source # "manual" => r[k].status = "cancelled"

\* A web process works on manual runs.
Works(p) == p.pc \in Executing \union {"retry", "retryswitch", "reread", "requeue"}
Attended(r, w, p) == w \notin Daemons /\ Works(p) => r[p.key].source = "manual"

OneService == \A v, w \in Daemons : Up(v) /\ Up(w) => v = w

NInv == /\ OneService
        /\ \A w \in Workers : /\ Plans(w, proc[w]) /\ Noted(run, proc[w])
                              /\ Attended(run, w, proc[w])

\* What becomes of a run without a process that retries it.
LEMMA CalmRests ==
    ASSUME TableOK, Calm, NEW k \in Keys,
           run[k].source # "manual", run[k].status \in {"failed", "cancelled"}
    PROVE  \/ run'[k].status = run[k].status
           \/ run'[k].source = "manual" /\ run'[k].attempt = 0
<1>1. \A j \in Keys : run[j] \in Row
  BY DEF TableOK, RowsInv
<1>2. ASSUME NEW j \in Keys, NEW source \in Sources, Enqueue(j, source)
      PROVE  run'[k] = run[k]
  BY <1>2 DEF Enqueue, Present, TableOK, RowsInv
<1>3. ASSUME NEW j \in Keys, PromoteManual(j)
      PROVE  run'[k] = run[k]
  BY <1>3 DEF PromoteManual, TableOK, RowsInv
<1>4. ASSUME NEW j \in Keys, Retry(j, TRUE, TRUE), j = k
      PROVE  run'[k].source = "manual" /\ run'[k].attempt = 0
  <2>1. Requeued(run[k], TRUE).source = "manual" /\ Requeued(run[k], TRUE).attempt = 0
    BY <1>1 DEF Requeued, Row
  <2> QED
    BY <1>4, <2>1 DEF Retry, TableOK, RowsInv
<1>5. ASSUME NEW j \in Keys, Retry(j, TRUE, TRUE), j # k
      PROVE  run'[k] = run[k]
  BY <1>5 DEF Retry, TableOK, RowsInv
<1>6. ASSUME NEW j \in Keys, NEW w \in Workers, Execute(j, w)
      PROVE  run'[k] = run[k]
  <2>1. j # k /\ \E r : run' = [run EXCEPT ![j] = r]
    BY <1>6 DEF Execute, Claim, Claimable, RenewLease, SetPhase, RecordItem, InvalidateItem,
                Finish, Owned, Running
  <2> QED
    BY <2>1 DEF TableOK, RowsInv
<1>7. ASSUME NEW day \in Days, CancelSuperseded(day)
      PROVE  run'[k] = run[k]
  BY <1>7 DEF CancelSuperseded
<1>8. CASE CancelAutomatic
  BY <1>1, <1>8, TransformerStatus DEF CancelAutomatic
<1>9. CASE RecoverExpired
  BY <1>9 DEF RecoverExpired, Expired, Running
<1>10. CASE Tick
  BY <1>1, <1>10 DEF Tick, Row
<1>11. CASE UNCHANGED vars
  BY <1>11 DEF vars
<1> QED
  BY <1>2, <1>3, <1>4, <1>5, <1>6, <1>7, <1>8, <1>9, <1>10, <1>11 DEF Calm

-----------------------------------------------------------------------------
(***************************************************************************)
(* The steps of a process keep its plan.                                   *)
(***************************************************************************)

\* Process w moves to p, keeps to its notes but for those that are true now, and
\* stays with its run or has claimed a manual one.
Follows(w, p) ==
    /\ proc' = [proc EXCEPT ![w] = p] \/ (UNCHANGED proc /\ p = proc[w])
    /\ Plans(w, p)
    /\ \A k \in Notes(p) : k \in Notes(proc[w]) \/ run'[k].status = "cancelled"
    /\ w \notin Daemons /\ Works(p) => \/ Works(proc[w]) /\ p.key = proc[w].key
                                       \/ run'[p.key].source = "manual"

\* A process without notes that moves within the execution.
LEMMA MovesOn ==
    ASSUME NEW w \in Workers, PInv(proc[w]), Plans(w, proc[w]), NEW p, PInv(p),
           proc' = [proc EXCEPT ![w] = p], p.revive = {},
           \/ p.pc \in Locked \union {Home(w)}
           \/ p.pc = "reread" /\ p.next = "release",
           Works(p) => Works(proc[w]) /\ p.key = proc[w].key
    PROVE  Follows(w, p)
BY DEF Follows, Plans, Notes, Reviving, Home, PInv

\* Executing a run, from the lock to the outcome.
LEMMA ExecutionFollows ==
    ASSUME WInv, WInv', NEW w \in Workers, Plans(w, proc[w]),
           \/ Acquire(w) \/ Recover(w) \/ Check(w) \/ CheckSwitch(w) \/ CheckOff(w)
           \/ CheckPool(w) \/ Begin(w) \/ Fetch(w) \/ Score(w) \/ Publish(w) \/ Commit(w)
           \/ Handle(w) \/ FinishRun(w) \/ RetryRun(w) \/ RetrySwitch(w) \/ RetryOff(w)
           \/ Release(w)
    PROVE  Follows(w, proc'[w])
<1> DEFINE p == proc'[w]
           Goal == /\ proc' = [proc EXCEPT ![w] = p]
                   /\ p.revive = {}
                   /\ \/ p.pc \in Locked \union {Home(w)}
                      \/ p.pc = "reread" /\ p.next = "release"
                   /\ Works(p) => Works(proc[w]) /\ p.key = proc[w].key
<1>1. /\ PInv(proc[w]) /\ DOMAIN proc = Workers /\ PInv(p)
  BY DEF WInv, ProcsOK
<1>2. /\ proc[w].revive = {} /\ DOMAIN proc[w] = Fields
      /\ proc[w].pc \in Checks => proc[w].next \in Resume
  BY <1>1 DEF Acquire, Recover, Check, CheckSwitch, CheckOff, CheckPool, Begin, Fetch, Score,
              Publish, Commit, Handle, FinishRun, RetryRun, RetrySwitch, RetryOff, Release,
              At, Plans, Reviving, PInv
<1>3. ASSUME Acquire(w) \/ Recover(w) PROVE Goal
  BY <1>1, <1>2, <1>3 DEF Acquire, Recover, At, Go, Home, Works
<1>4. ASSUME Up(w), proc[w].pc \in Executing, Onward(w)
      PROVE  Goal
  <2>1. ASSUME NEW pc \in Locked, proc[w].pc \in Executing, Go(w, pc)
        PROVE  Goal
    BY <1>1, <1>2, <2>1 DEF Go, Works
  <2>2. CASE proc[w].pc \in Checks /\ StopHere(w)
    BY <1>1, <1>2, <1>4, <2>2 DEF StopHere, Raise, Works
  <2>3. CASE \/ \E next \in Resume : CheckThen(w, next)
             \/ \E exc : Raise(w, exc)
    BY <1>1, <1>2, <1>4, <2>3 DEF CheckThen, Raise, Works
  <2> QED
    BY <1>2, <1>4, <2>1, <2>2, <2>3 DEF Onward
<1>5. ASSUME Check(w) PROVE Goal
  BY <1>4, <1>5 DEF Check, At, Onward
<1>6. ASSUME CheckSwitch(w) \/ CheckOff(w) \/ CheckPool(w) PROVE Goal
  BY <1>4, <1>6 DEF CheckSwitch, CheckOff, CheckPool, At, Onward
<1>7. ASSUME Publish(w) \/ Score(w) PROVE Goal
  BY <1>4, <1>7 DEF Publish, Score, At, Onward
<1>8. ASSUME Begin(w) PROVE Goal
  BY <1>1, <1>2, <1>8 DEF Begin, At, Raise, Works
<1>9. ASSUME Fetch(w) PROVE Goal
  <2>1. PICK s \in proc[w].left, ok \in BOOLEAN :
           proc' = [proc EXCEPT ![w].left = @ \ {s}, ![w].got = @ \/ ok, ![w].pc = "check",
                                ![w].next = IF proc[w].left = {s} THEN "score" ELSE "fetch"]
    BY <1>9 DEF Fetch
  <2> DEFINE got == proc[w].got \/ ok
             next == IF proc[w].left = {s} THEN "score" ELSE "fetch"
  <2>2. proc' = [proc EXCEPT ![w] = [proc[w] EXCEPT !.left = @ \ {s}, !.got = got,
                                                    !.pc = "check", !.next = next]]
    BY <1>1, <2>1
  <2>3. proc[w].pc = "fetch"
    BY <1>9 DEF Fetch, At
  <2> HIDE DEF got, next
  <2> QED
    BY <1>1, <1>2, <2>2, <2>3 DEF Works
<1>10. ASSUME Commit(w) \/ Handle(w) \/ FinishRun(w) PROVE Goal
  BY <1>1, <1>2, <1>10 DEF Commit, Handle, FinishRun, At, Go, Works
<1>11. ASSUME RetryRun(w) \/ RetrySwitch(w) \/ RetryOff(w) PROVE Goal
  BY <1>1, <1>2, <1>11 DEF RetryRun, RetrySwitch, RetryOff, At, Go, Works, PInv
<1>12. ASSUME Release(w) PROVE Goal
  BY <1>1, <1>2, <1>12 DEF Release, Process, Home, Works
<1>13. Goal
  BY <1>3, <1>5, <1>6, <1>7, <1>8, <1>9, <1>10, <1>11, <1>12
<1>14. Follows(w, p)
  <2> HIDE DEF p
  <2> QED
    BY <1>1, <1>13, MovesOn
<1> QED
  BY <1>14

\* Ending a round drops the plan.
LEMMA EndRoundFollows ==
    ASSUME WInv, WInv', NEW w \in Workers, NEW err \in BOOLEAN, EndRound(w, err), Up(w)
    PROVE  Follows(w, proc'[w])
<1> DEFINE p == proc'[w]
<1>1. DOMAIN proc = Workers /\ DOMAIN proc[w] = Fields
  BY DEF WInv, ProcsOK, PInv
<1>2. proc' = [proc EXCEPT ![w] = p] /\ p.pc = "acquire" /\ p.revive = {}
  BY <1>1 DEF EndRound
<1>3. Follows(w, p)
  <2> HIDE DEF p
  <2> QED
    BY <1>2 DEF Follows, Plans, Notes, Reviving, Works
<1> QED
  BY <1>3

\* The planning round of a service.
LEMMA RoundFollows ==
    ASSUME WInv, WInv', NEW w \in Workers, Plans(w, proc[w]),
           \/ Start(w) \/ Top(w) \/ TopOff(w) \/ Coordinate(w) \/ CoordinateOff(w)
           \/ Plan(w) \/ EnqueuePlanned(w) \/ Revive(w) \/ Reread(w)
    PROVE  Follows(w, proc'[w])
<1> DEFINE p == proc'[w]
<1>1. /\ PInv(proc[w]) /\ DOMAIN proc = Workers /\ PInv(p) /\ DOMAIN proc[w] = Fields
  BY DEF WInv, ProcsOK, PInv
<1>2. ASSUME NEW err \in BOOLEAN, EndRound(w, err), Up(w)
      PROVE  Follows(w, p)
  BY <1>2, EndRoundFollows
<1>3. ASSUME Start(w) PROVE Follows(w, p)
  <2>1. proc' = [proc EXCEPT ![w] = p]
    BY <1>1, <1>3 DEF Start
  <2>2. p.pc = proc[w].pc /\ p.next = proc[w].next /\ p.revive = proc[w].revive /\ p.key = proc[w].key
    BY <1>1, <1>3 DEF Start
  <2> HIDE DEF p
  <2> QED
    BY <2>1, <2>2 DEF Follows, Plans, Notes, Reviving, Works
<1>4. ASSUME NEW pc \in Planning, proc' = [proc EXCEPT ![w] = p], w \in Daemons,
             p.pc = pc, p.revive = {}
      PROVE  Follows(w, p)
  <2> HIDE DEF p
  <2> QED
    BY <1>4 DEF Follows, Plans, Notes, Reviving, Works
<1>5. ASSUME Top(w) PROVE Follows(w, p)
  <2>1. w \in Daemons
    BY <1>5 DEF Top, At, Plans
  <2>2. ASSUME proc[w].stop PROVE Follows(w, p)
    BY <1>1, <1>4, <1>5, <2>1, <2>2 DEF Top, Process
  <2>3. ASSUME ~proc[w].stop PROVE Follows(w, p)
    <3>1. p.pc \in {"coordinate", "topoff"} /\ p.revive = proc[w].revive /\ proc[w].revive = {}
      BY <1>1, <1>5, <2>3 DEF Top, At, Plans, Reviving
    <3>2. proc' = [proc EXCEPT ![w] = p]
      BY <1>1, <1>5, <2>3 DEF Top
    <3> QED
      BY <1>4, <2>1, <3>1, <3>2
  <2> QED
    BY <2>2, <2>3
<1>6. ASSUME NEW pc \in Planning, Go(w, pc), w \in Daemons, proc[w].revive = {}
      PROVE  Follows(w, p)
  <2>1. proc' = [proc EXCEPT ![w] = p] /\ p.pc = pc /\ p.revive = {}
    BY <1>1, <1>6 DEF Go
  <2> QED
    BY <1>4, <1>6, <2>1
<1>7. ASSUME TopOff(w) PROVE Follows(w, p)
  BY <1>6, <1>7 DEF TopOff, At, Plans, Reviving
<1>8. ASSUME Coordinate(w) \/ CoordinateOff(w) PROVE Follows(w, p)
  BY <1>2, <1>6, <1>8 DEF Coordinate, CoordinateOff, At, Plans, Reviving
<1>9. ASSUME Plan(w) PROVE Follows(w, p)
  <2>1. w \in Daemons /\ proc[w].revive = {} /\ Up(w)
    BY <1>9 DEF Plan, At, Plans, Reviving
  <2>2. ASSUME broken PROVE Follows(w, p)
    BY <1>2, <1>9, <2>1, <2>2 DEF Plan
  <2>3. ASSUME ~broken PROVE Follows(w, p)
    BY <1>1, <1>4, <1>9, <2>1, <2>3 DEF Plan
  <2> QED
    BY <2>2, <2>3
<1>10. ASSUME EnqueuePlanned(w) PROVE Follows(w, p)
  <2>1. w \in Daemons
    BY <1>10 DEF EnqueuePlanned, At, Plans
  <2>2. ASSUME NEW k \in proc[w].todo, Enqueue(k, "automatic"),
               proc' = [proc EXCEPT ![w].todo = @ \ {k},
                                    ![w].revive = IF run[k].status = "cancelled"
                                                  THEN @ \union {k} ELSE @]
        PROVE  Follows(w, p)
    <3> DEFINE revive == IF run[k].status = "cancelled" THEN proc[w].revive \union {k}
                                                        ELSE proc[w].revive
    <3>3. proc' = [proc EXCEPT ![w].todo = @ \ {k}, ![w].revive = revive]
      BY <1>1, <2>2
    <3>1. proc' = [proc EXCEPT ![w] = p] /\ p.pc = "enqueue" /\ p.revive = revive
      <4> HIDE DEF revive
      <4> QED
        BY <1>1, <1>10, <3>3 DEF EnqueuePlanned, At
    <3>2. run[k].status = "cancelled" => run'[k].status = "cancelled"
      BY <2>2 DEF Enqueue, Present
    <3> HIDE DEF p
    <3> QED
      BY <1>10, <2>1, <3>1, <3>2 DEF EnqueuePlanned, At, Follows, Plans, Notes, Reviving, Works
  <2>3. ASSUME Go(w, "revive") PROVE Follows(w, p)
    <3>1. proc' = [proc EXCEPT ![w] = p] /\ p.pc = "revive" /\ p.revive = proc[w].revive
      BY <1>1, <2>3 DEF Go
    <3> HIDE DEF p
    <3> QED
      BY <1>10, <2>1, <3>1 DEF EnqueuePlanned, At, Follows, Plans, Notes, Reviving, Works
  <2>4. \/ \E k \in proc[w].todo :
              /\ Enqueue(k, "automatic")
              /\ proc' = [proc EXCEPT ![w].todo = @ \ {k},
                                      ![w].revive = IF run[k].status = "cancelled"
                                                    THEN @ \union {k} ELSE @]
        \/ Go(w, "revive")
    BY <1>10 DEF EnqueuePlanned
  <2> HIDE DEF p
  <2> QED
    BY <2>2, <2>3, <2>4
<1>11. ASSUME Revive(w) PROVE Follows(w, p)
  <2>1. w \in Daemons /\ Up(w)
    BY <1>11 DEF Revive, At, Plans
  <2>2. ASSUME NEW k \in proc[w].revive,
               proc' = [proc EXCEPT ![w].pc = "reread", ![w].next = "revive",
                                    ![w].key = k, ![w].revive = @ \ {k}]
        PROVE  Follows(w, p)
    <3>1. /\ proc' = [proc EXCEPT ![w] = p] /\ p.pc = "reread" /\ p.next = "revive"
          /\ p.key = k /\ p.revive = proc[w].revive \ {k}
      BY <1>1, <2>2 DEF PInv
    <3> HIDE DEF p
    <3> QED
      BY <2>1, <3>1 DEF Follows, Plans, Notes, Reviving, Works
  <2>3. \/ \E k \in proc[w].revive :
              proc' = [proc EXCEPT ![w].pc = "reread", ![w].next = "revive",
                                   ![w].key = k, ![w].revive = @ \ {k}]
        \/ EndRound(w, FALSE)
    BY <1>11 DEF Revive
  <2> HIDE DEF p
  <2> QED
    BY <1>2, <2>1, <2>2, <2>3
<1>12. ASSUME Reread(w) PROVE Follows(w, p)
  <2>1. /\ proc' = [proc EXCEPT ![w] = p] /\ p.pc = "requeue" /\ p.next = proc[w].next
        /\ p.key = proc[w].key /\ p.revive = proc[w].revive
    BY <1>1, <1>12 DEF Reread, At
  <2> HIDE DEF p
  <2> QED
    BY <1>12, <2>1 DEF Reread, At, Follows, Plans, Notes, Reviving, Works
<1> QED
  BY <1>3, <1>5, <1>7, <1>8, <1>9, <1>10, <1>11, <1>12

\* A requeue strikes the run off the plan.
LEMMA RequeueFollows ==
    ASSUME WInv, WInv', NEW w \in Workers, Plans(w, proc[w]), Requeue(w)
    PROVE  Follows(w, proc'[w]) /\ proc[w].key \notin Notes(proc'[w])
<1> DEFINE p == proc'[w]
<1>1. /\ PInv(proc[w]) /\ DOMAIN proc = Workers /\ PInv(p) /\ DOMAIN proc[w] = Fields
      /\ proc[w].next \in {"revive", "release"} /\ Up(w) /\ proc[w].pc = "requeue"
  BY DEF WInv, ProcsOK, PInv, Requeue, At
<1>2. ASSUME EndRound(w, TRUE)
      PROVE  Follows(w, p) /\ proc[w].key \notin Notes(p)
  <2>1. Follows(w, p)
    BY <1>1, <1>2, EndRoundFollows
  <2>2. p.pc = "acquire" /\ p.revive = {}
    BY <1>1, <1>2 DEF EndRound
  <2> QED
    BY <2>1, <2>2 DEF Notes, Reviving
<1>3. ASSUME NEW pc \in {"revive", "release"}, pc = proc[w].next, Go(w, pc)
      PROVE  Follows(w, p) /\ proc[w].key \notin Notes(p)
  <2>1. /\ proc' = [proc EXCEPT ![w] = p] /\ p.pc = pc /\ p.revive = proc[w].revive
    BY <1>1, <1>3 DEF Go
  <2> HIDE DEF p
  <2> QED
    BY <1>1, <1>3, <2>1 DEF Follows, Plans, Notes, Reviving, Works
<1> QED
  BY <1>1, <1>2, <1>3 DEF Requeue

\* A web process claims manual runs only.
LEMMA ClaimFollows ==
    ASSUME WInv, WInv', NEW w \in Workers, Plans(w, proc[w]), ClaimRun(w)
    PROVE  Follows(w, proc'[w])
<1> DEFINE p == proc'[w]
<1>1. /\ PInv(proc[w]) /\ DOMAIN proc = Workers /\ PInv(p) /\ DOMAIN proc[w] = Fields
      /\ proc[w].pc = "claim" /\ proc[w].revive = {}
  BY DEF WInv, ProcsOK, PInv, ClaimRun, At, Plans, Reviving
<1>2. ASSUME NEW k \in Keys, Claim(k, w, w \notin Daemons, Keys),
             proc' = [proc EXCEPT ![w].pc = "check", ![w].next = "begin", ![w].key = k]
      PROVE  Follows(w, p)
  <2>1. proc' = [proc EXCEPT ![w] = p] /\ p.pc = "check" /\ p.key = k /\ p.revive = {}
    BY <1>1, <1>2
  <2>2. run[k] \in Row /\ DOMAIN run = Keys
    BY DEF WInv, TableOK, RowsInv
  <2>3. w \notin Daemons => run'[k].source = "manual"
    BY <1>2, <2>2 DEF Claim, Claimable, Claimed, Row
  <2> HIDE DEF p
  <2> QED
    BY <2>1, <2>3 DEF Follows, Plans, Notes, Reviving, Works
<1>3. ASSUME Go(w, "release") PROVE Follows(w, p)
  <2>1. proc' = [proc EXCEPT ![w] = p] /\ p.pc = "release" /\ p.revive = {}
    BY <1>1, <1>3 DEF Go
  <2> HIDE DEF p
  <2> QED
    BY <2>1 DEF Follows, Plans, Notes, Reviving, Works
<1>4. \/ \E k \in Keys : /\ Claim(k, w, w \notin Daemons, Keys)
                         /\ proc' = [proc EXCEPT ![w].pc = "check", ![w].next = "begin", ![w].key = k]
      \/ Go(w, "release")
  BY DEF ClaimRun
<1> HIDE DEF p
<1> QED
  BY <1>2, <1>3, <1>4 DEF p

\* The heartbeat and a signal leave the process where it is, a crash ends it.
LEMMA OutsideFollows ==
    ASSUME WInv, WInv', NEW w \in Workers, Plans(w, proc[w]),
           Heartbeat(w) \/ Signal(w) \/ Crash(w)
    PROVE  Follows(w, proc'[w])
<1> DEFINE p == proc'[w]
<1>1. DOMAIN proc = Workers /\ DOMAIN proc[w] = Fields
  BY DEF WInv, ProcsOK, PInv
<1>2. ASSUME Heartbeat(w) \/ Signal(w) PROVE Follows(w, p)
  <2>2. proc' = proc \/ proc' = [proc EXCEPT ![w] = [proc[w] EXCEPT !.stop = TRUE]]
    BY <1>1, <1>2 DEF Heartbeat, Signal
  <2>1. /\ proc' = [proc EXCEPT ![w] = p] \/ (UNCHANGED proc /\ p = proc[w])
        /\ p.pc = proc[w].pc /\ p.next = proc[w].next
        /\ p.key = proc[w].key /\ p.revive = proc[w].revive
    BY <1>1, <2>2
  <2> HIDE DEF p
  <2> QED
    BY <2>1 DEF Follows, Plans, Notes, Reviving, Works
<1>3. ASSUME Crash(w) PROVE Follows(w, p)
  <2>1. proc' = [proc EXCEPT ![w] = p] /\ p.pc = Home(w) /\ p.revive = {}
    BY <1>1, <1>3 DEF Crash, Process
  <2> HIDE DEF p
  <2> QED
    BY <2>1 DEF Follows, Plans, Notes, Reviving, Works, Home
<1> QED
  BY <1>2, <1>3

\* Every step of a process keeps to the plan.
LEMMA ProcessFollows ==
    ASSUME WInv, WInv', NEW w \in Workers, Plans(w, proc[w]),
           Start(w) \/ Step(w) \/ Heartbeat(w) \/ Crash(w) \/ Signal(w)
    PROVE  Follows(w, proc'[w])
BY ExecutionFollows, RoundFollows, RequeueFollows, ClaimFollows, OutsideFollows DEF Step

-----------------------------------------------------------------------------
(***************************************************************************)
(* What is noted stays true, and a run that failed rests.                  *)
(***************************************************************************)

\* A run a person asked for stays one.
LEMMA StaysManual ==
    ASSUME WInv, [WNext]_wvars, NEW k \in Keys, run[k].source = "manual"
    PROVE  run'[k].source = "manual"
<1>1. [Next]_vars /\ RowsInv
  BY QueueSteps DEF WInv, TableOK
<1> QED
  BY <1>1, NextKeeps DEF Keeps, vars

\* What is noted now in the plan of v stays true but for the run w requeues.
LEMMA NotesStay ==
    ASSUME WInv, [WNext]_wvars, NEW k \in Keys, run[k].source # "manual" => run[k].status = "cancelled",
           Calm \/ run'[k] = run[k]
    PROVE  run'[k].source # "manual" => run'[k].status = "cancelled"
<1>1. CASE run[k].source = "manual"
  BY <1>1, StaysManual
<1>2. CASE run[k].source # "manual" /\ Calm
  BY <1>2, CalmRests DEF WInv
<1>3. CASE run'[k] = run[k]
  BY <1>3
<1> QED
  BY <1>1, <1>2, <1>3

\* A process with notes is a service that is up.
LEMMA NotesOfServices ==
    ASSUME WInv, NInv, NEW v \in Workers, Notes(proc[v]) # {}
    PROVE  v \in Daemons /\ Up(v)
<1>1. PInv(proc[v]) /\ Plans(v, proc[v])
  BY DEF WInv, ProcsOK, NInv
<1> QED
  BY <1>1 DEF PInv, Plans, Notes, Reviving, Up

\* What a process has noted are runs.
LEMMA NotesAreKeys ==
    ASSUME WInv, NEW v \in Workers
    PROVE  Notes(proc[v]) \subseteq Keys
BY DEF WInv, ProcsOK, PInv, Notes, Reviving

\* Only Start brings a process up.
LEMMA ActsWhenUp ==
    ASSUME NEW w \in Workers, Step(w) \/ Heartbeat(w) \/ Crash(w) \/ Signal(w)
    PROVE  Up(w)
<1>1. CASE Heartbeat(w) \/ Crash(w) \/ Signal(w)
  BY <1>1 DEF Heartbeat, Crash, Signal
<1>2. CASE Step(w)
  BY <1>2 DEF Step, Top, TopOff, Coordinate, CoordinateOff, Plan, EnqueuePlanned, Revive, Reread,
              Requeue, Acquire, Recover, ClaimRun, Check, CheckSwitch, CheckOff, CheckPool, Begin,
              Fetch, Score, Publish, Commit, Handle, FinishRun, RetryRun, RetrySwitch, RetryOff,
              Release, At
<1> QED
  BY <1>1, <1>2

\* A process that puts back a run does nothing else to the table.
LEMMA RequeueOne ==
    ASSUME WInv, NEW w \in Workers, Retry(proc[w].key, FALSE, proc[w].flag)
    PROVE  \A k \in Keys : k # proc[w].key => run'[k] = run[k]
BY DEF Retry, WInv, TableOK, RowsInv

\* A step of process w.
LEMMA ProcessNotes ==
    ASSUME WInv, WInv', NInv, NEW w \in Workers,
           Start(w) \/ Step(w) \/ Heartbeat(w) \/ Crash(w) \/ Signal(w)
    PROVE  NInv'
<1>1. /\ [WNext]_wvars /\ Follows(w, proc'[w])
      /\ \A v \in Workers : Plans(v, proc[v]) /\ Noted(run, proc[v]) /\ Attended(run, v, proc[v])
  BY ProcessFollows DEF NInv, WNext
<1>2. /\ DOMAIN proc = Workers
      /\ \A v \in Workers : v # w => proc'[v] = proc[v]
  BY <1>1 DEF WInv, ProcsOK, Follows
<1>3. OneService'
  <2>1. CASE Up(w)
    <3>1. \A v \in Workers : proc'[v].life = "up" => Up(v)
      BY <1>2, <2>1 DEF Up
    <3> QED
      BY <3>1, DaemonsAssumption DEF NInv, OneService, Up
  <2>2. CASE Start(w)
    <3>1. w \in Daemons => \A d \in Daemons : ~Up(d)
      BY <2>2 DEF Start
    <3> QED
      BY <1>2, <3>1, DaemonsAssumption DEF NInv, OneService, Up
  <2> QED
    BY <2>1, <2>2, ActsWhenUp
<1>4. \A v \in Workers : Plans(v, proc'[v])
  BY <1>1, <1>2 DEF Follows
<1>5. \A v \in Workers : Attended(run', v, proc'[v])
  <2>1. ASSUME NEW v \in Workers, v \notin Daemons, Works(proc[v])
        PROVE  proc[v].key \in Keys /\ run'[proc[v].key].source = "manual"
    <3>1. proc[v].key \in Keys
      BY <2>1 DEF WInv, ProcsOK, PInv, Works
    <3> QED
      BY <1>1, <2>1, <3>1, StaysManual DEF Attended
  <2>2. ASSUME NEW v \in Workers, v # w PROVE Attended(run', v, proc'[v])
    BY <1>2, <2>1, <2>2 DEF Attended
  <2>3. Attended(run', w, proc'[w])
    BY <1>1, <2>1 DEF Attended, Follows
  <2> QED
    BY <2>2, <2>3
<1>6. ASSUME NEW v \in Workers PROVE Noted(run', proc'[v])
  <2>1. ASSUME NEW k \in Notes(proc'[v])
        PROVE  run'[k].source # "manual" => run'[k].status = "cancelled"
    <3>1. k \in Keys
      BY NotesAreKeys DEF WInv, ProcsOK, PInv, Notes, Reviving
    <3>2. k \in Notes(proc[v]) \/ run'[k].status = "cancelled"
      BY <1>1, <1>2 DEF Follows
    <3>3. k \in Notes(proc[v]) => (run[k].source # "manual" => run[k].status = "cancelled")
      BY <1>1 DEF Noted
    <3>4. CASE ~(Requeue(w) /\ Retry(proc[w].key, FALSE, proc[w].flag))
      BY <1>1, <3>1, <3>2, <3>3, <3>4, NotesStay, ProcessCalm
    <3>5. CASE /\ Requeue(w) /\ Retry(proc[w].key, FALSE, proc[w].flag)
               /\ k # proc[w].key
      BY <1>1, <3>1, <3>2, <3>3, <3>5, NotesStay, RequeueOne
    <3>6. CASE Requeue(w) /\ k = proc[w].key
      <4>1. v # w
        BY <1>1, <3>6, RequeueFollows
      <4>2. k \in Notes(proc[v])
        BY <1>2, <4>1
      <4>3. v \in Daemons /\ Up(v) /\ Up(w)
        BY <3>6, <4>2, NotesOfServices DEF Requeue, At
      <4>4. w \notin Daemons
        BY <4>1, <4>3 DEF NInv, OneService
      <4>5. run[k].source = "manual"
        BY <1>1, <3>6, <4>4 DEF Attended, Works, Requeue, At
      <4> QED
        BY <1>1, <3>1, <4>5, StaysManual
    <3> QED
      BY <3>4, <3>5, <3>6
  <2> QED
    BY <2>1 DEF Noted
<1> QED
  BY <1>3, <1>4, <1>5, <1>6 DEF NInv, OneService, Up

\* A step of anyone else.
LEMMA OthersNotes ==
    ASSUME WInv, NInv, People \/ PassTime \/ UNCHANGED wvars
    PROVE  NInv'
<1>1. Calm /\ [WNext]_wvars
  BY OthersCalm DEF WNext
<1>2. UNCHANGED proc
  BY DEF People, PassTime, wvars, Ask, Act, Toggle, ReadSettings, CancelAfterRead, Edit, NextDay
<1>3. \A w \in Workers : /\ Plans(w, proc[w]) /\ Noted(run, proc[w])
                         /\ Attended(run, w, proc[w])
  BY DEF NInv
<1>4. \A w \in Workers : Attended(run', w, proc[w])
  BY <1>1, <1>3, StaysManual DEF Attended, Works, WInv, ProcsOK, PInv
<1>5. \A w \in Workers : Noted(run', proc[w])
  BY <1>1, <1>3, NotesAreKeys, NotesStay DEF Noted
<1> QED
  BY <1>2, <1>3, <1>4, <1>5 DEF NInv, OneService, Up

\* Nobody has noted anything at the start.
LEMMA NInit == WInit => NInv
<1> SUFFICES ASSUME WInit PROVE NInv
  OBVIOUS
<1>1. \A w \in Workers : /\ proc[w].life = "new" /\ proc[w].pc = Home(w)
                         /\ proc[w].revive = {}
  BY DEF WInit, Process
<1>2. OneService
  BY <1>1, DaemonsAssumption DEF OneService, Up
<1>3. ASSUME NEW w \in Workers
      PROVE  Plans(w, proc[w]) /\ Noted(run, proc[w]) /\ Attended(run, w, proc[w])
  BY <1>1 DEF Plans, Noted, Attended, Notes, Reviving, Works, Home
<1> QED
  BY <1>2, <1>3 DEF NInv

\* The plans are an invariant of the services, the web processes and the people.
THEOREM PlansInvariance == WSpec => []NInv
<1>1. WInv /\ WInv' /\ NInv /\ [WNext]_wvars => NInv'
  BY ProcessNotes, OthersNotes DEF WNext
<1> QED
  BY <1>1, NInit, WorkersInvariance, PTL DEF WSpec

\* An automatic run that failed is put back by a person's request or by the process
\* that has just failed it, never by a planning round, whatever it noted before
\* (FailuresRest: _enqueue notes only cancelled runs, retry(manual=False) reads the
\* status again but takes a failed run too).
THEOREM FailedRunsRest == WSpec => FailuresRest
<1>1. ASSUME WInv, NInv, [WNext]_wvars PROVE FailedRunRests
  <2>1. ASSUME NEW k \in Keys, Automatic(k), run[k].status = "failed", run'[k].status # "failed"
        PROVE  \/ run'[k].source = "manual" /\ run'[k].attempt = 0
               \/ \E w \in Workers : /\ At(w, "requeue") /\ proc[w].key = k
                                     /\ proc[w].next = "release"
    <3>1. CASE Calm
      BY <1>1, <2>1, <3>1, CalmRests DEF Automatic, WInv
    <3>2. ASSUME NEW w \in Workers, Requeue(w), Retry(proc[w].key, FALSE, proc[w].flag)
          PROVE  /\ At(w, "requeue") /\ proc[w].key = k /\ proc[w].next = "release"
      <4>1. At(w, "requeue") /\ proc[w].key = k
        BY <1>1, <2>1, <3>2, RequeueOne DEF Requeue
      <4>2. PInv(proc[w]) /\ Noted(run, proc[w])
        BY <1>1 DEF WInv, ProcsOK, NInv
      <4>3. proc[w].next # "revive"
        BY <2>1, <4>1, <4>2 DEF Noted, Notes, Reviving, At, Automatic
      <4> QED
        BY <4>1, <4>2, <4>3 DEF PInv, At
    <3> QED
      BY <1>1, <3>1, <3>2, ProcessCalm, OthersCalm DEF WNext
  <2> QED
    BY <2>1 DEF FailedRunRests
<1>2. WInv /\ NInv /\ [WNext]_wvars => [FailedRunRests]_wvars
  BY <1>1
<1> QED
  BY <1>2, WorkersInvariance, PlansInvariance, PTL DEF WSpec, FailuresRest
=============================================================================
