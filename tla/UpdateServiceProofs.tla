------------------------- MODULE UpdateServiceProofs -------------------------
(***************************************************************************)
(* Proofs about the combined updates, for any number of services, web      *)
(* processes, people, updates, slots, days, pools and runs.                *)
(*                                                                         *)
(* First the table, UpdateQueue: one open update for a slot, one running   *)
(* update, and a person's update stays a person's.  QueueSafe is inductive *)
(* as it stands; its conjuncts are taken apart by how much of the table    *)
(* they speak of: one row (RowOK), or two rows that share a slot, a key or *)
(* the executor (Apart).  Most actions change one row, and a lemma says    *)
(* what such a change must keep; the sweeps change every row by a function *)
(* of the row.                                                             *)
(*                                                                         *)
(* Then the processes, UpdateService: a process keeps the update it        *)
(* executes, what a person took over reaches the run, an update closes     *)
(* with its run, and the runs do what RunQueue allows.  Only the holder of *)
(* the execution lock claims, recovers, submits and executes (Guarded).    *)
(* What the others do meanwhile to the update and the run it works on is   *)
(* little (Calm), and Fits, which says where such a process is with both,  *)
(* bears it.                                                               *)
(***************************************************************************)
EXTENDS UpdateService, TLAPS


\* What a row keeps to by itself.
RowOK(r) ==
    /\ r \in Update
    /\ r.status = "running" => r.worker # None
    /\ r.attempt <= MaxAttempts
    /\ r.status = "queued" => r.attempt < MaxAttempts

\* What two rows keep to.
Apart(r, s) ==
    /\ ~(r.status \in Open /\ s.status \in Open /\ r.slot = s.slot)
    /\ ~(r.day # None /\ r.day = s.day /\ r.slot = s.slot)
    /\ ~(r.status = "running" /\ s.status = "running")

Table == /\ upd \in [Ids -> Update] /\ rows \in Nat
         /\ \A i \in Ids : RowOK(upd[i]) /\ (upd[i].status = "absent" <=> i > rows)
         /\ \A i, j \in Ids : i # j => Apart(upd[i], upd[j])

\* The two ways of saying it agree.
LEMMA TableIsSafe == QueueSafe <=> Table
<1>1. QueueSafe => Table
  BY DEF QueueSafe, UpdateTypeOK, OneOpenPerSlot, OncePerScheduleKey, OneUpdateRunning,
         UpdateBudget, Table, RowOK, Apart
<1>2. Table => QueueSafe
  BY DEF QueueSafe, UpdateTypeOK, OneOpenPerSlot, OncePerScheduleKey, OneUpdateRunning,
         UpdateBudget, Table, RowOK, Apart
<1> QED  BY <1>1, <1>2

\* A step that puts a good row in the place of another keeps the table, when the new
\* row is apart from the rest.
LEMMA OneRow ==
    ASSUME Table, NEW i \in Ids, NEW r, RowOK(r), r.status # "absent",
           upd' = [upd EXCEPT ![i] = r],
           \/ rows' = rows /\ upd[i].status # "absent"
           \/ rows' = rows + 1 /\ i = rows + 1,
           \A j \in Ids \ {i} : Apart(r, upd[j])
    PROVE  Table'
<1>1. upd' \in [Ids -> Update]
  BY DEF Table, RowOK
<1>2. rows' \in Nat
  BY DEF Table
<1>3. \A j \in Ids : upd'[j] = IF j = i THEN r ELSE upd[j]
  BY DEF Table
<1>4. \A j \in Ids : j \in Nat
  BY IdsAssumption
<1>5. \A j \in Ids : RowOK(upd'[j]) /\ (upd'[j].status = "absent" <=> j > rows')
  BY <1>2, <1>3, <1>4 DEF Table
<1>6. \A j, k \in Ids : j # k => Apart(upd'[j], upd'[k])
  BY <1>3 DEF Table, Apart
<1> QED  BY <1>1, <1>2, <1>5, <1>6 DEF Table, RowOK

\* A sweep keeps the table when it keeps each row good, in its slot and with its key, and
\* neither opens a closed row nor starts one.
Swept(r, s) ==
    /\ RowOK(s) /\ s.slot = r.slot /\ s.day = r.day
    /\ s.status \in Open => r.status \in Open
    /\ s.status = "running" => r.status = "running"
    /\ s.status = "absent" <=> r.status = "absent"

\* A step that maps every row through a function.
LEMMA Sweep ==
    ASSUME Table, UNCHANGED rows, upd' = [i \in Ids |-> upd'[i]],
           \A i \in Ids : Swept(upd[i], upd'[i])
    PROVE  Table'
<1>1. \A i \in Ids : upd'[i] \in Update
  BY DEF Swept, RowOK
<1>2. upd' \in [Ids -> Update]
  BY <1>1
<1>3. \A i \in Ids : RowOK(upd'[i]) /\ (upd'[i].status = "absent" <=> i > rows')
  BY DEF Table, Swept
<1>4. \A i, j \in Ids : i # j => Apart(upd'[i], upd'[j])
  BY DEF Table, Apart, Swept
<1> QED  BY <1>2, <1>3, <1>4 DEF Table

-----------------------------------------------------------------------------
\* enqueue takes over an active update or inserts a row.
LEMMA EnqueueKeeps ==
    ASSUME Table, NEW slot \in Slots, NEW source \in {"manual", "automatic"},
           NEW day \in Days \union {None}, Enqueue(slot, source, day)
    PROVE  Table'
<1>1. CASE /\ Existing(slot, day) = {} /\ rows + 1 \in Ids
           /\ upd' = [upd EXCEPT ![rows + 1] = NewUpdate("queued", slot, source, day)]
           /\ rows' = rows + 1
  <2> DEFINE r == NewUpdate("queued", slot, source, day)
  <2>1. RowOK(r) /\ r.status = "queued" /\ r.slot = slot /\ r.day = day
    BY DEF RowOK, NewUpdate, Update, MaxAttempts, Open
  <2>2. OpenIn(slot) = {} /\ KeyedIn(slot, day) = {}
    BY <1>1 DEF Existing
  <2>3. \A j \in Ids : Apart(r, upd[j])
    BY <2>1, <2>2 DEF Apart, OpenIn, KeyedIn
  <2> DEFINE n == rows + 1
  <2>4. n \in Ids /\ rows' = rows + 1 /\ n = rows + 1 /\ upd' = [upd EXCEPT ![n] = r]
    BY <1>1
  <2>5. r.status # "absent" /\ \A j \in Ids \ {n} : Apart(r, upd[j])
    BY <2>1, <2>3
  <2> HIDE DEF r, n
  <2> QED  BY <2>1, <2>4, <2>5, OneRow
<1>2. ASSUME NEW i \in Existing(slot, day),
             upd' = IF source = "manual" /\ upd[i].status \in Open
                    THEN [upd EXCEPT ![i].source = "manual"] ELSE upd,
             UNCHANGED rows
      PROVE  Table'
  <2>1. i \in Ids
    BY <1>2 DEF Existing, OpenIn, KeyedIn
  <2>2. CASE source = "manual" /\ upd[i].status \in Open
    <3> DEFINE r == [upd[i] EXCEPT !.source = "manual"]
    <3>1. upd' = [upd EXCEPT ![i] = r]
      BY <1>2, <2>2
    <3>2. upd[i] \in Update /\ RowOK(upd[i])
      BY <2>1 DEF Table
    <3>3. RowOK(r) /\ r.status = upd[i].status /\ r.slot = upd[i].slot /\ r.day = upd[i].day
      BY <3>2 DEF RowOK, Update
    <3>4. r.status # "absent"
      BY <2>2, <3>3 DEF Open
    <3>5. \A j \in Ids \ {i} : Apart(r, upd[j])
      BY <2>1, <3>3 DEF Apart, Table
    <3> HIDE DEF r
    <3> QED  BY <1>2, <2>1, <3>1, <3>3, <3>4, <3>5, OneRow
  <2>3. CASE ~(source = "manual" /\ upd[i].status \in Open)
    BY <1>2, <2>3 DEF Table, RowOK, Apart
  <2> QED  BY <2>2, <2>3
<1> QED  BY <1>1, <1>2 DEF Enqueue

\* claim marks one update as running.
LEMMA ClaimKeeps ==
    ASSUME Table, NEW i \in Ids, NEW w \in Workers, NEW manualOnly \in BOOLEAN,
           Claim(i, w, manualOnly)
    PROVE  Table'
<1> DEFINE r == [upd[i] EXCEPT !.status = "running", !.worker = w, !.live = TRUE, !.attempt = @ + 1]
<1>1. upd[i] \in Update /\ RowOK(upd[i]) /\ upd[i].status = "queued"
  BY DEF Table, Claim, Eligible
<1>2. upd' = [upd EXCEPT ![i] = r] /\ rows' = rows
  BY DEF Claim, Table
<1>0. upd[i].attempt + 1 \in Nat
  BY <1>1 DEF Update
<1>5. r \in Update /\ r.status = "running" /\ r.slot = upd[i].slot /\ r.day = upd[i].day
  <2> DEFINE n == upd[i].attempt + 1
  <2>1. r = [upd[i] EXCEPT !.status = "running", !.worker = w, !.live = TRUE, !.attempt = n]
    OBVIOUS
  <2>2. n \in Nat
    BY <1>0
  <2> HIDE DEF n, r
  <2> QED  BY <1>1, <2>1, <2>2 DEF Update, Open
<1>6. r.worker = w /\ w # None /\ r.attempt = upd[i].attempt + 1
  BY <1>1, NullAssumption DEF Update
<1>7. r.attempt <= MaxAttempts
  BY <1>1, <1>6 DEF RowOK, Update, MaxAttempts
<1>3. RowOK(r) /\ r.status = "running" /\ r.slot = upd[i].slot /\ r.day = upd[i].day
  BY <1>5, <1>6, <1>7 DEF RowOK
<1>4. \A j \in Ids \ {i} : Apart(r, upd[j])
  BY <1>1, <1>3 DEF Apart, Table, Claim, NoneRunning, Open
<1> HIDE DEF r
<1> QED  BY <1>1, <1>2, <1>3, <1>4, OneRow

\* A running row that stays running, or closes.
LEMMA WriteKeeps ==
    ASSUME Table, NEW i \in Ids, NEW w \in Workers, NEW status \in {"running"} \union Closed,
           NEW linked \in BOOLEAN, Write(i, w, status, linked)
    PROVE  Table'
<1> DEFINE r == [upd[i] EXCEPT !.status = status, !.live = TRUE, !.linked = linked]
<1>1. upd[i] \in Update /\ RowOK(upd[i]) /\ upd[i].status = "running"
  BY DEF Table, Write, Owned
<1>2. upd' = [upd EXCEPT ![i] = r] /\ rows' = rows
  BY DEF Write, Table
<1>3. RowOK(r) /\ r.status = status /\ r.slot = upd[i].slot /\ r.day = upd[i].day
  BY <1>1 DEF RowOK, Update, Closed, Open
<1>4. \A j \in Ids \ {i} : Apart(r, upd[j])
  BY <1>1, <1>3 DEF Apart, Table, Closed, Open
<1>5. r.status # "absent"
  BY <1>3 DEF Closed
<1> HIDE DEF r
<1> QED  BY <1>1, <1>2, <1>3, <1>4, <1>5, OneRow

\* A lease that runs out changes nothing else.
LEMMA LapseKeeps ==
    ASSUME Table, NEW i \in Ids, Lapse(i)
    PROVE  Table'
<1> DEFINE r == [upd[i] EXCEPT !.live = FALSE]
<1>1. upd[i] \in Update /\ RowOK(upd[i]) /\ upd[i].status = "running"
  BY DEF Table, Lapse
<1>2. upd' = [upd EXCEPT ![i] = r] /\ rows' = rows
  BY DEF Lapse, Table
<1>3. RowOK(r) /\ r.status = "running" /\ r.slot = upd[i].slot /\ r.day = upd[i].day
  BY <1>1 DEF RowOK, Update
<1>4. \A j \in Ids \ {i} : Apart(r, upd[j])
  BY <1>1, <1>3 DEF Apart, Table
<1> HIDE DEF r
<1> QED  BY <1>1, <1>2, <1>3, <1>4, OneRow

\* recover_expired ends the updates whose lease ran out.
LEMMA RecoverKeeps ==
    ASSUME Table, RecoverExpired
    PROVE  Table'
<1>1. ASSUME NEW r \in Update, RowOK(r), Lapsed(r)
      PROVE  Swept(r, Recovered(r))
  <2>1. CASE r.attempt >= MaxAttempts
    BY <1>1, <2>1 DEF Lapsed, Recovered, Swept, RowOK, Update, Open, Closed
  <2>2. CASE ~(r.attempt >= MaxAttempts)
    <3>1. Recovered(r) = [r EXCEPT !.status = "queued", !.worker = None]
      BY <2>2 DEF Recovered
    <3>2. /\ Recovered(r) \in Update /\ Recovered(r).status = "queued"
          /\ Recovered(r).slot = r.slot /\ Recovered(r).day = r.day /\ Recovered(r).attempt = r.attempt
      BY <1>1, <3>1 DEF Update, Open
    <3>3. r.attempt < MaxAttempts /\ r.status = "running"
      BY <1>1, <2>2 DEF RowOK, Update, MaxAttempts, Lapsed
    <3> QED  BY <1>1, <3>2, <3>3 DEF Swept, RowOK, Open, MaxAttempts, Update
  <2> QED  BY <2>1, <2>2
<1>2. ASSUME NEW r \in Update, RowOK(r)
      PROVE  Swept(r, r)
  BY <1>2 DEF Swept
<1>3. \A i \in Ids : upd[i] \in Update /\ RowOK(upd[i])
  BY DEF Table
<1>4. \A i \in Ids : upd'[i] = IF Lapsed(upd[i]) THEN Recovered(upd[i]) ELSE upd[i]
  BY DEF RecoverExpired
<1>5. \A i \in Ids : Swept(upd[i], upd'[i])
  BY <1>1, <1>2, <1>3, <1>4
<1>6. UNCHANGED rows /\ upd' = [i \in Ids |-> upd'[i]]
  BY <1>4 DEF RecoverExpired
<1> QED  BY <1>5, <1>6, Sweep

\* cancel_automatic withdraws the automatic updates that wait.
LEMMA CancelKeeps ==
    ASSUME Table, CancelAutomatic
    PROVE  Table'
<1>1. ASSUME NEW r \in Update, RowOK(r)
      PROVE  Swept(r, Withdrawn(r))
  BY <1>1 DEF Swept, Withdrawn, RowOK, Update, Open, Closed
<1>2. \A i \in Ids : upd[i] \in Update /\ RowOK(upd[i])
  BY DEF Table
<1>3. \A i \in Ids : upd'[i] = Withdrawn(upd[i])
  BY DEF CancelAutomatic
<1>4. \A i \in Ids : Swept(upd[i], upd'[i])
  BY <1>1, <1>2, <1>3
<1>5. UNCHANGED rows /\ upd' = [i \in Ids |-> upd'[i]]
  BY <1>3 DEF CancelAutomatic
<1> QED  BY <1>4, <1>5, Sweep

-----------------------------------------------------------------------------
\* The table starts empty.
LEMMA InitTable == UpdateInit => Table
<1> SUFFICES ASSUME UpdateInit PROVE Table
  OBVIOUS
<1>1. \A i \in Ids : upd[i] = NewUpdate("absent", None, "automatic", None)
  BY DEF UpdateInit
<1>2. NewUpdate("absent", None, "automatic", None) \in Update
  BY DEF NewUpdate, Update
<1>3. \A i \in Ids : RowOK(upd[i]) /\ upd[i].status = "absent" /\ upd[i].day = None
  <2> DEFINE r == NewUpdate("absent", None, "automatic", None)
  <2>1. RowOK(r) /\ r.status = "absent" /\ r.day = None
    <3>1. r.status = "absent" /\ r.day = None /\ r.attempt = 0
      BY DEF NewUpdate
    <3> HIDE DEF r
    <3> QED  BY <1>2, <3>1 DEF RowOK, MaxAttempts, r
  <2> HIDE DEF r
  <2> QED  BY <1>1, <2>1 DEF r
<1>4. upd \in [Ids -> Update] /\ rows \in Nat /\ rows = 0
  BY <1>1, <1>2 DEF UpdateInit
<1>5. \A i \in Ids : i > 0
  BY IdsAssumption
<1>6. \A i, j \in Ids : i # j => Apart(upd[i], upd[j])
  BY <1>3 DEF Apart, Open
<1> QED  BY <1>3, <1>4, <1>5, <1>6 DEF Table

\* Every step keeps the table.
LEMMA NextTable == Table /\ [UpdateNext]_<<upd, rows>> => Table'
<1> SUFFICES ASSUME Table, [UpdateNext]_<<upd, rows>>
             PROVE  Table'
  OBVIOUS
<1>1. ASSUME NEW slot \in Slots, Enqueue(slot, "manual", None)
      PROVE  Table'
  BY <1>1, EnqueueKeeps
<1>2. ASSUME NEW slot \in Scheduled, NEW day \in Days, Enqueue(slot, "automatic", day)
      PROVE  Table'
  <2>1. slot \in Slots
    BY SlotsAssumption
  <2> QED  BY <1>2, <2>1, EnqueueKeeps
<1>3. ASSUME NEW i \in Ids, NEW w \in Workers, NEW manualOnly \in BOOLEAN, Claim(i, w, manualOnly)
      PROVE  Table'
  BY <1>3, ClaimKeeps
<1>4. ASSUME NEW i \in Ids, NEW w \in Workers, NEW status \in {"running"} \union Closed,
             NEW linked \in BOOLEAN, Write(i, w, status, linked)
      PROVE  Table'
  BY <1>4, WriteKeeps
<1>5. ASSUME NEW i \in Ids, NEW w \in Workers, Renew(i, w)
      PROVE  Table'
  <2>1. upd[i].linked \in BOOLEAN
    BY DEF Table, Update
  <2> QED  BY <1>5, <2>1, WriteKeeps DEF Renew
<1>6. ASSUME NEW i \in Ids, Lapse(i)
      PROVE  Table'
  BY <1>6, LapseKeeps
<1>7. CASE RecoverExpired
  BY <1>7, RecoverKeeps
<1>8. CASE CancelAutomatic
  BY <1>8, CancelKeeps
<1>9. CASE UNCHANGED <<upd, rows>>
  BY <1>9 DEF Table, RowOK, Apart
<1> QED  BY <1>1, <1>2, <1>3, <1>4, <1>5, <1>6, <1>7, <1>8, <1>9 DEF UpdateNext

\* The rows of the queue of combined updates: every row well formed, one open update per
\* slot, one update per schedule key, one that runs and has an owner, three executions at
\* most - so that the unique indexes of radar_updates never refuse an INSERT of enqueue.
THEOREM QueueIsSafe == UpdateSpec => []QueueSafe
<1>1. UpdateInit => Table
  BY InitTable
<1>2. Table /\ [UpdateNext]_<<upd, rows>> => Table'
  BY NextTable
<1>3. Table => QueueSafe
  BY TableIsSafe
<1> QED  BY <1>1, <1>2, <1>3, PTL DEF UpdateSpec

-----------------------------------------------------------------------------
\* What no step does to a row.
Stays(r, s) ==
    /\ r.status \in Closed => s = r
    /\ r.status # "absent" /\ r.source = "manual" =>
          /\ s.source = "manual"
          /\ r.status = "queued" => s.status # "cancelled"

\* A change of one row.
LEMMA OneStays ==
    ASSUME Table, NEW i \in Ids, NEW r, upd' = [upd EXCEPT ![i] = r], Stays(upd[i], r)
    PROVE  \A j \in Ids : Stays(upd[j], upd'[j])
<1>1. \A j \in Ids : upd'[j] = IF j = i THEN r ELSE upd[j]
  BY DEF Table
<1> QED  BY <1>1 DEF Stays

\* No step makes a manual update automatic again.
LEMMA StepStays ==
    ASSUME Table, UpdateNext
    PROVE  \A i \in Ids : Stays(upd[i], upd'[i])
<1> USE DEF Open, Closed
<1>1. ASSUME NEW slot \in Slots, NEW source \in {"manual", "automatic"},
             NEW day \in Days \union {None}, Enqueue(slot, source, day)
      PROVE  \A i \in Ids : Stays(upd[i], upd'[i])
  <2>1. CASE /\ Existing(slot, day) = {} /\ rows + 1 \in Ids
             /\ upd' = [upd EXCEPT ![rows + 1] = NewUpdate("queued", slot, source, day)]
    <3>1. upd[rows + 1].status = "absent"
      BY <2>1 DEF Table
    <3>2. Stays(upd[rows + 1], NewUpdate("queued", slot, source, day))
      BY <3>1 DEF Stays
    <3> QED  BY <2>1, <3>2, OneStays
  <2>2. ASSUME NEW i \in Existing(slot, day),
               upd' = IF source = "manual" /\ upd[i].status \in Open
                      THEN [upd EXCEPT ![i].source = "manual"] ELSE upd
        PROVE  \A j \in Ids : Stays(upd[j], upd'[j])
    <3>1. i \in Ids
      BY <2>2 DEF Existing, OpenIn, KeyedIn
    <3>2. CASE source = "manual" /\ upd[i].status \in Open
      <4> DEFINE r == [upd[i] EXCEPT !.source = "manual"]
      <4>1. upd' = [upd EXCEPT ![i] = r]
        BY <2>2, <3>2
      <4>2. Stays(upd[i], r)
        BY <3>1, <3>2 DEF Stays, Table, Update
      <4> HIDE DEF r
      <4> QED  BY <3>1, <4>1, <4>2, OneStays
    <3>3. CASE ~(source = "manual" /\ upd[i].status \in Open)
      BY <2>2, <3>3 DEF Stays
    <3> QED  BY <3>2, <3>3
  <2> QED  BY <1>1, <2>1, <2>2 DEF Enqueue
<1>2. ASSUME NEW i \in Ids, NEW w \in Workers, NEW manualOnly \in BOOLEAN, Claim(i, w, manualOnly)
      PROVE  \A j \in Ids : Stays(upd[j], upd'[j])
  <2> DEFINE r == [upd[i] EXCEPT !.status = "running", !.worker = w, !.live = TRUE, !.attempt = @ + 1]
  <2>1. upd' = [upd EXCEPT ![i] = r] /\ upd[i].status = "queued" /\ upd[i] \in Update
    BY <1>2 DEF Claim, Table, Eligible
  <2>2. Stays(upd[i], r)
    BY <2>1 DEF Stays, Update
  <2> HIDE DEF r
  <2> QED  BY <2>1, <2>2, OneStays
<1>3. ASSUME NEW i \in Ids, NEW w \in Workers, NEW status, NEW linked, Write(i, w, status, linked)
      PROVE  \A j \in Ids : Stays(upd[j], upd'[j])
  <2> DEFINE r == [upd[i] EXCEPT !.status = status, !.live = TRUE, !.linked = linked]
  <2>1. upd' = [upd EXCEPT ![i] = r] /\ upd[i].status = "running" /\ upd[i] \in Update
    BY <1>3 DEF Write, Owned, Table
  <2>2. Stays(upd[i], r)
    BY <2>1 DEF Stays, Update
  <2> HIDE DEF r
  <2> QED  BY <2>1, <2>2, OneStays
<1>4. ASSUME NEW i \in Ids, Lapse(i)
      PROVE  \A j \in Ids : Stays(upd[j], upd'[j])
  <2> DEFINE r == [upd[i] EXCEPT !.live = FALSE]
  <2>1. upd' = [upd EXCEPT ![i] = r] /\ upd[i].status = "running" /\ upd[i] \in Update
    BY <1>4 DEF Lapse, Table
  <2>2. Stays(upd[i], r)
    BY <2>1 DEF Stays, Update
  <2> HIDE DEF r
  <2> QED  BY <2>1, <2>2, OneStays
<1>5. CASE RecoverExpired
  <2>1. \A i \in Ids : upd'[i] = IF Lapsed(upd[i]) THEN Recovered(upd[i]) ELSE upd[i]
    BY <1>5 DEF RecoverExpired
  <2>2. ASSUME NEW r \in Update, Lapsed(r)
        PROVE  Stays(r, Recovered(r))
    BY <2>2 DEF Stays, Lapsed, Recovered, Update
  <2> QED  BY <2>1, <2>2 DEF Stays, Table
<1>6. CASE CancelAutomatic
  <2>1. \A i \in Ids : upd'[i] = Withdrawn(upd[i])
    BY <1>6 DEF CancelAutomatic
  <2>2. ASSUME NEW r \in Update
        PROVE  Stays(r, Withdrawn(r))
    BY <2>2 DEF Stays, Withdrawn, Update
  <2> QED  BY <2>1, <2>2 DEF Table
<1>7. \A slot \in Slots : Enqueue(slot, "manual", None) => \A i \in Ids : Stays(upd[i], upd'[i])
  BY <1>1
<1>8. \A slot \in Scheduled, day \in Days : Enqueue(slot, "automatic", day) => \A i \in Ids : Stays(upd[i], upd'[i])
  BY <1>1, SlotsAssumption
<1> QED  BY <1>2, <1>3, <1>4, <1>5, <1>6, <1>7, <1>8 DEF UpdateNext, Renew

\* A closed update stays as it is, and one a person asked for is neither withdrawn from
\* the queue nor made automatic again, whatever executors and sweeps do.
THEOREM ManualUpdatesAreKept == UpdateSpec => ManualUpdatesStay
<1> DEFINE Kept == \A i \in Ids : Stays(upd[i], upd'[i])
<1>1. UpdateInit => Table
  BY InitTable
<1>2. Table /\ [UpdateNext]_<<upd, rows>> => Table'
  BY NextTable
<1>3. Table /\ [UpdateNext]_<<upd, rows>> => [Kept]_<<upd, rows>>
  BY StepStays
<1>4. UpdateSpec => [][Kept]_<<upd, rows>>
  BY <1>1, <1>2, <1>3, PTL DEF UpdateSpec
<1>5. ManualUpdatesStay <=> [][Kept]_<<upd, rows>>
  BY DEF ManualUpdatesStay, Stays
<1> QED  BY <1>4, <1>5

-----------------------------------------------------------------------------

\* Where a process holds the execution lock.
Singles == {"legacyrun", "legacyretry", "legacyswitch", "legacyput"}
Holding == {"switch", "withdraw", "recover", "claim", "legacyclaim", "legacyover"}
           \union Singles \union Executing
Places == {"new", "dead", "schedule", "enqueue", "acquire", "legacy", "idle"} \union Holding

ChildStatuses == {"none", "queued", "running", "completed"} \union Retry
Proc == [pc : Places, stop : BOOLEAN, task : Ids \union {0}, next : Places \union Runs,
         manual : BOOLEAN, etf : ChildStatuses, snap : BOOLEAN]
Client == [pc : {"idle", "look", "revive", "promote", "done", "missed"}, task : Ids \union {0}]

\* A run keeps to its columns, and waits only while it has a try left.
ChildOK(c) == /\ c \in Child
              /\ c.status = "queued" => c.tries < MaxAttempts
              /\ c.status = "none" => c.tries = 0

Children == /\ child \in [Runs -> Child]
            /\ \A r \in Runs : ChildOK(child[r])
            /\ \A r, q \in Runs : child[r].status = "running" /\ child[q].status = "running" => r = q

Placed == \A i \in Ids : upd[i].status # "absent" => upd[i].slot \in Slots
Around == enabled \in BOOLEAN /\ today \in Days /\ client \in [Clients -> Client]

\* A request that has not reached the run of its update, and never may.
Pending(c) == client[c].pc \notin {"idle", "done"}
Requests == \A c \in Clients : Pending(c) =>
                client[c].task \in Ids /\ upd[client[c].task].status # "absent"

\* The updates with such a request.
Sought == {i \in Ids : \E c \in Clients : Pending(c) /\ client[c].task = i}

Guarded == /\ lock \in Workers \union {None}
           /\ \A w \in Workers : proc[w].pc \in Holding <=> lock = w

\* Where a check of the switch leads to, or the place itself.
Place(p) == IF p.pc \in {"check", "checkswitch"} THEN p.next ELSE p.pc

Retrying == {"retry", "retryswitch", "putback"}
Promised == {"promoted", "exec", "start", "childrun", "read", "wait"} \union Retrying
Linked == {"promote", "promoting"} \union Promised
Told == {"snapshot", "overseas"}

\* A person's request has come to the run, or the run is complete.
Reached(c) == c.manual \/ c.status \in {"completed", "none"}

\* Process record p of w, which executes the update in row u, beside the run c.
Fits(p, w, u, c, asking) ==
    /\ u.status = "running" /\ u.worker = w
    /\ p.pc \in {"check", "checkswitch"} => p.next \in {"calendar", "wait", "overseas"}
    /\ p.pc = "childrun" => c.status = "running"
    /\ Place(p) = "calendar" => p.etf = "none"
    /\ Place(p) \in Linked => u.linked
    /\ Place(p) \in Promised /\ u.source = "manual" =>
          Reached(c) \/ asking \/ (c.status \in Retry /\ p.pc \notin Retrying)
    /\ Place(p) \in Told => /\ p.etf # "queued"
                            /\ p.etf = "completed" => c.status = "completed"

Serves(w) ==
    /\ Working(w) => /\ proc[w].task \in Ids
                     /\ Fits(proc[w], w, upd[proc[w].task], child[Mine(w)],
                             proc[w].task \in Sought)
    /\ proc[w].pc \in Singles => proc[w].next \in Runs
    /\ proc[w].pc = "legacyrun" => child[proc[w].next].status = "running"

SInv == /\ Table /\ Placed /\ Around /\ Requests /\ Children /\ Guarded
        /\ proc \in [Workers -> Proc]
        /\ \A w \in Workers : Serves(w)

USE DEF Retry

-----------------------------------------------------------------------------
(***************************************************************************)
(* Runs: every change keeps them well formed and is a step of RunQueue.    *)
(***************************************************************************)

\* The refinement mapping of ChildQueue, by parts.
CState  == [r \in Runs |-> Abstract(child[r])]
CManual == [r \in Runs |-> child[r].manual]
CTries  == [r \in Runs |-> child[r].tries]

\* A change of the runs is allowed.
Follows == Children' /\ [Collection!Next]_(Collection!vars)

\* One run changes, and starts only when none runs.
LEMMA OneChild ==
    ASSUME Children, NEW r \in Runs, NEW c, ChildOK(c),
           child' = [child EXCEPT ![r] = c],
           c.status = "running" => ChildFree \/ child[r].status = "running"
    PROVE  /\ Children'
           /\ CState' = [CState EXCEPT ![r] = Abstract(c)]
           /\ CManual' = [CManual EXCEPT ![r] = c.manual]
           /\ CTries' = [CTries EXCEPT ![r] = c.tries]
<1>1. \A q \in Runs : child'[q] = IF q = r THEN c ELSE child[q]
  BY DEF Children
<1>2. child' \in [Runs -> Child]
  BY DEF Children, ChildOK
<1>3. \A q \in Runs : ChildOK(child'[q])
  BY <1>1 DEF Children
<1>4. \A q, s \in Runs : child'[q].status = "running" /\ child'[s].status = "running" => q = s
  BY <1>1 DEF Children, ChildFree
<1>5. /\ CState' = [CState EXCEPT ![r] = Abstract(c)]
      /\ CManual' = [CManual EXCEPT ![r] = c.manual]
      /\ CTries' = [CTries EXCEPT ![r] = c.tries]
  <2>1. CState' = [CState EXCEPT ![r] = Abstract(c)]
    <3>1. \A q \in Runs : CState'[q] = IF q = r THEN Abstract(c) ELSE CState[q]
      BY <1>1 DEF CState
    <3> QED  BY <3>1 DEF CState
  <2>2. CManual' = [CManual EXCEPT ![r] = c.manual]
    <3>1. \A q \in Runs : CManual'[q] = IF q = r THEN c.manual ELSE CManual[q]
      BY <1>1 DEF CManual
    <3> QED  BY <3>1 DEF CManual
  <2>3. CTries' = [CTries EXCEPT ![r] = c.tries]
    <3>1. \A q \in Runs : CTries'[q] = IF q = r THEN c.tries ELSE CTries[q]
      BY <1>1 DEF CTries
    <3> QED  BY <3>1 DEF CTries
  <2> QED  BY <2>1, <2>2, <2>3
<1> QED  BY <1>2, <1>3, <1>4, <1>5 DEF Children

\* Several runs change, and none starts.
LEMMA ManyChildren ==
    ASSUME Children, child' = [r \in Runs |-> child'[r]],
           \A r \in Runs : ChildOK(child'[r]) /\
               (child'[r].status = "running" => child[r].status = "running")
    PROVE  Children'
<1>1. \A r \in Runs : child'[r] \in Child
  BY DEF ChildOK
<1>2. child' \in [Runs -> Child]
  BY <1>1
<1> QED  BY <1>2 DEF Children

\* The queue does not see what leaves the three parts of the mapping alone.
LEMMA Hidden ==
    ASSUME UNCHANGED <<CState, CManual, CTries>>
    PROVE  [Collection!Next]_(Collection!vars)
BY DEF Collection!vars, CState, CManual, CTries

\* A step that changes nothing of the runs.
LEMMA SameChildren ==
    ASSUME Children, UNCHANGED child
    PROVE  Follows
<1>1. UNCHANGED <<CState, CManual, CTries>>
  BY DEF CState, CManual, CTries
<1>2. Children'
  BY DEF Children, ChildOK
<1> QED  BY <1>1, <1>2, Hidden DEF Follows

\* What RunQueue allows one run to do, in the columns of this module: b before, c after.
Allowed(b, c) ==
    \/ c.status = b.status /\ c.manual = b.manual /\ c.tries = b.tries
    \/ b.status = "none" /\ c.status = "queued" /\ c.tries = b.tries
    \/ b.status \in {"queued", "running"} /\ c.status = b.status /\ c.manual /\ c.tries = b.tries
    \/ b.status \in Retry /\ c.status = "queued" /\ c.manual /\ c.tries = 0
    \/ b.status \in Retry /\ c.status = "queued" /\ c.manual = b.manual /\ c.tries = b.tries
    \/ /\ b.status = "queued" /\ ChildFree /\ c.status = "running"
       /\ c.manual = b.manual /\ c.tries = b.tries + 1
    \/ /\ b.status = "running" /\ c.status \in {"completed", "queued"} \union Retry
       /\ c.manual = b.manual /\ c.tries = b.tries

\* One run changes as RunQueue allows.
LEMMA OneFollows ==
    ASSUME Children, NEW r \in Runs, NEW c, ChildOK(c), Allowed(child[r], c),
           child' = [child EXCEPT ![r] = c]
    PROVE  Follows
<1> DEFINE b == child[r]
<1>1. b \in Child /\ c \in Child /\ ChildOK(b)
  BY DEF Children, ChildOK
<1>2. c.status = "running" => ChildFree \/ b.status = "running"
  BY DEF Allowed
<1>3. Children' /\ CState' = [CState EXCEPT ![r] = Abstract(c)]
      /\ CManual' = [CManual EXCEPT ![r] = c.manual] /\ CTries' = [CTries EXCEPT ![r] = c.tries]
  BY <1>2, OneChild
<1>4. /\ CState[r] = Abstract(b) /\ CManual[r] = b.manual /\ CTries[r] = b.tries
      /\ b.manual \in BOOLEAN /\ c.manual \in BOOLEAN
  BY <1>1 DEF CState, CManual, CTries, Child
<1>5. CASE c.status = b.status /\ c.manual = b.manual /\ c.tries = b.tries
  <2>1. Abstract(c) = CState[r]
    BY <1>4, <1>5 DEF Abstract
  <2>2. UNCHANGED <<CState, CManual, CTries>>
    BY <1>3, <1>4, <1>5, <2>1 DEF CState, CManual, CTries
  <2> QED  BY <1>3, <2>2, Hidden DEF Follows
<1>6. CASE b.status = "none" /\ c.status = "queued" /\ c.tries = b.tries
  <2>1. CState[r] = "none" /\ Abstract(c) = "waiting"
    BY <1>4, <1>6 DEF Abstract
  <2>2. UNCHANGED CTries
    BY <1>3, <1>4, <1>6 DEF CTries
  <2>3. Collection!Submit(r)
    BY <1>3, <1>4, <2>1, <2>2 DEF Collection!Submit, Collection!Move, CState, CManual, CTries
  <2> QED  BY <1>3, <2>3 DEF Collection!Next, Follows
<1>7. CASE b.status \in {"queued", "running"} /\ c.status = b.status /\ c.manual /\ c.tries = b.tries
  <2>1. CState[r] \in {"waiting", "active"} /\ Abstract(c) = CState[r] /\ c.manual = TRUE
    BY <1>4, <1>7 DEF Abstract
  <2>2. UNCHANGED <<CState, CTries>>
    BY <1>3, <1>4, <1>7, <2>1 DEF CState, CTries
  <2>3. Collection!Demand(r)
    BY <1>3, <1>4, <2>1, <2>2 DEF Collection!Demand, CState, CManual, CTries
  <2> QED  BY <1>3, <2>3 DEF Collection!Next, Follows
<1>8. CASE b.status \in Retry /\ c.status = "queued" /\ c.manual /\ c.tries = 0
  <2>1. CState[r] = "over" /\ Abstract(c) = "waiting" /\ c.manual = TRUE
    BY <1>4, <1>8 DEF Abstract
  <2>2. Collection!Demand(r)
    BY <1>3, <1>8, <2>1 DEF Collection!Demand, Collection!Move, CState, CManual, CTries
  <2> QED  BY <1>3, <2>2 DEF Collection!Next, Follows
<1>9. CASE /\ b.status = "queued" /\ ChildFree /\ c.status = "running"
           /\ c.manual = b.manual /\ c.tries = b.tries + 1
  <2>1. CState[r] = "waiting" /\ Abstract(c) = "active"
    BY <1>4, <1>9 DEF Abstract
  <2>2. \A q \in Runs : CState[q] # "active"
    BY <1>9 DEF ChildFree, CState, Abstract
  <2>3. CTries[r] < MaxAttempts
    BY <1>1, <1>4, <1>9 DEF ChildOK
  <2>4. UNCHANGED CManual
    BY <1>3, <1>4, <1>9 DEF CManual
  <2>5. CTries' = [CTries EXCEPT ![r] = CTries[r] + 1]
    BY <1>3, <1>4, <1>9
  <2>6. Collection!Start(r)
    BY <1>3, <2>1, <2>2, <2>3, <2>4, <2>5 DEF Collection!Start, Collection!Move, CState, CManual, CTries
  <2> QED  BY <1>3, <2>6 DEF Collection!Next, Follows
<1>10. CASE /\ b.status = "running" /\ c.status \in {"completed", "queued"} \union Retry
            /\ c.manual = b.manual /\ c.tries = b.tries
  <2>1. CState[r] = "active"
    BY <1>4, <1>10 DEF Abstract
  <2>2. UNCHANGED <<CManual, CTries>>
    BY <1>3, <1>4, <1>10 DEF CManual, CTries
  <2>3. CASE c.status = "queued"
    <3>1. Abstract(c) = "waiting" /\ CTries[r] < MaxAttempts
      BY <1>4, <1>10, <2>3 DEF Abstract, ChildOK
    <3>2. Collection!Again(r)
      BY <1>3, <2>1, <2>2, <3>1 DEF Collection!Again, Collection!Move, CState, CManual, CTries
    <3> QED  BY <1>3, <3>2 DEF Collection!Next, Follows
  <2>4. CASE c.status # "queued"
    <3>1. Abstract(c) \in {"over", "complete"}
      BY <1>10, <2>4 DEF Abstract
    <3>2. Collection!End(r)
      BY <1>3, <2>1, <2>2, <3>1 DEF Collection!End, Collection!Move, CState, CManual, CTries
    <3> QED  BY <1>3, <3>2 DEF Collection!Next, Follows
  <2> QED  BY <2>3, <2>4
<1>11. CASE b.status \in Retry /\ c.status = "queued" /\ c.manual = b.manual /\ c.tries = b.tries
  <2>1. CState[r] = "over" /\ Abstract(c) = "waiting" /\ CTries[r] < MaxAttempts
    BY <1>4, <1>11 DEF Abstract, ChildOK
  <2>2. UNCHANGED <<CManual, CTries>>
    BY <1>3, <1>4, <1>11 DEF CManual, CTries
  <2>3. Collection!Again(r)
    BY <1>3, <2>1, <2>2 DEF Collection!Again, Collection!Move, CState, CManual, CTries
  <2> QED  BY <1>3, <2>3 DEF Collection!Next, Follows
<1> QED  BY <1>5, <1>6, <1>7, <1>8, <1>9, <1>10, <1>11 DEF Allowed

\* The transactions on one run.
LEMMA Transformers ==
    ASSUME NEW b, ChildOK(b)
    PROVE  /\ \A m \in BOOLEAN : ChildOK(Enqueued(b, m)) /\ Allowed(b, Enqueued(b, m))
           /\ CanPutBack(b) => ChildOK(Again(b)) /\ Allowed(b, Again(b))
           /\ ChildOK(Promoted(b)) /\ Allowed(b, Promoted(b))
           /\ b.status \in Retry => ChildOK(Revived(b)) /\ Allowed(b, Revived(b))
           /\ ChildOK(ChildRecovered(b)) /\ Allowed(b, ChildRecovered(b))
           /\ b.status = "queued" /\ ChildFree => ChildOK(Started(b)) /\ Allowed(b, Started(b))
           /\ ChildOK(Off(b))
<1>1. /\ b \in Child /\ b.tries \in 0..MaxAttempts /\ b.manual \in BOOLEAN
      /\ b.status = "queued" => b.tries < MaxAttempts
      /\ b.status = "none" => b.tries = 0
  BY DEF ChildOK, Child
<1>2. 0 \in 0..MaxAttempts /\ 0 < MaxAttempts
  BY DEF MaxAttempts
<1>3. ChildOK(Promoted(b)) /\ Allowed(b, Promoted(b))
  <2>1. CASE b.status \in {"queued", "running"}
    <3> DEFINE c == [b EXCEPT !.manual = TRUE, !.cancel = FALSE, !.ready = TRUE]
    <3>1. c \in Child /\ c.status = b.status /\ c.manual = TRUE /\ c.tries = b.tries
      BY <1>1 DEF Child
    <3>2. Promoted(b) = c
      BY <2>1 DEF Promoted
    <3> HIDE DEF c
    <3> QED  BY <1>1, <2>1, <3>1, <3>2 DEF ChildOK, Allowed
  <2>2. CASE b.status \notin {"queued", "running"}
    BY <2>2 DEF Promoted, Allowed
  <2> QED  BY <2>1, <2>2
<1>4. b.status \in Retry => ChildOK(Revived(b)) /\ Allowed(b, Revived(b))
  <2> DEFINE c == Revived(b)
  <2>1. c \in Child
    BY <1>1, <1>2 DEF Child, Revived
  <2>2. c.status = "queued" /\ c.manual = TRUE /\ c.tries = 0
    BY <1>1 DEF Child, Revived
  <2> HIDE DEF c
  <2>3. b.status \in Retry => ChildOK(c) /\ Allowed(b, c)
    BY <1>2, <2>1, <2>2 DEF ChildOK, Allowed
  <2> QED  BY <2>3 DEF c
<1>5. ASSUME NEW m \in BOOLEAN
      PROVE  ChildOK(Enqueued(b, m)) /\ Allowed(b, Enqueued(b, m))
  <2>1. CASE b.status = "none"
    <3> DEFINE c == [b EXCEPT !.status = "queued", !.manual = m]
    <3>1. c \in Child /\ c.status = "queued" /\ c.tries = b.tries
      BY <1>1 DEF Child
    <3>2. Enqueued(b, m) = c
      BY <2>1 DEF Enqueued
    <3> HIDE DEF c
    <3> QED  BY <1>1, <1>2, <2>1, <3>1, <3>2 DEF ChildOK, Allowed
  <2>2. CASE b.status # "none"
    BY <2>2 DEF Enqueued, Allowed
  <2> QED  BY <2>1, <2>2
<1>6. CanPutBack(b) => ChildOK(Again(b)) /\ Allowed(b, Again(b))
  <2> SUFFICES ASSUME CanPutBack(b)
               PROVE  ChildOK(Again(b)) /\ Allowed(b, Again(b))
    OBVIOUS
  <2> DEFINE c == Again(b)
  <2>1. c \in Child /\ c.status = "queued" /\ c.manual = b.manual /\ c.tries = b.tries
    BY <1>1 DEF Again, Child
  <2> HIDE DEF c
  <2>2. ChildOK(c) /\ Allowed(b, c)
    BY <1>1, <2>1 DEF CanPutBack, ChildOK, Allowed
  <2> QED  BY <2>2 DEF c
<1>7. ChildOK(ChildRecovered(b)) /\ Allowed(b, ChildRecovered(b))
  <2>1. CASE ChildExpired(b)
    <3> DEFINE s == CASE b.cancel -> "cancelled"
                      [] ~b.cancel /\ b.tries >= MaxAttempts -> "failed"
                      [] OTHER -> "queued"
               c == [b EXCEPT !.status = s, !.ready = FALSE]
    <3>1. s \in {"cancelled", "failed", "queued"} /\ (s = "queued" => ~(b.tries >= MaxAttempts))
      BY <1>1 DEF Child
    <3>2. ChildRecovered(b) = c
      BY <2>1 DEF ChildRecovered
    <3> HIDE DEF s
    <3>3. c \in Child /\ c.status = s /\ c.manual = b.manual /\ c.tries = b.tries
      BY <1>1, <3>1 DEF Child
    <3>4. s = "queued" => b.tries < MaxAttempts
      BY <1>1, <3>1 DEF MaxAttempts
    <3> HIDE DEF c
    <3> QED  BY <2>1, <3>1, <3>2, <3>3, <3>4 DEF ChildOK, Allowed, ChildExpired
  <2>2. CASE ~ChildExpired(b)
    BY <2>2 DEF ChildRecovered, Allowed
  <2> QED  BY <2>1, <2>2
<1>8. b.status = "queued" /\ ChildFree => ChildOK(Started(b)) /\ Allowed(b, Started(b))
  <2> SUFFICES ASSUME b.status = "queued", ChildFree
               PROVE  ChildOK(Started(b)) /\ Allowed(b, Started(b))
    OBVIOUS
  <2> DEFINE n == b.tries + 1
             c == [b EXCEPT !.status = "running", !.tries = n, !.live = TRUE]
  <2>1. n \in 0..MaxAttempts
    BY <1>1 DEF MaxAttempts
  <2>2. Started(b) = c
    BY DEF Started
  <2> HIDE DEF n
  <2>3. c \in Child /\ c.status = "running" /\ c.manual = b.manual /\ c.tries = n
    BY <1>1, <2>1 DEF Child
  <2> HIDE DEF c
  <2> QED  BY <2>2, <2>3 DEF ChildOK, Allowed, n
<1>9. ChildOK(Off(b))
  <2>1. CASE ~b.manual /\ b.status = "queued"
    <3> DEFINE c == [b EXCEPT !.status = "cancelled"]
    <3>1. c \in Child /\ c.status = "cancelled"
      BY <1>1 DEF Child
    <3>2. Off(b) = c
      BY <2>1 DEF Off
    <3> HIDE DEF c
    <3> QED  BY <3>1, <3>2 DEF ChildOK
  <2>2. CASE ~b.manual /\ b.status = "running"
    <3> DEFINE c == [b EXCEPT !.cancel = TRUE]
    <3>1. c \in Child /\ c.status = b.status
      BY <1>1 DEF Child
    <3>2. Off(b) = c
      BY <2>2 DEF Off
    <3> HIDE DEF c
    <3> QED  BY <2>2, <3>1, <3>2 DEF ChildOK
  <2>3. CASE b.manual \/ b.status \notin {"queued", "running"}
    BY <1>1, <2>3 DEF Off
  <2> QED  BY <2>1, <2>2, <2>3
<1> QED  BY <1>3, <1>4, <1>5, <1>6, <1>7, <1>8, <1>9

\* Withdrawing the automatic runs that wait, when the switch was read as off.
LEMMA OffFollows ==
    ASSUME Children, ChildrenOff
    PROVE  Follows
<1> DEFINE S == {r \in Runs : child[r].status = "queued" /\ ~child[r].manual}
<1>1. \A r \in Runs : child[r] \in Child /\ child[r].manual \in BOOLEAN /\ ChildOK(child[r])
  BY DEF Children, Child
<1>2. ASSUME NEW b \in Child
      PROVE  /\ Off(b).manual = b.manual /\ Off(b).tries = b.tries
             /\ Off(b).status = IF b.status = "queued" /\ ~b.manual THEN "cancelled" ELSE b.status
  <2>1. b.manual \in BOOLEAN
    BY DEF Child
  <2> QED  BY <2>1 DEF Off, Child
<1>3. \A r \in Runs : child'[r] = Off(child[r])
  BY DEF ChildrenOff
<1>4. Children'
  <2>1. child' = [r \in Runs |-> child'[r]]
    BY DEF ChildrenOff
  <2>2. \A r \in Runs : ChildOK(child'[r])
    BY <1>1, <1>3, Transformers
  <2>3. \A r \in Runs : child'[r].status = "running" => child[r].status = "running"
    BY <1>1, <1>2, <1>3
  <2> QED  BY <2>1, <2>2, <2>3, ManyChildren
<1>5. UNCHANGED CManual
  <2>1. \A r \in Runs : child'[r].manual = child[r].manual
    BY <1>1, <1>2, <1>3
  <2> QED  BY <2>1 DEF CManual
<1>6. UNCHANGED CTries
  <2>1. \A r \in Runs : child'[r].tries = child[r].tries
    BY <1>1, <1>2, <1>3
  <2> QED  BY <2>1 DEF CTries
<1>7. CState' = [r \in Runs |-> IF r \in S THEN "over" ELSE CState[r]]
  <2>1. \A r \in Runs : Abstract(child'[r]) = IF r \in S THEN "over" ELSE Abstract(child[r])
    BY <1>1, <1>2, <1>3 DEF Abstract
  <2> HIDE DEF S
  <2> QED  BY <2>1 DEF CState
<1>8. S \in SUBSET {r \in Runs : CState[r] = "waiting" /\ ~CManual[r]}
  BY DEF CState, CManual, Abstract
<1> HIDE DEF S
<1>9. Collection!Withdraw
  BY <1>5, <1>6, <1>7, <1>8 DEF Collection!Withdraw, CState, CManual, CTries
<1> QED  BY <1>4, <1>9 DEF Collection!Next, Follows

\* Recovering the runs whose lease ran out: at most one runs.
LEMMA RecoverFollows ==
    ASSUME Children, RecoverChildren
    PROVE  Follows
<1>1. CASE \A r \in Runs : ~ChildExpired(child[r])
  <2>1. \A r \in Runs : child'[r] = child[r]
    BY <1>1 DEF RecoverChildren, ChildRecovered
  <2>2. UNCHANGED child
    BY <2>1 DEF RecoverChildren, Children
  <2> QED  BY <2>2, SameChildren
<1>2. ASSUME NEW r \in Runs, ChildExpired(child[r])
      PROVE  Follows
  <2> DEFINE c == ChildRecovered(child[r])
  <2>1. \A q \in Runs : q # r => ~ChildExpired(child[q])
    BY <1>2 DEF ChildExpired, Children
  <2>2. \A q \in Runs : child'[q] = IF q = r THEN c ELSE child[q]
    BY <2>1 DEF RecoverChildren, ChildRecovered
  <2> HIDE DEF c
  <2>3. child' = [child EXCEPT ![r] = c]
    BY <2>2 DEF RecoverChildren, Children
  <2>4. ChildOK(child[r])
    BY DEF Children
  <2>5. ChildOK(c) /\ Allowed(child[r], c)
    BY <2>4, Transformers DEF c
  <2> QED  BY <2>3, <2>5, OneFollows
<1> QED  BY <1>1, <1>2

\* An execution ends.
LEMMA EndFollows ==
    ASSUME Children, NEW r \in Runs, child[r].status = "running",
           NEW c \in Ended(child[r]), child' = [child EXCEPT ![r] = c]
    PROVE  /\ Follows /\ c.manual = child[r].manual
           /\ c.status \in {"completed"} \union Retry
<1> DEFINE b == child[r]
<1>1. b \in Child /\ b.tries \in 0..MaxAttempts /\ b.snap \in BOOLEAN
  BY DEF Children, Child
<1>2. /\ c \in Child /\ c.status \in {"completed"} \union Retry
      /\ c.manual = b.manual /\ c.tries = b.tries
  BY <1>1 DEF Ended, Child
<1>3. ChildOK(c) /\ Allowed(b, c)
  BY <1>2 DEF ChildOK, Allowed
<1> QED  BY <1>2, <1>3, OneFollows

\* The retry of an executor puts an ended run back, or leaves it as it is.
LEMMA PutFollows ==
    ASSUME Children, NEW r \in Runs,
           child' = [child EXCEPT ![r] = IF CanPutBack(@) THEN Again(@) ELSE @]
    PROVE  /\ Follows /\ child'[r].manual = child[r].manual
           /\ Reached(child[r]) => Reached(child'[r])
<1> DEFINE b == child[r]
<1>1. b \in Child /\ ChildOK(b)
  BY DEF Children
<1>2. CASE CanPutBack(b)
  <2> DEFINE c == Again(b)
  <2>1. ChildOK(c) /\ Allowed(b, c)
    BY <1>1, <1>2, Transformers
  <2>2. c.manual = b.manual
    BY <1>1 DEF Again, Child
  <2>3. child' = [child EXCEPT ![r] = c]
    BY <1>2
  <2>4. b.status \notin {"completed", "none"}
    BY <1>2 DEF CanPutBack
  <2> HIDE DEF c
  <2>5. child'[r] = c
    BY <2>3 DEF Children
  <2> QED  BY <2>1, <2>2, <2>3, <2>4, <2>5, OneFollows DEF Reached
<1>3. CASE ~CanPutBack(b)
  <2>1. child' = child
    BY <1>3 DEF Children
  <2> QED  BY <2>1, SameChildren
<1> QED  BY <1>2, <1>3

-----------------------------------------------------------------------------
(***************************************************************************)
(* The processes: who holds the lock, and who is where its code is.        *)
(***************************************************************************)

\* A row stays in its slot.
LEMMA PlacedKept ==
    ASSUME Table, Placed, [UpdateNext]_<<upd, rows>>
    PROVE  Placed'
<1>1. \A i \in Ids : upd[i] \in Update
  BY DEF Table
<1>2. ASSUME NEW slot \in Slots, NEW source, NEW day, Enqueue(slot, source, day)
      PROVE  Placed'
  <2>1. CASE /\ rows + 1 \in Ids
             /\ upd' = [upd EXCEPT ![rows + 1] = NewUpdate("queued", slot, source, day)]
    <3>1. NewUpdate("queued", slot, source, day).slot = slot
      BY DEF NewUpdate
    <3> QED  BY <2>1, <3>1 DEF Placed, Table
  <2>2. ASSUME NEW i \in Ids, upd' = [upd EXCEPT ![i].source = "manual"]
        PROVE  Placed'
    <3>1. \A j \in Ids : upd'[j].slot = upd[j].slot /\ upd'[j].status = upd[j].status
      BY <1>1, <2>2 DEF Table, Update
    <3> QED  BY <3>1 DEF Placed
  <2>3. CASE UNCHANGED upd
    BY <2>3 DEF Placed
  <2>4. \A i \in Existing(slot, day) : i \in Ids
    BY DEF Existing, OpenIn, KeyedIn
  <2> QED  BY <1>2, <2>1, <2>2, <2>3, <2>4 DEF Enqueue
<1>3. ASSUME \A i \in Ids : upd'[i].slot = upd[i].slot,
             \A i \in Ids : upd'[i].status # "absent" => upd[i].status # "absent"
      PROVE  Placed'
  BY <1>3 DEF Placed
<1>4. ASSUME NEW i \in Ids, NEW w \in Workers, NEW manualOnly \in BOOLEAN, Claim(i, w, manualOnly)
      PROVE  Placed'
  <2>1. upd[i].status = "queued" /\ \A j \in Ids : upd'[j].slot = upd[j].slot
    BY <1>1, <1>4 DEF Claim, Eligible, Table, Update
  <2>2. \A j \in Ids : j # i => upd'[j] = upd[j]
    BY <1>4 DEF Claim, Table
  <2> QED  BY <1>3, <2>1, <2>2
<1>5. ASSUME NEW i \in Ids, NEW w \in Workers, NEW status, NEW linked, Write(i, w, status, linked)
      PROVE  Placed'
  <2>1. upd[i].status = "running" /\ \A j \in Ids : upd'[j].slot = upd[j].slot
    BY <1>1, <1>5 DEF Write, Owned, Table, Update
  <2>2. \A j \in Ids : j # i => upd'[j] = upd[j]
    BY <1>5 DEF Write, Table
  <2> QED  BY <1>3, <2>1, <2>2
<1>6. ASSUME NEW i \in Ids, Lapse(i)
      PROVE  Placed'
  <2>1. \A j \in Ids : upd'[j].slot = upd[j].slot /\ upd'[j].status = upd[j].status
    BY <1>1, <1>6 DEF Lapse, Table, Update
  <2> QED  BY <1>3, <2>1
<1>7. CASE RecoverExpired
  <2>1. \A r \in Update : Recovered(r).slot = r.slot
    BY DEF Recovered, Update
  <2>2. \A i \in Ids : upd'[i] = IF Lapsed(upd[i]) THEN Recovered(upd[i]) ELSE upd[i]
    BY <1>7 DEF RecoverExpired
  <2>3. \A i \in Ids : upd'[i].slot = upd[i].slot
    BY <1>1, <2>1, <2>2
  <2>4. \A i \in Ids : upd'[i].status # "absent" => upd[i].status # "absent"
    BY <2>2 DEF Lapsed
  <2> QED  BY <1>3, <2>3, <2>4
<1>8. CASE CancelAutomatic
  <2>1. \A r \in Update : Withdrawn(r).slot = r.slot /\ (r.status = "absent" => Withdrawn(r) = r)
    BY DEF Withdrawn, Update
  <2>2. \A i \in Ids : upd'[i] = Withdrawn(upd[i])
    BY <1>8 DEF CancelAutomatic
  <2> QED  BY <1>1, <1>3, <2>1, <2>2
<1>9. CASE UNCHANGED <<upd, rows>>
  BY <1>9 DEF Placed
<1> QED
  BY <1>2, <1>4, <1>5, <1>6, <1>7, <1>8, <1>9, SlotsAssumption DEF UpdateNext, Renew

\* What every step does: it keeps the invariant, and is a step of both queues or of none.
StepOK == SInv' /\ [UpdateNext]_<<upd, rows>> /\ Follows

\* A row that is there stays there.
LEMMA PresentKept ==
    ASSUME Table, [UpdateNext]_<<upd, rows>>
    PROVE  \A i \in Ids : upd[i].status # "absent" => upd'[i].status # "absent"
<1>1. Table'
  BY NextTable
<1>2. rows \in Nat /\ rows' \in Nat /\ \A i \in Ids : i \in Nat
  BY <1>1, IdsAssumption DEF Table
<1>3. rows' = rows \/ rows' = rows + 1
  BY DEF UpdateNext, Enqueue, Claim, Write, Renew, Lapse, RecoverExpired, CancelAutomatic
<1> QED  BY <1>1, <1>2, <1>3 DEF Table

\* The parts of the invariant that a step has to keep.
LEMMA Assemble ==
    ASSUME SInv, [UpdateNext]_<<upd, rows>>, Follows, Around', Guarded',
           UNCHANGED client \/ Requests',
           proc' \in [Workers -> Proc], \A w \in Workers : Serves(w)'
    PROVE  StepOK
<1>1. Requests'
  BY PresentKept DEF SInv, Requests, Pending
<1> QED  BY <1>1, NextTable, PlacedKept DEF SInv, Follows, StepOK

\* What others may do to an update that is executed and to its run.
RowBorne(u, v, asking) ==
    /\ v.status = u.status /\ v.worker = u.worker /\ v.slot = u.slot /\ v.linked = u.linked
    /\ v.source = "manual" => u.source = "manual" \/ (u.linked => asking)
ChildBorne(b, c) ==
    /\ b.manual => c.manual
    /\ b.status \in {"running", "completed", "none"} => c.status = b.status
    /\ b.status \in Retry => c.manual \/ c.status \in Retry

Calm == /\ \A i \in Ids : upd[i].status = "running" /\ upd[i].slot \in Slots =>
              /\ RowBorne(upd[i], upd'[i], i \in Sought')
              /\ i \in Sought => i \in Sought' \/ Reached(child'[RunOf[upd[i].slot]])
        /\ \A r \in Runs : ChildBorne(child[r], child'[r])

\* Fits bears it.
LEMMA FitsBears ==
    ASSUME NEW p, NEW q, NEW w, NEW u, NEW v, NEW b, NEW c, NEW before, NEW after,
           Fits(p, w, u, b, before), RowBorne(u, v, after), ChildBorne(b, c),
           before => after \/ Reached(c),
           q.pc = p.pc, q.next = p.next, q.etf = p.etf
    PROVE  Fits(q, w, v, c, after)
<1>1. Place(q) = Place(p) /\ (Place(p) \in Promised => Place(p) \in Linked)
  BY DEF Place, Promised, Linked
<1>2. Reached(b) => Reached(c)
  BY DEF Reached, ChildBorne
<1>3. Place(q) \in Promised /\ v.source = "manual" =>
          Reached(c) \/ after \/ (c.status \in Retry /\ q.pc \notin Retrying)
  <2> SUFFICES ASSUME Place(q) \in Promised, v.source = "manual", ~Reached(c), ~after
               PROVE  c.status \in Retry /\ q.pc \notin Retrying
    OBVIOUS
  <2>1. u.linked /\ u.source = "manual"
    BY <1>1 DEF Fits, RowBorne
  <2>2. b.status \in Retry /\ p.pc \notin Retrying
    BY <1>1, <1>2, <2>1 DEF Fits
  <2>3. c.manual \/ c.status \in Retry
    BY <2>2 DEF ChildBorne
  <2> QED  BY <2>2, <2>3 DEF Reached
<1>4. Place(p) \in Linked => v.linked
  BY DEF Fits, RowBorne
<1>5. /\ p.pc = "childrun" => c.status = "running"
      /\ Place(p) \in Told /\ p.etf = "completed" => c.status = "completed"
  BY DEF Fits, ChildBorne
<1> QED  BY <1>1, <1>3, <1>4, <1>5 DEF Fits, RowBorne

\* A process whose place is not touched is still where its code is.
LEMMA CalmServes ==
    ASSUME SInv, Calm, NEW w \in Workers,
           proc'[w].pc = proc[w].pc, proc'[w].next = proc[w].next,
           proc'[w].etf = proc[w].etf, proc'[w].task = proc[w].task
    PROVE  Serves(w)'
<1> DEFINE i == proc[w].task
           r == RunOf[upd[i].slot]
<1>1. ASSUME Working(w)
      PROVE  i \in Ids /\ Fits(proc'[w], w, upd'[i], child'[r], i \in Sought') /\ upd'[i].slot = upd[i].slot
  <2>1. i \in Ids /\ Fits(proc[w], w, upd[i], child[r], i \in Sought) /\ upd[i].status = "running"
    BY <1>1 DEF SInv, Serves, Fits, Mine
  <2>2. upd[i].slot \in Slots /\ r \in Runs
    BY <2>1, RunsAssumption DEF SInv, Placed
  <2>3. /\ RowBorne(upd[i], upd'[i], i \in Sought') /\ ChildBorne(child[r], child'[r])
        /\ i \in Sought => i \in Sought' \/ Reached(child'[r])
    BY <2>1, <2>2 DEF Calm
  <2> HIDE DEF i, r
  <2> QED  BY <2>1, <2>3, FitsBears DEF RowBorne
<1>2. Working(w)' => proc'[w].task \in Ids /\ Fits(proc'[w], w, upd'[proc'[w].task], child'[Mine(w)'], proc'[w].task \in Sought')
  BY <1>1 DEF Working, Mine
<1>3. ASSUME proc[w].pc \in Singles
      PROVE  /\ proc'[w].next \in Runs
             /\ proc[w].pc = "legacyrun" => child'[proc'[w].next].status = "running"
  BY <1>3 DEF SInv, Serves, Calm, ChildBorne
<1> QED  BY <1>2, <1>3 DEF Serves, Mine, Singles

\* A process moves, and takes or frees the lock as its place says.
LEMMA Moved ==
    ASSUME SInv, NEW w \in Workers, NEW p \in Proc, proc' = [proc EXCEPT ![w] = p],
           p.pc \in Holding => lock \in {None, w},
           lock' = IF p.pc \in Holding THEN w ELSE IF lock = w THEN None ELSE lock
    PROVE  /\ Guarded' /\ proc' \in [Workers -> Proc] /\ proc'[w] = p
           /\ \A v \in Workers : v # w => proc'[v] = proc[v]
<1>1. /\ proc' \in [Workers -> Proc] /\ proc'[w] = p
      /\ \A v \in Workers : v # w => proc'[v] = proc[v]
  BY DEF SInv
<1>2. lock' \in Workers \union {None}
  BY DEF SInv, Guarded
<1>3. \A v \in Workers : proc'[v].pc \in Holding <=> lock' = v
  <2> HIDE DEF Holding
  <2> QED  BY <1>1, NullAssumption DEF SInv, Guarded
<1> QED  BY <1>1, <1>2, <1>3 DEF Guarded

\* Whoever does not hold the lock executes nothing.
LEMMA Idle ==
    ASSUME NEW w \in Workers, proc'[w].pc \notin Executing, proc'[w].pc \notin Singles
    PROVE  Serves(w)'
BY DEF Serves, Working, Singles

\* A step of a process while no other holds the lock.
LEMMA Alone ==
    ASSUME SInv, NEW w \in Workers, lock \in {None, w},
           NEW p \in Proc, proc' = [proc EXCEPT ![w] = p],
           lock' = IF p.pc \in Holding THEN w ELSE None,
           [UpdateNext]_<<upd, rows>>, Follows, UNCHANGED <<environment, client>>,
           Serves(w)'
    PROVE  StepOK
<1>1. /\ Guarded' /\ proc' \in [Workers -> Proc] /\ proc'[w] = p
      /\ \A v \in Workers : v # w => proc'[v] = proc[v]
  <2>1. lock' = IF p.pc \in Holding THEN w ELSE IF lock = w THEN None ELSE lock
    OBVIOUS
  <2>2. p.pc \in Holding => lock \in {None, w}
    OBVIOUS
  <2> HIDE DEF Holding
  <2> QED  BY <2>1, <2>2, Moved
<1>2. \A v \in Workers : v # w => Serves(v)'
  <2> SUFFICES ASSUME NEW v \in Workers, v # w
               PROVE  Serves(v)'
    OBVIOUS
  <2>1. proc[v].pc \notin Holding
    BY NullAssumption DEF SInv, Guarded
  <2> QED  BY <1>1, <2>1, Idle DEF Holding
<1>3. Around'
  BY DEF SInv, Around, environment
<1>4. \A v \in Workers : Serves(v)'
  BY <1>2
<1> QED  BY <1>1, <1>3, <1>4, Assemble

\* A step of a process without the lock, or of nobody, that the others bear.
LEMMA Beside ==
    ASSUME SInv, NEW w \in Workers, NEW p \in Proc, proc' = [proc EXCEPT ![w] = p],
           p.pc \notin Holding, lock' = IF lock = w THEN None ELSE lock,
           [UpdateNext]_<<upd, rows>>, Follows, Calm, UNCHANGED <<environment, client>>
    PROVE  StepOK
<1>1. /\ Guarded' /\ proc' \in [Workers -> Proc] /\ proc'[w] = p
      /\ \A v \in Workers : v # w => proc'[v] = proc[v]
  BY Moved
<1>2. \A v \in Workers : v # w => Serves(v)'
  BY <1>1, CalmServes
<1>3. Serves(w)'
  BY <1>1, Idle DEF Holding
<1>4. Around'
  BY DEF SInv, Around, environment
<1>5. \A v \in Workers : Serves(v)'
  BY <1>2, <1>3
<1> QED  BY <1>1, <1>4, <1>5, Assemble

\* A step that moves no process and that the processes bear.
LEMMA Untouched ==
    ASSUME SInv, UNCHANGED <<lock, proc>>, [UpdateNext]_<<upd, rows>>, Follows, Calm, Around',
           UNCHANGED client \/ Requests'
    PROVE  StepOK
<1>1. Guarded' /\ proc' \in [Workers -> Proc]
  BY DEF SInv, Guarded
<1>2. \A v \in Workers : Serves(v)'
  BY CalmServes
<1> QED  BY <1>1, <1>2, Assemble

\* What is calm.
LEMMA CalmRuns ==
    ASSUME SInv, UNCHANGED <<upd, client>>, \A r \in Runs : ChildBorne(child[r], child'[r])
    PROVE  Calm
<1>1. Sought' = Sought
  BY DEF Sought, Pending
<1>2. \A i \in Ids : RowBorne(upd[i], upd'[i], i \in Sought')
  BY DEF RowBorne
<1> QED  BY <1>1, <1>2 DEF Calm

\* A step that leaves alone what a running row says is calm.
LEMMA CalmRows ==
    ASSUME SInv, UNCHANGED <<child, client>>,
           \A i \in Ids : upd[i].status = "running" =>
               /\ upd'[i].status = upd[i].status /\ upd'[i].worker = upd[i].worker
               /\ upd'[i].slot = upd[i].slot /\ upd'[i].linked = upd[i].linked
               /\ upd'[i].source = upd[i].source
    PROVE  Calm
<1>1. Sought' = Sought
  BY DEF Sought, Pending
<1>2. \A r \in Runs : ChildBorne(child[r], child'[r])
  BY DEF ChildBorne
<1>3. \A i \in Ids : upd[i].status = "running" => RowBorne(upd[i], upd'[i], i \in Sought')
  BY DEF RowBorne
<1> QED  BY <1>1, <1>2, <1>3 DEF Calm

\* Withdrawing automatic runs is calm: a manual one stays, one that runs goes on.
LEMMA OffIsCalm ==
    ASSUME SInv, ChildrenOff, UNCHANGED <<upd, client>>
    PROVE  Calm
<1>1. \A r \in Runs : child'[r] = Off(child[r]) /\ child[r] \in Child
  BY DEF SInv, Children, ChildrenOff
<1>2. ASSUME NEW b \in Child
      PROVE  ChildBorne(b, Off(b))
  <2>1. b.manual \in BOOLEAN
    BY DEF Child
  <2>2. /\ Off(b).manual = b.manual
        /\ Off(b).status = IF b.status = "queued" /\ ~b.manual THEN "cancelled" ELSE b.status
    BY <2>1 DEF Off, Child
  <2> QED  BY <2>1, <2>2 DEF ChildBorne
<1> QED  BY <1>1, <1>2, CalmRuns

-----------------------------------------------------------------------------
(***************************************************************************)
(* People, time and processes that hold no lock.                           *)
(***************************************************************************)

\* A heartbeat renews the lease of the owner.
LEMMA HeartbeatKeeps ==
    ASSUME SInv, NEW w \in Workers, Heartbeat(w)
    PROVE  StepOK
<1> DEFINE i == proc[w].task
<1>1. i \in Ids /\ Renew(i, w) /\ UNCHANGED <<environment, child, lock, proc, client>>
  BY DEF Heartbeat, SInv, Serves
<1> HIDE DEF i
<1>2. upd[i] \in Update /\ upd[i].linked \in BOOLEAN
  BY <1>1 DEF SInv, Table, Update
<1>3. UpdateNext
  BY <1>1 DEF UpdateNext
<1>4. \A j \in Ids : /\ upd'[j].status = upd[j].status /\ upd'[j].worker = upd[j].worker
                     /\ upd'[j].slot = upd[j].slot /\ upd'[j].linked = upd[j].linked
                     /\ upd'[j].source = upd[j].source
  BY <1>1, <1>2 DEF Renew, Write, Owned, SInv, Table, Update
<1>5. Calm
  BY <1>1, <1>4, CalmRows
<1>6. Around' /\ Follows
  BY <1>1, SameChildren DEF SInv, Around, environment
<1> QED  BY <1>1, <1>3, <1>5, <1>6, Untouched

\* The leases of updates and of runs lapse, delays end, the switch moves.
LEMMA TimeKeeps ==
    ASSUME SInv, Time \/ Toggle
    PROVE  StepOK
<1>1. CASE Toggle
  <2>1. Calm
    BY <1>1, CalmRows DEF Toggle, queue
  <2>2. Follows
    BY <1>1, SameChildren DEF Toggle, SInv
  <2>3. Around' /\ UNCHANGED <<lock, proc, client>> /\ UNCHANGED <<upd, rows>>
    BY <1>1 DEF Toggle, SInv, Around, queue
  <2> QED  BY <2>1, <2>2, <2>3, Untouched
<1>2. ASSUME NEW i \in Ids, LeaseLapses(i)
      PROVE  StepOK
  <2>1. UpdateNext
    BY <1>2 DEF LeaseLapses, UpdateNext
  <2>2. upd[i] \in Update
    BY DEF SInv, Table
  <2>3. \A j \in Ids : /\ upd'[j].status = upd[j].status /\ upd'[j].worker = upd[j].worker
                       /\ upd'[j].slot = upd[j].slot /\ upd'[j].linked = upd[j].linked
                       /\ upd'[j].source = upd[j].source
    BY <1>2, <2>2 DEF LeaseLapses, Lapse, SInv, Table, Update
  <2>4. Calm
    BY <1>2, <2>3, CalmRows DEF LeaseLapses
  <2>5. Around' /\ Follows /\ UNCHANGED <<lock, proc, client>>
    BY <1>2, SameChildren DEF LeaseLapses, SInv, Around, environment
  <2> QED  BY <2>1, <2>4, <2>5, Untouched
<1>3. ASSUME NEW r \in Runs, NEW c, child' = [child EXCEPT ![r] = c],
             c \in Child, c.status = child[r].status, c.manual = child[r].manual,
             c.tries = child[r].tries,
             UNCHANGED <<queue, environment, lock, proc, client, asked>>
      PROVE  StepOK
  <2>1. \A q \in Runs : child'[q].status = child[q].status /\ child'[q].manual = child[q].manual
    BY <1>3 DEF SInv, Children
  <2>2. Calm
    BY <1>3, <2>1, CalmRuns DEF ChildBorne, queue
  <2>3. ChildOK(c)
    BY <1>3 DEF ChildOK, SInv, Children
  <2>4. Follows
    BY <1>3, <2>3, OneFollows DEF SInv, Allowed
  <2>5. Around' /\ UNCHANGED <<upd, rows>>
    BY <1>3 DEF SInv, Around, environment, queue
  <2> QED  BY <1>3, <2>2, <2>4, <2>5, Untouched
<1>4. ASSUME NEW r \in Runs, ChildLapses(r)
      PROVE  StepOK
  <2> DEFINE c == [child[r] EXCEPT !.live = FALSE]
  <2>1. child[r] \in Child
    BY DEF SInv, Children
  <2>2. /\ c \in Child /\ c.status = child[r].status /\ c.manual = child[r].manual
        /\ c.tries = child[r].tries
    BY <2>1 DEF Child
  <2>3. child' = [child EXCEPT ![r] = c] /\ UNCHANGED <<queue, environment, lock, proc, client, asked>>
    BY <1>4 DEF ChildLapses
  <2> HIDE DEF c
  <2> QED  BY <1>3, <2>2, <2>3
<1>5. ASSUME NEW r \in Runs, DelayOver(r)
      PROVE  StepOK
  <2> DEFINE c == [child[r] EXCEPT !.ready = TRUE]
  <2>1. child[r] \in Child
    BY DEF SInv, Children
  <2>2. /\ c \in Child /\ c.status = child[r].status /\ c.manual = child[r].manual
        /\ c.tries = child[r].tries
    BY <2>1 DEF Child
  <2>3. child' = [child EXCEPT ![r] = c] /\ UNCHANGED <<queue, environment, lock, proc, client, asked>>
    BY <1>5 DEF DelayOver
  <2> HIDE DEF c
  <2> QED  BY <1>3, <2>2, <2>3
<1> QED  BY <1>1, <1>2, <1>4, <1>5 DEF Time

\* A manual request of an update: a takeover of one that runs and shows its run goes on to
\* look at that run.
LEMMA AskKeeps ==
    ASSUME SInv, NEW c \in Clients, Ask(c)
    PROVE  StepOK
<1>1. PICK slot \in Slots :
         /\ Enqueue(slot, "manual", None)
         /\ LET i == CHOOSE i \in Ids : upd'[i].slot = slot /\ upd'[i].status \in Open
            IN client' = [client EXCEPT ![c] =
                   [pc |-> IF upd[i].linked THEN "look" ELSE "done", task |-> i]]
  BY DEF Ask
<1> DEFINE i == CHOOSE i \in Ids : upd'[i].slot = slot /\ upd'[i].status \in Open
           next == [pc |-> IF upd[i].linked THEN "look" ELSE "done", task |-> i]
<1>2. client' = [client EXCEPT ![c] = next] /\ client[c].pc = "idle"
  BY <1>1 DEF Ask
<1>3. UpdateNext /\ Table'
  BY <1>1, NextTable DEF UpdateNext, SInv
<1>4. \E j \in Ids : upd'[j].slot = slot /\ upd'[j].status \in Open
  <2>1. CASE rows + 1 \in Ids /\ upd' = [upd EXCEPT ![rows + 1] = NewUpdate("queued", slot, "manual", None)]
    BY <2>1 DEF NewUpdate, Open, SInv, Table
  <2>2. ASSUME NEW j \in OpenIn(slot), upd' = [upd EXCEPT ![j].source = "manual"]
        PROVE  \E k \in Ids : upd'[k].slot = slot /\ upd'[k].status \in Open
    <3>1. j \in Ids /\ upd[j] \in Update /\ upd[j].slot = slot /\ upd[j].status \in Open
      BY <2>2 DEF OpenIn, SInv, Table
    <3>2. upd'[j].slot = slot /\ upd'[j].status = upd[j].status
      BY <2>2, <3>1 DEF SInv, Table, Update
    <3> QED  BY <3>1, <3>2
  <2>3. Existing(slot, None) = OpenIn(slot) \/ Existing(slot, None) = {}
    BY DEF Existing, KeyedIn
  <2>4. \A j \in OpenIn(slot) : upd[j].status \in Open
    BY DEF OpenIn
  <2> QED  BY <1>1, <2>1, <2>2, <2>3, <2>4 DEF Enqueue
<1>5. i \in Ids /\ upd'[i].slot = slot /\ upd'[i].status \in Open
  BY <1>4
<1>6. next \in Client /\ next.task = i /\ next.pc \in {"look", "done"}
      /\ (upd[i].linked => next.pc = "look")
  BY <1>5 DEF Client
<1> HIDE DEF next, i
<1>7. /\ client' \in [Clients -> Client] /\ client'[c] = next
      /\ \A d \in Clients : d # c => client'[d] = client[d]
  BY <1>2, <1>6 DEF SInv, Around
<1>8. Sought \subseteq Sought' /\ Around' /\ (upd[i].linked => i \in Sought')
  BY <1>2, <1>5, <1>6, <1>7 DEF Sought, Pending, SInv, Around, Ask, environment
<1>9. Requests'
  <2>1. \A j \in Ids : upd[j].status # "absent" => upd'[j].status # "absent"
    BY <1>3, PresentKept DEF SInv
  <2>2. upd'[i].status # "absent"
    BY <1>5 DEF Open
  <2> QED  BY <1>5, <1>6, <1>7, <2>1, <2>2 DEF SInv, Requests, Pending
<1>10. \A r \in Runs : ChildBorne(child[r], child'[r])
  BY DEF Ask, ChildBorne
<1>11. ASSUME NEW j \in Ids, upd[j].status = "running", upd[j].slot \in Slots
      PROVE  RowBorne(upd[j], upd'[j], j \in Sought')
  <2>1. CASE upd'[j] = upd[j]
    BY <2>1 DEF RowBorne
  <2>2. CASE upd'[j] # upd[j]
    <3>1. /\ upd[j].slot = slot /\ upd'[j] = [upd[j] EXCEPT !.source = "manual"]
      <4>1. upd[rows + 1].status = "absent" \/ rows + 1 \notin Ids
        BY DEF SInv, Table
      <4>2. Existing(slot, None) = OpenIn(slot) \/ Existing(slot, None) = {}
        BY DEF Existing, KeyedIn
      <4> QED  BY <1>1, <1>11, <2>2, <4>1, <4>2 DEF Enqueue, OpenIn, SInv, Table
    <3>2. upd[j] \in Update
      BY DEF SInv, Table
    <3>3. /\ upd'[j].status = "running" /\ upd'[j].worker = upd[j].worker
          /\ upd'[j].slot = slot /\ upd'[j].linked = upd[j].linked
      BY <1>11, <3>1, <3>2 DEF Update
    <3>4. i = j
      BY <1>3, <1>5, <3>3 DEF Table, Apart, Open
    <3> QED  BY <1>8, <1>11, <3>1, <3>3, <3>4 DEF RowBorne
  <2> QED  BY <2>1, <2>2
<1>12. Calm
  BY <1>8, <1>10, <1>11 DEF Calm
<1>13. Follows
  BY SameChildren DEF Ask, SInv
<1> QED  BY <1>3, <1>8, <1>9, <1>12, <1>13, Untouched DEF Ask

\* A request moves on: its own record is all that changes among the people.
LEMMA ClientMoves ==
    ASSUME SInv, NEW c \in Clients, NEW pc \in {"look", "revive", "promote", "done", "missed"},
           Pending(c), client' = [client EXCEPT ![c].pc = pc], UNCHANGED <<upd, enabled, today>>
    PROVE  /\ Around' /\ Requests'
           /\ \A i \in Ids : i \in Sought => i \in Sought' \/ (pc = "done" /\ i = client[c].task)
<1>1. client[c] \in Client
  BY DEF SInv, Around
<1>2. /\ client' \in [Clients -> Client] /\ client'[c].pc = pc
      /\ client'[c].task = client[c].task
      /\ \A d \in Clients : d # c => client'[d] = client[d]
  BY <1>1 DEF SInv, Around, Client
<1>3. Around' /\ Requests'
  BY <1>2 DEF SInv, Around, Requests, Pending
<1>4. ASSUME NEW i \in Sought
      PROVE  i \in Sought' \/ (pc = "done" /\ i = client[c].task)
  <2>1. PICK d \in Clients : Pending(d) /\ client[d].task = i /\ i \in Ids
    BY <1>4 DEF Sought
  <2>2. CASE d # c
    BY <1>2, <2>1, <2>2 DEF Sought, Pending
  <2>3. CASE d = c
    BY <1>2, <2>1, <2>3 DEF Sought, Pending
  <2> QED  BY <2>2, <2>3
<1> QED  BY <1>3, <1>4

\* The second half of a takeover: the run is read.
LEMMA LookKeeps ==
    ASSUME SInv, NEW c \in Clients, Look(c)
    PROVE  StepOK
<1>1. PICK pc \in {"revive", "promote"} : client' = [client EXCEPT ![c].pc = pc]
  BY DEF Look
<1>2. Pending(c) /\ UNCHANGED <<upd, rows, enabled, today, child, lock, proc>>
  BY DEF Look, Pending, queue, environment
<1>3. Around' /\ Requests' /\ \A i \in Ids : i \in Sought => i \in Sought'
  BY <1>1, <1>2, ClientMoves
<1>4. Calm
  BY <1>2, <1>3 DEF Calm, RowBorne, ChildBorne
<1>5. Follows
  BY <1>2, SameChildren DEF SInv
<1> QED  BY <1>2, <1>3, <1>4, <1>5, Untouched

\* And then changed, unless it ended or was put back meanwhile.
LEMMA ReachKeeps ==
    ASSUME SInv, NEW c \in Clients, Reach(c)
    PROVE  StepOK
<1> DEFINE r == RunAsked(c)
           b == child[r]
           t == client[c].task
<1>1. Pending(c) /\ UNCHANGED <<upd, rows, enabled, today, lock, proc>>
  BY DEF Reach, Pending, queue, environment
<1>2. t \in Ids /\ r = RunOf[upd[t].slot] /\ r \in Runs
  BY <1>1, RunsAssumption DEF SInv, Requests, Placed, RunAsked
<1>3. b \in Child /\ ChildOK(b) /\ b.manual \in BOOLEAN
  BY <1>2 DEF SInv, Children, Child
<1>4. ASSUME NEW d, \/ b.status \in Retry /\ d = Revived(b)
                    \/ b.status \notin Retry /\ d = Promoted(b),
             child' = [child EXCEPT ![r] = d], client' = [client EXCEPT ![c].pc = "done"]
      PROVE  StepOK
  <2>1. ChildOK(d) /\ Allowed(b, d)
    BY <1>3, <1>4, Transformers
  <2>2. Reached(d) /\ ChildBorne(b, d)
    <3>1. CASE b.status \in Retry /\ d = Revived(b)
      BY <1>3, <3>1 DEF Revived, Child, Reached, ChildBorne
    <3>2. CASE b.status \notin Retry /\ d = Promoted(b)
      BY <1>3, <3>2 DEF Promoted, Child, Reached, ChildBorne
    <3> QED  BY <1>4, <3>1, <3>2
  <2>3. Around' /\ Requests' /\ \A i \in Ids : i \in Sought => i \in Sought' \/ i = t
    BY <1>1, <1>4, ClientMoves
  <2> HIDE DEF r, t, b
  <2>4. Follows
    BY <1>2, <1>4, <2>1, OneFollows DEF SInv, b
  <2>5. child'[r] = d /\ \A q \in Runs : q # r => child'[q] = child[q]
    BY <1>2, <1>4 DEF SInv, Children
  <2>6. \A q \in Runs : ChildBorne(child[q], child'[q])
    BY <2>2, <2>5 DEF ChildBorne, b
  <2>7. \A i \in Ids : i \in Sought => i \in Sought' \/ Reached(child'[RunOf[upd[i].slot]])
    BY <1>2, <2>2, <2>3, <2>5
  <2>8. Calm
    BY <1>1, <2>6, <2>7 DEF Calm, RowBorne
  <2> QED  BY <1>1, <2>3, <2>4, <2>8, Untouched
<1>5. CASE UNCHANGED child /\ client' = [client EXCEPT ![c].pc = "missed"]
  <2>1. Around' /\ Requests' /\ \A i \in Ids : i \in Sought => i \in Sought'
    BY <1>1, <1>5, ClientMoves
  <2>2. Calm
    BY <1>1, <1>5, <2>1 DEF Calm, RowBorne, ChildBorne
  <2>3. Follows
    BY <1>5, SameChildren DEF SInv
  <2> QED  BY <1>1, <2>1, <2>2, <2>3, Untouched
<1>6. \/ \E d : /\ \/ b.status \in Retry /\ d = Revived(b)
                   \/ b.status \notin Retry /\ d = Promoted(b)
                /\ child' = [child EXCEPT ![r] = d] /\ client' = [client EXCEPT ![c].pc = "done"]
      \/ UNCHANGED child /\ client' = [client EXCEPT ![c].pc = "missed"]
  BY <1>2 DEF Reach, SInv, Children
<1> QED  BY <1>4, <1>5, <1>6

-----------------------------------------------------------------------------
(***************************************************************************)
(* The holder of the lock.                                                 *)
(***************************************************************************)

\* Go changes the place of a process and nothing else of it.
LEMMA Went ==
    ASSUME SInv, NEW w \in Workers, NEW pc \in Places, Go(w, pc)
    PROVE  \E p \in Proc : /\ proc' = [proc EXCEPT ![w] = p]
                           /\ p.pc = pc /\ p.next = proc[w].next /\ p.task = proc[w].task
                           /\ p.etf = proc[w].etf /\ p.manual = proc[w].manual
<1> DEFINE p == [proc[w] EXCEPT !.pc = pc]
<1>1. proc[w] \in Proc
  BY DEF SInv
<1>2. /\ p \in Proc /\ p.pc = pc /\ p.next = proc[w].next /\ p.task = proc[w].task
      /\ p.etf = proc[w].etf /\ p.manual = proc[w].manual
  BY <1>1 DEF Proc
<1>3. proc' = [proc EXCEPT ![w] = p]
  BY DEF Go
<1> HIDE DEF p
<1> QED  BY <1>2, <1>3

\* A process that executes an update owns it, and its slot has a run.
LEMMA Works ==
    ASSUME SInv, NEW w \in Workers, Working(w)
    PROVE  /\ proc[w].task \in Ids /\ lock = w /\ proc[w] \in Proc
           /\ upd[proc[w].task] \in Update /\ Owned(proc[w].task, w)
           /\ Mine(w) \in Runs /\ child[Mine(w)] \in Child /\ ChildOK(child[Mine(w)])
           /\ Fits(proc[w], w, upd[proc[w].task], child[Mine(w)], proc[w].task \in Sought)
<1>1. /\ proc[w].task \in Ids
      /\ Fits(proc[w], w, upd[proc[w].task], child[Mine(w)], proc[w].task \in Sought)
  BY DEF SInv, Serves
<1>2. lock = w /\ proc[w] \in Proc
  BY DEF SInv, Guarded, Working, Holding
<1>3. upd[proc[w].task] \in Update /\ Owned(proc[w].task, w)
  BY <1>1 DEF SInv, Table, Fits, Owned
<1>4. Mine(w) \in Runs
  BY <1>1, <1>3, RunsAssumption DEF SInv, Placed, Mine, Owned
<1> QED  BY <1>1, <1>2, <1>3, <1>4 DEF SInv, Children

\* A step of the executor that goes on with its update.
LEMMA Advance ==
    ASSUME SInv, NEW w \in Workers, Working(w), NEW p \in Proc, proc' = [proc EXCEPT ![w] = p],
           p.task = proc[w].task, p.pc \in Executing, UNCHANGED <<lock, environment, client>>,
           [UpdateNext]_<<upd, rows>>, Follows,
           upd'[proc[w].task].slot = upd[proc[w].task].slot,
           Fits(p, w, upd'[proc[w].task], child'[Mine(w)], proc[w].task \in Sought)
    PROVE  StepOK
<1>1. proc[w].task \in Ids /\ lock = w
  BY Works
<1>2. proc'[w] = p
  BY DEF SInv
<1>3. Mine(w)' = Mine(w) /\ Sought' = Sought
  BY <1>2 DEF Mine, Sought, Pending
<1>4. proc'[w].pc \notin Singles /\ proc'[w].pc # "legacyrun"
  BY <1>2 DEF Executing, Singles
<1>5. Serves(w)'
  BY <1>1, <1>2, <1>3, <1>4 DEF Serves, Working
<1>6. lock' = IF p.pc \in Holding THEN w ELSE None
  BY <1>1 DEF Holding
<1> HIDE DEF Executing
<1> QED  BY <1>1, <1>5, <1>6, Alone

\* A step of the holder outside an execution, or one that takes or frees the lock.
LEMMA Passes ==
    ASSUME SInv, NEW w \in Workers, lock \in {None, w},
           NEW p \in Proc, proc' = [proc EXCEPT ![w] = p],
           p.pc \notin Executing, p.pc \notin Singles, lock' = IF p.pc \in Holding THEN w ELSE None,
           [UpdateNext]_<<upd, rows>>, Follows, UNCHANGED <<environment, client>>
    PROVE  StepOK
<1>1. proc'[w] = p
  BY DEF SInv
<1>2. Serves(w)'
  BY <1>1, Idle
<1> QED  BY <1>2, Alone

\* Who is at a place of the holder, holds the lock.
LEMMA Holds ==
    ASSUME SInv, NEW w \in Workers, proc[w].pc \in Holding
    PROVE  lock = w
BY DEF SInv, Guarded

-----------------------------------------------------------------------------
(***************************************************************************)
(* Processes start, stop, are killed and wait for the lock.                *)
(***************************************************************************)

\* A process without the lock goes to another place where it has none.
LEMMA Strolls ==
    ASSUME SInv, NEW w \in Workers, proc[w].pc \notin Holding, NEW pc \in Places \ Holding,
           Go(w, pc), UNCHANGED <<queue, environment, child, lock, client>>
    PROVE  StepOK
<1>1. PICK p \in Proc : proc' = [proc EXCEPT ![w] = p] /\ p.pc = pc
  BY Went
<1>2. Calm
  BY CalmRows DEF queue
<1>3. Follows
  BY SameChildren DEF SInv
<1>4. lock # w
  BY DEF SInv, Guarded
<1> HIDE DEF Holding
<1> QED  BY <1>1, <1>2, <1>3, <1>4, Beside DEF queue

\* A process starts.
LEMMA StartKeeps ==
    ASSUME SInv, NEW w \in Workers, Start(w)
    PROVE  StepOK
<1>1. proc[w].pc \notin Holding /\ Home(w) \in Places \ Holding
  BY DEF Start, At, Holding, Singles, Home, Places, Executing
<1> QED  BY <1>1, Strolls DEF Start, Reads

\* A killed process is nowhere, and the lock is free if it was the holder.
LEMMA CrashKeeps ==
    ASSUME SInv, NEW w \in Workers, Crash(w)
    PROVE  StepOK
<1> DEFINE p == Process("dead")
<1>1. p \in Proc /\ p.pc \notin Holding
  BY DEF Process, Proc, Places, ChildStatuses, Holding, Singles, Executing
<1>2. proc' = [proc EXCEPT ![w] = p] /\ lock' = (IF lock = w THEN None ELSE lock)
      /\ UNCHANGED <<queue, environment, child, client>>
  BY DEF Crash
<1> HIDE DEF p, Holding
<1>3. Calm
  BY <1>2, CalmRows DEF queue
<1>4. Follows
  BY <1>2, SameChildren DEF SInv
<1> QED  BY <1>1, <1>2, <1>3, <1>4, Beside DEF queue

\* A process that is asked to stop is told so, wherever it is.
LEMMA StopKeeps ==
    ASSUME SInv, NEW w \in Workers, Stop(w)
    PROVE  StepOK
<1> DEFINE p == [proc[w] EXCEPT !.stop = TRUE]
<1>1. proc[w] \in Proc
  BY DEF SInv
<1>2. /\ p \in Proc /\ p.pc = proc[w].pc /\ p.next = proc[w].next /\ p.task = proc[w].task
      /\ p.etf = proc[w].etf
  BY <1>1 DEF Proc
<1>3. proc' = [proc EXCEPT ![w] = p] /\ UNCHANGED <<queue, environment, child, lock, client>>
  BY DEF Stop, Reads
<1> HIDE DEF p
<1>4. /\ proc' \in [Workers -> Proc]
      /\ \A v \in Workers : /\ proc'[v].pc = proc[v].pc /\ proc'[v].next = proc[v].next
                            /\ proc'[v].task = proc[v].task /\ proc'[v].etf = proc[v].etf
  BY <1>2, <1>3 DEF SInv
<1>5. Calm
  BY <1>3, CalmRows DEF queue
<1>6. Follows
  BY <1>3, SameChildren DEF SInv
<1>7. \A v \in Workers : Serves(v)'
  BY <1>4, <1>5, CalmServes
<1>8. Guarded' /\ Around'
  BY <1>3, <1>4 DEF SInv, Guarded, Around, environment
<1> QED  BY <1>3, <1>4, <1>6, <1>7, <1>8, Assemble DEF queue

\* The schedule of the day, without the lock.
LEMMA ScheduleKeeps ==
    ASSUME SInv, NEW w \in Workers, Schedule(w) \/ ScheduleEnqueue(w)
    PROVE  StepOK
<1>1. proc[w].pc \notin Holding /\ lock # w
  <2>1. proc[w].pc \notin Holding
    BY DEF Schedule, ScheduleEnqueue, At, Holding, Singles, Executing
  <2> QED  BY <2>1 DEF SInv, Guarded
<1>2. "acquire" \in Places \ Holding /\ "enqueue" \in Places \ Holding
  BY DEF Places, Holding, Singles, Executing
<1> HIDE DEF Holding, Places
<1>3. CASE ChildrenOff /\ Go(w, "acquire") /\ UNCHANGED <<queue, environment, lock, client>>
  <2>1. PICK p \in Proc : proc' = [proc EXCEPT ![w] = p] /\ p.pc = "acquire"
    BY <1>2, <1>3, Went
  <2>2. Calm
    BY <1>3, OffIsCalm DEF queue
  <2>3. Follows
    BY <1>3, OffFollows DEF SInv
  <2> QED  BY <1>1, <1>2, <1>3, <2>1, <2>2, <2>3, Beside DEF queue
<1>4. CASE /\ UNCHANGED <<queue, environment, child, lock, client>>
           /\ Go(w, "enqueue") \/ Go(w, "acquire")
  BY <1>1, <1>2, <1>4, Strolls
<1>5. CASE ScheduleEnqueue(w)
  <2>1. PICK slot \in Scheduled : Enqueue(slot, "automatic", today)
    BY <1>5 DEF ScheduleEnqueue
  <2>2. today \in Days
    BY DEF SInv, Around
  <2>3. UpdateNext
    BY <2>1, <2>2 DEF UpdateNext
  <2>4. \A i \in Ids : upd[i].status = "running" => upd'[i] = upd[i]
    <3>1. \A i \in Ids : i = rows + 1 => upd[i].status = "absent"
      BY DEF SInv, Table
    <3>2. CASE UNCHANGED upd
      BY <3>2
    <3>3. CASE /\ rows + 1 \in Ids
               /\ upd' = [upd EXCEPT ![rows + 1] = NewUpdate("queued", slot, "automatic", today)]
      BY <3>1, <3>3 DEF SInv, Table
    <3> QED  BY <2>1, <3>2, <3>3 DEF Enqueue
  <2>5. Go(w, "acquire") /\ UNCHANGED <<environment, child, lock, client>>
    BY <1>5 DEF ScheduleEnqueue, Writes
  <2>6. PICK p \in Proc : proc' = [proc EXCEPT ![w] = p] /\ p.pc = "acquire"
    BY <1>2, <2>5, Went
  <2>7. Calm
    BY <2>4, <2>5, CalmRows
  <2>8. Follows
    BY <2>5, SameChildren DEF SInv
  <2> QED  BY <1>1, <1>2, <2>3, <2>5, <2>6, <2>7, <2>8, Beside
<1> QED  BY <1>3, <1>4, <1>5 DEF Schedule

\* The lock of execute_one: taken when it is free, left when it is held.
LEMMA AcquireKeeps ==
    ASSUME SInv, NEW w \in Workers, Acquire(w) \/ Legacy(w)
    PROVE  StepOK
<1>1. proc[w].pc \notin Holding
  BY DEF Acquire, Legacy, At, Holding, Singles, Executing
<1>2. /\ {"legacy", "dead", Home(w)} \subseteq Places \ Holding
      /\ {"switch", "legacyclaim"} \subseteq Holding /\ Holding \subseteq Places
      /\ \A pc \in {"switch", "legacyclaim"} : pc \notin Executing /\ pc \notin Singles
  BY DEF Places, Holding, Singles, Executing, Home
<1> HIDE DEF Holding, Places
<1>3. CASE /\ lock = None /\ lock' = w /\ RecoverChildren
           /\ Go(w, "switch") \/ Go(w, "legacyclaim")
           /\ UNCHANGED <<queue, environment, client>>
  <2>1. PICK pc \in {"switch", "legacyclaim"} : Go(w, pc)
    BY <1>3
  <2>2. PICK p \in Proc : proc' = [proc EXCEPT ![w] = p] /\ p.pc = pc
    BY <1>2, <2>1, Went
  <2>3. Follows
    BY <1>3, RecoverFollows DEF SInv
  <2>4. lock \in {None, w} /\ lock' = IF p.pc \in Holding THEN w ELSE None
    BY <1>2, <1>3, <2>2
  <2>5. p.pc \notin Executing /\ p.pc \notin Singles
    BY <1>2, <2>2
  <2> QED  BY <1>3, <2>2, <2>3, <2>4, <2>5, Passes DEF queue
<1>4. CASE /\ Go(w, "legacy") \/ Go(w, "dead") \/ Go(w, Home(w))
           /\ UNCHANGED <<queue, environment, child, lock, client>>
  <2>1. PICK pc \in {"legacy", "dead", Home(w)} : Go(w, pc)
    BY <1>4
  <2> QED  BY <1>1, <1>2, <1>4, <2>1, Strolls
<1> QED  BY <1>3, <1>4 DEF Acquire, Legacy

-----------------------------------------------------------------------------
(***************************************************************************)
(* execute_one up to the claim, and the single run behind it.              *)
(***************************************************************************)

\* A step of the holder to a place where nothing is executed.
LEMMA Turns ==
    ASSUME SInv, NEW w \in Workers, proc[w].pc \in Holding, NEW pc \in Places,
           pc \notin Executing, pc \notin Singles, Go(w, pc),
           lock' = IF pc \in Holding THEN w ELSE None,
           [UpdateNext]_<<upd, rows>>, Follows, UNCHANGED <<environment, client>>
    PROVE  StepOK
<1>1. PICK p \in Proc : proc' = [proc EXCEPT ![w] = p] /\ p.pc = pc
  BY Went
<1>2. lock = w
  BY Holds
<1> HIDE DEF Holding, Singles, Executing
<1> QED  BY <1>1, <1>2, Passes

\* The switch, what it withdraws, and the updates whose lease ran out.
LEMMA SwitchKeeps ==
    ASSUME SInv, NEW w \in Workers, Switch(w) \/ Withdraw(w) \/ Recover(w)
    PROVE  StepOK
<1>1. /\ proc[w].pc \in Holding
      /\ \A pc \in {"recover", "withdraw", "claim"} :
             pc \in Places /\ pc \in Holding /\ pc \notin Executing /\ pc \notin Singles
  BY DEF Switch, Withdraw, Recover, At, Places, Holding, Singles, Executing
<1>2. lock = w
  BY <1>1, Holds
<1> HIDE DEF Holding, Singles, Executing, Places
<1>3. CASE Switch(w)
  <2>1. PICK pc \in {"recover", "withdraw"} : Go(w, pc)
    BY <1>3 DEF Switch
  <2>2. Follows
    BY <1>3, OffFollows, SameChildren DEF Switch, SInv
  <2>3. lock' = (IF pc \in Holding THEN w ELSE None) /\ UNCHANGED <<upd, rows, environment, client>>
    BY <1>1, <1>2, <1>3 DEF Switch, Moves, queue
  <2> QED  BY <1>1, <2>1, <2>2, <2>3, Turns
<1>4. CASE Withdraw(w) \/ Recover(w)
  <2>1. PICK pc \in {"recover", "claim"} : Go(w, pc)
    BY <1>4 DEF Withdraw, Recover
  <2>2. UpdateNext /\ UNCHANGED <<environment, child, lock, client>>
    BY <1>4 DEF Withdraw, Recover, Writes, UpdateNext
  <2>3. Follows
    BY <2>2, SameChildren DEF SInv
  <2>4. lock' = IF pc \in Holding THEN w ELSE None
    BY <1>1, <1>2, <2>2
  <2> QED  BY <1>1, <2>1, <2>2, <2>3, <2>4, Turns
<1> QED  BY <1>3, <1>4

\* The claim of an update.
LEMMA TakeKeeps ==
    ASSUME SInv, NEW w \in Workers, TakeTask(w)
    PROVE  StepOK
<1>1. proc[w].pc \in Holding /\ proc[w] \in Proc
  BY DEF TakeTask, At, Holding, SInv
<1>2. lock = w
  BY <1>1, Holds
<1>3. Follows /\ UNCHANGED <<environment, client>>
  BY SameChildren DEF TakeTask, SInv
<1>4. ASSUME NEW i \in Ids, Claim(i, w, ManualOnly(w)), UNCHANGED lock,
             proc' = [proc EXCEPT ![w] = [Process("check") EXCEPT
                         !.task = i, !.next = "calendar", !.stop = proc[w].stop]]
      PROVE  StepOK
  <2> DEFINE p == [Process("check") EXCEPT !.task = i, !.next = "calendar", !.stop = proc[w].stop]
             only == ManualOnly(w)
  <2>1. /\ p \in Proc /\ p.pc = "check" /\ p.next = "calendar" /\ p.etf = "none" /\ p.task = i
    <3> DEFINE q == Process("check")
    <3>1. q \in Proc /\ q.pc = "check" /\ q.etf = "none" /\ "calendar" \in Places
      BY DEF Process, Proc, Places, Holding, Singles, Executing, ChildStatuses
    <3>2. proc[w].stop \in BOOLEAN
      BY <1>1 DEF Proc
    <3>3. p = [q EXCEPT !.task = i, !.next = "calendar", !.stop = proc[w].stop]
      OBVIOUS
    <3> HIDE DEF p, q
    <3> QED  BY <3>1, <3>2, <3>3 DEF Proc
  <2>2. only \in BOOLEAN
    BY Zenon DEF ManualOnly
  <2>3. proc' = [proc EXCEPT ![w] = p] /\ Claim(i, w, only)
    BY <1>4
  <2> HIDE DEF p, only
  <2>4. UpdateNext
    BY <2>2, <2>3 DEF UpdateNext
  <2>5. upd[i] \in Update
    BY DEF SInv, Table
  <2>6. upd'[i].status = "running" /\ upd'[i].worker = w
    BY <2>3, <2>5 DEF Claim, SInv, Table, Update
  <2>7. proc'[w] = p
    BY <2>3 DEF SInv
  <2>8. Fits(p, w, upd'[i], child'[Mine(w)'], i \in Sought')
    BY <2>1, <2>6 DEF Fits, Place, Linked, Promised, Retrying, Told
  <2>9. Serves(w)'
    BY <2>1, <2>7, <2>8 DEF Serves, Singles
  <2>10. lock' = IF p.pc \in Holding THEN w ELSE None
    BY <1>2, <1>4, <2>1 DEF Holding, Singles, Executing
  <2> QED  BY <1>2, <1>3, <2>1, <2>3, <2>4, <2>9, <2>10, Alone
<1>5. CASE lock' = None /\ Go(w, "legacy") /\ UNCHANGED queue
  <2>1. /\ "legacy" \in Places /\ "legacy" \notin Holding /\ "legacy" \notin Executing
        /\ "legacy" \notin Singles
    BY DEF Places, Holding, Singles, Executing
  <2> HIDE DEF Places, Holding, Singles, Executing
  <2> QED  BY <1>1, <1>3, <1>5, <2>1, Turns DEF queue
<1> QED  BY <1>4, <1>5 DEF TakeTask

\* A single run starts and ends.
LEMMA LegacyKeeps ==
    ASSUME SInv, NEW w \in Workers, LegacyStart(w) \/ LegacyRelease(w)
    PROVE  StepOK
<1>1. proc[w].pc \in Holding /\ proc[w] \in Proc
  BY DEF LegacyStart, LegacyRelease, At, Holding, SInv
<1>2. lock = w
  BY <1>1, Holds
<1>3. UNCHANGED <<upd, rows, environment, client>>
  BY DEF LegacyStart, LegacyRelease, queue
<1>4. Home(w) \in Places \ Holding /\ Home(w) \notin Executing /\ Home(w) \notin Singles
  BY DEF Home, Places, Holding, Singles, Executing
<1>5. ASSUME NEW r \in Runs, Startable(r), UNCHANGED lock,
             child' = [child EXCEPT ![r] = Started(@)],
             proc' = [proc EXCEPT ![w].pc = "legacyrun", ![w].next = r]
      PROVE  StepOK
  <2> DEFINE p == [proc[w] EXCEPT !.pc = "legacyrun", !.next = r]
             c == Started(child[r])
  <2>1. p \in Proc /\ p.pc = "legacyrun" /\ p.next = r
    BY <1>1 DEF Proc, Places, Holding, Singles
  <2>2. proc' = [proc EXCEPT ![w] = p] /\ child' = [child EXCEPT ![r] = c]
    BY <1>5
  <2> HIDE DEF p
  <2>3. ChildOK(child[r]) /\ child[r] \in Child /\ child[r].status = "queued" /\ ChildFree
    BY <1>5 DEF Startable, SInv, Children
  <2>4. ChildOK(c) /\ Allowed(child[r], c)
    BY <2>3, Transformers
  <2>5. c.status = "running"
    BY <2>3 DEF Started, Child
  <2> HIDE DEF c
  <2>6. Follows
    BY <2>2, <2>4, OneFollows DEF SInv
  <2>7. proc'[w] = p /\ child'[r] = c
    BY <2>2 DEF SInv, Children
  <2>8. Serves(w)'
    BY <2>1, <2>5, <2>7 DEF Serves, Working, Executing, Singles
  <2>9. lock' = IF p.pc \in Holding THEN w ELSE None
    BY <1>2, <1>5, <2>1 DEF Holding, Singles
  <2> QED  BY <1>2, <1>3, <2>1, <2>2, <2>6, <2>8, <2>9, Alone
<1>6. CASE lock' = None /\ Go(w, Home(w)) /\ UNCHANGED child
  <2>1. Follows
    BY <1>6, SameChildren DEF SInv
  <2> HIDE DEF Places, Holding, Singles, Executing
  <2> QED  BY <1>1, <1>3, <1>4, <1>6, <2>1, Turns
<1>7. CASE LegacyRelease(w)
  <2> DEFINE p == [proc[w] EXCEPT !.pc = Home(w), !.next = "idle"]
  <2>1. Follows
    BY <1>7, SameChildren DEF LegacyRelease, SInv
  <2>2. p \in Proc /\ p.pc = Home(w)
    BY <1>1, <1>4 DEF Proc, Places
  <2>3. proc' = [proc EXCEPT ![w] = p] /\ lock' = None
    BY <1>7 DEF LegacyRelease
  <2> HIDE DEF p, Places, Holding, Singles, Executing, Singles
  <2> QED  BY <1>2, <1>3, <1>4, <2>1, <2>2, <2>3, Passes
<1> QED  BY <1>5, <1>6, <1>7 DEF LegacyStart

\* The end of an execution and its retry, for whoever executes the run.
LEMMA Finishes ==
    ASSUME SInv, NEW w \in Workers, NEW r \in Runs, child[r].status = "running",
           NEW retry \in Places, NEW end \in Places, Finish(w, r, retry, end)
    PROVE  /\ \E pc \in {retry, end} : Go(w, pc)
           /\ Follows /\ UNCHANGED <<queue, environment, lock, client>>
           /\ child'[r].manual = child[r].manual
           /\ child'[r].status \in {"completed"} \union Retry
<1>1. PICK c \in Ended(child[r]) : /\ child' = [child EXCEPT ![r] = c]
                                  /\ \E pc \in {retry, end} : Go(w, pc)
  BY DEF Finish
<1>2. child'[r] = c
  BY <1>1 DEF SInv, Children
<1>3. Follows /\ c.manual = child[r].manual /\ c.status \in {"completed"} \union Retry
  BY <1>1, EndFollows DEF SInv
<1> QED  BY <1>1, <1>2, <1>3 DEF Finish, Moves

\* Before the transaction the runs change at most by a switch that is read as off.
LEMMA Looks ==
    ASSUME SInv, NEW w \in Workers, NEW r \in Runs,
           NEW switch \in Places, NEW put \in Places, NEW end \in Places,
           RetryLook(w, r, switch, put, end) \/ RetrySwitch(w, put, end)
    PROVE  /\ \E pc \in {switch, put, end} : Go(w, pc)
           /\ Follows /\ UNCHANGED <<queue, environment, lock, client>>
           /\ Calm
<1>1. CASE RetryLook(w, r, switch, put, end)
  <2>1. UNCHANGED <<queue, environment, child, lock, client>>
    BY <1>1 DEF RetryLook, Reads
  <2>2. Follows
    BY <2>1, SameChildren DEF SInv
  <2>3. Calm
    BY <2>1, CalmRows DEF queue
  <2>4. \E pc \in {switch, put, end} : Go(w, pc)
    BY <1>1 DEF RetryLook
  <2> QED  BY <2>1, <2>2, <2>3, <2>4
<1>2. CASE RetrySwitch(w, put, end)
  <2>1. UNCHANGED <<queue, environment, lock, client>> /\ (ChildrenOff \/ UNCHANGED child)
    BY <1>2 DEF RetrySwitch, Moves
  <2>2. Follows
    BY <2>1, OffFollows, SameChildren DEF SInv
  <2>3. Calm
    BY <2>1, OffIsCalm, CalmRows DEF queue
  <2>4. \E pc \in {switch, put, end} : Go(w, pc)
    BY <1>2 DEF RetrySwitch
  <2> QED  BY <2>1, <2>2, <2>3, <2>4
<1> QED  BY <1>1, <1>2

\* A single run ends and may be put back.
LEMMA LegacyEndKeeps ==
    ASSUME SInv, NEW w \in Workers, LegacyEnd(w) \/ LegacyRetry(w)
    PROVE  StepOK
<1> DEFINE r == proc[w].next
<1>1. /\ proc[w].pc \in Singles
      /\ \A pc \in {"legacyretry", "legacyswitch", "legacyput", "legacyover"} :
             /\ pc \in Places /\ pc \in Holding /\ pc \notin Executing
             /\ pc # "legacyrun" /\ (pc = "legacyover" => pc \notin Singles)
  BY DEF LegacyEnd, LegacyRetry, At, Singles, Places, Holding, Singles, Executing
<1>2. lock = w /\ r \in Runs
  BY <1>1, Holds DEF Holding, SInv, Serves
<1>3. ASSUME NEW pc \in {"legacyretry", "legacyswitch", "legacyput", "legacyover"}, Go(w, pc),
             Follows, UNCHANGED <<queue, environment, lock, client>>
      PROVE  StepOK
  <2>1. PICK p \in Proc : /\ proc' = [proc EXCEPT ![w] = p] /\ p.pc = pc
                          /\ p.next = proc[w].next
    BY <1>1, <1>3, Went
  <2>2. proc'[w] = p
    BY <2>1 DEF SInv
  <2>3. Serves(w)'
    BY <1>1, <1>2, <2>1, <2>2 DEF Serves, Working
  <2>4. lock \in {None, w} /\ lock' = (IF p.pc \in Holding THEN w ELSE None)
    BY <1>1, <1>2, <1>3, <2>1
  <2> HIDE DEF Holding, Singles, Executing, Places
  <2> QED  BY <1>3, <2>1, <2>3, <2>4, Alone DEF queue
<1>4. CASE LegacyEnd(w)
  <2>1. child[r].status = "running" /\ Finish(w, r, "legacyretry", "legacyover")
    BY <1>4 DEF LegacyEnd, At, SInv, Serves
  <2> HIDE DEF r
  <2>2. \E pc \in {"legacyretry", "legacyover"} : Go(w, pc)
    BY <1>1, <1>2, <2>1, Finishes
  <2>3. Follows /\ UNCHANGED <<queue, environment, lock, client>>
    BY <1>1, <1>2, <2>1, Finishes
  <2> QED  BY <1>3, <2>2, <2>3
<1>5. CASE \/ RetryLook(w, r, "legacyswitch", "legacyput", "legacyover")
           \/ RetrySwitch(w, "legacyput", "legacyover")
  <2> HIDE DEF r
  <2>1. \E pc \in {"legacyswitch", "legacyput", "legacyover"} : Go(w, pc)
    BY <1>1, <1>2, <1>5, Looks
  <2>2. Follows /\ UNCHANGED <<queue, environment, lock, client>>
    BY <1>1, <1>2, <1>5, Looks
  <2> QED  BY <1>3, <2>1, <2>2
<1>6. CASE PutBack(w, r, "legacyover")
  <2>1. /\ Go(w, "legacyover") /\ UNCHANGED <<queue, environment, lock, client>>
        /\ child' = [child EXCEPT ![r] = IF CanPutBack(@) THEN Again(@) ELSE @]
    BY <1>6 DEF PutBack, Moves
  <2> HIDE DEF r
  <2>2. Follows
    BY <1>2, <2>1, PutFollows DEF SInv
  <2> QED  BY <1>3, <2>1, <2>2
<1> QED  BY <1>4, <1>5, <1>6 DEF LegacyRetry

-----------------------------------------------------------------------------
(***************************************************************************)
(* _execute.                                                               *)
(***************************************************************************)

\* The executor goes on, and the rows stay.
LEMMA Onward ==
    ASSUME SInv, NEW w \in Workers, Working(w), NEW p \in Proc, proc' = [proc EXCEPT ![w] = p],
           p.task = proc[w].task, p.pc \in Executing,
           UNCHANGED <<queue, environment, lock, client>>, Follows,
           Fits(p, w, upd[proc[w].task], child'[Mine(w)], proc[w].task \in Sought)
    PROVE  StepOK
<1> HIDE DEF Executing
<1> QED  BY Advance DEF queue

\* check_cancelled: the source, then the switch.
LEMMA CheckKeeps ==
    ASSUME SInv, NEW w \in Workers, Check(w) \/ CheckSwitch(w)
    PROVE  StepOK
<1> DEFINE u == upd[proc[w].task]
           r == Mine(w)
<1>1. Working(w) /\ proc[w].pc \in {"check", "checkswitch"}
  BY DEF Check, CheckSwitch, At, Working, Executing
<1>2. Fits(proc[w], w, u, child[r], proc[w].task \in Sought) /\ r \in Runs /\ proc[w] \in Proc
  BY <1>1, Works
<1>3. proc[w].next \in {"calendar", "wait", "overseas"}
  BY <1>1, <1>2 DEF Fits
<1> HIDE DEF u, r
<1>4. ASSUME NEW pc \in {"checkswitch", proc[w].next}, Go(w, pc),
             UNCHANGED <<queue, environment, child, lock, client>>
      PROVE  StepOK
  <2>1. pc \in Places /\ pc \in Executing
    BY <1>3 DEF Places, Holding, Singles, Executing
  <2>2. PICK p \in Proc : /\ proc' = [proc EXCEPT ![w] = p] /\ p.pc = pc
                          /\ p.next = proc[w].next /\ p.task = proc[w].task
                          /\ p.etf = proc[w].etf
    BY <1>4, <2>1, Went
  <2>3. Fits(p, w, u, child'[r], proc[w].task \in Sought)
    BY <1>1, <1>2, <1>3, <1>4, <2>2 DEF Fits, Place, Linked, Promised, Retrying, Told
  <2>4. Follows
    BY <1>4, SameChildren DEF SInv
  <2> QED  BY <1>1, <1>4, <2>1, <2>2, <2>3, <2>4, Onward DEF u, r
<1>5. CASE ChildrenOff /\ Go(w, "stopped") /\ UNCHANGED <<queue, environment, lock, client>>
  <2>1. "stopped" \in Places /\ "stopped" \in Executing
    BY DEF Places, Holding, Singles, Executing
  <2>2. PICK p \in Proc : /\ proc' = [proc EXCEPT ![w] = p] /\ p.pc = "stopped"
                          /\ p.task = proc[w].task
    BY <1>5, <2>1, Went
  <2>3. Fits(p, w, u, child'[r], proc[w].task \in Sought)
    BY <1>2, <2>2 DEF Fits, Place, Linked, Promised, Retrying, Told
  <2>4. Follows
    BY <1>5, OffFollows DEF SInv
  <2> QED  BY <1>1, <1>5, <2>1, <2>2, <2>3, <2>4, Onward DEF u, r
<1> QED  BY <1>4, <1>5 DEF Check, CheckSwitch, Reads, Moves

\* The target day, or the end of the ETF branch.
LEMMA CalendarKeeps ==
    ASSUME SInv, NEW w \in Workers, Calendar(w)
    PROVE  StepOK
<1> DEFINE u == upd[proc[w].task]
           r == Mine(w)
           m == IsManual(w)
<1>1. Working(w) /\ proc[w].pc = "calendar"
  BY DEF Calendar, At, Working, Executing
<1>2. Fits(proc[w], w, u, child[r], proc[w].task \in Sought) /\ r \in Runs /\ proc[w] \in Proc
  BY <1>1, Works
<1>3. Follows /\ UNCHANGED <<queue, environment, child, lock, client>>
  BY SameChildren DEF Calendar, Reads, SInv
<1>4. m \in BOOLEAN
  BY Zenon DEF IsManual
<1> HIDE DEF u, r, m
<1>5. CASE proc' = [proc EXCEPT ![w].pc = "submit", ![w].manual = m]
  <2> DEFINE p == [proc[w] EXCEPT !.pc = "submit", !.manual = m]
  <2>1. p \in Proc /\ p.pc = "submit" /\ p.task = proc[w].task /\ p.pc \in Executing
    BY <1>2, <1>4 DEF Proc, Places, Holding, Singles, Executing
  <2>2. proc' = [proc EXCEPT ![w] = p]
    BY <1>5
  <2> HIDE DEF p
  <2>3. Fits(p, w, u, child'[r], proc[w].task \in Sought)
    BY <1>2, <2>1 DEF Fits, Place, Linked, Promised, Retrying, Told
  <2> QED  BY <1>1, <1>3, <2>1, <2>2, <2>3, Onward DEF u, r
<1>6. CASE Go(w, "snapshot")
  <2>1. "snapshot" \in Places /\ "snapshot" \in Executing
    BY DEF Places, Holding, Singles, Executing
  <2>2. PICK p \in Proc : /\ proc' = [proc EXCEPT ![w] = p] /\ p.pc = "snapshot"
                          /\ p.task = proc[w].task /\ p.etf = proc[w].etf
    BY <1>6, <2>1, Went
  <2>3. Fits(p, w, u, child'[r], proc[w].task \in Sought)
    BY <1>1, <1>2, <2>2 DEF Fits, Place, Linked, Promised, Retrying, Told
  <2> QED  BY <1>1, <1>3, <2>1, <2>2, <2>3, Onward DEF u, r
<1> QED  BY <1>5, <1>6 DEF Calendar, m

\* The executor changes its run and goes on.
LEMMA RunChanged ==
    ASSUME SInv, NEW w \in Workers, Working(w), NEW c, ChildOK(c), Allowed(child[Mine(w)], c),
           child' = [child EXCEPT ![Mine(w)] = c]
    PROVE  Follows /\ child'[Mine(w)] = c
<1>1. Mine(w) \in Runs
  BY Works
<1> QED  BY <1>1, OneFollows DEF SInv, Children

\* Before the link a step of the executor only has to follow the run queue.
LEMMA Asks ==
    ASSUME SInv, NEW w \in Workers, Working(w), Place(proc[w]) \notin Told, NEW p \in Proc,
           proc' = [proc EXCEPT ![w] = p], p.task = proc[w].task,
           \/ p.pc \in {"submitted", "revive", "takeover", "demanded", "link"}
           \/ p.pc = "snapshot" /\ p.etf = "none",
           UNCHANGED <<queue, environment, lock, client>>, Follows
    PROVE  StepOK
<1>1. Fits(proc[w], w, upd[proc[w].task], child[Mine(w)], proc[w].task \in Sought)
  BY Works
<1>2. p.pc \in Executing
  BY DEF Executing
<1>3. Fits(p, w, upd[proc[w].task], child'[Mine(w)], proc[w].task \in Sought)
  BY <1>1 DEF Fits, Place, Linked, Promised, Retrying, Told
<1> QED  BY <1>2, <1>3, Onward

\* The run of the update enters the queue or is kept, and is demanded by what was read.
LEMMA SubmitKeeps ==
    ASSUME SInv, NEW w \in Workers,
           Submit(w) \/ Submitted(w) \/ Revive(w) \/ Takeover(w) \/ Demanded(w)
    PROVE  StepOK
<1> DEFINE r == Mine(w)
           b == child[r]
           s == b.status
<1>1. Working(w) /\ Place(proc[w]) \notin Told /\ UNCHANGED <<queue, environment, lock, client>>
  BY DEF Submit, Submitted, Revive, Takeover, Demanded, At, Working, Executing, Place, Told,
         Moves, Reads
<1>2. r \in Runs /\ proc[w] \in Proc /\ ChildOK(b) /\ proc[w].manual \in BOOLEAN
  BY <1>1, Works DEF Proc
<1>3. /\ s \in ChildStatuses /\ "none" \in ChildStatuses
      /\ {"submitted", "revive", "takeover", "demanded", "link", "snapshot"} \subseteq Places
  BY <1>2 DEF ChildOK, Child, ChildStatuses, Places, Holding, Singles, Executing
<1> HIDE DEF Places
<1>4. ASSUME NEW c, ChildOK(c), Allowed(b, c), child' = [child EXCEPT ![r] = c],
             NEW pc \in {"submitted", "demanded"}, Go(w, pc)
      PROVE  StepOK
  <2>1. Follows
    BY <1>1, <1>4, RunChanged
  <2>2. PICK p \in Proc : proc' = [proc EXCEPT ![w] = p] /\ p.pc = pc /\ p.task = proc[w].task
    BY <1>3, <1>4, Went
  <2> QED  BY <1>1, <2>1, <2>2, Asks
<1>5. ASSUME UNCHANGED child, NEW e \in ChildStatuses,
             NEW pc \in {"revive", "takeover", "link", "snapshot"}, pc = "snapshot" => e = "none",
             proc' = [proc EXCEPT ![w].pc = pc, ![w].etf = e]
      PROVE  StepOK
  <2> DEFINE p == [proc[w] EXCEPT !.pc = pc, !.etf = e]
  <2>1. p \in Proc /\ p.pc = pc /\ p.etf = e /\ p.task = proc[w].task
    BY <1>2, <1>3, <1>5 DEF Proc
  <2>2. proc' = [proc EXCEPT ![w] = p]
    BY <1>5
  <2> HIDE DEF p
  <2>3. Follows
    BY <1>5, SameChildren DEF SInv
  <2> QED  BY <1>1, <1>5, <2>1, <2>2, <2>3, Asks
<1>6. CASE Submit(w)
  <2> DEFINE c == Enqueued(b, proc[w].manual)
  <2>1. ChildOK(c) /\ Allowed(b, c)
    BY <1>2, Transformers
  <2>2. child' = [child EXCEPT ![r] = c] /\ Go(w, "submitted")
    BY <1>2, <1>6 DEF Submit, SInv, Children
  <2> HIDE DEF c, b, r
  <2> QED  BY <1>4, <2>1, <2>2
<1>7. CASE Submitted(w)
  <2>1. PICK pc \in {"revive", "takeover", "link"} : proc' = [proc EXCEPT ![w].pc = pc, ![w].etf = s]
    <3> DEFINE pc == CASE ~proc[w].manual -> "link"
                       [] proc[w].manual /\ s \in Retry -> "revive"
                       [] OTHER -> "takeover"
    <3>1. pc \in {"revive", "takeover", "link"}
      BY <1>2
    <3>2. proc' = [proc EXCEPT ![w].etf = s, ![w].pc = pc]
      BY <1>7 DEF Submitted
    <3> HIDE DEF pc, s
    <3>3. [proc EXCEPT ![w].etf = s, ![w].pc = pc] = [proc EXCEPT ![w].pc = pc, ![w].etf = s]
      BY <1>2 DEF SInv, Proc
    <3> QED  BY <3>1, <3>2, <3>3
  <2>2. UNCHANGED child
    BY <1>7 DEF Submitted, Reads
  <2> HIDE DEF s
  <2> QED  BY <1>3, <1>5, <2>1, <2>2
<1>8. CASE Demanded(w)
  <2>1. proc' = [proc EXCEPT ![w].pc = "link", ![w].etf = s] /\ UNCHANGED child
    BY <1>8 DEF Demanded, Reads
  <2> HIDE DEF s
  <2> QED  BY <1>3, <1>5, <2>1
<1>9. CASE Takeover(w)
  <2>1. child' = [child EXCEPT ![r] = Promoted(b)] /\ Go(w, "demanded")
    BY <1>2, <1>9 DEF Takeover, SInv, Children
  <2>2. ChildOK(Promoted(b)) /\ Allowed(b, Promoted(b))
    BY <1>2, Transformers
  <2> HIDE DEF b, r
  <2> QED  BY <1>4, <2>1, <2>2
<1>10. CASE Revive(w)
  <2>1. CASE s \in Retry /\ child' = [child EXCEPT ![r] = Revived(b)] /\ Go(w, "demanded")
    <3>1. ChildOK(Revived(b)) /\ Allowed(b, Revived(b))
      BY <1>2, <2>1, Transformers
    <3> HIDE DEF s, b, r
    <3> QED  BY <1>4, <2>1, <3>1
  <2>2. CASE UNCHANGED child /\ proc' = [proc EXCEPT ![w].pc = "snapshot", ![w].etf = "none"]
    BY <1>3, <1>5, <2>2
  <2> QED  BY <1>2, <1>10, <2>1, <2>2 DEF Revive, SInv, Children
<1> QED  BY <1>6, <1>7, <1>8, <1>9, <1>10

\* The executor writes its row: what becomes of it.
LEMMA Writing ==
    ASSUME SInv, NEW w \in Workers, Working(w), NEW status \in {"running"} \union Closed,
           NEW linked \in BOOLEAN, Write(proc[w].task, w, status, linked)
    PROVE  /\ UpdateNext
           /\ LET u == upd[proc[w].task]
                  v == upd'[proc[w].task]
              IN /\ v.status = status /\ v.linked = linked
                 /\ v.slot = u.slot /\ v.worker = w /\ v.source = u.source
<1> DEFINE i == proc[w].task
<1>1. i \in Ids /\ upd[i] \in Update
  BY Works
<1>2. upd[i].worker = w
  BY DEF Write, Owned
<1> HIDE DEF i
<1>3. /\ upd'[i].status = status /\ upd'[i].linked = linked /\ upd'[i].slot = upd[i].slot
      /\ upd'[i].worker = upd[i].worker /\ upd'[i].source = upd[i].source
  BY <1>1 DEF Write, SInv, Table, Update, i
<1>4. UpdateNext
  BY <1>1 DEF UpdateNext, i
<1> QED  BY <1>2, <1>3, <1>4 DEF i

\* The link is written, then the source is read again.
LEMMA LinkKeeps ==
    ASSUME SInv, NEW w \in Workers, Link(w)
    PROVE  StepOK
<1> DEFINE i == proc[w].task
           r == Mine(w)
<1>1. Working(w) /\ "promote" \in Places /\ "promote" \in Executing
  BY DEF Link, At, Working, Places, Holding, Singles, Executing
<1>2. Write(i, w, "running", TRUE) /\ Go(w, "promote") /\ UNCHANGED <<environment, child, lock, client>>
  BY DEF Link, Writes
<1>3. /\ UpdateNext /\ upd'[i].status = "running" /\ upd'[i].linked = TRUE
      /\ upd'[i].slot = upd[i].slot /\ upd'[i].worker = w
  BY <1>1, <1>2, Writing
<1>4. PICK p \in Proc : /\ proc' = [proc EXCEPT ![w] = p] /\ p.pc = "promote"
                        /\ p.task = proc[w].task
  BY <1>1, <1>2, Went
<1>5. Fits(p, w, upd'[i], child'[r], proc[w].task \in Sought)
  BY <1>3, <1>4 DEF Fits, Place, Linked, Promised, Retrying, Told
<1>6. Follows
  BY <1>2, SameChildren DEF SInv
<1> HIDE DEF Executing
<1> QED  BY <1>1, <1>2, <1>3, <1>4, <1>5, <1>6, Advance

\* The source of the update decides whether its run has to become manual.
LEMMA PromoteKeeps ==
    ASSUME SInv, NEW w \in Workers, Promote(w)
    PROVE  StepOK
<1> DEFINE u == upd[proc[w].task]
           r == Mine(w)
<1>1. Working(w) /\ proc[w].pc = "promote"
  BY DEF Promote, At, Working, Executing
<1>2. Fits(proc[w], w, u, child[r], proc[w].task \in Sought)
  BY <1>1, Works
<1>3. Follows /\ UNCHANGED <<queue, environment, child, lock, client>>
  BY SameChildren DEF Promote, Reads, SInv
<1>4. PICK pc \in {"promoting", "exec", "read"} :
         Go(w, pc) /\ (pc # "promoting" => u.source # "manual")
  BY DEF Promote, IsManual
<1>5. pc \in Places /\ pc \in Executing
  BY DEF Places, Holding, Singles, Executing
<1>6. PICK p \in Proc : proc' = [proc EXCEPT ![w] = p] /\ p.pc = pc /\ p.task = proc[w].task
  BY <1>4, <1>5, Went
<1> HIDE DEF u, r
<1>7. Fits(p, w, u, child'[r], proc[w].task \in Sought)
  BY <1>1, <1>2, <1>4, <1>6 DEF Fits, Place, Linked, Promised, Retrying, Told
<1> QED  BY <1>1, <1>3, <1>5, <1>6, <1>7, Onward DEF u, r

\* What a person asked for reaches the run.
LEMMA PromotingKeeps ==
    ASSUME SInv, NEW w \in Workers, Promoting(w)
    PROVE  StepOK
<1> DEFINE u == upd[proc[w].task]
           r == Mine(w)
           c == Promoted(child[r])
<1>1. Working(w) /\ proc[w].pc = "promoting"
  BY DEF Promoting, At, Working, Executing
<1>2. /\ Fits(proc[w], w, u, child[r], proc[w].task \in Sought) /\ ChildOK(child[r])
      /\ child[r] \in Child /\ r \in Runs
  BY <1>1, Works
<1>3. ChildOK(c) /\ Allowed(child[r], c)
  BY <1>2, Transformers
<1>4. child' = [child EXCEPT ![r] = c] /\ UNCHANGED <<queue, environment, lock, client>>
  BY <1>2 DEF Promoting, Moves, SInv, Children
<1>5. Reached(c) \/ c.status \in Retry
  BY <1>2 DEF Promoted, Reached, Child
<1> HIDE DEF c
<1>6. Follows /\ child'[r] = c
  BY <1>1, <1>3, <1>4, RunChanged
<1>7. "promoted" \in Places /\ "promoted" \in Executing
  BY DEF Places, Holding, Singles, Executing
<1>8. PICK p \in Proc : proc' = [proc EXCEPT ![w] = p] /\ p.pc = "promoted" /\ p.task = proc[w].task
  BY <1>7, Went DEF Promoting
<1> HIDE DEF u, r
<1>9. Fits(p, w, u, child'[r], proc[w].task \in Sought)
  BY <1>1, <1>2, <1>5, <1>6, <1>8 DEF Fits, Place, Linked, Promised, Retrying, Told
<1> QED  BY <1>1, <1>4, <1>6, <1>7, <1>8, <1>9, Onward DEF u, r

\* The run is read after its promotion.
LEMMA AfterPromotionKeeps ==
    ASSUME SInv, NEW w \in Workers, AfterPromotion(w)
    PROVE  StepOK
<1> DEFINE u == upd[proc[w].task]
           r == Mine(w)
<1>1. Working(w) /\ proc[w].pc = "promoted" /\ UNCHANGED <<queue, environment, child, lock, client>>
  BY DEF AfterPromotion, At, Working, Executing, Reads
<1>2. Fits(proc[w], w, u, child[r], proc[w].task \in Sought)
  BY <1>1, Works
<1>3. PICK pc \in {"exec", "read"} : Go(w, pc)
  BY DEF AfterPromotion
<1>4. pc \in Places /\ pc \in Executing
  BY DEF Places, Holding, Singles, Executing
<1>5. PICK p \in Proc : proc' = [proc EXCEPT ![w] = p] /\ p.pc = pc /\ p.task = proc[w].task
  BY <1>3, <1>4, Went
<1>6. Follows
  BY <1>1, SameChildren DEF SInv
<1> HIDE DEF u, r
<1>7. Fits(p, w, u, child'[r], proc[w].task \in Sought)
  BY <1>1, <1>2, <1>3, <1>5 DEF Fits, Place, Linked, Promised, Retrying, Told
<1> QED  BY <1>1, <1>4, <1>5, <1>6, <1>7, Onward DEF u, r

\* Recovery before the claim of the run.
LEMMA ExecKeeps ==
    ASSUME SInv, NEW w \in Workers, Exec(w)
    PROVE  StepOK
<1> DEFINE u == upd[proc[w].task]
           r == Mine(w)
<1>1. Working(w) /\ proc[w].pc = "exec"
  BY DEF Exec, At, Working, Executing
<1>2. Fits(proc[w], w, u, child[r], proc[w].task \in Sought) /\ child[r] \in Child /\ r \in Runs
  BY <1>1, Works
<1>3. Follows /\ UNCHANGED <<queue, environment, lock, client>>
  BY RecoverFollows DEF Exec, Moves, SInv
<1>4. "start" \in Places /\ "start" \in Executing
  BY DEF Places, Holding, Singles, Executing
<1>5. PICK p \in Proc : proc' = [proc EXCEPT ![w] = p] /\ p.pc = "start" /\ p.task = proc[w].task
  BY <1>4, Went DEF Exec
<1>6. child'[r].manual = child[r].manual /\ (child[r].status # "running" => child'[r] = child[r])
  <2>1. child'[r] = ChildRecovered(child[r])
    BY <1>2 DEF Exec, RecoverChildren
  <2>2. ASSUME NEW b \in Child
        PROVE  /\ ChildRecovered(b).manual = b.manual
               /\ b.status # "running" => ChildRecovered(b) = b
    BY DEF ChildRecovered, ChildExpired, Child
  <2> QED  BY <1>2, <2>1, <2>2
<1> HIDE DEF u, r
<1>7. Fits(p, w, u, child'[r], proc[w].task \in Sought)
  <2>2. u.source = "manual" =>
           \/ Reached(child'[r]) \/ proc[w].task \in Sought
           \/ child'[r].status \in Retry
    BY <1>1, <1>2, <1>6 DEF Fits, Place, Promised, Reached
  <2>3. u.status = "running" /\ u.worker = w /\ u.linked
    BY <1>1, <1>2 DEF Fits, Place, Linked, Promised
  <2> QED  BY <1>5, <2>2, <2>3 DEF Fits, Place, Retrying, Told
<1> QED  BY <1>1, <1>3, <1>4, <1>5, <1>7, Onward DEF u, r

\* The run starts, or cannot.
LEMMA StartRunKeeps ==
    ASSUME SInv, NEW w \in Workers, StartRun(w)
    PROVE  StepOK
<1> DEFINE u == upd[proc[w].task]
           r == Mine(w)
           c == Started(child[r])
<1>1. Working(w) /\ proc[w].pc = "start" /\ UNCHANGED <<queue, environment, lock, client>>
  BY DEF StartRun, At, Working, Executing, Moves
<1>2. /\ Fits(proc[w], w, u, child[r], proc[w].task \in Sought) /\ ChildOK(child[r]) /\ child[r] \in Child
      /\ r \in Runs
  BY <1>1, Works
<1>3. /\ "childrun" \in Places /\ "childrun" \in Executing
      /\ "read" \in Places /\ "read" \in Executing
  BY DEF Places, Holding, Singles, Executing
<1>4. CASE Startable(r) /\ child' = [child EXCEPT ![r] = c] /\ Go(w, "childrun")
  <2>1. child[r].status = "queued" /\ ChildFree
    BY <1>4 DEF Startable
  <2>2. ChildOK(c) /\ Allowed(child[r], c)
    BY <1>2, <2>1, Transformers
  <2>3. c.status = "running" /\ c.manual = child[r].manual
    BY <1>2 DEF Started, Child
  <2> HIDE DEF c
  <2>4. Follows /\ child'[r] = c
    BY <1>1, <1>4, <2>2, RunChanged
  <2>5. PICK p \in Proc : proc' = [proc EXCEPT ![w] = p] /\ p.pc = "childrun" /\ p.task = proc[w].task
    BY <1>3, <1>4, Went
  <2> HIDE DEF u, r
  <2>6. Fits(p, w, u, child'[r], proc[w].task \in Sought)
    <3>1. u.source = "manual" => Reached(child'[r]) \/ proc[w].task \in Sought
      BY <1>1, <1>2, <2>1, <2>3, <2>4 DEF Fits, Place, Promised, Reached
    <3>2. u.status = "running" /\ u.worker = w /\ u.linked
      BY <1>1, <1>2 DEF Fits, Place, Linked, Promised
    <3> QED  BY <2>3, <2>4, <2>5, <3>1, <3>2 DEF Fits, Place, Told
  <2> QED  BY <1>1, <1>3, <2>4, <2>5, <2>6, Onward DEF u, r
<1>5. CASE Go(w, "read") /\ UNCHANGED child
  <2>1. Follows
    BY <1>5, SameChildren DEF SInv
  <2>2. PICK p \in Proc : proc' = [proc EXCEPT ![w] = p] /\ p.pc = "read" /\ p.task = proc[w].task
    BY <1>3, <1>5, Went
  <2> HIDE DEF u, r
  <2>3. Fits(p, w, u, child'[r], proc[w].task \in Sought)
    BY <1>1, <1>2, <1>5, <2>2 DEF Fits, Place, Linked, Promised, Retrying, Told
  <2> QED  BY <1>1, <1>3, <2>1, <2>2, <2>3, Onward DEF u, r
<1>6. \/ Startable(r) /\ child' = [child EXCEPT ![r] = c] /\ Go(w, "childrun")
      \/ Go(w, "read") /\ UNCHANGED child
  BY <1>2 DEF StartRun, SInv, Children
<1> QED  BY <1>4, <1>5, <1>6

\* The run ends, complete, failed or cancelled, and may be put back.
LEMMA ChildEndsKeeps ==
    ASSUME SInv, NEW w \in Workers, ChildEnds(w) \/ ChildRetry(w)
    PROVE  StepOK
<1> DEFINE u == upd[proc[w].task]
           r == Mine(w)
           asking == proc[w].task \in Sought
<1>1. Working(w) /\ proc[w].pc \in {"childrun"} \union Retrying
  BY DEF ChildEnds, ChildRetry, At, Working, Executing, Retrying
<1>2. /\ Fits(proc[w], w, u, child[r], asking) /\ child[r] \in Child /\ r \in Runs
      /\ proc[w].task \in Ids /\ Owned(proc[w].task, w) /\ u.slot \in Slots
  BY <1>1, Works DEF SInv, Placed, Owned
<1>3. \A pc \in {"read"} \union Retrying : pc \in Places /\ pc \in Executing
  BY DEF Places, Holding, Singles, Executing, Retrying
<1>4. u.source = "manual" => Reached(child[r]) \/ asking
  BY <1>1, <1>2 DEF Fits, Place, Promised, Retrying
<1>5. u.status = "running" /\ u.worker = w /\ u.linked
  BY <1>1, <1>2 DEF Fits, Place, Linked, Promised, Retrying
<1>6. ASSUME NEW pc \in {"read"} \union Retrying, Go(w, pc), Follows,
             UNCHANGED <<queue, environment, lock, client>>,
             u.source = "manual" => Reached(child'[r]) \/ asking
      PROVE  StepOK
  <2>0. pc \in Places
    BY <1>3
  <2>1. PICK p \in Proc : proc' = [proc EXCEPT ![w] = p] /\ p.pc = pc /\ p.task = proc[w].task
    BY <1>6, <2>0, Went
  <2>2. p.pc = pc /\ pc \notin {"check", "checkswitch", "childrun", "calendar"} /\ pc \notin Told
    BY <2>1 DEF Told, Retrying
  <2> HIDE DEF u, r, asking
  <2>3. Fits(p, w, u, child'[r], asking)
    BY <1>5, <1>6, <2>2 DEF Fits, Place
  <2> QED  BY <1>1, <1>3, <1>6, <2>1, <2>3, Onward DEF u, r, asking
<1>7. CASE ChildEnds(w)
  <2>1. child[r].status = "running" /\ Finish(w, r, "retry", "read")
    BY <1>2, <1>7 DEF ChildEnds, At, Fits
  <2>2. "retry" \in Places /\ "read" \in Places /\ "retry" \in Retrying
    BY <1>3 DEF Retrying
  <2>3. /\ \E pc \in {"retry", "read"} : Go(w, pc)
        /\ Follows /\ UNCHANGED <<queue, environment, lock, client>>
        /\ child'[r].manual = child[r].manual
    BY <1>2, <2>1, <2>2, Finishes
  <2>4. u.source = "manual" => Reached(child'[r]) \/ asking
    BY <1>4, <2>1, <2>3 DEF Reached
  <2> HIDE DEF u, r, asking
  <2> QED  BY <1>6, <2>2, <2>3, <2>4
<1>8. CASE RetryLook(w, r, "retryswitch", "putback", "read") \/ RetrySwitch(w, "putback", "read")
  <2>1. "retryswitch" \in Places /\ "putback" \in Places /\ "read" \in Places
        /\ {"retryswitch", "putback"} \subseteq Retrying
    BY <1>3 DEF Retrying
  <2>2. /\ \E pc \in {"retryswitch", "putback", "read"} : Go(w, pc)
        /\ Follows /\ UNCHANGED <<queue, environment, lock, client>> /\ Calm
    BY <1>2, <1>8, <2>1, Looks
  <2>3. ChildBorne(child[r], child'[r])
    BY <1>2, <2>2 DEF Calm
  <2>4. u.source = "manual" => Reached(child'[r]) \/ asking
    BY <1>4, <2>3 DEF Reached, ChildBorne
  <2> HIDE DEF u, r, asking
  <2> QED  BY <1>6, <2>1, <2>2, <2>4
<1>9. CASE PutBack(w, r, "read")
  <2>1. /\ Go(w, "read") /\ UNCHANGED <<queue, environment, lock, client>>
        /\ child' = [child EXCEPT ![r] = IF CanPutBack(@) THEN Again(@) ELSE @]
    BY <1>9 DEF PutBack, Moves
  <2>2. Follows /\ (Reached(child[r]) => Reached(child'[r]))
    BY <1>2, <2>1, PutFollows DEF SInv
  <2>3. u.source = "manual" => Reached(child'[r]) \/ asking
    BY <1>4, <2>2
  <2> HIDE DEF u, r, asking
  <2> QED  BY <1>6, <2>1, <2>2, <2>3
<1> QED  BY <1>7, <1>8, <1>9 DEF ChildEnds, ChildRetry

\* The status of the run decides whether the loop goes on.
LEMMA ReadKeeps ==
    ASSUME SInv, NEW w \in Workers, Read(w)
    PROVE  StepOK
<1> DEFINE u == upd[proc[w].task]
           r == Mine(w)
           s == child[r].status
<1>1. Working(w) /\ proc[w].pc = "read" /\ UNCHANGED <<queue, environment, child, lock, client>>
  BY DEF Read, At, Working, Executing, Reads
<1>2. /\ Fits(proc[w], w, u, child[r], proc[w].task \in Sought) /\ child[r] \in Child /\ proc[w] \in Proc
  BY <1>1, Works
<1>3. Follows
  BY <1>1, SameChildren DEF SInv
<1>4. s \in ChildStatuses
  BY <1>2 DEF Child, ChildStatuses
<1>5. CASE s = "queued"
  <2> DEFINE p == [proc[w] EXCEPT !.pc = "check", !.next = "wait"]
  <2>1. p \in Proc /\ p.pc = "check" /\ p.next = "wait" /\ p.task = proc[w].task /\ p.pc \in Executing
    BY <1>2 DEF Proc, Places, Holding, Singles, Executing
  <2>2. proc' = [proc EXCEPT ![w] = p]
    BY <1>5 DEF Read, CheckThen
  <2> HIDE DEF p, u, r
  <2>3. Fits(p, w, u, child'[r], proc[w].task \in Sought)
    BY <1>1, <1>2, <2>1 DEF Fits, Place, Linked, Promised, Retrying, Told
  <2> QED  BY <1>1, <1>3, <2>1, <2>2, <2>3, Onward DEF u, r
<1>6. CASE s # "queued"
  <2> DEFINE p == [proc[w] EXCEPT !.pc = "snapshot", !.etf = s]
  <2>2. proc' = [proc EXCEPT ![w] = p]
    BY <1>6 DEF Read
  <2> HIDE DEF s
  <2>1. p \in Proc /\ p.pc = "snapshot" /\ p.etf = s /\ p.task = proc[w].task /\ p.pc \in Executing
    BY <1>2, <1>4 DEF Proc, Places, Holding, Singles, Executing
  <2> HIDE DEF p
  <2>3. Fits(p, w, u, child'[r], proc[w].task \in Sought)
    BY <1>1, <1>2, <1>6, <2>1 DEF Fits, Place, Linked, Promised, Retrying, Told, s
  <2> QED  BY <1>1, <1>3, <2>1, <2>2, <2>3, Onward DEF u, r
<1> QED  BY <1>5, <1>6

\* The executor waits for the next try of the run, or is shut down.
LEMMA WaitKeeps ==
    ASSUME SInv, NEW w \in Workers, Wait(w)
    PROVE  StepOK
<1> DEFINE i == proc[w].task
           r == Mine(w)
<1>1. Working(w) /\ proc[w].pc = "wait" /\ UNCHANGED <<environment, child, lock, client>>
  BY DEF Wait, At, Working, Executing, Writes
<1>2. /\ Fits(proc[w], w, upd[i], child[r], proc[w].task \in Sought) /\ proc[w] \in Proc
      /\ upd[i] \in Update
  BY <1>1, Works
<1>3. Follows
  BY <1>1, SameChildren DEF SInv
<1>4. ASSUME NEW p \in Proc, Renew(i, w), proc' = [proc EXCEPT ![w] = p], p.task = i,
             \/ p.pc = "exec"
             \/ p.pc = "check" /\ p.next = "wait"
      PROVE  StepOK
  <2>1. upd[i].linked \in BOOLEAN
    BY <1>2 DEF Update
  <2>2. /\ UpdateNext /\ upd'[i].status = "running" /\ upd'[i].linked = upd[i].linked
        /\ upd'[i].slot = upd[i].slot /\ upd'[i].worker = w /\ upd'[i].source = upd[i].source
    BY <1>1, <1>4, <2>1, Writing DEF Renew
  <2>3. p.pc \in Executing
    BY <1>4 DEF Executing
  <2> HIDE DEF i, r
  <2>4. Fits(p, w, upd'[i], child'[r], proc[w].task \in Sought)
    BY <1>1, <1>2, <1>4, <2>2 DEF Fits, Place, Linked, Promised, Retrying, Told
  <2> HIDE DEF Executing
  <2> QED  BY <1>1, <1>3, <1>4, <2>2, <2>3, <2>4, Advance DEF i, r
<1>5. CASE Renew(i, w) /\ Go(w, "exec")
  <2>1. "exec" \in Places
    BY DEF Places, Holding, Singles, Executing
  <2>2. PICK p \in Proc : proc' = [proc EXCEPT ![w] = p] /\ p.pc = "exec" /\ p.task = i
    BY <1>5, <2>1, Went
  <2> QED  BY <1>4, <1>5, <2>2
<1>6. CASE Renew(i, w) /\ CheckThen(w, "wait")
  <2> DEFINE p == [proc[w] EXCEPT !.pc = "check", !.next = "wait"]
  <2>1. p \in Proc /\ p.pc = "check" /\ p.next = "wait" /\ p.task = i
    BY <1>2 DEF Proc, Places, Holding, Singles, Executing
  <2>2. proc' = [proc EXCEPT ![w] = p]
    BY <1>6 DEF CheckThen
  <2> HIDE DEF p
  <2> QED  BY <1>4, <1>6, <2>1, <2>2
<1>7. CASE proc' = [proc EXCEPT ![w].pc = "snapshot", ![w].etf = "none"] /\ UNCHANGED queue
  <2> DEFINE p == [proc[w] EXCEPT !.pc = "snapshot", !.etf = "none"]
  <2>0. "snapshot" \in Places /\ "snapshot" \in Executing /\ "none" \in ChildStatuses
    BY DEF Places, Holding, Executing, ChildStatuses
  <2>1. p \in Proc /\ p.pc = "snapshot" /\ p.etf = "none" /\ p.task = i /\ p.pc \in Executing
    <3> HIDE DEF Executing
    <3> QED  BY <1>2, <2>0 DEF Proc
  <2>2. proc' = [proc EXCEPT ![w] = p]
    BY <1>7
  <2> HIDE DEF p, i, r
  <2>3. Fits(p, w, upd[i], child'[r], proc[w].task \in Sought)
    BY <1>2, <2>1 DEF Fits, Place, Linked, Promised, Retrying, Told
  <2> QED  BY <1>1, <1>3, <1>7, <2>1, <2>2, <2>3, Onward DEF i, r
<1> QED  BY <1>5, <1>6, <1>7 DEF Wait

\* The end of the ETF branch.
LEMMA SnapshotKeeps ==
    ASSUME SInv, NEW w \in Workers, Snapshot(w)
    PROVE  StepOK
<1> DEFINE i == proc[w].task
           r == Mine(w)
           l == proc[w].etf # "none"
           s == child[r].snap
           p == [proc[w] EXCEPT !.pc = "check", !.next = "overseas", !.snap = s]
<1>1. Working(w) /\ proc[w].pc = "snapshot" /\ UNCHANGED <<environment, child, lock, client>>
  BY DEF Snapshot, At, Working, Executing, Writes
<1>2. /\ Fits(proc[w], w, upd[i], child[r], proc[w].task \in Sought) /\ proc[w] \in Proc
      /\ child[r] \in Child
  BY <1>1, Works
<1>3. Write(i, w, "running", l) /\ proc' = [proc EXCEPT ![w] = p]
  BY DEF Snapshot
<1>4. l \in BOOLEAN
  BY Zenon
<1>5. s \in BOOLEAN
  BY <1>2 DEF Child
<1> HIDE DEF l, s
<1>6. /\ p \in Proc /\ p.pc = "check" /\ p.next = "overseas" /\ p.task = i
      /\ p.etf = proc[w].etf /\ p.pc \in Executing
  BY <1>2, <1>5 DEF Proc, Places, Holding, Singles, Executing
<1> HIDE DEF p
<1>7. /\ UpdateNext /\ upd'[i].status = "running" /\ upd'[i].slot = upd[i].slot
      /\ upd'[i].worker = w
  BY <1>1, <1>3, <1>4, Writing
<1>8. Follows
  BY <1>1, SameChildren DEF SInv
<1> HIDE DEF i, r
<1>9. Fits(p, w, upd'[i], child'[r], proc[w].task \in Sought)
  BY <1>1, <1>2, <1>6, <1>7 DEF Fits, Place, Linked, Promised, Retrying, Told
<1> HIDE DEF Executing
<1> QED  BY <1>1, <1>3, <1>6, <1>7, <1>8, <1>9, Advance DEF i, r

\* The update closes, by its result or by a cancellation, and the lock is free.
LEMMA CloseKeeps ==
    ASSUME SInv, NEW w \in Workers, Overseas(w) \/ Stopped(w)
    PROVE  StepOK
<1> DEFINE a == proc[w].etf # "none"
           b == proc[w].next = "overseas" /\ proc[w].etf # "none"
<1>1. /\ Working(w) /\ lock' = None /\ Go(w, After(w))
      /\ UNCHANGED <<environment, child, client>>
  BY DEF Overseas, Stopped, At, Working, Executing
<1>2. PICK status \in Closed, l \in {a, b} : Write(proc[w].task, w, status, l)
  <2>1. CASE Overseas(w)
    <3>1. PICK market \in {"fresh", "stale", "none"} :
             Write(proc[w].task, w, Outcome(proc[w].etf, market, proc[w].snap), a)
      BY <2>1 DEF Overseas
    <3>2. Outcome(proc[w].etf, market, proc[w].snap) \in Closed
      BY DEF Outcome, Closed
    <3> QED  BY <3>1, <3>2
  <2>2. CASE Stopped(w)
    <3>1. Write(proc[w].task, w, "cancelled", b) /\ "cancelled" \in Closed
      BY <2>2 DEF Stopped, Closed
    <3> QED  BY <3>1
  <2> QED  BY <2>1, <2>2
<1>3. a \in BOOLEAN /\ b \in BOOLEAN
  BY Zenon
<1>4. UpdateNext
  BY <1>1, <1>2, <1>3, Writing
<1>5. Follows
  BY <1>1, SameChildren DEF SInv
<1>6. After(w) \in Places \ Holding /\ After(w) \notin Executing /\ After(w) \notin Singles
  BY DEF After, Places, Holding, Singles, Executing
<1>7. proc[w].pc \in Holding
  BY <1>1 DEF Working, Holding
<1> HIDE DEF Executing, Holding, Places
<1> QED  BY <1>1, <1>4, <1>5, <1>6, <1>7, Turns

-----------------------------------------------------------------------------
(***************************************************************************)
(* Every step, and what follows.                                           *)
(***************************************************************************)

\* The first state: no update, no run in the queue, no process started.
LEMMA InitHolds == ServiceInit => SInv /\ Collection!Init
<1> SUFFICES ASSUME ServiceInit
             PROVE  SInv /\ Collection!Init
  OBVIOUS
<1>1. \A r \in Runs : \E s \in BOOLEAN : child[r] = [NewChild EXCEPT !.snap = s]
  BY DEF ServiceInit
<1>2. \A r \in Runs : /\ child[r] \in Child /\ child[r].status = "none"
                      /\ child[r].tries = 0 /\ child[r].manual = FALSE
  <2>1. ASSUME NEW s \in BOOLEAN
        PROVE  LET c == [NewChild EXCEPT !.snap = s]
               IN c \in Child /\ c.status = "none" /\ c.tries = 0 /\ c.manual = FALSE
    <3>1. 0 \in 0..MaxAttempts
      BY DEF MaxAttempts
    <3> QED  BY <3>1 DEF NewChild, Child
  <2>2. ASSUME NEW r \in Runs
        PROVE  /\ child[r] \in Child /\ child[r].status = "none"
               /\ child[r].tries = 0 /\ child[r].manual = FALSE
    <3>1. PICK s \in BOOLEAN : child[r] = [NewChild EXCEPT !.snap = s]
      BY <1>1
    <3> QED  BY <2>1, <3>1
  <2> QED  BY <2>2
<1>3. child \in [Runs -> Child]
  BY <1>2 DEF ServiceInit
<1>4. Children
  BY <1>2, <1>3 DEF Children, ChildOK
<1>5. Table
  BY InitTable DEF ServiceInit
<1>6. Placed
  BY DEF Placed, ServiceInit, UpdateInit, NewUpdate
<1>7. Around
  BY DEF Around, ServiceInit, Client
<1>8. Process("new") \in Proc /\ Process("new").pc = "new" /\ "new" \notin Holding
  BY DEF Process, Proc, Places, ChildStatuses, Holding, Singles, Executing
<1>9. proc \in [Workers -> Proc] /\ \A w \in Workers : proc[w].pc = "new"
  BY <1>8 DEF ServiceInit
<1>10. Guarded
  BY <1>8, <1>9, NullAssumption DEF Guarded, ServiceInit
<1>11. \A w \in Workers : Serves(w)
  BY <1>9 DEF Serves, Working, Executing, Singles
<1>12. Collection!Init
  BY <1>2 DEF Collection!Init, Abstract
<1>13. Requests
  BY DEF Requests, Pending, ServiceInit
<1> QED  BY <1>4, <1>5, <1>6, <1>7, <1>9, <1>10, <1>11, <1>12, <1>13 DEF SInv

\* Every step keeps the invariant, and is a step of both queues or of none.
LEMMA NextKeeps == SInv /\ [ServiceNext]_svars => StepOK
<1> SUFFICES ASSUME SInv, [ServiceNext]_svars
             PROVE  StepOK
  OBVIOUS
<1>1. ASSUME NEW w \in Workers, Start(w) \/ Step(w) \/ Heartbeat(w) \/ Crash(w) \/ Stop(w)
      PROVE  StepOK
  <2>1. CASE Step(w)
    BY <2>1, ScheduleKeeps, AcquireKeeps, SwitchKeeps, TakeKeeps, LegacyKeeps, LegacyEndKeeps,
       CheckKeeps, CalendarKeeps, SubmitKeeps, LinkKeeps, PromoteKeeps, PromotingKeeps,
       AfterPromotionKeeps, ExecKeeps, StartRunKeeps, ChildEndsKeeps, ReadKeeps, WaitKeeps, SnapshotKeeps, CloseKeeps
       DEF Step
  <2> QED  BY <1>1, <2>1, StartKeeps, HeartbeatKeeps, CrashKeeps, StopKeeps
<1>2. ASSUME NEW c \in Clients, Ask(c) \/ Look(c) \/ Reach(c)
      PROVE  StepOK
  BY <1>2, AskKeeps, LookKeeps, ReachKeeps
<1>3. CASE Time \/ Toggle
  BY <1>3, TimeKeeps
<1>4. CASE UNCHANGED svars
  <2>1. UNCHANGED <<upd, rows, enabled, toggles, today, child, lock, proc, client>>
    BY <1>4 DEF svars, queue, environment
  <2>2. Calm
    BY <2>1, CalmRows
  <2>3. Around'
    BY <2>1 DEF SInv, Around
  <2>4. Follows
    BY <2>1, SameChildren DEF SInv
  <2> QED  BY <2>1, <2>2, <2>3, <2>4, Untouched
<1> QED  BY <1>1, <1>2, <1>3, <1>4 DEF ServiceNext

\* Every process is where its code is, beside the update and the run it works on.
THEOREM ServiceInvariance == ServiceSpec => []SInv
<1>1. ServiceInit => SInv
  BY InitHolds
<1>2. SInv /\ [ServiceNext]_svars => SInv'
  BY NextKeeps DEF StepOK
<1> QED  BY <1>1, <1>2, PTL DEF ServiceSpec

\* The processes and the people use the queue of updates by its transactions only: what
\* is proved of UpdateQueue holds of the whole.
THEOREM ServicesUseTheQueue == ServiceSpec => UpdateSpec
<1>1. ServiceInit => UpdateInit
  BY DEF ServiceInit
<1>2. SInv /\ [ServiceNext]_svars => [UpdateNext]_<<upd, rows>>
  BY NextKeeps DEF StepOK
<1> QED  BY <1>1, <1>2, ServiceInvariance, PTL DEF ServiceSpec, UpdateSpec

\* The table of updates is safe, and what a person asked for is kept, with any number of
\* services and web processes at work.
COROLLARY ServicesKeepTheQueue == ServiceSpec => []QueueSafe /\ ManualUpdatesStay
BY ServicesUseTheQueue, QueueIsSafe, ManualUpdatesAreKept

\* The runs that updates ask for, take over, withdraw, recover and execute do what the
\* collection queue promises.
THEOREM ChildrenFollowQueue == ServiceSpec => ChildQueue
<1>1. ServiceInit => Collection!Init
  BY InitHolds
<1>2. SInv /\ [ServiceNext]_svars => [Collection!Next]_(Collection!vars)
  BY NextKeeps DEF StepOK, Follows
<1> QED  BY <1>1, <1>2, ServiceInvariance, PTL DEF ServiceSpec, ChildQueue, Collection!Spec

\* The lock belongs to a live process, every process that executes an update owns it
\* however late its heartbeat, and a takeover of a running update reaches its run, unless
\* a request for it has met the run between its end and its retry.
THEOREM ServiceIsSafe == ServiceSpec => []ServiceSafe
<1>1. SInv => ServiceSafe
  <2> SUFFICES ASSUME SInv
               PROVE  ServiceSafe
    OBVIOUS
  <2>1. UpdateTypeOK /\ child \in [Runs -> Child]
    BY TableIsSafe DEF SInv, QueueSafe, Children
  <2>2. lock # None => Up(lock)
    BY DEF SInv, Guarded, Up, Holding, Singles, Executing
  <2>3. ASSUME NEW w \in Workers, Working(w)
        PROVE  /\ lock = w /\ Owned(proc[w].task, w)
               /\ Fits(proc[w], w, upd[proc[w].task], child[Mine(w)], proc[w].task \in Sought)
    BY <2>3, Works
  <2>4. ASSUME NEW w \in Workers, Working(w), IsManual(w), proc[w].pc \in Promised,
               \A c \in Clients : client[c].task = proc[w].task => client[c].pc = "done"
        PROVE  child[Mine(w)].manual \/ child[Mine(w)].status \notin {"queued", "running"}
    <3>1. proc[w].task \notin Sought
      BY <2>4 DEF Sought, Pending
    <3>2. Place(proc[w]) = proc[w].pc
      BY <2>4 DEF Place, Promised, Retrying
    <3> QED  BY <2>3, <2>4, <3>1, <3>2 DEF Fits, IsManual, Reached
  <2>5. TakeoverReachesRun
    BY <2>4 DEF TakeoverReachesRun, Promised, Retrying
  <2> QED  BY <2>1, <2>2, <2>3, <2>5 DEF ServiceSafe, ServiceTypeOK, OwnerKeepsUpdate
<1> QED  BY <1>1, ServiceInvariance, PTL

\* Who executes the overseas branch, and is not about to close the update, stays there.
LEMMA OnlyOverseasCloses ==
    ASSUME SInv, ServiceNext, NEW w \in Workers, At(w, "overseas")
    PROVE  \/ Overseas(w)
           \/ proc'[w] = Process("dead") /\ UNCHANGED upd
           \/ proc'[w].pc = "overseas" /\ proc'[w].task = proc[w].task
<1>1. lock = w /\ \A v \in Workers : v # w => proc[v].pc \notin Holding
  BY NullAssumption DEF At, SInv, Guarded, Holding, Executing
<1>2. proc[w] \in Proc
  BY DEF SInv
<1>3. CASE UNCHANGED proc
  BY <1>3 DEF At
<1>4. ASSUME NEW v \in Workers, v # w, Start(v) \/ Step(v) \/ Heartbeat(v) \/ Crash(v) \/ Stop(v)
      PROVE  proc'[w] = proc[w]
  <2>1. Start(v) \/ Schedule(v) \/ ScheduleEnqueue(v) \/ Acquire(v) \/ Legacy(v) \/ Heartbeat(v)
        \/ Crash(v) \/ Stop(v)
    <3>1. proc[v].pc \notin {"switch", "recover", "withdraw", "claim", "legacyclaim", "legacyrun",
             "legacyretry", "legacyswitch", "legacyput", "legacyover", "check", "checkswitch",
             "calendar", "submit", "submitted", "revive", "takeover", "demanded", "link",
             "promote", "promoting", "promoted", "exec", "start", "childrun", "retry",
             "retryswitch", "putback", "read", "wait", "snapshot", "overseas", "stopped"}
      BY <1>1, <1>4 DEF Holding, Singles, Executing
    <3> QED  BY <1>4, <3>1 DEF Step, At, Switch, Withdraw, Recover, TakeTask, LegacyStart,
          LegacyEnd, LegacyRetry, LegacyRelease, Check, CheckSwitch, Calendar, Submit,
          Submitted, Revive, Takeover, Demanded, Link, Promote, Promoting, AfterPromotion,
          Exec, StartRun, ChildEnds, ChildRetry, Read, Wait, Snapshot, Overseas, Stopped
  <2>2. \A pc : Go(v, pc) => proc'[w] = proc[w]
    BY <1>4 DEF Go, SInv
  <2>3. CASE Start(v) \/ Schedule(v) \/ ScheduleEnqueue(v) \/ Acquire(v) \/ Legacy(v)
    BY <2>2, <2>3 DEF Start, Schedule, ScheduleEnqueue, Acquire, Legacy
  <2>4. CASE Heartbeat(v) \/ Crash(v) \/ Stop(v)
    BY <1>4, <2>4 DEF Heartbeat, Crash, Stop, SInv
  <2> QED  BY <2>1, <2>3, <2>4
<1>5. CASE Step(w)
  BY <1>5 DEF Step, At, Schedule, ScheduleEnqueue, Acquire, Legacy, Switch, Withdraw, Recover,
     TakeTask, LegacyStart, LegacyEnd, LegacyRetry, LegacyRelease, Check, CheckSwitch, Calendar,
     Submit, Submitted, Revive, Takeover, Demanded, Link, Promote, Promoting, AfterPromotion,
     Exec, StartRun, ChildEnds, ChildRetry, Read, Wait, Snapshot, Overseas, Stopped
<1>6. CASE Start(w) \/ Heartbeat(w)
  BY <1>3, <1>6 DEF Start, Heartbeat, At
<1>7. CASE Crash(w)
  BY <1>7 DEF Crash, SInv, queue
<1>8. CASE Stop(w)
  BY <1>2, <1>8 DEF Stop, SInv, Proc, At
<1>9. \A c \in Clients : Ask(c) \/ Look(c) \/ Reach(c) => UNCHANGED proc
  BY DEF Ask, Look, Reach
<1>10. Toggle \/ Time => UNCHANGED proc
  BY DEF Toggle, Time, LeaseLapses, ChildLapses, DelayOver
<1> QED  BY <1>3, <1>4, <1>5, <1>6, <1>7, <1>8, <1>9, <1>10 DEF ServiceNext, At

\* An update closes in the overseas branch only after its run came to rest or could not be
\* asked for, and as "completed" only when the run is complete.
THEOREM UpdatesCloseAfterRun == ServiceSpec => ClosesAfterRun
<1>1. SInv /\ SInv' /\ ServiceNext => ClosesOnlyAfterRun
  <2> SUFFICES ASSUME SInv, SInv', ServiceNext, NEW w \in Workers, At(w, "overseas"),
                      upd'[proc[w].task].status # "running"
               PROVE  /\ proc[w].etf # "queued"
                      /\ upd'[proc[w].task].status = "completed" =>
                            child[Mine(w)].status = "completed"
    BY DEF ClosesOnlyAfterRun
  <2>1. Working(w) /\ proc[w].pc = "overseas"
    BY DEF At, Working, Executing
  <2>2. /\ Fits(proc[w], w, upd[proc[w].task], child[Mine(w)], proc[w].task \in Sought)
        /\ Owned(proc[w].task, w) /\ proc[w].task \in Ids
    BY <2>1, Works
  <2>3. proc[w].etf # "queued" /\ (proc[w].etf = "completed" => child[Mine(w)].status = "completed")
    <3>1. Place(proc[w]) \in Told
      BY <2>1 DEF Place, Told
    <3> QED  BY <2>2, <3>1 DEF Fits
  <2>4. CASE Overseas(w)
    <3>1. PICK market \in {"fresh", "stale", "none"}, l \in {proc[w].etf # "none"} :
             Write(proc[w].task, w, Outcome(proc[w].etf, market, proc[w].snap), l)
      BY <2>4 DEF Overseas
    <3>2. upd'[proc[w].task].status = Outcome(proc[w].etf, market, proc[w].snap)
      BY <2>2, <3>1 DEF Write, SInv, Table, Update
    <3>3. Outcome(proc[w].etf, market, proc[w].snap) = "completed" => proc[w].etf = "completed"
      BY DEF Outcome
    <3> QED  BY <2>3, <3>2, <3>3
  <2>5. CASE UNCHANGED upd
    BY <2>2, <2>5 DEF Owned
  <2>6. CASE proc'[w].pc = "overseas" /\ proc'[w].task = proc[w].task
    <3>1. Working(w)'
      BY <2>6 DEF Working, Executing
    <3>2. Fits(proc'[w], w, upd'[proc[w].task], child'[Mine(w)'], (proc[w].task \in Sought)')
      BY <2>6, <3>1 DEF SInv, Serves
    <3> QED  BY <3>2 DEF Fits
  <2> QED  BY <2>4, <2>5, <2>6, OnlyOverseasCloses
<1>2. SInv /\ SInv' /\ [ServiceNext]_svars => [ClosesOnlyAfterRun]_svars
  BY <1>1
<1> QED  BY <1>2, ServiceInvariance, PTL DEF ServiceSpec, ClosesAfterRun
=============================================================================
