---------------------------- MODULE UpdateQueue ----------------------------
(***************************************************************************)
(* The persistent queue of combined updates (ETF pool, then overseas       *)
(* indices): the table radar_updates and the transactions of UpdateStore   *)
(* (src/src/radar/update_service.py).                                      *)
(*                                                                         *)
(* A slot stands for (universe_id, target_date); the slots without a       *)
(* target day are the ones the schedule uses.  Rows are numbered in the    *)
(* order of their INSERT and never deleted.  A lease is "live" until it    *)
(* lapses: no transaction depends on how much of it is left.               *)
(***************************************************************************)
EXTENDS Naturals

CONSTANTS
    Ids,        \* bound: numbers of rows
    Slots,      \* (universe_id, target_date)
    Scheduled,  \* slots of enabled pools without target day
    Days,       \* schedule keys
    Workers,    \* worker ids
    None        \* SQL NULL

ASSUME IdsAssumption == Ids \subseteq Nat \ {0}
ASSUME SlotsAssumption == Scheduled \subseteq Slots
ASSUME NullAssumption == None \notin Workers /\ None \notin Days

VARIABLES
    upd,   \* upd[i]: row i, "absent" before its INSERT
    rows   \* rows inserted so far

MaxAttempts == 3
Open   == {"queued", "running"}
Closed == {"completed", "partial", "failed", "cancelled"}

Update == [status : {"absent"} \union Open \union Closed, slot : Slots \union {None},
           source : {"manual", "automatic"}, day : Days \union {None},
           worker : Workers \union {None}, live : BOOLEAN, attempt : Nat,
           linked : BOOLEAN]

NewUpdate(status, slot, source, day) ==
    [status |-> status, slot |-> slot, source |-> source, day |-> day,
     worker |-> None, live |-> FALSE, attempt |-> 0, linked |-> FALSE]

UpdateInit == /\ upd = [i \in Ids |-> NewUpdate("absent", None, "automatic", None)]
              /\ rows = 0

OpenIn(slot) == {i \in Ids : upd[i].slot = slot /\ upd[i].status \in Open}
KeyedIn(slot, day) ==
    {i \in Ids : day # None /\ upd[i].slot = slot /\ upd[i].day = day}

KeyedOnly(slot, day) == KeyedIn(slot, day)

\* enqueue looks for an open row first, then for one with the schedule key.
Existing(slot, day) ==
    IF OpenIn(slot) # {} THEN OpenIn(slot) ELSE KeyedIn(slot, day)

\* A manual request takes an open row over; it touches neither lease nor owner.
Enqueue(slot, source, day) ==
    \/ /\ Existing(slot, day) = {}
       /\ rows + 1 \in Ids
       /\ upd' = [upd EXCEPT ![rows + 1] = NewUpdate("queued", slot, source, day)]
       /\ rows' = rows + 1
    \/ \E i \in Existing(slot, day) :
          /\ upd' = IF source = "manual" /\ upd[i].status \in Open
                    THEN [upd EXCEPT ![i].source = "manual"] ELSE upd
          /\ UNCHANGED rows

NoneRunning == \A i \in Ids : upd[i].status # "running"

Eligible(manualOnly) ==
    {i \in Ids : upd[i].status = "queued" /\ (manualOnly => upd[i].source = "manual")}

\* claim: the oldest eligible row, and only when none is running.
Claim(i, w, manualOnly) ==
    /\ NoneRunning
    /\ i \in Eligible(manualOnly) /\ \A j \in Eligible(manualOnly) : i <= j
    /\ upd' = [upd EXCEPT ![i].status = "running", ![i].worker = w,
                          ![i].live = TRUE, ![i].attempt = @ + 1]
    /\ UNCHANGED rows

NoClaim(manualOnly) == ~NoneRunning \/ Eligible(manualOnly) = {}

Owned(i, w) == upd[i].status = "running" /\ upd[i].worker = w

\* update: every write of the owner renews the lease.  A closing one leaves
\* worker_id as it was.
Write(i, w, status, linked) ==
    /\ Owned(i, w)
    /\ upd' = [upd EXCEPT ![i].status = status, ![i].live = TRUE, ![i].linked = linked]
    /\ UNCHANGED rows

Renew(i, w) == Write(i, w, "running", upd[i].linked)

RecoveredToRetryWait(r) == [r EXCEPT !.status = "retry_wait", !.worker = None]
Recovered(r) ==
    [r EXCEPT !.status = IF r.attempt >= MaxAttempts THEN "failed" ELSE "queued",
              !.worker = None]

Lapsed(r) == r.status = "running" /\ ~r.live

\* recover_expired
RecoverExpired ==
    /\ upd' = [i \in Ids |-> IF Lapsed(upd[i]) THEN Recovered(upd[i]) ELSE upd[i]]
    /\ UNCHANGED rows

WithdrawnAny(r) == [r EXCEPT !.status = IF @ = "queued" THEN "cancelled" ELSE @]

Withdrawn(r) ==
    IF r.source = "automatic" /\ r.status = "queued"
    THEN [r EXCEPT !.status = "cancelled"] ELSE r

\* cancel_automatic: running rows stop by themselves at the next boundary.
CancelAutomatic == /\ upd' = [i \in Ids |-> Withdrawn(upd[i])]
                   /\ UNCHANGED rows

\* The lease runs out, whether or not its owner is still alive.
Lapse(i) == /\ upd[i].status = "running" /\ upd[i].live
            /\ upd' = [upd EXCEPT ![i].live = FALSE]
            /\ UNCHANGED rows

UpdateNext ==
    \/ \E slot \in Slots : Enqueue(slot, "manual", None)
    \/ \E slot \in Scheduled, day \in Days : Enqueue(slot, "automatic", day)
    \/ \E i \in Ids, w \in Workers :
          \/ \E manualOnly \in BOOLEAN : Claim(i, w, manualOnly)
          \/ \E status \in {"running"} \union Closed, linked \in BOOLEAN :
                Write(i, w, status, linked)
          \/ Renew(i, w)
    \/ \E i \in Ids : Lapse(i)
    \/ RecoverExpired
    \/ CancelAutomatic

UpdateSpec == UpdateInit /\ [][UpdateNext]_<<upd, rows>>

-----------------------------------------------------------------------------
\* Every column keeps to its domain, and exactly the first rows are present.
UpdateTypeOK == /\ upd \in [Ids -> Update]
                /\ rows \in Nat
                /\ \A i \in Ids : upd[i].status = "absent" <=> i > rows

\* The two unique indexes of the table never refuse an INSERT, and repeated
\* clicks, schedules and recoveries share one open update per slot: enqueue is
\* the only thing that keeps the INSERT from failing with an integrity error.
OneOpenPerSlot ==
    \A i, j \in Ids :
        /\ upd[i].status \in Open /\ upd[j].status \in Open
        /\ upd[i].slot = upd[j].slot
        => i = j
OncePerScheduleKey ==
    \A i, j \in Ids : upd[i].day # None /\ upd[i].day = upd[j].day
                      /\ upd[i].slot = upd[j].slot => i = j

\* One combined update runs at a time, and it has an owner.
OneUpdateRunning ==
    /\ \A i, j \in Ids : upd[i].status = "running" /\ upd[j].status = "running" => i = j
    /\ \A i \in Ids : upd[i].status = "running" => upd[i].worker # None

\* An update is executed at most three times, whatever is recovered or taken over.
UpdateBudget == \A i \in Ids : /\ upd[i].attempt <= MaxAttempts
                               /\ upd[i].status = "queued" => upd[i].attempt < MaxAttempts

\* What the rows of the queue keep to, whoever asks, claims and recovers.
QueueSafe == UpdateTypeOK /\ OneOpenPerSlot /\ OncePerScheduleKey /\ OneUpdateRunning /\ UpdateBudget

\* Action property: a closed update stays as it is, and one a person asked for
\* is never withdrawn from the queue nor made automatic again.
ManualUpdatesStay ==
    [][\A i \in Ids :
          /\ upd[i].status \in Closed => upd'[i] = upd[i]
          /\ upd[i].status # "absent" /\ upd[i].source = "manual" =>
                /\ upd'[i].source = "manual"
                /\ upd[i].status = "queued" => upd'[i].status # "cancelled"]_<<upd, rows>>
=============================================================================
