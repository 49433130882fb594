---------------------------- MODULE RadarRefresh ----------------------------
(***************************************************************************)
(* A refresh of one universe and the snapshots it publishes: the refresher *)
(* (src/src/radar/refresh.py) and the store of immutable snapshots         *)
(* (src/src/radar/store.py).  The collector and the command `radar         *)
(* refresh` run refreshers beside one another: the command takes no lock.  *)
(* Each connection to the store is a step; a run is named by its place in  *)
(* the sequence of runs.  What prepares the history of an instrument is    *)
(* RadarHistory: here it succeeds or fails.                                *)
(***************************************************************************)
EXTENDS Integers, Sequences, FiniteSets

CONSTANTS
    Refreshers,
    Members,     \* Members[d]: the instruments in force on day d
    MaxRuns,     \* bound on the runs
    None

Dates == DOMAIN Members
Symbols == UNION {Members[d] : d \in Dates}

VARIABLES
    runs,    \* snapshot_runs with their snapshot_items
    work,    \* where each refresher is, and what it holds
    cancel   \* refreshers asked to stop

vars == <<runs, work, cancel>>

Idle == [pc |-> "idle", date |-> None, replaces |-> None, run |-> None, left |-> {},
         got |-> {}, copied |-> None]

Init == runs = <<>> /\ work = [r \in Refreshers |-> Idle] /\ cancel = {}

At(r, pc) == work[r].pc = pc
Go(r, w) == work' = [work EXCEPT ![r] = w]

\* latest_completed: ordered by the time of completion.
Completed == {i \in DOMAIN runs : runs[i].status = "completed"}
Newest(S) == IF S = {} THEN None ELSE CHOOSE i \in S : \A j \in S : runs[j].done <= runs[i].done
Stamp == 1 + Cardinality(Completed)

-----------------------------------------------------------------------------
\* The universe in force and the snapshot it would replace.
Begin(r, d) ==
    /\ At(r, "idle") /\ Len(runs) + Cardinality({q \in Refreshers : At(q, "create")}) < MaxRuns
    /\ LET p == Newest(Completed)
       IN Go(r, [Idle EXCEPT !.pc = "create", !.date = d,
                             !.replaces = IF p # None /\ runs[p].date = d THEN p ELSE None])
    /\ cancel' = cancel \ {r}
    /\ UNCHANGED runs

Create(r) ==
    /\ At(r, "create")
    /\ runs' = Append(runs, [date |-> work[r].date, status |-> "running", done |-> 0,
                             began |-> Stamp, replaces |-> work[r].replaces, items |-> <<>>])
    /\ Go(r, [work[r] EXCEPT !.pc = "prepare", !.run = Len(runs'), !.left = Members[work[r].date]])
    /\ UNCHANGED cancel

\* fail_run: an open run only.  What it was raised for goes on to the caller.
FailRun(r) ==
    /\ runs' = [runs EXCEPT ![work[r].run].status = IF @ = "running" THEN "failed" ELSE @]
    /\ Go(r, Idle)
    /\ UNCHANGED cancel

\* One instrument after another; the failure of one does not stop the others.
Prepare(r) ==
    /\ At(r, "prepare") /\ work[r].left # {} /\ r \notin cancel
    /\ LET i == CHOOSE i \in work[r].left : TRUE
       IN \E ok \in BOOLEAN :
              Go(r, [work[r] EXCEPT !.left = @ \ {i}, !.got = IF ok THEN @ \union {i} ELSE @])
    /\ UNCHANGED <<runs, cancel>>

NothingPrepared(w) == w.got = {}

\* The scores of what was prepared.
Score(r) ==
    /\ At(r, "prepare") /\ work[r].left = {} /\ r \notin cancel /\ ~NothingPrepared(work[r])
    /\ Go(r, [work[r] EXCEPT !.pc = "items", !.left = Members[work[r].date]])
    /\ UNCHANGED <<runs, cancel>>

NonePrepared(r) ==
    /\ At(r, "prepare") /\ work[r].left = {} /\ r \notin cancel /\ NothingPrepared(work[r])
    /\ FailRun(r)

\* A check of should_cancel: before each instrument, before the scores, and twice
\* before the snapshot is published.
Cancelled(r) ==
    /\ \/ At(r, "prepare")
       \/ At(r, "items") /\ work[r].left = {}
       \/ At(r, "publish")
    /\ r \in cancel
    /\ FailRun(r)

\* The scoring, a callback of the collector or a connection raises.
Raise(r) == work[r].pc \in {"prepare", "items", "add", "publish"} /\ FailRun(r)

Add(r, i, item) ==
    /\ runs[work[r].run].status = "running"
    /\ runs' = [runs EXCEPT ![work[r].run].items = [j \in DOMAIN @ \union {i} |-> IF j = i THEN item ELSE @[j]]]

Next1(r) == CHOOSE i \in work[r].left : TRUE

AddFresh(r) ==
    /\ At(r, "items") /\ work[r].left # {} /\ Next1(r) \in work[r].got
    /\ Add(r, Next1(r), [status |-> "fresh", source |-> work[r].run])
    /\ Go(r, [work[r] EXCEPT !.left = @ \ {Next1(r)}])
    /\ UNCHANGED cancel

HasHealthy(k, i) == i \in DOMAIN runs[k].items /\ runs[k].items[i].status = "fresh"

\* copy_latest_healthy_item: of the completed runs only, and fresh there.
Healthy(i) == Newest({k \in Completed : HasHealthy(k, i)})

CopyHealthy(r) ==
    /\ At(r, "items") /\ work[r].left # {} /\ Next1(r) \notin work[r].got
    /\ Go(r, [work[r] EXCEPT !.pc = "add", !.copied = Healthy(Next1(r))])
    /\ UNCHANGED <<runs, cancel>>

AddStale(r) ==
    /\ At(r, "add")
    /\ Add(r, Next1(r), LET k == work[r].copied
                        IN IF k = None THEN [status |-> "failed", source |-> None]
                           ELSE [status |-> "stale", source |-> runs[k].items[Next1(r)].source])
    /\ Go(r, [work[r] EXCEPT !.pc = "items", !.left = @ \ {Next1(r)}, !.copied = None])
    /\ UNCHANGED cancel

Written(r) ==
    /\ At(r, "items") /\ work[r].left = {} /\ r \notin cancel
    /\ Go(r, [work[r] EXCEPT !.pc = "publish"])
    /\ UNCHANGED <<runs, cancel>>

\* complete_run: from running only.
Publish(r) ==
    /\ At(r, "publish") /\ runs[work[r].run].status = "running"
    /\ runs' = [runs EXCEPT ![work[r].run].status = "completed", ![work[r].run].done = Stamp]
    /\ Go(r, Idle)
    /\ UNCHANGED cancel

-----------------------------------------------------------------------------
Cancel(r) == ~At(r, "idle") /\ r \notin cancel /\ cancel' = cancel \union {r} /\ UNCHANGED <<runs, work>>

\* The process dies; its run stays open for ever.
Crash(r) == ~At(r, "idle") /\ Go(r, Idle) /\ UNCHANGED <<runs, cancel>>

Next == \E r \in Refreshers :
    \/ \E d \in Dates : Begin(r, d)
    \/ Create(r) \/ Prepare(r) \/ Score(r) \/ NonePrepared(r) \/ Cancelled(r) \/ Raise(r)
    \/ AddFresh(r) \/ CopyHealthy(r) \/ AddStale(r) \/ Written(r) \/ Publish(r)
    \/ Cancel(r) \/ Crash(r)

Spec == Init /\ [][Next]_vars

-----------------------------------------------------------------------------
Items == [status : {"fresh", "stale", "failed"}, source : 1 .. MaxRuns \union {None}]

RefreshTypeOK ==
    /\ \A i \in DOMAIN runs :
          /\ runs[i].date \in Dates /\ runs[i].status \in {"running", "completed", "failed"}
          /\ {runs[i].done, runs[i].began} \subseteq 0 .. MaxRuns + 1
          /\ runs[i].replaces \in 1 .. MaxRuns \union {None}
          /\ DOMAIN runs[i].items \subseteq Symbols
          /\ \A s \in DOMAIN runs[i].items : runs[i].items[s] \in Items
    /\ cancel \subseteq Refreshers

\* A published snapshot has an item of every instrument in force on its day, at least
\* one of them fresh; what a stale item was copied from is published and was fetched
\* for its run itself; and what it replaces is a published snapshot of the same day.
SnapshotsSound ==
    \A i \in Completed :
        /\ DOMAIN runs[i].items = Members[runs[i].date]
        /\ \E s \in DOMAIN runs[i].items : runs[i].items[s].status = "fresh"
        /\ \A s \in DOMAIN runs[i].items :
              LET item == runs[i].items[s]
              IN /\ item.status = "fresh" => item.source = i
                 /\ item.status = "stale" => /\ item.source \in Completed \ {i}
                                             /\ runs[item.source].items[s].status = "fresh"
        /\ runs[i].replaces # None => /\ runs[i].replaces \in Completed
                                      /\ runs[runs[i].replaces].date = runs[i].date
                                      /\ runs[runs[i].replaces].done < runs[i].done

\* An instrument that a published snapshot had fresh before a run began is never left
\* without a value by that run, whatever runs beside it.
NoValueIsLost ==
    \A i, k \in Completed : runs[k].done < runs[i].began =>
        \A s \in DOMAIN runs[i].items : HasHealthy(k, s) => runs[i].items[s].status # "failed"

\* Step predicate: what is published, or failed, is never changed again.
ClosedRunsStay ==
    \A i \in DOMAIN runs : runs[i].status # "running" => runs'[i] = runs[i]
=============================================================================
