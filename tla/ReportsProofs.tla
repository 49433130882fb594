---------------------------- MODULE ReportsProofs ----------------------------
(***************************************************************************)
(* Proofs about PushRuns, ReportArchive and StockReport, for every number  *)
(* of subscriptions, runs, reports, sweepers, faults and crashes, and for  *)
(* all data a report may be made of.  None of the properties is inductive. *)
(* For the runs, RowInv says what a row and its deliveries are for each    *)
(* place its thread may be at: a thread that pushes has a running row, so  *)
(* two of one subscription would be two active runs, which the unique      *)
(* index forbids; and a message is at most one ahead of the counters until *)
(* a statement fails.  For the archive, ReportOK says which versions the   *)
(* two files of a report hold at each place of its save or retry, and that *)
(* an old report has neither; SweepOK that the unit in a sweep's hand is   *)
(* old, so no writer is left to change its files between the check and the *)
(* deletion.  For a report, LevelsOK says what a level tells of the data   *)
(* and that a stage that raised left none, ResultsOK that the results are  *)
(* those of the data but for the analysers that raised; the total is then  *)
(* a rounded weighted mean of points between 0 and 10.                     *)
(* At the end, the backtests of a stock (StockBacktest).                   *)
(***************************************************************************)
EXTENDS StockReport, PushRuns, ReportArchive, Sequences, FiniteSetTheorems, SequenceTheorems,
        WellFoundedInduction, TLAPS

\* A row, the place of its thread, its messages and the statements that failed so far.
RowInv(row, place, n, f) ==
    /\ row.status = "absent" => row = Unused /\ place = "none" /\ n = 0
    /\ place = "begin" => row.status = "queued"
    /\ place \in Pushing \union {"abort", "close"} => row.status = "running"
    /\ place = "rescue" => row.status \in Active \union {"succeeded", "partial", "failed", "deleted"}
    /\ place = "verify" => row.status \in {"succeeded", "partial", "failed", "deleted"}
    /\ place # "none" => ~row.orphan
    /\ row.status # "deleted" =>
         /\ row.ok <= row.processed /\ row.processed <= row.total
         /\ row.ok <= n /\ n <= row.ok + 1 + f
         /\ place \notin {"none", "counted"} => n <= row.ok + f
         /\ place = "counted" => row.ok < n
         /\ place \in {"send", "counted", "missed"} => row.processed < row.total
         /\ place \in {"begin", "symbol", "send", "close"} => n <= row.processed
         /\ place \in {"counted", "missed"} => n <= row.processed + 1
         /\ place = "close" => row.processed = row.total
         /\ row.status = "succeeded" => n = row.total
         /\ row.status = "partial" => row.ok \in 1 .. row.total - 1

\* One active run of a subscription, which exists.
OneActive == \A r, q \in Runs : /\ run[r].status \in Active /\ run[q].status \in Active
                                /\ run[r].sub = run[q].sub
                                => r = q
ActiveHasSub == \A r \in Runs : run[r].status \in Active => run[r].sub \in Subs /\ sub[run[r].sub].present

PInv == /\ PushTypeOK
        /\ \A r \in Runs : RowInv(run[r], thread[r], sent[r], faults)
        /\ OneActive /\ ActiveHasSub
        /\ edit # NULL => edit.row.present

USE NullAssumption, BoundsAssumption
USE DEF Active, Closed, Pushing, Places

-----------------------------------------------------------------------------
\* The invariant implies what the run checks.
LEMMA PInvIsSafe == PInv => PushSafe
<1> SUFFICES ASSUME PInv PROVE PushSafe
  OBVIOUS
<1>1. OnePusher
  BY DEF PInv, RowInv, OneActive, OnePusher
<1>2. RowsTellDeliveries
  BY DEF PInv, RowInv, RowsTellDeliveries, PushTypeOK, Run
<1>3. OpenRunsHaveSubscription
  BY DEF PInv, ActiveHasSub, OpenRunsHaveSubscription
<1> QED  BY <1>1, <1>2, <1>3 DEF PushSafe

\* A failing statement only widens what the row may be behind.
LEMMA MoreFaults ==
    ASSUME NEW row \in Run, NEW place \in Places, NEW n \in Nat, NEW f \in Nat, NEW g \in Nat,
           f <= g, RowInv(row, place, n, f)
    PROVE  RowInv(row, place, n, g)
BY DEF RowInv, Run

\* The row of an id not used before.
LEMMA UnusedRow == Unused \in Run /\ \A f \in Nat : RowInv(Unused, "none", 0, f)
BY DEF Unused, RowInv, Run

\* The invariant holds at the start.
LEMMA PushInitInv == PushInit => PInv
<1> SUFFICES ASSUME PushInit PROVE PInv
  OBVIOUS
<1>1. sub \in [Subs -> Row]
  <2>1. \A e \in Switches : [present |-> TRUE, enabled |-> e, size |-> MaxSymbols] \in Row
    BY DEF Row, Sizes
  <2> QED  BY <2>1 DEF PushInit
<1>2. PushTypeOK
  BY <1>1, UnusedRow DEF PushInit, PushTypeOK
<1>3. \A r \in Runs : RowInv(run[r], thread[r], sent[r], faults)
  BY UnusedRow DEF PushInit
<1>4. OneActive /\ ActiveHasSub
  BY DEF PushInit, OneActive, ActiveHasSub, Unused
<1> QED  BY <1>2, <1>3, <1>4 DEF PInv, PushInit

\* A step of the thread of r changes r alone, and opens no run.
Moves(r, row, place, n) ==
    /\ run' = [run EXCEPT ![r] = row] /\ thread' = [thread EXCEPT ![r] = place]
    /\ sent' = [sent EXCEPT ![r] = n] /\ (NoFault \/ Fault)
    /\ Rest

\* Such a step keeps the invariant when it keeps what is said of that row.
LEMMA OneRowKeeps ==
    ASSUME PInv, NEW r \in Runs, NEW row \in Run, NEW place \in Places, NEW n \in Nat,
           Moves(r, row, place, n), RowInv(row, place, n, faults'), row.sub = run[r].sub,
           row.status \in Active => run[r].status \in Active
    PROVE  PInv'
<1> USE DEF Moves, Rest
<1>1. faults' \in 0 .. MaxFaults /\ faults <= faults'
  BY DEF PInv, PushTypeOK, Fault, NoFault
<1>2. PushTypeOK'
  BY <1>1 DEF PInv, PushTypeOK
<1>3. \A q \in Runs : RowInv(run[q], thread[q], sent[q], faults)'
  <2> SUFFICES ASSUME NEW q \in Runs PROVE RowInv(run'[q], thread'[q], sent'[q], faults')
    OBVIOUS
  <2>1. CASE q = r
    BY <2>1 DEF PInv, PushTypeOK
  <2>2. CASE q # r
    <3>1. run'[q] = run[q] /\ thread'[q] = thread[q] /\ sent'[q] = sent[q]
      BY <2>2 DEF PInv, PushTypeOK
    <3>2. RowInv(run[q], thread[q], sent[q], faults)
      BY DEF PInv
    <3>3. run[q] \in Run /\ thread[q] \in Places /\ sent[q] \in Nat /\ faults \in Nat /\ faults' \in Nat
      BY <1>1 DEF PInv, PushTypeOK
    <3>4. RowInv(run[q], thread[q], sent[q], faults')
      BY <1>1, <3>2, <3>3, MoreFaults
    <3> QED  BY <3>1, <3>4
  <2> QED  BY <2>1, <2>2
<1>4. \A q \in Runs : run'[q].status \in Active => run[q].status \in Active /\ run'[q].sub = run[q].sub
  BY DEF PInv, PushTypeOK
<1>5. OneActive' /\ ActiveHasSub'
  BY <1>4 DEF PInv, OneActive, ActiveHasSub
<1> QED  BY <1>2, <1>3, <1>5 DEF PInv

\* What the invariant says of one run.
RunFacts(r) == /\ run[r] \in Run /\ thread[r] \in Places /\ sent[r] \in Nat /\ faults \in Nat
               /\ RowInv(run[r], thread[r], sent[r], faults)
               /\ NoFault => faults' = faults
               /\ Fault => faults' = faults + 1
               /\ UNCHANGED run => run' = [run EXCEPT ![r] = run[r]]
               /\ UNCHANGED sent => sent' = [sent EXCEPT ![r] = sent[r]]

\* Those facts hold of every run.
LEMMA RunTypes == ASSUME PInv, NEW r \in Runs PROVE RunFacts(r)
BY DEF PInv, PushTypeOK, NoFault, Fault, RunFacts

-----------------------------------------------------------------------------
(* The steps of the thread of a run.                                       *)

\* start_run turns a queued row into a running one and pushes nothing.
LEMMA BeginKeeps == ASSUME PInv, NEW r \in Runs, Begin(r) PROVE PInv'
<1> RunFacts(r)
  BY RunTypes
<1> USE DEF RunFacts
<1>1. CASE NoFault /\ Goto(r, "symbol") /\ run' = [run EXCEPT ![r].status = "running"]
  <2> DEFINE row == [run[r] EXCEPT !.status = "running"]
  <2>1. row \in Run /\ RowInv(row, "symbol", sent[r], faults')
    BY <1>1 DEF Begin, Run, RowInv, NoFault, Unused
  <2>2. run' = [run EXCEPT ![r] = row]
    BY <1>1
  <2>3. row.sub = run[r].sub /\ run[r].status = "queued"
    BY DEF Begin, Run, RowInv
  <2>4. Moves(r, row, "symbol", sent[r])
    BY <1>1, <2>2 DEF Begin, Goto, Moves
  <2> QED  BY <2>1, <2>3, <2>4, OneRowKeeps
<1>2. CASE Fault /\ Goto(r, "rescue") /\ UNCHANGED run
  <2>1. RowInv(run[r], "rescue", sent[r], faults')
    BY <1>2 DEF Begin, Run, RowInv
  <2>2. Moves(r, run[r], "rescue", sent[r])
    BY <1>2 DEF Begin, Goto, Moves
  <2> QED  BY <2>1, <2>2, OneRowKeeps
<1>3. run[r].status = "queued"
  BY DEF Begin, RowInv
<1> QED  BY <1>1, <1>2, <1>3 DEF Begin, Startable

\* Taking the next symbol, or none being left, leaves the counters alone.
LEMMA SymbolKeeps == ASSUME PInv, NEW r \in Runs, Symbol(r) PROVE PInv'
<1> RunFacts(r)
  BY RunTypes
<1> USE DEF RunFacts
<1>1. PICK place \in {"send", "close", "abort"} :
        /\ Goto(r, place) /\ (NoFault \/ Fault)
        /\ place = "send" => run[r].processed < run[r].total
        /\ place = "close" => run[r].processed >= run[r].total
  BY DEF Symbol, SymbolsOf
<1>2. RowInv(run[r], place, sent[r], faults')
  BY <1>1 DEF Symbol, Run, RowInv
<1>3. Moves(r, run[r], place, sent[r])
  BY <1>1 DEF Symbol, Goto, Moves
<1> QED  BY <1>2, <1>3, OneRowKeeps

\* A message that leaves is one ahead of the counters.
LEMMA SendKeeps == ASSUME PInv, NEW r \in Runs, Send(r) PROVE PInv'
<1> RunFacts(r)
  BY RunTypes
<1> USE DEF RunFacts
<1>1. CASE Goto(r, "counted") /\ sent' = [sent EXCEPT ![r] = @ + 1]
  <2>1. RowInv(run[r], "counted", sent[r] + 1, faults')
    BY <1>1 DEF Send, Run, RowInv, NoFault
  <2>2. Moves(r, run[r], "counted", sent[r] + 1)
    BY <1>1 DEF Send, Goto, Moves, NoFault
  <2> QED  BY <2>1, <2>2, OneRowKeeps
<1>2. CASE Goto(r, "missed") /\ UNCHANGED sent
  <2>1. RowInv(run[r], "missed", sent[r], faults')
    BY <1>2 DEF Send, Run, RowInv, NoFault
  <2>2. Moves(r, run[r], "missed", sent[r])
    BY <1>2 DEF Send, Goto, Moves, NoFault
  <2> QED  BY <2>1, <2>2, OneRowKeeps
<1> QED  BY <1>1, <1>2 DEF Send

\* advance_run counts what was sent, or the failure; it may fail itself.
LEMMA AdvanceKeeps == ASSUME PInv, NEW r \in Runs, Advance(r) PROVE PInv'
<1> RunFacts(r)
  BY RunTypes
<1> USE DEF RunFacts
<1>1. CASE /\ NoFault /\ Goto(r, "symbol") /\ UNCHANGED sent
           /\ run' = [run EXCEPT ![r].processed = @ + 1,
                                 ![r].ok = IF thread[r] = "counted" THEN @ + 1 ELSE @]
  <2> DEFINE done == run[r].processed + 1
             good == IF thread[r] = "counted" THEN run[r].ok + 1 ELSE run[r].ok
             row == [run[r] EXCEPT !.processed = done, !.ok = good]
  <2>1. thread[r] \in {"counted", "missed"} /\ run[r].status = "running"
    BY DEF Advance, RowInv
  <2>2. done \in Nat /\ good \in Nat
    BY DEF Run
  <2>3. /\ row \in Run /\ row.sub = run[r].sub /\ row.status = "running" /\ row.orphan = run[r].orphan
        /\ row.total = run[r].total /\ row.processed = done /\ row.ok = good
    <3> HIDE DEF done, good
    <3> QED  BY <2>1, <2>2 DEF Run
  <2>4. RowInv(row, "symbol", sent[r], faults')
    <3> HIDE DEF row
    <3> QED  BY <1>1, <2>1, <2>3 DEF Run, RowInv
  <2>5. run' = [run EXCEPT ![r] = row]
    BY <1>1 DEF PInv, PushTypeOK
  <2>6. Moves(r, row, "symbol", sent[r])
    BY <1>1, <2>5 DEF Advance, Goto, Moves
  <2> HIDE DEF row
  <2> QED  BY <2>1, <2>3, <2>4, <2>6, OneRowKeeps
<1>2. CASE Fault /\ UNCHANGED <<run, sent>> /\ Goto(r, IF thread[r] = "counted" THEN "missed" ELSE "abort")
  <2> DEFINE place == IF thread[r] = "counted" THEN "missed" ELSE "abort"
  <2>1. RowInv(run[r], place, sent[r], faults')
    BY <1>2 DEF Advance, Run, RowInv, Fault
  <2>2. Moves(r, run[r], place, sent[r])
    BY <1>2 DEF Advance, Goto, Moves
  <2> QED  BY <2>1, <2>2, OneRowKeeps
<1>3. \/ /\ NoFault /\ Goto(r, "symbol")
         /\ run' = [run EXCEPT ![r].processed = @ + 1,
                               ![r].ok = IF thread[r] = "counted" THEN @ + 1 ELSE @]
      \/ Fault /\ Goto(r, IF thread[r] = "counted" THEN "missed" ELSE "abort") /\ UNCHANGED run
  BY DEF Advance
<1>4. UNCHANGED sent
  BY DEF Advance
<1> QED  BY <1>1, <1>2, <1>3, <1>4

\* finish_run closes the row as its counters say.
LEMMA CloseKeeps == ASSUME PInv, NEW r \in Runs, Close(r) PROVE PInv'
<1> RunFacts(r)
  BY RunTypes
<1> USE DEF RunFacts
<1> DEFINE row == [run[r] EXCEPT !.status = FinalStatus(run[r])]
<1>1. row \in Run /\ row.sub = run[r].sub /\ row.status \in {"succeeded", "partial", "failed"}
  BY DEF FinalStatus, Run
<1>2. RowInv(row, "verify", sent[r], faults') /\ RowInv(row, "rescue", sent[r], faults')
  BY <1>1 DEF Close, Run, RowInv, FinalStatus
<1>3. RowInv(run[r], "rescue", sent[r], faults')
  BY DEF Close, Run, RowInv
<1>7. run[r].status = "running"
  BY DEF Close, RowInv
<1>4. CASE run' = [run EXCEPT ![r] = row] /\ Goto(r, "verify")
  <2>1. Moves(r, row, "verify", sent[r])
    BY <1>4 DEF Close, Goto, Moves
  <2> QED  BY <1>1, <1>2, <1>7, <2>1, OneRowKeeps
<1>5. CASE run' = [run EXCEPT ![r] = row] /\ Goto(r, "rescue")
  <2>1. Moves(r, row, "rescue", sent[r])
    BY <1>5 DEF Close, Goto, Moves
  <2> QED  BY <1>1, <1>2, <1>7, <2>1, OneRowKeeps
<1>6. CASE UNCHANGED run /\ Goto(r, "rescue")
  <2>1. Moves(r, run[r], "rescue", sent[r])
    BY <1>6 DEF Close, Goto, Moves
  <2> QED  BY <1>3, <1>7, <2>1, OneRowKeeps
<1> QED  BY <1>4, <1>5, <1>6 DEF Close

\* A thread that cannot go on closes its row as failed.
LEMMA GiveUpKeeps == ASSUME PInv, NEW r \in Runs, GiveUp(r) PROVE PInv'
<1> RunFacts(r)
  BY RunTypes
<1> USE DEF RunFacts
<1>1. CASE /\ thread[r] = "rescue" /\ NoFault /\ Goto(r, "none")
           /\ run' = [run EXCEPT ![r].orphan = TRUE]
  <2> DEFINE row == [run[r] EXCEPT !.orphan = TRUE]
  <2>1. row \in Run /\ row.status = run[r].status /\ row.sub = run[r].sub /\ RowInv(row, "none", sent[r], faults')
    BY <1>1 DEF Run, RowInv
  <2>2. Moves(r, row, "none", sent[r])
    BY <1>1 DEF GiveUp, Goto, Moves
  <2> QED  BY <2>1, <2>2, OneRowKeeps
<1>2. CASE /\ NoFault /\ Goto(r, IF thread[r] = "abort" THEN "verify" ELSE "none")
           /\ run' = IF run[r].status = "deleted" THEN run ELSE [run EXCEPT ![r].status = "failed"]
  <2> DEFINE row == IF run[r].status = "deleted" THEN run[r] ELSE [run[r] EXCEPT !.status = "failed"]
             place == IF thread[r] = "abort" THEN "verify" ELSE "none"
  <2>1. row \in Run /\ row.sub = run[r].sub /\ row.status \notin Active
    BY DEF Run
  <2>2. RowInv(row, place, sent[r], faults')
    BY <1>2, <2>1 DEF GiveUp, Run, RowInv
  <2>3. Moves(r, row, place, sent[r])
    BY <1>2 DEF GiveUp, Goto, Moves
  <2> QED  BY <2>1, <2>2, <2>3, OneRowKeeps
<1>3. CASE Fault /\ UNCHANGED run /\ Goto(r, IF thread[r] = "abort" THEN "rescue" ELSE "none")
  <2> DEFINE place == IF thread[r] = "abort" THEN "rescue" ELSE "none"
  <2>1. RowInv(run[r], place, sent[r], faults')
    BY <1>3 DEF GiveUp, Run, RowInv
  <2>2. Moves(r, run[r], place, sent[r])
    BY <1>3 DEF GiveUp, Goto, Moves
  <2> QED  BY <2>1, <2>2, OneRowKeeps
<1> QED  BY <1>1, <1>2, <1>3 DEF GiveUp

\* A run that is verified has been closed: there is nothing left to close.
LEMMA VerifyKeeps == ASSUME PInv, NEW r \in Runs, Verify(r) PROVE PInv' /\ UNCHANGED run
<1> RunFacts(r)
  BY RunTypes
<1> USE DEF RunFacts
<1>1. run' = run
  BY DEF Verify, RowInv
<1>2. RowInv(run[r], "none", sent[r], faults')
  BY DEF Verify, Run, RowInv
<1>3. Moves(r, run[r], "none", sent[r])
  BY <1>1 DEF Verify, Goto, Moves
<1> QED  BY <1>1, <1>2, <1>3, OneRowKeeps

-----------------------------------------------------------------------------
(* Asking, editing, deleting, and the processes.                           *)

\* Steps that leave the runs alone.
LEMMA RunsUntouched ==
    ASSUME PInv, UNCHANGED <<run, thread, sent, faults>>, PushTypeOK',
           \A s \in Subs : sub[s].present => sub'[s].present,
           edit' # NULL => edit'.row.present
    PROVE  PInv'
BY DEF PInv, OneActive, ActiveHasSub

\* A request that looks a subscription up changes no row.
LEMMA AskKeeps == ASSUME PInv, NEW c \in Callers, NEW s \in Subs, Ask(c, s) PROVE PInv'
<1>1. PushTypeOK'
  BY DEF PInv, PushTypeOK, Ask
<1> QED  BY <1>1, RunsUntouched DEF Ask, PInv

\* A command that reads a subscription to edit it reads one that is there.
LEMMA EditReadKeeps == ASSUME PInv, NEW s \in Subs, EditRead(s) PROVE PInv'
<1>1. PICK row \in Row : edit' = [s |-> s, row |-> row] /\ row.present
  <2>1. sub[s] \in Row /\ sub[s].present
    BY DEF PInv, PushTypeOK, EditRead
  <2>2. CASE up /\ \E e \in Switches, n \in Sizes :
                   edit' = [s |-> s, row |-> [present |-> TRUE, enabled |-> e, size |-> n]]
    <3>1. PICK e \in Switches, n \in Sizes :
                   edit' = [s |-> s, row |-> [present |-> TRUE, enabled |-> e, size |-> n]]
      BY <2>2
    <3> DEFINE row == [present |-> TRUE, enabled |-> e, size |-> n]
    <3>2. row \in Row /\ row.present
      BY DEF Row
    <3> QED  BY <3>1, <3>2
  <2>3. CASE \E e \in Switches : edit' = [s |-> s, row |-> [sub[s] EXCEPT !.enabled = e]]
    <3>1. PICK e \in Switches : edit' = [s |-> s, row |-> [sub[s] EXCEPT !.enabled = e]]
      BY <2>3
    <3> DEFINE row == [sub[s] EXCEPT !.enabled = e]
    <3>2. row \in Row /\ row.present
      BY <2>1 DEF Row
    <3> QED  BY <3>1, <3>2
  <2> QED  BY <2>2, <2>3 DEF EditRead
<1>2. PushTypeOK'
  BY <1>1 DEF PInv, PushTypeOK, EditRead
<1> QED  BY <1>1, <1>2, RunsUntouched DEF EditRead

\* An edit is written only over a subscription that is there.
LEMMA EditWriteKeeps == ASSUME PInv, EditWrite PROVE PInv'
<1>1. edit.s \in Subs /\ edit.row \in Row /\ edit.row.present
  BY DEF PInv, PushTypeOK, EditWrite
<1>2. PushTypeOK' /\ \A s \in Subs : sub[s].present => sub'[s].present
  BY <1>1 DEF PInv, PushTypeOK, EditWrite
<1> QED  BY <1>2, RunsUntouched DEF EditWrite

\* queue_run puts in one row, of a subscription that has no active run.
LEMMA QueueKeeps == ASSUME PInv, NEW c \in Callers, Queue(c) PROVE PInv'
<1> DEFINE s == ask[c]
<1>1. s \in Subs
  BY DEF PInv, PushTypeOK, Queue
<1>2. CASE Admitted(s) /\ \E r \in Fresh :
             /\ run' = [run EXCEPT ![r] = [Unused EXCEPT !.status = "queued", !.sub = s, !.by = c,
                                                         !.total = sub[s].size]]
             /\ thread' = [thread EXCEPT ![r] = "begin"]
  <2>1. PICK r \in Fresh :
             /\ run' = [run EXCEPT ![r] = [Unused EXCEPT !.status = "queued", !.sub = s, !.by = c,
                                                         !.total = sub[s].size]]
             /\ thread' = [thread EXCEPT ![r] = "begin"]
    BY <1>2
  <2> DEFINE row == [Unused EXCEPT !.status = "queued", !.sub = s, !.by = c, !.total = sub[s].size]
  <2>2. r \in Runs /\ run[r].status = "absent" /\ sent[r] = 0
    BY DEF Fresh, PInv, RowInv
  <2>3. sub[s].size \in Nat
    BY <1>1 DEF PInv, PushTypeOK, Row, Sizes
  <2>4. /\ row \in Run /\ row.status = "queued" /\ row.sub = s /\ ~row.orphan
        /\ row.total = sub[s].size /\ row.processed = 0 /\ row.ok = 0
    BY <1>1, <2>3 DEF Run, Unused
  <2> HIDE DEF row
  <2>5. RowInv(row, "begin", 0, faults)
    BY <2>3, <2>4 DEF RowInv, PInv, PushTypeOK
  <2>6. \A q \in Runs \ {r} : run'[q] = run[q] /\ thread'[q] = thread[q] /\ sent'[q] = sent[q]
    BY <2>1 DEF PInv, PushTypeOK, Queue
  <2>7. run'[r] = row /\ thread'[r] = "begin" /\ sent'[r] = 0
    BY <2>1, <2>2 DEF row, PInv, PushTypeOK, Queue
  <2>8. PushTypeOK'
    <3>1. run' \in [Runs -> Run]
      BY <2>1, <2>2, <2>4 DEF row, PInv, PushTypeOK
    <3>2. thread' \in [Runs -> Places]
      BY <2>1, <2>2 DEF PInv, PushTypeOK
    <3> QED  BY <3>1, <3>2 DEF PInv, PushTypeOK, Queue
  <2>9. \A q \in Runs : RowInv(run[q], thread[q], sent[q], faults)'
    <3> SUFFICES ASSUME NEW q \in Runs PROVE RowInv(run'[q], thread'[q], sent'[q], faults)
      BY DEF Queue
    <3>1. CASE q = r
      BY <2>5, <2>7, <3>1
    <3>2. CASE q # r
      BY <2>6, <3>2 DEF PInv
    <3> QED  BY <3>1, <3>2
  <2>10. \A q \in Runs \ {r} : ~(run[q].status \in Active /\ run[q].sub = s)
    BY <1>2 DEF Admitted, ActiveRuns
  <2>11. OneActive'
    BY <2>4, <2>6, <2>7, <2>10 DEF PInv, OneActive
  <2>12. ActiveHasSub'
    <3>1. UNCHANGED sub /\ sub[s].present
      BY <1>2 DEF Admitted, Queue
    <3> QED  BY <1>1, <2>4, <2>6, <2>7, <3>1 DEF PInv, ActiveHasSub
  <2> QED  BY <2>8, <2>9, <2>11, <2>12 DEF PInv, Queue
<1>3. CASE UNCHANGED <<run, thread>>
  <2>1. PushTypeOK'
    BY <1>3 DEF PInv, PushTypeOK, Queue
  <2> QED  BY <1>3, <2>1, RunsUntouched DEF Queue, PInv
<1> QED  BY <1>2, <1>3 DEF Queue

\* Deletion takes no open run with it.
LEMMA DeleteKeeps == ASSUME PInv, NEW s \in Subs, Delete(s) PROVE PInv'
<1> DEFINE gone == [Unused EXCEPT !.status = "deleted"]
<1>1. gone \in Run /\ gone.status = "deleted" /\ ~gone.orphan
  BY DEF Run, Unused
<1>2. \A r \in Runs : run'[r] = IF run[r].sub = s THEN gone ELSE run[r]
  BY DEF Delete
<1>3. \A r \in Runs : run[r].sub = s => run[r].status \notin Active /\ run[r].status # "absent"
  BY DEF Delete, Deletable, ActiveRuns, PInv, RowInv, Unused
<1>4. run' \in [Runs -> Run] /\ sub' \in [Subs -> Row]
  <2>1. [present |-> FALSE, enabled |-> FALSE, size |-> 1] \in Row
    BY DEF Row, Sizes
  <2> HIDE DEF gone
  <2>2. \A r \in Runs : (IF run[r].sub = s THEN gone ELSE run[r]) \in Run
    BY <1>1 DEF PInv, PushTypeOK
  <2> QED  BY <2>1, <2>2 DEF PInv, PushTypeOK, Delete, gone
<1>5. PushTypeOK'
  BY <1>4 DEF PInv, PushTypeOK, Delete
<1>6. \A r \in Runs : RowInv(run[r], thread[r], sent[r], faults)'
  <2> SUFFICES ASSUME NEW r \in Runs PROVE RowInv(run'[r], thread[r], sent[r], faults)
    BY DEF Delete
  <2>1. RowInv(run[r], thread[r], sent[r], faults)
    BY DEF PInv
  <2> HIDE DEF gone
  <2>2. CASE run[r].sub = s
    BY <1>1, <1>2, <1>3, <2>1, <2>2 DEF RowInv, PInv, PushTypeOK
  <2>3. CASE run[r].sub # s
    BY <1>2, <2>1, <2>3
  <2> QED  BY <2>2, <2>3
<1>7. \A r \in Runs : run'[r].status \in Active => run'[r] = run[r] /\ run[r].sub # s
  <2> HIDE DEF gone
  <2> QED  BY <1>1, <1>2
<1>8. OneActive' /\ ActiveHasSub'
  BY <1>7 DEF PInv, PushTypeOK, OneActive, ActiveHasSub, Delete
<1> QED  BY <1>5, <1>6, <1>8 DEF PInv, Delete

\* What those two mark in a row.
LEMMA Marked ==
    ASSUME NEW row \in Run
    PROVE  /\ [row EXCEPT !.orphan = TRUE] \in Run
           /\ [row EXCEPT !.orphan = TRUE].status = row.status /\ [row EXCEPT !.orphan = TRUE].sub = row.sub
           /\ [row EXCEPT !.status = "interrupted"] \in Run
           /\ [row EXCEPT !.status = "interrupted"].status \notin Active
           /\ [row EXCEPT !.status = "interrupted"].sub = row.sub
BY DEF Run

\* Death takes the threads of the process, not its rows.
LEMMA CrashKeeps == ASSUME PInv, NEW dead \in SUBSET Callers, Crash(dead) PROVE PInv'
<1>1. \A r \in Runs : /\ run'[r] = (IF run[r].by \in dead THEN [run[r] EXCEPT !.orphan = TRUE] ELSE run[r])
                      /\ thread'[r] = (IF run[r].by \in dead THEN "none" ELSE thread[r])
  BY DEF Crash, Killed
<1>2. \A r \in Runs : run'[r] \in Run /\ run'[r].status = run[r].status /\ run'[r].sub = run[r].sub
  <2> SUFFICES ASSUME NEW r \in Runs PROVE run'[r] \in Run /\ run'[r].status = run[r].status /\ run'[r].sub = run[r].sub
    OBVIOUS
  <2>1. run[r] \in Run
    BY DEF PInv, PushTypeOK
  <2> QED  BY <1>1, <2>1, Marked
<1>3. PushTypeOK'
  <2>1. run' \in [Runs -> Run]
    BY <1>2 DEF Crash, Killed
  <2>2. thread' \in [Runs -> Places] /\ ask' \in [Callers -> Subs \union {NULL}]
    BY DEF PInv, PushTypeOK, Crash, Killed
  <2> QED  BY <2>1, <2>2 DEF PInv, PushTypeOK, Crash
<1>4. \A r \in Runs : RowInv(run[r], thread[r], sent[r], faults)'
  <2> SUFFICES ASSUME NEW r \in Runs PROVE RowInv(run'[r], thread'[r], sent[r], faults)
    BY DEF Crash
  <2>1. RowInv(run[r], thread[r], sent[r], faults) /\ run[r] \in Run /\ sent[r] \in Nat /\ faults \in Nat
    BY DEF PInv, PushTypeOK
  <2>2. CASE run[r].by \in dead
    <3>1. run[r].status # "absent"
      BY <2>1, <2>2 DEF RowInv, Unused
    <3> QED  BY <1>1, <2>1, <2>2, <3>1 DEF RowInv, Run
  <2>3. CASE run[r].by \notin dead
    BY <1>1, <2>1, <2>3
  <2> QED  BY <2>2, <2>3
<1>5. OneActive' /\ ActiveHasSub'
  BY <1>2 DEF PInv, OneActive, ActiveHasSub, Crash
<1> QED  BY <1>3, <1>4, <1>5 DEF PInv, Crash

\* The start of the service closes only runs whose process is gone.
LEMMA WebStartKeeps == ASSUME PInv, WebStart PROVE PInv'
<1>1. \A r \in Runs : run'[r] = IF Stale(run[r]) THEN [run[r] EXCEPT !.status = "interrupted"] ELSE run[r]
  BY DEF WebStart
<1>2. \A r \in Runs : /\ run'[r] \in Run /\ run'[r].sub = run[r].sub
                      /\ (run'[r].status \in Active => run[r].status \in Active)
  <2> SUFFICES ASSUME NEW r \in Runs PROVE /\ run'[r] \in Run /\ run'[r].sub = run[r].sub
                                           /\ (run'[r].status \in Active => run[r].status \in Active)
    OBVIOUS
  <2>1. run[r] \in Run
    BY DEF PInv, PushTypeOK
  <2> QED  BY <1>1, <2>1, Marked
<1>3. PushTypeOK'
  <2>1. run' \in [Runs -> Run]
    BY <1>2 DEF WebStart
  <2> QED  BY <2>1 DEF PInv, PushTypeOK, WebStart
<1>4. \A r \in Runs : RowInv(run[r], thread[r], sent[r], faults)'
  <2> SUFFICES ASSUME NEW r \in Runs PROVE RowInv(run'[r], thread[r], sent[r], faults)
    BY DEF WebStart
  <2>1. RowInv(run[r], thread[r], sent[r], faults) /\ run[r] \in Run /\ sent[r] \in Nat /\ faults \in Nat
    BY DEF PInv, PushTypeOK
  <2>2. CASE Stale(run[r])
    <3>1. thread[r] = "none" /\ run[r].status \in Active
      BY <2>1, <2>2 DEF RowInv, Stale
    <3> QED  BY <1>1, <2>1, <2>2, <3>1 DEF RowInv, Run
  <2>3. CASE ~Stale(run[r])
    BY <1>1, <2>1, <2>3
  <2> QED  BY <2>2, <2>3
<1>5. OneActive' /\ ActiveHasSub'
  BY <1>2 DEF PInv, OneActive, ActiveHasSub, WebStart
<1> QED  BY <1>3, <1>4, <1>5 DEF PInv, WebStart

-----------------------------------------------------------------------------
\* Nothing the system does breaks the invariant.
LEMMA PushNextInv == PInv /\ [PushNext]_pvars => PInv'
<1> SUFFICES ASSUME PInv, [PushNext]_pvars PROVE PInv'
  OBVIOUS
<1>1. CASE \E c \in Callers : (\E s \in Subs : Ask(c, s)) \/ Queue(c)
  BY <1>1, AskKeeps, QueueKeeps
<1>2. CASE \E r \in Runs : ThreadStep(r)
  BY <1>2, BeginKeeps, SymbolKeeps, SendKeeps, AdvanceKeeps, CloseKeeps, GiveUpKeeps, VerifyKeeps DEF ThreadStep
<1>3. CASE \E s \in Subs : EditRead(s) \/ Delete(s)
  BY <1>3, EditReadKeeps, DeleteKeeps
<1>4. CASE EditWrite
  BY <1>4, EditWriteKeeps
<1>5. CASE Crash(Web) \/ ("cli" \in Callers /\ Crash({"cli"}))
  BY <1>5, CrashKeeps DEF Web
<1>6. CASE WebStart
  BY <1>6, WebStartKeeps
<1>7. CASE UNCHANGED pvars
  BY <1>7 DEF pvars, PInv, PushTypeOK, OneActive, ActiveHasSub
<1> QED  BY <1>1, <1>2, <1>3, <1>4, <1>5, <1>6, <1>7 DEF PushNext

\* The inductive invariant.
THEOREM PushInvariance == PushSpec => []PInv
BY PushInitInv, PushNextInv, PTL DEF PushSpec

\* A subscription is never pushed by two threads at once, the rows tell what was sent,
\* and an open run has its subscription, for any numbers of all of them.
THEOREM PushIsSafe == PushSpec => []PushSafe
BY PushInvariance, PInvIsSafe, PTL

\* What each step does to a closed run.
LEMMA ClosedStep == PInv /\ [PushNext]_pvars => ClosedRunStays
<1> SUFFICES ASSUME PInv, [PushNext]_pvars, NEW r \in Runs, run[r].status \in Closed, run'[r].status # "deleted"
             PROVE  \/ run'[r].status = run[r].status
                    \/ run[r].status # "interrupted" /\ run'[r].status = "failed"
  BY DEF ClosedRunStays
<1> run \in [Runs -> Run]
  BY DEF PInv, PushTypeOK
<1>1. CASE \E q \in Runs : ThreadStep(q)
  <2>1. PICK q \in Runs : ThreadStep(q)
    BY <1>1
  <2> RowInv(run[q], thread[q], sent[q], faults) /\ run[q] \in Run
    BY DEF PInv, PushTypeOK
  <2>2. CASE Begin(q)
    <3>1. run[q].status = "queued"
      BY <2>2 DEF Begin, RowInv
    <3>2. q # r => run'[r] = run[r]
      BY <2>2 DEF Begin
    <3> QED  BY <3>1, <3>2
  <2>3. CASE Symbol(q) \/ Send(q)
    BY <2>3 DEF Symbol, Send
  <2>4. CASE Advance(q) \/ Close(q)
    <3>1. run[q].status = "running"
      BY <2>4 DEF Advance, Close, RowInv
    <3>2. q # r => run'[r] = run[r]
      <4>1. CASE Advance(q)
        BY <4>1 DEF Advance
      <4>2. CASE Close(q)
        BY <4>2 DEF Close
      <4> QED  BY <2>4, <4>1, <4>2
    <3> QED  BY <3>1, <3>2
  <2>5. CASE GiveUp(q)
    <3>1. run[q].status # "interrupted"
      BY <2>5 DEF GiveUp, RowInv
    <3>2. q # r => run'[r] = run[r]
      BY <2>5 DEF GiveUp
    <3>3. run'[q].status \in {run[q].status, "failed"}
      BY <2>5 DEF GiveUp, PInv, PushTypeOK, Run
    <3> QED  BY <3>1, <3>2, <3>3
  <2>6. CASE Verify(q)
    BY <2>6, VerifyKeeps
  <2> QED  BY <2>1, <2>2, <2>3, <2>4, <2>5, <2>6 DEF ThreadStep
<1>2. CASE \E c \in Callers : (\E s \in Subs : Ask(c, s)) \/ Queue(c)
  BY <1>2 DEF Ask, Queue, Fresh, PInv, PushTypeOK
<1>3. CASE \E s \in Subs : EditRead(s) \/ Delete(s)
  BY <1>3 DEF EditRead, Delete, Unused
<1>4. CASE EditWrite \/ UNCHANGED pvars
  BY <1>4 DEF EditWrite, pvars
<1>5. CASE Crash(Web) \/ ("cli" \in Callers /\ Crash({"cli"}))
  BY <1>5 DEF Crash, Killed, Run
<1>6. CASE WebStart
  BY <1>6 DEF WebStart, Stale
<1> QED  BY <1>1, <1>2, <1>3, <1>4, <1>5, <1>6 DEF PushNext

\* A closed run is never opened again, and only ever turns into "failed".
THEOREM ClosedRunsStay == PushSpec => [][ClosedRunStays]_pvars
BY PushInvariance, ClosedStep, PTL DEF PushSpec

-----------------------------------------------------------------------------
(* The archive.                                                            *)

\* The versions a file may hold, the places of a retry and of a sweep, and a round of a sweep.
File == {NoFile, 1, 2}
RetryPlaces == {"idle", "text", "snapshot", "session", "restoreText", "restoreSnapshot"}
SweepPlaces == {"idle", "units", "unlinkSnap", "unlinkText"}

Round == [at : SweepPlaces, units : SUBSET Reports, snaps : SUBSET Reports, unit : Reports \union {NoFile}]

\* The types of the variables.
ArchiveTypes ==
    /\ md \in [Reports -> File] /\ snap \in [Reports -> File]
    /\ dir \in BOOLEAN /\ old \in [Reports -> BOOLEAN] /\ token \in [Reports -> BOOLEAN]
    /\ saver \in [Reports -> {"none", "text", "snapshot", "saved", "failed"}]
    /\ retry \in [Reports -> RetryPlaces]
    /\ was \in [Reports -> {NoFile, 1}] /\ chat \in [Reports -> File]
    /\ sweep \in [Sweepers -> Round]
    /\ reader \in [at : {"idle", "snapshot"}, md : File, shown : File, report : Reports \union {NoFile}]
    /\ mishaps \in Nat

\* Where the files of an index report are while its commentary can still be retried.
IndexFiles(r) ==
    CASE retry[r] = "idle" -> IF was[r] = NoFile THEN md[r] \in {NoFile, 1} /\ snap[r] = 1
                              ELSE snap[r] # NoFile /\ (mishaps <= 1 => md[r] \in {NoFile, snap[r]})
      [] retry[r] = "snapshot" -> was[r] = 1 /\ md[r] = 1 /\ snap[r] = 1
      [] retry[r] = "text" -> was[r] = 1 /\ md[r] = 1 /\ snap[r] = 2
      [] retry[r] = "session" -> was[r] = 1 /\ md[r] = 2 /\ snap[r] = 2
      [] OTHER -> was[r] = 1 /\ md[r] = 1 /\ snap[r] # NoFile /\ mishaps >= 1

\* A stock retry past its first write has a new text.
StockFiles(r) == retry[r] \in {"snapshot", "session"} => md[r] = 2

\* One report: files need the directory, a token needs a finished save, and so on.
ReportOK(r) ==
    /\ md[r] # NoFile \/ snap[r] # NoFile => dir
    /\ old[r] => saver[r] \in {"saved", "failed"} /\ retry[r] = "idle" /\ ~token[r]
    /\ saver[r] \in {"none", "text"} => md[r] = NoFile /\ snap[r] = NoFile
    /\ saver[r] = "snapshot" => md[r] = 1 /\ snap[r] = NoFile
    /\ saver[r] # "saved" => chat[r] = NoFile /\ was[r] = NoFile /\ ~token[r]
    /\ retry[r] # "idle" => token[r] /\ chat[r] = 1
    /\ token[r] => r \notin Gold
    /\ chat[r] = 2 => md[r] # 1
    /\ r \in Stock => StockFiles(r) /\ retry[r] \notin {"restoreText", "restoreSnapshot"}
    /\ r \in Index /\ token[r] => IndexFiles(r)

\* One sweep: the unit in its hand is old, and its files still belong together.
SweepOK(s) ==
    /\ sweep[s].at \in {"unlinkSnap", "unlinkText"} => sweep[s].unit \in Reports /\ old[sweep[s].unit]
    /\ sweep[s].at = "unlinkSnap" => \/ md[sweep[s].unit] = NoFile
                                     \/ Verified(sweep[s].unit)
    /\ sweep[s].at = "unlinkText" => snap[sweep[s].unit] = NoFile

\* A reader shows nothing but the text it took.
ReaderOK == /\ reader.at = "snapshot" => reader.report \in Reports
            /\ reader.shown # NoFile => reader.shown = reader.md

\* The inductive invariant of the archive.
AInv == /\ ArchiveTypes
        /\ \A r \in Reports : ReportOK(r)
        /\ \A s \in Sweepers : SweepOK(s)
        /\ ReaderOK


USE FilesAssumption, CategoriesAssumption
USE DEF Reports, File, RetryPlaces, SweepPlaces

\* What no report but r notices of a step of r.
Alone(r) ==
    /\ \A q \in Reports \ {r} :
         /\ md'[q] = md[q] /\ snap'[q] = snap[q] /\ old'[q] = old[q] /\ saver'[q] = saver[q]
         /\ token'[q] = token[q] /\ retry'[q] = retry[q] /\ was'[q] = was[q] /\ chat'[q] = chat[q]
    /\ (dir => dir') /\ mishaps <= mishaps'

\* A step of one report leaves the invariant of every other one.
LEMMA OthersKeep ==
    ASSUME AInv, ArchiveTypes', NEW r \in Reports, Alone(r), NEW q \in Reports \ {r}
    PROVE  ReportOK(q)'
<1>1. ReportOK(q) /\ mishaps \in Nat /\ mishaps' \in Nat
  BY DEF AInv, ArchiveTypes
<1>2. IndexFiles(q) => IndexFiles(q)'
  BY <1>1 DEF IndexFiles, Alone
<1>3. StockFiles(q) => StockFiles(q)'
  BY DEF StockFiles, Alone
<1> QED  BY <1>1, <1>2, <1>3 DEF ReportOK, Alone

\* A sweep that stands still does not mind what is written into a young report or
\* taken away from an old one.
Harmless ==
    \A q \in Reports :
        old[q] => old'[q] /\ md'[q] \in {md[q], NoFile} /\ snap'[q] \in {snap[q], NoFile}

\* A sweep that does not step keeps what is said of it.
LEMMA SweepsKeep ==
    ASSUME AInv, Harmless, NEW s \in Sweepers, sweep'[s] = sweep[s]
    PROVE  SweepOK(s)'
BY DEF AInv, SweepOK, Harmless, Verified

\* A step of one report keeps the invariant when it keeps what is said of that report.
LEMMA OneReport ==
    ASSUME AInv, ArchiveTypes', NEW r \in Reports, Alone(r), ReportOK(r)', UNCHANGED sweep, ReaderOK',
           old[r] => old'[r] /\ md'[r] \in {md[r], NoFile} /\ snap'[r] \in {snap[r], NoFile}
    PROVE  AInv'
<1>1. \A q \in Reports : ReportOK(q)'
  BY OthersKeep
<1>2. Harmless
  BY DEF Harmless, Alone
<1>3. \A s \in Sweepers : SweepOK(s)'
  BY <1>2, SweepsKeep
<1> QED  BY <1>1, <1>3 DEF AInv

\* What the invariant says of one report.
Facts(r) == /\ ArchiveTypes /\ ReportOK(r) /\ ReaderOK
\* Those facts hold of every report.
LEMMA ReportFacts == ASSUME AInv, NEW r \in Reports PROVE Facts(r)
BY DEF AInv, Facts

\* A reader that does not step keeps what is said of it.
LEMMA ReaderStays == ASSUME AInv, UNCHANGED reader PROVE ReaderOK'
BY DEF AInv, ReaderOK

\* What a step leaves alone, and the helpers every step of a save or a retry is written with.
USE DEF files, retrying, reading, SaveAt, RetryAt, RetryGivenUp, Restored, Written, NotWritten, Fail, May

\* A save that makes the directory writes no file yet.
LEMMA MakeDirectoryKeeps == ASSUME AInv, NEW r \in Reports, MakeDirectory(r) PROVE AInv'
<1> Facts(r)
  BY ReportFacts
<1>1. ArchiveTypes'
  BY DEF MakeDirectory, Facts, ArchiveTypes
<1>2. Alone(r)
  BY DEF MakeDirectory, Facts, ArchiveTypes, Alone
<1>3. ReportOK(r)'
  BY DEF MakeDirectory, Facts, ArchiveTypes, ReportOK, IndexFiles, StockFiles
<1>4. old[r] => old'[r] /\ md'[r] \in {md[r], NoFile} /\ snap'[r] \in {snap[r], NoFile}
  BY DEF MakeDirectory, Facts, ArchiveTypes, ReportOK
<1>5. UNCHANGED <<sweep, reader>>
  BY DEF MakeDirectory
<1> QED  BY <1>1, <1>2, <1>3, <1>4, <1>5, OneReport, ReaderStays

\* The text of a report is written before its snapshot, or the save has failed.
LEMMA SaveTextKeeps == ASSUME AInv, NEW r \in Reports, SaveText(r) PROVE AInv'
<1> Facts(r)
  BY ReportFacts
<1>1. ArchiveTypes'
  BY DEF SaveText, Facts, ArchiveTypes
<1>2. Alone(r)
  BY DEF SaveText, Facts, ArchiveTypes, Alone
<1>3. ReportOK(r)'
  BY DEF SaveText, Facts, ArchiveTypes, ReportOK, IndexFiles, StockFiles
<1>4. old[r] => old'[r] /\ md'[r] \in {md[r], NoFile} /\ snap'[r] \in {snap[r], NoFile}
  BY DEF SaveText, Facts, ArchiveTypes, ReportOK
<1>5. UNCHANGED <<sweep, reader>>
  BY DEF SaveText
<1> QED  BY <1>1, <1>2, <1>3, <1>4, <1>5, OneReport, ReaderStays

\* The snapshot is written beside the text of the same version.
LEMMA SaveSnapshotKeeps == ASSUME AInv, NEW r \in Reports, SaveSnapshot(r) PROVE AInv'
<1> Facts(r)
  BY ReportFacts
<1>1. ArchiveTypes'
  BY DEF SaveSnapshot, Facts, ArchiveTypes
<1>2. Alone(r)
  BY DEF SaveSnapshot, Facts, ArchiveTypes, Alone
<1>3. ReportOK(r)'
  BY DEF SaveSnapshot, Facts, ArchiveTypes, ReportOK, IndexFiles, StockFiles
<1>4. old[r] => old'[r] /\ md'[r] \in {md[r], NoFile} /\ snap'[r] \in {snap[r], NoFile}
  BY DEF SaveSnapshot, Facts, ArchiveTypes, ReportOK
<1>5. UNCHANGED <<sweep, reader>>
  BY DEF SaveSnapshot
<1> QED  BY <1>1, <1>2, <1>3, <1>4, <1>5, OneReport, ReaderStays

\* A retry starts on a report with a token, and keeps the text it starts from.
LEMMA RetryBeginKeeps == ASSUME AInv, NEW r \in Reports, RetryBegin(r) PROVE AInv'
<1> Facts(r)
  BY ReportFacts
<1>1. ArchiveTypes'
  BY DEF RetryBegin, Facts, ArchiveTypes
<1>2. Alone(r)
  BY DEF RetryBegin, Facts, ArchiveTypes, Alone
<1>3. ReportOK(r)'
  BY DEF RetryBegin, Facts, ArchiveTypes, ReportOK, IndexFiles, StockFiles
<1>4. old[r] => old'[r] /\ md'[r] \in {md[r], NoFile} /\ snap'[r] \in {snap[r], NoFile}
  BY DEF RetryBegin, Facts, ArchiveTypes, ReportOK
<1>5. UNCHANGED <<sweep, reader>>
  BY DEF RetryBegin
<1> QED  BY <1>1, <1>2, <1>3, <1>4, <1>5, OneReport, ReaderStays

\* A stock retry writes the new text first.
LEMMA RetryStockTextKeeps == ASSUME AInv, NEW r \in Reports, RetryStockText(r) PROVE AInv'
<1> Facts(r)
  BY ReportFacts
<1>1. ArchiveTypes'
  BY DEF RetryStockText, Facts, ArchiveTypes
<1>2. Alone(r)
  BY DEF RetryStockText, Facts, ArchiveTypes, Alone
<1>3. ReportOK(r)'
  BY DEF RetryStockText, Facts, ArchiveTypes, ReportOK, IndexFiles, StockFiles
<1>4. old[r] => old'[r] /\ md'[r] \in {md[r], NoFile} /\ snap'[r] \in {snap[r], NoFile}
  BY DEF RetryStockText, Facts, ArchiveTypes, ReportOK
<1>5. UNCHANGED <<sweep, reader>>
  BY DEF RetryStockText
<1> QED  BY <1>1, <1>2, <1>3, <1>4, <1>5, OneReport, ReaderStays

\* It then writes the snapshot; a failure is not taken back.
LEMMA RetryStockSnapshotKeeps == ASSUME AInv, NEW r \in Reports, RetryStockSnapshot(r) PROVE AInv'
<1> Facts(r)
  BY ReportFacts
<1>1. ArchiveTypes'
  BY DEF RetryStockSnapshot, Facts, ArchiveTypes
<1>2. Alone(r)
  BY DEF RetryStockSnapshot, Facts, ArchiveTypes, Alone
<1>3. ReportOK(r)'
  BY DEF RetryStockSnapshot, Facts, ArchiveTypes, ReportOK, IndexFiles, StockFiles
<1>4. old[r] => old'[r] /\ md'[r] \in {md[r], NoFile} /\ snap'[r] \in {snap[r], NoFile}
  BY DEF RetryStockSnapshot, Facts, ArchiveTypes, ReportOK
<1>5. UNCHANGED <<sweep, reader>>
  BY DEF RetryStockSnapshot
<1> QED  BY <1>1, <1>2, <1>3, <1>4, <1>5, OneReport, ReaderStays

\* An index retry writes the new snapshot first.
LEMMA RetryIndexSnapshotKeeps == ASSUME AInv, NEW r \in Reports, RetryIndexSnapshot(r) PROVE AInv'
<1> Facts(r)
  BY ReportFacts
<1>1. ArchiveTypes'
  BY DEF RetryIndexSnapshot, Facts, ArchiveTypes
<1>2. Alone(r)
  BY DEF RetryIndexSnapshot, Facts, ArchiveTypes, Alone
<1>3. ReportOK(r)'
  BY DEF RetryIndexSnapshot, Facts, ArchiveTypes, ReportOK, IndexFiles, StockFiles
<1>4. old[r] => old'[r] /\ md'[r] \in {md[r], NoFile} /\ snap'[r] \in {snap[r], NoFile}
  BY DEF RetryIndexSnapshot, Facts, ArchiveTypes, ReportOK
<1>5. UNCHANGED <<sweep, reader>>
  BY DEF RetryIndexSnapshot
<1> QED  BY <1>1, <1>2, <1>3, <1>4, <1>5, OneReport, ReaderStays

\* It then writes the text, and goes back when that fails.
LEMMA RetryIndexTextKeeps == ASSUME AInv, NEW r \in Reports, RetryIndexText(r) PROVE AInv'
<1> Facts(r)
  BY ReportFacts
<1>1. ArchiveTypes'
  BY DEF RetryIndexText, Facts, ArchiveTypes
<1>2. Alone(r)
  BY DEF RetryIndexText, Facts, ArchiveTypes, Alone
<1>3. ReportOK(r)'
  BY DEF RetryIndexText, Facts, ArchiveTypes, ReportOK, IndexFiles, StockFiles
<1>4. old[r] => old'[r] /\ md'[r] \in {md[r], NoFile} /\ snap'[r] \in {snap[r], NoFile}
  BY DEF RetryIndexText, Facts, ArchiveTypes, ReportOK
<1>5. UNCHANGED <<sweep, reader>>
  BY DEF RetryIndexText
<1> QED  BY <1>1, <1>2, <1>3, <1>4, <1>5, OneReport, ReaderStays

\* The way back writes the old text again.
LEMMA RestoreTextKeeps == ASSUME AInv, NEW r \in Reports, RestoreText(r) PROVE AInv'
<1> Facts(r)
  BY ReportFacts
<1>1. ArchiveTypes'
  BY DEF RestoreText, Facts, ArchiveTypes
<1>2. Alone(r)
  BY DEF RestoreText, Facts, ArchiveTypes, Alone
<1>3. ReportOK(r)'
  BY DEF RestoreText, Facts, ArchiveTypes, ReportOK, IndexFiles, StockFiles
<1>4. old[r] => old'[r] /\ md'[r] \in {md[r], NoFile} /\ snap'[r] \in {snap[r], NoFile}
  BY DEF RestoreText, Facts, ArchiveTypes, ReportOK
<1>5. UNCHANGED <<sweep, reader>>
  BY DEF RestoreText
<1> QED  BY <1>1, <1>2, <1>3, <1>4, <1>5, OneReport, ReaderStays

\* The way back then writes the old snapshot, which ends the retry.
LEMMA RestoreSnapshotKeeps == ASSUME AInv, NEW r \in Reports, RestoreSnapshot(r) PROVE AInv'
<1> Facts(r)
  BY ReportFacts
<1>1. ArchiveTypes'
  BY DEF RestoreSnapshot, Facts, ArchiveTypes
<1>2. Alone(r)
  BY DEF RestoreSnapshot, Facts, ArchiveTypes, Alone
<1>3. ReportOK(r)'
  BY DEF RestoreSnapshot, Facts, ArchiveTypes, ReportOK, IndexFiles, StockFiles
<1>4. old[r] => old'[r] /\ md'[r] \in {md[r], NoFile} /\ snap'[r] \in {snap[r], NoFile}
  BY DEF RestoreSnapshot, Facts, ArchiveTypes, ReportOK
<1>5. UNCHANGED <<sweep, reader>>
  BY DEF RestoreSnapshot
<1> QED  BY <1>1, <1>2, <1>3, <1>4, <1>5, OneReport, ReaderStays

\* The conversation follows the files, and the token is used up.
LEMMA RetrySessionKeeps == ASSUME AInv, NEW r \in Reports, RetrySession(r) PROVE AInv'
<1> Facts(r)
  BY ReportFacts
<1>1. ArchiveTypes'
  BY DEF RetrySession, Facts, ArchiveTypes
<1>2. Alone(r)
  BY DEF RetrySession, Facts, ArchiveTypes, Alone
<1>3. ReportOK(r)'
  BY DEF RetrySession, Facts, ArchiveTypes, ReportOK, IndexFiles, StockFiles
<1>4. old[r] => old'[r] /\ md'[r] \in {md[r], NoFile} /\ snap'[r] \in {snap[r], NoFile}
  BY DEF RetrySession, Facts, ArchiveTypes, ReportOK
<1>5. UNCHANGED <<sweep, reader>>
  BY DEF RetrySession
<1> QED  BY <1>1, <1>2, <1>3, <1>4, <1>5, OneReport, ReaderStays

\* A report that gets old has been saved and is not retried any more.
LEMMA AgeKeeps == ASSUME AInv, NEW r \in Reports, Age(r) PROVE AInv'
<1> Facts(r)
  BY ReportFacts
<1>1. ArchiveTypes'
  BY DEF Age, Facts, ArchiveTypes
<1>2. Alone(r)
  BY DEF Age, Facts, ArchiveTypes, Alone
<1>3. ReportOK(r)'
  BY DEF Age, Facts, ArchiveTypes, ReportOK, IndexFiles, StockFiles
<1>4. old[r] => old'[r] /\ md'[r] \in {md[r], NoFile} /\ snap'[r] \in {snap[r], NoFile}
  BY DEF Age, Facts, ArchiveTypes, ReportOK
<1>5. UNCHANGED <<sweep, reader>>
  BY DEF Age
<1> QED  BY <1>1, <1>2, <1>3, <1>4, <1>5, OneReport, ReaderStays

\* A deletion by hand takes the files of one report.
LEMMA DeleteByHandKeeps == ASSUME AInv, NEW r \in Reports, DeleteByHand(r) PROVE AInv'
<1> Facts(r)
  BY ReportFacts
<1>1. ArchiveTypes'
  BY DEF DeleteByHand, Facts, ArchiveTypes
<1>2. Alone(r)
  BY DEF DeleteByHand, Facts, ArchiveTypes, Alone
<1>3. ReportOK(r)'
  BY DEF DeleteByHand, Facts, ArchiveTypes, ReportOK, IndexFiles, StockFiles
<1>4. old[r] => old'[r] /\ md'[r] \in {md[r], NoFile} /\ snap'[r] \in {snap[r], NoFile}
  BY DEF DeleteByHand, Facts, ArchiveTypes, ReportOK
<1>5. UNCHANGED <<sweep, reader>>
  BY DEF DeleteByHand
<1> QED  BY <1>1, <1>2, <1>3, <1>4, <1>5, OneReport, ReaderStays

-----------------------------------------------------------------------------
(* The sweep takes files of old reports away and writes none.              *)

\* What a step of a sweep may do to the files.
Deletes ==
    /\ UNCHANGED <<old, saver, token, retry, was, chat, reader>> /\ mishaps <= mishaps'
    /\ \A q \in Reports :
         /\ md'[q] \in {md[q], NoFile} /\ snap'[q] \in {snap[q], NoFile}
         /\ ~old[q] => md'[q] = md[q] /\ snap'[q] = snap[q]
         /\ md'[q] # NoFile \/ snap'[q] # NoFile => dir'

\* Deleting files of old reports keeps what is said of every report and reader.
LEMMA DeletesKeep ==
    ASSUME AInv, ArchiveTypes', Deletes, NEW s \in Sweepers, SweepOK(s)',
           \A t \in Sweepers \ {s} : sweep'[t] = sweep[t]
    PROVE  AInv'
<1>1. ASSUME NEW q \in Reports PROVE ReportOK(q)'
  <2>1. ReportOK(q) /\ mishaps \in Nat /\ mishaps' \in Nat
    BY DEF AInv, ArchiveTypes
  <2>2. CASE old[q]
    BY <2>1, <2>2 DEF ReportOK, Deletes, StockFiles
  <2>3. CASE ~old[q]
    <3>1. IndexFiles(q) => IndexFiles(q)'
      BY <2>1, <2>3 DEF IndexFiles, Deletes
    <3>2. StockFiles(q) => StockFiles(q)'
      BY <2>3 DEF StockFiles, Deletes
    <3> QED  BY <2>1, <2>3, <3>1, <3>2 DEF ReportOK, Deletes
  <2> QED  BY <2>2, <2>3
<1>2. Harmless
  BY DEF Harmless, Deletes
<1>3. \A t \in Sweepers : SweepOK(t)'
  BY <1>2, SweepsKeep
<1>4. ReaderOK'
  BY ReaderStays DEF Deletes
<1> QED  BY <1>1, <1>3, <1>4 DEF AInv

\* A step of a sweep keeps the invariant when the new place of the sweep fits its files.
LEMMA RoundGoesOn ==
    ASSUME AInv, NEW s \in Sweepers, NEW record \in Round, Put(s, record), Deletes,
           mishaps' \in Nat, dir' \in BOOLEAN,
           md' \in [Reports -> File] /\ snap' \in [Reports -> File],
           record.at \in {"unlinkSnap", "unlinkText"} => record.unit \in Reports /\ old[record.unit],
           record.at = "unlinkSnap" => md'[record.unit] = NoFile \/ snap'[record.unit] \in {NoFile, md'[record.unit]},
           record.at = "unlinkText" => snap'[record.unit] = NoFile
    PROVE  AInv'
<1>1. sweep'[s] = record /\ \A t \in Sweepers \ {s} : sweep'[t] = sweep[t]
  BY DEF AInv, ArchiveTypes, Put
<1>2. ArchiveTypes'
  BY DEF AInv, ArchiveTypes, Put, Deletes
<1>3. SweepOK(s)'
  BY <1>1 DEF SweepOK, Verified, Deletes
<1> QED  BY <1>1, <1>2, <1>3, DeletesKeep

\* What the invariant says of a sweeper and the files.
LEMMA RoundFacts ==
    ASSUME AInv, NEW s \in Sweepers
    PROVE  /\ sweep[s] \in Round /\ SweepOK(s) /\ mishaps \in Nat /\ dir \in BOOLEAN
           /\ md \in [Reports -> File] /\ snap \in [Reports -> File] /\ old \in [Reports -> BOOLEAN]
           /\ \A r \in Reports : md[r] # NoFile \/ snap[r] # NoFile => dir
BY DEF AInv, ArchiveTypes, ReportOK

\* A sweep lists what is there.
LEMMA SweepBeginKeeps == ASSUME AInv, NEW s \in Sweepers, SweepBegin(s) PROVE AInv'
<1> DEFINE record == [at |-> "units", units |-> {r \in Reports : md[r] # NoFile},
                      snaps |-> {r \in Reports : snap[r] # NoFile}, unit |-> NoFile]
<1>1. record \in Round /\ record.at = "units"
  BY DEF Round
<1>2. Put(s, record) /\ Deletes /\ UNCHANGED <<md, snap, dir, mishaps>>
  BY RoundFacts DEF SweepBegin, SweepUnchanged, Deletes
<1> HIDE DEF record
<1> QED  BY <1>1, <1>2, RoundFacts, RoundGoesOn

\* A unit is taken only when it is old and its two files belong together.
LEMMA ConsiderUnitKeeps == ASSUME AInv, NEW s \in Sweepers, ConsiderUnit(s) PROVE AInv'
<1>1. Deletes /\ UNCHANGED <<md, snap, dir, mishaps>>
  BY RoundFacts DEF ConsiderUnit, SweepUnchanged, Deletes
<1>2. PICK r \in sweep[s].units :
          IF old[r] /\ Verified(r)
          THEN Put(s, [sweep[s] EXCEPT !.unit = r, !.at = "unlinkSnap"])
          ELSE Put(s, [sweep[s] EXCEPT !.units = @ \ {r}])
  BY DEF ConsiderUnit
<1>3. sweep[s] \in Round /\ r \in Reports /\ sweep[s].at = "units"
  BY RoundFacts DEF Round, ConsiderUnit
<1>4. CASE old[r] /\ Verified(r)
  <2> DEFINE record == [sweep[s] EXCEPT !.unit = r, !.at = "unlinkSnap"]
  <2>1. record \in Round /\ record.at = "unlinkSnap" /\ record.unit = r
    BY <1>3 DEF Round
  <2>2. Put(s, record)
    BY <1>2, <1>4
  <2> HIDE DEF record
  <2> QED  BY <1>1, <1>3, <1>4, <2>1, <2>2, RoundFacts, RoundGoesOn DEF Verified
<1>5. CASE ~(old[r] /\ Verified(r))
  <2> DEFINE record == [sweep[s] EXCEPT !.units = @ \ {r}]
  <2>1. record \in Round /\ record.at = "units"
    BY <1>3 DEF Round
  <2>2. Put(s, record)
    BY <1>2, <1>5
  <2> HIDE DEF record
  <2> QED  BY <1>1, <2>1, <2>2, RoundFacts, RoundGoesOn
<1> QED  BY <1>4, <1>5

\* A unit that is done leaves the list of the round.
LEMMA DoneIsRound ==
    ASSUME AInv, NEW s \in Sweepers PROVE Done(s) \in Round /\ Done(s).at = "units"
BY RoundFacts DEF Done, Round

\* The snapshot of an old unit goes first.
LEMMA UnlinkSnapshotKeeps == ASSUME AInv, NEW s \in Sweepers, UnlinkSnapshot(s) PROVE AInv'
<1> DEFINE u == sweep[s].unit
<1>1. u \in Reports /\ old[u] /\ sweep[s] \in Round
  BY RoundFacts DEF UnlinkSnapshot, SweepOK
<1>2. CASE snap' = [snap EXCEPT ![u] = NoFile] /\ Put(s, [sweep[s] EXCEPT !.at = "unlinkText"]) /\ UNCHANGED mishaps
  <2> DEFINE record == [sweep[s] EXCEPT !.at = "unlinkText"]
  <2>1. record \in Round /\ record.at = "unlinkText" /\ record.unit = u
    BY <1>1 DEF Round
  <2>2. Deletes /\ UNCHANGED <<md, dir, mishaps>> /\ snap' \in [Reports -> File] /\ snap'[u] = NoFile
    BY <1>1, <1>2, RoundFacts DEF UnlinkSnapshot, SweepUnchanged, Deletes
  <2>3. Put(s, record)
    BY <1>2
  <2> HIDE DEF record, u
  <2> QED  BY <1>1, <2>1, <2>2, <2>3, RoundFacts, RoundGoesOn
<1>3. CASE Fail /\ Put(s, Done(s)) /\ UNCHANGED snap
  <2>1. Deletes /\ UNCHANGED <<md, snap, dir>> /\ mishaps' \in Nat
    BY <1>3, RoundFacts DEF UnlinkSnapshot, SweepUnchanged, Deletes, Fail
  <2> QED  BY <1>3, <2>1, DoneIsRound, RoundFacts, RoundGoesOn
<1> QED  BY <1>2, <1>3 DEF UnlinkSnapshot

\* Its text goes after it.
LEMMA UnlinkTextKeeps == ASSUME AInv, NEW s \in Sweepers, UnlinkText(s) PROVE AInv'
<1>1. sweep[s].unit \in Reports /\ old[sweep[s].unit]
  BY RoundFacts DEF UnlinkText, SweepOK
<1>2. Deletes /\ UNCHANGED <<snap, dir>> /\ mishaps' \in Nat /\ md' \in [Reports -> File]
  BY <1>1, RoundFacts DEF UnlinkText, SweepUnchanged, Deletes, Fail
<1>3. Put(s, Done(s))
  BY DEF UnlinkText
<1> QED  BY <1>2, <1>3, DoneIsRound, RoundFacts, RoundGoesOn

\* Of the snapshots without a text only the old ones go.
LEMMA SweepOrphansKeeps == ASSUME AInv, NEW s \in Sweepers, SweepOrphans(s) PROVE AInv'
<1>1. PICK r \in sweep[s].snaps :
          /\ Put(s, [sweep[s] EXCEPT !.snaps = @ \ {r}])
          /\ \/ /\ snap' = IF Orphan(r) THEN [snap EXCEPT ![r] = NoFile] ELSE snap
                /\ UNCHANGED mishaps
             \/ Orphan(r) /\ Fail /\ UNCHANGED snap
  BY DEF SweepOrphans
<1>2. sweep[s] \in Round /\ r \in Reports /\ sweep[s].at = "units"
  BY RoundFacts DEF Round, SweepOrphans
<1> DEFINE record == [sweep[s] EXCEPT !.snaps = @ \ {r}]
<1>3. record \in Round /\ record.at = "units"
  BY <1>2 DEF Round
<1>4. Deletes /\ UNCHANGED <<md, dir>> /\ mishaps' \in Nat /\ snap' \in [Reports -> File]
  <2>1. mishaps' \in {mishaps, mishaps + 1} /\ snap' \in {snap, [snap EXCEPT ![r] = NoFile]} /\ (~old[r] => snap' = snap)
    BY <1>1 DEF Fail, Orphan
  <2>2. UNCHANGED <<md, dir, old, saver, retrying, reading>>
    BY DEF SweepOrphans, SweepUnchanged
  <2>3. /\ mishaps \in Nat /\ snap \in [Reports -> File] /\ md \in [Reports -> File]
        /\ \A q \in Reports : md[q] # NoFile \/ snap[q] # NoFile => dir
    BY RoundFacts
  <2>4. CASE snap' = snap
    BY <2>1, <2>2, <2>3, <2>4 DEF Deletes
  <2>5. CASE snap' = [snap EXCEPT ![r] = NoFile] /\ old[r]
    BY <1>2, <2>1, <2>2, <2>3, <2>5 DEF Deletes
  <2> QED  BY <2>1, <2>4, <2>5
<1>5. Put(s, record)
  BY <1>1
<1> HIDE DEF record
<1> QED  BY <1>3, <1>4, <1>5, RoundFacts, RoundGoesOn

\* A sweep that is through rests.
LEMMA SweepEndKeeps == ASSUME AInv, NEW s \in Sweepers, SweepEnd(s) PROVE AInv'
<1>1. Resting \in Round /\ Resting.at = "idle"
  BY DEF Round, Resting
<1>2. Deletes /\ UNCHANGED <<md, snap, mishaps>> /\ dir' \in BOOLEAN /\ Put(s, Resting)
  BY RoundFacts DEF SweepEnd, SweepUnchanged, Deletes
<1> QED  BY <1>1, <1>2, RoundFacts, RoundGoesOn

-----------------------------------------------------------------------------
(* Readers and the end of the process.                                     *)

\* A step of a reader.
FilesStay == UNCHANGED <<md, snap, dir, old, saver, token, retry, was, chat, sweep, mishaps>>
\* A step that changes no file keeps what is said of files and sweeps.
LEMMA ReadingKeeps == ASSUME AInv, FilesStay, ArchiveTypes', ReaderOK' PROVE AInv'
<1>1. \A q \in Reports : ReportOK(q)'
  BY DEF AInv, ReportOK, IndexFiles, StockFiles, FilesStay
<1>2. \A s \in Sweepers : SweepOK(s)'
  BY DEF AInv, SweepOK, Verified, FilesStay
<1> QED  BY <1>1, <1>2 DEF AInv

\* A reader takes the text first.
LEMMA ReadTextKeeps == ASSUME AInv, NEW r \in Reports, ReadText(r) PROVE AInv'
<1>1. FilesStay
  BY DEF ReadText, FilesStay
<1>2. ArchiveTypes' /\ ReaderOK'
  BY DEF AInv, ArchiveTypes, ReaderOK, ReadText
<1> QED  BY <1>1, <1>2, ReadingKeeps

\* It shows the snapshot only when it matches the text taken before.
LEMMA ReadSnapshotKeeps == ASSUME AInv, ReadSnapshot PROVE AInv'
<1>1. FilesStay
  BY DEF ReadSnapshot, FilesStay
<1>2. ArchiveTypes' /\ ReaderOK'
  BY DEF AInv, ArchiveTypes, ReaderOK, ReadSnapshot, Matches
<1> QED  BY <1>1, <1>2, ReadingKeeps

\* Listing changes nothing.
LEMMA ListKeeps == ASSUME AInv, ListFind \/ ListRead PROVE AInv'
<1>1. FilesStay /\ UNCHANGED reader
  BY DEF ListFind, ListRead, FilesStay
<1>2. ArchiveTypes' /\ ReaderOK'
  BY <1>1 DEF AInv, ArchiveTypes, ReaderOK, FilesStay
<1> QED  BY <1>1, <1>2, ReadingKeeps

\* The end of the process takes saves, retries, sweeps and readers with it, and no file.
LEMMA ProcessEndsKeeps == ASSUME AInv, ProcessEnds PROVE AInv'
<1> USE DEF ProcessEnds, Resting, NoRead, Fail, May
<1>1. ArchiveTypes'
  BY DEF AInv, ArchiveTypes, Round
<1>2. ASSUME NEW q \in Reports PROVE ReportOK(q)'
  BY DEF AInv, ArchiveTypes, ReportOK, StockFiles
<1>3. \A s \in Sweepers : SweepOK(s)'
  BY DEF AInv, ArchiveTypes, SweepOK
<1>4. ReaderOK'
  BY DEF ReaderOK
<1> QED  BY <1>1, <1>2, <1>3, <1>4 DEF AInv

-----------------------------------------------------------------------------
\* The invariant holds of an empty archive.
LEMMA ArchiveInitInv == ArchiveInit => AInv
<1> SUFFICES ASSUME ArchiveInit PROVE AInv
  OBVIOUS
<1> USE DEF ArchiveInit, Resting, NoRead
<1>1. ArchiveTypes
  BY DEF ArchiveTypes, Round
<1>2. ASSUME NEW r \in Reports PROVE ReportOK(r)
  BY DEF ReportOK, StockFiles
<1>3. ASSUME NEW s \in Sweepers PROVE SweepOK(s)
  BY DEF SweepOK
<1>4. ReaderOK
  BY DEF ReaderOK
<1> QED  BY <1>1, <1>2, <1>3, <1>4 DEF AInv

\* Nothing the archive does breaks the invariant.
LEMMA ArchiveNextInv == AInv /\ [ArchiveNext]_archvars => AInv'
<1> SUFFICES ASSUME AInv, [ArchiveNext]_archvars PROVE AInv'
  OBVIOUS
<1>1. ASSUME NEW r \in Reports, Saving(r) PROVE AInv'
  BY <1>1, MakeDirectoryKeeps, SaveTextKeeps, SaveSnapshotKeeps DEF Saving
<1>2. ASSUME NEW r \in Reports, Retrying(r) PROVE AInv'
  <2>1. CASE RetryStockText(r) \/ RetryStockSnapshot(r) \/ RetryIndexSnapshot(r) \/ RetryIndexText(r)
    BY <2>1, RetryStockTextKeeps, RetryStockSnapshotKeeps, RetryIndexSnapshotKeeps, RetryIndexTextKeeps
  <2>2. CASE RetryBegin(r) \/ RestoreText(r) \/ RestoreSnapshot(r) \/ RetrySession(r)
    BY <2>2, RetryBeginKeeps, RestoreTextKeeps, RestoreSnapshotKeeps, RetrySessionKeeps
  <2> QED  BY <1>2, <2>1, <2>2 DEF Retrying
<1>3. ASSUME NEW r \in Reports, ReadText(r) \/ Age(r) \/ DeleteByHand(r) PROVE AInv'
  BY <1>3, ReadTextKeeps, AgeKeeps, DeleteByHandKeeps
<1>4. ASSUME NEW s \in Sweepers, SweepStep(s) PROVE AInv'
  <2>1. CASE SweepBegin(s) \/ ConsiderUnit(s) \/ UnlinkSnapshot(s)
    BY <2>1, SweepBeginKeeps, ConsiderUnitKeeps, UnlinkSnapshotKeeps
  <2>2. CASE UnlinkText(s) \/ SweepOrphans(s) \/ SweepEnd(s)
    BY <2>2, UnlinkTextKeeps, SweepOrphansKeeps, SweepEndKeeps
  <2> QED  BY <1>4, <2>1, <2>2 DEF SweepStep
<1>5. CASE ReadSnapshot \/ ListFind \/ ListRead \/ ProcessEnds
  BY <1>5, ReadSnapshotKeeps, ListKeeps, ProcessEndsKeeps
<1>6. CASE UNCHANGED archvars
  BY <1>6, ReadingKeeps, ReaderStays DEF archvars, FilesStay, AInv, ArchiveTypes
<1> QED  BY <1>1, <1>2, <1>3, <1>4, <1>5, <1>6 DEF ArchiveNext

\* The invariant implies what the run checks.
LEMMA AInvIsSafe == AInv => ArchiveSafe
<1> SUFFICES ASSUME AInv PROVE ArchiveSafe
  OBVIOUS
<1>1. ShownBelongsToText
  BY DEF AInv, ReaderOK, ShownBelongsToText
<1>2. FailedRetryRestores
  BY DEF AInv, ArchiveTypes, ReportOK, IndexFiles, FailedRetryRestores
<1>3. ChatFollowsArchive
  BY DEF AInv, ReportOK, ChatFollowsArchive
<1> QED  BY <1>1, <1>2, <1>3 DEF ArchiveSafe

\* The inductive invariant.
THEOREM ArchiveInvariance == ArchiveSpec => []AInv
BY ArchiveInitInv, ArchiveNextInv, PTL DEF ArchiveSpec

\* A shown snapshot belongs to the text shown with it, a failed retry leaves a pair that
\* belongs together, and the conversation never tells a version the archive does not have
\* (archive.py, retention.py, report_retry.py), for any reports, sweepers and failures.
THEOREM ArchiveIsSafe == ArchiveSpec => []ArchiveSafe
BY ArchiveInvariance, AInvIsSafe, PTL

\* What a step of a sweep does to a young report, or to two files that do not belong together.
LEMMA UnverifiedStep == AInv /\ [ArchiveNext]_archvars => UnverifiedKept
<1> SUFFICES ASSUME AInv, [ArchiveNext]_archvars, sweep' # sweep,
                    NEW r \in Reports,
                    ~old[r] \/ (md[r] # NoFile /\ snap[r] # NoFile /\ snap[r] # md[r])
             PROVE  md'[r] = md[r] /\ snap'[r] = snap[r]
  BY DEF UnverifiedKept
<1> USE DEF AInv, ArchiveTypes
<1>1. ASSUME NEW s \in Sweepers, UnlinkSnapshot(s) PROVE md'[r] = md[r] /\ snap'[r] = snap[r]
  BY <1>1 DEF UnlinkSnapshot, SweepOK, Verified
<1>2. ASSUME NEW s \in Sweepers, UnlinkText(s) PROVE md'[r] = md[r] /\ snap'[r] = snap[r]
  BY <1>2 DEF UnlinkText, SweepOK
<1>3. ASSUME NEW s \in Sweepers, SweepOrphans(s) PROVE md'[r] = md[r] /\ snap'[r] = snap[r]
  BY <1>3 DEF SweepOrphans, Orphan
<1>4. ASSUME NEW s \in Sweepers, SweepBegin(s) \/ ConsiderUnit(s) \/ SweepEnd(s)
      PROVE md'[r] = md[r] /\ snap'[r] = snap[r]
  BY <1>4 DEF SweepBegin, ConsiderUnit, SweepEnd
<1>5. CASE ProcessEnds
  BY <1>5 DEF ProcessEnds
<1>6. ASSUME NEW q \in Reports, Saving(q) \/ ReadText(q) \/ Age(q) \/ DeleteByHand(q) PROVE FALSE
  BY <1>6 DEF Saving, MakeDirectory, SaveText, SaveSnapshot, ReadText, Age, DeleteByHand
<1>7. ASSUME NEW q \in Reports, Retrying(q) PROVE FALSE
  BY <1>7 DEF Retrying, RetryBegin, RetryStockText, RetryStockSnapshot, RetryIndexSnapshot, RetryIndexText,
              RestoreText, RestoreSnapshot, RetrySession
<1>8. CASE ReadSnapshot \/ ListFind \/ ListRead \/ UNCHANGED archvars
  BY <1>8 DEF ReadSnapshot, ListFind, ListRead, archvars
<1> QED  BY <1>1, <1>2, <1>3, <1>4, <1>5, <1>6, <1>7, <1>8 DEF ArchiveNext, SweepStep

\* A sweep never deletes a file of a young report, nor a text and a snapshot that do not
\* belong together (retention.py), whatever saves, retries and other sweeps do meanwhile.
THEOREM UnverifiedStay == ArchiveSpec => [][UnverifiedKept]_archvars
BY ArchiveInvariance, UnverifiedStep, PTL DEF ArchiveSpec

-----------------------------------------------------------------------------
(* The report that is archived and pushed.                                  *)

HIDE DEF Active, Closed, Pushing, Places
HIDE DEF Reports, File, RetryPlaces, SweepPlaces
HIDE DEF files, retrying, reading, SaveAt, RetryAt, RetryGivenUp, Restored, Written, NotWritten, Fail, May

\* The stages in their order, and the data of a curve.
Before(p) == CASE p \in {"collect", "price"} -> {} [] p = "financial" -> {"price"}
               [] p = "valuation" -> {"price", "financial"} [] p = "industry" -> {"price", "financial", "valuation"}
               [] p = "hk" -> {"price", "financial", "valuation", "industry"}
               [] p = "compare" -> {"price", "financial", "valuation", "industry", "hk"}
               [] p = "roe" -> {"price", "financial", "valuation", "industry", "hk", "compare"}
               [] p = "mood" -> EarlyStages
               [] OTHER -> EarlyStages \union {"mood"}
ReportPlaces == EarlyStages \union {"collect", "mood", "analyse", "comment", "payload", "done"}
Judged == {"comment", "payload", "done"}
Curves == [pe : Nat, pb : Nat]

\* The types of what is given and of what the stages set.
StageTypes ==
    /\ request \in Requests /\ rows \in Nat /\ fin \in StatementType /\ val \in ValuationType
    /\ ind \in IndustryType /\ news \in NewsType /\ marks \in Marks
    /\ pc \in ReportPlaces
    /\ suff \in [Dimensions -> 0 .. 2]
    /\ history \in Curves \union {None}
    /\ peers \in {None, "plain", "comparison"} /\ roe \in {None, TRUE, FALSE}
    /\ mood = None \/ (mood.status = "complete" => mood.risk \in 0 .. 10)
    /\ calls \subseteq {"mood", "comment"} /\ bulk \in {None, "text", "sorry"}
    /\ failed \subseteq Before(pc)

\* A Chinese share whose PE is over 200 on so many days that its curve is too short.
Dear == ~HK /\ rows < 120 + fin.dear

\* What a level says of the data, and that a stage that raised leaves none.
LevelsOK ==
    /\ pc \in {"collect", "price", "financial", "valuation"} => suff["valuation"] = 0
    /\ pc \in {"collect", "price"} => suff["technical"] = 0
    /\ suff["valuation"] = 2 => /\ rows >= 120 /\ "valuation" \notin failed
                                /\ history # None => /\ history.pb >= 120
                                                     /\ history.pe >= 120 \/ Dear
    /\ suff["technical"] # 0 => "price" \notin failed
    /\ "compare" \in failed => suff["industry"] = 0

\* Results are those of the data, but for the analysers that raised.
ResultsOK ==
    IF pc \in Judged
    THEN /\ broken \subseteq Modules
         /\ results = [d \in Modules |-> IF d \in broken THEN Unavailable ELSE Kept(Outcome(d))]
    ELSE broken = {} /\ results = [d \in {} |-> None]

\* When the model was called and what came of it.
CallsOK ==
    /\ pc \in EarlyStages \union {"collect", "mood"} => calls = {}
    /\ "mood" \in calls => /\ request.extra /\ news.items > 0 /\ ~news.failed
                           /\ HasMainData \/ request.dimension = "sentiment"
    /\ pc \in {"payload", "done"} => ("comment" \in calls <=> Comments /\ request.backend)
    /\ pc \notin {"payload", "done"} => "comment" \notin calls /\ bulk = None
    /\ bulk # None => "comment" \in calls

\* The payload is made of what is there at the end.
PayloadOK ==
    IF pc = "done"
    THEN report = [final |-> IF request.extra /\ HasScored THEN Total ELSE None,
                   signal |-> SignalAllowed /\ Total # None,
                   commentary |-> CommentaryStatus,
                   quality |-> IF AllComplete THEN "ok" ELSE IF HasAnalysisData THEN "partial"
                               ELSE "unavailable",
                   coverage |-> Coverage]
    ELSE report = None

SInv == StageTypes /\ LevelsOK /\ ResultsOK /\ CallsOK /\ PayloadOK

USE RequestsAssumption, DataAssumption, PointsAssumption, NoneAssumption
USE DEF given, stages, Core, Dimensions

\* The least of two numbers.
LEMMA MinTwo ==
    ASSUME NEW x \in Int, NEW y \in Int
    PROVE  Min({x, y}) = IF x <= y THEN x ELSE y
<1>1. \E m \in {x, y} : \A n \in {x, y} : m <= n
  OBVIOUS
<1>2. Min({x, y}) \in {x, y} /\ \A n \in {x, y} : Min({x, y}) <= n
  BY <1>1 DEF Min
<1> QED  BY <1>2

\* A stage that goes on to another one changes neither results nor calls.
LEMMA EarlyGoes ==
    ASSUME SInv, pc \in EarlyStages \union {"collect"}, pc' \in EarlyStages \union {"mood"},
           UNCHANGED <<results, calls, bulk, report, broken>>, StageTypes', LevelsOK'
    PROVE  SInv'
<1>1. ResultsOK'
  BY DEF SInv, ResultsOK, EarlyStages, Judged
<1>2. CallsOK' /\ PayloadOK'
  BY DEF SInv, CallsOK, PayloadOK, EarlyStages
<1> QED  BY <1>1, <1>2 DEF SInv

\* A request collects the kinds it needs and nothing of the others.
LEMMA CollectKeeps == ASSUME SInv, Collect PROVE SInv'
<1>1. /\ rows' \in {rows, 0} /\ fin' \in {fin, NoStatement} /\ val' \in {val, NoValuation}
      /\ ind' \in {ind, NoIndustry} /\ news' \in {news, NoNews}
      /\ pc = "collect" /\ pc' = "price" /\ UNCHANGED <<request, marks, stages, results, calls, bulk, report, failed, broken>>
  BY DEF Collect
<1>2. /\ NoStatement \in StatementType /\ NoValuation \in ValuationType /\ NoIndustry \in IndustryType
      /\ NoNews \in NewsType
  BY DEF NoStatement, NoValuation, NoIndustry, NoNews, StatementType, ValuationType, IndustryType, NewsType, Signs
<1>3. failed' \subseteq Before(pc')
  BY <1>1 DEF SInv, StageTypes, Before
<1>4. rows' \in Nat /\ fin' \in StatementType /\ val' \in ValuationType /\ ind' \in IndustryType /\ news' \in NewsType
  BY <1>1, <1>2 DEF SInv, StageTypes
<1>5. StageTypes'
  BY <1>1, <1>3, <1>4 DEF SInv, StageTypes, ReportPlaces, EarlyStages
<1>6. LevelsOK'
  BY <1>1 DEF SInv, LevelsOK, StageTypes, Before
<1> QED  BY <1>1, <1>5, <1>6, EarlyGoes DEF EarlyStages

\* What a stage may do to what the stages set, by its place.
LEMMA StageGoes ==
    ASSUME SInv, pc \in EarlyStages, pc' = After(pc),
           UNCHANGED <<given, mood, results, calls, bulk, report, broken>>,
           failed' \in {failed, failed \union {pc}},
           suff' \in [Dimensions -> 0 .. 2], history' \in Curves \union {None},
           peers' \in {None, "plain", "comparison"}, roe' \in {None, TRUE, FALSE},
           LevelsOK'
    PROVE  SInv'
<1>1. /\ pc' \in EarlyStages \union {"mood"} /\ Before(pc) \union {pc} \subseteq Before(pc')
  BY DEF After, Before, EarlyStages
<1>2. StageTypes'
  BY <1>1 DEF SInv, StageTypes, ReportPlaces
<1> QED  BY <1>1, <1>2, EarlyGoes

\* What the invariant says where a stage starts.
StageFacts == /\ StageTypes /\ LevelsOK
              /\ fin.periods \in Nat /\ fin.dear \in Nat /\ val.peDays \in Nat /\ val.pbDays \in Nat

\* They follow from it.
LEMMA StartFacts == SInv => StageFacts
BY DEF SInv, StageTypes, StageFacts, StatementType, ValuationType

\* A stage that sets the level of one kind of data and nothing it rests on.
LEMMA LevelSet ==
    ASSUME StageFacts, NEW d \in {"financial", "industry"}, NEW level \in 0 .. 2, pc \in EarlyStages, "compare" \notin failed,
           suff' \in {suff, [suff EXCEPT ![d] = level]}, UNCHANGED <<given, history, failed>>,
           pc' = After(pc), pc \notin {"price", "valuation"}
    PROVE  suff' \in [Dimensions -> 0 .. 2] /\ LevelsOK'
<1>1. suff' \in [Dimensions -> 0 .. 2] /\ suff'["valuation"] = suff["valuation"] /\ suff'["technical"] = suff["technical"]
  BY DEF StageFacts, StageTypes
<1> QED  BY <1>1 DEF StageFacts, LevelsOK, After, EarlyStages, Dear, HK

\* The enrichers: each judges its own kind of data by what was collected (register order of Pipeline.run).
LEMMA PriceKeeps == ASSUME SInv, RunStage, pc = "price" PROVE SInv'
<1> StageFacts
  BY StartFacts
<1>1. PriceEnricher
  BY DEF RunStage, Stage
<1>2. suff' \in [Dimensions -> 0 .. 2] /\ suff'["valuation"] = 0
  BY <1>1 DEF PriceEnricher, PriceLevel
<1>3. LevelsOK'
  BY <1>1, <1>2 DEF PriceEnricher, RunStage, StageFacts, LevelsOK, StageTypes, Before, After
<1> QED  BY <1>1, <1>2, <1>3, StageGoes DEF PriceEnricher, RunStage, StageFacts, StageTypes

\* The level of the statements says nothing of the prices and multiples.
LEMMA FinancialKeeps == ASSUME SInv, RunStage, pc = "financial" PROVE SInv'
<1> StageFacts
  BY StartFacts
<1>1. FinancialEnricher
  BY DEF RunStage, Stage
<1>2. FinancialLevel \in 0 .. 2
  BY DEF FinancialLevel
<1>3. suff' \in [Dimensions -> 0 .. 2] /\ LevelsOK'
  BY <1>1, <1>2, LevelSet DEF FinancialEnricher, RunStage, StageFacts, StageTypes, Before
<1> QED  BY <1>1, <1>3, StageGoes DEF FinancialEnricher, RunStage, StageFacts, StageTypes

\* The curves of the multiples are as long as the prices reach, and full only at 120 days of both.
LEMMA ValuationKeeps == ASSUME SInv, RunStage, pc = "valuation" PROVE SInv'
<1> StageFacts
  BY StartFacts
<1>1. (IF HK THEN EnrichHK ELSE EnrichA) /\ UNCHANGED <<given, peers, roe, mood, failed>> /\ pc' = "industry"
  BY DEF RunStage, Stage, ValuationEnricher, After
<1>2. "valuation" \notin failed /\ rows \in Nat
  BY DEF StageFacts, StageTypes, Before
<1>3. /\ history' \in Curves \union {None}
      /\ suff' \in [Dimensions -> 0 .. 2]
      /\ suff'["technical"] = suff["technical"] /\ suff'["industry"] = suff["industry"]
      /\ suff'["valuation"] = 2 => rows >= 120 /\ (history' # None => history'.pb >= 120 /\ (history'.pe >= 120 \/ Dear))
  <2>1. CASE ~HK
    <3> DEFINE points == IF TotalShares THEN rows ELSE 0
               pe == IF fin.ttm = "pos" /\ points > fin.dear THEN points - fin.dear ELSE 0
               level == IF points < 30 THEN 0 ELSE IF fin.ttm # "pos" \/ points < 120 THEN 1 ELSE 2
    <3>1. \/ suff' = [suff EXCEPT !["valuation"] = 0] /\ UNCHANGED history
          \/ history' = [pe |-> pe, pb |-> points] /\ suff' = [suff EXCEPT !["valuation"] = level]
      BY <1>1, <2>1 DEF EnrichA
    <3>2. points \in {rows, 0} /\ pe \in Nat /\ level \in 0 .. 2 /\ (level = 2 => points >= 120 /\ (pe >= 120 \/ Dear))
      BY <1>2, <2>1 DEF StageFacts, Dear
    <3> HIDE DEF points, pe, level
    <3> QED  BY <1>2, <3>1, <3>2 DEF StageFacts, StageTypes, Curves
  <2>2. CASE HK
    <3> DEFINE pe == Min({rows, val.peDays})
               pb == Min({rows, val.pbDays})
               level == IF pe >= 120 /\ pb >= 120 THEN 2 ELSE 1
    <3>1. \/ suff' = [suff EXCEPT !["valuation"] = 0] /\ history' = None
          \/ history' = [pe |-> pe, pb |-> pb] /\ suff' = [suff EXCEPT !["valuation"] = level]
      BY <1>1, <2>2 DEF EnrichHK
    <3>2. /\ pe \in Nat /\ pe <= rows /\ pb \in Nat
      <4>1. rows \in Int /\ val.peDays \in Int /\ val.pbDays \in Int
        BY <1>2 DEF StageFacts
      <4>2. pe = IF rows <= val.peDays THEN rows ELSE val.peDays
        BY <4>1, MinTwo
      <4>3. pb = IF rows <= val.pbDays THEN rows ELSE val.pbDays
        BY <4>1, MinTwo
      <4> QED  BY <1>2, <4>2, <4>3 DEF StageFacts
    <3>3. level \in 0 .. 2 /\ (level = 2 => pe >= 120 /\ pb >= 120)
      BY <3>2
    <3> HIDE DEF pe, pb, level
    <3> QED  BY <1>2, <3>1, <3>2, <3>3 DEF StageFacts, StageTypes, Curves
  <2> QED  BY <2>1, <2>2
<1>4. LevelsOK'
  BY <1>1, <1>2, <1>3 DEF StageFacts, LevelsOK, Dear, HK
<1> QED  BY <1>1, <1>3, <1>4, StageGoes DEF RunStage, StageFacts, StageTypes, EarlyStages

\* The enrichers of the two markets set the level of the industry alone.
LEMMA IndustryKeeps == ASSUME SInv, RunStage, pc \in {"industry", "hk"} PROVE SInv'
<1> StageFacts
  BY StartFacts
<1>1. PICK level \in 0 .. 2 : suff' \in {suff, [suff EXCEPT !["industry"] = level]}
  <2>1. PoolLevel(ind.heads) \in 0 .. 2
    BY DEF PoolLevel
  <2>2. suff' \in {suff, [suff EXCEPT !["industry"] = 0], [suff EXCEPT !["industry"] = PoolLevel(ind.heads)]}
    BY DEF RunStage, Stage, IndustryEnricher, HKIndustryEnricher
  <2> QED  BY <2>1, <2>2
<1>2. /\ peers' \in {None, "plain", "comparison"} /\ UNCHANGED <<given, history, mood, roe, failed>> /\ pc' = After(pc)
  BY DEF RunStage, Stage, IndustryEnricher, HKIndustryEnricher, StageFacts, StageTypes
<1>3. "compare" \notin failed
  BY DEF StageFacts, StageTypes, Before
<1>4. suff' \in [Dimensions -> 0 .. 2] /\ LevelsOK'
  BY <1>1, <1>2, <1>3, LevelSet DEF RunStage
<1> QED  BY <1>1, <1>2, <1>4, StageGoes DEF RunStage, StageFacts, StageTypes

\* So does the comparison with the peers.
LEMMA CompareKeeps == ASSUME SInv, RunStage, pc = "compare" PROVE SInv'
<1> StageFacts
  BY StartFacts
<1>1. PeerComparison /\ UNCHANGED <<given, failed>> /\ pc' = After(pc)
  BY DEF RunStage, Stage
<1>2. PICK level \in 0 .. 2 : suff' \in {suff, [suff EXCEPT !["industry"] = level]}
  <2>1. PICK level \in {0, 1, 2} : suff' = IF ind.state = "absent" THEN suff ELSE [suff EXCEPT !["industry"] = level]
    <3> DEFINE level == IF ~ind.ready THEN 0 ELSE IF ind.complete THEN 2 ELSE IF ind.usable THEN 1 ELSE 0
    <3>1. level \in {0, 1, 2}
      OBVIOUS
    <3>2. suff' = IF ind.state = "absent" THEN suff ELSE [suff EXCEPT !["industry"] = level]
      BY <1>1 DEF PeerComparison
    <3> HIDE DEF level
    <3> QED  BY <3>1, <3>2
  <2>2. suff' \in {suff, [suff EXCEPT !["industry"] = level]} /\ level \in 0 .. 2
    BY <2>1
  <2> QED  BY <2>2
<1>3. suff' \in [Dimensions -> 0 .. 2] /\ LevelsOK'
  BY <1>1, <1>2, LevelSet DEF RunStage, StageFacts, StageTypes, Before, PeerComparison
<1> QED  BY <1>1, <1>3, StageGoes DEF RunStage, StageFacts, StageTypes, PeerComparison

\* The yearly return is known, missing or not asked for.
LEMMA ROEKeeps == ASSUME SInv, RunStage, pc = "roe" PROVE SInv'
<1> StageFacts
  BY StartFacts
<1>1. AnnualROE /\ UNCHANGED <<given, failed>> /\ pc' = After(pc) /\ pc' = "mood"
  BY DEF RunStage, Stage, After
<1>2. roe' \in {None, TRUE, FALSE} /\ UNCHANGED <<suff, history, peers, mood>>
  BY <1>1 DEF AnnualROE, StageFacts, StageTypes
<1>3. LevelsOK'
  BY <1>1, <1>2 DEF StageFacts, LevelsOK, Dear, HK
<1> QED  BY <1>1, <1>2, <1>3, StageGoes DEF RunStage, StageFacts, StageTypes

\* A stage that raises leaves no level of its own behind (ContextEnricher.enrich, Pipeline.run).
LEMMA StageRaisesKeeps == ASSUME SInv, StageRaises PROVE SInv'
<1> StageFacts
  BY StartFacts
<1>1. suff' \in [Dimensions -> 0 .. 2] /\ peers' \in {None, "plain", "comparison"} /\ roe' \in {None, TRUE, FALSE}
  <2>1. suff' \in {suff, [suff EXCEPT !["industry"] = 0]} /\ peers' \in {None, peers}
    BY DEF StageRaises
  <2>2. roe' = roe \/ roe' = FALSE
    BY DEF StageRaises
  <2>3. suff' \in [Dimensions -> 0 .. 2]
    BY <2>1 DEF StageFacts, StageTypes
  <2>4. peers \in {None, "plain", "comparison"} /\ roe \in {None, TRUE, FALSE}
    BY DEF StageFacts, StageTypes
  <2>5. roe' \in {None, TRUE, FALSE}
    BY <2>2, <2>4, Zenon
  <2> QED  BY <2>1, <2>3, <2>4, <2>5
<1>2. LevelsOK'
  <2>1. pc' \in EarlyStages \union {"mood"} /\ (pc' \in {"collect", "price", "financial", "valuation"} => pc \in {"price", "financial"})
    BY DEF StageRaises, After, EarlyStages
  <2>2. suff'["valuation"] = suff["valuation"] /\ suff'["technical"] = suff["technical"] /\ (suff'["industry"] = suff["industry"] \/ suff'["industry"] = 0)
        /\ (pc = "compare" => suff'["industry"] = 0)
    BY DEF StageRaises, StageFacts, StageTypes
  <2>3. pc' # "collect" /\ pc' # "price" /\ UNCHANGED <<request, rows, fin, history>> /\ failed' = failed \union {pc}
    BY DEF StageRaises, After, EarlyStages
  <2>4. "valuation" \in failed' => suff["valuation"] # 2
    BY <2>3 DEF StageFacts, LevelsOK
  <2>5. "price" \in failed' => suff["technical"] = 0
    BY <2>3 DEF StageFacts, LevelsOK
  <2>6. "compare" \in failed' => suff'["industry"] = 0
    BY <2>2, <2>3 DEF StageFacts, LevelsOK
  <2> QED  BY <2>1, <2>2, <2>3, <2>4, <2>5, <2>6 DEF StageFacts, LevelsOK, Dear, HK
<1> QED  BY <1>1, <1>2, StageGoes DEF StageRaises, StageFacts, StageTypes

\* The mood of the news: the model is called once, with news and with data it can be laid beside.
LEMMA MoodKeeps == ASSUME SInv, AssessMood \/ MoodRaises PROVE SInv'
<1> USE DEF AssessMood, MoodRaises, Assessable, CollectionFailure, MoodModel, ValidAnnotation, NothingToAssess,
            BadAnnotation, Assessed
<1>1. /\ pc = "mood" /\ pc' = "analyse" /\ UNCHANGED <<given, history, peers, roe, results, bulk, report, broken>>
      /\ failed' \subseteq failed \union {"mood"}
      /\ \A d \in Core : suff'[d] = suff[d]
  BY DEF SInv, StageTypes
<1>2. suff' \in [Dimensions -> 0 .. 2]
  BY DEF SInv, StageTypes
<1>3. mood' = None \/ (mood'.status = "complete" => mood'.risk \in 0 .. 10)
  BY DEF SInv, StageTypes
<1>4. calls = {} /\ calls' \subseteq {"mood"} /\ ("mood" \in calls' => request.extra /\ Assessable)
  BY <1>1 DEF SInv, CallsOK, EarlyStages
<1>5. StageTypes'
  BY <1>1, <1>2, <1>3, <1>4 DEF SInv, StageTypes, ReportPlaces, Before
<1>6. LevelsOK'
  BY <1>1 DEF SInv, LevelsOK, Dear, HK
<1>7. ResultsOK' /\ PayloadOK'
  BY <1>1 DEF SInv, ResultsOK, PayloadOK, Judged
<1>8. CallsOK'
  BY <1>1, <1>4 DEF SInv, CallsOK, HasMainData, EarlyStages, LLMEnabled
<1> QED  BY <1>5, <1>6, <1>7, <1>8 DEF SInv

\* Results depend on what is given and on the stages alone.
LEMMA SameOutcome ==
    ASSUME UNCHANGED <<given, stages>>, NEW d
    PROVE  Modules' = Modules /\ Kept(Outcome(d))' = Kept(Outcome(d))
<1> USE DEF Result, Unavailable, Scored, HK
<1>1. Financial' = Financial
  BY DEF Financial, Available, Eligible
<1>2. Technical' = Technical
  BY DEF Technical
<1>3. Valuation' = Valuation
  <2>1. ValuationEvidence' = ValuationEvidence
    BY DEF ValuationEvidence, Usable, Ranked
  <2> QED  BY <2>1 DEF Valuation, ValuationItems, Positive
<1>4. Industry' = Industry
  BY DEF Industry, ComparisonStatus
<1>5. Sentiment' = Sentiment
  BY DEF Sentiment, NewsOnly
<1>6. Outcome(d)' = Outcome(d)
  BY <1>1, <1>2, <1>3, <1>4, <1>5 DEF Outcome
<1> QED  BY <1>6 DEF Kept, Objective, Modules

\* The steps after the stages leave alone what those set.
LEMMA LateGoes ==
    ASSUME SInv, pc \in {"analyse", "comment", "payload"}, pc' \in Judged, UNCHANGED <<given, stages, failed>>,
           calls' \subseteq {"mood", "comment"}, bulk' \in {None, "text", "sorry"}
    PROVE  StageTypes' /\ LevelsOK'
<1>1. Before(pc') = Before(pc) /\ pc' \in ReportPlaces
  BY DEF Before, Judged, ReportPlaces
<1>2. StageTypes'
  BY <1>1 DEF SInv, StageTypes
<1>3. LevelsOK'
  BY DEF SInv, LevelsOK, Judged, Dear, HK
<1> QED  BY <1>2, <1>3

\* The analysers give the outcomes of the data, whichever of them raise.
LEMMA AnalyseKeeps == ASSUME SInv, Analyse PROVE SInv'
<1>1. pc = "analyse" /\ pc' = "comment" /\ UNCHANGED <<given, stages, calls, bulk, report, failed>>
  BY DEF Analyse
<1>2. StageTypes' /\ LevelsOK'
  BY <1>1, LateGoes DEF SInv, StageTypes, Judged
<1>3. CallsOK' /\ PayloadOK'
  BY <1>1 DEF SInv, CallsOK, PayloadOK, HasMainData, EarlyStages
<1>4. ResultsOK'
  BY <1>1, SameOutcome DEF Analyse, ResultsOK, Judged, Unavailable, Result
<1> QED  BY <1>2, <1>3, <1>4 DEF SInv

\* What is said of a report depends on its results, on what is given and on the stages.
LEMMA SameQuality ==
    ASSUME UNCHANGED <<given, stages, results>>
    PROVE  /\ Comments <=> Comments'
           /\ HasScored <=> HasScored'
           /\ HasAnalysisData <=> HasAnalysisData'
           /\ SignalAllowed <=> SignalAllowed'
           /\ AllComplete <=> AllComplete'
           /\ Total' = Total /\ Coverage' = Coverage
<1> USE DEF HK, Known
<1>1. \A d \in Dimensions : Participation(d)' = Participation(d)
  BY DEF Participation
<1>2. \A d \in Core : HasFacts(d) <=> HasFacts(d)'
  BY DEF HasFacts
<1>3. \A d \in Dimensions : Level(d)' = Level(d)
  <2>1. \A d \in Dimensions : HasFacts(d) <=> HasFacts(d)'
    BY DEF HasFacts
  <2>2. \A d \in Dimensions : LevelBase(d)' = LevelBase(d) /\ StatusLevel(d)' = StatusLevel(d)
    BY <1>1 DEF LevelBase, StatusLevel
  <2> QED  BY <1>1, <2>1, <2>2 DEF Level
<1>4. Participants' = Participants
  BY <1>1 DEF Participants
<1>5. HasScored <=> HasScored'
  BY <1>4 DEF HasScored
<1>6. HasAnalysisData <=> HasAnalysisData'
  BY <1>1, <1>2 DEF HasAnalysisData
<1>7. Comments <=> Comments'
  BY <1>6 DEF Comments, LLMEnabled
<1>8. SignalAllowed <=> SignalAllowed'
  BY <1>1, <1>5 DEF SignalAllowed, SignalReady
<1>9. AllComplete <=> AllComplete'
  BY <1>1, <1>3 DEF AllComplete
<1>10. Total' = Total
  BY <1>1, <1>4, <1>5 DEF Total, OverAll, Weight
<1>11. Coverage' = Coverage
  BY <1>3 DEF Coverage, OverAll, Weight
<1> QED  BY <1>5, <1>6, <1>7, <1>8, <1>9, <1>10, <1>11

\* The commentary is asked for exactly when there is something to comment on.
LEMMA CommentKeeps == ASSUME SInv, Comment PROVE SInv'
<1>1. /\ pc = "comment" /\ pc' = "payload" /\ UNCHANGED <<given, stages, results, report, failed, broken>>
      /\ calls \subseteq {"mood"} /\ bulk = None
  BY DEF Comment, SInv, CallsOK, StageTypes
<1>2. StageTypes' /\ LevelsOK'
  BY <1>1, LateGoes DEF SInv, StageTypes, Judged, Comment
<1>3. ResultsOK' /\ PayloadOK'
  BY <1>1, SameOutcome DEF SInv, ResultsOK, PayloadOK, Judged, Unavailable, Result
<1>4. CallsOK'
  <2>1. UNCHANGED <<given, stages, results>>
    BY <1>1
  <2>2. Comments <=> Comments'
    BY <2>1, SameQuality
  <2>3. HasMainData <=> HasMainData'
    BY <1>1 DEF HasMainData
  <2> QED  BY <1>1, <2>2, <2>3 DEF SInv, CallsOK, Comment, EarlyStages
<1> QED  BY <1>2, <1>3, <1>4 DEF SInv

\* The payload is made of what is there.
LEMMA PayloadKeeps == ASSUME SInv, Payload PROVE SInv'
<1>1. /\ pc = "payload" /\ pc' = "done" /\ UNCHANGED <<given, stages, results, calls, bulk, failed, broken>>
  BY DEF Payload
<1>2. StageTypes' /\ LevelsOK'
  BY <1>1, LateGoes DEF SInv, StageTypes, Judged
<1>3. ResultsOK'
  BY <1>1, SameOutcome DEF SInv, ResultsOK, Judged, Unavailable, Result
<1>4. CallsOK'
  <2>3. UNCHANGED <<given, stages, results>>
    BY <1>1
  <2>1. Comments <=> Comments'
    BY <2>3, SameQuality
  <2>2. HasMainData <=> HasMainData'
    BY <1>1 DEF HasMainData
  <2> QED  BY <1>1, <2>1, <2>2 DEF SInv, CallsOK, EarlyStages
<1>5. PayloadOK'
  <2>3. UNCHANGED <<given, stages, results>>
    BY <1>1
  <2>4. /\ HasScored <=> HasScored'
        /\ HasAnalysisData <=> HasAnalysisData'
        /\ SignalAllowed <=> SignalAllowed'
        /\ AllComplete <=> AllComplete'
        /\ Total' = Total /\ Coverage' = Coverage
    BY <2>3, SameQuality
  <2>1. CommentaryStatus' = CommentaryStatus
    BY <1>1, <2>4 DEF CommentaryStatus
  <2>2. /\ Total' = Total /\ Coverage' = Coverage
        /\ (IF request.extra /\ HasScored THEN Total ELSE None)' = IF request.extra /\ HasScored THEN Total ELSE None
        /\ (SignalAllowed /\ Total # None)' = (SignalAllowed /\ Total # None)
        /\ (IF AllComplete THEN "ok" ELSE IF HasAnalysisData THEN "partial" ELSE "unavailable")'
            = IF AllComplete THEN "ok" ELSE IF HasAnalysisData THEN "partial" ELSE "unavailable"
    BY <1>1, <2>4
  <2> QED  BY <1>1, <2>1, <2>2 DEF Payload, PayloadOK
<1> QED  BY <1>2, <1>3, <1>4, <1>5 DEF SInv

\* A report starts with no level, no result and no call.
LEMMA ReportInitInv == Init => SInv
<1> SUFFICES ASSUME Init PROVE SInv
  OBVIOUS
<1>1. StageTypes
  BY DEF Init, StageTypes, ReportPlaces, Before
<1>2. LevelsOK /\ ResultsOK /\ CallsOK /\ PayloadOK
  BY DEF Init, LevelsOK, ResultsOK, CallsOK, PayloadOK, Judged
<1> QED  BY <1>1, <1>2 DEF SInv

\* Every step keeps the invariant.
LEMMA ReportNextInv == SInv /\ [Next]_vars => SInv'
<1> SUFFICES ASSUME SInv, [Next]_vars PROVE SInv'
  OBVIOUS
<1>1. CASE RunStage
  BY <1>1, PriceKeeps, FinancialKeeps, ValuationKeeps, IndustryKeeps, CompareKeeps, ROEKeeps DEF RunStage, EarlyStages
<1>2. CASE Collect \/ StageRaises \/ AssessMood \/ MoodRaises
  BY <1>2, CollectKeeps, StageRaisesKeeps, MoodKeeps
<1>3. CASE Analyse \/ Comment \/ Payload
  BY <1>3, AnalyseKeeps, CommentKeeps, PayloadKeeps
<1>4. CASE UNCHANGED vars
  <2>1. UNCHANGED <<given, stages, results>> /\ UNCHANGED <<pc, calls, bulk, report, failed, broken>>
    BY <1>4 DEF vars
  <2>9. StageTypes'
    <3>1. Before(pc') = Before(pc)
      BY <2>1
    <3> QED  BY <2>1, <3>1 DEF SInv, StageTypes
  <2>10. LevelsOK'
    BY <2>1 DEF SInv, LevelsOK, Dear, HK
  <2>2. StageTypes' /\ LevelsOK'
    BY <2>9, <2>10
  <2>3. ResultsOK'
    BY <2>1, SameOutcome DEF SInv, ResultsOK, Judged, Unavailable, Result
  <2>4. /\ Comments <=> Comments'
        /\ HasScored <=> HasScored'
        /\ HasAnalysisData <=> HasAnalysisData'
        /\ SignalAllowed <=> SignalAllowed'
        /\ AllComplete <=> AllComplete'
        /\ Total' = Total /\ Coverage' = Coverage
    BY <2>1, SameQuality
  <2>5. CallsOK'
    BY <2>1, <2>4 DEF SInv, CallsOK, HasMainData
  <2>6. CommentaryStatus' = CommentaryStatus
    BY <2>1, <2>4 DEF CommentaryStatus
  <2>7. /\ Total' = Total /\ Coverage' = Coverage
        /\ (IF request.extra /\ HasScored THEN Total ELSE None)' = IF request.extra /\ HasScored THEN Total ELSE None
        /\ (SignalAllowed /\ Total # None)' = (SignalAllowed /\ Total # None)
        /\ (IF AllComplete THEN "ok" ELSE IF HasAnalysisData THEN "partial" ELSE "unavailable")'
            = IF AllComplete THEN "ok" ELSE IF HasAnalysisData THEN "partial" ELSE "unavailable"
    BY <2>1, <2>4
  <2>8. PayloadOK'
    BY <2>1, <2>6, <2>7 DEF SInv, PayloadOK
  <2> QED  BY <2>2, <2>3, <2>5, <2>8 DEF SInv
<1> QED  BY <1>1, <1>2, <1>3, <1>4 DEF Next, Stop

-----------------------------------------------------------------------------
\* A result has points or none.
LEMMA OutcomeRange ==
    ASSUME SInv, NEW d \in Dimensions
    PROVE  Outcome(d).score \in (0 .. 10) \union {None}
<1> USE DEF Result, Unavailable, Scored
<1>1. marks \in [Core -> 0 .. 10] /\ (mood = None \/ (mood.status = "complete" => mood.risk \in 0 .. 10))
  BY DEF SInv, StageTypes
<1>2. CASE d = "financial"
  BY <1>1, <1>2 DEF Outcome, Financial
<1>3. CASE d = "technical"
  BY <1>1, <1>3 DEF Outcome, Technical
<1>4. CASE d = "valuation"
  BY <1>1, <1>4 DEF Outcome, Valuation
<1>5. CASE d = "industry"
  BY <1>1, <1>5 DEF Outcome, Industry
<1>6. CASE d = "sentiment"
  BY <1>1, <1>6 DEF Outcome, Sentiment, NewsOnly
<1> QED  BY <1>2, <1>3, <1>4, <1>5, <1>6

\* A dimension that takes part in the total is one that was asked for and judged.
LEMMA TakesPart ==
    ASSUME SInv, pc \in Judged, NEW d \in Dimensions, Participation(d) # None
    PROVE  /\ d \in DOMAIN results /\ d \in Modules /\ d \notin broken /\ results[d] = Outcome(d) /\ request.extra
           /\ results[d].status # "unavailable" /\ results[d].score \in 0 .. 10
           /\ Participation(d) \in 0 .. 10
<1>1. d \in DOMAIN results /\ results[d].status # "unavailable" /\ results[d].score # None
  BY DEF Participation, Known
<1>2. DOMAIN results = Modules /\ results[d] = IF d \in broken THEN Unavailable ELSE Kept(Outcome(d))
  BY <1>1 DEF SInv, ResultsOK
<1>3. d \notin broken /\ results[d] = Kept(Outcome(d))
  BY <1>1, <1>2 DEF Unavailable, Result
<1>4. request.extra /\ results[d] = Outcome(d)
  BY <1>1, <1>3 DEF Kept, Objective, Result
<1>5. results[d].score \in 0 .. 10
  BY <1>1, <1>4, OutcomeRange
<1> QED  BY <1>1, <1>2, <1>3, <1>4, <1>5 DEF Participation, Known

\* The end of a report.
Payloads ==
    /\ SInv /\ pc = "done" /\ pc \in Judged
    /\ report.final = (IF request.extra /\ HasScored THEN Total ELSE None)
    /\ report.signal <=> SignalAllowed /\ Total # None
    /\ report.commentary = CommentaryStatus
    /\ report.quality = (IF AllComplete THEN "ok" ELSE IF HasAnalysisData THEN "partial" ELSE "unavailable")
    /\ report.coverage = Coverage

\* There is a payload only there.
LEMMA Ended == ASSUME SInv, report # None PROVE Payloads
<1>1. pc = "done"
  BY DEF SInv, PayloadOK
<1> DEFINE signal == SignalAllowed /\ Total # None
<1>2. signal \in BOOLEAN
  OBVIOUS
<1>3. /\ report.final = (IF request.extra /\ HasScored THEN Total ELSE None)
      /\ report.signal = signal
      /\ report.commentary = CommentaryStatus
      /\ report.quality = (IF AllComplete THEN "ok" ELSE IF HasAnalysisData THEN "partial" ELSE "unavailable")
      /\ report.coverage = Coverage
  <2> HIDE DEF signal
  <2>1. report = [final |-> IF request.extra /\ HasScored THEN Total ELSE None, signal |-> signal,
                  commentary |-> CommentaryStatus,
                  quality |-> IF AllComplete THEN "ok" ELSE IF HasAnalysisData THEN "partial" ELSE "unavailable",
                  coverage |-> Coverage]
    BY <1>1 DEF SInv, PayloadOK, signal
  <2> QED  BY <2>1
<1> QED  BY <1>1, <1>3 DEF Payloads, Judged

\* A signal rests on data of this run (build_data_quality).
LEMMA InvGrounds == SInv => SignalGrounded
<1> SUFFICES ASSUME SInv, report # None, report.signal
             PROVE  /\ request.extra /\ report.final # None
                    /\ rows >= 120 /\ Available = Eligible
                    /\ "pb" \in ValuationEvidence /\ ("pe" \in ValuationEvidence \/ Dear)
                    /\ failed \cap {"price", "valuation"} = {}
                    /\ broken \cap {"financial", "technical", "valuation"} = {}
  BY DEF SignalGrounded, Dear
<1> Payloads
  BY Ended
<1>1. /\ request.extra /\ HasScored /\ report.final # None
      /\ SignalReady("financial") /\ SignalReady("technical") /\ SignalReady("valuation")
  BY DEF Payloads, SignalAllowed
<1>2. \A d \in {"financial", "technical", "valuation"} :
         d \notin broken /\ results[d] = Outcome(d) /\ results[d].status = "ok" /\ Participation(d) # None /\ Known(d)
         /\ results[d].score \in 0 .. 10
  BY <1>1, TakesPart DEF Payloads, SignalReady
<1> USE DEF Result, Unavailable, Scored
<1>3. Available = Eligible
  <2>1. results["financial"] = Financial /\ results["financial"].score # None
    BY <1>2 DEF Outcome
  <2>2. results["financial"].full = (Available = Eligible)
    BY <2>1 DEF Financial
  <2> QED  BY <1>1, <2>2 DEF SignalReady
<1>4. "price" \notin failed
  <2>1. results["technical"] = Technical
    BY <1>2 DEF Outcome
  <2>2. suff["technical"] # 0
    BY <1>2, <2>1 DEF Technical
  <2> QED  BY <2>2 DEF SInv, LevelsOK
<1>5. /\ suff["valuation"] = 2 /\ history # None /\ val.pe = "pos" /\ val.pb = "pos"
  <2>1. results["valuation"] = Valuation
    BY <1>2 DEF Outcome
  <2> QED  BY <1>2, <2>1 DEF Valuation, Positive
<1>6. rows >= 120 /\ "valuation" \notin failed /\ history.pb >= 120 /\ (history.pe >= 120 \/ Dear)
  BY <1>5 DEF SInv, LevelsOK
<1>7. "pb" \in ValuationEvidence /\ ("pe" \in ValuationEvidence \/ Dear)
  BY <1>5, <1>6 DEF ValuationEvidence, Usable, Ranked
<1> QED  BY <1>1, <1>2, <1>3, <1>4, <1>6, <1>7

\* Without extra analysis nothing is judged.
LEMMA InvObjective == SInv => ObjectiveOnly
<1> SUFFICES ASSUME SInv, ~request.extra
             PROVE  /\ calls = {} /\ bulk = None
                    /\ \A d \in DOMAIN results : results[d].score = None
                    /\ report # None => /\ report.final = None /\ ~report.signal
                                        /\ report.commentary = "not_requested"
  BY DEF ObjectiveOnly
<1>1. calls = {} /\ bulk = None
  <2>1. ~Comments
    BY DEF Comments, LLMEnabled
  <2>2. "mood" \notin calls /\ "comment" \notin calls
    BY <2>1 DEF SInv, CallsOK
  <2> QED  BY <2>2 DEF SInv, CallsOK, StageTypes
<1>2. ASSUME NEW d \in DOMAIN results PROVE results[d].score = None
  BY <1>2 DEF SInv, ResultsOK, Kept, Objective, Unavailable, Result
<1>3. report # None => report.final = None /\ ~report.signal /\ report.commentary = "not_requested"
  BY Ended DEF Payloads, SignalAllowed, CommentaryStatus
<1> QED  BY <1>1, <1>2, <1>3

\* The model is called only with data.
LEMMA InvNeedsData == SInv => ModelNeedsData
<1> SUFFICES ASSUME SInv PROVE ModelNeedsData
  OBVIOUS
<1>1. "comment" \in calls => HasAnalysisData
  BY DEF SInv, CallsOK, Comments
<1> QED  BY <1>1 DEF SInv, CallsOK, ModelNeedsData

\* What is said of the commentary is what happened.
LEMMA InvTold == SInv => CommentaryTold
<1> SUFFICES ASSUME SInv, report # None
             PROVE  /\ (report.commentary = "ok") <=> (bulk = "text")
                    /\ report.commentary = "failed" => "comment" \in calls
                    /\ report.commentary \in {"disabled", "config"} => "comment" \notin calls
  BY DEF CommentaryTold
<1>1. /\ report.commentary = CommentaryStatus
      /\ "comment" \in calls <=> Comments /\ request.backend
      /\ bulk # None => "comment" \in calls
  BY Ended DEF Payloads, SInv, CallsOK
<1> QED  BY <1>1 DEF CommentaryStatus, Comments, LLMEnabled

\* Every level of a report that is whole is the highest, of a dimension that was asked for.
LEMMA WholeLevels ==
    ASSUME SInv, pc \in Judged, AllComplete, NEW d \in Dimensions
    PROVE  /\ d \notin broken
           /\ d \in {"technical", "valuation", "industry"} => suff[d] = 2
<1>1. Level(d) = 2 /\ (Participation(d) # None \/ ~request.extra)
  BY DEF AllComplete
<1>2. suff[d] \in 0 .. 2 /\ StatusLevel(d) \in 0 .. 2
  BY DEF SInv, StageTypes, StatusLevel
<1>3. Min({suff[d], StatusLevel(d)}) = 2 => suff[d] = 2 /\ StatusLevel(d) = 2
  BY <1>2, MinTwo
<1>4. CASE request.extra
  <2>1. Participation(d) # None /\ LevelBase(d) = 2
    BY <1>1, <1>4 DEF Level
  <2>2. d # "financial" => suff[d] = 2
    BY <1>3, <2>1 DEF LevelBase
  <2> QED  BY <2>1, <2>2, TakesPart
<1>5. CASE ~request.extra
  <2>1. CASE d = "sentiment"
    <3>1. StatusLevel(d) = 2
      <4>1. Min({StatusLevel(d), 1}) # 2
        BY <1>2, MinTwo
      <4> QED  BY <1>1, <1>5, <2>1, <4>1 DEF Level
    <3>2. Known(d) /\ results[d].status = "ok"
      BY <3>1 DEF StatusLevel
    <3> QED  BY <2>1, <3>2 DEF SInv, ResultsOK, Unavailable, Result, Known
  <2>2. CASE d # "sentiment"
    <3>1. HasFacts(d) /\ LevelBase(d) = 2
      BY <1>1, <1>5, <2>2 DEF Level
    <3>2. d # "financial" => suff[d] = 2
      BY <1>3, <3>1 DEF LevelBase
    <3>3. Known(d) /\ results[d].status # "unavailable"
      BY <3>1 DEF HasFacts
    <3> QED  BY <2>2, <3>2, <3>3 DEF SInv, ResultsOK, Unavailable, Result, Known
  <2> QED  BY <2>1, <2>2
<1> QED  BY <1>4, <1>5

\* A report called complete covers everything, and none of its stages raised.
LEMMA InvWhole == SInv => CompleteIsWhole
<1> SUFFICES ASSUME SInv, report # None, report.quality = "ok"
             PROVE  /\ report.coverage = 100
                    /\ failed \cap {"price", "valuation", "compare"} = {} /\ broken = {}
                    /\ request.extra => Participants = Dimensions
  BY DEF CompleteIsWhole
<1> Payloads
  BY Ended
<1>1. AllComplete
  BY DEF Payloads
<1>2. report.coverage = 100
  <2>1. \A d \in Dimensions : Level(d) = 2
    BY <1>1 DEF AllComplete
  <2> QED  BY <2>1 DEF Payloads, Coverage, OverAll, Weight
<1>3. suff["technical"] = 2 /\ suff["valuation"] = 2 /\ suff["industry"] = 2 /\ \A d \in Dimensions : d \notin broken
  BY <1>1, WholeLevels DEF Payloads
<1>4. broken \subseteq Dimensions
  BY DEF Payloads, SInv, ResultsOK, StageTypes, Modules
<1>5. request.extra => Participants = Dimensions
  BY <1>1 DEF AllComplete, Participants
<1>6. failed \cap {"price", "valuation", "compare"} = {}
  BY <1>3 DEF SInv, LevelsOK
<1> QED  BY <1>2, <1>3, <1>4, <1>5, <1>6

\* The greater number has the greater multiple.
LEMMA MoreTimes == ASSUME NEW x \in Nat, NEW y \in Nat, NEW w \in Nat, x <= y PROVE x * w <= y * w
<1> DEFINE k == y - x
<1>1. k \in Nat /\ y = x + k
  OBVIOUS
<1> HIDE DEF k
<1>2. y * w = x * w + k * w /\ k * w \in Nat /\ x * w \in Nat
  BY <1>1
<1> QED  BY <1>2

\* A quotient lies between two numbers when the dividend lies between their multiples.
LEMMA DivBounds ==
    ASSUME NEW n \in Nat, NEW w \in Nat \ {0}, NEW lo \in Nat, NEW hi \in Nat,
           lo * w <= n, n < (hi + 1) * w
    PROVE  lo <= n \div w /\ n \div w <= hi
<1> DEFINE q == n \div w
<1>1. q \in Nat /\ q * w <= n /\ n < (q + 1) * w
  OBVIOUS
<1> HIDE DEF q
<1>2. lo <= q
  <2> SUFFICES ASSUME q + 1 <= lo PROVE FALSE
    BY <1>1
  <2>1. (q + 1) * w <= lo * w
    BY <1>1, MoreTimes
  <2> QED  BY <1>1, <2>1
<1>3. q <= hi
  <2> SUFFICES ASSUME hi + 1 <= q PROVE FALSE
    BY <1>1
  <2>1. (hi + 1) * w <= q * w
    BY <1>1, MoreTimes
  <2> QED  BY <1>1, <2>1
<1> QED  BY <1>2, <1>3 DEF q

\* The weights of those that take part, and the points each of them brings.
Share(d) == IF d \in Participants THEN Weight(d) ELSE 0
Points(d) == IF d \in Participants THEN Weight(d) * Participation(d) ELSE 0
Shares == OverAll([d \in Dimensions |-> Share(d)])
Sum == OverAll([d \in Dimensions |-> Points(d)])

\* The points lie between those of the lowest and of the highest participant.
LEMMA SumBetween ==
    ASSUME SInv, pc \in Judged, HasScored, NEW lo \in 0 .. 10, NEW hi \in 0 .. 10,
           \A d \in Participants : lo <= Participation(d) /\ Participation(d) <= hi
    PROVE  Shares \in Nat \ {0} /\ Sum \in Nat /\ lo * Shares <= Sum /\ Sum <= hi * Shares
<1>1. \A d \in Dimensions :
         /\ Share(d) \in Nat /\ Points(d) \in Nat
         /\ lo * Share(d) <= Points(d) /\ Points(d) <= hi * Share(d)
  <2> SUFFICES ASSUME NEW d \in Dimensions
               PROVE  /\ Share(d) \in Nat /\ Points(d) \in Nat
                      /\ lo * Share(d) <= Points(d) /\ Points(d) <= hi * Share(d)
    OBVIOUS
  <2>1. Weight(d) \in {30, 20, 25, 5}
    BY DEF Weight
  <2>2. CASE d \in Participants
    <3>1. Participation(d) \in 0 .. 10 /\ lo <= Participation(d) /\ Participation(d) <= hi
      BY <2>2, TakesPart DEF Participants
    <3>2. Share(d) = Weight(d) /\ Points(d) = Weight(d) * Participation(d)
      BY <2>2 DEF Share, Points
    <3> QED  BY <2>1, <3>1, <3>2
  <2>3. CASE d \notin Participants
    BY <2>3 DEF Share, Points
  <2> QED  BY <2>2, <2>3
<1> DEFINE f == Share("financial") t == Share("technical") v == Share("valuation")
           i == Share("industry") m == Share("sentiment")
<1>2. Shares = f + t + v + i + m
  BY DEF Shares, OverAll
<1>3. Sum = Points("financial") + Points("technical") + Points("valuation") + Points("industry") + Points("sentiment")
  BY DEF Sum, OverAll
<1>4. f + t + v + i + m > 0
  <2>1. PICK c \in Core : c \in Participants
    BY DEF HasScored
  <2>2. Share(c) > 0
    BY <2>1 DEF Share, Weight
  <2>3. f \in Nat /\ t \in Nat /\ v \in Nat /\ i \in Nat /\ m \in Nat
    BY <1>1
  <2>4. f > 0 \/ t > 0 \/ v > 0 \/ i > 0
    BY <2>1, <2>2
  <2> HIDE DEF f, t, v, i, m
  <2> QED  BY <2>3, <2>4
<1> HIDE DEF f, t, v, i, m
<1>5. /\ f \in Nat /\ t \in Nat /\ v \in Nat /\ i \in Nat /\ m \in Nat
      /\ lo * f <= Points("financial") /\ lo * t <= Points("technical") /\ lo * v <= Points("valuation")
      /\ lo * i <= Points("industry") /\ lo * m <= Points("sentiment")
      /\ Points("financial") <= hi * f /\ Points("technical") <= hi * t /\ Points("valuation") <= hi * v
      /\ Points("industry") <= hi * i /\ Points("sentiment") <= hi * m
      /\ Points("financial") \in Nat /\ Points("technical") \in Nat /\ Points("valuation") \in Nat
      /\ Points("industry") \in Nat /\ Points("sentiment") \in Nat
  BY <1>1 DEF f, t, v, i, m
<1>6. lo * (f + t + v + i + m) = lo * f + lo * t + lo * v + lo * i + lo * m
  BY <1>5
<1>7. hi * (f + t + v + i + m) = hi * f + hi * t + hi * v + hi * i + hi * m
  BY <1>5
<1> QED  BY <1>2, <1>3, <1>4, <1>5, <1>6, <1>7

\* So does the total, in tenths.
LEMMA TotalBetween ==
    ASSUME SInv, pc \in Judged, HasScored, NEW lo \in 0 .. 10, NEW hi \in 0 .. 10,
           \A d \in Participants : lo <= Participation(d) /\ Participation(d) <= hi
    PROVE  10 * lo <= Total /\ Total <= 10 * hi
<1>1. Total = (20 * Sum + Shares) \div (2 * Shares)
  BY DEF Total, Sum, Shares, Share, Points
<1>2. Shares \in Nat \ {0} /\ Sum \in Nat /\ lo * Shares <= Sum /\ Sum <= hi * Shares
  BY SumBetween
<1> DEFINE n == 20 * Sum + Shares
           w == 2 * Shares
<1>3. n \in Nat /\ w \in Nat \ {0} /\ 10 * lo \in Nat /\ 10 * hi \in Nat
  BY <1>2
<1>4. (10 * lo) * w <= n /\ n < (10 * hi + 1) * w
  <2>1. (10 * lo) * w = 20 * (lo * Shares) /\ (10 * hi + 1) * w = 20 * (hi * Shares) + 2 * Shares
    BY <1>2
  <2>2. lo * Shares \in Int /\ hi * Shares \in Int
    BY <1>2
  <2> QED  BY <1>2, <2>1, <2>2
<1> HIDE DEF n, w
<1>5. 10 * lo <= n \div w /\ n \div w <= 10 * hi
  BY <1>3, <1>4, DivBounds
<1> QED  BY <1>1, <1>5 DEF n, w

\* Of some participants one has the fewest points and one the most.
LEMMA Extremes ==
    ASSUME SInv, pc \in Judged, NEW S \in SUBSET Participants, S # {}
    PROVE  /\ \E lo \in S : \A d \in S : Participation(lo) <= Participation(d)
           /\ \E hi \in S : \A d \in S : Participation(d) <= Participation(hi)
<1>1. \A d \in S : d \in Dimensions /\ Participation(d) \in 0 .. 10
  BY TakesPart DEF Participants
<1> DEFINE P(d) == Participation(d)
<1> HIDE DEF P
<1>2. ASSUME NEW c \in S, NEW d \in Dimensions
      PROVE  /\ \E e \in S : P(e) <= P(c) /\ (d \in S => P(e) <= P(d))
             /\ \E e \in S : P(c) <= P(e) /\ (d \in S => P(d) <= P(e))
  BY <1>1 DEF P
<1>3. PICK c \in S : TRUE
  OBVIOUS
<1>4. \E lo \in S : \A d \in S : P(lo) <= P(d)
  <2>1. PICK c1 \in S : "financial" \in S => P(c1) <= P("financial")
    BY <1>2, <1>3
  <2>2. PICK c2 \in S : P(c2) <= P(c1) /\ ("technical" \in S => P(c2) <= P("technical"))
    BY <1>2
  <2>3. PICK c3 \in S : P(c3) <= P(c2) /\ ("valuation" \in S => P(c3) <= P("valuation"))
    BY <1>2
  <2>4. PICK c4 \in S : P(c4) <= P(c3) /\ ("industry" \in S => P(c4) <= P("industry"))
    BY <1>2
  <2>5. PICK c5 \in S : P(c5) <= P(c4) /\ ("sentiment" \in S => P(c5) <= P("sentiment"))
    BY <1>2
  <2> QED  BY <1>1, <2>1, <2>2, <2>3, <2>4, <2>5 DEF P
<1>5. \E hi \in S : \A d \in S : P(d) <= P(hi)
  <2>1. PICK c1 \in S : "financial" \in S => P("financial") <= P(c1)
    BY <1>2, <1>3
  <2>2. PICK c2 \in S : P(c1) <= P(c2) /\ ("technical" \in S => P("technical") <= P(c2))
    BY <1>2
  <2>3. PICK c3 \in S : P(c2) <= P(c3) /\ ("valuation" \in S => P("valuation") <= P(c3))
    BY <1>2
  <2>4. PICK c4 \in S : P(c3) <= P(c4) /\ ("industry" \in S => P("industry") <= P(c4))
    BY <1>2
  <2>5. PICK c5 \in S : P(c4) <= P(c5) /\ ("sentiment" \in S => P("sentiment") <= P(c5))
    BY <1>2
  <2> QED  BY <1>1, <2>1, <2>2, <2>3, <2>4, <2>5 DEF P
<1> QED  BY <1>4, <1>5 DEF P

\* The total lies between the participants', and the worst news never lifts it.
LEMMA InvWithin == SInv => TotalWithin
<1> SUFFICES ASSUME SInv, report # None, report.final # None
             PROVE  /\ Participants \cap Core # {}
                    /\ \E lo, hi \in Participants :
                         /\ 10 * Participation(lo) <= report.final /\ report.final <= 10 * Participation(hi)
                    /\ ("sentiment" \in Participants /\ mood.risk = 10) =>
                         \E d \in Participants \cap Core : report.final <= 10 * Participation(d)
  BY DEF TotalWithin
<1>1. report.final = Total /\ HasScored /\ pc \in Judged
  BY Ended DEF Payloads
<1>2. Participants \cap Core # {}
  BY <1>1 DEF HasScored
<1>3. \A d \in Participants : d \in Dimensions /\ Participation(d) \in 0 .. 10
  BY <1>1, TakesPart DEF Participants
<1>4. PICK lo \in Participants : \A d \in Participants : Participation(lo) <= Participation(d)
  BY <1>1, <1>2, Extremes
<1>5. PICK hi \in Participants : \A d \in Participants : Participation(d) <= Participation(hi)
  BY <1>1, <1>2, Extremes
<1>6. 10 * Participation(lo) <= Total /\ Total <= 10 * Participation(hi)
  BY <1>1, <1>3, <1>4, <1>5, TotalBetween
<1>7. ASSUME "sentiment" \in Participants, mood.risk = 10
      PROVE  \E d \in Participants \cap Core : Total <= 10 * Participation(d)
  <2>1. Participation("sentiment") = 0
    <3>1. /\ results["sentiment"] = Sentiment /\ results["sentiment"].score \in 0 .. 10 /\ request.extra
      BY <1>1, <1>7, TakesPart DEF Participants, Outcome
    <3>2. results["sentiment"].score = 10
      BY <1>7, <3>1 DEF Sentiment, NewsOnly, Unavailable, Result
    <3>3. Participation("sentiment") # None
      BY <1>7 DEF Participants
    <3> QED  BY <3>2, <3>3 DEF Participation
  <2>2. PICK top \in Participants \cap Core : \A d \in Participants \cap Core : Participation(d) <= Participation(top)
    <3> DEFINE S == Participants \cap Core
    <3>1. S \in SUBSET Participants /\ S # {}
      BY <1>2
    <3> HIDE DEF S
    <3>2. \E most \in S : \A d \in S : Participation(d) <= Participation(most)
      BY <1>1, <3>1, Extremes
    <3> QED  BY <3>2 DEF S
  <2>3. \A d \in Participants : 0 <= Participation(d) /\ Participation(d) <= Participation(top)
    BY <1>3, <2>1, <2>2
  <2>4. Total <= 10 * Participation(top)
    BY <1>1, <1>3, <2>2, <2>3, TotalBetween
  <2> QED  BY <2>2, <2>4
<1> QED  BY <1>1, <1>2, <1>6, <1>7

\* The invariant implies what the run checks.
LEMMA SInvIsSound == SInv => ReportSound
BY InvGrounds, InvObjective, InvNeedsData, InvTold, InvWhole, InvWithin DEF ReportSound

\* The inductive invariant.
THEOREM ReportInvariance == Spec => []SInv
BY ReportInitInv, ReportNextInv, PTL DEF Spec

\* For every request, all collected data and any stages and analysers that raise, a report says
\* only what its data, its stages and its model support.
THEOREM ReportsAreSound == Spec => []ReportSound
BY ReportInvariance, SInvIsSound, PTL

-----------------------------------------------------------------------------
(* StockBacktest.  The books of a run, one of each day, are a path: the next  *)
(* follows from the one before, from the days up to it and from the open of   *)
(* its day.  So two paths agree as far as their days do, by the least day on  *)
(* which they would not (PathsAgree), and what is traded later has later      *)
(* dates (LaterKeeps).  The files of a run are the first ones of the list,    *)
(* and the directory has its name when they are all (FilesFit).               *)

CONSTANTS Shelves, Histories, Benchmarks, Start, Finish, WarmUp, MaxGap, Tolerance, Positions, Cash, Slip, Rate,
          Stamp, MinFee, MaxTries, Rough
VARIABLES job, tmp, final, page

Backtest == INSTANCE StockBacktest WITH reader <- page

\* How the instance counts.
LEMMA BacktestCounts == \A S : Backtest!Cardinality(S) = Cardinality(S)
  BY Zenon DEF Backtest!Cardinality, Cardinality

\* A set of numbers has a least one.
LEMMA LeastOf ==
  ASSUME NEW T, T \subseteq Nat, T # {}
  PROVE  \E x \in T : \A y \in T : x <= y
<1> DEFINE R == OpToRel(<, Nat)
<1>1. IsWellFoundedOn(R, Nat)
  BY NatLessThanWellFounded
<1>2. \A x, y \in Nat : x < y => <<x, y>> \in R
  BY DEF OpToRel
<1> HIDE DEF R
<1>3. PICK x \in T : \A y \in T : <<y, x>> \notin R
  BY <1>1, WFMin, Zenon
<1>4. \A y \in T : y \in Nat /\ ~(y < x)
  BY <1>2, <1>3, Zenon
<1>5. x \in Nat /\ \A y \in T : x <= y
  BY <1>4
<1> QED BY <1>5

Quote == [date : Int, open : Int, close : Int]
\* The sources are asked for prices to the end of the request and give none of later days.
StockConstants ==
    /\ Start \in Int /\ Finish \in Int /\ WarmUp \in Nat
    /\ \A days \in Histories : days \in Seq(Quote) /\ \A i \in DOMAIN days : days[i].date <= Finish
    /\ None \notin SUBSET Backtest!FileSet

LEMMA HistoryIs ==
    ASSUME StockConstants, NEW days \in Histories
    PROVE  /\ days \in Seq(Quote) /\ Len(days) \in Nat /\ DOMAIN days = 1 .. Len(days)
           /\ \A i \in DOMAIN days : days[i].date \in Int /\ days[i].date <= Finish
<1>1. days \in Seq(Quote) /\ \A i \in DOMAIN days : days[i].date <= Finish
  BY DEF StockConstants
<1>2. Len(days) \in Nat /\ DOMAIN days = 1 .. Len(days) /\ \A i \in DOMAIN days : days[i] \in Quote
  BY <1>1
<1>3. \A q \in Quote : q.date \in Int
  BY DEF Quote
<1> QED BY <1>1, <1>2, <1>3

LEMMA DaysRise ==
    ASSUME StockConstants, NEW days \in Histories, Backtest!Continuous(days), NEW i \in DOMAIN days, NEW k \in DOMAIN days, i < k
    PROVE  days[i].date < days[k].date
<1> SUFFICES ASSUME ~(days[i].date < days[k].date) PROVE FALSE
  OBVIOUS
<1>1. Len(days) \in Nat /\ DOMAIN days = 1 .. Len(days) /\ \A n \in DOMAIN days : days[n].date \in Int
  BY HistoryIs
<1>2. \A n \in 2 .. Len(days) : days[n - 1].date < days[n].date
  <2>1. TAKE n \in 2 .. Len(days)
  <2>2. days[n].date - days[n - 1].date \in 1 .. MaxGap
    BY DEF Backtest!Continuous
  <2>3. n \in DOMAIN days /\ n - 1 \in DOMAIN days
    BY <1>1
  <2>4. days[n].date \in Int /\ days[n - 1].date \in Int
    BY <1>1, <2>3
  <2> QED BY <2>2, <2>4
<1>3. PICK bad : bad = {n \in DOMAIN days : i < n /\ ~(days[i].date < days[n].date)}
  OBVIOUS
<1>4. PICK n \in bad : \A m \in bad : n <= m
  <2>1. bad \subseteq Nat /\ bad # {}
    BY <1>1, <1>3
  <2> QED BY <2>1, LeastOf
<1>5. n \in 2 .. Len(days) /\ n - 1 \in DOMAIN days /\ i <= n - 1 /\ ~(n <= n - 1) /\ n \in DOMAIN days
  BY <1>1, <1>3
<1>6. n - 1 \notin bad
  BY <1>4, <1>5
<1>7. days[i].date <= days[n - 1].date
  <2>1. CASE n - 1 = i
    BY <1>1, <2>1
  <2>2. CASE n - 1 # i
    BY <1>1, <1>3, <1>5, <1>6, <2>2
  <2> QED BY <2>1, <2>2
<1>8. days[i].date \in Int /\ days[n - 1].date \in Int /\ days[n].date \in Int
  BY <1>1, <1>5
<1> QED BY <1>2, <1>3, <1>5, <1>7, <1>8

-----------------------------------------------------------------------------
BookFields == {"cash", "shares", "target", "trades", "vcash", "vshares"}

LEMMA FillKeeps ==
    ASSUME NEW b, DOMAIN b = BookFields, NEW size, NEW price, NEW fees
    PROVE  DOMAIN Backtest!Fill(b, size, price, fees) = BookFields /\ Backtest!Fill(b, size, price, fees).trades = b.trades
BY DEF Backtest!Fill, BookFields

\* A day adds one trade of the day, or none.
AddsOne(days, i, b, c) == \/ c.trades = b.trades
                          \/ \E e : c.trades = Append(b.trades, e) /\ e.date = days[i].date /\ e.signal = days[i - 1].date
LEMMA TradedIs ==
    ASSUME NEW days, NEW i, NEW b, DOMAIN b = BookFields
    PROVE  DOMAIN Backtest!Traded(days, i, b) = BookFields /\ AddsOne(days, i, b, Backtest!Traded(days, i, b))
<1>1. PICK o : o = Backtest!Order(days, i, b)
  OBVIOUS
<1>2. CASE o.target = b.target \/ o.qty = 0
  <2>1. Backtest!Traded(days, i, b) = b
    BY <1>1, <1>2, Zenon DEF Backtest!Traded
  <2> QED BY <2>1 DEF AddsOne
<1>3. CASE ~(o.target = b.target \/ o.qty = 0)
  <2>1. PICK e : e = [signal |-> days[i - 1].date, date |-> days[i].date, qty |-> o.qty, direction |-> o.direction]
    OBVIOUS
  <2>2. PICK cash : cash = IF o.direction = "buy" THEN b.cash - o.qty * o.price - o.fees ELSE b.cash + o.qty * o.price - o.fees
    OBVIOUS
  <2>3. PICK c : c = [b EXCEPT !.cash = cash, !.shares = o.wanted, !.target = o.target, !.trades = Append(b.trades, e)]
    OBVIOUS
  <2>4. DOMAIN c = BookFields /\ c.trades = Append(b.trades, e)
    BY <2>3 DEF BookFields
  <2>5. PICK size : size = IF o.direction = "buy" THEN o.qty ELSE -o.qty
    OBVIOUS
  <2>6. Backtest!Traded(days, i, b) = Backtest!Fill(c, size, o.price, o.fees)
    BY <1>1, <1>3, <2>1, <2>2, <2>3, <2>5, Zenon DEF Backtest!Traded
  <2>7. DOMAIN Backtest!Traded(days, i, b) = BookFields /\ Backtest!Traded(days, i, b).trades = Append(b.trades, e)
    BY <2>4, <2>6, FillKeeps
  <2>8. e.date = days[i].date /\ e.signal = days[i - 1].date
    BY <2>1
  <2> QED BY <2>7, <2>8, Zenon DEF AddsOne
<1> QED BY <1>2, <1>3

\* The books of a run, day by day.
Step(days, k, b) == IF k = 1 \/ days[k].date < Start THEN b ELSE Backtest!Traded(days, k, b)
Last(h, m) == IF m = 0 THEN Backtest!NewBook ELSE h[m]
Path(days, m, h) == DOMAIN h = 1 .. m /\ \A k \in 1 .. m : h[k] = Step(days, k, Last(h, k - 1))

IsTrades(s) == s \in Seq({s[n] : n \in DOMAIN s})
TradeOf(days, t, i) == t.date = days[i].date /\ t.signal = days[i - 1].date /\ days[i].date >= Start
BookIs(days, k, b) == /\ DOMAIN b = BookFields /\ IsTrades(b.trades)
                      /\ \A n \in DOMAIN b.trades : \E i \in 2 .. k : TradeOf(days, b.trades[n], i)

LEMMA AppendIs ==
    ASSUME NEW s, IsTrades(s), NEW e
    PROVE  /\ IsTrades(Append(s, e)) /\ Len(s) \in Nat /\ DOMAIN s = 1 .. Len(s)
           /\ DOMAIN Append(s, e) = 1 .. Len(s) + 1 /\ Append(s, e)[Len(s) + 1] = e
           /\ \A n \in DOMAIN s : Append(s, e)[n] = s[n]
<1>1. PICK R : R = {s[n] : n \in DOMAIN s}
  OBVIOUS
<1>2. s \in Seq(R)
  BY <1>1 DEF IsTrades
<1>3. s \in Seq(R \union {e}) /\ Len(s) \in Nat /\ DOMAIN s = 1 .. Len(s)
  BY <1>2
<1>4. PICK t : t = Append(s, e)
  OBVIOUS
<1>5. /\ t \in Seq(R \union {e}) /\ Len(t) = Len(s) + 1 /\ t[Len(s) + 1] = e
      /\ \A n \in 1 .. Len(s) : t[n] = s[n]
  BY <1>3, <1>4
<1>6. DOMAIN t = 1 .. Len(s) + 1
  BY <1>5
<1>7. \A n \in DOMAIN t : t[n] \in {t[k] : k \in DOMAIN t}
  OBVIOUS
<1>8. IsTrades(t)
  <2>1. PICK T : T = {t[k] : k \in DOMAIN t}
    OBVIOUS
  <2>2. t \in [1 .. Len(s) + 1 -> T]
    BY <1>5, <1>6, <2>1
  <2>3. t \in Seq(T)
    BY <1>3, <2>2
  <2> QED BY <2>1, <2>3 DEF IsTrades
<1> QED BY <1>3, <1>4, <1>5, <1>6, <1>8

LEMMA NewBookIs == ASSUME NEW days, NEW k PROVE BookIs(days, k, Backtest!NewBook)
<1>1. Backtest!NewBook.trades = <<>> /\ DOMAIN Backtest!NewBook = BookFields
  BY DEF Backtest!NewBook, BookFields
<1>2. IsTrades(<<>>) /\ DOMAIN <<>> = {}
  BY DEF IsTrades
<1> QED BY <1>1, <1>2 DEF BookIs

LEMMA StepIs ==
    ASSUME NEW days, NEW k \in Nat \ {0}, NEW b, BookIs(days, k - 1, b), days[k].date \in Int, Start \in Int
    PROVE  BookIs(days, k, Step(days, k, b)) /\ AddsOne(days, k, b, Step(days, k, b))
<1>1. PICK c : c = Step(days, k, b)
  OBVIOUS
<1>2. \A n \in DOMAIN b.trades : \E i \in 2 .. k : TradeOf(days, b.trades[n], i)
  <2>1. 2 .. k - 1 \subseteq 2 .. k
    OBVIOUS
  <2> QED BY <2>1 DEF BookIs
<1>3. DOMAIN b = BookFields /\ IsTrades(b.trades)
  BY DEF BookIs
<1>4. CASE k = 1 \/ days[k].date < Start
  <2>1. c = b
    BY <1>1, <1>4 DEF Step
  <2> QED BY <1>1, <1>2, <1>3, <2>1 DEF BookIs, AddsOne
<1>5. CASE ~(k = 1 \/ days[k].date < Start)
  <2>1. c = Backtest!Traded(days, k, b)
    BY <1>1, <1>5, Zenon DEF Step
  <2>2. DOMAIN c = BookFields /\ AddsOne(days, k, b, c)
    BY <1>3, <2>1, TradedIs
  <2>3. CASE c.trades = b.trades
    BY <1>1, <1>2, <1>3, <2>2, <2>3 DEF BookIs
  <2>4. CASE c.trades # b.trades
    <3>1. PICK e : c.trades = Append(b.trades, e) /\ e.date = days[k].date /\ e.signal = days[k - 1].date
      BY <2>2, <2>4 DEF AddsOne
    <3>2. PICK s : s = b.trades
      OBVIOUS
    <3>3. /\ IsTrades(c.trades) /\ Len(s) \in Nat /\ DOMAIN s = 1 .. Len(s)
          /\ DOMAIN c.trades = 1 .. Len(s) + 1 /\ c.trades[Len(s) + 1] = e
          /\ \A n \in DOMAIN s : c.trades[n] = s[n]
      BY <1>3, <3>1, <3>2, AppendIs
    <3>4. k \in 2 .. k /\ TradeOf(days, e, k)
      BY <1>5, <3>1 DEF TradeOf
    <3>5. ASSUME NEW n \in DOMAIN c.trades PROVE \E i \in 2 .. k : TradeOf(days, c.trades[n], i)
      <4>1. CASE n = Len(s) + 1
        BY <3>3, <3>4, <4>1
      <4>2. CASE n # Len(s) + 1
        <5>1. n \in DOMAIN s /\ c.trades[n] = s[n]
          BY <3>3, <4>2
        <5> QED BY <1>2, <3>2, <5>1
      <4> QED BY <4>1, <4>2
    <3> QED BY <1>1, <2>2, <3>3, <3>5 DEF BookIs
  <2> QED BY <2>3, <2>4
<1> QED BY <1>4, <1>5

LEMMA PathIs ==
    ASSUME StockConstants, NEW days \in Histories, NEW m \in 0 .. Len(days), NEW h, Path(days, m, h), NEW j \in 1 .. m
    PROVE  BookIs(days, j, h[j])
<1> SUFFICES ASSUME ~BookIs(days, j, h[j]) PROVE FALSE
  OBVIOUS
<1>1. Len(days) \in Nat /\ m \in Nat /\ \A i \in 1 .. m : days[i].date \in Int
  BY HistoryIs
<1>2. PICK bad : bad = {i \in 1 .. m : ~BookIs(days, i, h[i])}
  OBVIOUS
<1>3. PICK k \in bad : \A i \in bad : k <= i
  <2>1. bad \subseteq Nat /\ bad # {}
    BY <1>1, <1>2
  <2> QED BY <2>1, LeastOf
<1>4. k \in 1 .. m /\ k \in Nat \ {0} /\ ~BookIs(days, k, h[k])
  BY <1>1, <1>2
<1>5. BookIs(days, k - 1, Last(h, k - 1))
  <2>1. CASE k = 1
    BY <2>1, NewBookIs DEF Last
  <2>2. CASE k # 1
    <3>1. k - 1 \in 1 .. m /\ ~(k <= k - 1) /\ k - 1 # 0
      BY <1>1, <1>4, <2>2
    <3>2. BookIs(days, k - 1, h[k - 1])
      BY <1>2, <1>3, <3>1
    <3> QED BY <3>1, <3>2 DEF Last
  <2> QED BY <2>1, <2>2
<1>6. BookIs(days, k, Step(days, k, Last(h, k - 1)))
  BY <1>1, <1>4, <1>5, StepIs DEF StockConstants
<1>7. h[k] = Step(days, k, Last(h, k - 1))
  BY <1>4 DEF Path
<1> QED BY <1>4, <1>6, <1>7, Zenon

\* The trades up to a date.
Dated(trades, d) == {trades[k] : k \in {k \in DOMAIN trades : trades[k].date <= d}}
LEMMA LaterAdds ==
    ASSUME NEW s, IsTrades(s), NEW e, NEW d \in Int, e.date \in Int, d < e.date
    PROVE  Dated(Append(s, e), d) = Dated(s, d)
<1>1. PICK t : t = Append(s, e)
  OBVIOUS
<1>2. /\ Len(s) \in Nat /\ DOMAIN s = 1 .. Len(s) /\ DOMAIN t = 1 .. Len(s) + 1 /\ t[Len(s) + 1] = e
      /\ \A n \in DOMAIN s : t[n] = s[n]
  BY <1>1, AppendIs
<1>3. {k \in DOMAIN t : t[k].date <= d} = {k \in DOMAIN s : s[k].date <= d}
  <2>1. \A k \in DOMAIN t : k \in DOMAIN s \/ k = Len(s) + 1
    BY <1>2
  <2>2. DOMAIN s \subseteq DOMAIN t
    BY <1>2
  <2>3. ~(e.date <= d)
    OBVIOUS
  <2> QED BY <1>2, <2>1, <2>2, <2>3, Zenon
<1>4. \A k \in {k \in DOMAIN s : s[k].date <= d} : t[k] = s[k]
  BY <1>2
<1>5. Dated(t, d) = Dated(s, d)
  <2>1. PICK K : K = {k \in DOMAIN s : s[k].date <= d}
    OBVIOUS
  <2>2. Dated(t, d) = {t[k] : k \in K}
    BY <1>3, <2>1, Zenon DEF Dated
  <2>3. Dated(s, d) = {s[k] : k \in K}
    BY <2>1, Zenon DEF Dated
  <2>4. \A k \in K : t[k] = s[k]
    BY <1>4, <2>1
  <2> QED BY <2>2, <2>3, <2>4
<1> QED BY <1>1, <1>5

LEMMA LaterKeeps ==
    ASSUME StockConstants, NEW days \in Histories, Backtest!Continuous(days), NEW m \in 0 .. Len(days), NEW h, Path(days, m, h),
           NEW i \in 1 .. m, NEW j \in i .. m
    PROVE  Dated(h[j].trades, days[i].date) = Dated(h[i].trades, days[i].date)
<1> SUFFICES ASSUME Dated(h[j].trades, days[i].date) # Dated(h[i].trades, days[i].date) PROVE FALSE
  OBVIOUS
<1>1. /\ Len(days) \in Nat /\ m \in Nat /\ i \in Nat /\ j \in 1 .. m /\ DOMAIN days = 1 .. Len(days)
      /\ \A k \in 1 .. m : k \in DOMAIN days /\ days[k].date \in Int
  BY HistoryIs
<1>2. PICK bad : bad = {k \in i .. m : Dated(h[k].trades, days[i].date) # Dated(h[i].trades, days[i].date)}
  OBVIOUS
<1>3. PICK k \in bad : \A n \in bad : k <= n
  <2>1. bad \subseteq Nat /\ bad # {}
    BY <1>1, <1>2
  <2> QED BY <2>1, LeastOf
<1>4. k \in i .. m /\ k # i /\ Dated(h[k].trades, days[i].date) # Dated(h[i].trades, days[i].date)
  BY <1>2
<1>5. k - 1 \in i .. m /\ k - 1 \in 1 .. m /\ ~(k <= k - 1) /\ k - 1 # 0 /\ k \in 1 .. m /\ i < k /\ k \in Nat \ {0}
  BY <1>1, <1>4
<1>6. Dated(h[k - 1].trades, days[i].date) = Dated(h[i].trades, days[i].date)
  BY <1>2, <1>3, <1>5
<1>7. BookIs(days, k - 1, h[k - 1])
  BY <1>5, PathIs
<1>8. h[k] = Step(days, k, h[k - 1])
  BY <1>5 DEF Path, Last
<1>9. AddsOne(days, k, h[k - 1], h[k])
  <2>1. AddsOne(days, k, h[k - 1], Step(days, k, h[k - 1]))
    BY <1>1, <1>5, <1>7, StepIs DEF StockConstants
  <2> QED BY <1>8, <2>1, Zenon
<1>10. CASE h[k].trades = h[k - 1].trades
  BY <1>4, <1>6, <1>10, Zenon
<1>11. CASE h[k].trades # h[k - 1].trades
  <2>1. PICK e : h[k].trades = Append(h[k - 1].trades, e) /\ e.date = days[k].date
    BY <1>9, <1>11, Zenon DEF AddsOne
  <2>2. days[i].date < days[k].date
    BY <1>1, <1>5, DaysRise
  <2>3. IsTrades(h[k - 1].trades)
    BY <1>7 DEF BookIs
  <2>4. days[i].date \in Int /\ e.date \in Int /\ days[i].date < e.date
    BY <1>1, <1>5, <2>1, <2>2
  <2>5. Dated(h[k].trades, days[i].date) = Dated(h[k - 1].trades, days[i].date)
    BY <2>1, <2>3, <2>4, LaterAdds
  <2> QED BY <1>4, <1>6, <2>5, Zenon
<1> QED BY <1>10, <1>11

-----------------------------------------------------------------------------
\* Two histories that agree before a day, and in the date and the open of that day.
Agree(a, b, i) == /\ SubSeq(a, 1, i - 1) = SubSeq(b, 1, i - 1)
                  /\ a[i].date = b[i].date /\ a[i].open = b[i].open
LEMMA AgreeIs ==
    ASSUME StockConstants, NEW a \in Histories, NEW b \in Histories, NEW i \in DOMAIN a, i \in DOMAIN b, Agree(a, b, i),
           NEW k \in 1 .. i
    PROVE  Agree(a, b, k)
<1>1. /\ a \in Seq(Quote) /\ b \in Seq(Quote) /\ Len(a) \in Nat /\ Len(b) \in Nat /\ i \in Nat /\ i <= Len(a) /\ i <= Len(b)
      /\ DOMAIN a = 1 .. Len(a) /\ DOMAIN b = 1 .. Len(b) /\ i >= 1
  <2>1. a \in Seq(Quote) /\ b \in Seq(Quote) /\ Len(a) \in Nat /\ Len(b) \in Nat /\ DOMAIN a = 1 .. Len(a) /\ DOMAIN b = 1 .. Len(b)
    BY HistoryIs
  <2> QED BY <2>1
<1>2. ASSUME NEW s \in Seq(Quote), i <= Len(s), NEW n \in 1 .. i
      PROVE  /\ SubSeq(s, 1, n - 1) \in Seq(Quote) /\ Len(SubSeq(s, 1, n - 1)) = n - 1
             /\ \A x \in 1 .. n - 1 : SubSeq(s, 1, n - 1)[x] = s[x]
  <2>1. PICK l \in Nat : l = n - 1
    BY <1>1
  <2>2. 1 \in 1 .. Len(s) + 1 /\ l \in 1 - 1 .. Len(s) /\ l - 1 + 1 = l
    BY <1>1, <1>2, <2>1
  <2>3. SubSeq(s, 1, l) \in Seq(Quote) /\ Len(SubSeq(s, 1, l)) = l - 1 + 1 /\ \A x \in 1 .. l - 1 + 1 : SubSeq(s, 1, l)[x] = s[1 + x - 1]
    BY <2>2, SubSeqProperties
  <2>4. \A x \in 1 .. l : SubSeq(s, 1, l)[x] = s[x]
    <3>1. TAKE x \in 1 .. l
    <3>2. 1 + x - 1 = x /\ x \in 1 .. l - 1 + 1
      BY <2>1
    <3> QED BY <2>3, <3>2
  <2> QED BY <2>1, <2>2, <2>3, <2>4
<1>3. i \in 1 .. i
  BY <1>1
<1>4. ASSUME NEW x \in 1 .. i - 1 PROVE a[x] = b[x]
  <2>1. SubSeq(a, 1, i - 1)[x] = a[x] /\ SubSeq(b, 1, i - 1)[x] = b[x]
    BY <1>1, <1>2, <1>3
  <2> QED BY <2>1 DEF Agree
<1>5. SubSeq(a, 1, k - 1) = SubSeq(b, 1, k - 1)
  <2>1. PICK s : s = SubSeq(a, 1, k - 1)
    OBVIOUS
  <2>2. PICK t : t = SubSeq(b, 1, k - 1)
    OBVIOUS
  <2>3. s \in Seq(Quote) /\ Len(s) = k - 1 /\ \A x \in 1 .. k - 1 : s[x] = a[x]
    BY <1>1, <1>2, <2>1
  <2>4. t \in Seq(Quote) /\ Len(t) = k - 1 /\ \A x \in 1 .. k - 1 : t[x] = b[x]
    BY <1>1, <1>2, <2>2
  <2>5. \A x \in 1 .. k - 1 : a[x] = b[x]
    BY <1>1, <1>4
  <2>6. s = t
    BY <2>3, <2>4, <2>5
  <2> QED BY <2>1, <2>2, <2>6
<1>6. CASE k = i
  BY <1>5, <1>6 DEF Agree
<1>7. CASE k # i
  <2>1. a[k] = b[k]
    BY <1>1, <1>4, <1>7
  <2> QED BY <1>5, <2>1 DEF Agree
<1> QED BY <1>6, <1>7

\* A step looks at nothing else.
LEMMA StepAgrees ==
    ASSUME StockConstants, NEW a \in Histories, NEW b \in Histories, NEW k \in DOMAIN a, k \in DOMAIN b, Agree(a, b, k),
           k > 1 => Agree(a, b, k - 1), NEW book
    PROVE  Step(a, k, book) = Step(b, k, book)
<1>1. a[k].date = b[k].date /\ a[k].open = b[k].open /\ k \in Nat /\ k >= 1
  <2>1. DOMAIN a = 1 .. Len(a) /\ Len(a) \in Nat
    BY HistoryIs
  <2> QED BY <2>1 DEF Agree
<1>2. CASE k = 1
  BY <1>2 DEF Step
<1>3. CASE k # 1
  <2>1. a[k - 1].date = b[k - 1].date
    BY <1>1, <1>3 DEF Agree
  <2>2. Backtest!TargetOn(a, k - 1) = Backtest!TargetOn(b, k - 1)
    <3>1. SubSeq(a, 1, k - 1) = SubSeq(b, 1, k - 1)
      BY DEF Agree
    <3> QED BY <3>1, Zenon DEF Backtest!TargetOn
  <2>3. Backtest!Order(a, k, book) = Backtest!Order(b, k, book)
    BY <1>1, <2>2, Zenon DEF Backtest!Order
  <2>4. Backtest!Traded(a, k, book) = Backtest!Traded(b, k, book)
    BY <1>1, <2>1, <2>3, Zenon DEF Backtest!Traded
  <2> QED BY <1>1, <2>4, Zenon DEF Step
<1> QED BY <1>2, <1>3

LEMMA PathsAgree ==
    ASSUME StockConstants, NEW a \in Histories, NEW b \in Histories, NEW m \in 0 .. Len(a), NEW n \in 0 .. Len(b),
           NEW g, Path(a, m, g), NEW h, Path(b, n, h), NEW i \in 1 .. m, i <= n, Agree(a, b, i), NEW j \in 1 .. i
    PROVE  g[j] = h[j]
<1> SUFFICES ASSUME g[j] # h[j] PROVE FALSE
  OBVIOUS
<1>1. /\ m \in Nat /\ n \in Nat /\ i \in Nat /\ i \in DOMAIN a /\ i \in DOMAIN b
      /\ \A k \in 1 .. i : k \in 1 .. m /\ k \in 1 .. n /\ k \in DOMAIN a /\ k \in DOMAIN b
  <2>1. DOMAIN a = 1 .. Len(a) /\ Len(a) \in Nat /\ DOMAIN b = 1 .. Len(b) /\ Len(b) \in Nat
    BY HistoryIs
  <2> QED BY <2>1
<1>2. PICK bad : bad = {k \in 1 .. i : g[k] # h[k]}
  OBVIOUS
<1>3. PICK k \in bad : \A l \in bad : k <= l
  <2>1. bad \subseteq Nat /\ bad # {}
    BY <1>1, <1>2
  <2> QED BY <2>1, LeastOf
<1>4. k \in 1 .. i /\ g[k] # h[k]
  BY <1>2
<1>5. Last(g, k - 1) = Last(h, k - 1)
  <2>1. CASE k = 1
    BY <2>1 DEF Last
  <2>2. CASE k # 1
    <3>1. k - 1 \in 1 .. i /\ ~(k <= k - 1) /\ k - 1 # 0
      BY <1>1, <1>4, <2>2
    <3>2. g[k - 1] = h[k - 1]
      BY <1>2, <1>3, <3>1
    <3> QED BY <3>1, <3>2 DEF Last
  <2> QED BY <2>1, <2>2
<1>6. g[k] = Step(a, k, Last(g, k - 1)) /\ h[k] = Step(b, k, Last(h, k - 1))
  BY <1>1, <1>4 DEF Path
<1>7. Agree(a, b, k) /\ (k > 1 => Agree(a, b, k - 1))
  <2>1. k > 1 => k - 1 \in 1 .. i
    BY <1>1, <1>4
  <2> QED BY <1>1, <1>4, <2>1, AgreeIs
<1>8. Step(a, k, Last(g, k - 1)) = Step(b, k, Last(g, k - 1))
  BY <1>1, <1>4, <1>7, StepAgrees
<1> QED BY <1>4, <1>5, <1>6, <1>8, Zenon

-----------------------------------------------------------------------------
Pcs == {"new", "resolve", "fetch", "trade", "benchmark", "metrics", "write", "done", "failed", "killed"}
JobFields == {"pc", "days", "day", "book", "count", "next", "tries"}
InInterval(trades) == {i \in DOMAIN trades : trades[i].date \in Start .. Finish}

Walked(j) == \E h : Path(j.days, j.day - 1, h) /\ j.book = Last(h, j.day - 1)
DaysFit(j) ==
    j.days # <<>> =>
        /\ j.days \in Histories /\ Backtest!Continuous(j.days) /\ Backtest!Covered(j.days) /\ j.day \in 1 .. Len(j.days) + 1
        /\ \A k \in DOMAIN j.days : k >= j.day => j.days[k].date >= Start
        /\ Walked(j)
JobFits(j) ==
    /\ DOMAIN j = JobFields /\ j.pc \in Pcs /\ j.next \in 1 .. 6
    /\ j.pc \in {"trade", "benchmark", "metrics", "write", "done"} => j.days # <<>>
    /\ j.pc \in {"new", "resolve", "fetch"} => j.book = Backtest!NewBook
    /\ j.pc \in {"new", "resolve", "fetch", "trade", "benchmark", "metrics"} => j.next = 1
    /\ j.pc \in {"benchmark", "metrics", "write", "done"} => j.day > Len(j.days)
    /\ j.pc \in {"write", "done"} => j.count = Backtest!Cardinality(InInterval(j.book.trades))
    /\ DaysFit(j)

StockWritten(n) == {Backtest!Files[k] : k \in 1 .. n - 1}
FilesFit(r) ==
    /\ tmp[r] \in {None} \union SUBSET Backtest!FileSet
    /\ job[r].pc = "write" => tmp[r] = StockWritten(job[r].next)
    /\ job[r].pc \notin {"write", "killed"} => tmp[r] = None
    /\ final[r] = IF job[r].pc = "done" THEN Backtest!FileSet ELSE None

ReaderFits ==
    /\ DOMAIN page = {"pc", "run", "place", "missing"} /\ page.pc \in {"idle", "text", "curve", "trades", "shown"}
    /\ page.missing \subseteq Backtest!FileSet
    /\ page.place = "final" => page.missing = {}
    /\ page.pc # "idle" => page.run \in Runs /\ (page.place = "final" => final[page.run] = Backtest!FileSet)

StockInv ==
    /\ DOMAIN job = Runs /\ DOMAIN tmp = Runs /\ DOMAIN final = Runs
    /\ \A r \in Runs : JobFits(job[r]) /\ FilesFit(r)
    /\ ReaderFits

LEMMA FilesAre ==
    /\ Backtest!FileSet = {"manifest.json", "summary.json", "equity_curve.csv", "trades.csv", "report.md"}
    /\ Len(Backtest!Files) = 5 /\ StockWritten(1) = {} /\ StockWritten(6) = Backtest!FileSet
    /\ \A n \in 1 .. 5 : Backtest!Files[n] \in Backtest!FileSet /\ StockWritten(n + 1) = StockWritten(n) \union {Backtest!Files[n]}
    /\ \A n \in 1 .. 6 : StockWritten(n) \in SUBSET Backtest!FileSet
<1>1. Len(Backtest!Files) = 5 /\ DOMAIN Backtest!Files = 1 .. 5
  BY DEF Backtest!Files
<1>2. Backtest!Files[1] = "manifest.json" /\ Backtest!Files[2] = "summary.json" /\ Backtest!Files[3] = "equity_curve.csv"
      /\ Backtest!Files[4] = "trades.csv" /\ Backtest!Files[5] = "report.md"
  BY DEF Backtest!Files
<1>3. \A n \in 1 .. 5 : n = 1 \/ n = 2 \/ n = 3 \/ n = 4 \/ n = 5
  OBVIOUS
<1>4. Backtest!FileSet = {Backtest!Files[n] : n \in 1 .. 5}
  BY <1>1, Zenon DEF Backtest!FileSet
<1>5. Backtest!FileSet = {"manifest.json", "summary.json", "equity_curve.csv", "trades.csv", "report.md"}
  <2>1. ASSUME NEW f \in Backtest!FileSet PROVE f \in {"manifest.json", "summary.json", "equity_curve.csv", "trades.csv", "report.md"}
    <3>1. PICK n \in 1 .. 5 : f = Backtest!Files[n]
      BY <1>4
    <3> QED BY <1>2, <1>3, <3>1
  <2>2. 1 \in 1 .. 5 /\ 2 \in 1 .. 5 /\ 3 \in 1 .. 5 /\ 4 \in 1 .. 5 /\ 5 \in 1 .. 5
    OBVIOUS
  <2>3. \A n \in 1 .. 5 : Backtest!Files[n] \in Backtest!FileSet
    BY <1>4
  <2>4. "manifest.json" \in Backtest!FileSet /\ "summary.json" \in Backtest!FileSet /\ "equity_curve.csv" \in Backtest!FileSet
        /\ "trades.csv" \in Backtest!FileSet /\ "report.md" \in Backtest!FileSet
    BY <1>2, <2>2, <2>3
  <2> QED BY <2>1, <2>4
<1>6. StockWritten(1) = {}
  <2>1. 1 .. 1 - 1 = {}
    OBVIOUS
  <2> QED BY <2>1, Zenon DEF StockWritten
<1>7. StockWritten(6) = Backtest!FileSet
  <2>1. 1 .. 6 - 1 = 1 .. 5
    OBVIOUS
  <2> QED BY <1>4, <2>1, Zenon DEF StockWritten
<1>8. \A n \in 1 .. 5 : Backtest!Files[n] \in Backtest!FileSet /\ StockWritten(n + 1) = StockWritten(n) \union {Backtest!Files[n]}
  <2>1. TAKE n \in 1 .. 5
  <2>2. 1 .. (n + 1) - 1 = (1 .. n - 1) \union {n}
    OBVIOUS
  <2>3. PICK K : K = 1 .. n - 1
    OBVIOUS
  <2>4. StockWritten(n + 1) = {Backtest!Files[k] : k \in K \union {n}}
    BY <2>2, <2>3, Zenon DEF StockWritten
  <2>5. StockWritten(n) = {Backtest!Files[k] : k \in K}
    BY <2>3, Zenon DEF StockWritten
  <2>6. {Backtest!Files[k] : k \in K \union {n}} = {Backtest!Files[k] : k \in K} \union {Backtest!Files[n]}
    BY Zenon
  <2> QED BY <1>4, <2>4, <2>5, <2>6, Zenon
<1>9. \A n \in 1 .. 6 : StockWritten(n) \in SUBSET Backtest!FileSet
  <2>1. TAKE n \in 1 .. 6
  <2>2. 1 .. n - 1 \subseteq 1 .. 5
    OBVIOUS
  <2> QED BY <1>4, <2>2, Zenon DEF StockWritten
<1> QED BY <1>1, <1>5, <1>6, <1>7, <1>8, <1>9

LEMMA StockInitial == ASSUME StockConstants, Backtest!Init PROVE StockInv
<1>1. job = [r \in Runs |-> Backtest!NewJob] /\ tmp = [r \in Runs |-> None] /\ final = [r \in Runs |-> None] /\ page = Backtest!NoReader
  BY DEF Backtest!Init
<1>2. JobFits(Backtest!NewJob) /\ Backtest!NewJob.pc = "new"
  BY DEF JobFits, Backtest!NewJob, JobFields, Pcs, DaysFit
<1>3. \A r \in Runs : job[r] = Backtest!NewJob /\ tmp[r] = None /\ final[r] = None
  BY <1>1
<1>4. \A r \in Runs : FilesFit(r)
  BY <1>2, <1>3 DEF FilesFit
<1>5. ReaderFits
  BY <1>1 DEF ReaderFits, Backtest!NoReader
<1> QED BY <1>1, <1>2, <1>3, <1>4, <1>5 DEF StockInv

\* A step of one run.
LEMMA OneMoves ==
    ASSUME StockConstants, StockInv, NEW r \in Runs, NEW j, Backtest!Go(r, j), JobFits(j), DOMAIN tmp' = Runs, DOMAIN final' = Runs,
           \A q \in Runs \ {r} : tmp'[q] = tmp[q] /\ final'[q] = final[q],
           job'[r] = j => FilesFit(r)', UNCHANGED page, final[r] # None => final'[r] = final[r]
    PROVE  StockInv'
<1>1. DOMAIN job' = Runs /\ job'[r] = j /\ \A q \in Runs \ {r} : job'[q] = job[q]
  BY DEF Backtest!Go, StockInv
<1>2. ASSUME NEW q \in Runs PROVE JobFits(job'[q]) /\ FilesFit(q)'
  <2>1. CASE q = r
    BY <1>1, <2>1
  <2>2. CASE q # r
    <3>1. job'[q] = job[q] /\ tmp'[q] = tmp[q] /\ final'[q] = final[q]
      BY <1>1, <2>2
    <3> QED BY <3>1 DEF StockInv, FilesFit
  <2> QED BY <2>1, <2>2
<1>3. ReaderFits'
  <2>1. ASSUME page.pc # "idle", page.place = "final" PROVE final'[page.run] = Backtest!FileSet
    <3>1. page.run \in Runs /\ final[page.run] = Backtest!FileSet
      BY <2>1 DEF StockInv, ReaderFits
    <3>2. CASE page.run = r
      <4>1. final[r] # None
        BY <3>1, <3>2 DEF StockConstants
      <4> QED BY <3>1, <3>2, <4>1
    <3>3. CASE page.run # r
      BY <3>1, <3>3
    <3> QED BY <3>2, <3>3
  <2> QED BY <2>1 DEF StockInv, ReaderFits
<1>4. \A q \in Runs : JobFits(job[q])'
  BY <1>2 DEF JobFits, DaysFit, Walked, Path, Last, InInterval
<1> QED BY <1>1, <1>2, <1>3, <1>4 DEF StockInv

\* The job goes on, the directories do not change.
LEMMA JobGoes ==
    ASSUME StockConstants, StockInv, NEW r \in Runs, NEW j, Backtest!Go(r, j), JobFits(j), UNCHANGED <<Backtest!Dirs, page>>,
           j.pc \notin {"write", "done"}, job[r].pc # "done", j.pc # "killed" => job[r].pc \notin {"write", "killed"}
    PROVE  StockInv'
<1>1. tmp' = tmp /\ final' = final /\ page' = page
  BY DEF Backtest!Dirs
<1>2. ASSUME job'[r] = j PROVE FilesFit(r)'
  BY <1>1, <1>2 DEF FilesFit, StockInv
<1> QED BY <1>1, <1>2, OneMoves DEF StockInv

LEMMA PcChanges ==
    ASSUME StockInv, NEW r \in Runs, NEW place, place \in Pcs,
           place \in {"failed", "killed"} \/ (place \in {"new", "resolve", "fetch"} /\ job[r].pc \in {"new", "resolve", "fetch"})
    PROVE  JobFits([job[r] EXCEPT !.pc = place]) /\ [job[r] EXCEPT !.pc = place].pc = place
<1>1. JobFits(job[r])
  BY DEF StockInv
<1>2. PICK j : j = [job[r] EXCEPT !.pc = place]
  OBVIOUS
<1>3. /\ j.pc = place /\ DOMAIN j = JobFields /\ j.days = job[r].days /\ j.day = job[r].day /\ j.book = job[r].book
      /\ j.next = job[r].next
  BY <1>1, <1>2 DEF JobFits, JobFields
<1>4. DaysFit(j)
  BY <1>1, <1>3 DEF JobFits, DaysFit, Walked
<1>5. JobFits(j)
  BY <1>1, <1>3, <1>4 DEF JobFits
<1> QED BY <1>2, <1>3, <1>5

LEMMA StockAskKeeps == ASSUME StockConstants, StockInv, NEW r \in Runs, Backtest!Ask(r) PROVE StockInv'
<1>1. PICK place \in {"resolve", "failed"} : Backtest!Go(r, [job[r] EXCEPT !.pc = place])
  BY DEF Backtest!Ask
<1>2. PICK j : j = [job[r] EXCEPT !.pc = place]
  OBVIOUS
<1>3. place \in Pcs
  BY DEF Pcs
<1>4. JobFits(j) /\ j.pc = place
  BY <1>2, <1>3, PcChanges DEF Backtest!Ask, Backtest!At
<1>5. Backtest!Go(r, j) /\ UNCHANGED <<Backtest!Dirs, page>> /\ job[r].pc = "new"
  BY <1>1, <1>2 DEF Backtest!Ask, Backtest!At
<1> QED BY <1>4, <1>5, JobGoes

LEMMA ResolveKeeps == ASSUME StockConstants, StockInv, NEW r \in Runs, Backtest!Resolve(r) PROVE StockInv'
<1>1. PICK place \in {"fetch", "failed"} : Backtest!Go(r, [job[r] EXCEPT !.pc = place])
  BY DEF Backtest!Resolve, Backtest!Fails
<1>2. PICK j : j = [job[r] EXCEPT !.pc = place]
  OBVIOUS
<1>3. place \in Pcs
  BY DEF Pcs
<1>4. JobFits(j) /\ j.pc = place
  BY <1>2, <1>3, PcChanges DEF Backtest!Resolve, Backtest!At
<1>5. Backtest!Go(r, j) /\ UNCHANGED <<Backtest!Dirs, page>> /\ job[r].pc = "resolve"
  BY <1>1, <1>2 DEF Backtest!Resolve, Backtest!At
<1> QED BY <1>4, <1>5, JobGoes

LEMMA KillKeeps == ASSUME StockConstants, StockInv, NEW r \in Runs, Backtest!Kill(r) PROVE StockInv'
<1>1. PICK place : place = "killed"
  OBVIOUS
<1>2. PICK j : j = [job[r] EXCEPT !.pc = place]
  OBVIOUS
<1>3. JobFits(j) /\ j.pc = place
  <2>1. place \in Pcs /\ place \in {"failed", "killed"}
    BY <1>1 DEF Pcs
  <2>2. JobFits([job[r] EXCEPT !.pc = place]) /\ [job[r] EXCEPT !.pc = place].pc = place
    BY <2>1, PcChanges, Zenon
  <2> QED BY <1>2, <2>2, Zenon
<1>4. Backtest!Go(r, j) /\ UNCHANGED <<Backtest!Dirs, page>> /\ job[r].pc # "done"
  BY <1>1, <1>2 DEF Backtest!Kill
<1> QED BY <1>1, <1>3, <1>4, JobGoes

\* A run that fails before it writes.
LEMMA FailsKeeps ==
    ASSUME StockConstants, StockInv, NEW r \in Runs, Backtest!Fails(r), UNCHANGED <<Backtest!Dirs, page>>,
           job[r].pc \in {"fetch", "benchmark", "metrics"}
    PROVE  StockInv'
<1>1. PICK place : place = "failed"
  OBVIOUS
<1>2. PICK j : j = [job[r] EXCEPT !.pc = place]
  OBVIOUS
<1>3. JobFits(j) /\ j.pc = place
  <2>1. place \in Pcs /\ place \in {"failed", "killed"}
    BY <1>1 DEF Pcs
  <2>2. JobFits([job[r] EXCEPT !.pc = place]) /\ [job[r] EXCEPT !.pc = place].pc = place
    BY <2>1, PcChanges, Zenon
  <2> QED BY <1>2, <2>2, Zenon
<1>4. Backtest!Go(r, j)
  BY <1>1, <1>2 DEF Backtest!Fails
<1> QED BY <1>1, <1>3, <1>4, JobGoes

LEMMA FirstIs ==
    ASSUME StockConstants, NEW days \in Histories, NEW first,
           first = CHOOSE i \in 1 .. Len(days) + 1 : /\ i <= Len(days) => days[i].date >= Start
                                                     /\ \A k \in 1 .. i - 1 : days[k].date < Start
    PROVE  /\ first \in 1 .. Len(days) + 1 /\ (first <= Len(days) => days[first].date >= Start)
           /\ \A k \in 1 .. first - 1 : days[k].date < Start
<1>1. Len(days) \in Nat /\ DOMAIN days = 1 .. Len(days) /\ \A i \in DOMAIN days : days[i].date \in Int
  BY HistoryIs
<1>2. PICK late : late = {i \in 1 .. Len(days) + 1 : i <= Len(days) => days[i].date >= Start}
  OBVIOUS
<1>3. PICK i \in late : \A k \in late : i <= k
  <2>1. late \subseteq Nat /\ Len(days) + 1 \in late
    BY <1>1, <1>2
  <2> QED BY <2>1, LeastOf
<1>4. i \in 1 .. Len(days) + 1 /\ (i <= Len(days) => days[i].date >= Start)
  BY <1>2
<1>5. \A k \in 1 .. i - 1 : days[k].date < Start
  <2>1. TAKE k \in 1 .. i - 1
  <2>2. k \in 1 .. Len(days) + 1 /\ k \in DOMAIN days /\ ~(i <= k)
    BY <1>1, <1>4
  <2>3. k \notin late
    BY <1>3, <2>2
  <2>4. days[k].date \in Int /\ Start \in Int /\ ~(days[k].date >= Start)
    BY <1>1, <1>2, <2>2, <2>3 DEF StockConstants
  <2> QED BY <2>4
<1> QED BY <1>4, <1>5

LEMMA FetchKeeps == ASSUME StockConstants, StockInv, NEW r \in Runs, Backtest!FetchPrices(r) PROVE StockInv'
<1>0. job[r].pc = "fetch" /\ JobFits(job[r]) /\ UNCHANGED <<Backtest!Dirs, page>>
  BY DEF Backtest!FetchPrices, Backtest!At, StockInv
<1>1. CASE Backtest!Fails(r)
  BY <1>0, <1>1, FailsKeeps
<1>2. CASE ~Backtest!Fails(r)
  <2>1. PICK days \in Histories \union {<<>>} :
            /\ days # <<>> /\ Backtest!Continuous(days) /\ Backtest!Covered(days)
            /\ Backtest!Go(r, [job[r] EXCEPT !.pc = "trade", !.days = days,
                                    !.day = CHOOSE i \in 1 .. Len(days) + 1 : /\ i <= Len(days) => days[i].date >= Start
                                                                              /\ \A k \in 1 .. i - 1 : days[k].date < Start])
    BY <1>2, Zenon DEF Backtest!FetchPrices
  <2>2. PICK first : first = CHOOSE i \in 1 .. Len(days) + 1 : /\ i <= Len(days) => days[i].date >= Start
                                                               /\ \A k \in 1 .. i - 1 : days[k].date < Start
    OBVIOUS
  <2>3. days \in Histories /\ days # <<>>
    BY <2>1
  <2>4. /\ first \in 1 .. Len(days) + 1 /\ (first <= Len(days) => days[first].date >= Start)
        /\ \A k \in 1 .. first - 1 : days[k].date < Start
    BY <2>2, <2>3, FirstIs
  <2>5. PICK j : j = [job[r] EXCEPT !.pc = "trade", !.days = days, !.day = first]
    OBVIOUS
  <2>6. Backtest!Go(r, j)
    BY <2>1, <2>2, <2>5, Zenon
  <2>7. DOMAIN j = JobFields /\ j.pc = "trade" /\ j.days = days /\ j.day = first /\ j.book = job[r].book /\ j.next = job[r].next
    BY <1>0, <2>5 DEF JobFits, JobFields
  <2>8. j.book = Backtest!NewBook /\ j.next = 1
    BY <1>0, <2>7 DEF JobFits
  <2>9. Len(days) \in Nat /\ DOMAIN days = 1 .. Len(days) /\ \A i \in DOMAIN days : days[i].date \in Int
    BY <2>3, HistoryIs
  <2>10. \A k \in DOMAIN days : k >= first => days[k].date >= Start
    <3>1. TAKE k \in DOMAIN days
    <3>2. HAVE k >= first
    <3>3. first \in DOMAIN days /\ days[first].date >= Start
      BY <2>4, <2>9, <3>2
    <3>4. CASE k = first
      BY <3>3, <3>4
    <3>5. CASE k # first
      <4>1. first < k
        BY <2>9, <3>2, <3>3, <3>5
      <4>2. days[first].date < days[k].date
        BY <2>1, <2>3, <3>3, <4>1, DaysRise
      <4>3. days[first].date \in Int /\ days[k].date \in Int /\ Start \in Int
        BY <2>9, <3>3 DEF StockConstants
      <4> QED BY <3>3, <4>2, <4>3
    <3> QED BY <3>4, <3>5
  <2>11. Walked(j)
    <3>1. PICK h : h = [k \in 1 .. first - 1 |-> Backtest!NewBook]
      OBVIOUS
    <3>2. \A k \in 1 .. first - 1 : h[k] = Step(days, k, Last(h, k - 1))
      <4>1. TAKE k \in 1 .. first - 1
      <4>2. h[k] = Backtest!NewBook /\ Last(h, k - 1) = Backtest!NewBook
        <5>1. k - 1 # 0 => k - 1 \in 1 .. first - 1
          BY <2>4, <2>9
        <5> QED BY <3>1, <5>1 DEF Last
      <4>3. days[k].date < Start
        BY <2>4
      <4> QED BY <4>2, <4>3 DEF Step
    <3>3. Last(h, first - 1) = Backtest!NewBook
      <4>1. first - 1 # 0 => first - 1 \in 1 .. first - 1
        BY <2>4, <2>9
      <4> QED BY <3>1, <4>1 DEF Last
    <3>4. Path(days, first - 1, h)
      BY <3>1, <3>2 DEF Path
    <3> QED BY <2>7, <2>8, <3>3, <3>4 DEF Walked
  <2>12. JobFits(j)
    BY <2>1, <2>3, <2>4, <2>7, <2>8, <2>10, <2>11 DEF JobFits, DaysFit, Pcs
  <2> QED BY <1>0, <2>6, <2>7, <2>12, JobGoes
<1> QED BY <1>1, <1>2

LEMMA TradeKeeps == ASSUME StockConstants, StockInv, NEW r \in Runs, Backtest!Trade(r) PROVE StockInv'
<1>1. PICK j : j = job[r]
  OBVIOUS
<1>2. j.pc = "trade" /\ JobFits(j) /\ UNCHANGED <<Backtest!Dirs, page>> /\ j.days # <<>>
  BY <1>1 DEF Backtest!Trade, Backtest!At, StockInv, JobFits
<1>3. /\ j.days \in Histories /\ Backtest!Continuous(j.days) /\ Backtest!Covered(j.days) /\ j.day \in 1 .. Len(j.days) + 1
      /\ \A k \in DOMAIN j.days : k >= j.day => j.days[k].date >= Start
  BY <1>2 DEF JobFits, DaysFit
<1>4. /\ Len(j.days) \in Nat /\ DOMAIN j.days = 1 .. Len(j.days)
      /\ \A i \in DOMAIN j.days : j.days[i].date \in Int
  BY <1>3, HistoryIs
<1>5. CASE j.day > Len(j.days)
  <2>1. PICK n : n = [j EXCEPT !.pc = "benchmark"]
    OBVIOUS
  <2>2. Backtest!Go(r, n)
    BY <1>1, <1>5, <2>1, Zenon DEF Backtest!Trade
  <2>3. DOMAIN n = JobFields /\ n.pc = "benchmark" /\ n.days = j.days /\ n.day = j.day /\ n.book = j.book /\ n.next = j.next
    BY <1>2, <2>1 DEF JobFits, JobFields
  <2>4. JobFits(n)
    BY <1>2, <1>5, <2>3 DEF JobFits, DaysFit, Walked, Pcs
  <2> QED BY <1>1, <1>2, <2>2, <2>3, <2>4, JobGoes
<1>6. CASE ~(j.day > Len(j.days))
  <2>1. PICK book : book = IF j.day = 1 THEN j.book ELSE Backtest!Traded(j.days, j.day, j.book)
    OBVIOUS
  <2>2. PICK n : n = [j EXCEPT !.day = j.day + 1, !.book = book]
    OBVIOUS
  <2>3. Backtest!Go(r, n)
    BY <1>1, <1>6, <2>1, <2>2, Zenon DEF Backtest!Trade
  <2>4. DOMAIN n = JobFields /\ n.pc = "trade" /\ n.days = j.days /\ n.day = j.day + 1 /\ n.book = book /\ n.next = j.next
    BY <1>2, <2>2 DEF JobFits, JobFields
  <2>5. j.day \in Nat \ {0} /\ j.day \in DOMAIN j.days /\ j.days[j.day].date >= Start /\ j.days[j.day].date \in Int
    BY <1>3, <1>4, <1>6
  <2>6. book = Step(j.days, j.day, j.book)
    <3>1. ~(j.days[j.day].date < Start)
      BY <2>5 DEF StockConstants
    <3> QED BY <2>1, <3>1 DEF Step
  <2>7. Walked(n)
    <3>1. PICK m \in Nat : m = j.day - 1
      BY <2>5
    <3>2. PICK h : Path(j.days, m, h) /\ j.book = Last(h, m)
      BY <1>2, <3>1 DEF JobFits, DaysFit, Walked
    <3>3. PICK g : g = [k \in 1 .. m + 1 |-> IF k = m + 1 THEN book ELSE h[k]]
      OBVIOUS
    <3>4. m + 1 \in 1 .. m + 1 /\ m + 1 = j.day /\ m + 1 # 0
      BY <2>5, <3>1
    <3>5. \A k \in 1 .. m : k \in 1 .. m + 1 /\ k # m + 1 /\ (k - 1 # 0 => k - 1 \in 1 .. m)
      OBVIOUS
    <3>6. \A k \in 1 .. m : g[k] = h[k]
      BY <3>3, <3>5
    <3>7. \A k \in 1 .. m : Last(g, k - 1) = Last(h, k - 1)
      BY <3>5, <3>6 DEF Last
    <3>8. Last(g, m) = Last(h, m)
      <4>1. m # 0 => m \in 1 .. m
        OBVIOUS
      <4> QED BY <3>6, <4>1 DEF Last
    <3>9. g[m + 1] = Step(j.days, m + 1, Last(g, (m + 1) - 1))
      <4>1. (m + 1) - 1 = m /\ g[m + 1] = book
        BY <3>3, <3>4
      <4> QED BY <2>6, <3>2, <3>4, <3>8, <4>1, Zenon
    <3>10. ASSUME NEW k \in 1 .. m + 1 PROVE g[k] = Step(j.days, k, Last(g, k - 1))
      <4>1. CASE k = m + 1
        BY <3>9, <4>1
      <4>2. CASE k # m + 1
        <5>1. k \in 1 .. m
          BY <4>2
        <5>2. h[k] = Step(j.days, k, Last(h, k - 1))
          BY <3>2, <5>1 DEF Path
        <5> QED BY <3>6, <3>7, <5>1, <5>2, Zenon
      <4> QED BY <4>1, <4>2
    <3>11. Path(j.days, m + 1, g)
      BY <3>3, <3>10 DEF Path
    <3>12. Last(g, m + 1) = book
      BY <3>3, <3>4 DEF Last
    <3>13. n.day - 1 = m + 1
      BY <2>4, <2>5, <3>1
    <3> QED BY <2>4, <3>11, <3>12, <3>13, Zenon DEF Walked
  <2>8. n.day \in 1 .. Len(n.days) + 1 /\ \A k \in DOMAIN n.days : k >= n.day => n.days[k].date >= Start
    BY <1>3, <1>4, <1>6, <2>4
  <2>9. DaysFit(n)
    BY <1>3, <2>4, <2>7, <2>8 DEF DaysFit
  <2>10. JobFits(n)
    BY <1>2, <2>4, <2>9 DEF JobFits, Pcs
  <2> QED BY <1>1, <1>2, <2>3, <2>4, <2>10, JobGoes
<1> QED BY <1>5, <1>6

LEMMA BenchmarkKeeps == ASSUME StockConstants, StockInv, NEW r \in Runs, Backtest!FetchBenchmark(r) PROVE StockInv'
<1>1. job[r].pc = "benchmark" /\ JobFits(job[r]) /\ UNCHANGED <<Backtest!Dirs, page>>
  BY DEF Backtest!FetchBenchmark, Backtest!At, StockInv
<1>2. CASE Backtest!Fails(r)
  BY <1>1, <1>2, FailsKeeps
<1>3. CASE ~Backtest!Fails(r)
  <2>1. PICK n : n = [job[r] EXCEPT !.pc = "metrics"]
    OBVIOUS
  <2>2. Backtest!Go(r, n)
    BY <1>3, <2>1, Zenon DEF Backtest!FetchBenchmark
  <2>3. DOMAIN n = JobFields /\ n.pc = "metrics" /\ n.days = job[r].days /\ n.day = job[r].day /\ n.book = job[r].book /\ n.next = job[r].next
    BY <1>1, <2>1 DEF JobFits, JobFields
  <2>4. JobFits(n)
    BY <1>1, <2>3 DEF JobFits, DaysFit, Walked, Pcs
  <2> QED BY <1>1, <2>2, <2>3, <2>4, JobGoes
<1> QED BY <1>2, <1>3

LEMMA MetricsKeeps == ASSUME StockConstants, StockInv, NEW r \in Runs, Backtest!Metrics(r) PROVE StockInv'
<1>0. /\ job[r].pc = "metrics" /\ JobFits(job[r]) /\ FilesFit(r) /\ UNCHANGED <<final, page>>
      /\ DOMAIN job = Runs /\ DOMAIN tmp = Runs /\ DOMAIN final = Runs /\ job[r].next \in 1 .. 6
  BY DEF Backtest!Metrics, Backtest!At, StockInv, JobFits
<1>1. CASE \A i \in DOMAIN job[r].days : job[r].days[i].date \notin Start .. Finish
  <2>1. Backtest!Fails(r)
    BY <1>1, Zenon DEF Backtest!Metrics
  <2>2. job'[r].pc = "failed"
    BY <1>0, <2>1 DEF Backtest!Fails, Backtest!Go, JobFits, JobFields
  <2>3. UNCHANGED <<Backtest!Dirs, page>>
    BY <1>0, <2>2 DEF Backtest!Metrics, Backtest!Dirs
  <2> QED BY <1>0, <2>1, <2>3, FailsKeeps
<1>2. CASE ~(\A i \in DOMAIN job[r].days : job[r].days[i].date \notin Start .. Finish)
  <2>1. PICK count : count = Backtest!Cardinality(InInterval(job[r].book.trades))
    OBVIOUS
  <2>2. PICK n : n = [job[r] EXCEPT !.pc = "write", !.count = count]
    OBVIOUS
  <2>3. Backtest!Go(r, n)
    <3>1. Backtest!Go(r, [job[r] EXCEPT !.pc = "write", !.count = 
                                         Backtest!Cardinality({i \in DOMAIN job[r].book.trades : job[r].book.trades[i].date \in Start .. Finish})])
      BY <1>2, Zenon DEF Backtest!Metrics
    <3> QED BY <2>1, <2>2, <3>1, Zenon DEF InInterval
  <2>4. /\ DOMAIN n = JobFields /\ n.pc = "write" /\ n.days = job[r].days /\ n.day = job[r].day /\ n.book = job[r].book
        /\ n.next = job[r].next /\ n.count = count
    BY <1>0, <2>2 DEF JobFits, JobFields
  <2>5. JobFits(n)
    BY <1>0, <2>1, <2>4 DEF JobFits, DaysFit, Walked, Pcs
  <2>6. n.next = 1
    BY <1>0, <2>4 DEF JobFits
  <2>7. job'[r] = n
    BY <1>0, <2>3 DEF Backtest!Go
  <2>8. tmp' = [tmp EXCEPT ![r] = {}]
    BY <2>4, <2>7, Zenon DEF Backtest!Metrics
  <2>9. FilesFit(r)'
    <3>1. tmp'[r] = {} /\ final'[r] = final[r] /\ final[r] = None
      BY <1>0, <2>8 DEF FilesFit
    <3>2. StockWritten(1) = {}
      BY FilesAre
    <3> QED BY <2>4, <2>6, <2>7, <3>1, <3>2 DEF FilesFit
  <2>10. DOMAIN tmp' = Runs /\ DOMAIN final' = Runs /\ \A q \in Runs \ {r} : tmp'[q] = tmp[q] /\ final'[q] = final[q]
    BY <1>0, <2>8
  <2>11. final[r] # None => final'[r] = final[r]
    BY <1>0
  <2> QED BY <1>0, <2>3, <2>5, <2>9, <2>10, <2>11, OneMoves
<1> QED BY <1>1, <1>2

\* A run that is writing.
LEMMA WritingIs ==
    ASSUME StockConstants, StockInv, NEW r \in Runs, Backtest!At(r, "write")
    PROVE  /\ job[r].pc = "write" /\ JobFits(job[r]) /\ DOMAIN job = Runs /\ DOMAIN tmp = Runs /\ DOMAIN final = Runs
           /\ tmp[r] = StockWritten(job[r].next) /\ final[r] = None /\ job[r].next \in 1 .. 6
BY DEF Backtest!At, StockInv, FilesFit, JobFits

LEMMA DiscardKeeps ==
    ASSUME StockConstants, StockInv, NEW r \in Runs, Backtest!At(r, "write"), Backtest!Discard(r), UNCHANGED <<final, page>>
    PROVE  StockInv'
<1>1. PICK place : place = "failed"
  OBVIOUS
<1>2. PICK j : j = [job[r] EXCEPT !.pc = place]
  OBVIOUS
<1>3. JobFits(j) /\ j.pc = place
  <2>1. place \in Pcs /\ place \in {"failed", "killed"}
    BY <1>1 DEF Pcs
  <2> QED BY <1>2, <2>1, PcChanges
<1>4. Backtest!Go(r, j) /\ tmp' = [tmp EXCEPT ![r] = None]
  BY <1>1, <1>2 DEF Backtest!Discard, Backtest!Fails
<1>5. job'[r] = j /\ tmp'[r] = None /\ final'[r] = None
  BY <1>4, WritingIs DEF Backtest!Go
<1>6. FilesFit(r)'
  BY <1>1, <1>3, <1>5 DEF FilesFit
<1>7. DOMAIN tmp' = Runs /\ DOMAIN final' = Runs /\ \A q \in Runs \ {r} : tmp'[q] = tmp[q] /\ final'[q] = final[q]
  BY <1>4, WritingIs
<1>8. UNCHANGED page /\ (final[r] # None => final'[r] = final[r])
  BY <1>5
<1> QED BY <1>3, <1>4, <1>6, <1>7, <1>8, OneMoves

LEMMA WriteKeeps == ASSUME StockConstants, StockInv, NEW r \in Runs, Backtest!Write(r) PROVE StockInv'
<1>0. Backtest!At(r, "write") /\ job[r].next <= Len(Backtest!Files) /\ UNCHANGED <<final, page>>
  BY DEF Backtest!Write
<1>1. CASE Backtest!Discard(r)
  BY <1>0, <1>1, DiscardKeeps
<1>2. CASE ~Backtest!Discard(r)
  <2>1. /\ job[r].pc = "write" /\ JobFits(job[r]) /\ DOMAIN job = Runs /\ DOMAIN tmp = Runs /\ DOMAIN final = Runs
        /\ tmp[r] = StockWritten(job[r].next) /\ final[r] = None /\ job[r].next \in 1 .. 6
    BY <1>0, WritingIs
  <2>2. PICK n : n = [job[r] EXCEPT !.next = job[r].next + 1]
    OBVIOUS
  <2>3. Backtest!Go(r, n) /\ tmp' = [tmp EXCEPT ![r] = tmp[r] \union {Backtest!Files[job[r].next]}]
    BY <1>2, <2>2, Zenon DEF Backtest!Write
  <2>4. job[r].next \in 1 .. 5
    BY <1>0, <2>1, FilesAre
  <2>5. /\ DOMAIN n = JobFields /\ n.pc = "write" /\ n.days = job[r].days /\ n.day = job[r].day /\ n.book = job[r].book
        /\ n.next = job[r].next + 1 /\ n.count = job[r].count
    BY <2>1, <2>2 DEF JobFits, JobFields
  <2>6. JobFits(n)
    BY <2>1, <2>4, <2>5 DEF JobFits, DaysFit, Walked, Pcs
  <2>7. job'[r] = n /\ tmp'[r] = tmp[r] \union {Backtest!Files[job[r].next]} /\ final'[r] = None
    BY <1>0, <2>1, <2>3 DEF Backtest!Go
  <2>8. tmp'[r] = StockWritten(n.next) /\ StockWritten(n.next) \in SUBSET Backtest!FileSet
    <3>1. StockWritten(job[r].next + 1) = StockWritten(job[r].next) \union {Backtest!Files[job[r].next]}
      BY <2>4, FilesAre
    <3>2. n.next \in 1 .. 6
      BY <2>4, <2>5
    <3>3. StockWritten(n.next) \in SUBSET Backtest!FileSet
      BY <3>2, FilesAre
    <3> QED BY <2>1, <2>5, <2>7, <3>1, <3>3, Zenon
  <2>9. FilesFit(r)'
    BY <2>5, <2>7, <2>8 DEF FilesFit
  <2>10. DOMAIN tmp' = Runs /\ DOMAIN final' = Runs /\ \A q \in Runs \ {r} : tmp'[q] = tmp[q] /\ final'[q] = final[q]
    BY <1>0, <2>1, <2>3
  <2>11. UNCHANGED page /\ (final[r] # None => final'[r] = final[r])
    BY <1>0
  <2> QED BY <2>3, <2>6, <2>9, <2>10, <2>11, OneMoves
<1> QED BY <1>1, <1>2

LEMMA PublishKeeps == ASSUME StockConstants, StockInv, NEW r \in Runs, Backtest!Publish(r) PROVE StockInv'
<1>0. Backtest!At(r, "write") /\ ~(job[r].next <= 5) /\ UNCHANGED page
  <2>1. Backtest!At(r, "write") /\ job[r].next > 5 /\ UNCHANGED page
    BY FilesAre DEF Backtest!Publish
  <2>2. job[r].next \in 1 .. 6
    BY <2>1, WritingIs
  <2> QED BY <2>1, <2>2
<1>1. /\ job[r].pc = "write" /\ JobFits(job[r]) /\ DOMAIN job = Runs /\ DOMAIN tmp = Runs /\ DOMAIN final = Runs
      /\ tmp[r] = StockWritten(job[r].next) /\ final[r] = None /\ job[r].next \in 1 .. 6
  BY <1>0, WritingIs
<1>2. tmp[r] = Backtest!FileSet
  <2>1. job[r].next = 6
    BY <1>0, <1>1
  <2> QED BY <1>1, <2>1, FilesAre
<1>3. PICK n : n = [job[r] EXCEPT !.pc = "done"]
  OBVIOUS
<1>4. Backtest!Go(r, n) /\ tmp' = [tmp EXCEPT ![r] = None] /\ final' = [final EXCEPT ![r] = tmp[r]]
  BY <1>3, Zenon DEF Backtest!Publish
<1>5. /\ DOMAIN n = JobFields /\ n.pc = "done" /\ n.days = job[r].days /\ n.day = job[r].day /\ n.book = job[r].book
      /\ n.next = job[r].next /\ n.count = job[r].count
  BY <1>1, <1>3 DEF JobFits, JobFields
<1>6. JobFits(n)
  BY <1>1, <1>5 DEF JobFits, DaysFit, Walked, Pcs
<1>7. job'[r] = n /\ tmp'[r] = None /\ final'[r] = Backtest!FileSet
  BY <1>1, <1>2, <1>4 DEF Backtest!Go
<1>8. FilesFit(r)'
  BY <1>5, <1>7 DEF FilesFit
<1>9. DOMAIN tmp' = Runs /\ DOMAIN final' = Runs /\ \A q \in Runs \ {r} : tmp'[q] = tmp[q] /\ final'[q] = final[q]
  BY <1>1, <1>4
<1> QED BY <1>0, <1>1, <1>4, <1>6, <1>8, <1>9, OneMoves

LEMMA OccupiedKeeps == ASSUME StockConstants, StockInv, NEW r \in Runs, Backtest!Occupied(r) PROVE StockInv'
<1>0. Backtest!At(r, "write") /\ UNCHANGED <<final, page>>
  BY DEF Backtest!Occupied
<1>1. CASE Backtest!Discard(r)
  BY <1>0, <1>1, DiscardKeeps
<1>2. CASE ~Backtest!Discard(r)
  <2>1. /\ job[r].pc = "write" /\ JobFits(job[r]) /\ DOMAIN job = Runs /\ DOMAIN tmp = Runs /\ DOMAIN final = Runs
        /\ tmp[r] = StockWritten(job[r].next) /\ final[r] = None /\ job[r].next \in 1 .. 6
    BY <1>0, WritingIs
  <2>2. PICK n : n = [job[r] EXCEPT !.tries = job[r].tries + 1]
    OBVIOUS
  <2>3. Backtest!Go(r, n) /\ UNCHANGED tmp
    BY <1>2, <2>2, Zenon DEF Backtest!Occupied
  <2>4. /\ DOMAIN n = JobFields /\ n.pc = "write" /\ n.days = job[r].days /\ n.day = job[r].day /\ n.book = job[r].book
        /\ n.next = job[r].next /\ n.count = job[r].count
    BY <2>1, <2>2 DEF JobFits, JobFields
  <2>5. JobFits(n)
    BY <2>1, <2>4 DEF JobFits, DaysFit, Walked, Pcs
  <2>6. job'[r] = n /\ tmp'[r] = tmp[r] /\ final'[r] = None
    BY <1>0, <2>1, <2>3 DEF Backtest!Go
  <2>7. FilesFit(r)'
    <3>1. StockWritten(n.next) \in SUBSET Backtest!FileSet
      BY <2>1, <2>4, FilesAre
    <3> QED BY <2>1, <2>4, <2>6, <3>1 DEF FilesFit
  <2>8. DOMAIN tmp' = Runs /\ DOMAIN final' = Runs /\ \A q \in Runs \ {r} : tmp'[q] = tmp[q] /\ final'[q] = final[q]
    BY <1>0, <2>1, <2>3
  <2>9. UNCHANGED page /\ (final[r] # None => final'[r] = final[r])
    BY <1>0
  <2> QED BY <2>3, <2>5, <2>7, <2>8, <2>9, OneMoves
<1> QED BY <1>1, <1>2

\* A step of the reader.
LEMMA ReaderMoves ==
    ASSUME StockConstants, StockInv, UNCHANGED <<job, Backtest!Dirs>>, ReaderFits'
    PROVE  StockInv'
<1>1. job' = job /\ tmp' = tmp /\ final' = final
  BY DEF Backtest!Dirs
<1>2. \A r \in Runs : JobFits(job[r]) /\ FilesFit(r)
  BY DEF StockInv
<1>0. \A r \in Runs : JobFits(job'[r])
  BY <1>1, <1>2, Zenon
<1>3. \A r \in Runs : JobFits(job[r])'
  BY <1>0 DEF JobFits, DaysFit, Walked, Path, Last, InInterval
<1>4. \A r \in Runs : FilesFit(r)'
  BY <1>1, <1>2 DEF FilesFit
<1> QED BY <1>1, <1>3, <1>4 DEF StockInv

LEMMA ReaderRests == ASSUME page' = Backtest!NoReader PROVE ReaderFits'
BY DEF ReaderFits, Backtest!NoReader

LEMMA FindKeeps == ASSUME StockConstants, StockInv, Backtest!Find PROVE StockInv'
<1>1. PICK x \in Backtest!Listed : page' = [Backtest!NoReader EXCEPT !.pc = "text", !.run = x[1], !.place = x[2]]
  BY DEF Backtest!Find
<1>2. x[1] \in Runs /\ Backtest!Has(x[1], x[2], "report.md")
  BY <1>1 DEF Backtest!Listed
<1>3. page' = [pc |-> "text", run |-> x[1], place |-> x[2], missing |-> {}]
  BY <1>1 DEF Backtest!NoReader
<1>4. UNCHANGED <<job, Backtest!Dirs>> /\ final' = final
  BY DEF Backtest!Find, Backtest!Dirs
<1>5. x[2] = "final" => final[x[1]] = Backtest!FileSet
  <2>1. FilesFit(x[1])
    BY <1>2 DEF StockInv
  <2> QED BY <1>2, <2>1 DEF Backtest!Has, Backtest!In, FilesFit
<1>6. ReaderFits'
  BY <1>2, <1>3, <1>4, <1>5 DEF ReaderFits
<1> QED BY <1>4, <1>6, ReaderMoves

LEMMA StockReadTextKeeps == ASSUME StockConstants, StockInv, Backtest!ReadText PROVE StockInv'
<1>1. UNCHANGED <<job, Backtest!Dirs>> /\ final' = final /\ page.pc = "text" /\ ReaderFits
  BY DEF Backtest!ReadText, Backtest!Dirs, StockInv
<1>2. CASE page' = Backtest!NoReader
  BY <1>1, <1>2, ReaderRests, ReaderMoves
<1>3. CASE page' = [page EXCEPT !.pc = "curve"]
  <2>1. ReaderFits'
    BY <1>1, <1>3 DEF ReaderFits
  <2> QED BY <1>1, <2>1, ReaderMoves
<1> QED BY <1>2, <1>3 DEF Backtest!ReadText

LEMMA ReadTableKeeps ==
    ASSUME StockConstants, StockInv, NEW place, place # "idle", NEW f \in Backtest!FileSet, NEW then, then \in {"trades", "shown"},
           Backtest!ReadTable(place, f, then)
    PROVE  StockInv'
<1>1. UNCHANGED <<job, Backtest!Dirs>> /\ final' = final /\ page.pc # "idle" /\ ReaderFits
  BY DEF Backtest!ReadTable, Backtest!Dirs, StockInv
<1>2. page.place = "final" => Backtest!Has(page.run, page.place, f)
  <2>1. page.place = "final" => final[page.run] = Backtest!FileSet
    BY <1>1 DEF ReaderFits
  <2> QED BY <2>1 DEF Backtest!Has, Backtest!In, StockConstants
<1>3. PICK missing : missing = IF Backtest!Has(page.run, page.place, f) THEN page.missing ELSE page.missing \union {f}
  OBVIOUS
<1>4. page' = [page EXCEPT !.pc = then, !.missing = missing]
  BY <1>3, Zenon DEF Backtest!ReadTable
<1>5. ReaderFits'
  BY <1>1, <1>2, <1>3, <1>4 DEF ReaderFits
<1> QED BY <1>1, <1>5, ReaderMoves

LEMMA StockStep == ASSUME StockConstants, StockInv, [Backtest!Next]_Backtest!sbvars PROVE StockInv'
<1>1. ASSUME NEW r \in Runs,
             Backtest!Ask(r) \/ Backtest!Resolve(r) \/ Backtest!FetchPrices(r) \/ Backtest!Trade(r) \/ Backtest!FetchBenchmark(r) \/ Backtest!Metrics(r)
             \/ Backtest!Write(r) \/ Backtest!Publish(r) \/ Backtest!Occupied(r) \/ Backtest!Kill(r)
      PROVE  StockInv'
  BY <1>1, StockAskKeeps, ResolveKeeps, FetchKeeps, TradeKeeps, BenchmarkKeeps, MetricsKeeps, WriteKeeps,
     PublishKeeps, OccupiedKeeps, KillKeeps
<1>2. CASE Backtest!ReadCurve
  <2>1. "equity_curve.csv" \in Backtest!FileSet
    BY FilesAre
  <2> QED BY <1>2, <2>1, ReadTableKeeps DEF Backtest!ReadCurve
<1>3. CASE Backtest!ReadTrades
  <2>1. "trades.csv" \in Backtest!FileSet
    BY FilesAre
  <2> QED BY <1>3, <2>1, ReadTableKeeps DEF Backtest!ReadTrades
<1>4. CASE Backtest!Close
  BY <1>4, ReaderRests, ReaderMoves DEF Backtest!Close
<1>5. CASE UNCHANGED Backtest!sbvars
  <2>1. UNCHANGED <<job, Backtest!Dirs>> /\ page' = page /\ final' = final
    BY <1>5 DEF Backtest!sbvars, Backtest!Dirs
  <2>2. ReaderFits'
    BY <2>1 DEF StockInv, ReaderFits
  <2> QED BY <2>1, <2>2, ReaderMoves
<1> QED BY <1>1, <1>2, <1>3, <1>4, <1>5, FindKeeps, StockReadTextKeeps DEF Backtest!Next

-----------------------------------------------------------------------------
LEMMA StockTyped == ASSUME StockConstants, StockInv PROVE Backtest!SBTypeOK
<1>1. ASSUME NEW r \in Runs PROVE job[r].pc \in Pcs /\ tmp[r] \in {None} \union SUBSET Backtest!FileSet
                                    /\ final[r] \in {None} \union SUBSET Backtest!FileSet
  BY DEF StockInv, JobFits, FilesFit
<1> QED BY <1>1 DEF Backtest!SBTypeOK, StockInv, ReaderFits, Pcs

LEMMA PublishedIsWhole == ASSUME StockConstants, StockInv PROVE Backtest!PublishedWhole
<1>1. ASSUME NEW r \in Runs PROVE final[r] \in {None, Backtest!FileSet} /\ (Backtest!At(r, "failed") => tmp[r] = None /\ final[r] = None)
  BY DEF StockInv, FilesFit, Backtest!At
<1> QED BY <1>1 DEF Backtest!PublishedWhole, StockInv, ReaderFits

\* The book of a run, and how many days it has gone.
LEMMA BookAt ==
    ASSUME StockConstants, StockInv, NEW r \in Runs, job[r].days # <<>>
    PROVE  /\ job[r].days \in Histories /\ Backtest!Continuous(job[r].days) /\ Backtest!Covered(job[r].days)
           /\ job[r].day - 1 \in 0 .. Len(job[r].days)
           /\ \E h : Path(job[r].days, job[r].day - 1, h) /\ job[r].book = Last(h, job[r].day - 1)
           /\ BookIs(job[r].days, job[r].day - 1, job[r].book)
<1>1. /\ job[r].days \in Histories /\ Backtest!Continuous(job[r].days) /\ Backtest!Covered(job[r].days) /\ job[r].day \in 1 .. Len(job[r].days) + 1
      /\ Walked(job[r])
  BY DEF StockInv, JobFits, DaysFit
<1>2. PICK days : days = job[r].days
  OBVIOUS
<1>3. Len(days) \in Nat
  BY <1>1, <1>2, HistoryIs
<1>4. PICK m : m = job[r].day - 1
  OBVIOUS
<1>5. m \in 0 .. Len(days)
  BY <1>1, <1>2, <1>3, <1>4
<1>6. PICK h : Path(days, m, h) /\ job[r].book = Last(h, m)
  BY <1>1, <1>2, <1>4 DEF Walked
<1>7. BookIs(days, m, job[r].book)
  <2>1. CASE m = 0
    BY <1>6, <2>1, NewBookIs DEF Last
  <2>2. CASE m # 0
    <3>1. m \in 1 .. m
      BY <1>3, <1>5, <2>2
    <3>2. BookIs(days, m, h[m])
      BY <1>1, <1>2, <1>5, <1>6, <3>1, PathIs
    <3> QED BY <1>6, <2>2, <3>2 DEF Last
  <2> QED BY <2>1, <2>2
<1> QED BY <1>1, <1>2, <1>4, <1>5, <1>6, <1>7

LEMMA NothingIsAhead == ASSUME StockConstants, StockInv PROVE Backtest!NoLookAhead
<1> SUFFICES ASSUME NEW r \in Runs, NEW s \in Runs, NEW i \in DOMAIN job[r].days,
                    i > 1, i \in DOMAIN job[s].days, i < job[r].day, i < job[s].day,
                    SubSeq(job[r].days, 1, i - 1) = SubSeq(job[s].days, 1, i - 1),
                    job[r].days[i].date = job[s].days[i].date, job[r].days[i].open = job[s].days[i].open
             PROVE  Backtest!Until(r, job[r].days[i].date) = Backtest!Until(s, job[r].days[i].date)
  BY Zenon DEF Backtest!NoLookAhead
<1>1. PICK a : a = job[r].days
  OBVIOUS
<1>2. PICK b : b = job[s].days
  OBVIOUS
<1>3. a # <<>> /\ b # <<>>
  BY <1>1, <1>2
<1>4. PICK m : m = job[r].day - 1
  OBVIOUS
<1>5. PICK n : n = job[s].day - 1
  OBVIOUS
<1>6. /\ a \in Histories /\ Backtest!Continuous(a) /\ m \in 0 .. Len(a) /\ job[r].day \in Int
      /\ \E h : Path(a, m, h) /\ job[r].book = Last(h, m)
  <2>1. job[r].day \in Int
    <3>1. DaysFit(job[r]) /\ job[r].days # <<>>
      BY <1>1, <1>3 DEF StockInv, JobFits
    <3> QED BY <3>1 DEF DaysFit
  <2> QED BY <1>1, <1>3, <1>4, <2>1, BookAt
<1>7. /\ b \in Histories /\ Backtest!Continuous(b) /\ n \in 0 .. Len(b) /\ job[s].day \in Int
      /\ \E h : Path(b, n, h) /\ job[s].book = Last(h, n)
  <2>1. job[s].day \in Int
    <3>1. DaysFit(job[s]) /\ job[s].days # <<>>
      BY <1>2, <1>3 DEF StockInv, JobFits
    <3> QED BY <3>1 DEF DaysFit
  <2> QED BY <1>2, <1>3, <1>5, <2>1, BookAt
<1>8. PICK g : Path(a, m, g) /\ job[r].book = Last(g, m)
  BY <1>6
<1>9. PICK h : Path(b, n, h) /\ job[s].book = Last(h, n)
  BY <1>7
<1>10. /\ Len(a) \in Nat /\ Len(b) \in Nat /\ i \in Nat /\ i \in DOMAIN a /\ i \in DOMAIN b
       /\ m \in Nat /\ n \in Nat /\ i \in 1 .. m /\ i \in 1 .. n /\ m # 0 /\ n # 0 /\ m \in i .. m /\ n \in i .. n /\ i <= n /\ i \in 1 .. i
  <2>1. Len(a) \in Nat /\ Len(b) \in Nat /\ DOMAIN a = 1 .. Len(a)
    BY <1>6, <1>7, HistoryIs
  <2>2. i \in DOMAIN a /\ i \in DOMAIN b /\ i \in Nat
    BY <1>1, <1>2, <2>1
  <2>3. m \in Nat /\ n \in Nat /\ i < job[r].day /\ i < job[s].day
    BY <1>6, <1>7, <2>1
  <2>4. i <= m /\ i <= n
    <3>1. PICK x, y : x = job[r].day /\ y = job[s].day
      OBVIOUS
    <3>2. x \in Int /\ y \in Int /\ i < x /\ i < y /\ m = x - 1 /\ n = y - 1
      BY <1>4, <1>5, <1>6, <1>7, <2>3, <3>1
    <3> QED BY <2>2, <3>2
  <2> QED BY <2>1, <2>2, <2>3, <2>4
<1>11. Agree(a, b, i)
  BY <1>1, <1>2, Zenon DEF Agree
<1>12. g[i] = h[i]
  BY <1>6, <1>7, <1>8, <1>9, <1>10, <1>11, PathsAgree
<1>13. Dated(g[m].trades, a[i].date) = Dated(g[i].trades, a[i].date)
  BY <1>6, <1>8, <1>10, LaterKeeps
<1>14. Dated(h[n].trades, b[i].date) = Dated(h[i].trades, b[i].date)
  BY <1>7, <1>9, <1>10, LaterKeeps
<1>15. job[r].book = g[m] /\ job[s].book = h[n]
  BY <1>8, <1>9, <1>10 DEF Last
<1>16. PICK d : d = job[r].days[i].date
  OBVIOUS
<1>17. a[i].date = d /\ b[i].date = d
  BY <1>1, <1>2, <1>16
<1>18. Dated(g[m].trades, d) = Dated(h[n].trades, d)
  BY <1>12, <1>13, <1>14, <1>17, Zenon
<1>19. Backtest!Until(r, d) = Dated(g[m].trades, d)
  BY <1>15, Zenon DEF Backtest!Until, Dated
<1>20. Backtest!Until(s, d) = Dated(h[n].trades, d)
  BY <1>15, Zenon DEF Backtest!Until, Dated
<1>21. Backtest!Until(r, d) = Backtest!Until(s, d)
  BY <1>18, <1>19, <1>20, Zenon
<1> QED BY <1>16, <1>21, Zenon

LEMMA TradesAreCounted == ASSUME StockConstants, StockInv PROVE Backtest!TradesCounted
<1> SUFFICES ASSUME NEW r \in Runs, Backtest!At(r, "done")
             PROVE  /\ job[r].count = Len(job[r].book.trades)
                    /\ \A k \in DOMAIN job[r].book.trades : \E i \in 2 .. Len(job[r].days) :
                          job[r].book.trades[k].date = job[r].days[i].date
                          /\ job[r].book.trades[k].signal = job[r].days[i - 1].date /\ i > WarmUp
  BY Zenon DEF Backtest!TradesCounted
<1>1. PICK days : days = job[r].days
  OBVIOUS
<1>2. PICK trades : trades = job[r].book.trades
  OBVIOUS
<1>3. days # <<>> /\ job[r].count = Backtest!Cardinality(InInterval(trades))
  BY <1>1, <1>2 DEF StockInv, JobFits, Backtest!At
<1>4. days \in Histories /\ Backtest!Continuous(days) /\ Backtest!Covered(days)
      /\ job[r].day - 1 \in 0 .. Len(days) /\ BookIs(days, job[r].day - 1, job[r].book)
  BY <1>1, <1>3, BookAt
<1>5. Len(days) \in Nat /\ DOMAIN days = 1 .. Len(days) /\ \A i \in DOMAIN days : days[i].date \in Int /\ days[i].date <= Finish
  BY <1>4, HistoryIs
<1>6. ASSUME NEW k \in DOMAIN trades PROVE \E i \in 2 .. Len(days) : TradeOf(days, trades[k], i)
  <2>1. PICK i \in 2 .. job[r].day - 1 : TradeOf(days, trades[k], i)
    BY <1>2, <1>4 DEF BookIs
  <2>2. i \in 2 .. Len(days)
    BY <1>4, <1>5
  <2> QED BY <2>1, <2>2
<1>7. InInterval(trades) = DOMAIN trades
  <2>1. ASSUME NEW k \in DOMAIN trades PROVE trades[k].date \in Start .. Finish
    <3>1. PICK i \in 2 .. Len(days) : TradeOf(days, trades[k], i)
      BY <1>6
    <3>2. i \in DOMAIN days
      BY <1>5
    <3> QED BY <1>5, <3>1, <3>2 DEF TradeOf, StockConstants
  <2> QED BY <2>1 DEF InInterval
<1>8. Backtest!Cardinality(DOMAIN trades) = Len(trades)
  <2>1. IsTrades(trades)
    BY <1>2, <1>4 DEF BookIs
  <2>2. PICK n \in Nat : n = Len(trades) /\ DOMAIN trades = 1 .. n
    BY <2>1 DEF IsTrades
  <2>3. Backtest!Cardinality(1 .. n) = n
    <3>1. Backtest!Cardinality(1 .. n) = IF 1 > n THEN 0 ELSE n - 1 + 1
      BY FS_Interval, BacktestCounts
    <3> QED BY <3>1
  <2> QED BY <2>2, <2>3, Zenon
<1>9. ASSUME NEW i \in 2 .. Len(days), days[i].date >= Start PROVE i > WarmUp
  <2>1. PICK early : early = {k \in DOMAIN days : days[k].date < Start}
    OBVIOUS
  <2>2. early \subseteq 1 .. i - 1
    <3>1. ASSUME NEW k \in early PROVE k < i
      <4>1. k \in DOMAIN days /\ i \in DOMAIN days /\ days[k].date < Start
        BY <1>5, <2>1
      <4>2. ~(i < k)
        <5>1. i < k => days[i].date < days[k].date
          BY <1>4, <4>1, DaysRise
        <5>2. days[i].date \in Int /\ days[k].date \in Int /\ Start \in Int
          BY <1>5, <4>1 DEF StockConstants
        <5> QED BY <1>9, <4>1, <5>1, <5>2
      <4>3. i # k
        <5>1. days[i].date \in Int /\ Start \in Int
          BY <1>5, <4>1 DEF StockConstants
        <5> QED BY <1>9, <4>1, <5>1
      <4> QED BY <1>5, <4>1, <4>2, <4>3
    <3> QED BY <1>5, <2>1, <3>1
  <2>3. IsFiniteSet(1 .. i - 1) /\ Backtest!Cardinality(1 .. i - 1) = i - 1
    <3>1. i - 1 \in Nat /\ i - 1 >= 1
      BY <1>5
    <3>2. IsFiniteSet(1 .. i - 1) /\ Backtest!Cardinality(1 .. i - 1) = IF 1 > i - 1 THEN 0 ELSE i - 1 - 1 + 1
      BY <3>1, FS_Interval, BacktestCounts
    <3> QED BY <3>1, <3>2
  <2>4. Backtest!Cardinality(early) <= i - 1 /\ Backtest!Cardinality(early) \in Nat
    <3>1. IsFiniteSet(early) /\ Backtest!Cardinality(early) <= Backtest!Cardinality(1 .. i - 1)
      BY <2>2, <2>3, FS_Subset, BacktestCounts
    <3> QED BY <2>3, <3>1, FS_CardinalityType, BacktestCounts
  <2>5. Backtest!Cardinality(early) >= WarmUp
    BY <1>4, <2>1, Zenon DEF Backtest!Covered
  <2> QED BY <1>5, <2>4, <2>5 DEF StockConstants
<1>10. ASSUME NEW k \in DOMAIN trades
       PROVE  \E i \in 2 .. Len(days) : trades[k].date = days[i].date /\ trades[k].signal = days[i - 1].date /\ i > WarmUp
  <2>1. PICK i \in 2 .. Len(days) : TradeOf(days, trades[k], i)
    BY <1>6
  <2> QED BY <1>9, <2>1 DEF TradeOf
<1>11. job[r].count = Len(trades)
  BY <1>3, <1>7, <1>8, Zenon
<1> QED BY <1>1, <1>2, <1>10, <1>11

LEMMA PublishedKept == ASSUME StockConstants, StockInv, [Backtest!Next]_Backtest!sbvars PROVE Backtest!PublishedStays
<1> SUFFICES ASSUME NEW q \in Runs, final[q] # None PROVE final'[q] = final[q]
  BY DEF Backtest!PublishedStays
<1>1. CASE final' = final
  BY <1>1
<1>2. CASE final' # final
  <2>1. PICK r \in Runs : Backtest!Publish(r)
    BY <1>2 DEF Backtest!Next, Backtest!sbvars, Backtest!Dirs, Backtest!Ask, Backtest!Resolve, Backtest!FetchPrices,
                Backtest!Trade, Backtest!FetchBenchmark, Backtest!Metrics, Backtest!Write, Backtest!Occupied, Backtest!Kill, Backtest!Discard,
               Backtest!Find, Backtest!ReadText, Backtest!ReadTable, Backtest!ReadCurve, Backtest!ReadTrades, Backtest!Close
  <2>2. final[r] = None /\ DOMAIN final = Runs
    BY <2>1, WritingIs DEF Backtest!Publish
  <2> QED BY <2>1, <2>2 DEF Backtest!Publish
<1> QED BY <1>1, <1>2

\* Nothing of the future: two runs whose prices agree up to a day, and at the open of the
\* next, have the same trades up to that next day.  A finished run counts all its trades,
\* each on a day of its interval that follows the day of its signal, with the days the
\* scores need before it; its directory is whole, and so is what is read of it, and a run
\* that failed leaves none.  For any prices, costs, positions, runs and failures.
THEOREM StockBacktestIsSound ==
    StockConstants /\ Backtest!Spec => [](Backtest!SBTypeOK /\ Backtest!NoLookAhead /\ Backtest!TradesCounted /\ Backtest!PublishedWhole)
<1> SUFFICES ASSUME StockConstants 
             PROVE  Backtest!Spec => [](Backtest!SBTypeOK /\ Backtest!NoLookAhead /\ Backtest!TradesCounted /\ Backtest!PublishedWhole)
  OBVIOUS
<1>1. Backtest!Init => StockInv
  BY StockInitial
<1>2. StockInv /\ [Backtest!Next]_Backtest!sbvars => StockInv'
  BY StockStep
<1>3. StockInv => Backtest!SBTypeOK /\ Backtest!NoLookAhead /\ Backtest!TradesCounted /\ Backtest!PublishedWhole
  BY StockTyped, NothingIsAhead, TradesAreCounted, PublishedIsWhole
<1> QED BY <1>1, <1>2, <1>3, PTL DEF Backtest!Spec

\* The published directory of a run is never changed or taken away.
THEOREM StockReportStays == StockConstants /\ Backtest!Spec => [][Backtest!PublishedStays]_Backtest!sbvars
<1> SUFFICES ASSUME StockConstants PROVE Backtest!Spec => [][Backtest!PublishedStays]_Backtest!sbvars
  OBVIOUS
<1>1. Backtest!Init => StockInv
  BY StockInitial
<1>2. StockInv /\ [Backtest!Next]_Backtest!sbvars => StockInv'
  BY StockStep
<1>3. StockInv /\ [Backtest!Next]_Backtest!sbvars => Backtest!PublishedStays
  BY PublishedKept
<1> QED BY <1>1, <1>2, <1>3, PTL DEF Backtest!Spec
=============================================================================
