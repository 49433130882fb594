----------------------------- MODULE RadarProofs -----------------------------
(***************************************************************************)
(* Proofs about the radar: its refreshes (RadarRefresh), for any number of *)
(* refreshers that run beside each other, days, instruments and runs; and  *)
(* then, each with an invariant of its own, the starts of the collector    *)
(* (CollectorStartup), the calendar (TradingCalendar), the overseas index  *)
(* (OverseasIndex), the runs of a backtest (BacktestRuns), the rotation    *)
(* they test (RadarBacktest), the history of an instrument (RadarHistory)  *)
(* and the scores of a day (RadarScores).                                  *)
(*                                                                         *)
(* A refresher writes to a run of its own, which is open until it is done  *)
(* (OwnsRun), and what is completed is never changed (Onward).  A run      *)
(* completes with a time later than every other, and no earlier than any   *)
(* run began (ClocksGo): so what it has to be compared with was complete   *)
(* when it looked, and a copy that was found then is there for good.       *)
(***************************************************************************)
EXTENDS RadarRefresh, FiniteSetTheorems, SequenceTheorems, WellFoundedInduction, TLAPS

RefreshConstants ==
    /\ IsFiniteSet(Refreshers) /\ MaxRuns \in Nat /\ None \notin Nat

Places == {"idle", "create", "prepare", "items", "add", "publish"}
Working == {"prepare", "items", "add", "publish"}
Maybe(S) == S \union {None}
Tables == UNION {[S -> [status : {"fresh", "stale", "failed"}, source : Maybe(Nat)]] : S \in SUBSET Symbols}
Rows == [date : Dates, status : {"running", "completed", "failed"}, done : Nat, began : Nat,
         replaces : Maybe(Nat), items : Tables]
Hands == [pc : Places, date : Maybe(Dates), replaces : Maybe(Nat), run : Maybe(Nat),
          left : SUBSET Symbols, got : SUBSET Symbols, copied : Maybe(Nat)]

RefreshTypes == /\ runs \in Seq(Rows) /\ work \in [Refreshers -> Hands] /\ cancel \subseteq Refreshers

\* A refresher that works on a run has one of its own, open and of its day.
OwnsRun(r) ==
    /\ work[r].pc # "idle" => work[r].date \in Dates
    /\ work[r].pc \in Working =>
          /\ work[r].run \in DOMAIN runs /\ runs[work[r].run].status = "running"
          /\ runs[work[r].run].date = work[r].date
          /\ \A q \in Refreshers \ {r} : work[q].pc \in Working => work[q].run # work[r].run

\* The completed runs have different times of completion, all in the past.
ClocksGo == /\ \A k \in Completed : runs[k].done <= Cardinality(Completed)
            /\ \A i \in DOMAIN runs : runs[i].began <= Stamp

NothingHealthy(i, s) == \A k \in Completed : runs[k].done < runs[i].began => ~HasHealthy(k, s)
CopyOf(i, s, k) == k \in Completed \ {i} /\ HasHealthy(k, s)

\* What the items of a run, open or not, came from, and what the run replaces.
ItemFits(i, s) ==
    /\ runs[i].items[s].status = "fresh" => runs[i].items[s].source = i
    /\ runs[i].items[s].status = "stale" => CopyOf(i, s, runs[i].items[s].source)
    /\ runs[i].items[s].status = "failed" => runs[i].items[s].source = None /\ NothingHealthy(i, s)
SameDay(k, d) == k # None => k \in Completed /\ runs[k].date = d
RowFits(i) ==
    /\ \A s \in DOMAIN runs[i].items : ItemFits(i, s)
    /\ SameDay(runs[i].replaces, runs[i].date)
    /\ i \notin Completed => runs[i].done = 0
    /\ i \in Completed =>
          /\ runs[i].replaces # None => runs[runs[i].replaces].done < runs[i].done
          /\ DOMAIN runs[i].items = Members[runs[i].date]
          /\ \E s \in DOMAIN runs[i].items : runs[i].items[s].status = "fresh"

\* What a refresher holds belongs to the items it has written.
WroteItems(r) ==
    LET w == work[r]
        items == runs[w.run].items
    IN  /\ w.got # {} /\ DOMAIN items = Members[w.date] \ w.left
        /\ \A s \in DOMAIN items : s \in w.got => items[s].status = "fresh"
WorkFits(r) ==
    LET w == work[r]
    IN  /\ w.pc = "create" => w.got = {} /\ SameDay(w.replaces, w.date)
        /\ w.pc \in Working => w.left \subseteq Members[w.date] /\ w.got \subseteq Members[w.date]
        /\ w.pc = "prepare" => DOMAIN runs[w.run].items = {}
        /\ w.pc \in {"items", "add", "publish"} => WroteItems(r)
        /\ w.pc = "publish" => w.left = {}
        /\ w.pc = "add" =>
              /\ w.left # {} /\ Next1(r) \notin w.got
              /\ IF w.copied = None THEN NothingHealthy(w.run, Next1(r))
                 ELSE CopyOf(w.run, Next1(r), w.copied)

RefreshInv ==
    /\ RefreshTypes /\ ClocksGo
    /\ \A r \in Refreshers : OwnsRun(r) /\ WorkFits(r)
    /\ \A i \in DOMAIN runs : RowFits(i)

-----------------------------------------------------------------------------
LEMMA LeastOf ==
  ASSUME NEW T, T \subseteq Nat, T # {}
  PROVE  \E x \in T : \A y \in T : x <= y
<1> DEFINE R == OpToRel(<, Nat)
<1>1. IsWellFoundedOn(R, Nat)
  BY NatLessThanWellFounded
<1>2. \A x, y \in Nat : x < y => <<x, y>> \in R
  BY DEF OpToRel
<1> HIDE DEF R
<1>3. PICK x \in T : \A y \in T : <<y, x>> \notin R
  BY <1>1, WFMin, Zenon
<1>4. \A y \in T : y \in Nat /\ ~(y < x)
  BY <1>2, <1>3, Zenon
<1>5. x \in Nat /\ \A y \in T : x <= y
  BY <1>4
<1> QED BY <1>5

LEMMA RunRows == RefreshTypes =>
    /\ DOMAIN runs = 1..Len(runs) /\ Len(runs) \in Nat
    /\ \A i \in DOMAIN runs : runs[i] \in Rows
  BY DEF RefreshTypes

LEMMA CompletedCount ==
    ASSUME RefreshTypes
    PROVE  IsFiniteSet(Completed) /\ Cardinality(Completed) \in Nat /\ Stamp \in Nat
<1>1. IsFiniteSet(1..Len(runs)) /\ Completed \subseteq 1..Len(runs)
  BY RunRows, FS_Interval DEF Completed
<1>2. IsFiniteSet(Completed)
  BY <1>1, FS_Subset
<1>3. Cardinality(Completed) \in Nat
  BY <1>2, FS_CardinalityType
<1> QED BY <1>2, <1>3 DEF Stamp

\* There is a newest run in every set of completed ones.
LEMMA NewestIn ==
    ASSUME RefreshTypes, ClocksGo, NEW S, S \subseteq Completed
    PROVE  IF S = {} THEN Newest(S) = None ELSE Newest(S) \in S
<1>1. CASE S = {}
  BY <1>1 DEF Newest
<1>2. CASE S # {}
  <2> DEFINE c == Cardinality(Completed)
             T == {n \in Nat : \E k \in S : n = c - runs[k].done}
  <2>1. c \in Nat /\ \A k \in S : runs[k].done \in Nat /\ runs[k].done <= c
    BY CompletedCount, RunRows DEF ClocksGo, Completed, Rows
  <2> HIDE DEF c
  <2>2. T # {} /\ T \subseteq Nat
    <3>1. PICK k \in S : TRUE
      BY <1>2
    <3>2. c - runs[k].done \in T
      BY <2>1
    <3> QED BY <3>2
  <2>3. PICK n \in T : \A m \in T : n <= m
    BY <2>2, LeastOf
  <2>4. PICK k \in S : n = c - runs[k].done
    OBVIOUS
  <2>5. \A j \in S : runs[j].done <= runs[k].done
    <3> SUFFICES ASSUME NEW j \in S PROVE runs[j].done <= runs[k].done
      OBVIOUS
    <3>1. c - runs[j].done \in T
      BY <2>1
    <3> QED BY <3>1, <2>1, <2>3, <2>4
  <2> QED BY <2>5, <1>2 DEF Newest
<1> QED BY <1>1, <1>2

-----------------------------------------------------------------------------
\* How the runs may change in a step: what is completed stays, and what completes now
\* gets a time that is later than every other and no earlier than any beginning.
Onward ==
    /\ DOMAIN runs \subseteq DOMAIN runs'
    /\ \A i \in DOMAIN runs : /\ runs'[i].date = runs[i].date /\ runs'[i].began = runs[i].began
                              /\ runs'[i].replaces = runs[i].replaces
    /\ \A k \in Completed : runs'[k] = runs[k]
    /\ \A k \in Completed' \ Completed : k \in DOMAIN runs /\ runs'[k].done = Stamp

LEMMA CompletedStay ==
    ASSUME Onward
    PROVE  /\ Completed \subseteq Completed'
           /\ \A k \in Completed : \A s : HasHealthy(k, s)' <=> HasHealthy(k, s)
<1>1. Completed \subseteq Completed'
  BY DEF Onward, Completed
<1>2. \A k \in Completed : \A s : HasHealthy(k, s)' <=> HasHealthy(k, s)
  BY DEF Onward, HasHealthy
<1> QED BY <1>1, <1>2

LEMMA NothingKept ==
    ASSUME RefreshTypes, ClocksGo, Onward, NEW i \in DOMAIN runs, NEW s, NothingHealthy(i, s)
    PROVE  NothingHealthy(i, s)'
<1> SUFFICES ASSUME NEW k \in Completed', runs'[k].done < runs'[i].began PROVE ~HasHealthy(k, s)'
  BY DEF NothingHealthy
<1>1. runs'[i].began = runs[i].began /\ runs[i].began <= Stamp /\ Stamp \in Nat /\ runs[i].began \in Nat
  BY CompletedCount, RunRows DEF Onward, ClocksGo, Rows
<1>2. k \in Completed
  BY <1>1 DEF Onward
<1>3. runs'[k] = runs[k]
  BY <1>2 DEF Onward
<1> QED BY <1>1, <1>2, <1>3, CompletedStay DEF NothingHealthy

LEMMA CopyKept ==
    ASSUME Onward, NEW i, NEW s, NEW k, CopyOf(i, s, k)
    PROVE  CopyOf(i, s, k)'
  BY CompletedStay DEF CopyOf

LEMMA SameDayKept ==
    ASSUME Onward, NEW k, NEW d, SameDay(k, d)
    PROVE  SameDay(k, d)'
  BY CompletedStay DEF SameDay, Onward

LEMMA ItemsKept ==
    ASSUME RefreshTypes, ClocksGo, Onward, NEW i \in DOMAIN runs, NEW s,
           ItemFits(i, s), runs'[i].items[s] = runs[i].items[s]
    PROVE  ItemFits(i, s)'
<1>1. PICK k : k = runs[i].items[s].source
  OBVIOUS
<1>2. runs[i].items[s].status = "stale" => CopyOf(i, s, k)'
  BY <1>1, CopyKept DEF ItemFits
<1>3. runs[i].items[s].status = "failed" => k = None /\ NothingHealthy(i, s)'
  BY <1>1, NothingKept DEF ItemFits
<1>4. (runs[i].items[s].status)' = runs[i].items[s].status /\ (runs[i].items[s].source)' = k
  BY <1>1
<1>5. runs[i].items[s].status = "fresh" => k = i
  BY <1>1 DEF ItemFits
<1> QED BY <1>2, <1>3, <1>4, <1>5 DEF ItemFits

\* A run that stays as it is, or of which only the status becomes "failed".
LEMMA RowKept ==
    ASSUME RefreshTypes, ClocksGo, Onward, NEW i \in DOMAIN runs, RowFits(i),
           runs'[i].items = runs[i].items, runs'[i].done = runs[i].done,
           i \in Completed' => i \in Completed
    PROVE  RowFits(i)'
<1>1. ASSUME NEW s \in DOMAIN runs'[i].items PROVE ItemFits(i, s)'
  BY ItemsKept DEF RowFits
<1>2. SameDay(runs[i].replaces, runs[i].date)'
  <2>1. PICK k, d : k = runs[i].replaces /\ d = runs[i].date
    OBVIOUS
  <2>2. SameDay(k, d)'
    BY <2>1, SameDayKept DEF RowFits
  <2>3. (runs[i].replaces)' = k /\ (runs[i].date)' = d
    BY <2>1 DEF Onward
  <2> QED BY <2>2, <2>3
<1>3. ASSUME i \in Completed'
      PROVE  /\ runs'[i].replaces # None => runs'[runs'[i].replaces].done < runs'[i].done
             /\ DOMAIN runs'[i].items = Members[runs'[i].date]
             /\ \E s \in DOMAIN runs'[i].items : runs'[i].items[s].status = "fresh"
  <2>1. i \in Completed /\ runs'[i] = runs[i]
    BY <1>3 DEF Onward
  <2>2. runs[i].replaces # None => runs'[runs[i].replaces] = runs[runs[i].replaces]
    BY DEF Onward, RowFits, SameDay
  <2> QED BY <2>1, <2>2 DEF RowFits
<1>4. i \notin Completed' => runs'[i].done = 0
  BY CompletedStay DEF RowFits
<1> QED BY <1>1, <1>2, <1>3, <1>4 DEF RowFits

\* A refresher that does nothing, and whose run stays as it is.
LEMMA HandsKept ==
    ASSUME RefreshTypes, ClocksGo, Onward, NEW r \in Refreshers, OwnsRun(r), WorkFits(r),
           work'[r] = work[r], work[r].pc \in Working => runs'[work[r].run] = runs[work[r].run]
    PROVE  WorkFits(r)'
<1>1. PICK w : w = work[r]
  OBVIOUS
<1>2. Next1(r)' = Next1(r)
  BY DEF Next1
<1>3. w.pc = "create" => w.got = {} /\ SameDay(w.replaces, w.date)'
  <2>1. PICK k, d : k = w.replaces /\ d = w.date
    OBVIOUS
  <2>2. w.pc = "create" => SameDay(k, d)'
    BY <1>1, <2>1, SameDayKept DEF WorkFits
  <2> QED BY <1>1, <2>1, <2>2 DEF WorkFits
<1>4. w.pc \in {"items", "add", "publish"} => WroteItems(r)'
  BY <1>1 DEF WorkFits, WroteItems, Working
<1>5. ASSUME w.pc = "add"
      PROVE  IF w.copied = None THEN NothingHealthy(w.run, Next1(r))' ELSE CopyOf(w.run, Next1(r), w.copied)'
  <2>1. PICK i, s, k : i = w.run /\ s = Next1(r) /\ k = w.copied
    OBVIOUS
  <2>2. i \in DOMAIN runs
    BY <1>1, <1>5, <2>1 DEF OwnsRun, Working
  <2>3. IF k = None THEN NothingHealthy(i, s) ELSE CopyOf(i, s, k)
    BY <1>1, <1>5, <2>1 DEF WorkFits
  <2>4. IF k = None THEN NothingHealthy(i, s)' ELSE CopyOf(i, s, k)'
    BY <2>2, <2>3, NothingKept, CopyKept
  <2> QED BY <2>1, <2>4, <1>2
<1>6. w.pc = "prepare" => DOMAIN runs'[w.run].items = {}
  BY <1>1 DEF WorkFits, Working
<1>7. work'[r] = w
  BY <1>1
<1>8. w.pc = "add" => w.left # {} /\ Next1(r)' \notin w.got
  BY <1>1, <1>2 DEF WorkFits
<1>9. /\ w.pc \in Working => w.left \subseteq Members[w.date] /\ w.got \subseteq Members[w.date]
      /\ w.pc = "publish" => w.left = {}
  BY <1>1 DEF WorkFits
<1> QED BY <1>3, <1>4, <1>5, <1>6, <1>7, <1>8, <1>9 DEF WorkFits

\* One refresher does something, to its own run at most.
LEMMA StepKeeps ==
    ASSUME RefreshInv, Onward, NEW r \in Refreshers,
           RefreshTypes', ClocksGo', OwnsRun(r)', WorkFits(r)',
           \A q \in Refreshers \ {r} : work'[q] = work[q],
           \A i \in DOMAIN runs : runs'[i] = runs[i] \/ (work[r].pc \in Working /\ i = work[r].run /\ RowFits(i)'),
           \A i \in DOMAIN runs' \ DOMAIN runs : RowFits(i)'
    PROVE  RefreshInv'
<1> USE DEF RefreshInv
<1>1. ASSUME NEW q \in Refreshers, q # r PROVE OwnsRun(q)' /\ WorkFits(q)'
  <2>1. work'[q] = work[q] /\ OwnsRun(q) /\ WorkFits(q) /\ OwnsRun(r)
    BY <1>1
  <2>2. work[q].pc \in Working => runs'[work[q].run] = runs[work[q].run]
    BY <2>1, <1>1 DEF OwnsRun
  <2>3. WorkFits(q)'
    BY <2>1, <2>2, HandsKept
  <2>4. OwnsRun(q)'
    <3>1. ASSUME work[q].pc \in Working PROVE work[q].run \in DOMAIN runs'
      BY <3>1, <2>1 DEF OwnsRun, Onward
    <3>2. ASSUME work[q].pc \in Working, NEW p \in Refreshers \ {q}, work'[p].pc \in Working
          PROVE  work'[p].run # work[q].run
      <4>1. CASE p = r
        BY <4>1, <3>2, <2>1, <1>1 DEF OwnsRun
      <4>2. CASE p # r
        BY <4>2, <3>2, <2>1 DEF OwnsRun
      <4> QED BY <4>1, <4>2
    <3> QED BY <2>1, <2>2, <3>1, <3>2 DEF OwnsRun
  <2> QED BY <2>3, <2>4
<1>2. ASSUME NEW i \in DOMAIN runs' PROVE RowFits(i)'
  <2>1. CASE i \in DOMAIN runs /\ runs'[i] = runs[i]
    BY <2>1, RowKept DEF Completed
  <2> QED BY <2>1
<1> QED BY <1>1, <1>2

-----------------------------------------------------------------------------
\* A refresher moves on.
LEMMA Moved ==
    ASSUME RefreshTypes, NEW r \in Refreshers, NEW w \in Hands, Go(r, w)
    PROVE  work' \in [Refreshers -> Hands] /\ work'[r] = w /\ \A q \in Refreshers \ {r} : work'[q] = work[q]
  BY DEF RefreshTypes, Go

LEMMA StillOwned ==
    ASSUME RefreshInv, NEW r \in Refreshers, NEW w \in Hands, Go(r, w), work[r].pc \in Working,
           w.run = work[r].run, w.date = work[r].date, DOMAIN runs \subseteq DOMAIN runs',
           runs'[w.run].status = "running", runs'[w.run].date = runs[w.run].date
    PROVE  OwnsRun(r)'
<1>1. OwnsRun(r) /\ work'[r] = w /\ \A q \in Refreshers \ {r} : work'[q] = work[q]
  BY Moved DEF RefreshInv
<1>2. work[r].date \in Dates
  BY <1>1 DEF OwnsRun, Working
<1> QED BY <1>1, <1>2 DEF OwnsRun

LEMMA IdleOwnsNothing ==
    ASSUME NEW r \in Refreshers, work'[r].pc = "idle"
    PROVE  OwnsRun(r)' /\ WorkFits(r)'
  BY DEF OwnsRun, WorkFits, Working

\* A step that leaves the runs alone.
LEMMA QuietStep ==
    ASSUME RefreshInv, UNCHANGED runs, NEW r \in Refreshers, NEW w \in Hands, Go(r, w),
           cancel' \subseteq Refreshers, OwnsRun(r)', WorkFits(r)'
    PROVE  RefreshInv'
<1>1. Completed' = Completed /\ Stamp' = Stamp
  BY DEF Completed, Stamp
<1>2. Onward
  BY <1>1 DEF Onward
<1>3. ClocksGo'
  BY <1>1 DEF RefreshInv, ClocksGo
<1>4. RefreshTypes'
  BY Moved DEF RefreshTypes, RefreshInv
<1> QED BY <1>2, <1>3, <1>4, Moved, StepKeeps DEF RefreshInv

LEMMA HandsOf ==
    ASSUME RefreshInv, NEW r \in Refreshers
    PROVE  work[r] \in Hands /\ OwnsRun(r) /\ WorkFits(r)
  BY DEF RefreshInv, RefreshTypes

LEMMA IdleIsHands == Idle \in Hands
  BY DEF Idle, Hands, Places, Maybe

LEMMA BeginKeeps ==
    ASSUME RefreshConstants, RefreshInv, NEW r \in Refreshers, NEW d \in Dates, Begin(r, d)
    PROVE  RefreshInv'
<1>1. PICK p : p = Newest(Completed)
  OBVIOUS
<1>2. p # None => p \in Completed /\ p \in Nat
  <2>1. p # None => p \in Completed
    BY <1>1, NewestIn DEF RefreshInv
  <2> QED BY <2>1, RunRows DEF RefreshInv, Completed
<1>3. PICK k : k = IF p # None /\ runs[p].date = d THEN p ELSE None
  OBVIOUS
<1>4. PICK w : w = [Idle EXCEPT !.pc = "create", !.date = d, !.replaces = k]
  OBVIOUS
<1>5. Go(r, w) /\ UNCHANGED runs /\ cancel' \subseteq Refreshers
  BY <1>1, <1>3, <1>4 DEF Begin, RefreshInv, RefreshTypes
<1>6. w \in Hands /\ w.pc = "create" /\ w.date = d /\ w.replaces = k /\ w.got = {}
  BY <1>2, <1>3, <1>4 DEF Idle, Hands, Places, Maybe
<1>7. work'[r] = w
  BY <1>5, <1>6, Moved DEF RefreshInv
<1>8. OwnsRun(r)'
  BY <1>6, <1>7 DEF OwnsRun, Working
<1>9. SameDay(k, d)'
  BY <1>2, <1>3, <1>5 DEF SameDay, Completed
<1>10. WorkFits(r)'
  BY <1>6, <1>7, <1>9 DEF WorkFits, Working
<1> QED BY <1>5, <1>6, <1>8, <1>10, QuietStep

LEMMA PrepareKeeps ==
    ASSUME RefreshInv, NEW r \in Refreshers, Prepare(r)
    PROVE  RefreshInv'
<1>1. PICK i : i = CHOOSE j \in work[r].left : TRUE
  OBVIOUS
<1>2. PICK ok \in BOOLEAN : Go(r, [work[r] EXCEPT !.left = @ \ {i}, !.got = IF ok THEN @ \union {i} ELSE @])
  BY <1>1 DEF Prepare
<1>3. PICK g : g = IF ok THEN work[r].got \union {i} ELSE work[r].got
  OBVIOUS
<1>4. PICK w : w = [work[r] EXCEPT !.left = work[r].left \ {i}, !.got = g]
  OBVIOUS
<1>5. Go(r, w)
  BY <1>2, <1>3, <1>4 DEF Go
<1>6. i \in work[r].left /\ work[r].pc = "prepare" /\ UNCHANGED <<runs, cancel>>
  BY <1>1 DEF Prepare, At
<1>7. g \subseteq work[r].got \union work[r].left
  BY <1>3, <1>6
<1>8. /\ w \in Hands /\ w.pc = "prepare" /\ w.run = work[r].run /\ w.date = work[r].date
      /\ w.left \subseteq work[r].left /\ w.got = g
  BY <1>4, <1>6, <1>7, HandsOf DEF Hands
<1>9. OwnsRun(r)'
  <2>1. runs'[w.run].status = "running"
    BY <1>6, <1>8, HandsOf DEF OwnsRun, Working
  <2> QED BY <2>1, <1>5, <1>6, <1>8, StillOwned DEF Working
<1>10. WorkFits(r)'
  <2>1. work'[r] = w
    BY <1>5, <1>8, Moved DEF RefreshInv
  <2> QED BY <2>1, <1>6, <1>7, <1>8, HandsOf DEF WorkFits, Working
<1> QED BY <1>5, <1>6, <1>8, <1>9, <1>10, QuietStep DEF RefreshInv, RefreshTypes

LEMMA ScoreKeeps ==
    ASSUME RefreshInv, NEW r \in Refreshers, Score(r)
    PROVE  RefreshInv'
<1>1. PICK w : w = [work[r] EXCEPT !.pc = "items", !.left = Members[work[r].date]]
  OBVIOUS
<1>2. Go(r, w) /\ work[r].pc = "prepare" /\ UNCHANGED <<runs, cancel>> /\ work[r].got # {}
  BY <1>1 DEF Score, At, NothingPrepared
<1>3. work[r].date \in Dates
  BY <1>2, HandsOf DEF OwnsRun
<1>4. /\ w \in Hands /\ w.pc = "items" /\ w.run = work[r].run /\ w.date = work[r].date
      /\ w.left = Members[w.date] /\ w.got = work[r].got
  BY <1>1, <1>3, HandsOf DEF Hands, Places, Symbols
<1>5. OwnsRun(r)'
  <2>1. runs'[w.run].status = "running"
    BY <1>2, <1>4, HandsOf DEF OwnsRun, Working
  <2> QED BY <2>1, <1>2, <1>4, StillOwned DEF Working
<1>6. WorkFits(r)'
  <2>1. work'[r] = w
    BY <1>2, <1>4, Moved DEF RefreshInv
  <2>2. DOMAIN runs'[w.run].items = {}
    BY <1>2, <1>4, HandsOf DEF WorkFits
  <2>3. w.got \subseteq Members[w.date]
    BY <1>2, <1>4, HandsOf DEF WorkFits, Working
  <2> QED BY <2>1, <2>2, <2>3, <1>2, <1>4 DEF WorkFits, WroteItems, Working
<1> QED BY <1>2, <1>4, <1>5, <1>6, QuietStep DEF RefreshInv, RefreshTypes

LEMMA WrittenKeeps ==
    ASSUME RefreshInv, NEW r \in Refreshers, Written(r)
    PROVE  RefreshInv'
<1>1. PICK w : w = [work[r] EXCEPT !.pc = "publish"]
  OBVIOUS
<1>2. Go(r, w) /\ work[r].pc = "items" /\ work[r].left = {} /\ UNCHANGED <<runs, cancel>>
  BY <1>1 DEF Written, At
<1>3. /\ w \in Hands /\ w.pc = "publish" /\ w.run = work[r].run /\ w.date = work[r].date
      /\ w.left = work[r].left /\ w.got = work[r].got
  BY <1>1, HandsOf DEF Hands, Places
<1>4. OwnsRun(r)'
  <2>1. runs'[w.run].status = "running"
    BY <1>2, <1>3, HandsOf DEF OwnsRun, Working
  <2> QED BY <2>1, <1>2, <1>3, StillOwned DEF Working
<1>5. WorkFits(r)'
  <2>1. work'[r] = w
    BY <1>2, <1>3, Moved DEF RefreshInv
  <2>2. WroteItems(r)' /\ w.left \subseteq Members[w.date] /\ w.got \subseteq Members[w.date]
    BY <2>1, <1>2, <1>3, HandsOf DEF WorkFits, WroteItems, Working
  <2> QED BY <2>1, <2>2, <1>2, <1>3 DEF WorkFits, Working
<1> QED BY <1>2, <1>3, <1>4, <1>5, QuietStep DEF RefreshInv, RefreshTypes

LEMMA CopyHealthyKeeps ==
    ASSUME RefreshConstants, RefreshInv, NEW r \in Refreshers, CopyHealthy(r)
    PROVE  RefreshInv'
<1>1. PICK s : s = Next1(r)
  OBVIOUS
<1>2. PICK k : k = Healthy(s)
  OBVIOUS
<1>3. PICK w : w = [work[r] EXCEPT !.pc = "add", !.copied = k]
  OBVIOUS
<1>4. Go(r, w) /\ work[r].pc = "items" /\ work[r].left # {} /\ s \notin work[r].got /\ UNCHANGED <<runs, cancel>>
  BY <1>1, <1>2, <1>3 DEF CopyHealthy, At
<1>5. IF k = None THEN \A j \in Completed : ~HasHealthy(j, s) ELSE k \in Completed /\ HasHealthy(k, s) /\ k \in Nat
  <2> DEFINE S == {j \in Completed : HasHealthy(j, s)}
  <2>1. IF S = {} THEN k = None ELSE k \in S
    BY <1>2, NewestIn DEF Healthy, RefreshInv
  <2>2. \A j \in Completed : j \in Nat
    BY RunRows DEF Completed, RefreshInv
  <2> QED BY <2>1, <2>2 DEF RefreshConstants
<1>6. /\ w \in Hands /\ w.pc = "add" /\ w.run = work[r].run /\ w.date = work[r].date
      /\ w.left = work[r].left /\ w.got = work[r].got /\ w.copied = k
  BY <1>3, <1>5, HandsOf DEF Hands, Places, Maybe
<1>7. runs[w.run].status = "running" /\ w.run \notin Completed
  BY <1>4, <1>6, HandsOf DEF OwnsRun, Working, Completed
<1>8. OwnsRun(r)'
  BY <1>4, <1>6, <1>7, StillOwned DEF Working
<1>9. WorkFits(r)'
  <2>1. work'[r] = w
    BY <1>4, <1>6, Moved DEF RefreshInv
  <2>2. Next1(r)' = s /\ Completed' = Completed
    BY <2>1, <1>1, <1>4, <1>6 DEF Next1, Completed
  <2>3. IF k = None THEN NothingHealthy(w.run, s)' ELSE CopyOf(w.run, s, k)'
    BY <2>1, <2>2, <1>4, <1>5, <1>7 DEF NothingHealthy, CopyOf, HasHealthy
  <2>4. /\ w.left \subseteq Members[w.date] /\ w.got \subseteq Members[w.date]
        /\ WroteItems(r)'
    BY <2>1, <1>4, <1>6, HandsOf DEF WorkFits, WroteItems, Working
  <2>5. CASE k = None
    <3>1. NothingHealthy(w.run, s)'
      BY <2>3, <2>5
    <3> QED BY <3>1, <2>1, <2>2, <2>4, <2>5, <1>4, <1>6 DEF WorkFits, Working
  <2>6. CASE k # None
    <3>1. CopyOf(w.run, s, k)'
      BY <2>3, <2>6
    <3> QED BY <3>1, <2>1, <2>2, <2>4, <2>6, <1>4, <1>6 DEF WorkFits, Working
  <2> QED BY <2>5, <2>6
<1> QED BY <1>4, <1>6, <1>8, <1>9, QuietStep DEF RefreshInv, RefreshTypes

LEMMA CrashKeeps ==
    ASSUME RefreshInv, NEW r \in Refreshers, Crash(r)
    PROVE  RefreshInv'
<1>1. Go(r, Idle) /\ UNCHANGED <<runs, cancel>> /\ work'[r].pc = "idle"
  BY Moved, IdleIsHands DEF Crash, RefreshInv, Idle
<1> QED BY <1>1, IdleIsHands, IdleOwnsNothing, QuietStep DEF RefreshInv, RefreshTypes

-----------------------------------------------------------------------------
\* What a change of one row needs to be Onward.
LEMMA RowChanges ==
    ASSUME RefreshInv, NEW i \in DOMAIN runs, NEW x \in Rows, runs' = [runs EXCEPT ![i] = x],
           runs[i].status = "running", x.date = runs[i].date, x.began = runs[i].began,
           x.replaces = runs[i].replaces, x.status = "completed" => x.done = Stamp
    PROVE  /\ runs' \in Seq(Rows) /\ DOMAIN runs' = DOMAIN runs /\ runs'[i] = x
           /\ \A j \in DOMAIN runs \ {i} : runs'[j] = runs[j]
           /\ Completed' = IF x.status = "completed" THEN Completed \union {i} ELSE Completed
           /\ i \notin Completed /\ Onward /\ ClocksGo'
<1>1. /\ runs \in Seq(Rows) /\ DOMAIN runs = 1..Len(runs) /\ Len(runs) \in Nat
  BY RunRows DEF RefreshInv, RefreshTypes
<1>2. runs' \in Seq(Rows) /\ DOMAIN runs' = DOMAIN runs /\ runs'[i] = x /\ \A j \in DOMAIN runs \ {i} : runs'[j] = runs[j]
  BY <1>1
<1>3. i \notin Completed
  BY DEF Completed
<1>4. Completed' = IF x.status = "completed" THEN Completed \union {i} ELSE Completed
  BY <1>2, <1>3 DEF Completed
<1>5. Onward
  <2>1. \A k \in Completed : runs'[k] = runs[k]
    BY <1>2, <1>3 DEF Completed
  <2>2. \A k \in Completed' \ Completed : k \in DOMAIN runs /\ runs'[k].done = Stamp
    BY <1>2, <1>4
  <2>3. \A j \in DOMAIN runs : /\ runs'[j].date = runs[j].date /\ runs'[j].began = runs[j].began
                               /\ runs'[j].replaces = runs[j].replaces
    BY <1>2
  <2> QED BY <2>1, <2>2, <2>3, <1>2 DEF Onward
<1>6. ClocksGo'
  <2>1. IsFiniteSet(Completed) /\ Cardinality(Completed) \in Nat /\ Stamp = 1 + Cardinality(Completed)
    BY CompletedCount DEF RefreshInv, Stamp
  <2>2. Cardinality(Completed') = IF x.status = "completed" THEN Cardinality(Completed) + 1 ELSE Cardinality(Completed)
    BY <2>1, <1>3, <1>4, FS_AddElement
  <2>3. Stamp' = 1 + Cardinality(Completed')
    BY DEF Stamp
  <2>4. /\ \A k \in Completed : runs'[k] = runs[k] /\ runs[k].done \in Nat /\ runs[k].done <= Cardinality(Completed)
        /\ \A k \in Completed' \ Completed : runs'[k].done = Stamp
        /\ \A j \in DOMAIN runs : runs'[j].began = runs[j].began /\ runs[j].began <= Stamp /\ runs[j].began \in Nat
    BY <1>5, RunRows DEF Onward, RefreshInv, ClocksGo, Completed, Rows
  <2>5. \A k \in Completed' : runs'[k].done <= Cardinality(Completed')
    <3>1. ASSUME NEW k \in Completed' PROVE runs'[k].done <= Cardinality(Completed')
      <4>1. CASE k \in Completed
        BY <4>1, <2>1, <2>2, <2>4
      <4>2. CASE k \notin Completed
        <5>1. x.status = "completed"
          BY <4>2, <1>4
        <5> QED BY <5>1, <4>2, <2>1, <2>2, <2>4
      <4> QED BY <4>1, <4>2
    <3> QED BY <3>1
  <2>6. \A j \in DOMAIN runs' : runs'[j].began <= Stamp'
    <3>1. Stamp <= Stamp' /\ Stamp \in Nat /\ Stamp' \in Nat
      BY <2>1, <2>2, <2>3
    <3> QED BY <3>1, <2>4, <1>2
  <2> QED BY <2>5, <2>6 DEF ClocksGo
<1> QED BY <1>2, <1>3, <1>4, <1>5, <1>6

\* A step that changes the run of a refresher and its hands.
LEMMA RowStep ==
    ASSUME RefreshInv, NEW r \in Refreshers, work[r].pc \in Working, NEW i, i = work[r].run,
           NEW w \in Hands, Go(r, w), cancel' \subseteq Refreshers,
           NEW x \in Rows, runs' = [runs EXCEPT ![i] = x],
           x.date = runs[i].date, x.began = runs[i].began, x.replaces = runs[i].replaces,
           x.status = "completed" => x.done = Stamp,
           RowFits(i)', OwnsRun(r)', WorkFits(r)'
    PROVE  RefreshInv'
<1>1. i \in DOMAIN runs /\ runs[i].status = "running"
  BY HandsOf DEF OwnsRun
<1>2. Onward /\ ClocksGo' /\ runs' \in Seq(Rows) /\ DOMAIN runs' = DOMAIN runs
      /\ \A j \in DOMAIN runs \ {i} : runs'[j] = runs[j]
  BY <1>1, RowChanges
<1>3. RefreshTypes' /\ \A q \in Refreshers \ {r} : work'[q] = work[q]
  BY <1>2, Moved DEF RefreshInv, RefreshTypes
<1>4. \A j \in DOMAIN runs : runs'[j] = runs[j] \/ (work[r].pc \in Working /\ j = work[r].run /\ RowFits(j)')
  BY <1>2
<1> QED BY <1>2, <1>3, <1>4, StepKeeps

LEMMA FailRunKeeps ==
    ASSUME RefreshInv, NEW r \in Refreshers, work[r].pc \in Working, FailRun(r)
    PROVE  RefreshInv'
<1>1. PICK i : i = work[r].run
  OBVIOUS
<1>2. i \in DOMAIN runs /\ runs[i].status = "running" /\ runs[i] \in Rows /\ RowFits(i)
  BY <1>1, HandsOf, RunRows DEF OwnsRun, RefreshInv
<1>3. PICK x : x = [runs[i] EXCEPT !.status = "failed"]
  OBVIOUS
<1>4. runs' = [runs EXCEPT ![i] = x] /\ Go(r, Idle) /\ cancel' = cancel
  BY <1>1, <1>2, <1>3 DEF FailRun
<1>5. /\ x \in Rows /\ x.status = "failed" /\ x.date = runs[i].date /\ x.began = runs[i].began
      /\ x.replaces = runs[i].replaces /\ x.items = runs[i].items /\ x.done = runs[i].done
  BY <1>2, <1>3 DEF Rows
<1>6. Onward /\ runs'[i] = x /\ i \notin Completed /\ Completed' = Completed
  BY <1>2, <1>4, <1>5, RowChanges
<1>7. RowFits(i)'
  BY <1>2, <1>5, <1>6, RowKept DEF RefreshInv
<1>8. work'[r].pc = "idle"
  BY <1>4, IdleIsHands, Moved DEF RefreshInv, Idle
<1>9. OwnsRun(r)' /\ WorkFits(r)'
  BY <1>8, IdleOwnsNothing
<1>10. cancel' \subseteq Refreshers
  BY <1>4 DEF RefreshInv, RefreshTypes
<1> QED BY <1>1, <1>4, <1>5, <1>7, <1>9, <1>10, IdleIsHands, RowStep

LEMMA PublishKeeps ==
    ASSUME RefreshInv, NEW r \in Refreshers, Publish(r)
    PROVE  RefreshInv'
<1>1. PICK i, w : i = work[r].run /\ w = work[r]
  OBVIOUS
<1>2. /\ w.pc = "publish" /\ work[r].pc \in Working /\ i \in DOMAIN runs /\ runs[i].status = "running"
      /\ runs[i] \in Rows /\ RowFits(i) /\ Stamp \in Nat
  <2>1. w.pc = "publish" /\ work[r].pc \in Working
    BY <1>1 DEF Publish, At, Working
  <2> QED BY <2>1, <1>1, HandsOf, RunRows, CompletedCount DEF OwnsRun, RefreshInv
<1>3. PICK x : x = [runs[i] EXCEPT !.status = "completed", !.done = Stamp]
  OBVIOUS
<1>4. runs' = [runs EXCEPT ![i] = x] /\ Go(r, Idle) /\ cancel' = cancel
  <2>1. runs \in [DOMAIN runs -> Rows]
    BY RunRows DEF RefreshInv, RefreshTypes
  <2>2. runs' = [runs EXCEPT ![i].status = "completed", ![i].done = Stamp] /\ Go(r, Idle) /\ cancel' = cancel
    BY <1>1 DEF Publish
  <2> QED BY <2>1, <2>2, <1>2, <1>3
<1>5. /\ x \in Rows /\ x.status = "completed" /\ x.done = Stamp /\ x.date = runs[i].date
      /\ x.began = runs[i].began /\ x.replaces = runs[i].replaces /\ x.items = runs[i].items
  BY <1>2, <1>3 DEF Rows
<1>6. Onward /\ runs'[i] = x /\ i \notin Completed /\ Completed' = Completed \union {i}
      /\ \A j \in DOMAIN runs \ {i} : runs'[j] = runs[j]
  BY <1>2, <1>4, <1>5, RowChanges
<1>7. RowFits(i)'
  <2>1. \A s \in DOMAIN runs'[i].items : ItemFits(i, s)'
    <3>1. ASSUME NEW s \in DOMAIN runs'[i].items PROVE ItemFits(i, s)'
      BY <1>2, <1>5, <1>6, ItemsKept DEF RefreshInv, RowFits
    <3> QED BY <3>1
  <2>2. SameDay(runs[i].replaces, runs[i].date)'
    <3>1. PICK k, d : k = runs[i].replaces /\ d = runs[i].date
      OBVIOUS
    <3>2. SameDay(k, d)'
      BY <3>1, <1>2, <1>6, SameDayKept DEF RowFits
    <3>3. (runs[i].replaces)' = k /\ (runs[i].date)' = d
      BY <3>1, <1>5, <1>6
    <3> QED BY <3>2, <3>3
  <2>3. x.replaces # None => runs'[x.replaces].done < x.done
    <3>1. ASSUME x.replaces # None PROVE runs'[x.replaces].done < x.done
      <4>1. x.replaces \in Completed
        BY <3>1, <1>2, <1>5 DEF RowFits, SameDay
      <4>2. runs'[x.replaces] = runs[x.replaces] /\ runs[x.replaces].done \in Nat
            /\ runs[x.replaces].done <= Cardinality(Completed) /\ Cardinality(Completed) \in Nat
        BY <4>1, <1>6, RunRows, CompletedCount DEF Onward, RefreshInv, ClocksGo, Completed, Rows
      <4> QED BY <4>2, <1>5 DEF Stamp
    <3> QED BY <3>1
  <2>4. DOMAIN x.items = Members[x.date] /\ \E s \in DOMAIN x.items : x.items[s].status = "fresh"
    <3>1. WorkFits(r) /\ WroteItems(r) /\ w.left = {} /\ w.got \subseteq Members[w.date] /\ runs[i].date = w.date
      BY <1>1, <1>2, HandsOf DEF WorkFits, OwnsRun
    <3>2. DOMAIN x.items = Members[x.date]
      BY <3>1, <1>1, <1>5 DEF WroteItems
    <3>3. PICK s \in w.got : s \in Members[w.date]
      BY <3>1, <1>1 DEF WroteItems
    <3>4. x.items[s].status = "fresh"
      BY <3>1, <3>2, <3>3, <1>1, <1>5 DEF WroteItems
    <3> QED BY <3>1, <3>2, <3>3, <3>4, <1>5
  <2> QED BY <2>1, <2>2, <2>3, <2>4, <1>6 DEF RowFits
<1>8. work'[r].pc = "idle"
  BY <1>4, IdleIsHands, Moved DEF RefreshInv, Idle
<1>9. OwnsRun(r)' /\ WorkFits(r)'
  BY <1>8, IdleOwnsNothing
<1>10. cancel' \subseteq Refreshers
  BY <1>4 DEF RefreshInv, RefreshTypes
<1> QED BY <1>1, <1>2, <1>4, <1>5, <1>7, <1>9, <1>10, IdleIsHands, RowStep

-----------------------------------------------------------------------------
ItemRecords == [status : {"fresh", "stale", "failed"}, source : Maybe(Nat)]
Suits(i, s, item) ==
    /\ item.status = "fresh" => item.source = i
    /\ item.status = "stale" => CopyOf(i, s, item.source)
    /\ item.status = "failed" => item.source = None /\ NothingHealthy(i, s)

\* The next instrument of a run gets an item that suits it.
LEMMA AddKeeps ==
    ASSUME RefreshInv, NEW r \in Refreshers, work[r].pc \in {"items", "add"},
           NEW s \in work[r].left, NEW item \in ItemRecords, s \in work[r].got => item.status = "fresh",
           Suits(work[r].run, s, item), Add(r, s, item),
           NEW w \in Hands, Go(r, w), w.pc = "items", w.left = work[r].left \ {s}, w.got = work[r].got,
           w.run = work[r].run, w.date = work[r].date, UNCHANGED cancel
    PROVE  RefreshInv'
<1>1. PICK i : i = work[r].run
  OBVIOUS
<1>2. /\ i \in DOMAIN runs /\ runs[i].status = "running" /\ runs[i] \in Rows /\ RowFits(i)
      /\ work[r].pc \in Working /\ runs[i].date = w.date /\ runs[i].date \in Dates
  BY <1>1, HandsOf, RunRows DEF OwnsRun, RefreshInv, Working, Rows
<1>3. PICK old : old = runs[i].items
  OBVIOUS
<1>4. PICK new : new = [j \in DOMAIN old \union {s} |-> IF j = s THEN item ELSE old[j]]
  OBVIOUS
<1>5. PICK x : x = [runs[i] EXCEPT !.items = new]
  OBVIOUS
<1>6. runs' = [runs EXCEPT ![i] = x]
  <2>1. runs' = [runs EXCEPT ![i].items = new]
    BY <1>1, <1>3, <1>4 DEF Add
  <2> QED BY <2>1, <1>5
<1>7. new \in Tables
  <2>1. PICK S \in SUBSET Symbols : old \in [S -> ItemRecords]
    BY <1>2, <1>3 DEF Rows, Tables, ItemRecords
  <2>2. s \in Symbols
    BY HandsOf DEF Hands
  <2>3. new \in [S \union {s} -> ItemRecords] /\ S \union {s} \in SUBSET Symbols
    BY <2>1, <2>2, <1>4
  <2> QED BY <2>3 DEF Tables, ItemRecords
<1>8. /\ x \in Rows /\ x.status = "running" /\ x.date = runs[i].date /\ x.began = runs[i].began
      /\ x.replaces = runs[i].replaces /\ x.items = new /\ x.done = runs[i].done
  BY <1>2, <1>5, <1>7 DEF Rows
<1>9. Onward /\ runs'[i] = x /\ i \notin Completed /\ Completed' = Completed /\ DOMAIN runs' = DOMAIN runs
  BY <1>2, <1>6, <1>8, RowChanges
<1>10. RowFits(i)'
  <2>1. ASSUME NEW j \in DOMAIN runs'[i].items PROVE ItemFits(i, j)'
    <3>1. CASE j # s
      <4>1. j \in DOMAIN old /\ runs'[i].items[j] = runs[i].items[j]
        BY <2>1, <3>1, <1>3, <1>4, <1>8, <1>9
      <4> QED BY <4>1, <1>2, <1>3, <1>9, ItemsKept DEF RefreshInv, RowFits
    <3>2. CASE j = s
      <4>1. PICK k : k = item.source
        OBVIOUS
      <4>2. item.status = "stale" => CopyOf(i, s, k)'
        BY <4>1, <1>1, <1>9, CopyKept DEF Suits
      <4>3. item.status = "failed" => k = None /\ NothingHealthy(i, s)'
        BY <4>1, <1>1, <1>2, <1>9, NothingKept DEF Suits, RefreshInv
      <4>4. runs'[i].items[s] = item
        BY <1>4, <1>8, <1>9
      <4>5. item.status = "fresh" => k = i
        BY <4>1, <1>1 DEF Suits
      <4>6. (runs[i].items[s].status)' = item.status /\ (runs[i].items[s].source)' = k
        BY <4>1, <4>4
      <4> QED BY <4>2, <4>3, <4>5, <4>6, <3>2 DEF ItemFits
    <3> QED BY <3>1, <3>2
  <2>2. SameDay(runs[i].replaces, runs[i].date)'
    <3>1. PICK k, d : k = runs[i].replaces /\ d = runs[i].date
      OBVIOUS
    <3>2. SameDay(k, d)'
      BY <3>1, <1>2, <1>9, SameDayKept DEF RowFits
    <3>3. (runs[i].replaces)' = k /\ (runs[i].date)' = d
      BY <3>1, <1>8, <1>9
    <3> QED BY <3>2, <3>3
  <2>3. i \notin Completed' /\ runs'[i].done = 0
    BY <1>2, <1>8, <1>9 DEF RowFits
  <2> QED BY <2>1, <2>2, <2>3 DEF RowFits
<1>11. OwnsRun(r)'
  BY <1>1, <1>2, <1>8, <1>9, StillOwned
<1>12. WorkFits(r)'
  <2>1. work'[r] = w
    BY Moved DEF RefreshInv
  <2>2. WorkFits(r) /\ WroteItems(r) /\ w.left \subseteq Members[w.date] /\ w.got \subseteq Members[w.date]
    BY <1>2, HandsOf DEF WorkFits
  <2>3. s \in Members[w.date]
    BY <1>2, <2>2 DEF WorkFits
  <2>4. DOMAIN new = Members[w.date] \ w.left
    BY <2>2, <2>3, <1>1, <1>3, <1>4 DEF WroteItems
  <2>5. \A j \in DOMAIN new : j \in w.got => new[j].status = "fresh"
    BY <2>2, <1>1, <1>3, <1>4 DEF WroteItems
  <2>6. WroteItems(r)'
    BY <2>1, <2>2, <2>4, <2>5, <1>1, <1>8, <1>9 DEF WroteItems
  <2> QED BY <2>1, <2>2, <2>6 DEF WorkFits
<1>13. cancel' \subseteq Refreshers
  BY DEF RefreshInv, RefreshTypes
<1> QED BY <1>1, <1>2, <1>6, <1>8, <1>10, <1>11, <1>12, <1>13, RowStep

LEMMA AddFreshKeeps ==
    ASSUME RefreshInv, NEW r \in Refreshers, AddFresh(r)
    PROVE  RefreshInv'
<1>1. PICK s, i : s = Next1(r) /\ i = work[r].run
  OBVIOUS
<1>2. PICK item : item = [status |-> "fresh", source |-> i]
  OBVIOUS
<1>3. PICK w : w = [work[r] EXCEPT !.left = work[r].left \ {s}]
  OBVIOUS
<1>4. /\ work[r].pc = "items" /\ work[r].left # {} /\ s \in work[r].got /\ Add(r, s, item)
      /\ Go(r, w) /\ UNCHANGED cancel
  BY <1>1, <1>2, <1>3 DEF AddFresh, At
<1>5. s \in work[r].left
  BY <1>1, <1>4 DEF Next1
<1>6. i \in Nat
  BY <1>1, <1>4, HandsOf, RunRows DEF OwnsRun, Working, RefreshInv
<1>7. item \in ItemRecords /\ item.status = "fresh" /\ Suits(work[r].run, s, item)
  BY <1>1, <1>2, <1>6 DEF ItemRecords, Maybe, Suits
<1>8. /\ w \in Hands /\ w.pc = "items" /\ w.left = work[r].left \ {s} /\ w.got = work[r].got
      /\ w.run = work[r].run /\ w.date = work[r].date
  BY <1>3, <1>4, HandsOf DEF Hands
<1> QED BY <1>4, <1>5, <1>7, <1>8, AddKeeps

LEMMA AddStaleKeeps ==
    ASSUME RefreshConstants, RefreshInv, NEW r \in Refreshers, AddStale(r)
    PROVE  RefreshInv'
<1>1. PICK s, i, k : s = Next1(r) /\ i = work[r].run /\ k = work[r].copied
  OBVIOUS
<1>2. PICK item : item = IF k = None THEN [status |-> "failed", source |-> None]
                         ELSE [status |-> "stale", source |-> runs[k].items[s].source]
  OBVIOUS
<1>3. PICK w : w = [work[r] EXCEPT !.pc = "items", !.left = work[r].left \ {s}, !.copied = None]
  OBVIOUS
<1>4. work[r].pc = "add" /\ Add(r, s, item) /\ Go(r, w) /\ UNCHANGED cancel
  BY <1>1, <1>2, <1>3 DEF AddStale, At
<1>5. work[r].left # {} /\ s \notin work[r].got /\ IF k = None THEN NothingHealthy(i, s) ELSE CopyOf(i, s, k)
  BY <1>1, <1>4, HandsOf DEF WorkFits
<1>6. s \in work[r].left
  BY <1>1, <1>5 DEF Next1
<1>7. k # None => runs[k].items[s].source = k /\ k \in Nat
  <2>1. SUFFICES ASSUME k # None PROVE runs[k].items[s].source = k /\ k \in Nat
    OBVIOUS
  <2>2. k \in Completed /\ HasHealthy(k, s)
    BY <2>1, <1>5 DEF CopyOf
  <2>3. k \in DOMAIN runs /\ ItemFits(k, s)
    BY <2>2 DEF Completed, HasHealthy, RefreshInv, RowFits
  <2> QED BY <2>2, <2>3, RunRows DEF HasHealthy, ItemFits, RefreshInv
<1>8. item \in ItemRecords /\ Suits(work[r].run, s, item)
  <2>1. CASE k = None
    BY <2>1, <1>1, <1>2, <1>5 DEF ItemRecords, Maybe, Suits
  <2>2. CASE k # None
    BY <2>2, <1>1, <1>2, <1>5, <1>7 DEF ItemRecords, Maybe, Suits
  <2> QED BY <2>1, <2>2
<1>9. /\ w \in Hands /\ w.pc = "items" /\ w.left = work[r].left \ {s} /\ w.got = work[r].got
      /\ w.run = work[r].run /\ w.date = work[r].date
  BY <1>3, <1>4, HandsOf DEF Hands, Places, Maybe
<1> QED BY <1>4, <1>5, <1>6, <1>8, <1>9, AddKeeps

LEMMA CreateKeeps ==
    ASSUME RefreshInv, NEW r \in Refreshers, Create(r)
    PROVE  RefreshInv'
<1>1. PICK d, k, n : d = work[r].date /\ k = work[r].replaces /\ n = Len(runs)
  OBVIOUS
<1>2. PICK x : x = [date |-> d, status |-> "running", done |-> 0, began |-> Stamp, replaces |-> k, items |-> <<>>]
  OBVIOUS
<1>3. PICK w : w = [work[r] EXCEPT !.pc = "prepare", !.run = n + 1, !.left = Members[d]]
  OBVIOUS
<1>4. runs \in Seq(Rows) /\ DOMAIN runs = 1..n /\ n \in Nat /\ Stamp \in Nat
  BY <1>1, RunRows, CompletedCount DEF RefreshInv, RefreshTypes
<1>5. work[r].pc = "create" /\ runs' = Append(runs, x) /\ UNCHANGED cancel
  BY <1>1, <1>2 DEF Create, At
<1>6. /\ runs' = Append(runs, x) /\ Len(runs') = n + 1 /\ DOMAIN runs' = 1..(n + 1)
      /\ runs'[n + 1] = x /\ \A i \in 1..n : runs'[i] = runs[i]
  BY <1>1, <1>4, <1>5
<1>7. Go(r, w)
  BY <1>1, <1>3, <1>6 DEF Create
<1>8. work[r] \in Hands /\ OwnsRun(r) /\ WorkFits(r) /\ d \in Dates /\ work[r].got = {} /\ SameDay(k, d)
  BY <1>1, <1>5, HandsOf DEF OwnsRun, WorkFits
<1>9. DOMAIN x.items = {} /\ x.items \in Tables
  <2>1. x.items = <<>> /\ DOMAIN <<>> = {} /\ <<>> \in [{} -> ItemRecords]
    BY <1>2
  <2> QED BY <2>1 DEF Tables, ItemRecords
<1>10. x \in Rows
  BY <1>1, <1>2, <1>4, <1>8, <1>9 DEF Rows, Hands
<1>11. runs' \in Seq(Rows)
  BY <1>4, <1>5, <1>10
<1>12. Completed' = Completed /\ n + 1 \notin Completed
  BY <1>2, <1>4, <1>6 DEF Completed
<1>13. Onward
  BY <1>4, <1>6, <1>12 DEF Onward, Completed
<1>14. ClocksGo'
  <2>1. Stamp' = Stamp
    BY <1>12 DEF Stamp
  <2>2. \A i \in DOMAIN runs' : runs'[i].began <= Stamp
    BY <1>2, <1>4, <1>6 DEF RefreshInv, ClocksGo
  <2> QED BY <2>1, <2>2, <1>4, <1>6, <1>12 DEF RefreshInv, ClocksGo, Completed
<1>15. /\ w \in Hands /\ w.pc = "prepare" /\ w.run = n + 1 /\ w.left = Members[d] /\ w.date = d /\ w.got = {}
  <2>1. n + 1 \in Maybe(Nat) /\ Members[d] \in SUBSET Symbols /\ "prepare" \in Places
    BY <1>4, <1>8 DEF Maybe, Symbols, Places
  <2>2. w.pc = "prepare" /\ w.run = n + 1 /\ w.left = Members[d] /\ w.date = d /\ w.got = {}
    BY <1>1, <1>3, <1>8 DEF Hands
  <2>3. w \in Hands
    BY <2>1, <1>3, <1>8 DEF Hands
  <2> QED BY <2>2, <2>3
<1>16. work' \in [Refreshers -> Hands] /\ work'[r] = w /\ \A q \in Refreshers \ {r} : work'[q] = work[q]
  BY <1>7, <1>15, Moved DEF RefreshInv
<1>17. OwnsRun(r)'
  <2>1. ASSUME NEW q \in Refreshers \ {r}, work'[q].pc \in Working PROVE work'[q].run # n + 1
    <3>1. work[q].run \in 1..n
      BY <2>1, <1>4, <1>16, HandsOf DEF OwnsRun
    <3> QED BY <3>1, <1>4, <1>16
  <2> QED BY <2>1, <1>2, <1>4, <1>6, <1>8, <1>15, <1>16 DEF OwnsRun
<1>18. WorkFits(r)'
  BY <1>6, <1>9, <1>15, <1>16 DEF WorkFits, Working
<1>19. RowFits(n + 1)'
  <2>1. SameDay(k, d)'
    BY <1>8, <1>13, SameDayKept
  <2>2. runs'[n + 1].replaces = k /\ runs'[n + 1].date = d /\ runs'[n + 1].done = 0 /\ DOMAIN runs'[n + 1].items = {}
    BY <1>2, <1>6, <1>9
  <2> QED BY <2>1, <2>2, <1>12 DEF RowFits
<1>20. RefreshTypes'
  BY <1>5, <1>11, <1>16 DEF RefreshInv, RefreshTypes
<1>21. \A i \in DOMAIN runs' \ DOMAIN runs : RowFits(i)'
  <2>1. \A i \in DOMAIN runs' \ DOMAIN runs : i = n + 1
    BY <1>4, <1>6
  <2> QED BY <2>1, <1>19
<1> QED BY <1>4, <1>6, <1>13, <1>14, <1>16, <1>17, <1>18, <1>20, <1>21, StepKeeps

-----------------------------------------------------------------------------
LEMMA WorkersSame ==
    ASSUME RefreshInv, UNCHANGED <<runs, work>>, cancel' \subseteq Refreshers
    PROVE  RefreshInv'
<1>1. RefreshTypes'
  BY DEF RefreshInv, RefreshTypes
<1>2. Completed' = Completed /\ Stamp' = Stamp
  BY DEF Completed, Stamp
<1>3. ClocksGo' /\ Onward
  BY <1>2 DEF RefreshInv, ClocksGo, Onward
<1>4. \A r \in Refreshers : WorkFits(r)'
  BY <1>3, HandsKept DEF RefreshInv
<1>5. \A r \in Refreshers : OwnsRun(r)'
  BY DEF RefreshInv, OwnsRun
<1>6. \A i \in DOMAIN runs' : RowFits(i)'
  BY <1>2, <1>3, RowKept DEF RefreshInv
<1> QED BY <1>1, <1>3, <1>4, <1>5, <1>6 DEF RefreshInv

LEMMA RefreshInvInit == RefreshConstants /\ Init => RefreshInv
<1> SUFFICES ASSUME RefreshConstants, Init PROVE RefreshInv
  OBVIOUS
<1>1. runs = <<>> /\ work = [r \in Refreshers |-> Idle] /\ cancel = {}
  BY DEF Init
<1>2. DOMAIN runs = {} /\ Completed = {} /\ \A r \in Refreshers : work[r].pc = "idle"
  BY <1>1 DEF Completed, Idle
<1>3. RefreshTypes
  BY <1>1, IdleIsHands DEF RefreshTypes
<1>4. \A r \in Refreshers : OwnsRun(r) /\ WorkFits(r)
  BY <1>2 DEF OwnsRun, WorkFits, Working
<1> QED BY <1>2, <1>3, <1>4 DEF RefreshInv, ClocksGo

\* What a step of a refresher may do, besides keeping the invariant.
LEMMA RefreshStep == RefreshConstants /\ RefreshInv /\ [Next]_vars => RefreshInv'
<1> SUFFICES ASSUME RefreshConstants, RefreshInv, [Next]_vars PROVE RefreshInv'
  OBVIOUS
<1>1. CASE UNCHANGED vars
  BY <1>1, WorkersSame DEF vars, RefreshInv, RefreshTypes
<1>2. CASE Next
  <2>1. PICK r \in Refreshers :
            \/ \E d \in Dates : Begin(r, d)
            \/ Create(r) \/ Prepare(r) \/ Score(r) \/ NonePrepared(r) \/ Cancelled(r) \/ Raise(r)
            \/ AddFresh(r) \/ CopyHealthy(r) \/ AddStale(r) \/ Written(r) \/ Publish(r)
            \/ Cancel(r) \/ Crash(r)
    BY <1>2 DEF Next
  <2>2. CASE \E d \in Dates : Begin(r, d)
    BY <2>2, BeginKeeps
  <2>3. CASE NonePrepared(r) \/ Cancelled(r) \/ Raise(r)
    <3>1. work[r].pc \in Working /\ FailRun(r)
      BY <2>3 DEF NonePrepared, Cancelled, Raise, At, Working
    <3> QED BY <3>1, FailRunKeeps
  <2>4. CASE Cancel(r)
    BY <2>4, WorkersSame DEF Cancel, RefreshInv, RefreshTypes
  <2> QED BY <2>1, <2>2, <2>3, <2>4, CreateKeeps, PrepareKeeps, ScoreKeeps, AddFreshKeeps,
             CopyHealthyKeeps, AddStaleKeeps, WrittenKeeps, PublishKeeps, CrashKeeps
<1> QED BY <1>1, <1>2

\* The invariant says what the snapshots promise.
LEMMA SoundnessFollows == RefreshConstants /\ RefreshInv => SnapshotsSound /\ NoValueIsLost
<1> SUFFICES ASSUME RefreshConstants, RefreshInv PROVE SnapshotsSound /\ NoValueIsLost
  OBVIOUS
<1>1. ASSUME NEW i \in Completed PROVE i \in DOMAIN runs /\ RowFits(i)
  BY DEF RefreshInv, Completed
<1>2. SnapshotsSound
  <2>1. ASSUME NEW i \in Completed, NEW s \in DOMAIN runs[i].items
        PROVE  /\ runs[i].items[s].status = "fresh" => runs[i].items[s].source = i
               /\ runs[i].items[s].status = "stale" =>
                     /\ runs[i].items[s].source \in Completed \ {i}
                     /\ runs[runs[i].items[s].source].items[s].status = "fresh"
    BY <1>1 DEF RowFits, ItemFits, CopyOf, HasHealthy
  <2>2. ASSUME NEW i \in Completed
        PROVE  /\ DOMAIN runs[i].items = Members[runs[i].date]
               /\ \E s \in DOMAIN runs[i].items : runs[i].items[s].status = "fresh"
               /\ runs[i].replaces # None => /\ runs[i].replaces \in Completed
                                             /\ runs[runs[i].replaces].date = runs[i].date
                                             /\ runs[runs[i].replaces].done < runs[i].done
    BY <1>1 DEF RowFits, SameDay
  <2> QED BY <2>1, <2>2 DEF SnapshotsSound
<1>3. NoValueIsLost
  BY <1>1 DEF NoValueIsLost, RowFits, ItemFits, NothingHealthy
<1> QED BY <1>2, <1>3

\* A published snapshot is whole, at least one of its items is fresh, and a stale one was
\* copied from a published snapshot that fetched it; what it replaces is a published
\* snapshot of the same day; and no instrument that had a value when the run began is left
\* without one (radar/refresh.py, copy_latest_healthy_item of radar/store.py), for any
\* number of refreshers that run beside each other, fail, are cancelled or die.
THEOREM SnapshotsAreSound == RefreshConstants /\ Spec => [](SnapshotsSound /\ NoValueIsLost)
<1> SUFFICES ASSUME RefreshConstants PROVE Spec => [](SnapshotsSound /\ NoValueIsLost)
  OBVIOUS
<1>1. Init => RefreshInv
  BY RefreshInvInit
<1>2. RefreshInv /\ [Next]_vars => RefreshInv'
  BY RefreshStep
<1>3. RefreshInv => SnapshotsSound /\ NoValueIsLost
  BY SoundnessFollows
<1> QED BY <1>1, <1>2, <1>3, PTL DEF Spec

-----------------------------------------------------------------------------
\* Only an open run changes, and it is the run of the refresher that changes it.
LEMMA OneRunChanges ==
    ASSUME RefreshInv, NEW r \in Refreshers, work[r].pc \in Working, NEW i \in DOMAIN runs,
           runs[i].status # "running", NEW x, runs' = [runs EXCEPT ![work[r].run] = x]
    PROVE  runs'[i] = runs[i]
<1>1. work[r].run # i
  BY HandsOf DEF OwnsRun
<1> QED BY <1>1

LEMMA StepKeepsClosed == RefreshInv /\ Next => ClosedRunsStay
<1> SUFFICES ASSUME RefreshInv, Next, NEW i \in DOMAIN runs, runs[i].status # "running"
             PROVE runs'[i] = runs[i]
  BY DEF ClosedRunsStay
<1>1. PICK r \in Refreshers :
          \/ \E d \in Dates : Begin(r, d)
          \/ Create(r) \/ Prepare(r) \/ Score(r) \/ NonePrepared(r) \/ Cancelled(r) \/ Raise(r)
          \/ AddFresh(r) \/ CopyHealthy(r) \/ AddStale(r) \/ Written(r) \/ Publish(r)
          \/ Cancel(r) \/ Crash(r)
  BY DEF Next
<1>2. CASE UNCHANGED runs
  BY <1>2
<1>3. CASE Create(r)
  <2>1. PICK x : runs' = Append(runs, x)
    BY <1>3 DEF Create
  <2>2. runs \in Seq(Rows) /\ i \in 1..Len(runs)
    BY RunRows DEF RefreshInv, RefreshTypes
  <2> QED BY <2>1, <2>2
<1>4. CASE work[r].pc \in Working /\ \E x : runs' = [runs EXCEPT ![work[r].run] = x]
  BY <1>4, OneRunChanges
<1>5. CASE NonePrepared(r) \/ Cancelled(r) \/ Raise(r)
  BY <1>4, <1>5 DEF NonePrepared, Cancelled, Raise, At, Working, FailRun
<1>6. CASE AddFresh(r)
  BY <1>4, <1>6 DEF AddFresh, At, Working, Add
<1>7. CASE AddStale(r)
  BY <1>4, <1>7 DEF AddStale, At, Working, Add
<1>8. CASE Publish(r)
  <2>1. work[r].pc \in Working /\ work[r].run # i
    BY <1>8, HandsOf DEF Publish, At, Working, OwnsRun
  <2> QED BY <1>8, <2>1 DEF Publish
<1> QED BY <1>1, <1>2, <1>3, <1>5, <1>6, <1>7, <1>8
        DEF Begin, Prepare, Score, CopyHealthy, Written, Cancel, Crash

\* What is published, or failed, is never changed again (complete_run, fail_run and
\* add_item of radar/store.py act on open runs only).
THEOREM ClosedSnapshotsStay == RefreshConstants /\ Spec => [][ClosedRunsStay]_vars
<1> SUFFICES ASSUME RefreshConstants PROVE Spec => [][ClosedRunsStay]_vars
  OBVIOUS
<1>1. Init => RefreshInv
  BY RefreshInvInit
<1>2. RefreshInv /\ [Next]_vars => RefreshInv'
  BY RefreshStep
<1>3. RefreshInv /\ [Next]_vars => [ClosedRunsStay]_vars
  BY StepKeepsClosed
<1> QED BY <1>1, <1>2, <1>3, PTL DEF Spec

-----------------------------------------------------------------------------
\* The number of runs, counting those that are about to be created, is bounded.
Creating == {q \in Refreshers : At(q, "create")}
RunsFit == Len(runs) + Cardinality(Creating) <= MaxRuns

LEMMA CreatingCount ==
    ASSUME RefreshConstants
    PROVE  /\ IsFiniteSet(Creating) /\ Cardinality(Creating) \in Nat
           /\ IsFiniteSet(Creating') /\ Cardinality(Creating') \in Nat
           /\ Creating' \subseteq Creating => Cardinality(Creating') <= Cardinality(Creating)
<1>1. Creating \subseteq Refreshers /\ Creating' \subseteq Refreshers
  BY DEF Creating
<1>2. IsFiniteSet(Creating) /\ IsFiniteSet(Creating')
  BY <1>1, FS_Subset DEF RefreshConstants
<1> QED BY <1>2, FS_CardinalityType, FS_Subset

LEMMA RunsFitKept ==
    ASSUME RefreshConstants, RefreshInv, RunsFit, NEW r \in Refreshers, NEW v, Go(r, v), v.pc # "create",
           Len(runs') = Len(runs)
    PROVE  RunsFit'
<1>1. Creating' \subseteq Creating
  BY DEF Creating, At, Go, RefreshInv, RefreshTypes
<1>2. Len(runs) \in Nat
  BY RunRows DEF RefreshInv
<1> QED BY <1>1, <1>2, CreatingCount DEF RunsFit, RefreshConstants

LEMMA RunsFitStep == RefreshConstants /\ RefreshInv /\ RunsFit /\ [Next]_vars => RunsFit'
<1> SUFFICES ASSUME RefreshConstants, RefreshInv, RunsFit, [Next]_vars PROVE RunsFit'
  OBVIOUS
<1>0. runs \in Seq(Rows) /\ work \in [Refreshers -> Hands] /\ Len(runs) \in Nat
  BY RunRows DEF RefreshInv, RefreshTypes
<1>1. CASE UNCHANGED <<runs, work>>
  BY <1>1 DEF RunsFit, Creating, At
<1>2. CASE Next
  <2>1. PICK r \in Refreshers :
            \/ \E d \in Dates : Begin(r, d)
            \/ Create(r) \/ Prepare(r) \/ Score(r) \/ NonePrepared(r) \/ Cancelled(r) \/ Raise(r)
            \/ AddFresh(r) \/ CopyHealthy(r) \/ AddStale(r) \/ Written(r) \/ Publish(r)
            \/ Cancel(r) \/ Crash(r)
    BY <1>2 DEF Next
  <2>2. CASE \E d \in Dates : Begin(r, d)
    <3>1. PICK v : Go(r, v)
      BY <2>2 DEF Begin
    <3>2. UNCHANGED runs /\ Len(runs) + Cardinality(Creating) < MaxRuns /\ r \notin Creating
      BY <2>2 DEF Begin, Creating, At
    <3>3. Creating' \subseteq Creating \union {r}
      BY <1>0, <3>1 DEF Creating, At, Go
    <3>4. Cardinality(Creating \union {r}) = Cardinality(Creating) + 1 /\ IsFiniteSet(Creating \union {r})
      BY <3>2, CreatingCount, FS_AddElement
    <3>5. Cardinality(Creating') <= Cardinality(Creating) + 1
      BY <3>3, <3>4, FS_Subset
    <3> QED BY <1>0, <3>2, <3>5, CreatingCount DEF RunsFit, RefreshConstants
  <2>3. CASE Create(r)
    <3>1. PICK x : runs' = Append(runs, x)
      BY <2>3 DEF Create
    <3>2. PICK v : Go(r, v) /\ v.pc = "prepare"
      <4>1. PICK v : v = [work[r] EXCEPT !.pc = "prepare", !.run = Len(runs'), !.left = Members[work[r].date]]
        OBVIOUS
      <4>2. v.pc = "prepare"
        BY <4>1, HandsOf DEF Hands
      <4> QED BY <4>1, <4>2, <2>3 DEF Create
    <3>3. Len(runs') = Len(runs) + 1
      BY <1>0, <3>1
    <3>4. r \in Creating /\ Creating' \subseteq Creating \ {r}
      BY <1>0, <2>3, <3>2 DEF Creating, At, Go, Create
    <3>5. Cardinality(Creating \ {r}) = Cardinality(Creating) - 1 /\ IsFiniteSet(Creating \ {r})
      BY <3>4, CreatingCount, FS_RemoveElement
    <3>6. Cardinality(Creating') <= Cardinality(Creating) - 1
      BY <3>4, <3>5, FS_Subset
    <3> QED BY <1>0, <3>3, <3>6, CreatingCount DEF RunsFit, RefreshConstants
  <2>4. CASE Cancel(r)
    BY <1>1, <2>4 DEF Cancel
  <2>5. CASE Crash(r)
    BY <2>5, RunsFitKept DEF Crash, Idle
  <2>6. ASSUME FailRun(r) PROVE RunsFit'
    <3>1. Len(runs') = Len(runs)
      BY <1>0, <2>6 DEF FailRun
    <3> QED BY <3>1, <2>6, RunsFitKept DEF FailRun, Idle
  <2>7. CASE NonePrepared(r) \/ Cancelled(r) \/ Raise(r)
    BY <2>6, <2>7 DEF NonePrepared, Cancelled, Raise
  <2>8. CASE Publish(r)
    <3>1. Len(runs') = Len(runs)
      BY <1>0, <2>8 DEF Publish
    <3> QED BY <3>1, <2>8, RunsFitKept DEF Publish, Idle
  <2>9. CASE Prepare(r) \/ Score(r) \/ Written(r) \/ CopyHealthy(r) \/ AddFresh(r) \/ AddStale(r)
    <3>1. PICK v : Go(r, v) /\ v.pc # "create"
      <4>0. work[r] \in Hands
        BY HandsOf
      <4>1. CASE Prepare(r)
        <5>1. PICK i, g : Go(r, [work[r] EXCEPT !.left = @ \ {i}, !.got = g])
          BY <4>1 DEF Prepare
        <5>2. PICK v : v = [work[r] EXCEPT !.left = @ \ {i}, !.got = g]
          OBVIOUS
        <5>3. v.pc = "prepare"
          BY <4>0, <4>1, <5>2 DEF Hands, Prepare, At
        <5> QED BY <5>1, <5>2, <5>3
      <4>2. CASE Score(r)
        <5>1. PICK v : v = [work[r] EXCEPT !.pc = "items", !.left = Members[work[r].date]]
          OBVIOUS
        <5>2. v.pc = "items"
          BY <4>0, <5>1 DEF Hands
        <5> QED BY <4>2, <5>1, <5>2 DEF Score
      <4>3. CASE Written(r)
        <5>1. PICK v : v = [work[r] EXCEPT !.pc = "publish"]
          OBVIOUS
        <5>2. v.pc = "publish"
          BY <4>0, <5>1 DEF Hands
        <5> QED BY <4>3, <5>1, <5>2 DEF Written
      <4>4. CASE CopyHealthy(r)
        <5>1. PICK v : v = [work[r] EXCEPT !.pc = "add", !.copied = Healthy(Next1(r))]
          OBVIOUS
        <5>2. v.pc = "add"
          BY <4>0, <5>1 DEF Hands
        <5> QED BY <4>4, <5>1, <5>2 DEF CopyHealthy
      <4>5. CASE AddFresh(r)
        <5>1. PICK v : v = [work[r] EXCEPT !.left = @ \ {Next1(r)}]
          OBVIOUS
        <5>2. v.pc = "items"
          BY <4>0, <4>5, <5>1 DEF Hands, AddFresh, At
        <5> QED BY <4>5, <5>1, <5>2 DEF AddFresh
      <4>6. CASE AddStale(r)
        <5>1. PICK v : v = [work[r] EXCEPT !.pc = "items", !.left = @ \ {Next1(r)}, !.copied = None]
          OBVIOUS
        <5>2. v.pc = "items"
          BY <4>0, <5>1 DEF Hands
        <5> QED BY <4>6, <5>1, <5>2 DEF AddStale
      <4> QED BY <2>9, <4>1, <4>2, <4>3, <4>4, <4>5, <4>6
    <3>2. UNCHANGED runs \/ \E j, x : runs' = [runs EXCEPT ![j] = x]
      BY <2>9 DEF Prepare, Score, Written, CopyHealthy, AddFresh, AddStale, Add
    <3>3. Len(runs') = Len(runs)
      BY <1>0, <3>2
    <3> QED BY <3>1, <3>3, RunsFitKept
  <2> QED BY <2>1, <2>2, <2>3, <2>4, <2>5, <2>7, <2>8, <2>9
<1> QED BY <1>1, <1>2 DEF vars

LEMMA TypesFollow == RefreshConstants /\ RefreshInv /\ RunsFit => RefreshTypeOK
<1> SUFFICES ASSUME RefreshConstants, RefreshInv, RunsFit PROVE RefreshTypeOK
  OBVIOUS
<1>1. Len(runs) <= MaxRuns /\ Len(runs) \in Nat /\ MaxRuns \in Nat /\ DOMAIN runs = 1..Len(runs)
  BY RunRows, CreatingCount DEF RunsFit, RefreshConstants, RefreshInv
<1>2. Cardinality(Completed) <= MaxRuns /\ Cardinality(Completed) \in Nat /\ Stamp <= MaxRuns + 1
  <2>1. Completed \subseteq 1..Len(runs)
    BY <1>1 DEF Completed
  <2>2. IsFiniteSet(1..Len(runs)) /\ Cardinality(1..Len(runs)) = Len(runs)
    <3>1. PICK n \in Nat : n = Len(runs)
      BY <1>1
    <3>2. IsFiniteSet(1..n) /\ Cardinality(1..n) = IF 1 > n THEN 0 ELSE n - 1 + 1
      BY FS_Interval
    <3> QED BY <3>1, <3>2
  <2>3. Cardinality(Completed) <= Len(runs) /\ Cardinality(Completed) \in Nat
    BY <2>1, <2>2, FS_Subset, CompletedCount DEF RefreshInv
  <2> QED BY <2>3, <1>1 DEF Stamp
<1>3. \A k \in Completed : k \in 1..MaxRuns
  BY <1>1 DEF Completed
<1>4. ASSUME NEW i \in DOMAIN runs
      PROVE  /\ runs[i].date \in Dates /\ runs[i].status \in {"running", "completed", "failed"}
             /\ {runs[i].done, runs[i].began} \subseteq 0 .. MaxRuns + 1
             /\ runs[i].replaces \in 1 .. MaxRuns \union {None}
             /\ DOMAIN runs[i].items \subseteq Symbols
             /\ \A s \in DOMAIN runs[i].items : runs[i].items[s] \in Items
  <2>1. runs[i] \in Rows /\ RowFits(i) /\ runs[i].began <= Stamp /\ i \in 1..MaxRuns
    BY <1>1, RunRows DEF RefreshInv, ClocksGo
  <2>2. runs[i].done \in 0..MaxRuns + 1
    <3>1. runs[i].done \in Nat
      BY <2>1 DEF Rows
    <3>2. CASE i \in Completed
      BY <3>1, <3>2, <1>1, <1>2 DEF RefreshInv, ClocksGo
    <3>3. CASE i \notin Completed
      BY <3>3, <2>1, <1>1 DEF RowFits
    <3> QED BY <3>2, <3>3
  <2>3. runs[i].began \in 0..MaxRuns + 1
    <3>1. runs[i].began \in Nat /\ Stamp \in Nat
      BY <2>1, <1>2 DEF Rows, Stamp
    <3> QED BY <3>1, <2>1, <1>1, <1>2
  <2>4. runs[i].replaces \in 1 .. MaxRuns \union {None}
    BY <2>1, <1>3 DEF RowFits, SameDay
  <2>5. PICK S \in SUBSET Symbols : runs[i].items \in [S -> ItemRecords]
    BY <2>1 DEF Rows, Tables, ItemRecords
  <2>6. ASSUME NEW s \in DOMAIN runs[i].items PROVE runs[i].items[s] \in Items
    <3>1. PICK item : item = runs[i].items[s]
      OBVIOUS
    <3>2. item \in ItemRecords /\ ItemFits(i, s)
      BY <2>1, <2>5, <2>6, <3>1 DEF RowFits
    <3>3. item.status = "fresh" \/ item.status = "stale" \/ item.status = "failed"
      BY <3>2 DEF ItemRecords
    <3>4. item.source \in 1..MaxRuns \union {None}
      BY <3>1, <3>2, <3>3, <1>3, <2>1 DEF ItemFits, CopyOf
    <3>5. item = [status |-> item.status, source |-> item.source] /\ item.status \in {"fresh", "stale", "failed"}
      BY <3>2 DEF ItemRecords
    <3>6. item \in Items
      BY <3>4, <3>5 DEF Items
    <3> QED BY <3>1, <3>6
  <2> QED BY <2>1, <2>2, <2>3, <2>4, <2>5, <2>6 DEF Rows
<1> QED BY <1>4 DEF RefreshTypeOK, RefreshInv, RefreshTypes

\* Runs, items and their sources keep to their domains.
THEOREM RefreshTypesHold == RefreshConstants /\ Spec => []RefreshTypeOK
<1> SUFFICES ASSUME RefreshConstants PROVE Spec => []RefreshTypeOK
  OBVIOUS
<1>1. Init => RefreshInv /\ RunsFit
  <2>1. Init => Creating = {} /\ Len(runs) = 0
    BY DEF Init, Creating, At, Idle
  <2>2. Init => RunsFit
    BY <2>1, FS_EmptySet DEF RunsFit, RefreshConstants
  <2> QED BY <2>2, RefreshInvInit
<1>2. RefreshInv /\ RunsFit /\ [Next]_vars => RefreshInv' /\ RunsFit'
  BY RefreshStep, RunsFitStep
<1>3. RefreshInv /\ RunsFit => RefreshTypeOK
  BY TypesFollow
<1> QED BY <1>1, <1>2, <1>3, PTL DEF Spec

-----------------------------------------------------------------------------
(* CollectorStartup.  What a migration has seen of an older version covers  *)
(* what is still there of it, or it has an error to tell (Sees): entries    *)
(* and processes only ever go (OnlyLess), and a process past its hook or in *)
(* it is the one that holds the lock (LockFits).                            *)

CONSTANTS Old, Fresh, Pages, Installed
VARIABLES task, launcher, marker, running, lock, serving, login, mig, web

Startup == INSTANCE CollectorStartup

\* Processes and the page are told apart, and no process was of both kinds.
StartupConstants ==
    /\ Pages \subseteq {"web"} /\ "web" \notin Startup!Pids /\ Old \intersect Fresh = {}
    /\ None \notin Startup!Pids \union {"old", "other", "collect", "daemon"}
    /\ \A left \in Installed : /\ left.task \in {"none", "on", "off", "other"}
                               /\ left.launcher \in {"none", "ours", "edited"} /\ left.marker \in BOOLEAN

Migrations ==
    [pc : {"idle", "task", "launcher", "list", "mark", "disable", "unlink", "stop", "finish", "done"},
     matched : SUBSET {"task", "launcher"}, rows : SUBSET Startup!Pids, active : SUBSET Startup!Pids,
     unlisted : BOOLEAN, errors : BOOLEAN, unsafe : BOOLEAN, pending : BOOLEAN]

NoneOld == \A p \in Startup!Pids : running[p] # "old"

\* What a migration has seen covers what is still there, or it has an error to tell.
Listed(m) == /\ m.active # {} \/ m.unlisted => m.errors
             /\ \A p \in Startup!Pids : running[p] = "old" => p \in m.rows \union m.active \/ m.unlisted
Sees(m) ==
    /\ m.pc \in {"task", "launcher", "list"} => ~m.unlisted
    /\ m.pc \in {"mark", "disable", "unlink", "stop"} => Listed(m)
    /\ m.pc \in {"launcher", "list", "mark", "disable"} /\ task = "on" => "task" \in m.matched \/ m.errors
    /\ m.pc \in {"unlink", "stop"} /\ task = "on" => m.errors
    /\ m.pc \in {"list", "mark", "disable", "unlink"} /\ launcher = "ours" => "launcher" \in m.matched \/ m.errors
    /\ m.pc = "stop" /\ launcher = "ours" => m.errors
    /\ m.pc = "finish" => /\ ~m.errors /\ m.active = {} /\ ~m.unlisted
                          /\ task # "on" /\ launcher # "ours" /\ NoneOld
    /\ m.pc = "done" => /\ ~m.pending => task # "on" /\ launcher # "ours" /\ NoneOld
                        /\ ~m.unsafe => NoneOld

StartupTypes ==
    /\ mig \in [Startup!Actors -> Migrations]
    /\ running \in [Startup!Pids -> {None, "old", "other", "collect", "daemon"}]
    /\ \A p \in Fresh : running[p] # "old"

\* The lock is of a process that runs; who is in the hook or past it holds it.
LockFits ==
    /\ lock \in Fresh \union {None} /\ (lock # None => running[lock] # None)
    /\ serving \subseteq Fresh /\ (serving # {} => serving = {lock} /\ NoneOld)
    /\ \A p \in Fresh : mig[p].pc # "idle" => lock = p

EntriesFit ==
    /\ task \in {"none", "on", "off", "other"} /\ launcher \in {"none", "ours", "edited"}
    /\ marker \in BOOLEAN /\ login \in {"none", "on", "off"}

StartupInv == StartupTypes /\ LockFits /\ EntriesFit /\ \A a \in Startup!Actors : Sees(mig[a])

LEMMA StartupInit == StartupConstants /\ Startup!Init => StartupInv
  BY DEF StartupConstants, Startup!Init, StartupInv, StartupTypes, LockFits, EntriesFit, Sees, Listed, Migrations,
         Startup!Idle, Startup!Actors, Startup!Pids

\* Nothing comes back that a migration looks for.
OnlyLess ==
    /\ task' = "on" => task = "on"
    /\ launcher' = "ours" => launcher = "ours"
    /\ \A p \in Startup!Pids : running'[p] = "old" => running[p] = "old"

LEMMA SeesStays ==
    ASSUME OnlyLess, NEW a \in Startup!Actors, Sees(mig[a]), mig'[a] = mig[a]
    PROVE  Sees(mig[a])'
  BY DEF OnlyLess, Sees, Listed, NoneOld

LEMMA IdleSees == Sees(Startup!Idle)'
  BY DEF Sees, Startup!Idle

\* A step of a migration changes its own record, and no process.
LEMMA GoKeeps ==
    ASSUME StartupConstants, StartupInv, NEW a \in Startup!Actors, NEW m \in Migrations, Startup!Go(a, m), m.pc # "idle",
           mig[a].pc # "idle", OnlyLess, UNCHANGED Startup!processes, UNCHANGED login,
           EntriesFit', Sees(m)'
    PROVE  StartupInv'
<1>1. mig' \in [Startup!Actors -> Migrations] /\ mig'[a] = m /\ \A b \in Startup!Actors \ {a} : mig'[b] = mig[b]
  BY DEF Startup!Go, StartupInv, StartupTypes
<1>2. \A b \in Startup!Actors : Sees(mig[b])'
  BY <1>1, SeesStays DEF StartupInv
<1>3. StartupTypes'
  BY <1>1 DEF StartupInv, StartupTypes, Startup!processes
<1>4. LockFits'
  BY <1>1 DEF StartupInv, LockFits, Startup!processes, Startup!Actors, NoneOld
<1> QED BY <1>2, <1>3, <1>4 DEF StartupInv

LEMMA MigrationKeeps ==
    ASSUME StartupConstants, StartupInv, NEW a \in Startup!Actors, Startup!Migration(a), ~Startup!StopOne(a)
    PROVE  StartupInv'
<1> USE DEF Startup!At
<1>0. mig[a] \in Migrations /\ Sees(mig[a]) /\ EntriesFit
  BY DEF StartupInv, StartupTypes
<1>1. CASE Startup!QueryTask(a)
  <2>1. PICK fails \in BOOLEAN :
          Startup!Go(a, [mig[a] EXCEPT !.pc = "launcher", !.errors = fails,
                     !.matched = IF ~fails /\ task \in {"on", "off"} THEN {"task"} ELSE {}])
    BY <1>1 DEF Startup!QueryTask
  <2>2. PICK m : m = [mig[a] EXCEPT !.pc = "launcher", !.errors = fails,
                     !.matched = IF ~fails /\ task \in {"on", "off"} THEN {"task"} ELSE {}]
    OBVIOUS
  <2>3. m \in Migrations /\ m.pc = "launcher" /\ m.unlisted = mig[a].unlisted /\ (m.errors \/ (task = "on" => "task" \in m.matched))
    BY <1>0, <2>2 DEF Migrations
  <2>4. UNCHANGED <<Startup!entries, Startup!processes, login>> /\ mig[a].pc = "task"
    BY <1>1 DEF Startup!QueryTask
  <2>5. Sees(m)'
    BY <1>0, <2>3, <2>4 DEF Sees, Startup!entries
  <2> QED BY <2>1, <2>2, <2>3, <2>4, <2>5, <1>0, GoKeeps DEF Startup!entries, Startup!processes, OnlyLess, EntriesFit
<1>2. CASE Startup!QueryLauncher(a)
  <2>1. PICK fails \in BOOLEAN :
          Startup!Go(a, [mig[a] EXCEPT !.pc = "list", !.errors = mig[a].errors \/ fails,
                     !.matched = IF ~fails /\ launcher = "ours" THEN mig[a].matched \union {"launcher"} ELSE mig[a].matched])
    BY <1>2, <1>0 DEF Startup!QueryLauncher, Migrations
  <2>2. PICK m : m = [mig[a] EXCEPT !.pc = "list", !.errors = mig[a].errors \/ fails,
                     !.matched = IF ~fails /\ launcher = "ours" THEN mig[a].matched \union {"launcher"} ELSE mig[a].matched]
    OBVIOUS
  <2>3. /\ m \in Migrations /\ m.pc = "list" /\ (m.errors \/ (launcher = "ours" => "launcher" \in m.matched))
        /\ m.unlisted = mig[a].unlisted /\ mig[a].matched \subseteq m.matched /\ (mig[a].errors => m.errors)
    BY <1>0, <2>2 DEF Migrations
  <2>4. UNCHANGED <<Startup!entries, Startup!processes, login>> /\ mig[a].pc = "launcher"
    BY <1>2 DEF Startup!QueryLauncher
  <2>5. Sees(m)'
    BY <1>0, <2>3, <2>4 DEF Sees, Startup!entries
  <2> QED BY <2>1, <2>2, <2>3, <2>4, <2>5, <1>0, GoKeeps DEF Startup!entries, Startup!processes, OnlyLess, EntriesFit
<1>3. CASE Startup!ListProcesses(a)
  <2>1. PICK m : /\ Startup!Go(a, m) /\ m \in Migrations /\ m.pc = "mark" /\ Listed(m)
                 /\ m.matched = mig[a].matched /\ (mig[a].errors => m.errors)
    <3>1. CASE Startup!Go(a, [mig[a] EXCEPT !.pc = "mark", !.errors = TRUE, !.unlisted = TRUE])
      <4>1. PICK m : m = [mig[a] EXCEPT !.pc = "mark", !.errors = TRUE, !.unlisted = TRUE]
        OBVIOUS
      <4>2. m \in Migrations /\ m.pc = "mark" /\ m.matched = mig[a].matched /\ m.errors /\ m.unlisted
        BY <4>1, <1>0 DEF Migrations
      <4> QED BY <3>1, <4>1, <4>2 DEF Listed
    <3>2. ASSUME NEW unknown \in SUBSET {p \in Startup!Pids : Startup!Legacy(p)},
             Startup!Go(a, [mig[a] EXCEPT !.pc = "mark", !.errors = mig[a].errors \/ unknown # {}, !.active = unknown,
                        !.rows = {p \in Startup!Pids \ unknown : Startup!Ours(p)}])
          PROVE \E m : /\ Startup!Go(a, m) /\ m \in Migrations /\ m.pc = "mark" /\ Listed(m)
                       /\ m.matched = mig[a].matched /\ (mig[a].errors => m.errors)
      <4>1. PICK m : m = [mig[a] EXCEPT !.pc = "mark", !.errors = mig[a].errors \/ unknown # {}, !.active = unknown,
                        !.rows = {p \in Startup!Pids \ unknown : Startup!Ours(p)}]
        OBVIOUS
      <4>2. m \in Migrations /\ m.pc = "mark" /\ m.matched = mig[a].matched /\ (mig[a].errors => m.errors)
        BY <4>1, <1>0 DEF Migrations
      <4>3. m.active = unknown /\ m.rows = {p \in Startup!Pids \ unknown : Startup!Ours(p)} /\ m.errors = (mig[a].errors \/ unknown # {})
            /\ m.unlisted = mig[a].unlisted
        BY <4>1, <1>0 DEF Migrations
      <4> QED BY <3>2, <4>1, <4>2, <4>3, <1>0, <1>3 DEF Listed, Startup!Ours, Sees, Startup!ListProcesses
    <3> QED BY <1>3, <1>0, <3>1, <3>2 DEF Startup!ListProcesses, Migrations
  <2>2. UNCHANGED <<Startup!entries, Startup!processes, login>> /\ mig[a].pc = "list"
    BY <1>3 DEF Startup!ListProcesses
  <2>3. Sees(m)'
    BY <1>0, <2>1, <2>2 DEF Sees, Listed, Startup!entries, Startup!processes
  <2> QED BY <2>1, <2>2, <2>3, <1>0, GoKeeps DEF Startup!entries, Startup!processes, OnlyLess, EntriesFit
<1>4. CASE Startup!Mark(a)
  <2>1. mig[a].pc = "mark" /\ UNCHANGED <<task, launcher, Startup!processes, login>> /\ Listed(mig[a])
    BY <1>4, <1>0 DEF Startup!Mark, Sees
  <2>2. CASE ~Startup!Needed(mig[a]) /\ Startup!Go(a, [mig[a] EXCEPT !.pc = "finish"]) /\ UNCHANGED marker
    <3>1. PICK m : m = [mig[a] EXCEPT !.pc = "finish"]
      OBVIOUS
    <3>2. m \in Migrations /\ m.pc = "finish" /\ ~m.errors /\ m.active = {} /\ ~m.unlisted
          /\ NoneOld /\ task # "on" /\ launcher # "ours"
      BY <1>0, <2>1, <2>2, <3>1 DEF Migrations, Startup!Needed, Listed, NoneOld, Sees
    <3>3. Sees(m)'
      BY <3>2, <2>1 DEF Sees, NoneOld, Startup!processes
    <3> QED BY <2>1, <2>2, <3>1, <3>2, <3>3, <1>0, GoKeeps DEF Startup!processes, OnlyLess, EntriesFit
  <2>3. CASE marker' = TRUE /\ Startup!Go(a, [mig[a] EXCEPT !.pc = "disable"])
    <3>1. PICK m : m = [mig[a] EXCEPT !.pc = "disable"]
      OBVIOUS
    <3>2. /\ m \in Migrations /\ m.pc = "disable" /\ m.errors = mig[a].errors /\ m.active = mig[a].active
          /\ m.rows = mig[a].rows /\ m.unlisted = mig[a].unlisted /\ m.matched = mig[a].matched
      BY <1>0, <3>1 DEF Migrations
    <3>3. Sees(m)'
      BY <3>2, <2>1, <1>0 DEF Sees, Listed, Startup!processes
    <3> QED BY <2>1, <2>3, <3>1, <3>2, <3>3, <1>0, GoKeeps DEF Startup!processes, OnlyLess, EntriesFit
  <2>4. CASE /\ UNCHANGED marker
             /\ Startup!Go(a, [mig[a] EXCEPT !.pc = "done", !.errors = TRUE, !.pending = TRUE, !.active = mig[a].active \union mig[a].rows,
                           !.unsafe = mig[a].matched # {} \/ mig[a].active \union mig[a].rows # {} \/ mig[a].unlisted])
    <3>1. PICK m : m = [mig[a] EXCEPT !.pc = "done", !.errors = TRUE, !.pending = TRUE, !.active = mig[a].active \union mig[a].rows,
                           !.unsafe = mig[a].matched # {} \/ mig[a].active \union mig[a].rows # {} \/ mig[a].unlisted]
      OBVIOUS
    <3>2. /\ m \in Migrations /\ m.pc = "done" /\ m.pending
          /\ (~m.unsafe => mig[a].active = {} /\ mig[a].rows = {} /\ ~mig[a].unlisted)
      BY <1>0, <3>1 DEF Migrations
    <3>3. Sees(m)'
      BY <3>2, <2>1, <1>0 DEF Sees, Listed, NoneOld, Startup!processes
    <3> QED BY <2>1, <2>4, <3>1, <3>2, <3>3, <1>0, GoKeeps DEF Startup!processes, OnlyLess, EntriesFit
  <2> QED BY <1>4, <2>2, <2>3, <2>4 DEF Startup!Mark
<1>5. CASE Startup!DisableTask(a)
  <2>1. PICK fails \in BOOLEAN :
          /\ fails => "task" \in mig[a].matched
          /\ task' = IF "task" \in mig[a].matched /\ ~fails THEN "off" ELSE task
          /\ Startup!Go(a, [mig[a] EXCEPT !.pc = "unlink", !.errors = mig[a].errors \/ fails])
    BY <1>5, <1>0 DEF Startup!DisableTask, Migrations
  <2>2. PICK m : m = [mig[a] EXCEPT !.pc = "unlink", !.errors = mig[a].errors \/ fails]
    OBVIOUS
  <2>3. /\ m \in Migrations /\ m.pc = "unlink" /\ m.errors = (mig[a].errors \/ fails) /\ m.active = mig[a].active
        /\ m.rows = mig[a].rows /\ m.unlisted = mig[a].unlisted /\ m.matched = mig[a].matched
    BY <1>0, <2>2 DEF Migrations
  <2>4. UNCHANGED <<launcher, marker, Startup!processes, login>> /\ mig[a].pc = "disable"
    BY <1>5 DEF Startup!DisableTask
  <2>5. Sees(m)'
    BY <2>1, <2>3, <2>4, <1>0 DEF Sees, Listed, Startup!processes
  <2> QED BY <2>1, <2>2, <2>3, <2>4, <2>5, <1>0, GoKeeps DEF Startup!processes, OnlyLess, EntriesFit
<1>6. CASE Startup!Unlink(a)
  <2>1. PICK fails \in BOOLEAN :
          /\ fails => "launcher" \in mig[a].matched
          /\ launcher' = IF "launcher" \in mig[a].matched /\ ~fails THEN "none" ELSE launcher
          /\ Startup!Go(a, [mig[a] EXCEPT !.pc = "stop", !.errors = mig[a].errors \/ fails])
    BY <1>6, <1>0 DEF Startup!Unlink, Migrations
  <2>2. PICK m : m = [mig[a] EXCEPT !.pc = "stop", !.errors = mig[a].errors \/ fails]
    OBVIOUS
  <2>3. /\ m \in Migrations /\ m.pc = "stop" /\ m.errors = (mig[a].errors \/ fails) /\ m.active = mig[a].active
        /\ m.rows = mig[a].rows /\ m.unlisted = mig[a].unlisted /\ m.matched = mig[a].matched
    BY <1>0, <2>2 DEF Migrations
  <2>4. UNCHANGED <<task, marker, Startup!processes, login>> /\ mig[a].pc = "unlink"
    BY <1>6 DEF Startup!Unlink
  <2>5. Sees(m)'
    BY <2>1, <2>3, <2>4, <1>0 DEF Sees, Listed, Startup!processes
  <2> QED BY <2>1, <2>2, <2>3, <2>4, <2>5, <1>0, GoKeeps DEF Startup!processes, OnlyLess, EntriesFit
<1>7. CASE Startup!Finish(a)
  <2>1. Startup!Go(a, [mig[a] EXCEPT !.pc = "done", !.unsafe = Startup!Unsafe(mig[a]), !.pending = mig[a].errors])
    BY <1>7 DEF Startup!Finish
  <2>2. PICK m : m = [mig[a] EXCEPT !.pc = "done", !.unsafe = Startup!Unsafe(mig[a]), !.pending = mig[a].errors]
    OBVIOUS
  <2>3. m \in Migrations /\ m.pc = "done" /\ m.pending = mig[a].errors /\ m.unsafe = Startup!Unsafe(mig[a])
    BY <1>0, <2>2 DEF Migrations, Startup!Unsafe
  <2>4. /\ UNCHANGED <<Startup!entries, Startup!processes, login>>
        /\ \/ mig[a].pc = "stop" /\ mig[a].rows = {}
           \/ mig[a].pc = "finish"
    BY <1>7 DEF Startup!Finish
  <2>5. Sees(m)'
    BY <2>3, <2>4, <1>0 DEF Sees, Listed, NoneOld, Startup!Unsafe, Startup!entries, Startup!processes
  <2> QED BY <2>1, <2>2, <2>3, <2>4, <2>5, <1>0, GoKeeps DEF Startup!entries, Startup!processes, OnlyLess, EntriesFit
<1> QED BY <1>1, <1>2, <1>3, <1>4, <1>5, <1>6, <1>7 DEF Startup!Migration

\* A process ends: the lock is free when it was its own, and its migration is over.
LEMMA LeavesKeeps ==
    ASSUME StartupConstants, StartupInv, NEW p \in Startup!Pids, Startup!Left(p),
           mig' \in [Startup!Actors -> Migrations], p \in Startup!Actors => mig'[p].pc = "idle",
           \A b \in Fresh \ {p} : mig[b].pc = "idle" => mig'[b].pc = "idle",
           \A b \in Startup!Actors : Sees(mig[b])', EntriesFit'
    PROVE  StartupInv'
<1>1. running' \in [Startup!Pids -> {None, "old", "other", "collect", "daemon"}] /\ running'[p] = None
      /\ \A q \in Startup!Pids \ {p} : running'[q] = running[q]
  BY DEF Startup!Left, StartupInv, StartupTypes
<1>2. StartupTypes'
  BY <1>1 DEF StartupInv, StartupTypes, Startup!Pids, StartupConstants
<1>3. LockFits'
  BY <1>1 DEF Startup!Left, StartupInv, LockFits, Startup!Pids, NoneOld, StartupConstants, Startup!Actors
<1> QED BY <1>2, <1>3 DEF StartupInv

LEMMA StopKeeps ==
    ASSUME StartupConstants, StartupInv, NEW a \in Startup!Actors, Startup!StopOne(a)
    PROVE  StartupInv'
<1>1. PICK p : p = CHOOSE q \in mig[a].rows : TRUE
  OBVIOUS
<1>2. PICK rest : rest = [mig[a] EXCEPT !.rows = mig[a].rows \ {p}]
  OBVIOUS
<1>0. mig[a] \in Migrations /\ Sees(mig[a]) /\ EntriesFit /\ mig[a].pc = "stop" /\ mig[a].rows # {}
  BY DEF StartupInv, StartupTypes, Startup!StopOne, Startup!At
<1>3. p \in mig[a].rows /\ p \in Startup!Pids /\ UNCHANGED <<Startup!entries, login>>
  BY <1>0, <1>1 DEF Startup!StopOne, Migrations
<1>4. /\ rest \in Migrations /\ rest.pc = "stop" /\ rest.rows = mig[a].rows \ {p} /\ rest.active = mig[a].active
      /\ rest.errors = mig[a].errors /\ rest.unlisted = mig[a].unlisted
  BY <1>0, <1>2 DEF Migrations
<1>5. CASE Startup!Left(p) /\ mig' = [b \in Startup!Actors |-> IF b = p THEN Startup!Idle ELSE IF b = a THEN rest ELSE mig[b]]
  <2>1. mig' \in [Startup!Actors -> Migrations]
    BY <1>4, <1>5 DEF StartupInv, StartupTypes, Startup!Idle, Migrations
  <2>2. OnlyLess /\ running'[p] = None
    BY <1>3, <1>5 DEF Startup!entries, OnlyLess, Startup!Left, StartupInv, StartupTypes, StartupConstants
  <2>3. Sees(rest)'
    BY <1>0, <1>3, <1>4, <2>2 DEF Sees, Listed, OnlyLess, StartupConstants, Startup!entries
  <2>4. ASSUME NEW b \in Startup!Actors PROVE Sees(mig[b])'
    BY <1>5, <2>2, <2>3, SeesStays, IdleSees DEF StartupInv
  <2> QED BY <1>0, <1>3, <1>4, <1>5, <2>1, <2>4, LeavesKeeps DEF Startup!Idle, EntriesFit, Startup!entries, Startup!Actors
<1>6. CASE Startup!Go(a, [rest EXCEPT !.errors = TRUE, !.active = rest.active \union {p}]) /\ UNCHANGED Startup!processes
  <2>1. PICK m : m = [rest EXCEPT !.errors = TRUE, !.active = rest.active \union {p}]
    OBVIOUS
  <2>2. /\ m \in Migrations /\ m.pc = "stop" /\ m.rows = mig[a].rows \ {p} /\ m.active = mig[a].active \union {p}
        /\ m.errors /\ m.unlisted = mig[a].unlisted
    BY <1>3, <1>4, <2>1 DEF Migrations
  <2>3. Sees(m)'
    BY <1>0, <1>3, <1>6, <2>2 DEF Sees, Listed, Startup!entries, Startup!processes
  <2> QED BY <1>0, <1>3, <1>6, <2>1, <2>2, <2>3, GoKeeps DEF Startup!entries, Startup!processes, OnlyLess, EntriesFit
<1>7. [rest EXCEPT !.errors = TRUE, !.active = @ \union {p}] = [rest EXCEPT !.errors = TRUE, !.active = rest.active \union {p}]
  BY <1>4 DEF Migrations
<1> QED BY <1>1, <1>2, <1>5, <1>6, <1>7 DEF Startup!StopOne

LEMMA ServiceKeeps ==
    ASSUME StartupConstants, StartupInv, NEW p \in Fresh,
           Startup!StartCollect(p) \/ Startup!StartDaemon(p) \/ Startup!Serve(p) \/ Startup!Hooked(p)
    PROVE  StartupInv'
<1>0. p \in Startup!Pids /\ p \in Startup!Actors /\ UNCHANGED <<Startup!entries, login>> /\ EntriesFit' /\ mig[p] \in Migrations
  BY DEF Startup!StartCollect, Startup!StartDaemon, Startup!Serve, Startup!Hooked, Startup!Pids, Startup!Actors,
         StartupInv, StartupTypes, EntriesFit, Startup!entries
<1>1. CASE Startup!StartCollect(p) \/ Startup!StartDaemon(p)
  <2>1. PICK kind \in {"collect", "daemon"} : running' = [running EXCEPT ![p] = kind]
    BY <1>1 DEF Startup!StartCollect, Startup!StartDaemon
  <2>2. UNCHANGED <<lock, serving, mig>> /\ running[p] = None
    BY <1>1 DEF Startup!StartCollect, Startup!StartDaemon
  <2>3. StartupTypes' /\ OnlyLess
    BY <1>0, <2>1, <2>2 DEF StartupInv, StartupTypes, OnlyLess, Startup!entries
  <2>4. LockFits'
    BY <1>0, <2>1, <2>2, <2>3 DEF StartupInv, StartupTypes, LockFits, NoneOld, OnlyLess, StartupConstants, Startup!Pids
  <2> QED BY <1>0, <2>2, <2>3, <2>4, SeesStays DEF StartupInv
<1>2. CASE Startup!Serve(p) /\ lock = None
  <2>1. lock' = p /\ Startup!Go(p, [Startup!Idle EXCEPT !.pc = "task"]) /\ UNCHANGED <<running, serving>> /\ running[p] # None
    BY <1>2 DEF Startup!Serve
  <2>2. PICK m : m = [Startup!Idle EXCEPT !.pc = "task"]
    OBVIOUS
  <2>3. m \in Migrations /\ m.pc = "task" /\ ~m.unlisted
    BY <2>2 DEF Startup!Idle, Migrations
  <2>4. Sees(m)' /\ OnlyLess
    BY <1>0, <2>1, <2>3 DEF Sees, OnlyLess, Startup!entries
  <2>5. mig' \in [Startup!Actors -> Migrations] /\ mig'[p] = m /\ \A b \in Startup!Actors \ {p} : mig'[b] = mig[b]
    BY <1>0, <2>1, <2>2, <2>3 DEF Startup!Go, StartupInv, StartupTypes
  <2>6. serving = {} /\ \A q \in Fresh : mig[q].pc = "idle"
    BY <1>2 DEF StartupInv, LockFits, StartupConstants, Startup!Pids
  <2>7. StartupTypes' /\ LockFits'
    BY <1>0, <2>1, <2>5, <2>6 DEF StartupInv, StartupTypes, LockFits, Startup!Actors
  <2> QED BY <1>0, <2>4, <2>5, <2>7, SeesStays DEF StartupInv
<1>3. CASE Startup!Serve(p) /\ lock # None
  <2>1. Startup!Left(p) /\ UNCHANGED mig /\ mig[p].pc = "idle"
    BY <1>3 DEF Startup!Serve, Startup!At
  <2>2. OnlyLess
    BY <1>0, <2>1 DEF OnlyLess, Startup!Left, StartupInv, StartupTypes, StartupConstants, Startup!entries
  <2>3. \A b \in Startup!Actors : Sees(mig[b])'
    BY <2>1, <2>2, SeesStays DEF StartupInv
  <2> QED BY <1>0, <2>1, <2>3, LeavesKeeps DEF StartupInv, StartupTypes
<1>4. CASE Startup!Hooked(p)
  <2>1. mig[p].pc = "done" /\ mig' = [mig EXCEPT ![p] = Startup!Idle] /\ lock = p
    BY <1>4, <1>0 DEF Startup!Hooked, Startup!At, Startup!Go, StartupInv, LockFits
  <2>2. mig' \in [Startup!Actors -> Migrations] /\ mig'[p] = Startup!Idle /\ \A b \in Startup!Actors \ {p} : mig'[b] = mig[b]
    BY <1>0, <2>1 DEF StartupInv, StartupTypes, Migrations, Startup!Idle
  <2>3. OnlyLess
    BY <1>0, <1>4 DEF Startup!Hooked, OnlyLess, Startup!Left, StartupInv, StartupTypes, StartupConstants, Startup!entries
  <2>4. \A b \in Startup!Actors : Sees(mig[b])'
    BY <2>2, <2>3, SeesStays, IdleSees DEF StartupInv
  <2>5. CASE mig[p].unsafe
    BY <1>0, <1>4, <2>2, <2>4, <2>5, LeavesKeeps DEF Startup!Hooked, Startup!Idle, Startup!Actors
  <2>6. CASE ~mig[p].unsafe
    <3>1. NoneOld
      BY <1>0, <2>1, <2>6 DEF StartupInv, Sees
    <3>2. serving' = serving \union {p} /\ UNCHANGED <<running, lock>>
      BY <1>4, <2>6 DEF Startup!Hooked
    <3>3. StartupTypes' /\ LockFits'
      BY <1>0, <2>1, <2>2, <3>1, <3>2 DEF StartupInv, StartupTypes, LockFits, NoneOld, Startup!Idle, Startup!Actors
    <3> QED BY <1>0, <2>4, <3>3 DEF StartupInv
  <2> QED BY <2>5, <2>6
<1> QED BY <1>1, <1>2, <1>3, <1>4

LEMMA ExitKeeps == ASSUME StartupConstants, StartupInv, NEW p \in Startup!Pids, Startup!Exit(p) PROVE StartupInv'
<1>1. /\ Startup!Left(p) /\ UNCHANGED <<Startup!entries, login>> /\ EntriesFit'
      /\ mig' = [b \in Startup!Actors |-> IF b = p THEN Startup!Idle ELSE mig[b]]
  BY DEF Startup!Exit, StartupInv, EntriesFit, Startup!entries
<1>2. OnlyLess
  BY <1>1 DEF OnlyLess, Startup!Left, StartupInv, StartupTypes, StartupConstants, Startup!entries
<1>3. mig' \in [Startup!Actors -> Migrations]
  BY <1>1 DEF StartupInv, StartupTypes, Migrations, Startup!Idle
<1>4. ASSUME NEW b \in Startup!Actors PROVE Sees(mig[b])'
  BY <1>1, <1>2, SeesStays, IdleSees DEF StartupInv
<1> QED BY <1>1, <1>3, <1>4, LeavesKeeps DEF Startup!Idle, Startup!Actors

\* The page has a migration of its own and no process.
LEMMA PageKeeps ==
    ASSUME StartupConstants, StartupInv, Startup!SwitchOn \/ Startup!Enable \/ Startup!Answered \/ Startup!SwitchOff \/ Startup!Again
    PROVE  StartupInv'
<1>1. UNCHANGED <<Startup!entries, Startup!processes>> /\ OnlyLess /\ EntriesFit'
  BY DEF Startup!SwitchOn, Startup!Enable, Startup!Answered, Startup!SwitchOff, Startup!Again, Startup!entries,
         Startup!processes, OnlyLess, StartupInv, EntriesFit
<1>2. CASE UNCHANGED mig
  BY <1>1, <1>2, SeesStays DEF StartupInv, StartupTypes, LockFits, NoneOld, Startup!processes
<1>3. ASSUME NEW m \in Migrations, Startup!Go("web", m), Sees(m)' PROVE StartupInv'
  <2>1. /\ mig' \in [Startup!Actors -> Migrations]
        /\ \A b \in Startup!Actors : mig'[b] = mig[b] \/ (mig'[b] = m /\ b = "web")
    BY <1>3 DEF Startup!Go, StartupInv, StartupTypes
  <2>2. \A b \in Startup!Actors : Sees(mig[b])'
    BY <1>1, <1>3, <2>1, SeesStays DEF StartupInv
  <2>3. StartupTypes' /\ LockFits'
    BY <1>1, <2>1 DEF StartupInv, StartupTypes, LockFits, NoneOld, Startup!processes, StartupConstants, Startup!Pids,
                      Startup!Actors
  <2> QED BY <1>1, <2>2, <2>3 DEF StartupInv
<1>4. CASE Startup!SwitchOn
  <2>1. PICK m : m = [Startup!Idle EXCEPT !.pc = "task"]
    OBVIOUS
  <2>2. m \in Migrations /\ Sees(m)'
    BY <2>1 DEF Startup!Idle, Migrations, Sees
  <2> QED BY <1>4, <2>1, <2>2, <1>3 DEF Startup!SwitchOn
<1>5. CASE Startup!Enable
  <2>1. Startup!Idle \in Migrations
    BY DEF Startup!Idle, Migrations
  <2> QED BY <1>5, <2>1, <1>3, IdleSees DEF Startup!Enable
<1> QED BY <1>2, <1>4, <1>5 DEF Startup!Answered, Startup!SwitchOff, Startup!Again

LEMMA StartupStep == StartupConstants /\ StartupInv /\ [Startup!Next]_Startup!vars => StartupInv'
<1> SUFFICES ASSUME StartupConstants, StartupInv, [Startup!Next]_Startup!vars PROVE StartupInv'
  OBVIOUS
<1>1. CASE UNCHANGED Startup!vars
  BY <1>1 DEF Startup!vars, StartupInv, StartupTypes, LockFits, EntriesFit, NoneOld, Sees, Listed
<1> QED BY <1>1, MigrationKeeps, StopKeeps, ServiceKeeps, ExitKeeps, PageKeeps DEF Startup!Next, Startup!Migration

\* A service past its startup hook works alone: it holds the lock, and no process of an
\* older version collects beside it; and a migration that reports nothing pending has
\* left no entry that starts one (migrate_legacy, serve), for any processes, whichever
\* of its steps fails, and whoever ends, starts or migrates beside it.
THEOREM StartsAreClean == StartupConstants /\ Startup!Spec => [](Startup!StartupTypeOK /\ Startup!NoOldCollectorBeside /\ Startup!CleanMeansClean)
<1> SUFFICES ASSUME StartupConstants PROVE Startup!Spec => [](Startup!StartupTypeOK /\ Startup!NoOldCollectorBeside /\ Startup!CleanMeansClean)
  OBVIOUS
<1>1. Startup!Init => StartupInv
  BY StartupInit
<1>2. StartupInv /\ [Startup!Next]_Startup!vars => StartupInv'
  BY StartupStep
<1>3. StartupInv => Startup!StartupTypeOK /\ Startup!NoOldCollectorBeside /\ Startup!CleanMeansClean
  <2> SUFFICES ASSUME StartupInv PROVE Startup!StartupTypeOK /\ Startup!NoOldCollectorBeside /\ Startup!CleanMeansClean
    OBVIOUS
  <2>1. Startup!StartupTypeOK
    BY DEF StartupInv, StartupTypes, LockFits, EntriesFit, Startup!StartupTypeOK, Startup!Pids
  <2>2. Startup!NoOldCollectorBeside
    BY DEF StartupInv, LockFits, Startup!NoOldCollectorBeside, NoneOld, Startup!Pids, StartupConstants
  <2>3. Startup!CleanMeansClean
    BY DEF StartupInv, Startup!CleanMeansClean, NoneOld, Sees, Startup!At, Startup!Pids
  <2> QED BY <2>1, <2>2, <2>3
<1> QED BY <1>1, <1>2, <1>3, PTL DEF Startup!Spec

-----------------------------------------------------------------------------
(* TradingCalendar.  What is cached or held was published as a whole: every *)
(* trading day up to the last it has (Whole).  So an answer about days that *)
(* it reaches is the answer over all trading days (AnswerTrue).             *)

CONSTANTS Writers, Readers, Trading, LastDay, Ahead, MaxAsks
VARIABLES tick, cache, retry, ask, asks

Cal == INSTANCE TradingCalendar

\* Days are numbers, and a day may be known some days early or late.
CalendarConstants ==
    /\ Trading \subseteq Nat /\ LastDay \in Nat \ {0} /\ Ahead \subseteq Int /\ MaxAsks \in Nat

LEMMA GreatestOf ==
  ASSUME NEW T, NEW b \in Int, T \subseteq Nat, T # {}, \A x \in T : x <= b
  PROVE  \E x \in T : \A y \in T : y <= x
<1> DEFINE D == {b - x : x \in T}
<1>1. D \subseteq Nat /\ D # {}
  <2>1. \A x \in T : x \in Nat /\ b - x \in Nat
    OBVIOUS
  <2> QED BY <2>1
<1>2. PICK d \in D : \A e \in D : d <= e
  BY <1>1, LeastOf
<1>3. PICK x \in T : d = b - x
  BY <1>2
<1>4. ASSUME NEW y \in T PROVE y <= x
  <2>1. d <= b - y
    BY <1>2
  <2> QED BY <2>1, <1>3
<1> QED BY <1>4

\* What is stored was published as a whole: every trading day up to the last it has.
Whole(data) ==
    /\ data.days \subseteq Trading /\ data.last \in data.days /\ data.first \in data.days
    /\ data.first <= data.last /\ data.at \in Nat
    /\ \A d \in Trading : d <= data.last => d \in data.days

Kinds == {"next", "closed", "open", "range"}
AskPlaces == {"idle", "read", "refresh", "store", "answer", "done"}
SaysTrue(a) == a.answer # None =>
             a.answer = CASE a.kind = "range" -> {d \in Trading : a.from <= d /\ d <= a.to}
                          [] a.kind = "next" -> Cal!Least(Cal!Coming([days |-> Trading], a.at))
                          [] OTHER -> Cal!Most(Cal!Eligible([days |-> Trading], a.at))

\* An instance in the middle of a question keeps what it was asked.
AskFits(a) ==
    /\ DOMAIN a = DOMAIN Cal!Idle /\ a.pc \in AskPlaces /\ a.at \in Nat /\ {a.from, a.to} \subseteq 0 .. LastDay
    /\ a.data # None => Whole(a.data)
    /\ a.pc \in {"read", "refresh", "store", "answer"} =>
          /\ a.kind \in Kinds /\ a.from \in Nat \ {0} /\ (a.kind # "range" => a.from = a.to)
    /\ a.pc = "store" => a.at <= tick
    /\ IF a.pc = "done" THEN SaysTrue(a) ELSE a.answer = None

CalendarInv ==
    /\ tick \in Nat /\ Cal!Day(tick) <= LastDay /\ asks \in 0 .. MaxAsks /\ retry \in [Writers -> Nat]
    /\ cache # None => Whole(cache)
    /\ DOMAIN ask = Cal!Instances /\ \A i \in Cal!Instances : AskFits(ask[i])

LEMMA CalendarInit == CalendarConstants /\ Cal!Init => CalendarInv
  BY DEF CalendarConstants, Cal!Init, CalendarInv, AskFits, Cal!Idle, AskPlaces, Cal!Day, Cal!TicksADay

LEMMA PublishedWhole ==
    ASSUME CalendarConstants, NEW t \in Nat, NEW u \in Nat, NEW ahead \in Ahead, Cal!Published(t, ahead) # {}
    PROVE  Whole(Cal!Calendar(Cal!Published(t, ahead), u))
<1>1. PICK days : days = Cal!Published(t, ahead)
  OBVIOUS
<1>2. PICK b \in Int : b = Cal!Day(t) + ahead
  BY DEF CalendarConstants, Cal!Day, Cal!TicksADay
<1>3. days = {d \in Trading : d <= b} /\ days \subseteq Nat /\ days # {} /\ \A d \in days : d <= b
  BY <1>1, <1>2 DEF Cal!Published, CalendarConstants
<1>4. Cal!Min(days) \in days /\ \A d \in days : Cal!Min(days) <= d
  BY <1>3, LeastOf DEF Cal!Min
<1>5. Cal!Max(days) \in days /\ \A d \in days : d <= Cal!Max(days)
  <2>1. PICK x \in days : \A y \in days : x >= y
    BY <1>3, GreatestOf
  <2>2. Cal!Max(days) \in days /\ \A y \in days : Cal!Max(days) >= y
    BY <2>1 DEF Cal!Max
  <2> QED BY <1>3, <2>2
<1>6. PICK c : c = Cal!Calendar(days, u)
  OBVIOUS
<1>7. c.days = days /\ c.first = Cal!Min(days) /\ c.last = Cal!Max(days) /\ c.at = u
  BY <1>6 DEF Cal!Calendar
<1>8. Whole(c)
  <2>1. c.days \subseteq Trading /\ c.last \in c.days /\ c.first \in c.days /\ c.at \in Nat
    BY <1>3, <1>4, <1>5, <1>7
  <2>2. c.first <= c.last
    BY <1>4, <1>5, <1>7
  <2>3. ASSUME NEW d \in Trading, d <= c.last PROVE d \in c.days
    <3>1. d \in Int /\ c.last \in Int /\ c.last <= b
      BY <1>3, <1>5, <1>7 DEF CalendarConstants
    <3>2. d <= b
      BY <3>1, <2>3
    <3> QED BY <3>2, <1>3, <1>7
  <2> QED BY <2>1, <2>2, <2>3 DEF Whole
<1> QED BY <1>1, <1>6, <1>8 DEF Cal!Calendar

\* The answer over what is stored is the answer over all trading days, where it reaches.
LEMMA AnswerTrue ==
    ASSUME CalendarConstants, NEW data, Whole(data), NEW from \in Nat \ {0}, from <= data.last, NEW t \in Nat, NEW kind
    PROVE  /\ \A to \in Nat : to <= data.last =>
                 {d \in data.days : from <= d /\ d <= to} = {d \in Trading : from <= d /\ d <= to}
           /\ t = Cal!TicksADay * (from - 1) => Cal!Least(Cal!Coming(data, t)) = Cal!Least(Cal!Coming([days |-> Trading], t))
           /\ t \in {Cal!TicksADay * (from - 1), Cal!TicksADay * (from - 1) + 1} =>
                 Cal!Most(Cal!Eligible(data, t)) = Cal!Most(Cal!Eligible([days |-> Trading], t))
<1>1. /\ data.days \subseteq Trading /\ Trading \subseteq Nat /\ data.last \in Nat /\ data.last \in data.days
      /\ \A d \in Trading : d \in Nat /\ (d <= data.last => d \in data.days)
  BY DEF CalendarConstants, Whole
<1>2. ASSUME NEW to \in Nat, to <= data.last
      PROVE  {d \in data.days : from <= d /\ d <= to} = {d \in Trading : from <= d /\ d <= to}
  <2>1. \A d \in Trading : d <= to => d \in data.days
    BY <1>1, <1>2
  <2> QED BY <1>1, <2>1, Zenon
<1>3. ASSUME t = Cal!TicksADay * (from - 1) PROVE Cal!Least(Cal!Coming(data, t)) = Cal!Least(Cal!Coming([days |-> Trading], t))
  <2>1. Cal!Day(t) = from /\ ~Cal!Closed(t)
    BY <1>3 DEF Cal!Day, Cal!Closed, Cal!TicksADay
  <2>2. PICK C : C = Cal!Coming(data, t)
    OBVIOUS
  <2>3. PICK W : W = Cal!Coming([days |-> Trading], t)
    OBVIOUS
  <2>4. C = {d \in data.days : d >= from} /\ W = {d \in Trading : d >= from}
    <3>1. \A d \in Trading : d >= from <=> (d > from \/ d = from)
      BY <1>1
    <3>2. C = {d \in data.days : d > from \/ d = from} /\ W = {d \in Trading : d > from \/ d = from}
      BY <2>1, <2>2, <2>3, Zenon DEF Cal!Coming
    <3> QED BY <1>1, <3>1, <3>2, Zenon
  <2>5. /\ C \subseteq Nat /\ W \subseteq Nat /\ data.last \in C /\ C \subseteq W
        /\ \A d \in W : d \in Nat /\ (d <= data.last => d \in C)
    BY <1>1, <2>4
  <2>6. PICK x \in C : \A y \in C : x <= y
    BY <2>5, LeastOf
  <2>7. ASSUME NEW y \in W PROVE x <= y
    <3>1. x \in Nat /\ y \in Nat /\ data.last \in Nat /\ x <= data.last
      BY <2>5, <2>6
    <3> QED BY <3>1, <2>5, <2>6
  <2>8. Cal!Min(C) \in C /\ \A y \in C : Cal!Min(C) <= y
    BY <2>6 DEF Cal!Min
  <2>9. Cal!Min(W) \in W /\ \A y \in W : Cal!Min(W) <= y
    <3>1. x \in W /\ \A y \in W : x <= y
      BY <2>5, <2>7
    <3> QED BY <3>1 DEF Cal!Min
  <2>10. Cal!Min(C) = Cal!Min(W)
    <3>1. Cal!Min(C) \in Nat /\ Cal!Min(W) \in Nat /\ Cal!Min(W) <= Cal!Min(C) /\ x \in Nat /\ Cal!Min(C) <= x
      BY <2>5, <2>6, <2>8, <2>9
    <3>2. x <= Cal!Min(W)
      BY <2>7, <2>9
    <3> QED BY <3>1, <3>2
  <2>11. C # {} /\ W # {}
    BY <2>5
  <2> QED BY <2>2, <2>3, <2>10, <2>11 DEF Cal!Least
<1>4. ASSUME t \in {Cal!TicksADay * (from - 1), Cal!TicksADay * (from - 1) + 1}
      PROVE  Cal!Eligible(data, t) = Cal!Eligible([days |-> Trading], t)
  <2>1. Cal!Day(t) = from
    BY <1>4 DEF Cal!Day, Cal!TicksADay
  <2>2. \A d \in Trading : d < from \/ d = from => d \in data.days
    <3>1. from \in Nat /\ data.last \in Nat /\ from <= data.last
      BY <1>1
    <3>2. \A d \in Trading : d \in Nat /\ (d <= data.last => d \in data.days)
      BY <1>1
    <3> QED BY <3>1, <3>2
  <2> QED BY <1>1, <2>1, <2>2, Zenon DEF Cal!Eligible
<1> QED BY <1>2, <1>3, <1>4

\* A step of one instance leaves what the others hold as it is.
LEMMA AskStep ==
    ASSUME CalendarInv, NEW i \in Cal!Instances, NEW a, Cal!Go(i, a), AskFits(a),
           UNCHANGED <<tick, asks>>, retry' \in [Writers -> Nat], cache' # None => Whole(cache')
    PROVE  CalendarInv'
<1>1. DOMAIN ask' = Cal!Instances /\ ask'[i] = a /\ \A j \in Cal!Instances \ {i} : ask'[j] = ask[j]
  BY DEF Cal!Go, CalendarInv
<1>2. \A j \in Cal!Instances : AskFits(ask'[j])
  BY <1>1 DEF CalendarInv
<1>3. \A j \in Cal!Instances : AskFits(ask[j])'
  BY <1>2 DEF AskFits
<1>4. cache' # None => Whole(cache)'
  BY DEF Whole
<1> QED BY <1>1, <1>3, <1>4 DEF CalendarInv, Cal!Day

LEMMA AskKeeps ==
    ASSUME CalendarConstants, CalendarInv, NEW i \in Cal!Instances, NEW kind \in Kinds, NEW from \in Nat \ {0}, NEW to \in Nat,
           from <= LastDay, to <= LastDay, kind # "range" => from = to, Cal!Ask(i, kind, from, to)
    PROVE  CalendarInv'
<1>1. PICK a : a = [Cal!Idle EXCEPT !.pc = "read", !.kind = kind, !.at = tick, !.from = from, !.to = to]
  OBVIOUS
<1>2. /\ DOMAIN a = DOMAIN Cal!Idle /\ a.pc = "read" /\ a.kind = kind /\ a.at = tick /\ a.from = from /\ a.to = to
      /\ a.data = None /\ ~a.valid /\ a.answer = None
  BY <1>1 DEF Cal!Idle
<1>3. AskFits(a)
  BY <1>2 DEF AskFits, AskPlaces, CalendarInv, CalendarConstants
<1>4. DOMAIN ask' = Cal!Instances /\ ask'[i] = a /\ \A j \in Cal!Instances \ {i} : ask'[j] = ask[j]
  BY <1>1 DEF Cal!Ask, Cal!Go, CalendarInv
<1>5. \A j \in Cal!Instances : AskFits(ask'[j])
  BY <1>3, <1>4 DEF CalendarInv
<1>6. UNCHANGED <<tick, cache, retry>> /\ asks' \in 0 .. MaxAsks
  BY DEF Cal!Ask, CalendarInv, CalendarConstants
<1>7. \A j \in Cal!Instances : AskFits(ask[j])'
  BY <1>5, <1>6 DEF AskFits
<1> QED BY <1>4, <1>6, <1>7 DEF CalendarInv, Cal!Day, Whole

LEMMA ReadKeeps == ASSUME CalendarConstants, CalendarInv, NEW i \in Cal!Instances, Cal!Read(i) PROVE CalendarInv'
<1>1. PICK data \in {cache, None} :
          Cal!Go(i, [ask[i] EXCEPT !.data = data, !.valid = Cal!Inside(data, ask[i].from, ask[i].to),
                             !.pc = IF ~Cal!Inside(data, ask[i].from, ask[i].to) \/ (Cal!IsStale(data, tick) /\ i \in Writers)
                                    THEN "refresh" ELSE "answer"])
  BY DEF Cal!Read
<1>2. PICK pc \in {"refresh", "answer"} :
         pc = IF ~Cal!Inside(data, ask[i].from, ask[i].to) \/ (Cal!IsStale(data, tick) /\ i \in Writers)
                                    THEN "refresh" ELSE "answer"
  OBVIOUS
<1>3. PICK valid : valid = Cal!Inside(data, ask[i].from, ask[i].to)
  OBVIOUS
<1>4. PICK a : a = [ask[i] EXCEPT !.data = data, !.valid = valid, !.pc = pc]
  OBVIOUS
<1>5. AskFits(ask[i]) /\ ask[i].pc = "read"
  BY DEF CalendarInv, Cal!Read, Cal!At
<1>6. DOMAIN a = DOMAIN Cal!Idle /\ a.pc = pc /\ a.data = data /\ a.kind = ask[i].kind /\ a.from = ask[i].from /\ a.to = ask[i].to
      /\ a.at = ask[i].at /\ a.answer = ask[i].answer
  BY <1>4, <1>5 DEF AskFits, Cal!Idle
<1>7. AskFits(a)
  BY <1>5, <1>6 DEF AskFits, CalendarInv, AskPlaces
<1> QED BY <1>1, <1>2, <1>3, <1>4, <1>7, AskStep DEF CalendarInv, Cal!Read

\* A refresh that fails or is not tried leaves what was read, or nothing.
LEMMA RefusedKeeps ==
    ASSUME CalendarConstants, CalendarInv, NEW i \in Cal!Instances, Cal!Refuse(i) \/ (i \in Writers /\ Cal!Fail(i))
    PROVE  CalendarInv'
<1>1. AskFits(ask[i]) /\ ask[i].pc \in {"refresh", "store"}
  BY DEF CalendarInv, Cal!Refuse, Cal!Fail, Cal!At
<1>2. PICK pc \in {"answer", "done"} : pc = IF ask[i].valid THEN "answer" ELSE "done"
  OBVIOUS
<1>3. PICK data \in {ask[i].data, None} : data = IF ask[i].valid THEN ask[i].data ELSE None
  OBVIOUS
<1>4. PICK a : a = [ask[i] EXCEPT !.pc = pc, !.data = data]
  OBVIOUS
<1>5. Cal!Go(i, a)
  BY <1>1, <1>2, <1>3, <1>4 DEF Cal!Refuse, Cal!Fail, AskFits, Cal!Idle
<1>6. DOMAIN a = DOMAIN Cal!Idle /\ a.pc = pc /\ a.data = data /\ a.kind = ask[i].kind /\ a.from = ask[i].from /\ a.to = ask[i].to
      /\ a.at = ask[i].at /\ a.answer = ask[i].answer
  BY <1>1, <1>4 DEF AskFits, Cal!Idle
<1>7. AskFits(a)
  BY <1>1, <1>6 DEF AskFits, CalendarInv, AskPlaces, SaysTrue
<1>8. retry' \in [Writers -> Nat] /\ UNCHANGED <<tick, cache, asks>>
  BY <1>1 DEF Cal!Refuse, Cal!Fail, CalendarInv, Cal!NextTry, AskFits
<1> QED BY <1>5, <1>7, <1>8, AskStep DEF CalendarInv

LEMMA DownloadKeeps ==
    ASSUME CalendarConstants, CalendarInv, NEW i \in Writers, Cal!Download(i)
    PROVE  CalendarInv'
<1>1. i \in Cal!Instances /\ AskFits(ask[i]) /\ ask[i].pc = "refresh"
  BY DEF CalendarInv, Cal!Download, Cal!At, Cal!Instances
<1>2. PICK a : a = [ask[i] EXCEPT !.pc = "store", !.at = tick]
  OBVIOUS
<1>3. DOMAIN a = DOMAIN Cal!Idle /\ a.pc = "store" /\ a.data = ask[i].data /\ a.kind = ask[i].kind /\ a.from = ask[i].from
      /\ a.to = ask[i].to /\ a.at = tick /\ a.answer = ask[i].answer
  BY <1>1, <1>2 DEF AskFits, Cal!Idle
<1>4. AskFits(a)
  BY <1>1, <1>3 DEF AskFits, CalendarInv, AskPlaces
<1> QED BY <1>1, <1>2, <1>4, AskStep DEF CalendarInv, Cal!Download

LEMMA StoreKeeps ==
    ASSUME CalendarConstants, CalendarInv, NEW i \in Writers, Cal!Store(i)
    PROVE  CalendarInv'
<1>1. i \in Cal!Instances /\ AskFits(ask[i]) /\ ask[i].pc = "store"
  BY DEF CalendarInv, Cal!Store, Cal!At, Cal!Instances
<1>2. PICK ahead \in Ahead :
          /\ Cal!Published(ask[i].at, ahead) # {}
          /\ cache' = Cal!Calendar(Cal!Published(ask[i].at, ahead), tick)
          /\ Cal!Go(i, [ask[i] EXCEPT !.pc = "answer", !.data = Cal!Calendar(Cal!Published(ask[i].at, ahead), tick)])
  BY DEF Cal!Store
<1>3. PICK c : c = Cal!Calendar(Cal!Published(ask[i].at, ahead), tick)
  OBVIOUS
<1>4. Whole(c)
  BY <1>1, <1>2, <1>3, PublishedWhole DEF AskFits, CalendarInv
<1>5. PICK a : a = [ask[i] EXCEPT !.pc = "answer", !.data = c]
  OBVIOUS
<1>6. DOMAIN a = DOMAIN Cal!Idle /\ a.pc = "answer" /\ a.data = c /\ a.kind = ask[i].kind /\ a.from = ask[i].from
      /\ a.to = ask[i].to /\ a.at = ask[i].at /\ a.answer = ask[i].answer
  BY <1>1, <1>5 DEF AskFits, Cal!Idle
<1>7. AskFits(a)
  BY <1>1, <1>4, <1>6 DEF AskFits, AskPlaces
<1>8. retry' \in [Writers -> Nat] /\ UNCHANGED <<tick, asks>>
  BY <1>1 DEF Cal!Store, CalendarInv, Cal!NextTry, AskFits
<1> QED BY <1>1, <1>2, <1>3, <1>4, <1>5, <1>7, <1>8, AskStep

LEMMA AnswerKeeps ==
    ASSUME CalendarConstants, CalendarInv, NEW i \in Cal!Instances, Cal!Answer(i)
    PROVE  CalendarInv'
<1>1. AskFits(ask[i]) /\ ask[i].pc = "answer" /\ UNCHANGED <<tick, cache, retry, asks>>
  BY DEF CalendarInv, Cal!Answer, Cal!At
<1>2. PICK q : q = ask[i]
  OBVIOUS
<1>3. /\ q.kind \in Kinds /\ q.from \in Nat \ {0} /\ q.to \in Nat /\ (q.kind # "range" => q.from = q.to)
      /\ (q.data # None => Whole(q.data)) /\ {q.from, q.to} \subseteq 0 .. LastDay
  BY <1>1, <1>2 DEF AskFits, CalendarConstants
<1>4. PICK t \in Nat : t = Cal!TicksADay * (q.from - 1) + IF q.kind = "closed" THEN Cal!TicksADay - 1 ELSE 0
  BY <1>3 DEF Cal!TicksADay
<1>5. PICK said : said = IF ~Cal!Covered(q.data, q.from, q.to) THEN None
                              ELSE CASE q.kind = "range" -> {d \in q.data.days : q.from <= d /\ d <= q.to}
                                     [] q.kind = "next" -> Cal!Least(Cal!Coming(q.data, t))
                                     [] OTHER -> Cal!Most(Cal!Eligible(q.data, t))
  OBVIOUS
<1>6. PICK a : a = [Cal!Idle EXCEPT !.pc = "done", !.kind = q.kind, !.from = q.from, !.to = q.to, !.at = t, !.answer = said]
  OBVIOUS
<1>7. Cal!Go(i, a)
  BY <1>2, <1>4, <1>5, <1>6 DEF Cal!Answer
<1>8. DOMAIN a = DOMAIN Cal!Idle /\ a.pc = "done" /\ a.kind = q.kind /\ a.from = q.from /\ a.to = q.to /\ a.at = t
      /\ a.answer = said /\ a.data = None
  BY <1>6 DEF Cal!Idle
<1>9. SaysTrue(a)
  <2>1. CASE ~Cal!Covered(q.data, q.from, q.to)
    BY <2>1, <1>5, <1>8 DEF SaysTrue
  <2>2. CASE Cal!Covered(q.data, q.from, q.to)
    <3>1. Whole(q.data) /\ q.from <= q.data.last /\ q.to <= q.data.last
      <4>1. Whole(q.data) /\ q.from <= q.to /\ q.to <= q.data.last
        BY <1>3, <2>2 DEF Cal!Covered, Cal!Inside
      <4>2. q.data.last \in Nat
        BY <4>1 DEF Whole, CalendarConstants
      <4> QED BY <4>1, <4>2, <1>3
    <3>2. CASE q.kind = "range"
      <4>1. said = {d \in q.data.days : q.from <= d /\ d <= q.to}
        BY <1>5, <2>2, <3>2
      <4>2. said = {d \in Trading : q.from <= d /\ d <= q.to}
        BY <4>1, <3>1, <1>3, <1>4, AnswerTrue
      <4> QED BY <1>8, <3>2, <4>2 DEF SaysTrue
    <3>3. CASE q.kind = "next"
      <4>1. said = Cal!Least(Cal!Coming(q.data, t)) /\ t = Cal!TicksADay * (q.from - 1)
        BY <1>4, <1>5, <1>3, <2>2, <3>3 DEF Cal!TicksADay
      <4>2. said = Cal!Least(Cal!Coming([days |-> Trading], t))
        BY <4>1, <3>1, <1>3, <1>4, AnswerTrue
      <4> QED BY <1>8, <3>3, <4>2 DEF SaysTrue
    <3>4. CASE q.kind \in {"open", "closed"}
      <4>1. said = Cal!Most(Cal!Eligible(q.data, t)) /\ t \in {Cal!TicksADay * (q.from - 1), Cal!TicksADay * (q.from - 1) + 1}
        BY <1>4, <1>5, <1>3, <2>2, <3>4 DEF Cal!TicksADay
      <4>2. said = Cal!Most(Cal!Eligible([days |-> Trading], t))
        BY <4>1, <3>1, <1>3, <1>4, AnswerTrue
      <4> QED BY <1>8, <3>4, <4>2 DEF SaysTrue
    <3> QED BY <1>3, <3>2, <3>3, <3>4 DEF Kinds
  <2> QED BY <2>1, <2>2
<1>10. AskFits(a)
  BY <1>3, <1>8, <1>9 DEF AskFits, AskPlaces
<1> QED BY <1>1, <1>7, <1>10, AskStep DEF CalendarInv

LEMMA CalendarStep == CalendarConstants /\ CalendarInv /\ [Cal!Next]_Cal!vars => CalendarInv'
<1> SUFFICES ASSUME CalendarConstants, CalendarInv, [Cal!Next]_Cal!vars PROVE CalendarInv'
  OBVIOUS
<1>1. CASE UNCHANGED Cal!vars
  BY <1>1 DEF Cal!vars, CalendarInv, AskFits
<1>2. CASE Cal!Tick
  <2>1. tick' = tick + 1 /\ UNCHANGED <<cache, retry, ask, asks>> /\ Cal!Day(tick') <= LastDay
    BY <1>2 DEF Cal!Tick
  <2>2. tick' \in Nat /\ tick <= tick'
    BY <2>1 DEF CalendarInv
  <2>3. \A i \in Cal!Instances : AskFits(ask[i])'
    BY <2>1, <2>2 DEF CalendarInv, AskFits
  <2> QED BY <2>1, <2>2, <2>3 DEF CalendarInv, Cal!Day, Whole
<1>3. ASSUME NEW i \in Cal!Instances,
             \/ \E kind \in {"next", IF Cal!Closed(tick) THEN "closed" ELSE "open"} : Cal!Ask(i, kind, Cal!Today, Cal!Today)
             \/ \E from \in 1 .. Cal!Today : Cal!Ask(i, "range", from, Cal!Today)
      PROVE  CalendarInv'
  <2>1. Cal!Today \in Nat \ {0} /\ Cal!Today <= LastDay
    BY DEF Cal!Today, Cal!Day, Cal!TicksADay, CalendarInv
  <2>2. PICK kind \in Kinds, from \in 1 .. Cal!Today : (kind # "range" => from = Cal!Today) /\ Cal!Ask(i, kind, from, Cal!Today)
    BY <1>3, <2>1 DEF Kinds
  <2>3. from \in Nat \ {0} /\ from <= LastDay
    BY <2>1 DEF CalendarConstants
  <2> QED BY <2>1, <2>2, <2>3, AskKeeps
<1> QED
  BY <1>1, <1>2, <1>3, ReadKeeps, RefusedKeeps, AnswerKeeps, DownloadKeeps, StoreKeeps DEF Cal!Next, Cal!Instances

\* Whatever is downloaded, stored and read by whom and when, and whichever downloads fail:
\* what the calendar answers is what all trading days say, for the days of a range, the last
\* closed one and the next to come (trading_days, latest_completed, next_scheduled).
THEOREM CalendarIsTrue == CalendarConstants /\ Cal!Spec => [](Cal!CalendarTypeOK /\ Cal!AnswersAreTrue)
<1> SUFFICES ASSUME CalendarConstants PROVE Cal!Spec => [](Cal!CalendarTypeOK /\ Cal!AnswersAreTrue)
  OBVIOUS
<1>1. Cal!Init => CalendarInv
  BY CalendarInit
<1>2. CalendarInv /\ [Cal!Next]_Cal!vars => CalendarInv'
  BY CalendarStep
<1>3. CalendarInv => Cal!CalendarTypeOK /\ Cal!AnswersAreTrue
  <2> SUFFICES ASSUME CalendarInv PROVE Cal!CalendarTypeOK /\ Cal!AnswersAreTrue
    OBVIOUS
  <2>1. Cal!CalendarTypeOK
    BY DEF CalendarInv, Cal!CalendarTypeOK, Whole, AskFits, AskPlaces
  <2>2. Cal!AnswersAreTrue
    BY DEF CalendarInv, Cal!AnswersAreTrue, AskFits, SaysTrue, Cal!At
  <2> QED BY <2>1, <2>2
<1> QED BY <1>1, <1>2, <1>3, PTL DEF Cal!Spec

-----------------------------------------------------------------------------
(* OverseasIndex.  Only the refresh that runs writes, so what it has read is *)
(* still cached when it writes (JobFits), and a source that is cached is as   *)
(* the refreshes left it (CacheFits).                                         *)

CONSTANT Sources
VARIABLES cached, job, etf

Overseas == INSTANCE OverseasIndex

\* At least one source, and days to fetch.
OverseasConstants ==
    /\ Overseas!Numbers = 1 .. Len(Sources) /\ Len(Sources) \in Nat \ {0} /\ LastDay \in Nat \ {0}
    /\ None \notin Nat

\* A refresh that has read what it adds to holds what is cached: it writes alone.
JobFits ==
    /\ DOMAIN job = {"pc", "now", "cutoff", "n", "rows"}
    /\ job.pc \in {"idle", "read", "fetch"} /\ job.now \in Nat /\ job.now <= tick
    /\ job.pc # "idle" => job.n \in Overseas!Numbers
    /\ job.pc # "idle" => \A n \in Overseas!Numbers : cached[n].checked # None => cached[n].checked <= job.now
    /\ job.pc = "fetch" => job.rows = cached[job.n].rows

CacheFits(c, t) ==
    /\ c \in [Overseas!Numbers -> [rows : SUBSET Overseas!Days, checked : Nat \union {None}, error : BOOLEAN]]
    /\ \A n \in Overseas!Numbers : /\ c[n].rows # {} => c[n].checked \in Nat
                                   /\ \A d \in c[n].rows : Overseas!Close(d) <= c[n].checked
                                   /\ c[n].checked # None => c[n].checked <= t

OverseasInv ==
    /\ tick \in 2 .. 2 * LastDay + 1 /\ JobFits /\ CacheFits(cached, tick)
    /\ etf # None => etf.day \in Overseas!Days

LEMMA OverseasInit == OverseasConstants /\ Overseas!Init => OverseasInv
<1> SUFFICES ASSUME OverseasConstants, Overseas!Init PROVE OverseasInv
  OBVIOUS
<1>1. CacheFits(cached, tick)
  BY DEF Overseas!Init, CacheFits, Overseas!Missing, OverseasConstants
<1>2. tick \in 2 .. 2 * LastDay + 1
  BY DEF Overseas!Init, OverseasConstants
<1> QED BY <1>1, <1>2 DEF Overseas!Init, OverseasInv, JobFits

LEMMA OnwardFits ==
    ASSUME OverseasConstants, OverseasInv, job.pc = "fetch", Overseas!Onward, UNCHANGED tick,
           \A n \in Overseas!Numbers : cached'[n].checked # None => cached'[n].checked <= job.now
    PROVE  JobFits'
<1>1. Len(Sources) \in Nat /\ Overseas!Numbers = 1 .. Len(Sources)
  BY DEF OverseasConstants
<1>2. CASE job.n = Len(Sources)
  BY <1>2 DEF Overseas!Onward, OverseasInv, JobFits
<1>3. CASE job.n # Len(Sources)
  <2>1. job.n \in 1 .. Len(Sources) /\ job.n + 1 \in 1 .. Len(Sources)
    BY <1>1, <1>3 DEF OverseasInv, JobFits
  <2>2. job' = [job EXCEPT !.pc = "read", !.n = job.n + 1, !.rows = {}]
    BY <1>3 DEF Overseas!Onward, OverseasInv, JobFits
  <2>3. DOMAIN job' = {"pc", "now", "cutoff", "n", "rows"} /\ job'.pc = "read" /\ job'.n = job.n + 1 /\ job'.now = job.now
    BY <2>2 DEF OverseasInv, JobFits
  <2> QED BY <2>1, <2>3, <1>1 DEF OverseasInv, JobFits
<1> QED BY <1>2, <1>3

\* What a source keeps it had or got now, and that was over when it was asked.
LEMMA StoreFits ==
    ASSUME OverseasConstants, OverseasInv, job.pc = "fetch", NEW rows \in SUBSET Overseas!Days, NEW error \in BOOLEAN,
           Overseas!Store(job.n, rows, error), \A d \in rows : d \in job.rows \/ Overseas!Close(d) <= job.now
    PROVE  /\ CacheFits(cached', tick) /\ cached'[job.n].rows = rows
           /\ \A m \in Overseas!Numbers : cached'[m].checked # None => cached'[m].checked <= job.now
           /\ \A m \in Overseas!Numbers \ {job.n} : cached'[m] = cached[m]
<1>1. job.n \in Overseas!Numbers /\ job.now \in Nat /\ job.rows = cached[job.n].rows /\ job.now <= tick
  BY DEF OverseasInv, JobFits
<1>2. /\ cached' \in [Overseas!Numbers -> [rows : SUBSET Overseas!Days, checked : Nat \union {None}, error : BOOLEAN]]
      /\ cached'[job.n] = [rows |-> rows, checked |-> job.now, error |-> error]
      /\ \A m \in Overseas!Numbers \ {job.n} : cached'[m] = cached[m]
  BY <1>1 DEF Overseas!Store, OverseasInv, CacheFits
<1>3. ASSUME NEW d \in rows PROVE Overseas!Close(d) <= job.now
  <2>1. CASE d \in job.rows
    <3>1. cached[job.n].checked \in Nat /\ cached[job.n].checked <= job.now /\ Overseas!Close(d) <= cached[job.n].checked
      BY <2>1, <1>1 DEF OverseasInv, CacheFits, JobFits, OverseasConstants
    <3>2. Overseas!Close(d) \in Nat
      BY DEF Overseas!Close, Overseas!Days
    <3> QED BY <1>1, <3>1, <3>2
  <2> QED BY <2>1
<1>4. \A m \in Overseas!Numbers : cached'[m].checked # None => cached'[m].checked <= job.now
  BY <1>1, <1>2 DEF OverseasInv, JobFits
<1> QED BY <1>1, <1>2, <1>3, <1>4 DEF CacheFits, OverseasInv

LEMMA OverseasStep == OverseasConstants /\ OverseasInv /\ [Overseas!Next]_Overseas!vars => OverseasInv' /\ Overseas!ClosesAreKept
<1> SUFFICES ASSUME OverseasConstants, OverseasInv, [Overseas!Next]_Overseas!vars PROVE OverseasInv' /\ Overseas!ClosesAreKept
  OBVIOUS
<1>1. CASE UNCHANGED Overseas!vars
  BY <1>1 DEF Overseas!vars, OverseasInv, JobFits, CacheFits, Overseas!ClosesAreKept
<1>2. CASE Overseas!Begin
  <2>1. \A n \in Overseas!Numbers : cached[n].checked # None => cached[n].checked <= tick
    BY DEF OverseasInv, CacheFits
  <2>2. UNCHANGED <<tick, cached, etf>> /\ job'.pc = "read" /\ job'.now = tick /\ job'.n = 1
        /\ DOMAIN job' = {"pc", "now", "cutoff", "n", "rows"}
    BY <1>2 DEF Overseas!Begin
  <2>3. 1 \in Overseas!Numbers
    BY DEF OverseasConstants
  <2> QED BY <2>1, <2>2, <2>3 DEF OverseasInv, JobFits, CacheFits, Overseas!ClosesAreKept
<1>3. CASE Overseas!ReadCache
  <2>1. /\ UNCHANGED <<tick, cached, etf>> /\ job.pc = "read" /\ job'.pc = "fetch" /\ job'.now = job.now /\ job'.n = job.n
        /\ DOMAIN job' = {"pc", "now", "cutoff", "n", "rows"} /\ job'.rows = cached[job.n].rows
    BY <1>3 DEF Overseas!ReadCache, OverseasInv, JobFits
  <2> QED BY <2>1 DEF OverseasInv, JobFits, CacheFits, Overseas!ClosesAreKept
<1>4. ASSUME NEW rows \in SUBSET Overseas!Days, NEW error \in BOOLEAN, job.pc = "fetch", Overseas!Store(job.n, rows, error), UNCHANGED <<tick, etf>>,
             \A d \in rows : d \in job.rows \/ Overseas!Close(d) <= job.now, job.rows \subseteq rows,
             Overseas!Onward \/ job' = [job EXCEPT !.pc = "idle", !.rows = {}, !.cutoff = None]
      PROVE  OverseasInv' /\ Overseas!ClosesAreKept
  <2>0. /\ CacheFits(cached', tick) /\ cached'[job.n].rows = rows
        /\ \A m \in Overseas!Numbers : cached'[m].checked # None => cached'[m].checked <= job.now
        /\ \A m \in Overseas!Numbers \ {job.n} : cached'[m] = cached[m]
    BY <1>4, StoreFits
  <2>1. CacheFits(cached, tick)' /\ Overseas!ClosesAreKept
    <3>1. CacheFits(cached, tick)'
      BY <1>4, <2>0 DEF CacheFits
    <3>2. Overseas!ClosesAreKept
      BY <1>4, <2>0 DEF Overseas!ClosesAreKept, OverseasInv, JobFits
    <3> QED BY <3>1, <3>2
  <2>2. JobFits'
    <3>1. CASE Overseas!Onward
      BY <1>4, <2>0, <3>1, OnwardFits
    <3>2. CASE job' = [job EXCEPT !.pc = "idle", !.rows = {}, !.cutoff = None]
      BY <1>4, <2>0, <3>2 DEF OverseasInv, JobFits
    <3> QED BY <1>4, <3>1, <3>2
  <2> QED BY <1>4, <2>1, <2>2 DEF OverseasInv
<1>5. CASE Overseas!Refused
  <2>1. job.rows \in SUBSET Overseas!Days
    BY <1>5 DEF Overseas!Refused, OverseasInv, JobFits, CacheFits
  <2> QED BY <1>4, <1>5, <2>1 DEF Overseas!Refused
<1>6. CASE Overseas!Fetched
  <2>1. PICK offered \in SUBSET {d \in Overseas!Days : 2 * d <= tick} :
          LET new == {d \in offered : Overseas!Closed(d, job.now)}
              rows == job.rows \union new
          IN /\ Overseas!Store(job.n, rows, FALSE)
             /\ Overseas!Onward \/ job' = [job EXCEPT !.pc = "idle", !.rows = {}, !.cutoff = None]
    BY <1>6 DEF Overseas!Fetched
  <2>2. PICK rows : rows = job.rows \union {d \in offered : Overseas!Closed(d, job.now)}
    OBVIOUS
  <2>3. rows \in SUBSET Overseas!Days /\ job.rows \subseteq rows /\ \A d \in rows : d \in job.rows \/ Overseas!Close(d) <= job.now
    BY <1>6, <2>2 DEF Overseas!Fetched, OverseasInv, JobFits, CacheFits, Overseas!Closed
  <2> QED BY <1>4, <1>6, <2>1, <2>2, <2>3 DEF Overseas!Fetched
<1>7. CASE Overseas!Tick
  <2>1. tick \in Nat /\ tick' = tick + 1 /\ tick' \in 2 .. 2 * LastDay + 1 /\ UNCHANGED <<cached, job, etf>>
    BY <1>7 DEF Overseas!Tick, OverseasInv, OverseasConstants
  <2>2. \A x \in Nat : x <= tick => x <= tick'
    BY <2>1
  <2>3. CacheFits(cached, tick)'
    BY <2>1, <2>2 DEF OverseasInv, CacheFits
  <2> QED BY <2>1, <2>2, <2>3 DEF OverseasInv, JobFits, Overseas!ClosesAreKept
<1>8. CASE Overseas!Snapshot
  BY <1>8 DEF Overseas!Snapshot, OverseasInv, JobFits, CacheFits, Overseas!ClosesAreKept
<1>9. CASE Overseas!Crash
  BY <1>9 DEF Overseas!Crash, OverseasInv, JobFits, CacheFits, Overseas!ClosesAreKept
<1> QED BY <1>1, <1>2, <1>3, <1>5, <1>6, <1>7, <1>8, <1>9 DEF Overseas!Next

\* Days of a set have a last one.
LEMMA LatestIn ==
    ASSUME OverseasConstants, NEW rows \in SUBSET Overseas!Days
    PROVE  /\ Overseas!Latest(rows) \in Nat /\ (rows = {} => Overseas!Latest(rows) = 0)
           /\ rows # {} => Overseas!Latest(rows) \in rows /\ \A d \in rows : d <= Overseas!Latest(rows)
<1>1. CASE rows # {}
  <2>1. rows \subseteq Nat /\ LastDay \in Int /\ \A d \in rows : d <= LastDay
    BY DEF Overseas!Days, OverseasConstants
  <2>2. PICK x \in rows : \A y \in rows : y <= x
    BY <1>1, <2>1, GreatestOf
  <2>3. Overseas!Max(rows) \in rows /\ \A y \in rows : Overseas!Max(rows) >= y
    <3>1. x \in rows /\ \A y \in rows : x >= y
      BY <2>1, <2>2
    <3> QED BY <3>1 DEF Overseas!Max
  <2> QED BY <1>1, <2>1, <2>3 DEF Overseas!Latest
<1> QED BY <1>1 DEF Overseas!Latest

\* Of numbers with a measure, some have the greatest.
LEMMA Foremost ==
    ASSUME NEW S, S # {}, NEW f \in [S -> Nat], NEW b \in Nat, \A n \in S : f[n] <= b
    PROVE  \E n \in S : \A m \in S : f[m] <= f[n]
<1>1. PICK T : T = {f[n] : n \in S}
  OBVIOUS
<1>2. T \subseteq Nat /\ T # {} /\ b \in Int /\ \A x \in T : x <= b
  BY <1>1
<1>3. PICK x \in T : \A y \in T : y <= x
  BY <1>2, GreatestOf
<1>4. PICK n \in S : f[n] = x
  BY <1>1
<1>5. \A m \in S : f[m] \in T
  BY <1>1
<1> QED BY <1>3, <1>4, <1>5

\* Ranks have a first: of those with the greatest first figure, the greatest second and so on.
LEMMA SelectedFirst ==
    ASSUME OverseasConstants, NEW cutoff, \A n \in Overseas!Numbers : cached[n].rows \subseteq Overseas!Days
    PROVE  /\ Overseas!Selected(cutoff) \in Overseas!Numbers
           /\ \A m \in Overseas!Numbers :
                 \/ Overseas!Below(Overseas!Rank(m, cutoff), Overseas!Rank(Overseas!Selected(cutoff), cutoff))
                 \/ Overseas!Rank(m, cutoff) = Overseas!Rank(Overseas!Selected(cutoff), cutoff) /\ Overseas!Selected(cutoff) <= m
<1> DEFINE R == [n \in Overseas!Numbers |-> Overseas!Rank(n, cutoff)]
<1>1. ASSUME NEW n \in Overseas!Numbers
      PROVE  /\ R[n] = <<R[n][1], R[n][2], R[n][3], R[n][4]>>
             /\ \A i \in 1 .. 4 : R[n][i] \in Nat /\ R[n][i] <= LastDay + 1
  <2>1. PICK a \in {0, 1}, b \in {0, 1}, c \in 0 .. LastDay, e \in {0, 1} : R[n] = <<a, b, c, e>>
    <3>1. PICK rows : rows = Overseas!Over(cached[n].rows)
      OBVIOUS
    <3>2. rows \in SUBSET Overseas!Days
      BY <3>1 DEF Overseas!Over
    <3>3. Overseas!Latest(rows) \in 0 .. LastDay
      BY <3>2, LatestIn DEF Overseas!Days, OverseasConstants
    <3>4. R[n] = <<Overseas!Bit(Overseas!CompleteRows(rows, cutoff)), Overseas!Bit(rows # {}), Overseas!Latest(rows), Overseas!Bit(~cached[n].error)>>
      BY <3>1 DEF Overseas!Rank
    <3> QED BY <3>3, <3>4, Zenon DEF Overseas!Bit
  <2> QED BY <2>1 DEF OverseasConstants
<1> HIDE DEF R
<1>2. LastDay + 1 \in Nat
  BY DEF OverseasConstants
<1>3. Overseas!Numbers # {} /\ Overseas!Numbers \subseteq Nat
  BY DEF OverseasConstants
<1>0. ASSUME NEW S, S \subseteq Overseas!Numbers, S # {}, NEW i \in 1 .. 4
      PROVE  \E n \in S : \A m \in S : R[m][i] <= R[n][i]
  <2>1. PICK f : f = [n \in S |-> R[n][i]]
    OBVIOUS
  <2>2. f \in [S -> Nat] /\ \A n \in S : f[n] = R[n][i] /\ f[n] <= LastDay + 1
    BY <1>1, <1>0, <2>1
  <2>3. PICK n \in S : \A m \in S : f[m] <= f[n]
    BY <1>2, <1>0, <2>2, Foremost
  <2> QED BY <2>2, <2>3
<1>4. ASSUME NEW S, S \subseteq Overseas!Numbers, S # {}
      PROVE  /\ \E n \in S : \A m \in S : R[m][1] <= R[n][1]
             /\ \E n \in S : \A m \in S : R[m][2] <= R[n][2]
             /\ \E n \in S : \A m \in S : R[m][3] <= R[n][3]
             /\ \E n \in S : \A m \in S : R[m][4] <= R[n][4]
  <2>1. 1 \in 1 .. 4 /\ 2 \in 1 .. 4 /\ 3 \in 1 .. 4 /\ 4 \in 1 .. 4
    OBVIOUS
  <2> QED BY <1>4, <2>1, <1>0
<1>5. PICK a \in Overseas!Numbers : \A m \in Overseas!Numbers : R[m][1] <= R[a][1]
  BY <1>3, <1>4
<1>6. PICK A : A = {n \in Overseas!Numbers : R[n][1] = R[a][1]}
  OBVIOUS
<1>7. PICK b \in A : \A m \in A : R[m][2] <= R[b][2]
  BY <1>4, <1>5, <1>6
<1>8. PICK B : B = {n \in A : R[n][2] = R[b][2]}
  OBVIOUS
<1>9. PICK c \in B : \A m \in B : R[m][3] <= R[c][3]
  BY <1>4, <1>6, <1>8
<1>10. PICK C : C = {n \in B : R[n][3] = R[c][3]}
  OBVIOUS
<1>11. PICK d \in C : \A m \in C : R[m][4] <= R[d][4]
  BY <1>4, <1>6, <1>8, <1>10
<1>12. PICK D : D = {n \in C : R[n][4] = R[d][4]}
  OBVIOUS
<1>13. PICK n \in D : \A m \in D : n <= m
  <2>1. D \subseteq Nat /\ D # {}
    BY <1>3, <1>6, <1>8, <1>10, <1>12
  <2> QED BY <2>1, LeastOf
<1>14. n \in Overseas!Numbers /\ R[n][1] = R[a][1] /\ R[n][2] = R[b][2] /\ R[n][3] = R[c][3] /\ R[n][4] = R[d][4]
  BY <1>6, <1>8, <1>10, <1>12
<1>15. ASSUME NEW m \in Overseas!Numbers PROVE Overseas!Below(R[m], R[n]) \/ (R[m] = R[n] /\ n <= m)
  <2>1. CASE R[m][1] # R[n][1]
    <3>1. R[m][1] < R[n][1]
      BY <2>1, <1>1, <1>5, <1>14
    <3> QED BY <3>1 DEF Overseas!Below
  <2>2. CASE R[m][1] = R[n][1] /\ R[m][2] # R[n][2]
    <3>1. m \in A /\ R[m][2] < R[n][2]
      BY <2>2, <1>1, <1>6, <1>7, <1>14
    <3>2. \A j \in 1 .. 2 - 1 : R[m][j] = R[n][j]
      BY <2>2
    <3> QED BY <3>1, <3>2 DEF Overseas!Below
  <2>3. CASE R[m][1] = R[n][1] /\ R[m][2] = R[n][2] /\ R[m][3] # R[n][3]
    <3>1. m \in B /\ R[m][3] < R[n][3]
      BY <2>3, <1>1, <1>6, <1>8, <1>9, <1>14
    <3>2. \A j \in 1 .. 3 - 1 : R[m][j] = R[n][j]
      BY <2>3
    <3> QED BY <3>1, <3>2 DEF Overseas!Below
  <2>4. CASE R[m][1] = R[n][1] /\ R[m][2] = R[n][2] /\ R[m][3] = R[n][3] /\ R[m][4] # R[n][4]
    <3>1. m \in C /\ R[m][4] < R[n][4]
      BY <2>4, <1>1, <1>6, <1>8, <1>10, <1>11, <1>14
    <3>2. \A j \in 1 .. 4 - 1 : R[m][j] = R[n][j]
      BY <2>4
    <3> QED BY <3>1, <3>2 DEF Overseas!Below
  <2>5. CASE R[m][1] = R[n][1] /\ R[m][2] = R[n][2] /\ R[m][3] = R[n][3] /\ R[m][4] = R[n][4]
    <3>1. m \in D /\ R[m] = R[n]
      BY <2>5, <1>1, <1>6, <1>8, <1>10, <1>12, <1>14
    <3> QED BY <3>1, <1>13
  <2> QED BY <2>1, <2>2, <2>3, <2>4, <2>5
<1>16. \A m \in Overseas!Numbers : R[m] = Overseas!Rank(m, cutoff)
  BY DEF R
<1>17. \A m \in Overseas!Numbers : Overseas!Below(Overseas!Rank(m, cutoff), Overseas!Rank(n, cutoff)) \/ (Overseas!Rank(m, cutoff) = Overseas!Rank(n, cutoff) /\ n <= m)
  BY <1>14, <1>15, <1>16
<1> QED BY <1>14, <1>17, Zenon DEF Overseas!Selected

\* The days a source is shown with are over, and a base is one of them.
LEMMA BaseBefore ==
    ASSUME OverseasConstants, OverseasInv, Overseas!BaseOf(Overseas!Over(cached[Overseas!Selected(Overseas!Cutoff(etf, tick))].rows), Overseas!Cutoff(etf, tick)) # 0
    PROVE  LET rows == Overseas!Over(cached[Overseas!Selected(Overseas!Cutoff(etf, tick))].rows)
               base == Overseas!BaseOf(rows, Overseas!Cutoff(etf, tick))
           IN base <= Overseas!Latest(rows) /\ base < etf.day /\ etf.status # "failed"
<1>1. PICK cutoff : cutoff = Overseas!Cutoff(etf, tick)
  OBVIOUS
<1>2. PICK rows : rows = Overseas!Over(cached[Overseas!Selected(cutoff)].rows)
  OBVIOUS
<1>3. cutoff # None /\ etf # None /\ etf.status # "failed" /\ etf.day \in Nat /\ cutoff = 2 * etf.day
  BY <1>1 DEF Overseas!BaseOf, Overseas!Cutoff, OverseasInv, Overseas!Days, Overseas!EtfClose
<1>4. \A n \in Overseas!Numbers : cached[n].rows \subseteq Overseas!Days
  BY DEF OverseasInv, CacheFits
<1>5. Overseas!Selected(cutoff) \in Overseas!Numbers
  BY <1>4, SelectedFirst
<1>6. rows \in SUBSET Overseas!Days
  BY <1>2, <1>4, <1>5 DEF Overseas!Over
<1>7. PICK early : early = {d \in rows : Overseas!Close(d) <= cutoff}
  OBVIOUS
<1>8. early \in SUBSET Overseas!Days /\ early \subseteq rows /\ Overseas!BaseOf(rows, cutoff) = Overseas!Latest(early)
  BY <1>3, <1>6, <1>7 DEF Overseas!BaseOf
<1>9. Overseas!Latest(early) \in early
  BY <1>1, <1>2, <1>8, LatestIn
<1>10. Overseas!Latest(early) \in Nat /\ Overseas!Close(Overseas!Latest(early)) <= cutoff /\ Overseas!Latest(early) <= Overseas!Latest(rows)
  BY <1>6, <1>7, <1>8, <1>9, LatestIn
<1>11. Overseas!Latest(early) < etf.day
  BY <1>3, <1>10 DEF Overseas!Close
<1> QED BY <1>1, <1>2, <1>3, <1>8, <1>10, <1>11

LEMMA SoundFollows == OverseasConstants /\ OverseasInv => Overseas!OverseasTypeOK /\ Overseas!OverseasSound
<1> SUFFICES ASSUME OverseasConstants, OverseasInv PROVE Overseas!OverseasTypeOK /\ Overseas!OverseasSound
  OBVIOUS
<1>1. Overseas!OverseasTypeOK
  BY DEF OverseasInv, Overseas!OverseasTypeOK, JobFits, CacheFits
<1>2. \A n \in Overseas!Numbers : \A d \in cached[n].rows : Overseas!Close(d) <= cached[n].checked
  BY DEF OverseasInv, CacheFits
<1>3. PICK cutoff : cutoff = Overseas!Cutoff(etf, tick)
  OBVIOUS
<1>4. Overseas!View.base # 0 => /\ Overseas!View.base <= Overseas!View.last /\ Overseas!View.base < etf.day /\ etf.status # "failed"
  <2>1. /\ Overseas!View.base = Overseas!BaseOf(Overseas!Over(cached[Overseas!Selected(Overseas!Cutoff(etf, tick))].rows), Overseas!Cutoff(etf, tick))
        /\ Overseas!View.last = Overseas!Latest(Overseas!Over(cached[Overseas!Selected(Overseas!Cutoff(etf, tick))].rows))
    BY DEF Overseas!View
  <2> QED BY <2>1, BaseBefore
<1>5. ASSUME NEW n \in Overseas!Numbers, Overseas!CompleteRows(Overseas!Over(cached[n].rows), cutoff)
      PROVE  Overseas!CompleteRows(Overseas!Over(cached[Overseas!View.source].rows), cutoff)
  <2>1. PICK s : s = Overseas!Selected(cutoff)
    OBVIOUS
  <2>2. Overseas!View.source = s
    BY <1>3, <2>1 DEF Overseas!View
  <2>3. \A m \in Overseas!Numbers : cached[m].rows \subseteq Overseas!Days
    BY DEF OverseasInv, CacheFits
  <2>4. s \in Overseas!Numbers /\ (Overseas!Below(Overseas!Rank(n, cutoff), Overseas!Rank(s, cutoff)) \/ Overseas!Rank(n, cutoff) = Overseas!Rank(s, cutoff))
    BY <2>1, <2>3, SelectedFirst
  <2>5. PICK a : a = Overseas!Rank(n, cutoff)
    OBVIOUS
  <2>6. PICK b : b = Overseas!Rank(s, cutoff)
    OBVIOUS
  <2>7. a[1] = 1 /\ b[1] = IF Overseas!CompleteRows(Overseas!Over(cached[s].rows), cutoff) THEN 1 ELSE 0
    BY <1>5, <2>5, <2>6 DEF Overseas!Rank, Overseas!Bit
  <2>8. b[1] # 0
    <3>1. CASE a = b
      BY <2>7, <3>1
    <3>2. CASE Overseas!Below(a, b)
      <4>1. PICK i \in 1 .. 4 : a[i] < b[i] /\ \A j \in 1 .. i - 1 : a[j] = b[j]
        BY <3>2 DEF Overseas!Below
      <4>2. CASE i = 1
        BY <2>7, <4>1, <4>2
      <4>3. CASE i # 1
        <5>1. 1 \in 1 .. i - 1
          BY <4>3
        <5> QED BY <2>7, <4>1, <5>1
      <4> QED BY <4>2, <4>3
    <3> QED BY <2>4, <2>5, <2>6, <3>1, <3>2
  <2> QED BY <2>2, <2>7, <2>8
<1> QED BY <1>1, <1>2, <1>3, <1>4, <1>5 DEF Overseas!OverseasSound

\* What is shown of an index abroad (view): a close that is cached was over when it was
\* fetched, the change starts before the ETF's own close and no later than it ends, and a
\* source with a complete range is preferred; for any list of sources, number of days,
\* failing sources and ends of the refresh.
THEOREM OverseasIsSound == OverseasConstants /\ Overseas!Spec => [](Overseas!OverseasTypeOK /\ Overseas!OverseasSound)
<1> SUFFICES ASSUME OverseasConstants PROVE Overseas!Spec => [](Overseas!OverseasTypeOK /\ Overseas!OverseasSound)
  OBVIOUS
<1>1. Overseas!Init => OverseasInv
  BY OverseasInit
<1>2. OverseasInv /\ [Overseas!Next]_Overseas!vars => OverseasInv'
  BY OverseasStep
<1>3. OverseasInv => Overseas!OverseasTypeOK /\ Overseas!OverseasSound
  BY SoundFollows
<1> QED BY <1>1, <1>2, <1>3, PTL DEF Overseas!Spec

\* No refresh takes away a close that was cached, whatever the source answers (refresh).
THEOREM ClosesStay == OverseasConstants /\ Overseas!Spec => [][Overseas!ClosesAreKept]_Overseas!vars
<1> SUFFICES ASSUME OverseasConstants PROVE Overseas!Spec => [][Overseas!ClosesAreKept]_Overseas!vars
  OBVIOUS
<1>1. Overseas!Init => OverseasInv
  BY OverseasInit
<1>2. OverseasInv /\ [Overseas!Next]_Overseas!vars => OverseasInv' /\ Overseas!ClosesAreKept
  BY OverseasStep
<1> QED BY <1>1, <1>2, PTL DEF Overseas!Spec

-----------------------------------------------------------------------------
(* BacktestRuns.  A directory gets its files in their order and keeps its   *)
(* question (DirsInv), a process that writes has its own, and a window of a  *)
(* walk-forward is ahead, has a result or has failed (RunFits).              *)

CONSTANTS Runs, WebRun, Calendar, Starts, Years, Editions, MaxDirs, MaxFaults
VARIABLES start, edition, dirs, run, page, faults

Backtests == INSTANCE BacktestRuns

BacktestConstants ==
    /\ WebRun \subseteq Runs /\ Starts \subseteq 1 .. Backtests!LastDay /\ Editions \in Nat \ {0} /\ MaxFaults \in Nat
    /\ None \notin {"running", "completed", "failed"}

\* A directory keeps its question and gets its files in their order.
DirFits(d) ==
    /\ DOMAIN d = {"at", "key", "files"} /\ d.at \in {"tmp", "final", "gone"} /\ d.files \subseteq Backtests!Range(Backtests!Files)
    /\ "report" \in d.files \/ d.at = "final" => d.files = Backtests!Range(Backtests!Files)

\* What a run took for the result of a window answers its question.
OutputFits(w, o) ==
    /\ o.dir \in DOMAIN dirs /\ dirs[o.dir].key = o.key /\ o.key.window = w
    /\ Backtests!Asked \subseteq dirs[o.dir].files

SummaryFits(r) ==
    \A n \in DOMAIN Backtests!FixedWindows :
        IF r.summary[n].status = "completed" THEN r.summary[n].key.window = Backtests!FixedWindows[n]
        ELSE ~Backtests!FixedWindows[n].available \/ Backtests!FixedWindows[n] \in r.failures

\* A window of a walk-forward is ahead, has a result or failed.
RunFits(r) ==
    /\ DOMAIN r = DOMAIN Backtests!Idle
    /\ r.at = "write" => r.dir \in DOMAIN dirs /\ dirs[r.dir].at = "tmp" /\ dirs[r.dir].key = r.key
    /\ r.at \in {"compute", "write"} => r.key.window = Backtests!Earliest(r.todo)
    /\ \A w \in DOMAIN r.outputs : OutputFits(w, r.outputs[w])
    /\ r.at \in {"look", "compute", "write", "sum"} /\ r.many => Backtests!Available \subseteq DOMAIN r.outputs \union r.failures \union r.todo
    /\ r.at = "sum" => r.todo = {} /\ r.many
    /\ r.at \in {"idle", "look", "compute", "write", "sum"} => r.summary = None
    /\ r.summary # None => SummaryFits(r)

Writes(p, i) == run[p].at = "write" /\ run[p].dir = i
DirsInv ==
    /\ \E S : dirs \in Seq(S)
    /\ \A i \in DOMAIN dirs : DirFits(dirs[i])
PageFits == page # None => /\ page.dir \in DOMAIN dirs /\ Backtests!Asked \subseteq dirs[page.dir].files
                           /\ dirs[page.dir].key.window.first <= page.first
                           /\ dirs[page.dir].key.window.last = page.last
OneTask == \A p, q \in WebRun : task[p] = "running" /\ task[q] = "running" => p = q

RunsInv ==
    /\ DirsInv /\ PageFits /\ OneTask
    /\ start \in 1 .. Backtests!LastDay /\ edition \in 1 .. Editions /\ faults \in 0 .. MaxFaults
    /\ task \in [WebRun -> {None, "running", "completed", "failed"}]
    /\ DOMAIN run = Runs /\ \A p \in Runs : RunFits(run[p])
    /\ \A p, q \in Runs, i \in DOMAIN dirs : Writes(p, i) /\ Writes(q, i) => p = q

LEMMA RunsInit == BacktestConstants /\ Backtests!Init => RunsInv
<1> SUFFICES ASSUME BacktestConstants, Backtests!Init PROVE RunsInv
  OBVIOUS
<1>1. DirsInv /\ DOMAIN dirs = {}
  <2>1. dirs \in Seq({}) /\ DOMAIN dirs = {}
    BY DEF Backtests!Init
  <2> QED BY <2>1 DEF DirsInv
<1>2. \A p \in Runs : RunFits(run[p])
  BY DEF Backtests!Init, RunFits, Backtests!Idle
<1>3. start \in 1 .. Backtests!LastDay /\ edition \in 1 .. Editions /\ faults \in 0 .. MaxFaults
  BY DEF Backtests!Init, BacktestConstants
<1>4. PageFits /\ OneTask
  BY DEF Backtests!Init, PageFits, OneTask, BacktestConstants
<1>5. task \in [WebRun -> {None, "running", "completed", "failed"}] /\ DOMAIN run = Runs
  BY DEF Backtests!Init
<1> QED BY <1>1, <1>2, <1>3, <1>4, <1>5 DEF RunsInv

\* Directories are added and filled, and keep what they are for.
DirsGrow ==
    /\ DOMAIN dirs \subseteq DOMAIN dirs'
    /\ \A i \in DOMAIN dirs : dirs'[i].key = dirs[i].key /\ dirs[i].files \subseteq dirs'[i].files

LEMMA OutputStays ==
    ASSUME DirsGrow, NEW w, NEW o, OutputFits(w, o)
    PROVE  OutputFits(w, o)'
  BY DEF DirsGrow, OutputFits

LEMMA PageStays == ASSUME DirsGrow, PageFits, UNCHANGED page PROVE PageFits'
  BY DEF DirsGrow, PageFits

LEMMA RunStays ==
    ASSUME DirsGrow, UNCHANGED start, NEW r, RunFits(r),
           r.at = "write" => dirs'[r.dir].at = dirs[r.dir].at
    PROVE  RunFits(r)'
<1>1. Backtests!FixedWindows' = Backtests!FixedWindows /\ Backtests!Available' = Backtests!Available
  BY DEF Backtests!FixedWindows, Backtests!Available
<1> QED BY <1>1, OutputStays DEF RunFits, DirsGrow, SummaryFits

\* A step of one run leaves the others and what they write alone.
LEMMA OneRunSteps ==
    ASSUME BacktestConstants, RunsInv, NEW p \in Runs, NEW r, Backtests!Put(p, r), RunFits(r)', DirsGrow, DirsInv', UNCHANGED <<start, page>>,
           \A q \in Runs \ {p} : run[q].at = "write" => dirs'[run[q].dir] = dirs[run[q].dir],
           r.at = "write" => \A q \in Runs \ {p} : ~Writes(q, r.dir),
           edition' \in 1 .. Editions, faults' \in 0 .. MaxFaults,
           task' \in [WebRun -> {None, "running", "completed", "failed"}], OneTask'
    PROVE  RunsInv'
<1>1. DOMAIN run' = Runs /\ run'[p] = r /\ \A q \in Runs \ {p} : run'[q] = run[q]
  BY DEF Backtests!Put, RunsInv
<1>2. \A q \in Runs : RunFits(run[q])'
  <2> TAKE q \in Runs
  <2>1. PICK c : c = run'[q]
    OBVIOUS
  <2>2. RunFits(c)'
    BY <1>1, <2>1, RunStays DEF RunsInv
  <2> QED BY <2>1, <2>2 DEF RunFits, OutputFits, SummaryFits
<1>3. \A q, s \in Runs, i \in DOMAIN dirs' : Writes(q, i)' /\ Writes(s, i)' => q = s
  <2>1. \A q \in Runs \ {p} : run[q].at = "write" => run[q].dir \in DOMAIN dirs
    BY DEF RunsInv, RunFits
  <2> QED BY <1>1, <2>1 DEF Writes, RunsInv
<1> QED BY <1>1, <1>2, <1>3, PageStays DEF RunsInv

\* What becomes of a run when its window is settled, with or without a result.
LEMMA AfterFits ==
    ASSUME NEW r, DOMAIN r = DOMAIN Backtests!Idle, r.summary = None, UNCHANGED start,
           \A w \in DOMAIN r.outputs : OutputFits(w, r.outputs[w])',
           r.many => Backtests!Available \subseteq DOMAIN r.outputs \union r.failures \union (r.todo \ {Backtests!Earliest(r.todo)}),
           NEW x, x = Backtests!After(r)
    PROVE  RunFits(x)' /\ x.at # "write"
<1>1. PICK rest : rest = r.todo \ {Backtests!Earliest(r.todo)}
  OBVIOUS
<1>2. PICK at \in {"look", "sum", "done"} : at = IF rest # {} THEN "look" ELSE IF r.many THEN "sum" ELSE "done"
  OBVIOUS
<1>3. x = [r EXCEPT !.todo = rest, !.dir = None, !.at = at]
  BY <1>1, <1>2 DEF Backtests!After
<1>4. DOMAIN x = DOMAIN Backtests!Idle /\ x.todo = rest /\ x.at = at /\ x.many = r.many /\ x.outputs = r.outputs
      /\ x.failures = r.failures /\ x.summary = None
  BY <1>3 DEF Backtests!Idle
<1>5. Backtests!Available' = Backtests!Available
  BY DEF Backtests!Available, Backtests!FixedWindows
<1> QED BY <1>1, <1>2, <1>4, <1>5 DEF RunFits

LEMMA SettledFits ==
    ASSUME NEW r, RunFits(r), r.at \in {"look", "write"}, DirsGrow, UNCHANGED start, NEW i \in DOMAIN dirs', NEW at, NEW key,
           dirs'[i].key = key, key.window = Backtests!Earliest(r.todo), Backtests!Asked \subseteq dirs'[i].files,
           NEW x, DOMAIN x = DOMAIN Backtests!Idle, x.todo = r.todo, x.key = key, x.outputs = r.outputs, x.many = r.many,
           x.failures = r.failures, x.summary = r.summary, NEW z, z = Backtests!Settled(x, i, at)
    PROVE  RunFits(z)' /\ z.at # "write"
<1>1. PICK e : e = Backtests!Earliest(r.todo)
  OBVIOUS
<1>2. PICK o : o = [w \in DOMAIN r.outputs \union {e} |-> IF w = e THEN [dir |-> i, at |-> at, key |-> key] ELSE r.outputs[w]]
  OBVIOUS
<1>4. PICK y : y = [x EXCEPT !.outputs = o]
  OBVIOUS
<1>5. /\ DOMAIN y = DOMAIN Backtests!Idle /\ y.todo = r.todo /\ y.key = key /\ y.outputs = o /\ y.many = r.many
      /\ y.failures = r.failures /\ y.summary = r.summary
  BY <1>4 DEF Backtests!Idle
<1>6. z = Backtests!After(y)
  BY <1>1, <1>2, <1>4 DEF Backtests!Settled
<1>7. ASSUME NEW w \in DOMAIN o PROVE OutputFits(w, o[w])'
  <2>1. CASE w = e
    BY <1>1, <1>2, <2>1 DEF OutputFits
  <2>2. CASE w # e
    <3>1. w \in DOMAIN r.outputs /\ o[w] = r.outputs[w]
      BY <1>2, <1>7, <2>2
    <3> QED BY <3>1, OutputStays DEF RunFits
  <2> QED BY <2>1, <2>2
<1>8. y.many => Backtests!Available \subseteq DOMAIN y.outputs \union y.failures \union (y.todo \ {Backtests!Earliest(y.todo)})
  BY <1>1, <1>2, <1>5 DEF RunFits
<1> QED BY <1>5, <1>6, <1>7, <1>8, AfterFits DEF RunFits

\* A directory in hand changes: the others stay.
LEMMA DirChanges ==
    ASSUME RunsInv, NEW i \in DOMAIN dirs, NEW d, dirs' = [dirs EXCEPT ![i] = d], DirFits(d),
           d.key = dirs[i].key, dirs[i].files \subseteq d.files
    PROVE  /\ DirsGrow /\ DirsInv' /\ dirs'[i] = d /\ DOMAIN dirs' = DOMAIN dirs
           /\ \A j \in DOMAIN dirs \ {i} : dirs'[j] = dirs[j]
<1>1. PICK S : dirs \in Seq(S)
  BY DEF RunsInv, DirsInv
<1>2. dirs' \in Seq(S \union {d})
  BY <1>1
<1>3. /\ dirs'[i] = d /\ DOMAIN dirs' = DOMAIN dirs /\ \A j \in DOMAIN dirs \ {i} : dirs'[j] = dirs[j]
  OBVIOUS
<1>4. \A j \in DOMAIN dirs' : DirFits(dirs'[j])
  BY <1>3 DEF RunsInv, DirsInv
<1>5. DirsInv'
  <2>1. \E T : dirs' \in Seq(T)
    BY <1>2
  <2> QED BY <2>1, <1>4 DEF DirsInv, DirFits
<1> QED BY <1>3, <1>5 DEF DirsGrow

LEMMA SameDirs == ASSUME RunsInv, UNCHANGED dirs PROVE DirsGrow /\ DirsInv'
  BY DEF RunsInv, DirsInv, DirsGrow, DirFits

\* A step of a run that leaves the directories alone.
LEMMA QuietRun ==
    ASSUME BacktestConstants, RunsInv, NEW p \in Runs, NEW r, Backtests!Put(p, r), RunFits(r)', r.at # "write",
           UNCHANGED <<start, page, dirs, edition>>, faults' \in 0 .. MaxFaults,
           task' \in [WebRun -> {None, "running", "completed", "failed"}], OneTask'
    PROVE  RunsInv'
  BY SameDirs, OneRunSteps DEF RunsInv

LEMMA TheSame == ASSUME RunsInv, UNCHANGED task PROVE OneTask' /\ task' \in [WebRun -> {None, "running", "completed", "failed"}]
  BY DEF RunsInv, OneTask

LEMMA FaultFits == ASSUME BacktestConstants, RunsInv, Backtests!Fault PROVE faults' \in 0 .. MaxFaults
  BY DEF BacktestConstants, RunsInv, Backtests!Fault, Backtests!May

\* A run that ends keeps what it has.
LEMMA StopFits ==
    ASSUME RunsInv, NEW p \in Runs, UNCHANGED <<start, dirs>>, NEW at \in {"done", "failed", "killed", "lost"},
           NEW x, x = [run[p] EXCEPT !.at = at]
    PROVE  RunFits(x)' /\ x.at = at
<1>1. RunFits(run[p])
  BY DEF RunsInv
<1>2. /\ DOMAIN x = DOMAIN Backtests!Idle /\ x.at = at /\ x.outputs = run[p].outputs /\ x.failures = run[p].failures
      /\ x.summary = run[p].summary
  BY <1>1 DEF RunFits, Backtests!Idle
<1>3. Backtests!FixedWindows' = Backtests!FixedWindows
  BY DEF Backtests!FixedWindows
<1> QED BY <1>1, <1>2, <1>3 DEF RunFits, OutputFits, SummaryFits

LEMMA Begins ==
    ASSUME BacktestConstants, RunsInv, NEW p \in Runs, NEW r, Backtests!Put(p, r),
           DOMAIN r = DOMAIN Backtests!Idle, r.at = "look", r.many => r.todo = Backtests!Available, DOMAIN r.outputs = {}, r.summary = None,
           UNCHANGED <<start, edition, dirs, page, faults>>,
           OneTask', task' \in [WebRun -> {None, "running", "completed", "failed"}]
    PROVE  RunsInv'
<1>1. Backtests!Available' = Backtests!Available
  BY DEF Backtests!Available, Backtests!FixedWindows
<1>2. RunFits(r)'
  BY <1>1 DEF RunFits
<1> QED BY <1>2, QuietRun DEF RunsInv

LEMMA RunBegins ==
    ASSUME BacktestConstants, RunsInv, NEW p \in Runs, NEW many \in BOOLEAN, NEW rerun \in BOOLEAN, Backtests!Begin(p, many, rerun)
    PROVE  RunsInv'
<1>1. PICK todo : todo = IF many THEN Backtests!Available ELSE {Backtests!FixedWindows[1]}
  OBVIOUS
<1>2. PICK r : r = [Backtests!Idle EXCEPT !.at = "look", !.many = many, !.rerun = rerun, !.todo = todo]
  OBVIOUS
<1>3. /\ DOMAIN r = DOMAIN Backtests!Idle /\ r.at = "look" /\ (r.many => r.todo = Backtests!Available) /\ DOMAIN r.outputs = {}
      /\ r.summary = None
  BY <1>1, <1>2 DEF Backtests!Idle
<1>4. Backtests!Put(p, r)
  BY <1>1, <1>2 DEF Backtests!Begin
<1> QED BY <1>3, <1>4, Begins, TheSame DEF Backtests!Begin

LEMMA StartKeeps == ASSUME BacktestConstants, RunsInv, NEW p \in WebRun, Backtests!StartBacktest(p) PROVE RunsInv'
<1>1. PICK todo : todo = {Backtests!FixedWindows[1]}
  OBVIOUS
<1>2. PICK r : r = [Backtests!Idle EXCEPT !.at = "look", !.todo = todo]
  OBVIOUS
<1>3. DOMAIN r = DOMAIN Backtests!Idle /\ r.at = "look" /\ ~r.many /\ DOMAIN r.outputs = {} /\ r.summary = None
  BY <1>2 DEF Backtests!Idle
<1>4. OneTask' /\ task' \in [WebRun -> {None, "running", "completed", "failed"}]
  BY DEF Backtests!StartBacktest, RunsInv, OneTask
<1>5. p \in Runs /\ Backtests!Put(p, r)
  BY <1>1, <1>2 DEF BacktestConstants, Backtests!StartBacktest
<1> QED BY <1>3, <1>4, <1>5, Begins DEF Backtests!StartBacktest

\* What can be reused is one of the directories, with all its files.
LEMMA FoundFits ==
    ASSUME RunsInv, NEW key, Backtests!Reusable(key) # {}
    PROVE  LET i == Backtests!Max(Backtests!Reusable(key)) IN i \in DOMAIN dirs /\ dirs[i].key = key /\ Backtests!Asked \subseteq dirs[i].files
<1>1. PICK found : found = Backtests!Reusable(key)
  OBVIOUS
<1>2. PICK S : dirs \in Seq(S)
  BY DEF RunsInv, DirsInv
<1>3. Len(dirs) \in Nat /\ DOMAIN dirs = 1 .. Len(dirs)
  BY <1>2
<1>4. found \subseteq Nat /\ found # {} /\ Len(dirs) \in Int /\ \A x \in found : x <= Len(dirs)
  BY <1>1, <1>3 DEF Backtests!Reusable
<1>5. PICK x \in found : \A y \in found : y <= x
  BY <1>4, GreatestOf
<1>6. x \in found /\ \A y \in found : x >= y
  BY <1>4, <1>5
<1>7. Backtests!Max(found) \in found
  BY <1>6 DEF Backtests!Max
<1> QED BY <1>1, <1>7 DEF Backtests!Reusable, Backtests!Complete

LEMMA LookKeeps == ASSUME BacktestConstants, RunsInv, NEW p \in Runs, Backtests!Look(p) PROVE RunsInv'
<1>1. PICK key : key = [window |-> Backtests!Earliest(run[p].todo), edition |-> edition]
  OBVIOUS
<1>2. PICK found : found = IF run[p].rerun THEN {} ELSE Backtests!Reusable(key)
  OBVIOUS
<1>3. /\ RunFits(run[p]) /\ run[p].at = "look" /\ UNCHANGED <<start, edition, dirs, task, page, faults>>
      /\ key.window = Backtests!Earliest(run[p].todo)
  BY <1>1 DEF Backtests!Look, RunsInv
<1>4. PICK x : x = [run[p] EXCEPT !.key = key]
  OBVIOUS
<1>5. CASE found = {}
  <2>1. PICK r : r = [run[p] EXCEPT !.at = "compute", !.key = key]
    OBVIOUS
  <2>2. /\ DOMAIN r = DOMAIN Backtests!Idle /\ r.at = "compute" /\ r.key = key /\ r.many = run[p].many /\ r.todo = run[p].todo
        /\ r.outputs = run[p].outputs /\ r.failures = run[p].failures /\ r.summary = run[p].summary
    BY <1>3, <2>1 DEF RunFits, Backtests!Idle
  <2>3. Backtests!Available' = Backtests!Available
    BY <1>3 DEF Backtests!Available, Backtests!FixedWindows
  <2>4. RunFits(r)'
    BY <1>3, <2>2, <2>3 DEF RunFits, OutputFits
  <2>5. Backtests!Put(p, r)
    BY <1>1, <1>2, <1>5, <2>1 DEF Backtests!Look
  <2> QED BY <1>3, <2>2, <2>4, <2>5, QuietRun, TheSame DEF RunsInv
<1>6. CASE found # {}
  <2>1. PICK i : i = Backtests!Max(found)
    OBVIOUS
  <2>2. i \in DOMAIN dirs /\ dirs[i].key = key /\ Backtests!Asked \subseteq dirs[i].files
    BY <1>2, <1>6, <2>1, FoundFits
  <2>3. PICK r : r = Backtests!Settled(x, i, dirs[i].at)
    OBVIOUS
  <2>4. Backtests!Put(p, r)
    BY <1>1, <1>2, <1>4, <1>6, <2>1, <2>3 DEF Backtests!Look
  <2>5. DirsGrow
    BY <1>3, SameDirs
  <2>6. PICK at : at = dirs[i].at
    OBVIOUS
  <2>7. /\ DOMAIN x = DOMAIN Backtests!Idle /\ x.todo = run[p].todo /\ x.key = key /\ x.outputs = run[p].outputs
        /\ x.many = run[p].many /\ x.failures = run[p].failures /\ x.summary = run[p].summary
    BY <1>3, <1>4 DEF RunFits, Backtests!Idle
  <2>8. RunFits(r)' /\ r.at # "write"
    BY <1>3, <2>2, <2>3, <2>5, <2>6, <2>7, SettledFits
  <2> QED BY <1>3, <2>3, <2>4, <2>6, <2>8, QuietRun, TheSame DEF RunsInv
<1> QED BY <1>5, <1>6

\* The window of a run fails, or the run.
LEMMA FailedFits ==
    ASSUME RunsInv, NEW p \in Runs, run[p].at = "compute", UNCHANGED <<start, dirs>>, NEW r, r = Backtests!FailedWindow(run[p])
    PROVE  RunFits(r)' /\ r.at # "write"
<1>1. RunFits(run[p])
  BY DEF RunsInv
<1>2. CASE ~run[p].many
  <2>1. PICK at \in {"failed"} : at = "failed"
    OBVIOUS
  <2>2. r = [run[p] EXCEPT !.at = at]
    BY <1>2, <2>1 DEF Backtests!FailedWindow
  <2> QED BY <2>1, <2>2, StopFits
<1>3. CASE run[p].many
  <2>1. PICK lost : lost = run[p].failures \union {Backtests!Earliest(run[p].todo)}
    OBVIOUS
  <2>2. PICK x : x = [run[p] EXCEPT !.failures = lost]
    OBVIOUS
  <2>3. r = Backtests!After(x)
    BY <1>3, <2>1, <2>2 DEF Backtests!FailedWindow
  <2>4. /\ DOMAIN x = DOMAIN Backtests!Idle /\ x.todo = run[p].todo /\ x.outputs = run[p].outputs /\ x.many = run[p].many
        /\ x.failures = lost /\ x.summary = run[p].summary
    BY <1>1, <2>2 DEF RunFits, Backtests!Idle
  <2>5. \A w \in DOMAIN x.outputs : OutputFits(w, x.outputs[w])'
    BY <1>1, <2>4 DEF RunFits, OutputFits
  <2>6. x.summary = None
    BY <1>1, <2>4 DEF RunFits
  <2>7. Backtests!Available \subseteq DOMAIN x.outputs \union x.failures \union (x.todo \ {Backtests!Earliest(x.todo)})
    BY <1>1, <1>3, <2>1, <2>4 DEF RunFits
  <2> QED BY <2>3, <2>4, <2>5, <2>6, <2>7, AfterFits
<1> QED BY <1>2, <1>3

LEMMA NoDataKeeps == ASSUME BacktestConstants, RunsInv, NEW p \in Runs, Backtests!NoData(p) PROVE RunsInv'
<1>1. PICK r : r = Backtests!FailedWindow(run[p])
  OBVIOUS
<1>2. RunFits(r)' /\ r.at # "write"
  BY <1>1, FailedFits DEF Backtests!NoData
<1>3. Backtests!Put(p, r)
  BY <1>1 DEF Backtests!NoData
<1> QED BY <1>2, <1>3, QuietRun, TheSame, FaultFits DEF Backtests!NoData

LEMMA RunStops ==
    ASSUME BacktestConstants, RunsInv, NEW p \in Runs, NEW at \in {"done", "failed", "killed", "lost"}, Backtests!Fault,
           Backtests!Put(p, [run[p] EXCEPT !.at = at]), UNCHANGED <<start, edition, dirs, task, page>>
    PROVE  RunsInv'
<1>1. PICK r : r = [run[p] EXCEPT !.at = at]
  OBVIOUS
<1>2. RunFits(r)' /\ r.at = at
  BY <1>1, StopFits
<1> QED BY <1>1, <1>2, QuietRun, TheSame, FaultFits

LEMMA ComputeKeeps == ASSUME BacktestConstants, RunsInv, NEW p \in Runs, Backtests!Compute(p) PROVE RunsInv'
<1>1. PICK i : i = Len(dirs) + 1
  OBVIOUS
<1>2. PICK d : d = [at |-> "tmp", key |-> run[p].key, files |-> {}]
  OBVIOUS
<1>3. PICK r : r = [run[p] EXCEPT !.at = "write", !.dir = i]
  OBVIOUS
<1>4. PICK S : dirs \in Seq(S)
  BY DEF RunsInv, DirsInv
<1>5. /\ dirs' \in Seq(S \union {d}) /\ DOMAIN dirs' = DOMAIN dirs \union {i} /\ i \notin DOMAIN dirs
      /\ dirs'[i] = d /\ \A j \in DOMAIN dirs : dirs'[j] = dirs[j]
  BY <1>1, <1>2, <1>4 DEF Backtests!Compute
<1>6. DirFits(d)
  BY <1>2 DEF DirFits
<1>7. DirsGrow
  BY <1>5 DEF DirsGrow
<1>8. DirsInv'
  <2>1. \E T : dirs' \in Seq(T)
    BY <1>5
  <2>2. \A j \in DOMAIN dirs' : DirFits(dirs'[j])
    BY <1>5, <1>6 DEF RunsInv, DirsInv
  <2> QED BY <2>1, <2>2 DEF DirsInv, DirFits
<1>9. RunFits(run[p]) /\ run[p].at = "compute" /\ UNCHANGED <<start, edition, task, page, faults>> /\ Backtests!Put(p, r)
  BY <1>1, <1>3 DEF Backtests!Compute, RunsInv
<1>10. /\ DOMAIN r = DOMAIN Backtests!Idle /\ r.at = "write" /\ r.dir = i /\ r.key = run[p].key /\ r.many = run[p].many
       /\ r.todo = run[p].todo /\ r.outputs = run[p].outputs /\ r.failures = run[p].failures
       /\ r.summary = run[p].summary
  BY <1>3, <1>9 DEF RunFits, Backtests!Idle
<1>11. Backtests!Available' = Backtests!Available
  BY <1>9 DEF Backtests!Available, Backtests!FixedWindows
<1>12. RunFits(r)'
  <2>1. \A w \in DOMAIN r.outputs : OutputFits(w, r.outputs[w])'
    BY <1>7, <1>9, <1>10, OutputStays DEF RunFits
  <2> QED BY <1>2, <1>5, <1>9, <1>10, <1>11, <2>1 DEF RunFits
<1>13. \A q \in Runs : run[q].at = "write" => run[q].dir \in DOMAIN dirs
  BY DEF RunsInv, RunFits
<1> QED BY <1>5, <1>7, <1>8, <1>9, <1>10, <1>12, <1>13, OneRunSteps, TheSame DEF RunsInv, Writes

LEMMA WriteFileKeeps == ASSUME BacktestConstants, RunsInv, NEW p \in Runs, Backtests!WriteFile(p) PROVE RunsInv'
<1>1. PICK i : i = run[p].dir
  OBVIOUS
<1>2. PICK left : left = Backtests!Missing(dirs[i])
  OBVIOUS
<1>3. RunFits(run[p]) /\ i \in DOMAIN dirs /\ dirs[i].at = "tmp" /\ DirFits(dirs[i])
  BY <1>1 DEF RunsInv, RunFits, DirsInv, Backtests!WriteFile
<1>4. left \subseteq 1 .. 5 /\ left \subseteq Nat /\ left # {}
  BY <1>1, <1>2 DEF Backtests!Missing, Backtests!Files, Backtests!WriteFile
<1>5. PICK n \in left : \A y \in left : n <= y
  BY <1>4, LeastOf
<1>6. Backtests!Min(left) \in left /\ \A y \in left : Backtests!Min(left) <= y
  BY <1>5 DEF Backtests!Min
<1>7. PICK m \in left : m = Backtests!Min(left)
  BY <1>6
<1>8. PICK files : files = dirs[i].files \union {Backtests!Files[m]}
  OBVIOUS
<1>9. PICK d : d = [dirs[i] EXCEPT !.files = files]
  OBVIOUS
<1>10. d.at = dirs[i].at /\ d.key = dirs[i].key /\ d.files = files
  BY <1>3, <1>9 DEF DirFits
<1>11. dirs' = [dirs EXCEPT ![i] = d]
  BY <1>1, <1>2, <1>7, <1>8, <1>9 DEF Backtests!WriteFile
<1>12. DirFits(d)
  <2>1. Backtests!Range(Backtests!Files) = {"summary", "manifest", "curve", "trades", "report"} /\ Backtests!Files[5] = "report"
        /\ \A k \in 1 .. 4 : Backtests!Files[k] # "report"
    BY DEF Backtests!Range, Backtests!Files
  <2>2. \A k \in 1 .. 5 : Backtests!Files[k] \in Backtests!Range(Backtests!Files) /\ (k \in left <=> Backtests!Files[k] \notin dirs[i].files)
    BY <1>2 DEF Backtests!Range, Backtests!Files, Backtests!Missing
  <2>3. files \subseteq Backtests!Range(Backtests!Files)
    BY <1>3, <1>4, <1>8, <2>2 DEF DirFits
  <2>4. ASSUME "report" \in files PROVE files = Backtests!Range(Backtests!Files)
    <3>1. CASE "report" \in dirs[i].files
      BY <1>3, <1>8, <2>3, <3>1 DEF DirFits
    <3>2. CASE "report" \notin dirs[i].files
      <4>1. m = 5
        BY <1>4, <1>8, <2>1, <2>4, <3>2
      <4>2. \A k \in 1 .. 4 : k \notin left
        BY <1>6, <1>7, <4>1
      <4>3. \A k \in 1 .. 5 : Backtests!Files[k] \in files
        BY <1>8, <2>2, <4>1, <4>2
      <4>4. {"summary", "manifest", "curve", "trades", "report"} \subseteq files
        BY <4>3 DEF Backtests!Files
      <4> QED BY <2>1, <2>3, <4>4
    <3> QED BY <3>1, <3>2
  <2> QED BY <1>3, <1>9, <1>10, <2>3, <2>4 DEF DirFits
<1>13. DirsGrow /\ DirsInv' /\ dirs'[i] = d /\ DOMAIN dirs' = DOMAIN dirs /\ \A j \in DOMAIN dirs \ {i} : dirs'[j] = dirs[j]
  BY <1>3, <1>8, <1>10, <1>11, <1>12, DirChanges
<1>14. \A j \in DOMAIN dirs : dirs'[j].at = dirs[j].at
  BY <1>10, <1>13
<1>15. UNCHANGED <<start, edition, run, task, page, faults>>
  BY DEF Backtests!WriteFile
<1>16. \A q \in Runs : RunFits(run[q])'
  <2> TAKE q \in Runs
  <2>1. PICK c : c = run[q]
    OBVIOUS
  <2>2. RunFits(c) /\ (c.at = "write" => c.dir \in DOMAIN dirs)
    BY <2>1 DEF RunsInv, RunFits
  <2>3. RunFits(c)'
    BY <1>13, <1>14, <1>15, <2>2, RunStays
  <2>4. c = run'[q]
    BY <1>15, <2>1
  <2> QED BY <2>3, <2>4 DEF RunFits, OutputFits, SummaryFits
<1> QED BY <1>13, <1>15, <1>16, PageStays, TheSame DEF RunsInv, Writes

LEMMA ReplaceKeeps == ASSUME BacktestConstants, RunsInv, NEW p \in Runs, Backtests!Replace(p) PROVE RunsInv'
<1>1. PICK i : i = run[p].dir
  OBVIOUS
<1>2. RunFits(run[p]) /\ run[p].at = "write" /\ i \in DOMAIN dirs /\ dirs[i].key = run[p].key /\ DirFits(dirs[i])
      /\ run[p].key.window = Backtests!Earliest(run[p].todo)
  BY <1>1 DEF RunsInv, RunFits, DirsInv, Backtests!Replace
<1>3. PICK d : d = [dirs[i] EXCEPT !.at = "final"]
  OBVIOUS
<1>4. d.at = "final" /\ d.key = dirs[i].key /\ d.files = dirs[i].files
  BY <1>3, <1>2 DEF DirFits
<1>5. dirs' = [dirs EXCEPT ![i] = d]
  BY <1>1, <1>3 DEF Backtests!Replace
<1>6. d.files = Backtests!Range(Backtests!Files) /\ Backtests!Asked \subseteq d.files
  <2>1. \A k \in 1 .. 5 : Backtests!Files[k] \in d.files
    <3>1. Backtests!Missing(dirs[i]) = {}
      BY <1>1 DEF Backtests!Replace
    <3> QED BY <1>4, <3>1 DEF Backtests!Missing, Backtests!Files
  <2>2. Backtests!Range(Backtests!Files) = {"summary", "manifest", "curve", "trades", "report"}
    BY DEF Backtests!Range, Backtests!Files
  <2>3. {"summary", "manifest", "curve", "trades", "report"} \subseteq d.files
    BY <2>1 DEF Backtests!Files
  <2> QED BY <1>2, <1>4, <2>2, <2>3 DEF DirFits, Backtests!Asked
<1>7. DirFits(d)
  BY <1>2, <1>3, <1>4, <1>6 DEF DirFits
<1>8. DirsGrow /\ DirsInv' /\ dirs'[i] = d /\ DOMAIN dirs' = DOMAIN dirs /\ \A j \in DOMAIN dirs \ {i} : dirs'[j] = dirs[j]
  BY <1>2, <1>4, <1>5, <1>7, DirChanges
<1>9. PICK at : at = "final"
  OBVIOUS
<1>10. PICK key : key = run[p].key
  OBVIOUS
<1>11. PICK r : r = Backtests!Settled(run[p], i, at)
  OBVIOUS
<1>12. RunFits(r)' /\ r.at # "write"
  <2>1. DOMAIN run[p] = DOMAIN Backtests!Idle
    BY <1>2 DEF RunFits
  <2>2. i \in DOMAIN dirs' /\ dirs'[i].key = key /\ Backtests!Asked \subseteq dirs'[i].files /\ start' = start
    BY <1>2, <1>4, <1>6, <1>8, <1>10 DEF Backtests!Replace
  <2> QED BY <1>2, <1>8, <1>10, <1>11, <2>1, <2>2, SettledFits
<1>13. Backtests!Put(p, r) /\ UNCHANGED <<start, edition, task, page, faults>>
  BY <1>1, <1>9, <1>11 DEF Backtests!Replace
<1>14. \A q \in Runs \ {p} : run[q].at = "write" => run[q].dir \in DOMAIN dirs \ {i}
  BY <1>1, <1>2 DEF RunsInv, RunFits, Writes
<1> QED BY <1>8, <1>12, <1>13, <1>14, OneRunSteps, TheSame DEF RunsInv

LEMMA WriteFailsKeeps == ASSUME BacktestConstants, RunsInv, NEW p \in Runs, Backtests!WriteFails(p) PROVE RunsInv'
<1>1. PICK i : i = run[p].dir
  OBVIOUS
<1>2. RunFits(run[p]) /\ run[p].at = "write" /\ i \in DOMAIN dirs /\ DirFits(dirs[i])
  BY <1>1 DEF RunsInv, RunFits, DirsInv, Backtests!WriteFails
<1>3. PICK d : d = [dirs[i] EXCEPT !.at = "gone"]
  OBVIOUS
<1>4. d.at = "gone" /\ d.key = dirs[i].key /\ d.files = dirs[i].files
  BY <1>3, <1>2 DEF DirFits
<1>5. dirs' = [dirs EXCEPT ![i] = d]
  BY <1>1, <1>3 DEF Backtests!WriteFails
<1>6. DirFits(d)
  BY <1>2, <1>3, <1>4 DEF DirFits
<1>7. DirsGrow /\ DirsInv' /\ dirs'[i] = d /\ DOMAIN dirs' = DOMAIN dirs /\ \A j \in DOMAIN dirs \ {i} : dirs'[j] = dirs[j]
  BY <1>2, <1>4, <1>5, <1>6, DirChanges
<1>8. PICK r : r = [run[p] EXCEPT !.at = "failed"]
  OBVIOUS
<1>9. /\ DOMAIN r = DOMAIN Backtests!Idle /\ r.at = "failed" /\ r.outputs = run[p].outputs /\ r.failures = run[p].failures
      /\ r.summary = run[p].summary
  BY <1>2, <1>8 DEF RunFits, Backtests!Idle
<1>10. Backtests!Put(p, r) /\ UNCHANGED <<start, edition, task, page>>
  BY <1>8 DEF Backtests!WriteFails
<1>11. RunFits(r)'
  <2>1. \A w \in DOMAIN r.outputs : OutputFits(w, r.outputs[w])'
    BY <1>2, <1>7, <1>9, OutputStays DEF RunFits
  <2>2. r.summary = None
    BY <1>2, <1>9 DEF RunFits
  <2> QED BY <1>9, <2>1, <2>2 DEF RunFits
<1>12. \A q \in Runs \ {p} : run[q].at = "write" => run[q].dir \in DOMAIN dirs \ {i}
  BY <1>1, <1>2 DEF RunsInv, RunFits, Writes
<1> QED BY <1>7, <1>9, <1>10, <1>11, <1>12, OneRunSteps, TheSame, FaultFits DEF RunsInv, Backtests!WriteFails

LEMMA SummarizeKeeps == ASSUME BacktestConstants, RunsInv, NEW p \in Runs, Backtests!Summarize(p) PROVE RunsInv'
<1>1. RunFits(run[p]) /\ run[p].at = "sum" /\ UNCHANGED <<start, edition, dirs, task, page, faults>>
  BY DEF Backtests!Summarize, RunsInv
<1>2. CASE Backtests!Put(p, [run[p] EXCEPT !.at = "failed"])
  <2>1. PICK at \in {"failed"} : at = "failed"
    OBVIOUS
  <2>2. PICK r : r = [run[p] EXCEPT !.at = at]
    OBVIOUS
  <2>3. RunFits(r)' /\ r.at = at
    BY <1>1, <2>2, StopFits
  <2> QED BY <1>1, <1>2, <2>1, <2>2, <2>3, QuietRun, TheSame DEF RunsInv
<1>3. CASE Backtests!Put(p, [run[p] EXCEPT !.at = "done", !.summary = [n \in DOMAIN Backtests!FixedWindows |-> Backtests!Record(run[p], Backtests!FixedWindows[n])]])
  <2>1. PICK told : told = [n \in DOMAIN Backtests!FixedWindows |-> Backtests!Record(run[p], Backtests!FixedWindows[n])]
    OBVIOUS
  <2>2. PICK r : r = [run[p] EXCEPT !.at = "done", !.summary = told]
    OBVIOUS
  <2>3. /\ DOMAIN r = DOMAIN Backtests!Idle /\ r.at = "done" /\ r.outputs = run[p].outputs /\ r.failures = run[p].failures
        /\ r.summary = told
    BY <1>1, <2>2 DEF RunFits, Backtests!Idle
  <2>4. SummaryFits(r)
    <3> SUFFICES ASSUME NEW n \in DOMAIN Backtests!FixedWindows
                 PROVE  IF told[n].status = "completed" THEN told[n].key.window = Backtests!FixedWindows[n]
                        ELSE ~Backtests!FixedWindows[n].available \/ Backtests!FixedWindows[n] \in run[p].failures
      BY <2>3 DEF SummaryFits
    <3>1. PICK w : w = Backtests!FixedWindows[n]
      OBVIOUS
    <3>2. told[n] = Backtests!Record(run[p], w)
      BY <2>1, <3>1
    <3>3. CASE ~w.available \/ w \in run[p].failures
      BY <3>1, <3>2, <3>3 DEF Backtests!Record
    <3>4. CASE w.available /\ w \notin run[p].failures
      <4>1. w \in Backtests!Available
        BY <3>1, <3>4 DEF Backtests!Available, Backtests!Range
      <4>2. w \in DOMAIN run[p].outputs
        BY <1>1, <3>4, <4>1 DEF RunFits
      <4>3. told[n].status = "completed" /\ told[n].key = dirs[run[p].outputs[w].dir].key
        BY <3>2, <3>4 DEF Backtests!Record
      <4> QED BY <1>1, <3>1, <4>2, <4>3 DEF RunFits, OutputFits
    <3> QED BY <3>1, <3>3, <3>4
  <2>5. Backtests!FixedWindows' = Backtests!FixedWindows
    BY <1>1 DEF Backtests!FixedWindows
  <2>6. RunFits(r)'
    BY <1>1, <2>3, <2>4, <2>5 DEF RunFits, SummaryFits, OutputFits
  <2>7. Backtests!Put(p, r)
    BY <1>3, <2>1, <2>2
  <2> QED BY <1>1, <2>3, <2>6, <2>7, QuietRun, TheSame DEF RunsInv
<1> QED BY <1>2, <1>3 DEF Backtests!Summarize

\* A step that leaves the runs and the directories alone.
LEMMA RunsAlone ==
    ASSUME RunsInv, UNCHANGED <<start, dirs, run>>, edition' \in 1 .. Editions, faults' \in 0 .. MaxFaults,
           OneTask', PageFits', task' \in [WebRun -> {None, "running", "completed", "failed"}]
    PROVE  RunsInv'
<1>1. \A q \in Runs : RunFits(run[q])'
  <2> TAKE q \in Runs
  <2>1. PICK c : c = run[q]
    OBVIOUS
  <2>2. RunFits(c) /\ DirsGrow
    BY <2>1, SameDirs DEF RunsInv
  <2>3. RunFits(c)'
    BY <2>2, RunStays
  <2> QED BY <2>1, <2>3 DEF RunFits, OutputFits, SummaryFits
<1> QED BY <1>1, SameDirs DEF RunsInv, Writes

LEMMA TaskEndsKeeps == ASSUME RunsInv, NEW p \in WebRun, Backtests!TaskEnds(p) PROVE RunsInv'
<1>1. OneTask' /\ task' \in [WebRun -> {None, "running", "completed", "failed"}]
  BY DEF Backtests!TaskEnds, RunsInv, OneTask
<1>2. UNCHANGED <<start, edition, dirs, run, page, faults>>
  BY DEF Backtests!TaskEnds
<1>3. PageFits'
  BY <1>2 DEF PageFits, RunsInv
<1> QED BY <1>1, <1>2, <1>3, RunsAlone DEF RunsInv

LEMMA EditKeeps == ASSUME BacktestConstants, RunsInv, Backtests!EditStrategy PROVE RunsInv'
<1>1. UNCHANGED <<start, dirs, run, task, page, faults>> /\ edition' \in 1 .. Editions
  BY DEF Backtests!EditStrategy, RunsInv, BacktestConstants
<1>2. PageFits'
  BY <1>1 DEF PageFits, RunsInv
<1> QED BY <1>1, <1>2, RunsAlone, TheSame DEF RunsInv

LEMMA GetKeeps ==
    ASSUME RunsInv, NEW from \in 1 .. Backtests!LastDay, NEW to \in 1 .. Backtests!LastDay, Backtests!GetBacktest(from, to)
    PROVE  RunsInv'
<1>1. PICK i \in Backtests!Covering(from, to) : page' = [first |-> from, last |-> to, dir |-> i]
  BY DEF Backtests!GetBacktest
<1>2. UNCHANGED <<start, edition, dirs, run, task, faults>>
  BY DEF Backtests!GetBacktest
<1>3. /\ i \in DOMAIN dirs /\ "report" \in dirs[i].files /\ dirs[i].key.window.last = to
      /\ dirs[i].key.window.first <= from
  BY <1>1 DEF Backtests!Covering
<1>4. Backtests!Asked \subseteq dirs[i].files
  <2>1. dirs[i].files = Backtests!Range(Backtests!Files)
    BY <1>3 DEF RunsInv, DirsInv, DirFits
  <2>2. Backtests!Asked \subseteq Backtests!Range(Backtests!Files)
    <3>1. \A k \in 1 .. 5 : Backtests!Files[k] \in Backtests!Range(Backtests!Files)
      BY DEF Backtests!Files, Backtests!Range
    <3> QED BY <3>1 DEF Backtests!Files, Backtests!Asked
  <2> QED BY <2>1, <2>2
<1>5. PageFits'
  BY <1>1, <1>2, <1>3, <1>4 DEF PageFits
<1> QED BY <1>2, <1>5, RunsAlone, TheSame DEF RunsInv

LEMMA RunsStep == BacktestConstants /\ RunsInv /\ [Backtests!Next]_Backtests!vars => RunsInv'
<1> SUFFICES ASSUME BacktestConstants, RunsInv, [Backtests!Next]_Backtests!vars PROVE RunsInv'
  OBVIOUS
<1>1. CASE UNCHANGED Backtests!vars
  <2>1. UNCHANGED <<start, edition, dirs, run, task, page, faults>>
    BY <1>1 DEF Backtests!vars
  <2>2. PageFits'
    BY <2>1 DEF PageFits, RunsInv
  <2> QED BY <2>1, <2>2, RunsAlone, TheSame DEF RunsInv
<1>2. ASSUME NEW p \in Runs, Backtests!Step(p) PROVE RunsInv'
  <2>1. CASE Backtests!Look(p)
    BY <2>1, LookKeeps
  <2>2. CASE Backtests!NoData(p)
    BY <2>2, NoDataKeeps
  <2>3. CASE Backtests!Unaligned(p)
    BY <2>3, RunStops DEF Backtests!Unaligned
  <2>4. CASE Backtests!Compute(p)
    BY <2>4, ComputeKeeps
  <2>5. CASE Backtests!WriteFile(p)
    BY <2>5, WriteFileKeeps
  <2>6. CASE Backtests!Replace(p)
    BY <2>6, ReplaceKeeps
  <2>7. CASE Backtests!WriteFails(p)
    BY <2>7, WriteFailsKeeps
  <2>8. CASE Backtests!Kill(p)
    BY <2>8, RunStops DEF Backtests!Kill
  <2>9. CASE Backtests!Summarize(p)
    BY <2>9, SummarizeKeeps
  <2> QED BY <1>2, <2>1, <2>2, <2>3, <2>4, <2>5, <2>6, <2>7, <2>8, <2>9 DEF Backtests!Step
<1>3. ASSUME NEW p \in Runs, NEW many \in BOOLEAN, NEW rerun \in BOOLEAN, Backtests!Begin(p, many, rerun) PROVE RunsInv'
  BY <1>3, RunBegins
<1>4. ASSUME NEW p \in WebRun, Backtests!StartBacktest(p) \/ Backtests!TaskEnds(p) \/ Backtests!TaskLost(p) PROVE RunsInv'
  <2>1. p \in Runs
    BY DEF BacktestConstants
  <2>2. CASE Backtests!TaskLost(p)
    BY <2>1, <2>2, RunStops DEF Backtests!TaskLost
  <2> QED BY <1>4, <2>2, StartKeeps, TaskEndsKeeps
<1>5. ASSUME NEW from \in 1 .. Backtests!LastDay, NEW to \in 1 .. Backtests!LastDay, Backtests!GetBacktest(from, to) PROVE RunsInv'
  BY <1>5, GetKeeps
<1> QED BY <1>1, <1>2, <1>3, <1>4, <1>5, EditKeeps DEF Backtests!Next

LEMMA RunsSoundOf == BacktestConstants /\ RunsInv => Backtests!RunsTypeOK /\ Backtests!RunsSound
<1> SUFFICES ASSUME BacktestConstants, RunsInv PROVE Backtests!RunsTypeOK /\ Backtests!RunsSound
  OBVIOUS
<1>1. Backtests!RunsTypeOK
  BY DEF RunsInv, Backtests!RunsTypeOK, DirsInv, DirFits
<1>2. ASSUME NEW p \in Runs, NEW w \in DOMAIN run[p].outputs
      PROVE  LET d == dirs[run[p].outputs[w].dir]
             IN d.key = run[p].outputs[w].key /\ d.key.window = w /\ Backtests!Asked \subseteq d.files
  BY DEF RunsInv, RunFits, OutputFits
<1>3. ASSUME NEW p \in Runs, run[p].summary # None PROVE SummaryFits(run[p])
  BY <1>3 DEF RunsInv, RunFits
<1>4. \A i \in DOMAIN dirs : dirs[i].at = "final" => Backtests!Range(Backtests!Files) = dirs[i].files
  BY DEF RunsInv, DirsInv, DirFits
<1>5. page # None => /\ Backtests!Asked \subseteq dirs[page.dir].files /\ dirs[page.dir].key.window.first <= page.first
                     /\ dirs[page.dir].key.window.last = page.last
  BY DEF RunsInv, PageFits
<1>6. \A p, q \in WebRun : task[p] = "running" /\ task[q] = "running" => p = q
  BY DEF RunsInv, OneTask
<1> QED BY <1>1, <1>2, <1>3, <1>4, <1>5, <1>6 DEF Backtests!RunsSound, SummaryFits

(* What a run takes for its result and what a summary or a page shows, of   *)
(* radar_backtest, the walk-forward and get_backtest, for any calendar,     *)
(* processes, changes of the configuration and ends at every step.          *)
THEOREM RunsAreSound == BacktestConstants /\ Backtests!Spec => [](Backtests!RunsTypeOK /\ Backtests!RunsSound)
<1> SUFFICES ASSUME BacktestConstants PROVE Backtests!Spec => [](Backtests!RunsTypeOK /\ Backtests!RunsSound)
  OBVIOUS
<1>1. Backtests!Init => RunsInv
  BY RunsInit
<1>2. RunsInv /\ [Backtests!Next]_Backtests!vars => RunsInv'
  BY RunsStep
<1>3. RunsInv => Backtests!RunsTypeOK /\ Backtests!RunsSound
  BY RunsSoundOf
<1> QED BY <1>1, <1>2, <1>3, PTL DEF Backtests!Spec

(* _replace_with_retry gives a directory its name and nothing touches it any *)
(* more, whatever other runs do or are killed at.                            *)
THEOREM FinishedStay == BacktestConstants /\ Backtests!Spec => [][Backtests!FinishedRunsStay]_Backtests!vars
<1> SUFFICES ASSUME BacktestConstants PROVE Backtests!Spec => [][Backtests!FinishedRunsStay]_Backtests!vars
  OBVIOUS
<1>1. Backtests!Init => RunsInv
  BY RunsInit
<1>2. RunsInv /\ [Backtests!Next]_Backtests!vars => RunsInv'
  BY RunsStep
<1>3. RunsInv /\ [Backtests!Next]_Backtests!vars => [Backtests!FinishedRunsStay]_Backtests!vars
  <2> SUFFICES ASSUME RunsInv, Backtests!Next, NEW i \in DOMAIN dirs, dirs[i].at = "final" PROVE dirs'[i] = dirs[i]
    BY DEF Backtests!FinishedRunsStay
  <2>1. CASE UNCHANGED dirs
    BY <2>1
  <2>2. ASSUME NEW p \in Runs, Backtests!Compute(p) PROVE dirs'[i] = dirs[i]
    <3>1. PICK S : dirs \in Seq(S)
      BY DEF RunsInv, DirsInv
    <3> QED BY <2>2, <3>1 DEF Backtests!Compute
  <2>3. ASSUME NEW p \in Runs, Backtests!WriteFile(p) \/ Backtests!Replace(p) \/ Backtests!WriteFails(p) PROVE dirs'[i] = dirs[i]
    <3>1. run[p].dir # i
      BY <2>3 DEF RunsInv, RunFits, Backtests!WriteFile, Backtests!Replace, Backtests!WriteFails
    <3> QED BY <2>3, <3>1 DEF Backtests!WriteFile, Backtests!Replace, Backtests!WriteFails
  <2>4. Backtests!Next => UNCHANGED dirs \/ \E p \in Runs : Backtests!Compute(p) \/ Backtests!WriteFile(p) \/ Backtests!Replace(p) \/ Backtests!WriteFails(p)
    BY DEF Backtests!Next, Backtests!Step, Backtests!Look, Backtests!NoData, Backtests!Unaligned, Backtests!Kill,
           Backtests!Summarize, Backtests!Begin, Backtests!StartBacktest, Backtests!TaskEnds, Backtests!TaskLost,
           Backtests!EditStrategy, Backtests!GetBacktest
  <2> QED BY <2>1, <2>2, <2>3, <2>4
<1> QED BY <1>1, <1>2, <1>3, PTL DEF Backtests!Spec

-----------------------------------------------------------------------------
(* RadarBacktest.  Two worlds that are the same up to a day have the same    *)
(* rows, last prices, scores and choices on every day up to it, and so the   *)
(* same book after each of its steps (RotationInv).                          *)

CONSTANTS Assets, Category, Month, Histories, Benchmarks, InitialCash
VARIABLES world, split, bench, dates, day, book, ended

Rotation == INSTANCE RadarBacktest WITH Symbols <- Assets

LEMMA LeastIs == ASSUME NEW S \in SUBSET Nat, S # {} PROVE Rotation!Min(S) \in S /\ \A m \in S : Rotation!Min(S) <= m
<1>1. PICK n \in S : \A m \in S : n <= m
  BY LeastOf
<1> QED BY <1>1 DEF Rotation!Min

LEMMA GreatestIs == ASSUME NEW n \in Nat, NEW S \in SUBSET (0 .. n), S # {} PROVE Rotation!Max(S) \in S
<1>0. n \in Int /\ S \subseteq Nat /\ \A x \in S : x <= n
  OBVIOUS
<1>1. PICK m \in S : \A j \in S : j <= m
  BY <1>0, GreatestOf
<1>2. \A j \in S : m >= j
  BY <1>1
<1> QED BY <1>2 DEF Rotation!Max

\* The days are numbers; the two histories of a pair have rows of the same days.
RotationConstants ==
    /\ Rotation!Days \subseteq Nat
    /\ \A h \in Histories, s \in Assets, d \in Rotation!Days : h[1][s][d] = Rotation!Absent <=> h[2][s][d] = Rotation!Absent

SameRows == \A s \in Assets, d \in Rotation!Days : world[1][s][d] = Rotation!Absent <=> world[2][s][d] = Rotation!Absent
SameUntil == \A s \in Assets, d \in Rotation!Days : d <= split => world[1][s][d] = world[2][s][d]
RotationInv ==
    /\ SameRows /\ SameUntil /\ split \in Nat /\ day \in Nat
    /\ dates # None => dates \subseteq Rotation!Days
    /\ \A w \in Rotation!Worlds : /\ "plan" \in DOMAIN book[w] /\ "equity" \in DOMAIN book[w]
                                  /\ book[w].plan # None => book[w].plan \subseteq Assets
    /\ Rotation!NoLookAhead

LEMMA RotationInit == RotationConstants /\ Rotation!Init => RotationInv
<1> SUFFICES ASSUME RotationConstants, Rotation!Init PROVE RotationInv
  OBVIOUS
<1>1. PICK h \in Histories, k \in Rotation!Days :
         /\ split = k
         /\ world = [w \in Rotation!Worlds |-> [s \in Assets |-> [d \in Rotation!Days |-> h[IF d <= k THEN 1 ELSE w][s][d]]]]
  BY DEF Rotation!Init
<1>2. ASSUME NEW s \in Assets, NEW d \in Rotation!Days
      PROVE  /\ world[1][s][d] = h[1][s][d]
             /\ world[2][s][d] = h[IF d <= k THEN 1 ELSE 2][s][d]
  BY <1>1 DEF Rotation!Worlds
<1>3. SameUntil
  BY <1>1, <1>2 DEF SameUntil
<1>4. SameRows
  BY <1>2 DEF SameRows, RotationConstants
<1>5. book[1] = book[2]
  BY DEF Rotation!Init, Rotation!Worlds
<1>6. \A w \in Rotation!Worlds : book[w] = Rotation!Opening
  BY DEF Rotation!Init
<1>7. \A w \in Rotation!Worlds : "plan" \in DOMAIN book[w] /\ "equity" \in DOMAIN book[w] /\ book[w].plan = None
  BY <1>6 DEF Rotation!Opening
<1> QED BY <1>1, <1>3, <1>4, <1>5, <1>7 DEF RotationInv, RotationConstants, Rotation!NoLookAhead, Rotation!Init

\* What a world shows up to a day before the split, the other shows too.
LEMMA RowsAgree ==
    ASSUME RotationConstants, SameRows, SameUntil, split \in Nat, NEW d \in Rotation!Days, d <= split, NEW s \in Assets
    PROVE  /\ Rotation!Rows(1, s, d) = Rotation!Rows(2, s, d)
           /\ Rotation!LastClose(1, s, d) = Rotation!LastClose(2, s, d)
           /\ Rotation!Score(1, s, d) = Rotation!Score(2, s, d)
<1>1. PICK rows : rows = Rotation!Rows(1, s, d)
  OBVIOUS
<1>2. rows = Rotation!Rows(2, s, d)
  BY <1>1 DEF Rotation!Rows, SameRows
<1>3. rows \in SUBSET (0 .. d) /\ d \in Nat /\ \A e \in rows : e \in Rotation!Days /\ e \in Nat /\ e <= d
  <2>1. d \in Nat
    BY DEF RotationConstants
  <2>2. \A e \in rows : e \in Rotation!Days /\ e <= d
    BY <1>1 DEF Rotation!Rows
  <2>3. \A e \in rows : e \in Nat
    BY <2>2 DEF RotationConstants
  <2> QED BY <2>1, <2>2, <2>3
<1>4. \A e \in rows : world[1][s][e] = world[2][s][e]
  BY <1>3 DEF SameUntil
<1>5. rows # {} => Rotation!Max(rows) \in rows
  BY <1>3, GreatestIs
<1>6. Rotation!LastClose(1, s, d) = Rotation!LastClose(2, s, d)
  BY <1>1, <1>2, <1>4, <1>5 DEF Rotation!LastClose
<1>7. PICK seen : seen = {e \in rows : Rotation!Has(world[1][s][e])}
  OBVIOUS
<1>8. seen = {e \in rows : Rotation!Has(world[2][s][e])}
  BY <1>4, <1>7
<1>9. seen \in SUBSET (0 .. d) /\ seen \subseteq rows
  BY <1>3, <1>7
<1>10. seen # {} => Rotation!Max(seen) \in seen
  BY <1>3, <1>9, GreatestIs
<1>11. seen # {} => world[1][s][Rotation!Max(seen)] = world[2][s][Rotation!Max(seen)]
  BY <1>4, <1>9, <1>10
<1>12. Rotation!Score(1, s, d) = Rotation!Score(2, s, d)
  BY <1>1, <1>2, <1>7, <1>8, <1>11 DEF Rotation!Score, Rotation!Window
<1> QED BY <1>1, <1>2, <1>6, <1>12

LEMMA ChoicesAgree ==
    ASSUME RotationConstants, SameRows, SameUntil, split \in Nat, NEW d \in Rotation!Days, d <= split
    PROVE  Rotation!ChoicesAt(1, d) = Rotation!ChoicesAt(2, d)
<1>1. \A s \in Assets : Rotation!Score(1, s, d) = Rotation!Score(2, s, d)
  BY RowsAgree
<1>2. \A s \in Assets : Rotation!Best(1, s, d) <=> Rotation!Best(2, s, d)
  BY <1>1 DEF Rotation!Best
<1> QED BY <1>1, <1>2 DEF Rotation!ChoicesAt

LEMMA EquityAgrees ==
    ASSUME RotationConstants, SameRows, SameUntil, split \in Nat, NEW d \in Rotation!Days, d <= split, NEW b
    PROVE  Rotation!Equity(1, b, d) = Rotation!Equity(2, b, d)
<1>1. \A s \in Assets : Rotation!LastClose(1, s, d) = Rotation!LastClose(2, s, d)
  BY RowsAgree
<1>2. [s \in Assets |-> b.shares[s] * Rotation!LastClose(1, s, d)] = [s \in Assets |-> b.shares[s] * Rotation!LastClose(2, s, d)]
  BY <1>1
<1> QED BY <1>2 DEF Rotation!Equity

LEMMA RebalancedAgree ==
    ASSUME SameUntil, NEW d \in Rotation!Days, d <= split, NEW b, b.plan \subseteq Assets
    PROVE  Rotation!Rebalanced(1, b, d) = Rotation!Rebalanced(2, b, d)
<1>1. \A s \in Assets : world[1][s][d] = world[2][s][d]
  BY DEF SameUntil
<1>2. \A S \in SUBSET Assets : Rotation!Tradable(1, S, d) = Rotation!Tradable(2, S, d)
  BY <1>1 DEF Rotation!Tradable
<1>3. Rotation!Sold(1, b, d) = Rotation!Sold(2, b, d)
  <2>1. PICK held : held = {s \in Assets : b.shares[s] > 0}
    OBVIOUS
  <2>2. PICK out : out = Rotation!Tradable(1, held, d)
    OBVIOUS
  <2>3. out = Rotation!Tradable(2, held, d) /\ out \subseteq Assets
    BY <1>2, <2>1, <2>2 DEF Rotation!Tradable
  <2>4. [s \in out |-> b.shares[s] * world[1][s][d]] = [s \in out |-> b.shares[s] * world[2][s][d]]
    BY <1>1, <2>3
  <2> QED BY <2>1, <2>2, <2>3, <2>4 DEF Rotation!Sold
<1>4. PICK c : c = Rotation!Sold(1, b, d)
  OBVIOUS
<1>5. Rotation!Bought(1, c, b.plan, d) = Rotation!Bought(2, c, b.plan, d)
  <2>1. PICK in : in = Rotation!Tradable(1, b.plan, d)
    OBVIOUS
  <2>2. in = Rotation!Tradable(2, b.plan, d) /\ in \subseteq Assets
    BY <1>2, <2>1 DEF Rotation!Tradable
  <2>3. PICK part : part = Rotation!Budget(c.cash, Rotation!Cardinality(in))
    OBVIOUS
  <2>4. [s \in Assets |-> IF s \in in THEN part \div world[1][s][d] ELSE c.shares[s]]
        = [s \in Assets |-> IF s \in in THEN part \div world[2][s][d] ELSE c.shares[s]]
    BY <1>1
  <2> QED BY <2>1, <2>2, <2>3, <2>4, Zenon DEF Rotation!Bought
<1> QED BY <1>3, <1>4, <1>5 DEF Rotation!Rebalanced

LEMMA RotationStep == RotationConstants /\ RotationInv /\ [Rotation!Next]_Rotation!vars => RotationInv'
<1> SUFFICES ASSUME RotationConstants, RotationInv, [Rotation!Next]_Rotation!vars PROVE RotationInv'
  OBVIOUS
<1>1. CASE UNCHANGED Rotation!vars
  BY <1>1 DEF RotationInv, SameRows, SameUntil, Rotation!NoLookAhead, Rotation!vars, Rotation!Days, Rotation!Worlds
<1>2. CASE Rotation!Trim
  <2>1. Rotation!Trimmed \subseteq Rotation!Days
    BY DEF Rotation!Trimmed, Rotation!TradingDates
  <2> QED BY <1>2, <2>1 DEF Rotation!Trim, RotationInv, SameRows, SameUntil, Rotation!NoLookAhead
<1>3. CASE Rotation!End
  BY <1>3 DEF Rotation!End, RotationInv, SameRows, SameUntil, Rotation!NoLookAhead
<1>4. CASE Rotation!NextDay
  <2>1. PICK rest : rest = Rotation!After(day)
    OBVIOUS
  <2>2. \A e \in rest : e \in Rotation!Days /\ e \in Nat /\ e > day
    <3>1. dates \subseteq Rotation!Days
      BY <1>4 DEF RotationInv, Rotation!NextDay
    <3>2. \A e \in rest : e \in Rotation!Days /\ e > day
      BY <2>1, <3>1 DEF Rotation!After
    <3> QED BY <3>2 DEF RotationConstants
  <2>3. rest # {}
    BY <1>4, <2>1 DEF Rotation!NextDay
  <2>4. PICK d : d = Rotation!Min(rest)
    OBVIOUS
  <2>5. d \in rest
    BY <2>2, <2>3, <2>4, LeastIs
  <2>6. d \in Rotation!Days /\ d \in Nat /\ d > day
    BY <2>2, <2>5
  <2> DEFINE Done(w) == IF book[w].plan = None THEN book[w] ELSE Rotation!Rebalanced(w, book[w], d)
             Plan(w) == IF Rotation!MonthEnd(d) /\ Rotation!After(d) # {} THEN Rotation!ChoicesAt(w, d) ELSE None
  <2>7. book' = [w \in Rotation!Worlds |-> [Done(w) EXCEPT !.plan = Plan(w), !.equity = Rotation!Equity(w, Done(w), d)]]
    BY <1>4, <2>1, <2>4, Zenon DEF Rotation!NextDay
  <2>8. day' = d
    BY <1>4, <2>1, <2>4, Zenon DEF Rotation!NextDay
  <2>9. UNCHANGED <<world, split, bench, dates, ended>>
    BY <1>4, Zenon DEF Rotation!NextDay
  <2>10. ASSUME NEW w \in Rotation!Worlds
         PROVE  /\ "plan" \in DOMAIN book'[w] /\ "equity" \in DOMAIN book'[w]
                /\ book'[w].plan # None => book'[w].plan \subseteq Assets
    <3>1. PICK x : x = Done(w)
      OBVIOUS
    <3>2. "plan" \in DOMAIN x /\ "equity" \in DOMAIN x
      BY <3>1 DEF RotationInv, Rotation!Rebalanced, Rotation!Bought, Rotation!Sold
    <3>3. PICK p : p = Plan(w)
      OBVIOUS
    <3>4. p # None => p \subseteq Assets
      BY <3>3 DEF Rotation!ChoicesAt
    <3>5. book'[w] = [x EXCEPT !.plan = p, !.equity = Rotation!Equity(w, x, d)]
      BY <2>7, <3>1, <3>3, Zenon
    <3> HIDE DEF Done, Plan
    <3> QED BY <3>2, <3>4, <3>5
  <2>11. ASSUME d <= split PROVE book'[1] = book'[2]
    <3>1. day <= split /\ split \in Nat /\ SameRows /\ SameUntil
      BY <2>6, <2>11 DEF RotationInv
    <3>2. book[1] = book[2]
      BY <3>1 DEF RotationInv, Rotation!NoLookAhead
    <3>3. book[1].plan # None => Rotation!Rebalanced(1, book[1], d) = Rotation!Rebalanced(2, book[1], d)
      BY <2>6, <2>11, <3>1, RebalancedAgree DEF RotationInv, Rotation!Worlds
    <3>4. Done(1) = Done(2)
      BY <3>2, <3>3, Zenon
    <3>5. Rotation!ChoicesAt(1, d) = Rotation!ChoicesAt(2, d)
      BY <2>6, <2>11, <3>1, ChoicesAgree
    <3>6. Plan(1) = Plan(2)
      BY <3>5, Zenon
    <3>7. PICK x : x = Done(1)
      OBVIOUS
    <3>8. Rotation!Equity(1, x, d) = Rotation!Equity(2, x, d)
      BY <2>6, <2>11, <3>1, EquityAgrees
    <3>9. PICK p : p = Plan(1)
      OBVIOUS
    <3>10. /\ book'[1] = [x EXCEPT !.plan = p, !.equity = Rotation!Equity(1, x, d)]
           /\ book'[2] = [x EXCEPT !.plan = p, !.equity = Rotation!Equity(2, x, d)]
      BY <2>7, <3>4, <3>6, <3>7, <3>9, Zenon DEF Rotation!Worlds
    <3> QED BY <3>8, <3>10, Zenon
  <2> HIDE DEF Done, Plan
  <2> QED BY <2>6, <2>8, <2>9, <2>10, <2>11 DEF RotationInv, SameRows, SameUntil, Rotation!NoLookAhead
<1> QED BY <1>1, <1>2, <1>3, <1>4 DEF Rotation!Next

\* While the prices are the same, so is all a rotation does: orders, trades and values of
\* a day rest on no row of a day after it, for any instruments, prices and benchmarks.
THEOREM NothingAhead == RotationConstants /\ Rotation!Spec => []Rotation!NoLookAhead
<1> SUFFICES ASSUME RotationConstants PROVE Rotation!Spec => []Rotation!NoLookAhead
  OBVIOUS
<1>1. Rotation!Init => RotationInv
  BY RotationInit
<1>2. RotationInv /\ [Rotation!Next]_Rotation!vars => RotationInv'
  BY RotationStep
<1>3. RotationInv => Rotation!NoLookAhead
  BY DEF RotationInv
<1> QED BY <1>1, <1>2, <1>3, PTL DEF Rotation!Spec

-----------------------------------------------------------------------------
(* RadarHistory, of one synchronizer.  The rows of a source are whole (Kept); *)
(* a refresh asks from behind a day that is stored, or from the first one     *)
(* (Touches), so that no hole is left.  Until the instrument has been left    *)
(* alone for longer than the overlap (past) the rows are of one base as well: *)
(* the refresh asks from a stored day, so that an answer of another base is   *)
(* noticed and all that is stored is fetched again (GotFits, Reaches).        *)

CONSTANTS Syncs, Chain, Listings, Overlap, MaxBase, Answers
VARIABLES prices, asked, missing, selected, pinned, base, listed, today, sync, crowd, past

History == INSTANCE RadarHistory

\* One synchronizer; requests begin on one day, and no answer holds the last day only.
HistoryConstants ==
    /\ LastDay \in Nat /\ LastDay >= 2 /\ Overlap \in Nat \ {0} /\ MaxBase \in Nat \ {0}
    /\ Listings \subseteq [History!Sources -> History!Days] /\ None \notin History!Sources /\ None \notin History!Days
    /\ \A a, f, l \in History!Days : [asked |-> a, first |-> f, last |-> l, missing |-> {}] # None
    /\ "last" \notin Answers /\ Chain \in Seq(History!Sources)
    /\ \A t, u \in Syncs : t = u
    /\ \E d \in History!Days : Starts = {d}

Opening == CHOOSE d \in Starts : TRUE
From(s) == History!Larger(Opening, listed[s])
\* The rows of a source from its first day to day l, of the bases b.
Bases == [History!Days -> 1 .. MaxBase]
Series(s, l, b) == [d \in History!Days |-> IF d \in From(s) .. l THEN b[d] ELSE 0]
\* Rows of one base, as long as nothing has brought two together.
Even(b) == past = {} => \A c, d \in History!Days : b[c] = b[d]

\* What is stored of a source is whole, up to some day.
Kept(s) ==
    \/ prices[s] = History!NoRows /\ asked[s] = None
    \/ /\ asked[s] \in History!Days
       /\ \E l \in History!Days, b \in Bases : From(s) <= l /\ l <= today /\ prices[s] = Series(s, l, b) /\ Even(b)
TablesFit ==
    /\ DOMAIN prices = History!Sources /\ DOMAIN asked = History!Sources /\ DOMAIN missing = History!Sources /\ DOMAIN pinned = History!Days
    /\ listed \in [History!Sources -> History!Days] /\ base \in [History!Sources -> 1 .. MaxBase] /\ today \in History!Days /\ today >= 2
    /\ \A s \in History!Sources : Kept(s) /\ missing[s] = {}
    /\ crowd = {} /\ "raced" \notin past

Stored(s, d) == s \in History!Sources /\ d \in History!Days /\ prices[s][d] # 0
\* A source with rows; they end no longer than the overlap before day e.
Near(s, e) == \E d \in History!Days : Stored(s, d) /\ (past = {} => e - d <= Overlap)
PointersFit ==
    /\ selected # None => Near(selected, today)
    /\ \A d \in History!Days : pinned[d] # None => Stored(pinned[d], d)

\* A request from day f follows what is stored of the source up to day e, or meets it.
Follows(s, f, e) == \E d \in History!Days : f <= d + 1 /\ d <= e /\ Stored(s, d) /\ (past = {} => f <= d)
Touches(s, f, e) == From(s) > e \/ Follows(s, f, e)
CoverFits(r) ==
    IF r.key = None THEN r.cover = None
    ELSE Near(r.key, r.end) /\ r.cover # None /\ r.cover.first = From(r.key) /\ r.cover.missing = {} /\ r.cover.asked \in History!Days
GotFits(r) ==
    /\ r.got.first \in History!Days /\ From(r.got.source) <= r.got.first /\ r.got.first <= r.end
    /\ prices[r.got.source] = History!NoRows => r.got.first = From(r.got.source)
    /\ prices[r.got.source] # History!NoRows => Follows(r.got.source, r.got.first, r.end)
Reaches(r) ==
    /\ r.to \in History!Days /\ r.end <= r.to /\ r.to <= today /\ From(r.got.source) <= r.end
    /\ \A d \in History!Days : Stored(r.got.source, d) => d <= r.to

Planning == {"cached", "fetch", "whole", "old", "range", "rebuild", "merge"}
Holding == {"old", "range", "rebuild", "merge", "select"}
Active == Planning \union Holding \union {"key", "cover", "check", "pin", "read"}

HandFits(r) ==
    /\ DOMAIN r = DOMAIN History!Idle /\ r.pc \in Active \union {"idle", "done", "failed"}
    /\ r.pc \in Active => /\ r.start = Opening /\ r.end \in History!Days /\ Opening <= r.end
                          /\ r.end <= today /\ today <= r.end + 1
    /\ r.pc = "key" => r.key = None /\ r.cover = None /\ ~r.rebuilt /\ r.rows = History!NoRows
    /\ r.pc = "cover" => Near(r.key, r.end) /\ r.key # None /\ ~r.rebuilt
    /\ r.pc \in Planning => CoverFits(r)
    /\ r.pc = "cached" => r.key # None /\ ~r.rebuilt
    /\ r.pc = "fetch" => /\ r.to = r.end /\ ~r.rebuilt /\ r.from \in Int /\ Opening <= r.from
                         /\ IF r.key = None THEN r.from = Opening ELSE Touches(r.key, r.from, r.end)
    /\ r.pc = "whole" => r.to = r.end /\ ~r.rebuilt
    /\ r.pc \in Holding => r.got.source \in History!Sources /\ r.got.base \in 1 .. MaxBase
    /\ r.pc = "old" => r.to = r.end /\ ~r.rebuilt /\ r.from \in History!Days /\ GotFits(r)
    /\ r.pc = "range" => From(r.got.source) <= r.end /\ prices[r.got.source] # History!NoRows
    /\ r.pc = "rebuild" => Reaches(r) /\ r.from = Opening /\ r.rebuilt /\ History!RowsOf(r.rows) = {}
    /\ r.pc = "merge" =>
          /\ r.from \in History!Days
          /\ IF r.rebuilt THEN Reaches(r) /\ r.got.first = From(r.got.source) /\ r.rows = History!NoRows
             ELSE /\ r.to = r.end /\ GotFits(r) /\ r.rows = History!Between(prices[r.got.source], Opening, r.end)
                  /\ \A d \in History!Days : r.got.first <= d /\ d <= r.end => prices[r.got.source][d] \in {0, r.got.base}
    /\ r.pc = "select" => Stored(r.got.source, r.end)
    /\ r.pc \in {"check", "pin", "read"} => Stored(r.key, r.end)
    /\ r.pc = "done" => /\ r.start = Opening /\ r.end \in History!Days /\ r.key \in History!Sources /\ From(r.key) <= r.end
                        /\ \E b \in Bases : r.rows = Series(r.key, r.end, b) /\ Even(b)

HistoryInv == TablesFit /\ PointersFit /\ DOMAIN sync = Syncs /\ \A t \in Syncs : HandFits(sync[t])

-----------------------------------------------------------------------------
\* How the instance counts.
LEMMA HistoryCounts == \A S : History!Cardinality(S) = Cardinality(S)
  BY Zenon DEF History!Cardinality, Cardinality

LEMMA OpeningIs == ASSUME HistoryConstants PROVE Opening \in History!Days /\ Starts = {Opening} /\ History!Days = 1 .. LastDay /\ History!Days \subseteq Nat
<1>1. PICK d \in History!Days : Starts = {d}
  BY DEF HistoryConstants
<1>2. Opening = d
  BY <1>1 DEF Opening
<1> QED BY <1>1, <1>2 DEF HistoryConstants, History!Days

\* A row has a base.
LEMMA BaseIs == ASSUME HistoryConstants, NEW b \in Bases, NEW d \in History!Days PROVE b[d] \in 1 .. MaxBase /\ b[d] # 0
  BY DEF Bases, HistoryConstants

LEMMA HistoryInit == HistoryConstants /\ History!Init => HistoryInv
<1> SUFFICES ASSUME HistoryConstants, History!Init PROVE HistoryInv
  OBVIOUS
<1>1. TablesFit
  BY DEF HistoryConstants, History!Init, TablesFit, Kept, History!Days
<1>2. PointersFit
  BY DEF History!Init, PointersFit
<1>3. HandFits(History!Idle)
  BY DEF HandFits, History!Idle, Active, Planning, Holding
<1> QED BY <1>1, <1>2, <1>3 DEF HistoryInv, History!Init

\* The first and the last day of a series.
LEMMA SeriesEnds ==
    ASSUME HistoryConstants, NEW s \in History!Sources, listed \in [History!Sources -> History!Days], NEW l \in History!Days, From(s) <= l, NEW b \in Bases
    PROVE  /\ From(s) \in History!Days /\ History!RowsOf(Series(s, l, b)) = From(s) .. l
           /\ History!Min(History!RowsOf(Series(s, l, b))) = From(s) /\ History!Max(History!RowsOf(Series(s, l, b))) = l
<1>1. From(s) \in History!Days /\ Opening \in History!Days
  BY OpeningIs DEF From, History!Larger
<1>2. \A d \in From(s) .. l : d \in History!Days /\ Series(s, l, b)[d] # 0
  <2>1. From(s) \in Int /\ From(s) >= 1 /\ l \in Int /\ l <= LastDay /\ LastDay \in Int
    BY <1>1, OpeningIs DEF HistoryConstants
  <2>2. \A d \in From(s) .. l : d \in History!Days
    BY <2>1, OpeningIs
  <2> QED BY <2>2, BaseIs DEF Series
<1>3. \A d \in History!Days : d \notin From(s) .. l => Series(s, l, b)[d] = 0
  BY DEF Series
<1>4. PICK rows : rows = History!RowsOf(Series(s, l, b))
  OBVIOUS
<1>5. rows = From(s) .. l
  BY <1>2, <1>3, <1>4, OpeningIs DEF History!RowsOf
<1>6. From(s) \in Int /\ l \in Int
  BY <1>1, OpeningIs
<1>7. History!Min(rows) = From(s)
  <2>1. From(s) \in rows /\ \A y \in rows : From(s) =< y
    BY <1>5, <1>6
  <2>2. History!Min(rows) \in rows /\ \A y \in rows : History!Min(rows) =< y
    BY <2>1 DEF History!Min
  <2> QED BY <1>5, <1>6, <2>1, <2>2
<1>8. History!Max(rows) = l
  <2>1. l \in rows /\ \A y \in rows : l >= y
    BY <1>5, <1>6
  <2>2. History!Max(rows) \in rows /\ \A y \in rows : History!Max(rows) >= y
    BY <2>1 DEF History!Max
  <2> QED BY <1>5, <1>6, <2>1, <2>2
<1> QED BY <1>1, <1>4, <1>5, <1>7, <1>8

\* What the chain takes are all rows of the range, from where the source begins.
LEMMA TakenRows ==
    ASSUME HistoryConstants, NEW answer \in [DOMAIN Chain -> Answers], NEW f, NEW e, NEW open,
           NEW n, n = History!Taken(answer, f, e, open), n # 0, History!Outcome(Chain[n], answer[n], f, e, open) # "raised"
    PROVE  /\ n \in DOMAIN Chain /\ Chain[n] \in History!Sources /\ answer[n] = "rows" /\ ~(History!Larger(f, listed[Chain[n]]) > e)
<1>1. PICK ends : ends = {i \in DOMAIN Chain : History!Outcome(Chain[i], answer[i], f, e, open) \in {"rows", "last", "raised"}}
  OBVIOUS
<1>2. n = History!Min(ends) /\ ends # {}
  BY <1>1 DEF History!Taken
<1>3. n \in ends
  <2>1. ends \subseteq Nat
    BY <1>1 DEF HistoryConstants
  <2>2. PICK m \in ends : \A y \in ends : m <= y
    BY <1>2, <2>1, LeastOf
  <2> QED BY <1>2, <2>2 DEF History!Min
<1>4. History!Outcome(Chain[n], answer[n], f, e, open) \in {"rows", "last"} /\ n \in DOMAIN Chain
  BY <1>1, <1>3
<1>5. History!Reply(Chain[n], answer[n]).out \in {"rows", "last"} /\ ~(answer[n] \in {"rows", "short", "last"} /\ History!Larger(f, listed[Chain[n]]) > e)
  BY <1>4 DEF History!Outcome
<1>6. History!Plain(answer[n]) \in {"rows", "last"}
  BY <1>5 DEF History!Reply, History!AkShareReply, History!SinaReply, History!TencentReply, History!OfficialReply,
              History!LocalReply
<1>7. answer[n] \in {"rows", "last"}
  BY <1>6 DEF History!Plain
<1>8. answer[n] = "rows"
  BY <1>4, <1>7 DEF HistoryConstants
<1> QED BY <1>4, <1>5, <1>8 DEF History!Sources

LEMMA GotIs ==
    ASSUME HistoryConstants, TablesFit, NEW answer \in [DOMAIN Chain -> Answers], NEW f \in Int, NEW e \in Int, NEW open,
           NEW n, n = History!Taken(answer, f, e, open), n # 0, History!Outcome(Chain[n], answer[n], f, e, open) # "raised",
           NEW got, got = History!Fetched(n, answer[n], f, e)
    PROVE  /\ got.source \in History!Sources /\ got.base \in 1 .. MaxBase /\ got.first = History!Larger(f, listed[got.source])
           /\ got.first <= e /\ got.first \in Int
<1>1. n \in DOMAIN Chain /\ Chain[n] \in History!Sources /\ answer[n] = "rows" /\ ~(History!Larger(f, listed[Chain[n]]) > e)
  BY TakenRows
<1>2. got = [source |-> Chain[n], base |-> base[Chain[n]], first |-> History!Larger(f, listed[Chain[n]])]
  BY <1>1 DEF History!Fetched
<1>3. listed[Chain[n]] \in Int /\ base[Chain[n]] \in 1 .. MaxBase
  BY <1>1, OpeningIs DEF TablesFit
<1> QED BY <1>1, <1>2, <1>3 DEF History!Larger

LEMMA Moves ==
    ASSUME HistoryConstants, HistoryInv, NEW t \in Syncs, NEW h, History!Go(t, h), TablesFit', PointersFit', HandFits(h)'
    PROVE  HistoryInv'
<1>1. sync' = [sync EXCEPT ![t] = h] /\ DOMAIN sync = Syncs
  BY DEF History!Go, HistoryInv
<1>2. DOMAIN sync' = Syncs /\ sync'[t] = h
  BY <1>1
<1>3. \A u \in Syncs : sync'[u] = h
  BY <1>2 DEF HistoryConstants
<1>4. \A u \in Syncs : HandFits(sync[u])'
  BY <1>3
<1> QED BY <1>2, <1>4 DEF HistoryInv

LEMMA SameTables ==
    ASSUME HistoryInv, UNCHANGED <<History!tables, History!world>>, NEW h, HandFits(h)
    PROVE  TablesFit' /\ PointersFit' /\ HandFits(h)'
<1>1. /\ UNCHANGED prices /\ UNCHANGED asked /\ UNCHANGED missing /\ UNCHANGED selected /\ UNCHANGED pinned
      /\ UNCHANGED base /\ UNCHANGED listed /\ UNCHANGED today /\ UNCHANGED past /\ UNCHANGED crowd
  BY DEF History!tables, History!world
<1>2. \A s : From(s)' = From(s)
  BY <1>1 DEF From
<1>3. (\A s, l, b : Series(s, l, b)' = Series(s, l, b)) /\ (\A b : Even(b)' <=> Even(b))
  BY <1>1, <1>2 DEF Series, Even
<1>4. \A s : Kept(s)' <=> Kept(s)
  BY <1>1, <1>2, <1>3 DEF Kept
<1>5. TablesFit'
  BY <1>1, <1>4 DEF HistoryInv, TablesFit
<1>6. \A s, d : Stored(s, d)' <=> Stored(s, d)
  BY <1>1 DEF Stored
<1>7. (\A s, e : Near(s, e)' <=> Near(s, e)) /\ (\A s, f, e : Follows(s, f, e)' <=> Follows(s, f, e))
  BY <1>1, <1>6 DEF Near, Follows
<1>8. PointersFit'
  BY <1>1, <1>6, <1>7 DEF HistoryInv, PointersFit
<1>9. \A s, f, e : Touches(s, f, e)' <=> Touches(s, f, e)
  BY <1>2, <1>7 DEF Touches
<1>10. CoverFits(h)' <=> CoverFits(h)
  BY <1>2, <1>7 DEF CoverFits
<1>11. GotFits(h)' <=> GotFits(h)
  BY <1>1, <1>2, <1>7 DEF GotFits
<1>12. Reaches(h)' <=> Reaches(h)
  BY <1>1, <1>2, <1>6 DEF Reaches
<1>13. HandFits(h)'
  BY <1>1, <1>2, <1>3, <1>6, <1>7, <1>9, <1>10, <1>11, <1>12 DEF HandFits
<1> QED BY <1>5, <1>8, <1>13

LEMMA OnlyMoves ==
    ASSUME HistoryConstants, HistoryInv, NEW t \in Syncs, NEW h, History!Go(t, h), UNCHANGED <<History!tables, History!world>>, HandFits(h)
    PROVE  HistoryInv'
  BY Moves, SameTables

Asks(r) == /\ DOMAIN r = DOMAIN History!Idle /\ r.start = Opening /\ r.end \in History!Days /\ Opening <= r.end
           /\ r.end <= today /\ today <= r.end + 1

\* A request that fails, and one that starts anew without the cache.
LEMMA RefusedFits ==
    ASSUME NEW r, Asks(r)
    PROVE  HandFits(History!Refused(r)) /\ HandFits(History!Failed)
<1>1. HandFits(History!Failed)
  BY DEF HandFits, History!Failed, History!Idle, Active, Planning, Holding
<1>2. PICK h : h = [History!Idle EXCEPT !.pc = "key", !.mode = "sync", !.start = r.start, !.end = r.end, !.open = r.open]
  OBVIOUS
<1>3. /\ DOMAIN h = DOMAIN History!Idle /\ h.pc = "key" /\ h.start = r.start /\ h.end = r.end /\ h.key = None /\ h.cover = None
      /\ h.rebuilt = FALSE /\ h.rows = History!NoRows
  BY <1>2 DEF History!Idle
<1>4. HandFits(h)
  BY <1>3 DEF HandFits, Asks, Active, Planning, Holding
<1> QED BY <1>1, <1>2, <1>4 DEF History!Refused

\* All that is planned begins with the first day of the requests.
LEMMA BeginsAtOpening ==
    ASSUME HistoryConstants, TablesFit, NEW r, CoverFits(r), r.start = Opening
    PROVE  History!SyncStart(r) = Opening /\ History!Known(r) = {} /\ Opening \in History!Days
<1>1. Opening \in History!Days /\ Opening \in Int
  BY OpeningIs
<1>2. r.cover # None => r.key \in History!Sources /\ From(r.key) >= Opening /\ From(r.key) \in Int
  BY <1>1, OpeningIs DEF CoverFits, Near, Stored, TablesFit, From, History!Larger
<1> QED BY <1>1, <1>2 DEF History!SyncStart, History!Known, CoverFits, History!Smaller

LEMMA BetweenRows ==
    ASSUME NEW f, NEW s \in Int, NEW e \in Int, HistoryConstants
    PROVE  /\ History!RowsOf(History!Between(f, s, e)) = {d \in History!Days : s <= d /\ d <= e /\ f[d] # 0}
           /\ \A d \in History!Days : History!Between(f, s, e)[d] = IF s <= d /\ d <= e THEN f[d] ELSE 0
<1>1. \A d \in History!Days : d \in Int
  BY OpeningIs
<1>2. \A d \in History!Days : History!Between(f, s, e)[d] = IF s <= d /\ d <= e THEN f[d] ELSE 0
  BY <1>1 DEF History!Between
<1> QED BY <1>2 DEF History!RowsOf

\* What is stored of a source has no hole.
LEMMA NoHole ==
    ASSUME HistoryConstants, TablesFit, NEW s \in History!Sources, NEW d \in History!Days, Stored(s, d)
    PROVE  /\ From(s) \in History!Days /\ From(s) <= d
           /\ \A c \in History!Days : From(s) <= c /\ c <= d => Stored(s, c)
<1>1. PICK l \in History!Days, b \in Bases : From(s) <= l /\ prices[s] = Series(s, l, b)
  BY DEF TablesFit, Kept, Stored, History!NoRows
<1>2. From(s) \in History!Days
  BY <1>1, SeriesEnds DEF TablesFit
<1>3. d \in From(s) .. l
  BY <1>1 DEF Stored, Series
<1>4. \A c \in History!Days : c \in From(s) .. l => prices[s][c] # 0
  BY <1>1, BaseIs DEF Series
<1>5. From(s) \in Int /\ l \in Int /\ \A c \in History!Days : c \in Int
  BY <1>2, OpeningIs
<1>6. From(s) <= d /\ d <= l /\ d \in Int
  BY <1>3, <1>5
<1>7. ASSUME NEW c \in History!Days, From(s) <= c, c <= d PROVE Stored(s, c)
  <2>1. c \in From(s) .. l
    BY <1>5, <1>6, <1>7
  <2> QED BY <1>4, <2>1 DEF Stored
<1> QED BY <1>2, <1>6, <1>7

LEMMA RequestFits ==
    ASSUME HistoryConstants, TablesFit, NEW r, Asks(r), CoverFits(r), NEW from, from = History!RequestStart(r),
           r.rows = IF r.key = None THEN History!NoRows ELSE History!Between(prices[r.key], Opening, r.end)
    PROVE  /\ from \in Int /\ Opening <= from
           /\ IF r.key = None THEN from = Opening ELSE Touches(r.key, from, r.end)
<1>1. History!SyncStart(r) = Opening /\ History!Known(r) = {} /\ Opening \in History!Days /\ Opening \in Int /\ r.end \in Int
  BY BeginsAtOpening, OpeningIs DEF Asks
<1>2. PICK lost : lost = History!Gaps(r.rows, Opening, r.end)
  OBVIOUS
<1>3. PICK tail : tail = IF r.cover # None /\ r.cover.asked <= r.start /\ History!RowsOf(r.rows) # {}
                         THEN History!Larger(Opening, r.end - Overlap) ELSE Opening
  OBVIOUS
<1>4. from = IF lost = {} THEN tail ELSE History!Smaller(tail, History!Min(lost))
  <2>1. lost = History!Gaps(r.rows, History!SyncStart(r), r.end) \union (History!Known(r) \ History!RowsOf(r.rows))
    BY <1>1, <1>2
  <2> QED BY <1>1, <1>3, <2>1, Zenon DEF History!RequestStart
<1>5. tail \in Int /\ Opening <= tail /\ tail <= History!Larger(Opening, r.end - Overlap)
  BY <1>1, <1>3 DEF History!Larger, HistoryConstants
<1>6. \A d \in lost : d \in Int /\ Opening <= d
  <2>1. CASE History!RowsOf(r.rows) = {}
    BY <1>2, <2>1 DEF History!Gaps
  <2>2. CASE History!RowsOf(r.rows) # {}
    <3>1. History!RowsOf(r.rows) \subseteq Nat /\ History!RowsOf(r.rows) # {}
      BY <2>2, OpeningIs DEF History!RowsOf
    <3>2. History!Min(History!RowsOf(r.rows)) \in Int
      <4>1. PICK m \in History!RowsOf(r.rows) : \A y \in History!RowsOf(r.rows) : m <= y
        BY <3>1, LeastOf
      <4> QED BY <3>1, <4>1 DEF History!Min
    <3>3. lost \subseteq History!Larger(Opening, History!Min(History!RowsOf(r.rows))) .. r.end
      BY <1>2, <2>2 DEF History!Gaps
    <3> QED BY <1>1, <3>2, <3>3 DEF History!Larger
  <2> QED BY <2>1, <2>2
<1>7. lost # {} => History!Min(lost) \in lost
  <2>1. lost \subseteq Nat
    BY <1>1, <1>6, OpeningIs
  <2> SUFFICES ASSUME lost # {} PROVE History!Min(lost) \in lost
    OBVIOUS
  <2>2. PICK m \in lost : \A y \in lost : m <= y
    BY <2>1, LeastOf
  <2> QED BY <2>2 DEF History!Min
<1>8. from \in Int /\ Opening <= from /\ from <= tail
  BY <1>1, <1>4, <1>5, <1>6, <1>7 DEF History!Smaller
<1>9. CASE r.key = None
  <2>1. History!RowsOf(r.rows) = {}
    BY <1>9 DEF History!RowsOf, History!NoRows
  <2>2. lost = {} /\ tail = Opening
    BY <1>2, <1>3, <2>1 DEF History!Gaps
  <2> QED BY <1>4, <1>8, <1>9, <2>2
<1>10. CASE r.key # None
  <2>1. PICK d \in History!Days : Stored(r.key, d) /\ (past = {} => r.end - d <= Overlap)
    BY <1>10 DEF CoverFits, Near
  <2>2. r.key \in History!Sources /\ d \in Int /\ From(r.key) <= d /\ From(r.key) \in Int /\ Opening <= From(r.key)
    BY <1>1, <2>1, NoHole, OpeningIs DEF Stored, From, History!Larger, TablesFit
  <2>3. CASE d <= r.end /\ past = {}
    <3>1. Opening <= d /\ r.end - Overlap <= d /\ Overlap \in Int
      BY <1>1, <2>1, <2>2, <2>3 DEF HistoryConstants
    <3>2. tail <= d
      BY <1>1, <1>5, <2>2, <3>1 DEF History!Larger
    <3>3. from <= d /\ from <= d + 1
      BY <1>5, <1>8, <2>2, <3>2
    <3> QED BY <1>8, <1>10, <2>1, <2>3, <3>3 DEF Touches, Follows
  <2>6. CASE d <= r.end /\ past # {}
    <3>1. PICK l \in History!Days, b \in Bases : From(r.key) <= l /\ l <= today /\ prices[r.key] = Series(r.key, l, b)
      BY <2>1, <2>2 DEF TablesFit, Kept, Stored, History!NoRows
    <3>2. l \in Int /\ \A c \in History!Days : c \in Int /\ (Stored(r.key, c) <=> From(r.key) <= c /\ c <= l)
      BY <2>2, <3>1, BaseIs, OpeningIs DEF Stored, Series
    <3>3. CASE r.end <= l
      <4>1. d <= r.end /\ From(r.key) <= r.end /\ r.end \in History!Days
        BY <1>1, <2>2, <2>6 DEF Asks
      <4>2. Stored(r.key, r.end)
        BY <3>2, <3>3, <4>1
      <4>3. from <= r.end /\ from <= r.end + 1
        BY <1>1, <1>5, <1>8 DEF History!Larger, HistoryConstants, Asks
      <4> QED BY <1>1, <1>8, <1>10, <4>1, <4>2, <4>3 DEF Touches, Follows
    <3>4. CASE l < r.end
      <4>1. History!RowsOf(r.rows) = From(r.key) .. l
        <5>1. History!RowsOf(r.rows) = {c \in History!Days : Opening <= c /\ c <= r.end /\ prices[r.key][c] # 0}
          BY <1>1, <1>10, BetweenRows
        <5>2. \A c \in History!Days : prices[r.key][c] # 0 <=> From(r.key) <= c /\ c <= l
          BY <2>2, <3>2 DEF Stored
        <5>3. \A c \in From(r.key) .. l : c \in History!Days
          <6>1. 1 <= From(r.key) /\ l <= LastDay /\ LastDay \in Int
            BY <1>1, <2>2, <3>1, OpeningIs DEF HistoryConstants
          <6> QED BY <2>2, <3>2, <6>1, OpeningIs
        <5>4. \A c \in History!Days : Opening <= c /\ c <= r.end /\ prices[r.key][c] # 0 <=> c \in From(r.key) .. l
          BY <1>1, <2>2, <3>2, <3>4, <5>2
        <5> QED BY <5>1, <5>3, <5>4
      <4>2. History!Min(From(r.key) .. l) = From(r.key)
        <5>1. History!RowsOf(prices[r.key]) = From(r.key) .. l /\ History!Min(History!RowsOf(prices[r.key])) = From(r.key)
          BY <2>2, <3>1, SeriesEnds DEF TablesFit
        <5> QED BY <5>1
      <4>3. From(r.key) .. l # {}
        BY <2>2, <3>1, <3>2
      <4>4. lost = (From(r.key) .. r.end) \ (From(r.key) .. l)
        <5>1. lost = (History!Larger(Opening, From(r.key)) .. r.end) \ (From(r.key) .. l)
          BY <1>2, <4>1, <4>2, <4>3, Zenon DEF History!Gaps
        <5>2. History!Larger(Opening, From(r.key)) = From(r.key)
          BY <1>1, <2>2 DEF History!Larger
        <5> QED BY <5>1, <5>2
      <4>5. l + 1 \in lost /\ lost \subseteq Nat
        BY <1>1, <2>2, <3>1, <3>2, <3>4, <4>4, OpeningIs
      <4>6. History!Min(lost) <= l + 1
        <5>1. PICK m \in lost : \A y \in lost : m <= y
          BY <4>5, LeastOf
        <5>2. \A y \in lost : History!Min(lost) <= y
          BY <5>1 DEF History!Min
        <5> QED BY <4>5, <5>2
      <4>7. from <= l + 1
        <5>1. PICK m : m = History!Min(lost)
          OBVIOUS
        <5>3. lost # {}
          BY <4>5
        <5>4. m \in lost /\ from = History!Smaller(tail, m)
          BY <1>4, <1>7, <5>1, <5>3, Zenon
        <5>2. m \in Int /\ m <= l + 1 /\ from = History!Smaller(tail, m)
          BY <1>6, <4>6, <5>1, <5>4
        <5> QED BY <1>5, <3>2, <5>2 DEF History!Smaller
      <4>8. Stored(r.key, l) /\ l <= r.end
        BY <1>1, <3>1, <3>2, <3>4
      <4> QED BY <1>8, <1>10, <2>6, <4>7, <4>8 DEF Touches, Follows
    <3> QED BY <1>1, <3>2, <3>3, <3>4
  <2>4. CASE d > r.end /\ From(r.key) <= r.end
    <3>0. \A c \in History!Days : From(r.key) <= c /\ c <= d => Stored(r.key, c)
      BY <2>1, <2>2, NoHole
    <3>1. Stored(r.key, r.end)
      BY <1>1, <2>2, <2>4, <3>0 DEF Asks
    <3>2. tail <= r.end
      BY <1>1, <1>5 DEF History!Larger, HistoryConstants, Asks
    <3>3. from <= r.end /\ from <= r.end + 1 /\ r.end \in History!Days
      BY <1>1, <1>5, <1>8, <3>2 DEF Asks
    <3> QED BY <1>1, <1>8, <1>10, <3>1, <3>3 DEF Touches, Follows
  <2>5. CASE From(r.key) > r.end
    BY <1>8, <1>10, <2>5 DEF Touches
  <2> QED BY <1>1, <2>2, <2>3, <2>4, <2>5, <2>6
<1> QED BY <1>9, <1>10, <1>8

LEMMA PlannedFits ==
    ASSUME HistoryConstants, TablesFit, NEW r, Asks(r), CoverFits(r), ~r.rebuilt,
           r.rows = IF r.key = None THEN History!NoRows ELSE History!Between(prices[r.key], Opening, r.end)
    PROVE  HandFits(History!Planned(r))
<1>1. CASE r.mode = "sync" \/ r.key = None
  <2>1. PICK from : from = History!RequestStart(r)
    OBVIOUS
  <2>2. PICK h : h = [r EXCEPT !.pc = "fetch", !.from = from, !.to = r.end]
    OBVIOUS
  <2>3. /\ DOMAIN h = DOMAIN History!Idle /\ h.pc = "fetch" /\ h.from = from /\ h.to = r.end /\ h.start = r.start /\ h.end = r.end
        /\ h.key = r.key /\ h.cover = r.cover /\ h.rebuilt = r.rebuilt
    BY <2>2 DEF Asks, History!Idle
  <2>4. /\ from \in Int /\ Opening <= from
        /\ IF r.key = None THEN from = Opening ELSE Touches(r.key, from, r.end)
    BY <2>1, RequestFits
  <2>5. CoverFits(h)
    BY <2>3 DEF CoverFits
  <2>6. HandFits(h)
    BY <2>3, <2>4, <2>5 DEF HandFits, Asks, Active, Planning, Holding
  <2> QED BY <1>1, <2>1, <2>2, <2>6 DEF History!Planned
<1>2. CASE ~(r.mode = "sync" \/ r.key = None) /\ History!Reusable(r)
  <2>1. PICK rows : rows = History!RowsOf(r.rows)
    OBVIOUS
  <2>2. rows # {} /\ History!Max(rows) = r.end
    BY <1>2, <2>1 DEF History!Reusable, History!Valid
  <2>3. Opening \in Int /\ r.end \in Int /\ rows = {d \in History!Days : Opening <= d /\ d <= r.end /\ prices[r.key][d] # 0}
    BY <1>2, <2>1, OpeningIs, BetweenRows DEF Asks
  <2>4. r.end \in rows
    <3>1. rows \subseteq Nat /\ \A d \in rows : d <= r.end
      BY <2>3, OpeningIs
    <3>2. PICK m \in rows : \A y \in rows : y <= m
      BY <2>2, <2>3, <3>1, GreatestOf
    <3>3. \A y \in rows : m >= y
      BY <3>1, <3>2
    <3> QED BY <2>2, <3>2, <3>3 DEF History!Max
  <2>5. r.key \in History!Sources
    BY <1>2 DEF CoverFits, Near, Stored
  <2>6. PICK h : h = [r EXCEPT !.pc = "read"]
    OBVIOUS
  <2>7. DOMAIN h = DOMAIN History!Idle /\ h.pc = "read" /\ h.start = r.start /\ h.end = r.end /\ h.key = r.key
    BY <2>6 DEF Asks, History!Idle
  <2>8. HandFits(h)
    BY <2>3, <2>4, <2>5, <2>7 DEF HandFits, Stored, Asks, Active, Planning, Holding
  <2> QED BY <1>2, <2>6, <2>8 DEF History!Planned
<1>3. CASE ~(r.mode = "sync" \/ r.key = None) /\ ~History!Reusable(r)
  BY <1>3, RefusedFits DEF History!Planned
<1> QED BY <1>1, <1>2, <1>3

\* The hand of a synchronizer at work.
LEMMA Hand ==
    ASSUME HistoryConstants, HistoryInv, NEW t \in Syncs, NEW r, r = sync[t]
    PROVE  /\ HandFits(r) /\ TablesFit /\ PointersFit /\ (r.pc \in Active => Asks(r))
           /\ (r.pc \in Planning => CoverFits(r) /\ History!SyncStart(r) = Opening /\ History!Known(r) = {} /\ Opening \in History!Days)
<1>1. HandFits(r) /\ TablesFit /\ PointersFit
  BY DEF HistoryInv
<1>2. r.pc \in Active => Asks(r)
  BY <1>1 DEF HandFits, Asks
<1>3. r.pc \in Planning => CoverFits(r) /\ r.start = Opening
  BY <1>1 DEF HandFits, Active, Planning, Holding
<1> QED BY <1>1, <1>2, <1>3, BeginsAtOpening

LEMMA KeyFits == ASSUME HistoryConstants, HistoryInv, NEW t \in Syncs, History!Key(t) PROVE HistoryInv'
<1>1. PICK r : r = sync[t]
  OBVIOUS
<1>2. r.pc = "key" /\ UNCHANGED <<History!tables, History!world>>
  BY <1>1 DEF History!Key, History!At
<1>3. HandFits(r) /\ TablesFit /\ PointersFit /\ Asks(r) /\ r.key = None /\ r.cover = None /\ ~r.rebuilt /\ r.rows = History!NoRows
  BY <1>1, <1>2, Hand DEF HandFits, Active
<1>4. PICK key : key = IF pinned[r.end] # None THEN pinned[r.end] ELSE selected
  OBVIOUS
<1>5. History!Go(t, IF key = None THEN History!Planned(r) ELSE [r EXCEPT !.key = key, !.pc = "cover"])
  BY <1>1, <1>4, Zenon DEF History!Key
<1>6. CASE key = None
  <2>1. PICK h : h = History!Planned(r)
    OBVIOUS
  <2>2. HandFits(h)
    BY <1>3, <2>1, PlannedFits DEF CoverFits
  <2> QED BY <1>2, <1>5, <1>6, <2>1, <2>2, OnlyMoves
<1>7. CASE key # None
  <2>1. Near(key, r.end)
    <3>1. CASE pinned[r.end] # None
      <4>1. Stored(key, r.end) /\ r.end \in Int /\ r.end \in History!Days
        BY <1>3, <1>4, <3>1, OpeningIs DEF PointersFit, Asks
      <4> QED BY <4>1 DEF Near, HistoryConstants
    <3>2. CASE pinned[r.end] = None
      <4>1. PICK d \in History!Days : Stored(key, d) /\ (past = {} => today - d <= Overlap)
        BY <1>3, <1>4, <1>7, <3>2 DEF PointersFit, Near
      <4>2. past = {} => r.end - d <= Overlap
        <5>1. r.end \in Int /\ today \in Int /\ d \in Int /\ Overlap \in Int /\ r.end <= today
          BY <1>3, OpeningIs DEF Asks, TablesFit, HistoryConstants
        <5> QED BY <4>1, <5>1
      <4> QED BY <4>1, <4>2 DEF Near
    <3> QED BY <3>1, <3>2
  <2>2. PICK h : h = [r EXCEPT !.key = key, !.pc = "cover"]
    OBVIOUS
  <2>3. /\ DOMAIN h = DOMAIN History!Idle /\ h.pc = "cover" /\ h.start = r.start /\ h.end = r.end /\ h.key = key
        /\ h.rebuilt = r.rebuilt
    BY <1>3, <2>2 DEF Asks, History!Idle
  <2>4. HandFits(h)
    BY <1>3, <1>7, <2>1, <2>3 DEF HandFits, Asks, Active, Planning, Holding
  <2> QED BY <1>2, <1>5, <1>7, <2>2, <2>4, OnlyMoves
<1> QED BY <1>6, <1>7

LEMMA CoverIs ==
    ASSUME HistoryConstants, TablesFit, NEW s \in History!Sources, NEW d \in History!Days, Stored(s, d), NEW c, c = History!CoverOf(s)
    PROVE  /\ c # None /\ c.first = From(s) /\ c.missing = {} /\ c.asked \in History!Days
           /\ c.last \in History!Days /\ From(s) <= c.last /\ c.last <= today /\ Stored(s, c.last) /\ \A e \in History!Days : Stored(s, e) => e <= c.last
<1>1. PICK l \in History!Days, b \in Bases : From(s) <= l /\ l <= today /\ prices[s] = Series(s, l, b)
  BY DEF TablesFit, Kept, Stored, History!NoRows
<1>2. asked[s] \in History!Days /\ missing[s] = {}
  BY DEF TablesFit, Kept, Stored, History!NoRows
<1>3. c = [asked |-> asked[s], first |-> From(s), last |-> l, missing |-> {}]
  <2>1. History!Min(History!RowsOf(prices[s])) = From(s) /\ History!Max(History!RowsOf(prices[s])) = l
    BY <1>1, SeriesEnds DEF TablesFit
  <2>2. asked[s] # None
    BY <1>2 DEF HistoryConstants
  <2> QED BY <1>2, <2>1, <2>2 DEF History!CoverOf
<1>4. \A e \in History!Days : Stored(s, e) <=> e \in From(s) .. l
  BY <1>1, BaseIs DEF Stored, Series
<1>5. From(s) \in Int /\ l \in Int
  BY <1>1, SeriesEnds, OpeningIs DEF TablesFit
<1>6. c # None
  BY <1>1, <1>2, <1>3, SeriesEnds DEF HistoryConstants, TablesFit
<1> QED BY <1>1, <1>2, <1>3, <1>4, <1>5, <1>6

LEMMA CoverKeeps == ASSUME HistoryConstants, HistoryInv, NEW t \in Syncs, History!Cover(t) PROVE HistoryInv'
<1>1. PICK r : r = sync[t]
  OBVIOUS
<1>2. r.pc = "cover" /\ UNCHANGED <<History!tables, History!world>>
  BY <1>1 DEF History!Cover, History!At
<1>3. HandFits(r) /\ TablesFit /\ Asks(r) /\ Near(r.key, r.end) /\ r.key # None /\ ~r.rebuilt
  BY <1>1, <1>2, Hand DEF HandFits, Active
<1>4. PICK c : c = History!CoverOf(r.key)
  OBVIOUS
<1>5. c # None /\ c.first = From(r.key) /\ c.missing = {} /\ c.asked \in History!Days
  BY <1>3, <1>4, CoverIs DEF Near, Stored
<1>6. PICK h : h = [r EXCEPT !.cover = c, !.pc = "cached"]
  OBVIOUS
<1>7. /\ DOMAIN h = DOMAIN History!Idle /\ h.pc = "cached" /\ h.start = r.start /\ h.end = r.end /\ h.key = r.key
      /\ h.rebuilt = r.rebuilt /\ h.cover = c
  BY <1>3, <1>6 DEF Asks, History!Idle
<1>8. HandFits(h)
  BY <1>3, <1>5, <1>7 DEF HandFits, CoverFits, Asks, Active, Planning, Holding
<1>9. History!Go(t, h)
  BY <1>1, <1>4, <1>6, Zenon DEF History!Cover
<1> QED BY <1>2, <1>8, <1>9, OnlyMoves

LEMMA CachedKeeps == ASSUME HistoryConstants, HistoryInv, NEW t \in Syncs, History!Cached(t) PROVE HistoryInv'
<1>1. PICK r : r = sync[t]
  OBVIOUS
<1>2. r.pc = "cached" /\ UNCHANGED <<History!tables, History!world>>
  BY <1>1 DEF History!Cached, History!At
<1>3. HandFits(r) /\ TablesFit /\ Asks(r) /\ CoverFits(r) /\ History!SyncStart(r) = Opening /\ r.key # None /\ ~r.rebuilt
  BY <1>1, <1>2, Hand DEF HandFits, Active, Planning
<1>4. PICK x : x = [r EXCEPT !.rows = History!Between(prices[r.key], History!SyncStart(r), r.end)]
  OBVIOUS
<1>5. /\ DOMAIN x = DOMAIN History!Idle /\ x.start = r.start /\ x.end = r.end /\ x.key = r.key /\ x.rebuilt = r.rebuilt
      /\ x.cover = r.cover /\ x.rows = History!Between(prices[r.key], Opening, r.end)
  BY <1>3, <1>4 DEF Asks, History!Idle
<1>6. Asks(x) /\ CoverFits(x)
  BY <1>3, <1>5 DEF Asks, CoverFits
<1>7. PICK h : h = History!Planned(x)
  OBVIOUS
<1>8. HandFits(h)
  BY <1>3, <1>5, <1>6, <1>7, PlannedFits
<1>9. History!Go(t, h)
  BY <1>1, <1>4, <1>7, Zenon DEF History!Cached
<1> QED BY <1>2, <1>8, <1>9, OnlyMoves

LEMMA HistoryBeginKeeps ==
    ASSUME HistoryConstants, HistoryInv, NEW t \in Syncs, NEW mode, NEW first \in Starts, NEW end \in {today - 1, today},
           History!Begin(t, mode, first, end)
    PROVE  HistoryInv'
<1>1. first = Opening /\ Opening \in History!Days /\ today \in History!Days /\ first <= end /\ end <= today
  BY OpeningIs DEF History!Begin, HistoryInv, TablesFit
<1>2. end \in History!Days /\ today <= end + 1
  BY <1>1, OpeningIs DEF HistoryConstants
<1>3. PICK h : h = [History!Idle EXCEPT !.pc = "key", !.mode = mode, !.start = first, !.end = end]
  OBVIOUS
<1>4. /\ DOMAIN h = DOMAIN History!Idle /\ h.pc = "key" /\ h.start = first /\ h.end = end /\ h.key = None /\ h.cover = None
      /\ h.rebuilt = FALSE /\ h.rows = History!NoRows
  BY <1>3 DEF History!Idle
<1>5. HandFits(h)
  BY <1>1, <1>2, <1>4 DEF HandFits, Active, Planning, Holding
<1>6. History!AtWork = {}
  BY DEF History!Begin, History!AtWork, HistoryConstants
<1>7. UNCHANGED <<History!tables, base, listed, today>> /\ crowd' = crowd \ {t} /\ UNCHANGED past
  BY <1>6 DEF History!Begin
<1>8. UNCHANGED crowd
  BY <1>7 DEF HistoryInv, TablesFit
<1>9. UNCHANGED <<History!tables, History!world>>
  BY <1>7, <1>8 DEF History!world
<1> QED BY <1>3, <1>5, <1>9, OnlyMoves DEF History!Begin

LEMMA FetchFirstKeeps == ASSUME HistoryConstants, HistoryInv, NEW t \in Syncs, History!FetchFirst(t) PROVE HistoryInv'
<1>1. PICK r : r = sync[t]
  OBVIOUS
<1>2. r.pc = "fetch"
  BY <1>1 DEF History!FetchFirst, History!At
<1>3. /\ HandFits(r) /\ TablesFit /\ Asks(r) /\ CoverFits(r) /\ History!SyncStart(r) = Opening /\ History!Known(r) = {} /\ Opening \in History!Days
      /\ r.to = r.end /\ ~r.rebuilt /\ r.from \in Int /\ Opening <= r.from
      /\ IF r.key = None THEN r.from = Opening ELSE Touches(r.key, r.from, r.end)
  BY <1>1, <1>2, Hand DEF HandFits, Active, Planning
<1>4. UNCHANGED <<History!tables, History!world>>
  BY DEF History!FetchFirst, History!Fetch
<1>5. PICK answer \in [DOMAIN Chain -> Answers] :
         LET q == [r EXCEPT !.open = History!Opened(answer, r.from, r.to, @)]
             n == History!Taken(answer, r.from, r.to, r.open)
             x == [q EXCEPT !.got = History!Fetched(n, answer[n], r.from, r.to)]
         IN History!Go(t, IF n = 0 THEN History!Refused(q)
                  ELSE IF History!Outcome(Chain[n], answer[n], r.from, r.to, r.open) = "raised" THEN History!Failed
                  ELSE [x EXCEPT !.pc = IF History!Switched(x) THEN "whole" ELSE "old"])
  BY <1>1 DEF History!FetchFirst, History!Fetch
<1>6. PICK n : n = History!Taken(answer, r.from, r.to, r.open)
  OBVIOUS
<1>7. PICK q : q = [r EXCEPT !.open = History!Opened(answer, r.from, r.to, @)]
  OBVIOUS
<1>8. /\ DOMAIN q = DOMAIN History!Idle /\ q.start = r.start /\ q.end = r.end /\ q.key = r.key /\ q.cover = r.cover
      /\ q.from = r.from /\ q.to = r.to /\ q.rebuilt = r.rebuilt /\ q.rows = r.rows
  BY <1>3, <1>7 DEF Asks, History!Idle
<1>9. Asks(q)
  BY <1>3, <1>8 DEF Asks
<1>10. CASE n = 0
  <2>1. PICK h : h = History!Refused(q)
    OBVIOUS
  <2>2. HandFits(h)
    BY <1>9, <2>1, RefusedFits
  <2> QED BY <1>4, <1>5, <1>6, <1>7, <1>10, <2>1, <2>2, OnlyMoves
<1>11. CASE n # 0 /\ History!Outcome(Chain[n], answer[n], r.from, r.to, r.open) = "raised"
  <2>1. PICK h : h = History!Failed
    OBVIOUS
  <2>2. HandFits(h)
    BY <1>9, <2>1, RefusedFits
  <2> QED BY <1>4, <1>5, <1>6, <1>11, <2>1, <2>2, OnlyMoves
<1>12. CASE n # 0 /\ History!Outcome(Chain[n], answer[n], r.from, r.to, r.open) # "raised"
  <2>1. PICK got : got = History!Fetched(n, answer[n], r.from, r.to)
    OBVIOUS
  <2>2. r.from \in Int /\ r.to \in Int /\ r.end \in Int /\ Opening \in Int
    BY <1>3, OpeningIs DEF Asks
  <2>3. /\ got.source \in History!Sources /\ got.base \in 1 .. MaxBase /\ got.first = History!Larger(r.from, listed[got.source])
        /\ got.first <= r.to /\ got.first \in Int
    BY <1>3, <1>6, <1>12, <2>1, <2>2, GotIs
  <2>4. PICK x : x = [q EXCEPT !.got = got]
    OBVIOUS
  <2>5. /\ DOMAIN x = DOMAIN History!Idle /\ x.start = r.start /\ x.end = r.end /\ x.key = r.key /\ x.cover = r.cover
        /\ x.from = r.from /\ x.to = r.to /\ x.rebuilt = r.rebuilt /\ x.rows = r.rows /\ x.got = got
    BY <1>8, <2>4 DEF History!Idle
  <2>6. History!SyncStart(x) = Opening
    BY <1>3, <2>5 DEF History!SyncStart
  <2>7. PICK h : h = [x EXCEPT !.pc = IF History!Switched(x) THEN "whole" ELSE "old"]
    OBVIOUS
  <2>8. /\ DOMAIN h = DOMAIN History!Idle /\ h.start = r.start /\ h.end = r.end /\ h.key = r.key /\ h.cover = r.cover
        /\ h.from = r.from /\ h.to = r.to /\ h.rebuilt = r.rebuilt /\ h.got = got
        /\ h.pc = IF History!Switched(x) THEN "whole" ELSE "old"
    BY <2>5, <2>7 DEF History!Idle
  <2>9. CoverFits(h)
    BY <1>3, <2>8 DEF CoverFits
  <2>10. listed[got.source] \in Int /\ listed[got.source] \in History!Days
    BY <1>3, <2>3, OpeningIs DEF TablesFit
  <2>11. got.first \in History!Days /\ From(got.source) <= got.first
    <3>1. got.first >= 1 /\ r.end <= LastDay /\ LastDay \in Int
      BY <1>3, <2>2, <2>3, <2>10, OpeningIs DEF HistoryConstants, History!Larger, Asks
    <3>2. From(got.source) <= got.first
      BY <1>3, <2>2, <2>3, <2>10 DEF From, History!Larger
    <3> QED BY <1>3, <2>3, <3>1, <3>2, <2>2, OpeningIs
  <2>12. CASE History!Switched(x)
    <3>1. HandFits(h)
      BY <1>3, <2>8, <2>9, <2>12 DEF HandFits, Asks, Active, Planning, Holding
    <3> QED BY <1>4, <1>5, <1>6, <1>7, <1>12, <2>1, <2>4, <2>7, <3>1, OnlyMoves
  <2>13. CASE ~History!Switched(x)
    <3>1. got.source = r.key \/ r.from = Opening
      BY <1>3, <2>2, <2>5, <2>6, <2>13 DEF History!Switched
    <3>2. r.from = Opening => got.first = From(got.source)
      BY <2>3 DEF From
    <3>3. prices[got.source] = History!NoRows => got.first = From(got.source)
      <4> SUFFICES ASSUME prices[got.source] = History!NoRows, got.source = r.key PROVE r.from = Opening
        BY <3>1, <3>2
      <4>1. r.key = None
        <5>1. \A d \in History!Days : ~Stored(r.key, d)
          BY DEF Stored, History!NoRows
        <5> QED BY <1>3, <5>1 DEF CoverFits, Near
      <4> QED BY <1>3, <4>1
    <3>4. ASSUME prices[got.source] # History!NoRows PROVE Follows(got.source, got.first, r.end)
      <4>1. PICK l \in History!Days : From(got.source) <= l /\ Stored(got.source, l) /\ Stored(got.source, From(got.source))
        <5>1. PICK l \in History!Days, b \in Bases : From(got.source) <= l /\ prices[got.source] = Series(got.source, l, b)
          BY <1>3, <2>3, <3>4 DEF TablesFit, Kept
        <5>2. From(got.source) \in History!Days /\ From(got.source) \in Int /\ l \in Int
          BY <1>3, <2>10, OpeningIs DEF From, History!Larger
        <5> QED BY <2>3, <5>1, <5>2, <2>11, <2>10, SeriesEnds, BaseIs DEF Series, Stored
      <4>2. CASE r.from = Opening
        <5>1. From(got.source) \in History!Days /\ From(got.source) \in Int
          BY <2>3, <3>2, <4>2, <2>11
        <5>2. got.first = From(got.source) /\ got.first <= got.first + 1 /\ got.first <= r.end
          BY <1>3, <2>3, <3>2, <4>2, <5>1
        <5> QED BY <4>1, <5>1, <5>2 DEF Follows
      <4>3. CASE got.source = r.key /\ r.from # Opening
        <5>1. Touches(r.key, r.from, r.end) /\ got.first <= r.end /\ r.key # None
          BY <1>3, <2>3, <4>3
        <5>6. From(got.source) \in Int
          BY <2>2, <2>10 DEF From, History!Larger
        <5>2. ~(From(r.key) > r.end)
          BY <1>3, <2>2, <2>3, <2>11, <4>3, <5>6
        <5>3. PICK d \in History!Days : r.from <= d + 1 /\ d <= r.end /\ Stored(r.key, d) /\ (past = {} => r.from <= d)
          BY <5>1, <5>2 DEF Touches, Follows
        <5>4. From(r.key) <= d
          BY <1>3, <5>3, NoHole DEF Stored
        <5>5. got.first <= d + 1 /\ (past = {} => got.first <= d)
          BY <2>2, <2>3, <2>10, <4>3, <5>3, <5>4, OpeningIs DEF From, History!Larger
        <5> QED BY <4>3, <5>3, <5>5 DEF Follows
      <4> QED BY <3>1, <4>2, <4>3
    <3>5. GotFits(h)
      BY <1>3, <2>3, <2>8, <2>11, <3>3, <3>4 DEF GotFits
    <3>7. r.from \in History!Days
      <4>1. r.from <= got.first
        BY <2>2, <2>3, <2>10 DEF History!Larger
      <4>2. History!Days = 1 .. LastDay /\ LastDay \in Int /\ Opening >= 1 /\ r.end <= LastDay
        BY <1>3, OpeningIs DEF HistoryConstants, Asks
      <4> QED BY <1>3, <2>2, <2>3, <4>1, <4>2
    <3>6. HandFits(h)
      BY <1>3, <2>3, <2>8, <2>9, <2>13, <3>5, <3>7 DEF HandFits, Asks, Active, Planning, Holding
    <3> QED BY <1>4, <1>5, <1>6, <1>7, <1>12, <2>1, <2>4, <2>7, <3>6, OnlyMoves
  <2> QED BY <2>12, <2>13
<1> QED BY <1>10, <1>11, <1>12

\* What a request for the whole range gives of a source meets all that is stored of it.
LEMMA WholeMeets ==
    ASSUME HistoryConstants, TablesFit, NEW s \in History!Sources, prices[s] # History!NoRows
    PROVE  From(s) \in History!Days /\ Stored(s, From(s))
<1>1. PICK l \in History!Days, b \in Bases : From(s) <= l /\ prices[s] = Series(s, l, b)
  BY DEF TablesFit, Kept
<1>2. From(s) \in History!Days /\ From(s) \in Int /\ l \in Int
  BY <1>1, SeriesEnds, OpeningIs DEF TablesFit
<1> QED BY <1>1, <1>2, BaseIs DEF Series, Stored

LEMMA FetchWholeKeeps == ASSUME HistoryConstants, HistoryInv, NEW t \in Syncs, History!FetchWhole(t) PROVE HistoryInv'
<1>1. PICK r : r = sync[t]
  OBVIOUS
<1>2. r.pc = "whole"
  BY <1>1 DEF History!FetchWhole, History!At
<1>3. /\ HandFits(r) /\ TablesFit /\ Asks(r) /\ CoverFits(r) /\ History!SyncStart(r) = Opening /\ History!Known(r) = {} /\ Opening \in History!Days
      /\ r.to = r.end /\ ~r.rebuilt
  BY <1>1, <1>2, Hand DEF HandFits, Active, Planning
<1>4. UNCHANGED <<History!tables, History!world>>
  BY DEF History!FetchWhole, History!Fetch
<1>5. PICK answer \in [DOMAIN Chain -> Answers] :
         LET q == [r EXCEPT !.open = History!Opened(answer, History!SyncStart(r), r.to, @)]
             n == History!Taken(answer, History!SyncStart(r), r.to, r.open)
             x == [q EXCEPT !.got = History!Fetched(n, answer[n], History!SyncStart(r), r.to)]
         IN History!Go(t, IF n = 0 THEN History!Refused(q)
                  ELSE IF History!Outcome(Chain[n], answer[n], History!SyncStart(r), r.to, r.open) = "raised" THEN History!Failed
                  ELSE [x EXCEPT !.from = History!SyncStart(x), !.pc = "old"])
  BY <1>1 DEF History!FetchWhole, History!Fetch
<1>6. PICK n : n = History!Taken(answer, Opening, r.to, r.open)
  OBVIOUS
<1>7. PICK q : q = [r EXCEPT !.open = History!Opened(answer, Opening, r.to, @)]
  OBVIOUS
<1>8. /\ DOMAIN q = DOMAIN History!Idle /\ q.start = r.start /\ q.end = r.end /\ q.key = r.key /\ q.cover = r.cover
      /\ q.from = r.from /\ q.to = r.to /\ q.rebuilt = r.rebuilt /\ q.rows = r.rows
  BY <1>3, <1>7 DEF Asks, History!Idle
<1>9. Asks(q)
  BY <1>3, <1>8 DEF Asks
<1>10. CASE n = 0
  <2>1. PICK h : h = History!Refused(q)
    OBVIOUS
  <2>2. HandFits(h)
    BY <1>9, <2>1, RefusedFits
  <2> QED BY <1>3, <1>4, <1>5, <1>6, <1>7, <1>10, <2>1, <2>2, OnlyMoves
<1>11. CASE n # 0 /\ History!Outcome(Chain[n], answer[n], Opening, r.to, r.open) = "raised"
  <2>1. PICK h : h = History!Failed
    OBVIOUS
  <2>2. HandFits(h)
    BY <1>9, <2>1, RefusedFits
  <2> QED BY <1>3, <1>4, <1>5, <1>6, <1>11, <2>1, <2>2, OnlyMoves
<1>12. CASE n # 0 /\ History!Outcome(Chain[n], answer[n], Opening, r.to, r.open) # "raised"
  <2>1. PICK got : got = History!Fetched(n, answer[n], Opening, r.to)
    OBVIOUS
  <2>2. r.to \in Int /\ r.end \in Int /\ Opening \in Int
    BY <1>3, OpeningIs DEF Asks
  <2>3. /\ got.source \in History!Sources /\ got.base \in 1 .. MaxBase /\ got.first = From(got.source)
        /\ got.first <= r.to /\ got.first \in Int
    BY <1>3, <1>6, <1>12, <2>1, <2>2, GotIs DEF From
  <2>4. PICK x : x = [q EXCEPT !.got = got]
    OBVIOUS
  <2>5. /\ DOMAIN x = DOMAIN History!Idle /\ x.start = r.start /\ x.end = r.end /\ x.key = r.key /\ x.cover = r.cover
        /\ x.from = r.from /\ x.to = r.to /\ x.rebuilt = r.rebuilt /\ x.rows = r.rows /\ x.got = got
    BY <1>8, <2>4 DEF History!Idle
  <2>6. History!SyncStart(x) = Opening
    BY <1>3, <2>5 DEF History!SyncStart
  <2>7. PICK h : h = [x EXCEPT !.from = Opening, !.pc = "old"]
    OBVIOUS
  <2>8. /\ DOMAIN h = DOMAIN History!Idle /\ h.start = r.start /\ h.end = r.end /\ h.key = r.key /\ h.cover = r.cover
        /\ h.from = Opening /\ h.to = r.to /\ h.rebuilt = r.rebuilt /\ h.got = got /\ h.pc = "old"
    BY <2>5, <2>7 DEF History!Idle
  <2>9. CoverFits(h)
    BY <1>3, <2>8 DEF CoverFits
  <2>10. listed[got.source] \in History!Days
    BY <1>3, <2>3 DEF TablesFit
  <2>11. got.first \in History!Days
    BY <1>3, <2>3, <2>10 DEF From, History!Larger
  <2>12. prices[got.source] # History!NoRows => Follows(got.source, got.first, r.end)
    BY <1>3, <2>2, <2>3, <2>11, WholeMeets DEF Follows
  <2>13. GotFits(h)
    BY <1>3, <2>3, <2>8, <2>11, <2>12 DEF GotFits
  <2>14. HandFits(h)
    BY <1>3, <2>2, <2>3, <2>8, <2>9, <2>13 DEF HandFits, Asks, Active, Planning, Holding
  <2> QED BY <1>3, <1>4, <1>5, <1>6, <1>7, <1>12, <2>1, <2>4, <2>6, <2>7, <2>14, OnlyMoves
<1> QED BY <1>10, <1>11, <1>12

LEMMA DownloadIs ==
    ASSUME NEW got, NEW e \in Int, got.first \in Int, HistoryConstants, NEW new, new = History!Download(got, e)
    PROVE  /\ DOMAIN new = History!Days
           /\ \A d \in History!Days : new[d] = IF got.first <= d /\ d <= e THEN got.base ELSE 0
  BY OpeningIs DEF History!Download

LEMMA OldKeeps == ASSUME HistoryConstants, HistoryInv, NEW t \in Syncs, History!Old(t) PROVE HistoryInv'
<1>1. PICK r : r = sync[t]
  OBVIOUS
<1>2. r.pc = "old" /\ UNCHANGED <<History!tables, History!world>>
  BY <1>1 DEF History!Old, History!At
<1>3. /\ HandFits(r) /\ TablesFit /\ Asks(r) /\ CoverFits(r) /\ History!SyncStart(r) = Opening /\ Opening \in History!Days
      /\ r.to = r.end /\ ~r.rebuilt /\ GotFits(r) /\ r.got.source \in History!Sources /\ r.got.base \in 1 .. MaxBase
      /\ r.from \in History!Days
  BY <1>1, <1>2, Hand DEF HandFits, Active, Planning, Holding
<1>4. PICK old : old = History!Between(prices[r.got.source], Opening, r.end)
  OBVIOUS
<1>5. PICK pc : pc = IF History!Changed(old, History!Download(r.got, r.end)) THEN "range" ELSE "merge"
  OBVIOUS
<1>6. PICK h : h = [r EXCEPT !.rows = old, !.pc = pc]
  OBVIOUS
<1>7. History!Go(t, h)
  BY <1>1, <1>3, <1>4, <1>5, <1>6, Zenon DEF History!Old
<1>8. /\ DOMAIN h = DOMAIN History!Idle /\ h.start = r.start /\ h.end = r.end /\ h.key = r.key /\ h.cover = r.cover
      /\ h.from = r.from /\ h.to = r.to /\ h.rebuilt = r.rebuilt /\ h.got = r.got /\ h.pc = pc /\ h.rows = old
  BY <1>3, <1>6 DEF Asks, History!Idle
<1>9. CoverFits(h) /\ GotFits(h)
  BY <1>3, <1>8 DEF CoverFits, GotFits
<1>10. PICK new : new = History!Download(r.got, r.end)
  OBVIOUS
<1>11. r.end \in Int /\ Opening \in Int /\ r.got.first \in Int /\ r.got.first \in History!Days /\ \A d \in History!Days : d \in Int
  BY <1>3, OpeningIs DEF Asks, GotFits
<1>12. \A d \in History!Days : /\ new[d] = IF r.got.first <= d /\ d <= r.end THEN r.got.base ELSE 0
                               /\ old[d] = IF Opening <= d /\ d <= r.end THEN prices[r.got.source][d] ELSE 0
  BY <1>4, <1>10, <1>11, DownloadIs, BetweenRows
<1>13. From(r.got.source) <= r.got.first /\ Opening <= From(r.got.source) /\ From(r.got.source) \in Int /\ r.got.first <= r.end
  BY <1>3, <1>11, OpeningIs DEF GotFits, From, History!Larger, TablesFit
<1>14. CASE History!Changed(old, new)
  <2>1. PICK d \in History!Days : old[d] # 0
    BY <1>14 DEF History!Changed, History!RowsOf
  <2>2. prices[r.got.source] # History!NoRows
    BY <1>12, <2>1 DEF History!NoRows
  <2>3. From(r.got.source) <= r.end
    BY <1>11, <1>13
  <2>4. HandFits(h)
    BY <1>3, <1>5, <1>8, <1>9, <1>10, <1>14, <2>2, <2>3 DEF HandFits, Asks, Active, Planning, Holding
  <2> QED BY <1>2, <1>7, <2>4, OnlyMoves
<1>15. CASE ~History!Changed(old, new)
  <2>1. ASSUME NEW d \in History!Days, r.got.first <= d, d <= r.end PROVE prices[r.got.source][d] \in {0, r.got.base}
    <3>1. new[d] = r.got.base /\ old[d] = prices[r.got.source][d] /\ r.got.base # 0
      BY <1>3, <1>11, <1>12, <1>13, <2>1
    <3> QED BY <1>15, <3>1 DEF History!Changed, History!RowsOf
  <2>3. HandFits(h)
    BY <1>3, <1>4, <1>5, <1>8, <1>9, <1>10, <1>15, <2>1 DEF HandFits, Asks, Active, Planning, Holding
  <2> QED BY <1>2, <1>7, <2>3, OnlyMoves
<1> QED BY <1>10, <1>14, <1>15

LEMMA RangeKeeps == ASSUME HistoryConstants, HistoryInv, NEW t \in Syncs, History!RebuildRange(t) PROVE HistoryInv'
<1>1. PICK r : r = sync[t]
  OBVIOUS
<1>2. r.pc = "range" /\ UNCHANGED <<History!tables, History!world>>
  BY <1>1 DEF History!RebuildRange, History!At
<1>3. /\ HandFits(r) /\ TablesFit /\ Asks(r) /\ CoverFits(r) /\ History!SyncStart(r) = Opening /\ Opening \in History!Days
      /\ r.got.source \in History!Sources /\ r.got.base \in 1 .. MaxBase
      /\ From(r.got.source) <= r.end /\ prices[r.got.source] # History!NoRows
  BY <1>1, <1>2, Hand DEF HandFits, Active, Planning, Holding
<1>4. PICK c : c = History!CoverOf(r.got.source)
  OBVIOUS
<1>5. /\ c # None /\ c.first = From(r.got.source) /\ c.missing = {}
      /\ c.last \in History!Days /\ c.last <= today /\ \A e \in History!Days : Stored(r.got.source, e) => e <= c.last
  BY <1>3, <1>4, CoverIs, WholeMeets
<1>6. PICK from : from = IF c = None THEN History!SyncStart(r) ELSE History!Smaller(History!SyncStart(r), c.first)
  OBVIOUS
<1>7. PICK to : to = History!RebuildEnd(r, c)
  OBVIOUS
<1>8. PICK rows : rows = [d \in History!Days |-> IF c # None /\ d \in c.missing THEN 1 ELSE 0]
  OBVIOUS
<1>9. PICK h : h = [r EXCEPT !.pc = "rebuild", !.rebuilt = TRUE, !.from = from, !.to = to, !.rows = rows]
  OBVIOUS
<1>10. History!Go(t, h)
  BY <1>1, <1>4, <1>6, <1>7, <1>8, <1>9, Zenon DEF History!RebuildRange
<1>11. /\ DOMAIN h = DOMAIN History!Idle /\ h.start = r.start /\ h.end = r.end /\ h.key = r.key /\ h.cover = r.cover
       /\ h.from = from /\ h.to = to /\ h.rebuilt = TRUE /\ h.got = r.got /\ h.pc = "rebuild" /\ h.rows = rows
  BY <1>3, <1>9 DEF Asks, History!Idle
<1>12. from = Opening
  BY <1>3, <1>5, <1>6, OpeningIs DEF From, History!Larger, History!Smaller, TablesFit
<1>13. to \in History!Days /\ r.end <= to /\ to <= today /\ c.last <= to
  BY <1>3, <1>5, <1>7, OpeningIs DEF History!RebuildEnd, History!Larger, Asks
<1>14. History!RowsOf(rows) = {}
  BY <1>5, <1>8 DEF History!RowsOf
<1>15. \A d \in History!Days : Stored(r.got.source, d) => d <= to
  BY <1>5, <1>13, OpeningIs
<1>16. Reaches(h)
  BY <1>3, <1>11, <1>13, <1>15 DEF Reaches
<1>17. CoverFits(h)
  BY <1>3, <1>11 DEF CoverFits
<1>18. HandFits(h)
  BY <1>3, <1>11, <1>12, <1>14, <1>16, <1>17 DEF HandFits, Asks, Active, Planning, Holding
<1> QED BY <1>2, <1>10, <1>18, OnlyMoves

LEMMA RebuildKeeps == ASSUME HistoryConstants, HistoryInv, NEW t \in Syncs, History!Rebuild(t) PROVE HistoryInv'
<1>1. PICK r : r = sync[t]
  OBVIOUS
<1>2. r.pc = "rebuild"
  BY <1>1 DEF History!Rebuild, History!At
<1>3. /\ HandFits(r) /\ TablesFit /\ Asks(r) /\ CoverFits(r) /\ Opening \in History!Days
      /\ r.got.source \in History!Sources /\ Reaches(r) /\ r.from = Opening /\ r.rebuilt /\ History!RowsOf(r.rows) = {}
  BY <1>1, <1>2, Hand DEF HandFits, Active, Planning, Holding
<1>4. UNCHANGED <<History!tables, History!world>>
  BY DEF History!Rebuild, History!Fetch
<1>5. PICK answer \in [DOMAIN Chain -> Answers] :
         LET q == [r EXCEPT !.open = History!Opened(answer, r.from, r.to, @)]
             n == History!Taken(answer, r.from, r.to, r.open)
             x == [q EXCEPT !.got = History!Fetched(n, answer[n], r.from, r.to)]
         IN History!Go(t, IF n = 0 THEN History!Refused(q)
                  ELSE IF History!Outcome(Chain[n], answer[n], r.from, r.to, r.open) = "raised" THEN History!Failed
                  ELSE IF x.got.source = r.got.source /\ History!RowsOf(x.rows) \subseteq x.got.first .. x.to
                  THEN [x EXCEPT !.rows = History!NoRows, !.pc = "merge"] ELSE History!Refused(x))
  BY <1>1 DEF History!Rebuild, History!Fetch
<1>6. PICK n : n = History!Taken(answer, r.from, r.to, r.open)
  OBVIOUS
<1>7. PICK q : q = [r EXCEPT !.open = History!Opened(answer, r.from, r.to, @)]
  OBVIOUS
<1>8. /\ DOMAIN q = DOMAIN History!Idle /\ q.start = r.start /\ q.end = r.end /\ q.key = r.key /\ q.cover = r.cover
      /\ q.from = r.from /\ q.to = r.to /\ q.rebuilt = r.rebuilt /\ q.rows = r.rows
  BY <1>3, <1>7 DEF Asks, History!Idle
<1>9. Asks(q)
  BY <1>3, <1>8 DEF Asks
<1>10. CASE n = 0
  <2>1. PICK h : h = History!Refused(q)
    OBVIOUS
  <2>2. HandFits(h)
    BY <1>9, <2>1, RefusedFits
  <2> QED BY <1>4, <1>5, <1>6, <1>7, <1>10, <2>1, <2>2, OnlyMoves
<1>11. CASE n # 0 /\ History!Outcome(Chain[n], answer[n], r.from, r.to, r.open) = "raised"
  <2>1. PICK h : h = History!Failed
    OBVIOUS
  <2>2. HandFits(h)
    BY <1>9, <2>1, RefusedFits
  <2> QED BY <1>4, <1>5, <1>6, <1>11, <2>1, <2>2, OnlyMoves
<1>12. CASE n # 0 /\ History!Outcome(Chain[n], answer[n], r.from, r.to, r.open) # "raised"
  <2>1. PICK got : got = History!Fetched(n, answer[n], r.from, r.to)
    OBVIOUS
  <2>2. r.from \in Int /\ r.to \in Int
    BY <1>3, OpeningIs DEF Reaches
  <2>3. /\ got.source \in History!Sources /\ got.base \in 1 .. MaxBase /\ got.first = From(got.source)
        /\ got.first <= r.to /\ got.first \in Int
    BY <1>3, <1>6, <1>12, <2>1, <2>2, GotIs DEF From
  <2>4. PICK x : x = [q EXCEPT !.got = got]
    OBVIOUS
  <2>5. /\ DOMAIN x = DOMAIN History!Idle /\ x.start = r.start /\ x.end = r.end /\ x.key = r.key /\ x.cover = r.cover
        /\ x.from = r.from /\ x.to = r.to /\ x.rebuilt = r.rebuilt /\ x.rows = r.rows /\ x.got = got
    BY <1>8, <2>4 DEF History!Idle
  <2>6. CASE x.got.source = r.got.source /\ History!RowsOf(x.rows) \subseteq x.got.first .. x.to
    <3>1. PICK h : h = [x EXCEPT !.rows = History!NoRows, !.pc = "merge"]
      OBVIOUS
    <3>2. /\ DOMAIN h = DOMAIN History!Idle /\ h.start = r.start /\ h.end = r.end /\ h.key = r.key /\ h.cover = r.cover
          /\ h.from = r.from /\ h.to = r.to /\ h.rebuilt = r.rebuilt /\ h.got = got /\ h.pc = "merge" /\ h.rows = History!NoRows
      BY <2>5, <3>1 DEF History!Idle
    <3>3. CoverFits(h)
      BY <1>3, <3>2 DEF CoverFits
    <3>4. Reaches(h)
      BY <1>3, <2>5, <2>6, <3>2 DEF Reaches
    <3>5. HandFits(h)
      BY <1>3, <2>3, <3>2, <3>3, <3>4 DEF HandFits, Asks, Active, Planning, Holding
    <3> QED BY <1>4, <1>5, <1>6, <1>7, <1>12, <2>1, <2>4, <2>6, <3>1, <3>5, OnlyMoves
  <2>7. CASE ~(x.got.source = r.got.source /\ History!RowsOf(x.rows) \subseteq x.got.first .. x.to)
    <3>1. PICK h : h = History!Refused(x)
      OBVIOUS
    <3>2. Asks(x)
      BY <1>3, <2>5 DEF Asks
    <3>3. HandFits(h)
      BY <3>1, <3>2, RefusedFits
    <3> QED BY <1>4, <1>5, <1>6, <1>7, <1>12, <2>1, <2>4, <2>7, <3>1, <3>3, OnlyMoves
  <2> QED BY <2>6, <2>7
<1> QED BY <1>10, <1>11, <1>12

\* Rows without a hole from where the source begins have no gaps.
LEMMA NoGaps ==
    ASSUME HistoryConstants, TablesFit, NEW s \in History!Sources, NEW e \in History!Days, From(s) <= e,
           NEW f, \A d \in History!Days : d <= e => (f[d] # 0 <=> From(s) <= d)
    PROVE  History!Gaps(f, Opening, e) = {}
<1>1. From(s) \in History!Days /\ Opening \in History!Days /\ From(s) \in Int /\ Opening \in Int /\ Opening <= From(s)
  BY OpeningIs DEF From, History!Larger, TablesFit
<1>2. PICK rows : rows = History!RowsOf(f)
  OBVIOUS
<1>3. \A d \in History!Days : d <= e => (d \in rows <=> From(s) <= d)
  BY <1>2 DEF History!RowsOf
<1>4. rows \subseteq Nat /\ From(s) \in rows /\ rows \subseteq History!Days
  <2>1. rows \subseteq History!Days
    BY <1>2 DEF History!RowsOf
  <2>2. From(s) \in rows
    BY <1>1, <1>3
  <2> QED BY <2>1, <2>2, OpeningIs
<1>5. History!Min(rows) \in rows /\ \A y \in rows : History!Min(rows) <= y
  <2>1. PICK m \in rows : \A y \in rows : m <= y
    BY <1>4, LeastOf
  <2> QED BY <2>1 DEF History!Min
<1>6. History!Min(rows) = From(s)
  <2>1. History!Min(rows) <= From(s) /\ History!Min(rows) \in History!Days /\ History!Min(rows) \in Int /\ e \in Int
    <3>1. PICK m : m = History!Min(rows)
      OBVIOUS
    <3>2. m \in rows /\ m <= From(s)
      BY <1>4, <1>5, <3>1
    <3> QED BY <1>4, <3>1, <3>2, OpeningIs
  <2>2. From(s) <= History!Min(rows)
    BY <1>1, <1>3, <1>5, <2>1
  <2> QED BY <1>1, <2>1, <2>2
<1>7. \A d \in From(s) .. e : d \in rows
  <2>1. \A d \in From(s) .. e : d \in History!Days
    BY <1>1, OpeningIs DEF HistoryConstants
  <2> QED BY <1>1, <1>3, <2>1, OpeningIs
<1> QED BY <1>1, <1>2, <1>6, <1>7 DEF History!Gaps, History!Larger

\* What a merge puts over what is stored.
LEMMA MergedRows ==
    ASSUME HistoryConstants, TablesFit, NEW r, Asks(r), r.got.source \in History!Sources, r.got.base \in 1 .. MaxBase,
           r.to \in History!Days, From(r.got.source) <= r.end, r.to <= today,
           IF r.rebuilt THEN Reaches(r) /\ r.got.first = From(r.got.source) /\ r.rows = History!NoRows
           ELSE /\ r.to = r.end /\ GotFits(r) /\ r.rows = History!Between(prices[r.got.source], Opening, r.end)
                /\ \A d \in History!Days : r.got.first <= d /\ d <= r.end => prices[r.got.source][d] \in {0, r.got.base},
           NEW new, new = History!Download(r.got, r.to),
           NEW combined, combined = [d \in History!Days |-> IF new[d] # 0 THEN new[d] ELSE r.rows[d]],
           NEW rows, rows = IF r.rebuilt THEN new ELSE [d \in History!Days |-> IF new[d] # 0 THEN new[d] ELSE prices[r.got.source][d]]
    PROVE  /\ History!Gaps(combined, Opening, r.to) = {}
           /\ \E l \in History!Days, b \in Bases :
                 From(r.got.source) <= l /\ r.end <= l /\ l <= today /\ rows = Series(r.got.source, l, b) /\ Even(b)
           /\ \A d \in History!Days : Stored(r.got.source, d) => rows[d] # 0
<1> DEFINE s == r.got.source
<1>1. s \in History!Sources /\ From(s) \in History!Days /\ From(s) \in Int /\ r.end \in History!Days /\ r.end \in Int /\ r.to \in Int /\ r.end <= today
      /\ \A d \in History!Days : d \in Int
  BY OpeningIs DEF Asks, From, History!Larger, TablesFit
<1>2. r.got.first \in Int /\ From(s) <= r.got.first
  <2>1. CASE r.rebuilt
    BY <1>1, <2>1
  <2>2. CASE ~r.rebuilt
    BY <1>1, <2>2 DEF GotFits
  <2> QED BY <2>1, <2>2
<1>3. r.got.base # 0 /\ r.got.base \in Int
  BY DEF HistoryConstants
<1>4. \A d \in History!Days : new[d] = IF r.got.first <= d /\ d <= r.to THEN r.got.base ELSE 0
  BY <1>1, <1>2, DownloadIs
<1>5. Opening \in Int /\ Opening <= From(s)
  BY <1>1, OpeningIs DEF From, History!Larger, TablesFit
<1>8. PICK fresh : fresh = [d \in History!Days |-> r.got.base]
  OBVIOUS
<1>9. fresh \in Bases /\ Even(fresh) /\ \A d \in History!Days : fresh[d] = r.got.base
  BY <1>8 DEF Bases, Even
<1> HIDE DEF s
<1>6. CASE r.rebuilt
  <2>1. r.got.first = From(s) /\ r.rows = History!NoRows /\ Reaches(r)
    BY <1>6 DEF s
  <2>2. \A d \in History!Days : combined[d] = IF From(s) <= d /\ d <= r.to THEN r.got.base ELSE 0
    BY <1>4, <2>1 DEF History!NoRows
  <2>3. From(s) <= r.to
    BY <1>1, <2>1 DEF Reaches, s
  <2>4. History!Gaps(combined, Opening, r.to) = {}
    BY <1>1, <1>3, <2>2, <2>3, NoGaps
  <2>5. rows = Series(s, r.to, fresh)
    <3>1. rows = new /\ DOMAIN new = History!Days /\ new = [d \in History!Days |-> new[d]]
      BY <1>1, <1>2, <1>6, DownloadIs DEF History!Download
    <3>2. \A d \in History!Days : new[d] = IF d \in From(s) .. r.to THEN fresh[d] ELSE 0
      BY <1>1, <1>4, <1>9, <2>1
    <3> QED BY <3>1, <3>2 DEF Series
  <2>6. \A d \in History!Days : Stored(s, d) => rows[d] # 0
    <3>1. \A d \in History!Days : Stored(s, d) => From(s) <= d /\ d <= r.to
      BY <1>1, <2>1, NoHole DEF Reaches, s
    <3> QED BY <1>3, <1>4, <1>6, <2>1, <3>1
  <2> QED BY <1>1, <1>9, <2>1, <2>3, <2>4, <2>5, <2>6 DEF Reaches, s
<1>7. CASE ~r.rebuilt
  <2>1. /\ r.to = r.end /\ GotFits(r) /\ r.rows = History!Between(prices[s], Opening, r.end) /\ r.got.first <= r.end /\ r.got.first \in History!Days
        /\ \A d \in History!Days : r.got.first <= d /\ d <= r.end => prices[s][d] \in {0, r.got.base}
    BY <1>7 DEF s, GotFits
  <2>2. \A d \in History!Days : r.rows[d] = IF Opening <= d /\ d <= r.end THEN prices[s][d] ELSE 0
    <3>1. PICK f : f = prices[s]
      OBVIOUS
    <3>2. \A d \in History!Days : History!Between(f, Opening, r.end)[d] = IF Opening <= d /\ d <= r.end THEN f[d] ELSE 0
      BY <1>1, <1>5 DEF History!Between
    <3> QED BY <2>1, <3>1, <3>2
  <2>3. CASE prices[s] = History!NoRows
    <3>1. r.got.first = From(s)
      BY <2>1, <2>3 DEF GotFits, s
    <3>2. \A d \in History!Days : combined[d] = IF From(s) <= d /\ d <= r.to THEN r.got.base ELSE 0
      BY <1>4, <2>2, <2>3, <3>1 DEF History!NoRows
    <3>3. History!Gaps(combined, Opening, r.to) = {}
      BY <1>1, <1>3, <2>1, <3>2, NoGaps DEF s
    <3>4. rows = Series(s, r.end, fresh)
      BY <1>1, <1>4, <1>7, <1>9, <2>1, <2>3, <3>1 DEF Series, History!NoRows, s
    <3>5. \A d \in History!Days : ~Stored(s, d)
      BY <2>3 DEF Stored, History!NoRows
    <3> QED BY <1>1, <1>9, <2>1, <3>3, <3>4, <3>5 DEF s
  <2>4. CASE prices[s] # History!NoRows
    <3>1. PICK c \in History!Days : r.got.first <= c + 1 /\ c <= r.end /\ Stored(s, c) /\ (past = {} => r.got.first <= c)
      BY <2>1, <2>4 DEF GotFits, Follows, s
    <3>2. PICK l \in History!Days, b \in Bases : From(s) <= l /\ l <= today /\ prices[s] = Series(s, l, b) /\ Even(b)
      BY <1>1, <2>4 DEF TablesFit, Kept
    <3>3. \A d \in History!Days : b[d] # 0 /\ prices[s][d] = IF From(s) <= d /\ d <= l THEN b[d] ELSE 0
      BY <1>1, <3>2, BaseIs DEF Series
    <3>4. c <= l /\ From(s) <= c /\ (past = {} => b[c] = r.got.base)
      BY <1>1, <2>1, <3>1, <3>3 DEF Stored
    <3>13. PICK f : f = [d \in History!Days |-> IF r.got.first <= d /\ d <= r.end THEN r.got.base ELSE b[d]]
      OBVIOUS
    <3>14. f \in Bases /\ \A d \in History!Days : f[d] = IF r.got.first <= d /\ d <= r.end THEN r.got.base ELSE b[d]
      BY <3>2, <3>13 DEF Bases
    <3>15. Even(f)
      <4>1. ASSUME past = {} PROVE \A d \in History!Days : f[d] = r.got.base
        <5>1. \A d \in History!Days : b[d] = r.got.base
          BY <3>1, <3>2, <3>4, <4>1 DEF Even
        <5> QED BY <3>14, <5>1
      <4> QED BY <4>1 DEF Even
    <3>5. \A d \in History!Days : d <= r.end => (combined[d] # 0 <=> From(s) <= d)
      BY <1>1, <1>2, <1>3, <1>4, <1>5, <2>1, <2>2, <3>1, <3>3, <3>4
    <3>6. History!Gaps(combined, Opening, r.to) = {}
      BY <1>1, <2>1, <3>5, NoGaps DEF s
    <3>7. PICK m \in History!Days : m = History!Larger(l, r.end)
      BY <1>1, <3>2 DEF History!Larger
    <3>8. rows = [d \in History!Days |-> IF new[d] # 0 THEN new[d] ELSE prices[s][d]]
      BY <1>7 DEF s
    <3>9. \A d \in History!Days : (IF new[d] # 0 THEN new[d] ELSE prices[s][d]) = IF From(s) <= d /\ d <= m THEN f[d] ELSE 0
      BY <1>1, <1>2, <1>3, <1>4, <2>1, <3>1, <3>2, <3>3, <3>4, <3>7, <3>14 DEF History!Larger
    <3>10. rows = Series(s, m, f)
      BY <1>1, <3>8, <3>9 DEF Series
    <3>11. \A d \in History!Days : Stored(s, d) => rows[d] # 0
      BY <3>8 DEF Stored
    <3>12. From(s) <= m /\ r.end <= m /\ m <= today
      BY <1>1, <3>2, <3>7 DEF History!Larger
    <3> QED BY <3>6, <3>10, <3>11, <3>12, <3>14, <3>15 DEF s
  <2> QED BY <2>3, <2>4
<1> QED BY <1>6, <1>7

LEMMA MergeKeeps == ASSUME HistoryConstants, HistoryInv, NEW t \in Syncs, History!Merge(t) PROVE HistoryInv' /\ History!RowsAreKept
<1>1. PICK r : r = sync[t]
  OBVIOUS
<1>2. r.pc = "merge" /\ UNCHANGED <<selected, pinned, History!world>>
  BY <1>1 DEF History!Merge, History!At
<1>3. /\ HandFits(r) /\ TablesFit /\ PointersFit /\ Asks(r) /\ History!SyncStart(r) = Opening /\ History!Known(r) = {} /\ Opening \in History!Days
      /\ r.got.source \in History!Sources /\ r.got.base \in 1 .. MaxBase /\ r.from \in History!Days
      /\ IF r.rebuilt THEN Reaches(r) /\ r.got.first = From(r.got.source) /\ r.rows = History!NoRows
         ELSE /\ r.to = r.end /\ GotFits(r) /\ r.rows = History!Between(prices[r.got.source], Opening, r.end)
              /\ \A d \in History!Days : r.got.first <= d /\ d <= r.end => prices[r.got.source][d] \in {0, r.got.base}
  BY <1>1, <1>2, Hand DEF HandFits, Active, Planning, Holding
<1>4. PICK s \in History!Sources : s = r.got.source
  BY <1>3
<1>5. From(s) \in Int /\ r.end \in Int /\ r.end \in History!Days
  BY <1>3, OpeningIs DEF From, History!Larger, TablesFit, Asks
<1>6. r.to \in History!Days /\ r.to <= today /\ From(s) <= r.end
  <2>1. CASE r.rebuilt
    BY <1>3, <1>4, <2>1 DEF Reaches
  <2>2. CASE ~r.rebuilt
    <3>1. r.got.first \in Int /\ From(s) <= r.got.first /\ r.got.first <= r.end
      BY <1>3, <1>4, <2>2, OpeningIs DEF GotFits
    <3> QED BY <1>3, <1>5, <2>2, <3>1 DEF Asks
  <2> QED BY <2>1, <2>2
<1>7. PICK new : new = History!Download(r.got, r.to)
  OBVIOUS
<1>8. PICK combined : combined = [d \in History!Days |-> IF new[d] # 0 THEN new[d] ELSE r.rows[d]]
  OBVIOUS
<1>9. PICK rows : rows = IF r.rebuilt THEN new ELSE [d \in History!Days |-> IF new[d] # 0 THEN new[d] ELSE prices[s][d]]
  OBVIOUS
<1>10. /\ History!Gaps(combined, Opening, r.to) = {}
       /\ \E l \in History!Days, b \in Bases : From(s) <= l /\ r.end <= l /\ l <= today /\ rows = Series(s, l, b) /\ Even(b)
       /\ \A d \in History!Days : Stored(s, d) => rows[d] # 0
  BY <1>3, <1>4, <1>6, <1>7, <1>8, <1>9, MergedRows
<1>11. PICK gaps : gaps = History!Gaps(combined, History!SyncStart(r), r.to) \union (IF r.key = s THEN History!Known(r) \ History!RowsOf(combined) ELSE {})
  OBVIOUS
<1>12. gaps = {}
  BY <1>3, <1>10, <1>11
<1>13. PICK h : h = [r EXCEPT !.pc = "select", !.gaps = gaps]
  OBVIOUS
<1>14. /\ prices' = [prices EXCEPT ![s] = rows]
       /\ asked' = [asked EXCEPT ![s] = IF asked[s] = None \/ r.rebuilt THEN r.from ELSE History!Smaller(asked[s], r.from)]
       /\ missing' = [missing EXCEPT ![s] = gaps]
       /\ History!Go(t, h)
  BY <1>1, <1>4, <1>7, <1>8, <1>9, <1>11, <1>13, Zenon DEF History!Merge
<1>15. /\ UNCHANGED listed /\ UNCHANGED base /\ UNCHANGED today /\ UNCHANGED selected /\ UNCHANGED pinned
       /\ UNCHANGED past /\ UNCHANGED crowd
  BY <1>2 DEF History!world
<1>16. \A u : From(u)' = From(u)
  BY <1>15 DEF From
<1>17. (\A u, l, b : Series(u, l, b)' = Series(u, l, b)) /\ (\A b : Even(b)' <=> Even(b))
  BY <1>15, <1>16 DEF Series, Even
<1>18. /\ prices'[s] = rows /\ missing'[s] = {}
       /\ \A u \in History!Sources \ {s} : prices'[u] = prices[u] /\ asked'[u] = asked[u] /\ missing'[u] = missing[u]
       /\ DOMAIN prices' = History!Sources /\ DOMAIN asked' = History!Sources /\ DOMAIN missing' = History!Sources
  BY <1>3, <1>12, <1>14 DEF TablesFit
<1>19. asked'[s] \in History!Days
  <2>1. asked[s] \in History!Days \union {None} /\ asked'[s] = IF asked[s] = None \/ r.rebuilt THEN r.from ELSE History!Smaller(asked[s], r.from)
    BY <1>3, <1>14 DEF TablesFit, Kept
  <2> QED BY <1>3, <2>1 DEF History!Smaller
<1>20. TablesFit'
  <2>1. Kept(s)'
    <3>1. PICK l \in History!Days, b \in Bases : From(s) <= l /\ l <= today /\ rows = Series(s, l, b) /\ Even(b)
      BY <1>10
    <3>2. From(s)' = From(s) /\ Series(s, l, b)' = Series(s, l, b) /\ Even(b)' /\ today' = today
      BY <1>15, <1>16, <1>17, <3>1
    <3> QED BY <1>3, <1>18, <1>19, <3>1, <3>2 DEF Kept
  <2>2. \A u \in History!Sources \ {s} : Kept(u)'
    <3>1. TAKE u \in History!Sources \ {s}
    <3>2. Kept(u) /\ prices'[u] = prices[u] /\ asked'[u] = asked[u] /\ today' = today
      BY <1>3, <1>15, <1>18 DEF TablesFit
    <3> QED BY <1>16, <1>17, <3>2 DEF Kept
  <2> QED BY <1>3, <1>15, <1>18, <2>1, <2>2 DEF TablesFit
<1>21. \A u \in History!Sources : \A d \in History!Days : prices[u][d] # 0 => prices'[u][d] # 0
  BY <1>10, <1>18 DEF Stored
<1>22. \A u, d : Stored(u, d) => Stored(u, d)'
  BY <1>21 DEF Stored
<1>23. \A u, e : Near(u, e) => Near(u, e)'
  BY <1>15, <1>22 DEF Near
<1>24. PointersFit'
  BY <1>3, <1>15, <1>22, <1>23 DEF PointersFit
<1>25. /\ DOMAIN h = DOMAIN History!Idle /\ h.start = r.start /\ h.end = r.end /\ h.key = r.key /\ h.got = r.got /\ h.pc = "select"
  BY <1>3, <1>13 DEF Asks, History!Idle
<1>26. Stored(s, r.end)'
  <2>1. PICK l \in History!Days, b \in Bases : From(s) <= l /\ r.end <= l /\ rows = Series(s, l, b)
    BY <1>10
  <2>2. rows[r.end] = b[r.end] /\ b[r.end] # 0
    BY <1>3, <1>5, <1>6, <2>1, OpeningIs, BaseIs DEF Series
  <2> QED BY <1>5, <1>18, <2>2 DEF Stored
<1>27. HandFits(h)'
  BY <1>3, <1>4, <1>15, <1>25, <1>26 DEF HandFits, Asks, Active, Planning, Holding
<1>28. History!RowsAreKept
  BY <1>21 DEF History!RowsAreKept, History!RowsOf
<1> QED BY <1>14, <1>20, <1>24, <1>27, <1>28, Moves

LEMMA StoredIsNear ==
    ASSUME HistoryConstants, TablesFit, NEW r, Asks(r), NEW s, Stored(s, r.end) PROVE Near(s, today)
<1>1. today \in Int /\ r.end \in Int /\ r.end \in History!Days /\ Overlap \in Int /\ Overlap >= 1
  BY OpeningIs DEF Asks, TablesFit, HistoryConstants
<1>2. today - r.end <= Overlap
  BY <1>1 DEF Asks
<1> QED BY <1>1, <1>2 DEF Near

\* Steps that change the pointers only.
LEMMA SamePrices ==
    ASSUME HistoryInv, UNCHANGED <<prices, asked, missing, History!world>>, NEW h, HandFits(h)
    PROVE  /\ DOMAIN pinned' = History!Days => TablesFit'
           /\ HandFits(h)' /\ (\A s, d : Stored(s, d)' <=> Stored(s, d)) /\ (\A s, e : Near(s, e)' <=> Near(s, e))
<1>1. /\ UNCHANGED prices /\ UNCHANGED asked /\ UNCHANGED missing
      /\ UNCHANGED base /\ UNCHANGED listed /\ UNCHANGED today /\ UNCHANGED past /\ UNCHANGED crowd
  BY DEF History!world
<1>2. \A s : From(s)' = From(s)
  BY <1>1 DEF From
<1>3. (\A s, l, b : Series(s, l, b)' = Series(s, l, b)) /\ (\A b : Even(b)' <=> Even(b))
  BY <1>1, <1>2 DEF Series, Even
<1>4. \A s : Kept(s)' <=> Kept(s)
  BY <1>1, <1>2, <1>3 DEF Kept
<1>5. DOMAIN pinned' = History!Days => TablesFit'
  BY <1>1, <1>4 DEF HistoryInv, TablesFit
<1>6. \A s, d : Stored(s, d)' <=> Stored(s, d)
  BY <1>1 DEF Stored
<1>7. (\A s, e : Near(s, e)' <=> Near(s, e)) /\ (\A s, f, e : Follows(s, f, e)' <=> Follows(s, f, e))
  BY <1>1, <1>6 DEF Near, Follows
<1>9. \A s, f, e : Touches(s, f, e)' <=> Touches(s, f, e)
  BY <1>2, <1>7 DEF Touches
<1>10. CoverFits(h)' <=> CoverFits(h)
  BY <1>2, <1>7 DEF CoverFits
<1>11. GotFits(h)' <=> GotFits(h)
  BY <1>1, <1>2, <1>7 DEF GotFits
<1>12. Reaches(h)' <=> Reaches(h)
  BY <1>1, <1>2, <1>6 DEF Reaches
<1>13. HandFits(h)'
  BY <1>1, <1>2, <1>3, <1>6, <1>7, <1>9, <1>10, <1>11, <1>12 DEF HandFits
<1> QED BY <1>5, <1>6, <1>7, <1>13

LEMMA SelectKeeps == ASSUME HistoryConstants, HistoryInv, NEW t \in Syncs, History!Select(t) PROVE HistoryInv'
<1>1. PICK r : r = sync[t]
  OBVIOUS
<1>2. r.pc = "select" /\ UNCHANGED <<prices, asked, missing, History!world>> /\ UNCHANGED pinned /\ selected' = r.got.source
  BY <1>1 DEF History!Select, History!At
<1>3. HandFits(r) /\ TablesFit /\ PointersFit /\ Asks(r) /\ Stored(r.got.source, r.end)
  BY <1>1, <1>2, Hand DEF HandFits, Active, Planning, Holding
<1>4. PICK h : h = [r EXCEPT !.pc = "check", !.key = r.got.source]
  OBVIOUS
<1>5. DOMAIN h = DOMAIN History!Idle /\ h.start = r.start /\ h.end = r.end /\ h.key = r.got.source /\ h.pc = "check"
  BY <1>3, <1>4 DEF Asks, History!Idle
<1>6. HandFits(h)
  BY <1>3, <1>5 DEF HandFits, Asks, Active, Planning, Holding
<1>7. History!Go(t, h)
  BY <1>1, <1>4, Zenon DEF History!Select
<1>8. TablesFit' /\ HandFits(h)' /\ (\A s, d : Stored(s, d)' <=> Stored(s, d)) /\ (\A s, e : Near(s, e)' <=> Near(s, e))
  BY <1>2, <1>3, <1>6, SamePrices DEF TablesFit
<1>9. Near(r.got.source, today)
  BY <1>3, StoredIsNear
<1>10. PointersFit'
  BY <1>2, <1>3, <1>8, <1>9 DEF PointersFit, History!world
<1> QED BY <1>7, <1>8, <1>10, Moves

LEMMA CheckKeeps == ASSUME HistoryConstants, HistoryInv, NEW t \in Syncs, History!Check(t) PROVE HistoryInv'
<1>1. PICK r : r = sync[t]
  OBVIOUS
<1>2. r.pc = "check" /\ UNCHANGED <<History!tables, History!world>>
  BY <1>1 DEF History!Check, History!At
<1>3. HandFits(r) /\ Asks(r) /\ Stored(r.key, r.end)
  BY <1>1, <1>2, Hand DEF HandFits, Active, Planning, Holding
<1>4. PICK h : h = [r EXCEPT !.pc = "pin", !.rows = History!NoRows]
  OBVIOUS
<1>5. DOMAIN h = DOMAIN History!Idle /\ h.start = r.start /\ h.end = r.end /\ h.key = r.key /\ h.pc = "pin"
  BY <1>3, <1>4 DEF Asks, History!Idle
<1>6. HandFits(h)
  BY <1>3, <1>5 DEF HandFits, Asks, Active, Planning, Holding
<1>7. PICK x : x = History!Refused(r)
  OBVIOUS
<1>8. HandFits(x)
  BY <1>3, <1>7, RefusedFits
<1>9. History!Go(t, h) \/ History!Go(t, x)
  BY <1>1, <1>4, <1>7, Zenon DEF History!Check
<1> QED BY <1>2, <1>6, <1>8, <1>9, OnlyMoves

LEMMA PinKeeps == ASSUME HistoryConstants, HistoryInv, NEW t \in Syncs, History!Pin(t) PROVE HistoryInv'
<1>1. PICK r : r = sync[t]
  OBVIOUS
<1>2. /\ r.pc = "pin" /\ UNCHANGED <<prices, asked, missing, History!world>> /\ selected' = r.key
      /\ pinned' = [pinned EXCEPT ![r.end] = r.key]
  BY <1>1 DEF History!Pin, History!At
<1>3. HandFits(r) /\ TablesFit /\ PointersFit /\ Asks(r) /\ Stored(r.key, r.end)
  BY <1>1, <1>2, Hand DEF HandFits, Active, Planning, Holding
<1>4. PICK h : h = [r EXCEPT !.pc = "read"]
  OBVIOUS
<1>5. DOMAIN h = DOMAIN History!Idle /\ h.start = r.start /\ h.end = r.end /\ h.key = r.key /\ h.pc = "read"
  BY <1>3, <1>4 DEF Asks, History!Idle
<1>6. HandFits(h)
  BY <1>3, <1>5 DEF HandFits, Asks, Active, Planning, Holding
<1>7. History!Go(t, h)
  BY <1>1, <1>4, Zenon DEF History!Pin
<1>8. DOMAIN pinned' = History!Days /\ pinned'[r.end] = r.key /\ \A d \in History!Days \ {r.end} : pinned'[d] = pinned[d]
  BY <1>2, <1>3 DEF TablesFit, Asks
<1>9. TablesFit' /\ HandFits(h)' /\ (\A s, d : Stored(s, d)' <=> Stored(s, d)) /\ (\A s, e : Near(s, e)' <=> Near(s, e))
  BY <1>2, <1>6, <1>8, SamePrices
<1>10. Near(r.key, today)
  BY <1>3, StoredIsNear
<1>11. PointersFit'
  <2>1. PICK s : s = r.key
    OBVIOUS
  <2>2. Near(s, today)' /\ selected' = s
    BY <1>2, <1>9, <1>10, <2>1 DEF History!world
  <2>3. (selected # None => Near(selected, today))'
    BY <2>2
  <2>4. ASSUME NEW d \in History!Days PROVE (pinned[d] # None => Stored(pinned[d], d))'
    <3>1. CASE d = r.end
      BY <1>3, <1>8, <1>9, <2>1, <3>1
    <3>2. CASE d # r.end
      BY <1>3, <1>8, <1>9, <3>2 DEF PointersFit
    <3> QED BY <3>1, <3>2
  <2> QED BY <2>3, <2>4 DEF PointersFit
<1> QED BY <1>7, <1>9, <1>11, Moves

LEMMA HistoryReadKeeps == ASSUME HistoryConstants, HistoryInv, NEW t \in Syncs, History!Read(t) PROVE HistoryInv'
<1>1. PICK r : r = sync[t]
  OBVIOUS
<1>2. r.pc = "read" /\ UNCHANGED <<History!tables, History!world>>
  BY <1>1 DEF History!Read, History!At
<1>3. HandFits(r) /\ TablesFit /\ Asks(r) /\ Stored(r.key, r.end)
  BY <1>1, <1>2, Hand DEF HandFits, Active, Planning, Holding
<1>4. PICK s \in History!Sources : s = r.key
  BY <1>3 DEF Stored
<1>5. PICK rows : rows = History!Between(prices[s], r.start, r.end)
  OBVIOUS
<1>6. PICK h : h = [History!Idle EXCEPT !.pc = "done", !.start = r.start, !.end = r.end, !.key = r.key, !.rows = rows]
  OBVIOUS
<1>7. /\ DOMAIN h = DOMAIN History!Idle /\ h.start = r.start /\ h.end = r.end /\ h.key = s /\ h.pc = "done" /\ h.rows = rows
  BY <1>4, <1>6 DEF History!Idle
<1>8. PICK l \in History!Days, b \in Bases : From(s) <= l /\ prices[s] = Series(s, l, b) /\ Even(b)
  BY <1>3, <1>4 DEF TablesFit, Kept, Stored, History!NoRows
<1>9. From(s) \in Int /\ r.end \in Int /\ Opening \in Int /\ Opening <= From(s) /\ r.end \in History!Days /\ \A d \in History!Days : d \in Int
  BY <1>3, OpeningIs DEF From, History!Larger, TablesFit, Asks
<1>10. From(s) <= r.end /\ r.end <= l
  BY <1>3, <1>4, <1>8, <1>9 DEF Stored, Series
<1>11. rows = Series(s, r.end, b)
  <2>1. \A d \in History!Days : (IF d \in Opening .. r.end THEN prices[s][d] ELSE 0) = (IF d \in From(s) .. r.end THEN b[d] ELSE 0)
    BY <1>8, <1>9, <1>10 DEF Series
  <2> QED BY <1>3, <1>5, <2>1 DEF Series, History!Between, Asks
<1>12. HandFits(h)
  BY <1>3, <1>4, <1>7, <1>8, <1>9, <1>10, <1>11 DEF HandFits, Asks, Active, Planning, Holding
<1>13. History!Go(t, h)
  BY <1>1, <1>4, <1>5, <1>6, Zenon DEF History!Read
<1> QED BY <1>2, <1>12, <1>13, OnlyMoves

LEMMA ReadjustKeeps == ASSUME HistoryConstants, HistoryInv, NEW s \in History!Sources, History!Readjust(s) PROVE HistoryInv'
<1>1. /\ UNCHANGED prices /\ UNCHANGED asked /\ UNCHANGED missing /\ UNCHANGED selected /\ UNCHANGED pinned
      /\ UNCHANGED listed /\ UNCHANGED today /\ UNCHANGED sync /\ UNCHANGED crowd /\ UNCHANGED past
  <2>1. \A t, u \in History!AtWork : t = u
    BY DEF History!AtWork, HistoryConstants
  <2> QED BY <2>1 DEF History!Readjust, History!tables
<1>2. base' \in [History!Sources -> 1 .. MaxBase]
  BY DEF History!Readjust, HistoryInv, TablesFit, HistoryConstants
<1>3. \A u : From(u)' = From(u)
  BY <1>1 DEF From
<1>4. (\A u, l, b : Series(u, l, b)' = Series(u, l, b)) /\ (\A b : Even(b)' <=> Even(b))
  BY <1>1, <1>3 DEF Series, Even
<1>5. \A u : Kept(u)' <=> Kept(u)
  BY <1>1, <1>3, <1>4 DEF Kept
<1>6. TablesFit'
  BY <1>1, <1>2, <1>5 DEF HistoryInv, TablesFit
<1>7. \A u, d : Stored(u, d)' <=> Stored(u, d)
  BY <1>1 DEF Stored
<1>8. (\A u, e : Near(u, e)' <=> Near(u, e)) /\ (\A u, f, e : Follows(u, f, e)' <=> Follows(u, f, e))
  BY <1>1, <1>7 DEF Near, Follows
<1>9. PointersFit'
  BY <1>1, <1>7, <1>8 DEF HistoryInv, PointersFit
<1>10. ASSUME NEW t \in Syncs PROVE HandFits(sync[t])'
  <2>1. PICK h : h = sync[t] /\ HandFits(h)
    BY DEF HistoryInv
  <2>2. \A u, f, e : Touches(u, f, e)' <=> Touches(u, f, e)
    BY <1>3, <1>8 DEF Touches
  <2>3. CoverFits(h)' <=> CoverFits(h)
    BY <1>3, <1>8 DEF CoverFits
  <2>4. GotFits(h)' <=> GotFits(h)
    BY <1>1, <1>3, <1>8 DEF GotFits
  <2>5. Reaches(h)' <=> Reaches(h)
    BY <1>1, <1>3, <1>7 DEF Reaches
  <2>6. HandFits(h)'
    BY <1>1, <1>3, <1>4, <1>7, <1>8, <2>1, <2>2, <2>3, <2>4, <2>5 DEF HandFits
  <2> QED BY <1>1, <2>1, <2>6
<1> QED BY <1>1, <1>6, <1>9, <1>10 DEF HistoryInv

LEMMA NextDayKeeps == ASSUME HistoryConstants, HistoryInv, History!NextDay PROVE HistoryInv'
<1>1. /\ UNCHANGED prices /\ UNCHANGED asked /\ UNCHANGED missing /\ UNCHANGED selected /\ UNCHANGED pinned
      /\ UNCHANGED listed /\ UNCHANGED base /\ UNCHANGED sync /\ UNCHANGED crowd /\ today' = today + 1
      /\ past' = IF History!LeftAlone(today + 1) THEN past \union {"left"} ELSE past
  BY DEF History!NextDay, History!tables
<1>2. today \in Int /\ today' \in History!Days /\ today' >= 2 /\ \A d \in History!Days : d \in Int
  BY <1>1, OpeningIs DEF History!NextDay, HistoryInv, TablesFit, HistoryConstants
<1>3. \A u : From(u)' = From(u)
  BY <1>1 DEF From
<1>11. (past' = {} => past = {} /\ ~History!LeftAlone(today + 1)) /\ ("raced" \notin past => "raced" \notin past')
  BY <1>1
<1>4. (\A u, l, b : Series(u, l, b)' = Series(u, l, b)) /\ (\A b : Even(b) => Even(b)')
  BY <1>3, <1>11 DEF Series, Even
<1>5. \A u \in History!Sources : Kept(u)'
  <2>1. TAKE u \in History!Sources
  <2>2. CASE prices[u] = History!NoRows /\ asked[u] = None
    BY <1>1, <2>2 DEF Kept
  <2>3. CASE /\ asked[u] \in History!Days
             /\ \E l \in History!Days, b \in Bases : From(u) <= l /\ l <= today /\ prices[u] = Series(u, l, b) /\ Even(b)
    <3>1. PICK l \in History!Days, b \in Bases : From(u) <= l /\ l <= today /\ prices[u] = Series(u, l, b) /\ Even(b)
      BY <2>3
    <3>2. l <= today'
      BY <1>1, <1>2, <3>1
    <3> QED BY <1>1, <1>3, <1>4, <2>3, <3>1, <3>2 DEF Kept
  <2> QED BY <2>2, <2>3 DEF HistoryInv, TablesFit, Kept
<1>6. TablesFit'
  BY <1>1, <1>2, <1>5, <1>11 DEF HistoryInv, TablesFit
<1>7. \A u, d : Stored(u, d)' <=> Stored(u, d)
  BY <1>1 DEF Stored
<1>8. selected # None => \E k \in History!Days : Stored(selected, k) /\ (past' = {} => (today + 1) - k <= Overlap)
  <2> SUFFICES ASSUME selected # None
               PROVE  \E k \in History!Days : Stored(selected, k) /\ (past' = {} => (today + 1) - k <= Overlap)
    OBVIOUS
  <2>1. PICK d \in History!Days : Stored(selected, d)
    BY DEF HistoryInv, PointersFit, Near
  <2>2. PICK s \in History!Sources : s = selected
    BY <2>1 DEF Stored
  <2>3. PICK l \in History!Days, b \in Bases : From(s) <= l /\ prices[s] = Series(s, l, b)
    BY <2>1, <2>2 DEF HistoryInv, TablesFit, Kept, Stored, History!NoRows
  <2>4. History!RowsOf(prices[s]) = From(s) .. l /\ History!Max(History!RowsOf(prices[s])) = l /\ From(s) \in Int /\ l \in Int
    BY <2>3, SeriesEnds, OpeningIs DEF HistoryInv, TablesFit
  <2>5. l \in History!RowsOf(prices[s])
    BY <2>3, <2>4
  <2>6. past' = {} => (today + 1) - l <= Overlap
    <3>1. past' = {} => ~((today + 1) - l > Overlap)
      BY <1>11, <2>2, <2>4, <2>5 DEF History!LeftAlone
    <3>2. Overlap \in Int
      BY DEF HistoryConstants
    <3> QED BY <1>2, <2>4, <3>1, <3>2
  <2>7. l \in History!Days /\ Stored(s, l)
    BY <2>3, <2>5 DEF Stored, History!RowsOf
  <2> QED BY <2>2, <2>6, <2>7, Zenon
<1>9. PointersFit'
  <2>1. (selected # None => Near(selected, today))'
    BY <1>1, <1>7, <1>8 DEF Near
  <2>2. ASSUME NEW k \in History!Days PROVE (pinned[k] # None => Stored(pinned[k], k))'
    BY <1>1, <1>7 DEF HistoryInv, PointersFit
  <2> QED BY <2>1, <2>2 DEF PointersFit
<1>10. ASSUME NEW t \in Syncs PROVE HandFits(sync[t])'
  <2>1. PICK h : h = sync[t] /\ HandFits(h)
    BY DEF HistoryInv
  <2>2. h.pc \in {"idle", "done", "failed"}
    BY <2>1 DEF History!NextDay, History!AtWork
  <2>3. HandFits(h)'
    BY <1>1, <1>3, <1>4, <2>1, <2>2 DEF HandFits, Active, Planning, Holding
  <2> QED BY <1>1, <2>1, <2>3
<1> QED BY <1>1, <1>6, <1>9, <1>10 DEF HistoryInv

LEMMA HistoryStep == HistoryConstants /\ HistoryInv /\ [History!Next]_History!vars => HistoryInv' /\ History!RowsAreKept
<1> SUFFICES ASSUME HistoryConstants, HistoryInv, [History!Next]_History!vars PROVE HistoryInv' /\ History!RowsAreKept
  OBVIOUS
<1>1. ASSUME NEW t \in Syncs, History!Step(t) PROVE HistoryInv'
  BY <1>1, KeyFits, CoverKeeps, CachedKeeps, FetchFirstKeeps, FetchWholeKeeps, OldKeeps, RangeKeeps, RebuildKeeps,
     MergeKeeps,
     SelectKeeps, CheckKeeps, PinKeeps, HistoryReadKeeps DEF History!Step
<1>2. ASSUME NEW t \in Syncs, History!Step(t), ~History!Merge(t) PROVE UNCHANGED prices
  BY <1>2 DEF History!Step, History!Key, History!Cover, History!Cached, History!FetchFirst, History!FetchWhole,
              History!Old, History!RebuildRange, History!Rebuild, History!Select, History!Check, History!Pin, History!Read, History!Fetch, History!tables
<1>3. UNCHANGED prices => History!RowsAreKept
  BY DEF History!RowsAreKept
<1>4. CASE UNCHANGED History!vars
  <2>1. UNCHANGED <<History!tables, History!world>> /\ UNCHANGED sync /\ UNCHANGED prices
    BY <1>4 DEF History!vars, History!tables
  <2>2. \A t \in Syncs : HandFits(sync[t])' /\ TablesFit' /\ PointersFit'
    <3>1. TAKE t \in Syncs
    <3>2. PICK h : h = sync[t] /\ HandFits(h)
      BY DEF HistoryInv
    <3>3. TablesFit' /\ PointersFit' /\ HandFits(h)'
      BY <2>1, <3>2, SameTables
    <3> QED BY <2>1, <3>2, <3>3
  <2>3. HandFits(History!Idle)
    BY DEF HandFits, History!Idle, Active, Planning, Holding
  <2>4. TablesFit' /\ PointersFit'
    BY <2>1, <2>3, SameTables
  <2> QED BY <1>3, <2>1, <2>2, <2>4 DEF HistoryInv
<1>5. ASSUME NEW t \in Syncs, NEW mode, NEW first \in Starts, NEW end \in {today - 1, today}, History!Begin(t, mode, first, end)
      PROVE HistoryInv' /\ UNCHANGED prices
  BY <1>5, HistoryBeginKeeps DEF History!Begin, History!tables
<1>6. ASSUME NEW s \in History!Sources, History!Readjust(s) PROVE HistoryInv' /\ UNCHANGED prices
  BY <1>6, ReadjustKeeps DEF History!Readjust, History!tables
<1>7. History!NextDay => HistoryInv' /\ UNCHANGED prices
  BY NextDayKeeps DEF History!NextDay, History!tables
<1> QED BY <1>1, <1>2, <1>3, <1>4, <1>5, <1>6, <1>7, MergeKeeps DEF History!Next

LEMMA HistoryImplies == HistoryConstants /\ HistoryInv => History!ServedWhole /\ History!ServedOneBase /\ History!PinnedIsStored
<1> SUFFICES ASSUME HistoryConstants, HistoryInv PROVE History!ServedWhole /\ History!ServedOneBase /\ History!PinnedIsStored
  OBVIOUS
<1>1. History!PinnedIsStored
  BY DEF History!PinnedIsStored, HistoryInv, PointersFit, Stored
<1>2. ASSUME NEW t \in Syncs, History!At(t, "done")
      PROVE  LET f == sync[t].rows
             IN /\ History!RowsOf(f) = History!Min(History!RowsOf(f)) .. sync[t].end
                /\ past = {} => History!Cardinality({f[d] : d \in History!RowsOf(f)}) = 1
                /\ "last" \notin Answers => History!Min(History!RowsOf(f)) = History!Larger(sync[t].start, listed[sync[t].key])
  <2>1. PICK r : r = sync[t]
    OBVIOUS
  <2>2. r.start = Opening /\ r.end \in History!Days /\ r.key \in History!Sources /\ From(r.key) <= r.end
    BY <1>2, <2>1 DEF History!At, HistoryInv, HandFits
  <2>3. PICK b \in Bases : r.rows = Series(r.key, r.end, b) /\ Even(b)
    BY <1>2, <2>1 DEF History!At, HistoryInv, HandFits
  <2>4. PICK f : f = r.rows
    OBVIOUS
  <2>5. History!RowsOf(f) = From(r.key) .. r.end /\ History!Min(History!RowsOf(f)) = From(r.key) /\ From(r.key) \in History!Days
    BY <2>2, <2>3, <2>4, SeriesEnds DEF HistoryInv, TablesFit
  <2>6. \A d \in History!RowsOf(f) : d \in History!Days /\ f[d] = b[d]
    BY <2>3, <2>4 DEF Series, History!RowsOf
  <2>7. From(r.key) \in History!RowsOf(f)
    BY <2>2, <2>5, OpeningIs
  <2>11. PICK c : c = b[From(r.key)]
    OBVIOUS
  <2>8. past = {} => {f[d] : d \in History!RowsOf(f)} = {c}
    <3>1. past = {} => \A d \in History!RowsOf(f) : f[d] = c
      BY <2>3, <2>5, <2>6, <2>11 DEF Even
    <3> QED BY <2>7, <3>1
  <2>9. History!Cardinality({c}) = 1
    BY FS_Singleton, HistoryCounts
  <2>10. History!Min(History!RowsOf(f)) = History!Larger(r.start, listed[r.key])
    BY <2>2, <2>5 DEF From
  <2> QED BY <2>1, <2>4, <2>5, <2>8, <2>9, <2>10
<1> QED BY <1>1, <1>2 DEF History!ServedWhole, History!ServedOneBase

\* What a synchronization returns ends with the day that was asked for, has no hole and
\* begins where its source does, and a pinned day is stored: for any sources, any answers
\* of theirs, any adjustments and absences.  It has one base of adjustment until the
\* instrument has once been left alone for longer than the overlap.
THEOREM HistoryIsWhole ==
    HistoryConstants /\ History!Spec => [](History!ServedWhole /\ History!ServedOneBase /\ History!PinnedIsStored)
<1> SUFFICES ASSUME HistoryConstants
             PROVE  History!Spec => [](History!ServedWhole /\ History!ServedOneBase /\ History!PinnedIsStored)
  OBVIOUS
<1>1. History!Init => HistoryInv
  BY HistoryInit
<1>2. HistoryInv /\ [History!Next]_History!vars => HistoryInv'
  BY HistoryStep
<1>3. HistoryInv => History!ServedWhole /\ History!ServedOneBase /\ History!PinnedIsStored
  BY HistoryImplies
<1> QED BY <1>1, <1>2, <1>3, PTL DEF History!Spec

\* No step takes back a day that is stored: a series that is rebuilt has all of its days.
THEOREM RowsStay == HistoryConstants /\ History!Spec => [][History!RowsAreKept]_History!vars
<1> SUFFICES ASSUME HistoryConstants PROVE History!Spec => [][History!RowsAreKept]_History!vars
  OBVIOUS
<1>1. History!Init => HistoryInv
  BY HistoryInit
<1>2. HistoryInv /\ [History!Next]_History!vars => HistoryInv' /\ History!RowsAreKept
  BY HistoryStep
<1> QED BY <1>1, <1>2, PTL DEF History!Spec

-----------------------------------------------------------------------------
(* RadarScores.  What the rows of an instrument make of each factor is a       *)
(* number or nothing (FactorsAre), a rank among numbers rises with them       *)
(* (RankRises), and so does the weighted sum of the ranks (ScoresRise).  What *)
(* a recursion along a sequence makes exists, because a least number that it  *)
(* does not reach would follow one that it reaches (RecursionReaches).        *)

CONSTANTS Windows, Weights, MinimumCategorySize, DayRows, Scale
VARIABLES history, factors, result

Scores == INSTANCE RadarScores WITH Symbols <- Assets, Rows <- DayRows

\* How the instance counts.
LEMMA ScoresCount == \A S : Scores!Cardinality(S) = Cardinality(S)
  BY Zenon DEF Scores!Cardinality, Cardinality

ScoreConstants ==
    /\ IsFiniteSet(Assets) /\ MinimumCategorySize \in Nat /\ MinimumCategorySize >= 2
    /\ DOMAIN Weights = Scores!Factors /\ \A f \in Scores!Factors : Weights[f] \in Nat
    /\ DOMAIN Windows = {"short", "medium", "drawdown", "volatility", "liquidity"}
    /\ \A w \in DOMAIN Windows : Windows[w] \in Nat \ {0}
    /\ Scale \in Int /\ LastDay \in Nat
    /\ \A s \in Assets : DayRows[s] \subseteq [close : Nat, amount : Int]
    /\ None \notin [Scores!Factors -> Int] /\ None \notin Int

\* The image of a finite set has no more members than the set.
LEMMA ImageFits ==
    ASSUME NEW S, IsFiniteSet(S), NEW f
    PROVE  IsFiniteSet({f[x] : x \in S}) /\ Scores!Cardinality({f[x] : x \in S}) <= Scores!Cardinality(S)
<1>1. PICK T : T = {f[x] : x \in S}
  OBVIOUS
<1>2. [x \in S |-> f[x]] \in Surjection(S, T)
  BY <1>1 DEF Surjection
<1> QED BY <1>1, <1>2, FS_Surjection, ScoresCount

-----------------------------------------------------------------------------
\* A finite set of numbers has a least and a greatest one: otherwise a smallest such set
\* would have none after one of its numbers is taken away.
LEMMA LeastExists ==
    ASSUME NEW S, S \subseteq Int, IsFiniteSet(S), S # {}
    PROVE  \E x \in S : \A y \in S : x <= y
<1> DEFINE Bad(T) == T \subseteq Int /\ IsFiniteSet(T) /\ T # {} /\ ~ \E x \in T : \A y \in T : x <= y
<1> SUFFICES ASSUME Bad(S) PROVE FALSE
  OBVIOUS
<1>1. PICK sizes : sizes = {n \in Nat : \E T \in SUBSET Int : Bad(T) /\ Scores!Cardinality(T) = n}
  OBVIOUS
<1>2. Scores!Cardinality(S) \in sizes
  <2>1. Scores!Cardinality(S) \in Nat
    BY FS_CardinalityType, ScoresCount
  <2> QED BY <1>1, <2>1
<1>3. PICK n \in sizes : \A m \in sizes : n <= m
  <2>1. sizes \subseteq Nat /\ sizes # {}
    BY <1>1, <1>2
  <2> QED BY <2>1, LeastOf
<1>4. PICK T \in SUBSET Int : Bad(T) /\ Scores!Cardinality(T) = n
  BY <1>1
<1>5. PICK x \in T : TRUE
  BY <1>4
<1>6. PICK U : U = T \ {x}
  OBVIOUS
<1>7. IsFiniteSet(U) /\ Scores!Cardinality(U) = n - 1 /\ n \in Nat
  <2>1. IsFiniteSet(T \ {x}) /\ Scores!Cardinality(T \ {x}) = Scores!Cardinality(T) - 1
    BY <1>4, FS_RemoveElement, ScoresCount
  <2> QED BY <1>1, <1>4, <1>6, <2>1, Zenon
<1>8. ~Bad(U)
  <2> SUFFICES ASSUME Bad(U) PROVE FALSE
    OBVIOUS
  <2>1. Scores!Cardinality(U) \in Nat
    BY <1>7, FS_CardinalityType, ScoresCount
  <2>2. n - 1 \in sizes
    BY <1>1, <1>7, <2>1
  <2> QED BY <1>3, <1>7, <2>2
<1>9. U \subseteq Int /\ T = U \union {x} /\ x \in Int
  BY <1>4, <1>5, <1>6
<1>10. CASE U = {}
  BY <1>4, <1>9, <1>10
<1>11. CASE U # {}
  <2>1. PICK y \in U : \A z \in U : y <= z
    BY <1>7, <1>8, <1>9, <1>11
  <2>2. CASE x <= y
    BY <1>4, <1>9, <2>1, <2>2
  <2>3. CASE ~(x <= y)
    BY <1>4, <1>9, <2>1, <2>3
  <2> QED BY <2>2, <2>3
<1> QED BY <1>10, <1>11

LEMMA MinIs ==
    ASSUME NEW S, S \subseteq Int, IsFiniteSet(S), S # {}
    PROVE  Scores!Min(S) \in S /\ \A y \in S : Scores!Min(S) <= y
<1>1. \E x \in S : \A y \in S : x =< y
  BY LeastExists
<1> QED BY <1>1 DEF Scores!Min

LEMMA MaxIs ==
    ASSUME NEW S, S \subseteq Int, IsFiniteSet(S), S # {}
    PROVE  Scores!Max(S) \in S /\ \A y \in S : Scores!Max(S) >= y
<1>1. PICK f : f = [x \in S |-> -x]
  OBVIOUS
<1>2. PICK N : N = {f[x] : x \in S}
  OBVIOUS
<1>3. IsFiniteSet(N)
  BY <1>2, ImageFits
<1>4. N \subseteq Int /\ N # {}
  <2>1. \A x \in S : f[x] \in Int
    BY <1>1
  <2> QED BY <1>2, <2>1
<1>5. PICK m \in N : \A y \in N : m <= y
  BY <1>3, <1>4, LeastExists
<1>6. PICK x \in S : m = -x
  BY <1>1, <1>2
<1>7. ASSUME NEW y \in S PROVE x >= y
  <2>1. -y \in N
    BY <1>1, <1>2
  <2> QED BY <1>5, <1>6, <2>1
<1> QED BY <1>7 DEF Scores!Max

-----------------------------------------------------------------------------
\* What a recursion along numbers makes, step by step, exists: a least number that it does
\* not reach would be one step after one that it reaches.
Makes(g, n, first, step) == \A i \in 0 .. n : g[i] = IF i = 0 THEN first ELSE step[<<i, g[i - 1]>>]
LEMMA RecursionReaches ==
    ASSUME NEW X, NEW first \in X, NEW n \in Nat, NEW step \in [(1 .. n) \X X -> X]
    PROVE  \E g \in [0 .. n -> X] : Makes(g, n, first, step)
<1> DEFINE Short(m) == ~ \E g \in [0 .. m -> X] : Makes(g, m, first, step)
<1> SUFFICES ASSUME Short(n) PROVE FALSE
  OBVIOUS
<1>1. PICK bad : bad = {m \in 0 .. n : Short(m)}
  OBVIOUS
<1>2. PICK m \in bad : \A k \in bad : m <= k
  <2>1. bad \subseteq Nat /\ n \in bad
    BY <1>1
  <2> QED BY <2>1, LeastOf
<1>3. m \in 0 .. n /\ Short(m)
  BY <1>1
<1>4. m # 0
  <2>1. PICK g : g = [i \in 0 .. 0 |-> first]
    OBVIOUS
  <2>2. g \in [0 .. 0 -> X] /\ Makes(g, 0, first, step)
    BY <2>1 DEF Makes
  <2> QED BY <1>3, <2>2
<1>5. m - 1 \in 0 .. n /\ ~(m <= m - 1)
  BY <1>3, <1>4
<1>6. PICK g \in [0 .. m - 1 -> X] : Makes(g, m - 1, first, step)
  BY <1>1, <1>2, <1>5
<1>7. PICK last : last = step[<<m, g[m - 1]>>]
  OBVIOUS
<1>8. last \in X
  <2>1. g[m - 1] \in X /\ m \in 1 .. n
    BY <1>3, <1>4, <1>5, <1>6
  <2>2. <<m, g[m - 1]>> \in (1 .. n) \X X
    BY <2>1
  <2> QED BY <1>7, <2>2
<1>9. PICK h : h = [i \in 0 .. m |-> IF i = m THEN last ELSE g[i]]
  OBVIOUS
<1>10. h \in [0 .. m -> X]
  BY <1>3, <1>4, <1>6, <1>8, <1>9
<1>11. ASSUME NEW i \in 0 .. m PROVE h[i] = IF i = 0 THEN first ELSE step[<<i, h[i - 1]>>]
  <2>1. CASE i = m
    <3>1. h[i] = last /\ h[i - 1] = g[m - 1]
      BY <1>3, <1>4, <1>9, <2>1
    <3> QED BY <1>4, <1>7, <2>1, <3>1
  <2>2. CASE i # m
    <3>1. i \in 0 .. m - 1 /\ h[i] = g[i]
      BY <1>3, <1>9, <2>2
    <3>2. i # 0 => h[i - 1] = g[i - 1]
      BY <1>3, <1>9, <2>2, <3>1
    <3> QED BY <1>6, <3>1, <3>2 DEF Makes
  <2> QED BY <2>1, <2>2
<1>12. Makes(h, m, first, step)
  BY <1>11 DEF Makes
<1> QED BY <1>3, <1>10, <1>12

-----------------------------------------------------------------------------
\* A sum, and the closes that are numbers, reach to the end of their sequence.
LEMMA SumsAre ==
    ASSUME NEW seq \in Seq(Int), NEW sum, sum = Scores!Sums(seq)
    PROVE  /\ sum \in [0 .. Len(seq) -> Int] /\ sum[0] = 0
           /\ \A i \in 1 .. Len(seq) : sum[i] = sum[i - 1] + seq[i]
<1>1. Len(seq) \in Nat /\ \A i \in 1 .. Len(seq) : seq[i] \in Int
  OBVIOUS
<1>2. PICK step : step = [x \in (1 .. Len(seq)) \X Int |-> x[2] + seq[x[1]]]
  OBVIOUS
<1>3. \A i \in 1 .. Len(seq), v \in Int : step[<<i, v>>] = v + seq[i]
  BY <1>2
<1>4. step \in [(1 .. Len(seq)) \X Int -> Int]
  BY <1>1, <1>2
<1>5. PICK g \in [0 .. Len(seq) -> Int] : Makes(g, Len(seq), 0, step)
  <2>1. 0 \in Int /\ Len(seq) \in Nat
    BY <1>1
  <2> QED BY <1>4, <2>1, RecursionReaches, Zenon
<1>6. g = [i \in 0 .. Len(seq) |-> IF i = 0 THEN 0 ELSE g[i - 1] + seq[i]]
  <2>1. ASSUME NEW i \in 0 .. Len(seq) PROVE g[i] = IF i = 0 THEN 0 ELSE g[i - 1] + seq[i]
    <3>1. CASE i = 0
      BY <1>5, <3>1 DEF Makes
    <3>2. CASE i # 0
      <4>1. i \in 1 .. Len(seq) /\ g[i - 1] \in Int
        BY <1>1, <1>5, <3>2
      <4> QED BY <1>3, <1>5, <3>2, <4>1 DEF Makes
    <3> QED BY <3>1, <3>2
  <2> QED BY <1>5, <2>1
<1>7. sum = CHOOSE s : s = [i \in 0 .. Len(seq) |-> IF i = 0 THEN 0 ELSE s[i - 1] + seq[i]]
  BY DEF Scores!Sums
<1>8. sum = [i \in 0 .. Len(seq) |-> IF i = 0 THEN 0 ELSE sum[i - 1] + seq[i]]
  BY <1>6, <1>7, Zenon
<1>9. sum[0] = 0 /\ \A i \in 1 .. Len(seq) : sum[i] = sum[i - 1] + seq[i]
  BY <1>1, <1>8
<1>10. \A i \in 0 .. Len(seq) : sum[i] \in Int
  <2> SUFFICES ASSUME NEW j \in 0 .. Len(seq), sum[j] \notin Int PROVE FALSE
    OBVIOUS
  <2>1. PICK bad : bad = {i \in 0 .. Len(seq) : sum[i] \notin Int}
    OBVIOUS
  <2>2. PICK i \in bad : \A k \in bad : i <= k
    <3>1. bad \subseteq Nat /\ bad # {}
      BY <2>1
    <3> QED BY <3>1, LeastOf
  <2>3. i \in 1 .. Len(seq) /\ i - 1 \in 0 .. Len(seq) /\ ~(i <= i - 1)
    BY <1>9, <2>1
  <2>4. sum[i - 1] \in Int
    BY <2>1, <2>2, <2>3
  <2>5. sum[i] = sum[i - 1] + seq[i] /\ seq[i] \in Int
    BY <1>1, <1>9, <2>3
  <2>6. sum[i] \in Int
    BY <2>4, <2>5
  <2> QED BY <2>1, <2>6
<1> QED BY <1>8, <1>9, <1>10

LEMMA TotalIs == ASSUME NEW seq \in Seq(Int) PROVE Scores!Total(seq) \in Int
<1>1. Len(seq) \in 0 .. Len(seq)
  OBVIOUS
<1> QED BY <1>1, SumsAre DEF Scores!Total

Row == [close : Nat, amount : Int]
Price == Nat \ {0}
LEMMA NumbersAre ==
    ASSUME NEW rows \in Seq(Row), NEW upTo, upTo = Scores!Numbers(rows)
    PROVE  upTo \in [0 .. Len(rows) -> Seq(Price)]
<1>1. Len(rows) \in Nat /\ \A i \in 1 .. Len(rows) : rows[i].close \in Nat
  <2>1. Len(rows) \in Nat /\ \A i \in 1 .. Len(rows) : rows[i] \in Row
    OBVIOUS
  <2>2. \A row \in Row : row.close \in Nat
    BY DEF Row
  <2> QED BY <2>1, <2>2
<1>2. PICK step : step = [x \in (1 .. Len(rows)) \X Seq(Price) |-> IF rows[x[1]].close > 0 THEN Append(x[2], rows[x[1]].close) ELSE x[2]]
  OBVIOUS
<1>3. \A i \in 1 .. Len(rows), v \in Seq(Price) :
          step[<<i, v>>] = IF rows[i].close > 0 THEN Append(v, rows[i].close) ELSE v
  BY <1>2
<1>4. \A i \in 1 .. Len(rows), v \in Seq(Price) : (IF rows[i].close > 0 THEN Append(v, rows[i].close) ELSE v) \in Seq(Price)
  <2>1. TAKE i \in 1 .. Len(rows), v \in Seq(Price)
  <2>2. rows[i].close > 0 => rows[i].close \in Price
    BY <1>1 DEF Price
  <2> QED BY <2>2
<1>5. step \in [(1 .. Len(rows)) \X Seq(Price) -> Seq(Price)]
  BY <1>2, <1>4, Zenon
<1>6. <<>> \in Seq(Price)
  OBVIOUS
<1>7. PICK g \in [0 .. Len(rows) -> Seq(Price)] : Makes(g, Len(rows), <<>>, step)
  BY <1>1, <1>5, <1>6, RecursionReaches, Zenon
<1>8. g = [i \in 0 .. Len(rows) |-> IF i = 0 THEN <<>> ELSE IF rows[i].close > 0 THEN Append(g[i - 1], rows[i].close) ELSE g[i - 1]]
  <2>1. ASSUME NEW i \in 0 .. Len(rows)
        PROVE  g[i] = IF i = 0 THEN <<>> ELSE IF rows[i].close > 0 THEN Append(g[i - 1], rows[i].close) ELSE g[i - 1]
    <3>1. CASE i = 0
      BY <1>7, <3>1 DEF Makes
    <3>2. CASE i # 0
      <4>1. i \in 1 .. Len(rows) /\ g[i - 1] \in Seq(Price)
        BY <1>1, <1>7, <3>2
      <4> QED BY <1>3, <1>7, <3>2, <4>1 DEF Makes
    <3> QED BY <3>1, <3>2
  <2> QED BY <1>7, <2>1
<1>9. upTo = CHOOSE s : s = [i \in 0 .. Len(rows) |-> IF i = 0 THEN <<>> ELSE IF rows[i].close > 0 THEN Append(s[i - 1], rows[i].close) ELSE s[i - 1]]
  BY DEF Scores!Numbers
<1>10. upTo = [i \in 0 .. Len(rows) |-> IF i = 0 THEN <<>> ELSE IF rows[i].close > 0 THEN Append(upTo[i - 1], rows[i].close) ELSE upTo[i - 1]]
  BY <1>8, <1>9, Zenon
<1>11. upTo[0] = <<>> /\ \A i \in 1 .. Len(rows) : upTo[i] = IF rows[i].close > 0 THEN Append(upTo[i - 1], rows[i].close) ELSE upTo[i - 1]
  <2>1. \A i \in 0 .. Len(rows) :
            upTo[i] = IF i = 0 THEN <<>> ELSE IF rows[i].close > 0 THEN Append(upTo[i - 1], rows[i].close) ELSE upTo[i - 1]
    BY <1>10, Zenon
  <2>2. 0 \in 0 .. Len(rows) /\ \A i \in 1 .. Len(rows) : i \in 0 .. Len(rows) /\ i # 0
    BY <1>1
  <2> QED BY <2>1, <2>2, Zenon
<1>12. \A i \in 0 .. Len(rows) : upTo[i] \in Seq(Price)
  <2> SUFFICES ASSUME NEW j \in 0 .. Len(rows), upTo[j] \notin Seq(Price) PROVE FALSE
    OBVIOUS
  <2>1. PICK bad : bad = {i \in 0 .. Len(rows) : upTo[i] \notin Seq(Price)}
    OBVIOUS
  <2>2. PICK i \in bad : \A k \in bad : i <= k
    <3>1. bad \subseteq Nat /\ bad # {}
      BY <2>1
    <3> QED BY <3>1, LeastOf
  <2>0. i \in 0 .. Len(rows) /\ i # 0
    BY <1>6, <1>11, <2>1
  <2>3. i \in 1 .. Len(rows) /\ i - 1 \in 0 .. Len(rows) /\ ~(i <= i - 1)
    BY <1>1, <2>0
  <2>4. upTo[i - 1] \in Seq(Price)
    BY <2>1, <2>2, <2>3
  <2> QED BY <1>4, <1>11, <2>1, <2>3, <2>4
<1> QED BY <1>10, <1>12

LEMMA ClosesAre == ASSUME NEW rows \in Seq(Row) PROVE Scores!Closes(rows) \in Seq(Price)
<1>1. Len(rows) \in 0 .. Len(rows)
  OBVIOUS
<1> QED BY <1>1, NumbersAre DEF Scores!Closes

LEMMA LastOfIs ==
    ASSUME NEW X, NEW seq \in Seq(X), NEW n \in 0 .. Len(seq)
    PROVE  Scores!LastOf(seq, n) \in Seq(X) /\ Len(Scores!LastOf(seq, n)) = n
<1>1. Len(seq) \in Nat /\ n \in Nat
  OBVIOUS
<1>2. PICK m : m = Len(seq) - n + 1
  OBVIOUS
<1>3. PICK k : k = Len(seq)
  OBVIOUS
<1>4. m \in 1 .. Len(seq) + 1 /\ k \in m - 1 .. Len(seq) /\ k - m + 1 = n
  BY <1>1, <1>2, <1>3
<1>5. SubSeq(seq, m, k) \in Seq(X) /\ Len(SubSeq(seq, m, k)) = k - m + 1
  BY <1>4, SubSeqProperties
<1>6. Scores!LastOf(seq, n) = SubSeq(seq, m, k)
  BY <1>2, <1>3, Zenon DEF Scores!LastOf
<1> QED BY <1>4, <1>5, <1>6

LEMMA ReturnIs ==
    ASSUME Scale \in Int, NEW closes \in Seq(Price), NEW n \in 0 .. Len(closes) - 1
    PROVE  Scores!Return(closes, n) \in Int
<1>1. PICK i : i = Len(closes) - n
  OBVIOUS
<1>2. Len(closes) \in Nat /\ i \in 1 .. Len(closes) /\ Len(closes) \in 1 .. Len(closes)
  BY <1>1
<1>3. closes[i] \in Price /\ closes[Len(closes)] \in Price
  BY <1>2
<1>4. closes[i] \in Int /\ closes[i] > 0 /\ closes[Len(closes)] \in Int
  BY <1>3 DEF Price
<1>5. \A a, b \in Int : b > 0 => (a * Scale) \div b - Scale \in Int
  OBVIOUS
<1>6. Scores!Return(closes, n) = (closes[Len(closes)] * Scale) \div closes[i] - Scale
  BY <1>1 DEF Scores!Return
<1> QED BY <1>4, <1>5, <1>6

LEMMA MaxDrawdownIs ==
    ASSUME Scale \in Int, NEW window \in Seq(Price), window # <<>>
    PROVE  Scores!MaxDrawdown(window) \in Int
<1>1. Len(window) \in Nat /\ DOMAIN window = 1 .. Len(window) /\ 1 \in DOMAIN window
  OBVIOUS
<1>2. \A i \in DOMAIN window : window[i] \in Int /\ window[i] > 0
  BY DEF Price
<1>3. ASSUME NEW i \in DOMAIN window PROVE Scores!Max({window[j] : j \in 1 .. i}) \in Int /\ Scores!Max({window[j] : j \in 1 .. i}) > 0
  <2>1. PICK S : S = {window[j] : j \in 1 .. i}
    OBVIOUS
  <2>2. IsFiniteSet(1 .. i)
    BY <1>1, FS_Interval, ScoresCount
  <2>3. IsFiniteSet(S)
    BY <2>1, <2>2, ImageFits
  <2>4. 1 .. i \subseteq DOMAIN window /\ 1 \in 1 .. i
    BY <1>1
  <2>5. S \subseteq Int /\ S # {} /\ \A x \in S : x > 0
    BY <1>2, <2>1, <2>4
  <2> QED BY <2>1, <2>3, <2>5, MaxIs
<1>4. PICK falls : falls = [i \in DOMAIN window |-> (window[i] * Scale) \div Scores!Max({window[j] : j \in 1 .. i}) - Scale]
  OBVIOUS
<1>5. \A a, b \in Int : b > 0 => (a * Scale) \div b - Scale \in Int
  OBVIOUS
<1>6. \A i \in DOMAIN window : falls[i] \in Int
  <2>1. TAKE i \in DOMAIN window
  <2>2. PICK m : m = Scores!Max({window[j] : j \in 1 .. i})
    OBVIOUS
  <2>3. falls[i] = (window[i] * Scale) \div m - Scale
    BY <1>4, <2>2, Zenon
  <2>4. m \in Int /\ m > 0
    BY <1>3, <2>2, Zenon
  <2> QED BY <1>2, <1>5, <2>3, <2>4
<1>7. PICK F : F = {falls[i] : i \in DOMAIN window}
  OBVIOUS
<1>8. IsFiniteSet(F) /\ F \subseteq Int /\ F # {}
  <2>1. IsFiniteSet(DOMAIN window)
    BY <1>1, FS_Interval, ScoresCount
  <2>2. IsFiniteSet(F)
    BY <1>7, <2>1, ImageFits
  <2> QED BY <1>1, <1>6, <1>7, <2>2
<1>9. Scores!MaxDrawdown(window) = Scores!Min(F)
  <2>1. {(window[i] * Scale) \div Scores!Max({window[j] : j \in 1 .. i}) - Scale : i \in DOMAIN window} = F
    BY <1>4, <1>7, Zenon
  <2> QED BY <2>1, Zenon DEF Scores!MaxDrawdown
<1> QED BY <1>8, <1>9, MinIs

LEMMA VolatilityIs ==
    ASSUME Scale \in Int, NEW closes \in Seq(Price), NEW n \in Nat, n + 1 <= Len(closes)
    PROVE  Scores!Volatility(closes, n) \in Int
<1>1. PICK all : all = [i \in 1 .. Len(closes) - 1 |-> Scores!Return(SubSeq(closes, 1, i + 1), 1)]
  OBVIOUS
<1>2. PICK m \in Nat : m = Len(closes) - 1
  OBVIOUS
<1>3. ASSUME NEW i \in 1 .. Len(closes) - 1 PROVE all[i] \in Int
  <2>1. PICK j \in Nat : j = i + 1 /\ j \in 0 .. Len(closes) /\ j >= 2
    BY <1>2
  <2>2. SubSeq(closes, 1, j) \in Seq(Price) /\ Len(SubSeq(closes, 1, j)) = j
    <3>1. 1 \in 1 .. Len(closes) + 1 /\ j \in 1 - 1 .. Len(closes) /\ j - 1 + 1 = j
      BY <2>1
    <3> QED BY <3>1, SubSeqProperties
  <2>3. PICK sub : sub = SubSeq(closes, 1, j)
    OBVIOUS
  <2>4. 1 \in 0 .. Len(sub) - 1
    BY <2>1, <2>2, <2>3
  <2>5. Scores!Return(sub, 1) \in Int
    BY <2>2, <2>3, <2>4, ReturnIs
  <2> QED BY <1>1, <2>1, <2>3, <2>5
<1>4. all \in Seq(Int) /\ Len(all) = m
  BY <1>1, <1>2, <1>3
<1>5. PICK changes : changes = Scores!LastOf(all, n)
  OBVIOUS
<1>6. changes \in Seq(Int)
  <2>1. n \in 0 .. Len(all)
    BY <1>2, <1>4
  <2> QED BY <1>4, <1>5, <2>1, LastOfIs
<1>7. [i \in DOMAIN changes |-> changes[i] * changes[i]] \in Seq(Int)
  <2>1. Len(changes) \in Nat /\ DOMAIN changes = 1 .. Len(changes)
    BY <1>6
  <2>2. \A i \in DOMAIN changes : changes[i] * changes[i] \in Int
    <3>1. \A i \in DOMAIN changes : changes[i] \in Int
      BY <1>6
    <3>2. \A a \in Int : a * a \in Int
      OBVIOUS
    <3> QED BY <3>1, <3>2
  <2>3. PICK k \in Nat : k = Len(changes)
    BY <2>1, Zenon
  <2>4. [i \in DOMAIN changes |-> changes[i] * changes[i]] \in [1 .. k -> Int]
    BY <2>1, <2>2, <2>3
  <2> QED BY <2>4
<1>8. PICK squares : squares = Scores!Total([i \in DOMAIN changes |-> changes[i] * changes[i]])
  OBVIOUS
<1>9. PICK sum : sum = Scores!Total(changes)
  OBVIOUS
<1>10. squares \in Int /\ sum \in Int
  BY <1>6, <1>7, <1>8, <1>9, TotalIs
<1>11. Scores!Volatility(closes, n) = n * squares - sum * sum
  BY <1>1, <1>5, <1>8, <1>9, Zenon DEF Scores!Volatility
<1>12. n * squares \in Int /\ sum * sum \in Int
  BY <1>10
<1> QED BY <1>11, <1>12

LEMMA RequiredIs ==
    ASSUME ScoreConstants
    PROVE  Scores!RequiredDays \in Nat /\ \A w \in DOMAIN Windows : Windows[w] \in Nat \ {0} /\ Windows[w] + 1 <= Scores!RequiredDays
<1>1. DOMAIN Windows = {"short", "medium", "drawdown", "volatility", "liquidity"}
      /\ \A w \in DOMAIN Windows : Windows[w] \in Nat \ {0}
  BY DEF ScoreConstants
<1>2. PICK S : S = {Windows[w] : w \in DOMAIN Windows}
  OBVIOUS
<1>3. IsFiniteSet(DOMAIN Windows)
  <2>1. IsFiniteSet({"short", "medium", "drawdown", "volatility", "liquidity"})
    <3>1. \A T, x : IsFiniteSet(T) => IsFiniteSet(T \union {x})
      BY FS_AddElement, ScoresCount
    <3>2. IsFiniteSet({} \union {"short"} \union {"medium"} \union {"drawdown"} \union {"volatility"} \union {"liquidity"})
      BY <3>1, FS_EmptySet, ScoresCount
    <3>3. {} \union {"short"} \union {"medium"} \union {"drawdown"} \union {"volatility"} \union {"liquidity"}
          = {"short", "medium", "drawdown", "volatility", "liquidity"}
      OBVIOUS
    <3> QED BY <3>2, <3>3, Zenon
  <2> QED BY <1>1, <2>1, Zenon
<1>4. IsFiniteSet(S)
  BY <1>2, <1>3, ImageFits
<1>5. S \subseteq Nat /\ S # {}
  BY <1>1, <1>2
<1>6. Scores!Max(S) \in S /\ \A y \in S : Scores!Max(S) >= y
  <2>1. S \subseteq Int
    BY <1>5
  <2> QED BY <1>4, <1>5, <2>1, MaxIs, Zenon
<1>7. Scores!RequiredDays = 1 + Scores!Max(S)
  BY <1>2, Zenon DEF Scores!RequiredDays
<1>8. \A w \in DOMAIN Windows : Windows[w] \in S
  BY <1>2
<1>9. PICK max : max = Scores!Max(S)
  OBVIOUS
<1>10. max \in Nat /\ \A y \in S : y \in Nat /\ max >= y
  BY <1>5, <1>6, <1>9
<1>11. Scores!RequiredDays = 1 + max
  BY <1>7, <1>9, Zenon
<1>12. ASSUME NEW w \in DOMAIN Windows PROVE Windows[w] \in Nat \ {0} /\ Windows[w] + 1 <= Scores!RequiredDays
  <2>1. Windows[w] \in Nat /\ Windows[w] # 0 /\ max >= Windows[w]
    BY <1>1, <1>8, <1>10
  <2> QED BY <1>10, <1>11, <2>1
<1> QED BY <1>10, <1>11, <1>12

LEMMA FactorsAre ==
    ASSUME ScoreConstants, NEW rows \in Seq(Row)
    PROVE  Scores!FactorsOf(rows) \in [Scores!Factors -> Int] \union {None}
<1>1. PICK closes : closes = Scores!Closes(rows)
  OBVIOUS
<1>2. closes \in Seq(Price)
  BY <1>1, ClosesAre
<1>3. CASE Len(rows) < Scores!RequiredDays \/ Len(closes) < Scores!RequiredDays
  BY <1>1, <1>3 DEF Scores!FactorsOf
<1>4. CASE ~(Len(rows) < Scores!RequiredDays \/ Len(closes) < Scores!RequiredDays)
  <2>0. Scale \in Int /\ {"short", "medium", "drawdown", "volatility", "liquidity"} = DOMAIN Windows
    BY DEF ScoreConstants
  <2>1. Len(rows) \in Nat /\ Len(closes) \in Nat
    BY <1>2
  <2>2. ASSUME NEW w \in DOMAIN Windows PROVE Windows[w] \in Nat /\ Windows[w] >= 1 /\ Windows[w] + 1 <= Len(closes) /\ Windows[w] + 1 <= Len(rows)
    <3>1. Scores!RequiredDays \in Nat /\ Windows[w] \in Nat \ {0} /\ Windows[w] + 1 <= Scores!RequiredDays
      BY RequiredIs
    <3> QED BY <1>4, <2>1, <3>1
  <2>3. "short" \in DOMAIN Windows /\ "medium" \in DOMAIN Windows /\ "drawdown" \in DOMAIN Windows
        /\ "volatility" \in DOMAIN Windows /\ "liquidity" \in DOMAIN Windows
    BY <2>0
  <2>4. PICK trend : trend = Scores!Return(closes, Windows.short) + Scores!Return(closes, Windows.medium)
    OBVIOUS
  <2>5. trend \in Int
    <3>1. Windows.short \in 0 .. Len(closes) - 1 /\ Windows.medium \in 0 .. Len(closes) - 1
      BY <2>1, <2>2, <2>3
    <3>2. Scores!Return(closes, Windows.short) \in Int /\ Scores!Return(closes, Windows.medium) \in Int
      BY <1>2, <2>0, <3>1, ReturnIs
    <3> QED BY <2>4, <3>2
  <2>6. PICK drawdown : drawdown = -Scores!MaxDrawdown(Scores!LastOf(closes, Windows.drawdown))
    OBVIOUS
  <2>7. drawdown \in Int
    <3>1. PICK window : window = Scores!LastOf(closes, Windows.drawdown)
      OBVIOUS
    <3>2. Windows.drawdown \in 0 .. Len(closes) /\ Windows.drawdown >= 1
      BY <2>1, <2>2, <2>3
    <3>3. window \in Seq(Price) /\ Len(window) = Windows.drawdown
      BY <1>2, <3>1, <3>2, LastOfIs
    <3>4. window # <<>>
      BY <3>2, <3>3
    <3>5. Scores!MaxDrawdown(window) \in Int
      BY <2>0, <3>3, <3>4, MaxDrawdownIs
    <3> QED BY <2>6, <3>1, <3>5
  <2>8. PICK volatility : volatility = -Scores!Volatility(closes, Windows.volatility)
    OBVIOUS
  <2>9. volatility \in Int
    <3>1. Windows.volatility \in Nat /\ Windows.volatility + 1 <= Len(closes)
      BY <2>2, <2>3
    <3>2. Scores!Volatility(closes, Windows.volatility) \in Int
      BY <1>2, <2>0, <3>1, VolatilityIs
    <3> QED BY <2>8, <3>2
  <2>10. PICK liquidity : liquidity = Scores!Total(Scores!LastOf(Scores!Amounts(rows), Windows.liquidity))
    OBVIOUS
  <2>11. liquidity \in Int
    <3>1. PICK amounts : amounts = Scores!Amounts(rows)
      OBVIOUS
    <3>2. PICK m \in Nat : m = Len(rows) /\ DOMAIN rows = 1 .. m
      BY <2>1
    <3>3. amounts \in Seq(Int) /\ Len(amounts) = m
      <4>1. \A i \in DOMAIN rows : rows[i] \in Row
        OBVIOUS
      <4>2. \A row \in Row : row.amount \in Int
        BY DEF Row
      <4>3. amounts \in [1 .. m -> Int]
        BY <3>1, <3>2, <4>1, <4>2 DEF Scores!Amounts
      <4> QED BY <4>3
    <3>4. Windows.liquidity \in 0 .. Len(amounts)
      BY <2>2, <2>3, <3>2, <3>3
    <3>5. Scores!LastOf(amounts, Windows.liquidity) \in Seq(Int)
      BY <3>3, <3>4, LastOfIs
    <3> QED BY <2>10, <3>1, <3>5, TotalIs
  <2>12. Scores!FactorsOf(rows) = [trend |-> trend, drawdown |-> drawdown, volatility |-> volatility, liquidity |-> liquidity]
    BY <1>1, <1>4, <2>4, <2>6, <2>8, <2>10, Zenon DEF Scores!FactorsOf
  <2>13. PICK made : made = [trend |-> trend, drawdown |-> drawdown, volatility |-> volatility, liquidity |-> liquidity]
    OBVIOUS
  <2>14. made \in [Scores!Factors -> Int]
    BY <2>5, <2>7, <2>9, <2>11, <2>13 DEF Scores!Factors
  <2> QED BY <2>12, <2>13, <2>14, Zenon
<1> QED BY <1>3, <1>4

-----------------------------------------------------------------------------
LEMMA CountLess ==
    ASSUME NEW T, IsFiniteSet(T), NEW S \in SUBSET T
    PROVE  /\ IsFiniteSet(S) /\ Scores!Cardinality(S) \in Nat /\ Scores!Cardinality(T) \in Nat
           /\ Scores!Cardinality(S) <= Scores!Cardinality(T)
           /\ S # T => Scores!Cardinality(S) < Scores!Cardinality(T)
<1>1. IsFiniteSet(S) /\ Scores!Cardinality(S) <= Scores!Cardinality(T) /\ (Scores!Cardinality(S) = Scores!Cardinality(T) => S = T)
  BY FS_Subset, ScoresCount
<1>2. Scores!Cardinality(S) \in Nat /\ Scores!Cardinality(T) \in Nat
  BY <1>1, FS_CardinalityType, ScoresCount
<1> QED BY <1>1, <1>2

\* The rank of a value among the values of a set rises with it.
LEMMA RankRises ==
    ASSUME NEW D, IsFiniteSet(D), NEW values \in [D -> Int], NEW s \in D, NEW t \in D, values[s] >= values[t]
    PROVE  /\ Scores!Rank2(values, s) \in Nat /\ Scores!Rank2(values, t) \in Nat
           /\ Scores!Rank2(values, s) >= Scores!Rank2(values, t)
           /\ values[s] > values[t] => Scores!Rank2(values, s) > Scores!Rank2(values, t)
<1>1. PICK lessS : lessS = {x \in D : values[x] < values[s]}
  OBVIOUS
<1>2. PICK lessT : lessT = {x \in D : values[x] < values[t]}
  OBVIOUS
<1>3. PICK sameS : sameS = {x \in D : values[x] = values[s]}
  OBVIOUS
<1>4. PICK sameT : sameT = {x \in D : values[x] = values[t]}
  OBVIOUS
<1>5. \A S \in SUBSET D : IsFiniteSet(S) /\ Scores!Cardinality(S) \in Nat
  BY CountLess
<1>6. PICK lS \in Nat : lS = Scores!Cardinality(lessS)
  BY <1>1, <1>5
<1>7. PICK lT \in Nat : lT = Scores!Cardinality(lessT)
  BY <1>2, <1>5
<1>8. PICK eS \in Nat : eS = Scores!Cardinality(sameS)
  BY <1>3, <1>5
<1>9. PICK eT \in Nat : eT = Scores!Cardinality(sameT)
  BY <1>4, <1>5
<1>10. DOMAIN values = D
  OBVIOUS
<1>11. Scores!Rank2(values, s) = 2 * lS + eS + 1 /\ Scores!Rank2(values, t) = 2 * lT + eT + 1
  BY <1>1, <1>2, <1>3, <1>4, <1>6, <1>7, <1>8, <1>9, <1>10, Zenon DEF Scores!Rank2, Scores!RankBelow
<1>12. CASE values[s] = values[t]
  <2>1. lessS = lessT /\ sameS = sameT
    BY <1>1, <1>2, <1>3, <1>4, <1>12, Zenon
  <2>2. lS = lT /\ eS = eT
    BY <1>6, <1>7, <1>8, <1>9, <2>1, Zenon
  <2> QED BY <1>11, <1>12, <2>2
<1>13. CASE values[s] > values[t]
  <2>1. lessT \union sameT \subseteq lessS /\ lessT \intersect sameT = {} /\ lessS \in SUBSET D
    <3>1. \A x \in D : values[x] \in Int
      OBVIOUS
    <3> QED BY <1>1, <1>2, <1>4, <1>13, <3>1
  <2>2. Scores!Cardinality(lessT \union sameT) = lT + eT
    <3>1. IsFiniteSet(lessT) /\ IsFiniteSet(sameT)
      BY <1>2, <1>4, <1>5
    <3>2. Scores!Cardinality(lessT \union sameT) = Scores!Cardinality(lessT) + Scores!Cardinality(sameT) - Scores!Cardinality(lessT \intersect sameT)
      BY <3>1, FS_Union, ScoresCount
    <3>3. Scores!Cardinality(lessT \intersect sameT) = 0
      BY <2>1, FS_EmptySet, ScoresCount, Zenon
    <3>4. Scores!Cardinality(lessT \union sameT) = lT + eT - 0
      BY <1>7, <1>9, <3>2, <3>3, Zenon
    <3> QED BY <3>4
  <2>3. lT + eT <= lS
    <3>1. IsFiniteSet(lessS)
      BY <1>5, <2>1
    <3>2. Scores!Cardinality(lessT \union sameT) <= Scores!Cardinality(lessS)
      BY <2>1, <3>1, CountLess
    <3> QED BY <1>6, <2>2, <3>2
  <2>4. eS >= 1
    <3>1. IsFiniteSet(sameS) /\ s \in sameS
      BY <1>3, <1>5
    <3>2. Scores!Cardinality(sameS) # 0
      BY <3>1, FS_EmptySet, ScoresCount
    <3> QED BY <1>8, <3>2
  <2> QED BY <1>11, <1>13, <2>3, <2>4
<1>14. values[s] \in Int /\ values[t] \in Int
  OBVIOUS
<1> QED BY <1>12, <1>13, <1>14

\* A weighted sum rises with every factor, and strictly with one that counts.
LEMMA WeightedRises ==
    ASSUME ScoreConstants, NEW p \in [Scores!Factors -> Nat], NEW q \in [Scores!Factors -> Nat], \A f \in Scores!Factors : p[f] >= q[f]
    PROVE  /\ Scores!Weighted(p) \in Nat /\ Scores!Weighted(q) \in Nat /\ Scores!Weighted(p) >= Scores!Weighted(q)
           /\ (\E f \in Scores!Factors : Weights[f] > 0 /\ p[f] > q[f]) => Scores!Weighted(p) > Scores!Weighted(q)
<1>1. \A f \in Scores!Factors : Weights[f] \in Nat /\ p[f] \in Nat /\ q[f] \in Nat
  BY DEF ScoreConstants
<1>2. \A w, a, b \in Nat : a >= b => w * a \in Nat /\ w * b \in Nat /\ w * a >= w * b /\ (w > 0 /\ a > b => w * a > w * b)
  <2>1. TAKE w, a, b \in Nat
  <2>2. HAVE a >= b
  <2>3. PICK d \in Nat : a = b + d
    <3>1. a - b \in Nat /\ a = b + (a - b)
      BY <2>2
    <3> QED BY <3>1
  <2>4. w * a = w * b + w * d
    BY <2>3
  <2>5. w * b \in Nat /\ w * d \in Nat /\ (w > 0 /\ d > 0 => w * d > 0)
    OBVIOUS
  <2> QED BY <2>3, <2>4, <2>5
<1>3. PICK P : P = [f \in Scores!Factors |-> Weights[f] * p[f]]
  OBVIOUS
<1>4. PICK Q : Q = [f \in Scores!Factors |-> Weights[f] * q[f]]
  OBVIOUS
<1>5. ASSUME NEW f \in Scores!Factors
      PROVE  P[f] \in Nat /\ Q[f] \in Nat /\ P[f] >= Q[f] /\ (Weights[f] > 0 /\ p[f] > q[f] => P[f] > Q[f])
  <2>1. P[f] = Weights[f] * p[f] /\ Q[f] = Weights[f] * q[f]
    BY <1>3, <1>4
  <2> QED BY <1>1, <1>2, <2>1
<1>6. Scores!Factors = {"trend", "drawdown", "volatility", "liquidity"}
  BY DEF Scores!Factors
<1>7. Scores!Weighted(p) = P["trend"] + P["drawdown"] + P["volatility"] + P["liquidity"]
      /\ Scores!Weighted(q) = Q["trend"] + Q["drawdown"] + Q["volatility"] + Q["liquidity"]
  BY <1>3, <1>4, <1>6, Zenon DEF Scores!Weighted
<1>8. Scores!Weighted(p) \in Nat /\ Scores!Weighted(q) \in Nat /\ Scores!Weighted(p) >= Scores!Weighted(q)
  BY <1>5, <1>6, <1>7
<1>9. ASSUME NEW f \in Scores!Factors, Weights[f] > 0, p[f] > q[f] PROVE Scores!Weighted(p) > Scores!Weighted(q)
  <2>1. P[f] > Q[f]
    BY <1>5, <1>9
  <2> QED BY <1>5, <1>6, <1>7, <2>1
<1> QED BY <1>8, <1>9

-----------------------------------------------------------------------------
ScoresInv ==
    /\ history \in [Assets -> Seq(Row)] /\ \A s \in Assets : Len(history[s]) <= LastDay
    /\ factors \in [Assets -> [Scores!Factors -> Int] \union {None}]
    /\ result = None \/ result = Scores!ScoreEtfs

\* Ranks and scores of the members of a category.
Better(c, s) == {t \in Scores!Eligible(c) : Scores!Score(t) > Scores!Score(s)}
LEMMA EligibleIs ==
    ASSUME ScoreConstants, ScoresInv, NEW c
    PROVE  /\ Scores!Eligible(c) \subseteq Assets /\ IsFiniteSet(Scores!Eligible(c)) /\ Scores!Cardinality(Scores!Eligible(c)) \in Nat
           /\ \A s \in Scores!Eligible(c) : Category[s] = c /\ factors[s] \in [Scores!Factors -> Int]
<1>1. Scores!Eligible(c) \in SUBSET Assets /\ IsFiniteSet(Assets)
  BY DEF Scores!Eligible, ScoreConstants
<1>2. \A s \in Scores!Eligible(c) : Category[s] = c /\ factors[s] # None /\ factors[s] \in [Scores!Factors -> Int] \union {None}
  BY DEF Scores!Eligible, ScoresInv
<1> QED BY <1>1, <1>2, CountLess

LEMMA PercentilesRise ==
    ASSUME ScoreConstants, ScoresInv, NEW c, NEW s \in Scores!Eligible(c), NEW t \in Scores!Eligible(c), NEW f \in Scores!Factors,
           factors[s][f] >= factors[t][f]
    PROVE  /\ Scores!Percentile(s)[f] \in Nat /\ Scores!Percentile(t)[f] \in Nat /\ Scores!Percentile(s)[f] >= Scores!Percentile(t)[f]
           /\ factors[s][f] > factors[t][f] => Scores!Percentile(s)[f] > Scores!Percentile(t)[f]
<1>1. IsFiniteSet(Scores!Eligible(c)) /\ Category[s] = c /\ Category[t] = c
      /\ \A u \in Scores!Eligible(c) : factors[u] \in [Scores!Factors -> Int]
  BY EligibleIs
<1>2. PICK values : values = [u \in Scores!Eligible(c) |-> factors[u][f]]
  OBVIOUS
<1>3. values \in [Scores!Eligible(c) -> Int] /\ values[s] = factors[s][f] /\ values[t] = factors[t][f]
  BY <1>1, <1>2
<1>4. Scores!Percentile(s)[f] = Scores!Rank2(values, s) /\ Scores!Percentile(t)[f] = Scores!Rank2(values, t)
  BY <1>1, <1>2, Zenon DEF Scores!Percentile
<1> QED BY <1>1, <1>3, <1>4, RankRises

LEMMA PercentileIs ==
    ASSUME ScoreConstants, ScoresInv, NEW c, NEW s \in Scores!Eligible(c)
    PROVE  Scores!Percentile(s) \in [Scores!Factors -> Nat]
<1>1. \A f \in Scores!Factors : Scores!Percentile(s)[f] \in Nat
  <2>1. TAKE f \in Scores!Factors
  <2>2. factors[s] \in [Scores!Factors -> Int]
    BY EligibleIs
  <2>3. factors[s][f] >= factors[s][f]
    BY <2>2
  <2> QED BY <2>3, PercentilesRise
<1>2. PICK p : p = Scores!Percentile(s)
  OBVIOUS
<1>3. p = [f \in Scores!Factors |-> p[f]]
  BY <1>2, Zenon DEF Scores!Percentile
<1> QED BY <1>1, <1>2, <1>3

LEMMA ScoresRise ==
    ASSUME ScoreConstants, ScoresInv, NEW c, NEW s \in Scores!Eligible(c), NEW t \in Scores!Eligible(c),
           \A f \in Scores!Factors : factors[s][f] >= factors[t][f]
    PROVE  /\ Scores!Score(s) >= Scores!Score(t)
           /\ (\E f \in Scores!Factors : Weights[f] > 0 /\ factors[s][f] > factors[t][f]) => Scores!Score(s) > Scores!Score(t)
<1>1. PICK p : p = Scores!Percentile(s)
  OBVIOUS
<1>2. PICK q : q = Scores!Percentile(t)
  OBVIOUS
<1>3. p \in [Scores!Factors -> Nat] /\ q \in [Scores!Factors -> Nat]
  BY <1>1, <1>2, PercentileIs
<1>4. \A f \in Scores!Factors : p[f] >= q[f] /\ (factors[s][f] > factors[t][f] => p[f] > q[f])
  BY <1>1, <1>2, PercentilesRise
<1>5. Scores!Score(s) = Scores!Weighted(p) /\ Scores!Score(t) = Scores!Weighted(q)
  BY <1>1, <1>2, Zenon DEF Scores!Score
<1>6. /\ Scores!Weighted(p) >= Scores!Weighted(q)
      /\ (\E f \in Scores!Factors : Weights[f] > 0 /\ p[f] > q[f]) => Scores!Weighted(p) > Scores!Weighted(q)
  BY <1>3, <1>4, WeightedRises
<1> QED BY <1>4, <1>5, <1>6

LEMMA ScoreIs ==
    ASSUME ScoreConstants, ScoresInv, NEW c, NEW s \in Scores!Eligible(c)
    PROVE  Scores!Score(s) \in Nat
<1>1. PICK p : p = Scores!Percentile(s)
  OBVIOUS
<1>2. p \in [Scores!Factors -> Nat] /\ \A f \in Scores!Factors : p[f] >= p[f]
  <2>1. p \in [Scores!Factors -> Nat]
    BY <1>1, PercentileIs
  <2>2. \A f \in Scores!Factors : p[f] \in Nat
    BY <2>1
  <2> QED BY <2>1, <2>2
<1>3. Scores!Weighted(p) \in Nat
  BY <1>2, WeightedRises
<1> QED BY <1>1, <1>3 DEF Scores!Score

\* The better the score, the fewer are better.
LEMMA BetterFewer ==
    ASSUME ScoreConstants, ScoresInv, NEW c, NEW s \in Scores!Eligible(c), NEW t \in Scores!Eligible(c)
    PROVE  /\ Scores!Cardinality(Better(c, s)) \in Nat
           /\ Scores!Score(s) >= Scores!Score(t) => Scores!Cardinality(Better(c, s)) <= Scores!Cardinality(Better(c, t))
           /\ Scores!Score(s) > Scores!Score(t) => Scores!Cardinality(Better(c, s)) < Scores!Cardinality(Better(c, t))
<1>1. \A u \in Scores!Eligible(c) : Scores!Score(u) \in Nat
  BY ScoreIs
<1>2. IsFiniteSet(Scores!Eligible(c))
  BY EligibleIs
<1>3. \A u : Better(c, u) \in SUBSET Scores!Eligible(c)
  BY DEF Better
<1>4. \A u : IsFiniteSet(Better(c, u)) /\ Scores!Cardinality(Better(c, u)) \in Nat
  BY <1>2, <1>3, CountLess
<1>5. CASE Scores!Score(s) >= Scores!Score(t)
  <2>1. Better(c, s) \in SUBSET Better(c, t)
    BY <1>1, <1>5 DEF Better
  <2>2. Scores!Score(s) > Scores!Score(t) => Better(c, s) # Better(c, t)
    BY <1>1 DEF Better
  <2> QED BY <1>4, <1>5, <2>1, <2>2, CountLess
<1>6. CASE ~(Scores!Score(s) >= Scores!Score(t))
  BY <1>1, <1>4, <1>6
<1> QED BY <1>5, <1>6

-----------------------------------------------------------------------------
\* What a scored result says.
InRanking(s) == s \in Scores!Eligible(Category[s]) /\ Scores!Cardinality(Scores!Eligible(Category[s])) >= MinimumCategorySize
LEMMA ScoredIs ==
    ASSUME ScoreConstants, ScoresInv, result # None, NEW s \in Assets
    PROVE  /\ InRanking(s) => /\ result[s].score = Scores!Score(s) /\ result[s].score # None
                              /\ result[s].rank = 1 + Scores!Cardinality(Better(Category[s], s))
                              /\ result[s].grade = Scores!Grade(Scores!Score(s), Scores!FullScore(Scores!Eligible(Category[s])))
           /\ ~InRanking(s) => result[s] = Scores!Unscored
<1>1. result = Scores!ScoreEtfs
  BY DEF ScoresInv
<1>2. PICK c : c = Category[s]
  OBVIOUS
<1>3. IsFiniteSet(Scores!Eligible(c)) /\ Scores!Cardinality(Scores!Eligible(c)) \in Nat /\ MinimumCategorySize \in Nat
  BY EligibleIs DEF ScoreConstants
<1>4. CASE ~InRanking(s)
  <2>1. s \notin Scores!Eligible(c) \/ Scores!Cardinality(Scores!Eligible(c)) < MinimumCategorySize
    BY <1>2, <1>3, <1>4 DEF InRanking
  <2> QED BY <1>1, <1>2, <1>4, <2>1, Zenon DEF Scores!ScoreEtfs
<1>5. CASE InRanking(s)
  <2>1. s \in Scores!Eligible(c) /\ ~(Scores!Cardinality(Scores!Eligible(c)) < MinimumCategorySize)
    BY <1>2, <1>3, <1>5 DEF InRanking
  <2>2. result[s] = [percentile |-> Scores!Percentile(s), score |-> Scores!Score(s),
                     rank |-> 1 + Scores!Cardinality({t \in Scores!Eligible(c) : Scores!Score(t) > Scores!Score(s)}),
                     grade |-> Scores!Grade(Scores!Score(s), Scores!FullScore(Scores!Eligible(c)))]
    BY <1>1, <1>2, <2>1, Zenon DEF Scores!ScoreEtfs
  <2>3. Scores!Score(s) # None
    BY <2>1, ScoreIs DEF ScoreConstants
  <2>4. Better(c, s) = {t \in Scores!Eligible(c) : Scores!Score(t) > Scores!Score(s)}
    BY DEF Better
  <2>5. PICK rank : rank = 1 + Scores!Cardinality(Better(c, s))
    OBVIOUS
  <2>6. PICK percentile : percentile = Scores!Percentile(s)
    OBVIOUS
  <2>7. PICK score : score = Scores!Score(s)
    OBVIOUS
  <2>8. PICK grade : grade = Scores!Grade(Scores!Score(s), Scores!FullScore(Scores!Eligible(c)))
    OBVIOUS
  <2>9. result[s] = [percentile |-> percentile, score |-> score, rank |-> rank, grade |-> grade]
    BY <2>2, <2>4, <2>5, <2>6, <2>7, <2>8, Zenon
  <2>10. result[s].score = score /\ result[s].rank = rank /\ result[s].grade = grade
    BY <2>9
  <2> QED BY <1>2, <1>5, <2>3, <2>5, <2>7, <2>8, <2>10, Zenon
<1> QED BY <1>4, <1>5

LEMMA ScoredPeers ==
    ASSUME ScoreConstants, ScoresInv, NEW s \in Assets, NEW t \in Assets
    PROVE  Scores!Scored(s, t) <=> result # None /\ Category[s] = Category[t] /\ InRanking(s) /\ InRanking(t)
<1>1. Scores!Unscored.score = None
  BY DEF Scores!Unscored
<1>2. result # None => /\ InRanking(s) <=> result[s].score # None
                       /\ InRanking(t) <=> result[t].score # None
  BY <1>1, ScoredIs, Zenon
<1> QED BY <1>2, Zenon DEF Scores!Scored

LEMMA Dominates == ASSUME ScoreConstants, ScoresInv PROVE Scores!Dominance
<1> SUFFICES ASSUME NEW s \in Assets, NEW t \in Assets, Scores!Scored(s, t),
                    \A f \in Scores!Factors : factors[s][f] >= factors[t][f]
             PROVE  /\ result[s].rank <= result[t].rank
                    /\ (\E f \in Scores!Factors : Weights[f] > 0 /\ factors[s][f] > factors[t][f])
                          => result[s].rank < result[t].rank
  BY Zenon DEF Scores!Dominance
<1>1. PICK c : c = Category[s]
  OBVIOUS
<1>2. result # None /\ Category[t] = c /\ InRanking(s) /\ InRanking(t)
  BY <1>1, ScoredPeers, Zenon
<1>3. s \in Scores!Eligible(c) /\ t \in Scores!Eligible(c)
  BY <1>1, <1>2, Zenon DEF InRanking
<1>4. PICK m : m = Scores!Cardinality(Better(c, s))
  OBVIOUS
<1>5. PICK n : n = Scores!Cardinality(Better(c, t))
  OBVIOUS
<1>6. m \in Nat /\ n \in Nat /\ (Scores!Score(s) >= Scores!Score(t) => m <= n) /\ (Scores!Score(s) > Scores!Score(t) => m < n)
  BY <1>3, <1>4, <1>5, BetterFewer
<1>7. result[s].rank = 1 + m /\ result[t].rank = 1 + n
  BY <1>1, <1>2, <1>4, <1>5, ScoredIs, Zenon
<1>8. /\ Scores!Score(s) >= Scores!Score(t)
      /\ (\E f \in Scores!Factors : Weights[f] > 0 /\ factors[s][f] > factors[t][f]) => Scores!Score(s) > Scores!Score(t)
  BY <1>3, ScoresRise
<1> QED BY <1>6, <1>7, <1>8

\* A category that has members has a best one.
LEMMA BestExists ==
    ASSUME ScoreConstants, ScoresInv, NEW c, NEW s \in Scores!Eligible(c)
    PROVE  \E t \in Scores!Eligible(c) : Scores!Cardinality(Better(c, t)) = 0
<1>1. PICK points : points = [u \in Scores!Eligible(c) |-> Scores!Score(u)]
  OBVIOUS
<1>2. PICK S : S = {points[u] : u \in Scores!Eligible(c)}
  OBVIOUS
<1>3. \A u \in Scores!Eligible(c) : points[u] = Scores!Score(u) /\ Scores!Score(u) \in Nat
  BY <1>1, ScoreIs
<1>4. IsFiniteSet(S)
  BY <1>2, EligibleIs, ImageFits
<1>5. S \subseteq Int /\ S # {}
  BY <1>2, <1>3
<1>6. Scores!Max(S) \in S /\ \A y \in S : Scores!Max(S) >= y
  BY <1>4, <1>5, MaxIs
<1>7. PICK t \in Scores!Eligible(c) : points[t] = Scores!Max(S)
  BY <1>2, <1>6
<1>8. \A u \in Scores!Eligible(c) : Scores!Score(t) >= Scores!Score(u)
  BY <1>2, <1>3, <1>6, <1>7
<1>9. Better(c, t) = {}
  BY <1>3, <1>8 DEF Better
<1> QED BY <1>9, FS_EmptySet, ScoresCount

LEMMA FullIs == ASSUME ScoreConstants, ScoresInv, NEW c PROVE Scores!FullScore(Scores!Eligible(c)) \in Nat
<1>1. PICK ones : ones = [f \in Scores!Factors |-> 1]
  OBVIOUS
<1>2. ones \in [Scores!Factors -> Nat] /\ \A f \in Scores!Factors : ones[f] >= ones[f]
  BY <1>1
<1>3. Scores!Weighted(ones) \in Nat
  BY <1>2, WeightedRises
<1>4. PICK m \in Nat : m = Scores!Cardinality(Scores!Eligible(c))
  BY EligibleIs
<1>5. Scores!FullScore(Scores!Eligible(c)) = 2 * m * Scores!Weighted(ones)
  BY <1>1, <1>4, Zenon DEF Scores!FullScore
<1> QED BY <1>3, <1>5

LEMMA LevelsRise ==
    ASSUME NEW a \in Nat, NEW b \in Nat, b <= a, NEW full \in Nat
    PROVE  Scores!Level(Scores!Grade(a, full)) >= Scores!Level(Scores!Grade(b, full))
<1>1. PICK high \in Nat : high = 6667 * full
  OBVIOUS
<1>2. PICK low \in Nat : low = 3333 * full
  OBVIOUS
<1>3. b * 10000 <= a * 10000 /\ low <= high
  BY <1>1, <1>2
<1>4. Scores!Level("preferred") = 3 /\ Scores!Level("watched") = 2 /\ Scores!Level("cautious") = 1
  BY DEF Scores!Level
<1> QED BY <1>1, <1>2, <1>3, <1>4 DEF Scores!Grade

LEMMA Ranked == ASSUME ScoreConstants, ScoresInv PROVE Scores!CategoryIsRanked
<1> SUFFICES ASSUME NEW s \in Assets, Scores!Scored(s, s)
             PROVE  /\ Scores!Cardinality({t \in Assets : Scores!Scored(s, t)}) >= MinimumCategorySize
                    /\ \E t \in {t \in Assets : Scores!Scored(s, t)} : result[t].rank = 1
                    /\ \A t \in {t \in Assets : Scores!Scored(s, t)} :
                          /\ result[t].rank < result[s].rank => result[t].score > result[s].score
                          /\ result[t].rank <= result[s].rank => Scores!Level(result[t].grade) >= Scores!Level(result[s].grade)
  BY Zenon DEF Scores!CategoryIsRanked
<1>1. PICK c : c = Category[s]
  OBVIOUS
<1>2. result # None /\ InRanking(s) /\ s \in Scores!Eligible(c) /\ Scores!Cardinality(Scores!Eligible(c)) >= MinimumCategorySize
  BY <1>1, ScoredPeers, Zenon DEF InRanking
<1>3. \A t \in Scores!Eligible(c) : t \in Assets /\ Category[t] = c /\ InRanking(t)
  BY <1>2, Zenon DEF Scores!Eligible, InRanking
<1>4. PICK peers : peers = {t \in Assets : Scores!Scored(s, t)}
  OBVIOUS
<1>5. peers = Scores!Eligible(c)
  <2>1. ASSUME NEW t \in peers PROVE t \in Scores!Eligible(c)
    BY <1>1, <1>4, ScoredPeers, Zenon DEF InRanking
  <2>2. ASSUME NEW t \in Scores!Eligible(c) PROVE t \in peers
    BY <1>1, <1>2, <1>3, <1>4, ScoredPeers, Zenon
  <2> QED BY <2>1, <2>2
<1>6. ASSUME NEW t \in Scores!Eligible(c)
      PROVE  /\ result[t].score = Scores!Score(t) /\ Scores!Score(t) \in Nat
             /\ result[t].rank = 1 + Scores!Cardinality(Better(c, t)) /\ Scores!Cardinality(Better(c, t)) \in Nat
             /\ result[t].grade = Scores!Grade(Scores!Score(t), Scores!FullScore(Scores!Eligible(c)))
  <2>1. result[t].score = Scores!Score(t) /\ result[t].rank = 1 + Scores!Cardinality(Better(c, t))
        /\ result[t].grade = Scores!Grade(Scores!Score(t), Scores!FullScore(Scores!Eligible(c)))
    BY <1>2, <1>3, ScoredIs, Zenon
  <2>2. Scores!Score(t) \in Nat /\ Scores!Cardinality(Better(c, t)) \in Nat
    BY ScoreIs, BetterFewer
  <2> QED BY <2>1, <2>2
<1>7. \E t \in Scores!Eligible(c) : result[t].rank = 1
  <2>1. PICK t \in Scores!Eligible(c) : Scores!Cardinality(Better(c, t)) = 0
    BY <1>2, BestExists
  <2>2. result[t].rank = 1 + 0
    BY <1>6, <2>1, Zenon
  <2> QED BY <2>2
<1>8. ASSUME NEW t \in Scores!Eligible(c)
      PROVE  /\ result[t].rank < result[s].rank => result[t].score > result[s].score
             /\ result[t].rank <= result[s].rank => Scores!Level(result[t].grade) >= Scores!Level(result[s].grade)
  <2>1. PICK m : m = Scores!Cardinality(Better(c, s))
    OBVIOUS
  <2>2. PICK n : n = Scores!Cardinality(Better(c, t))
    OBVIOUS
  <2>3. m \in Nat /\ n \in Nat /\ Scores!Score(s) \in Nat /\ Scores!Score(t) \in Nat
    BY <1>2, <1>6, <2>1, <2>2
  <2>4. (Scores!Score(s) >= Scores!Score(t) => m <= n) /\ (Scores!Score(s) > Scores!Score(t) => m < n)
    BY <1>2, <2>1, <2>2, BetterFewer
  <2>5. result[s].rank = 1 + m /\ result[t].rank = 1 + n /\ result[s].score = Scores!Score(s) /\ result[t].score = Scores!Score(t)
    BY <1>2, <1>6, <2>1, <2>2, Zenon
  <2>6. n < m => Scores!Score(t) > Scores!Score(s)
    BY <2>3, <2>4
  <2>7. n <= m => Scores!Score(s) <= Scores!Score(t)
    BY <2>3, <2>4
  <2>8. PICK full \in Nat : full = Scores!FullScore(Scores!Eligible(c))
    BY FullIs
  <2>9. Scores!Score(s) <= Scores!Score(t) => Scores!Level(Scores!Grade(Scores!Score(t), full)) >= Scores!Level(Scores!Grade(Scores!Score(s), full))
    BY <2>3, LevelsRise
  <2>10. result[s].grade = Scores!Grade(Scores!Score(s), full) /\ result[t].grade = Scores!Grade(Scores!Score(t), full)
    BY <1>2, <1>6, <2>8, Zenon
  <2>11. n <= m => Scores!Level(result[t].grade) >= Scores!Level(result[s].grade)
    BY <2>7, <2>9, <2>10, Zenon
  <2> QED BY <2>3, <2>5, <2>6, <2>11
<1> QED BY <1>2, <1>4, <1>5, <1>7, <1>8, Zenon

LEMMA ScoresTyped == ASSUME ScoreConstants, ScoresInv PROVE Scores!ScoresTypeOK
<1>1. ASSUME NEW s \in Assets, result # None PROVE result[s].grade \in Scores!Grades /\ result[s].rank \in Nat \union {None}
  <2>1. CASE InRanking(s)
    <3>1. PICK c : c = Category[s]
      OBVIOUS
    <3>2. PICK n : n = Scores!Cardinality(Better(c, s))
      OBVIOUS
    <3>3. n \in Nat
      BY <2>1, <3>1, <3>2, BetterFewer DEF InRanking
    <3>4. result[s].rank = 1 + n /\ result[s].grade = Scores!Grade(Scores!Score(s), Scores!FullScore(Scores!Eligible(c)))
      BY <1>1, <2>1, <3>1, <3>2, ScoredIs, Zenon
    <3>5. result[s].grade \in Scores!Grades
      BY <3>4 DEF Scores!Grade, Scores!Grades
    <3> QED BY <3>3, <3>4, <3>5
  <2>2. CASE ~InRanking(s)
    <3>1. result[s] = Scores!Unscored
      BY <1>1, <2>2, ScoredIs, Zenon
    <3> QED BY <3>1 DEF Scores!Unscored, Scores!Grades
  <2> QED BY <2>1, <2>2
<1> QED BY <1>1 DEF Scores!ScoresTypeOK, ScoresInv

LEMMA ScoresInitial == ASSUME ScoreConstants, Scores!Init PROVE ScoresInv
<1>1. history = [s \in Assets |-> <<>>] /\ factors = [s \in Assets |-> None] /\ result = None
  BY DEF Scores!Init
<1>2. <<>> \in Seq(Row) /\ Len(<<>>) <= LastDay
  BY DEF ScoreConstants
<1> QED BY <1>1, <1>2 DEF ScoresInv

LEMMA ScoresFollow == ASSUME factors' = factors PROVE Scores!ScoreEtfs' = Scores!ScoreEtfs
<1>1. \A c : Scores!Eligible(c)' = Scores!Eligible(c)
  BY DEF Scores!Eligible
<1>2. \A s : Scores!Percentile(s)' = Scores!Percentile(s)
  BY <1>1 DEF Scores!Percentile, Scores!Rank2, Scores!RankBelow
<1>3. \A s : Scores!Score(s)' = Scores!Score(s)
  BY <1>2 DEF Scores!Score, Scores!Weighted
<1> QED BY <1>1, <1>2, <1>3 DEF Scores!ScoreEtfs, Scores!Unscored, Scores!Grade, Scores!FullScore, Scores!Weighted

LEMMA ScoresStep == ASSUME ScoreConstants, ScoresInv, [Scores!Next]_Scores!vars PROVE ScoresInv'
<1>1. CASE Scores!NewDay
  <2>1. PICK brings : /\ \A s \in Assets : brings[s] \in DayRows[s]
                   /\ history' = [s \in Assets |-> Append(history[s], brings[s])]
                   /\ factors' = [s \in Assets |-> Scores!FactorsOf([u \in Assets |-> Append(history[u], brings[u])][s])]
                   /\ result' = None
    BY <1>1, Zenon DEF Scores!NewDay
  <2>2. \A s \in Assets : Len(history[s]) < LastDay
    BY <1>1 DEF Scores!NewDay
  <2>3. ASSUME NEW s \in Assets
        PROVE  /\ history'[s] = Append(history[s], brings[s]) /\ history'[s] \in Seq(Row) /\ Len(history'[s]) <= LastDay
               /\ factors'[s] = Scores!FactorsOf(history'[s])
    <3>1. history'[s] = Append(history[s], brings[s]) /\ factors'[s] = Scores!FactorsOf(history'[s])
      BY <2>1, Zenon
    <3>2. brings[s] \in Row
      BY <2>1 DEF ScoreConstants, Row
    <3>3. history[s] \in Seq(Row) /\ Len(history[s]) < LastDay /\ LastDay \in Nat
      BY <2>2 DEF ScoresInv, ScoreConstants
    <3> QED BY <3>1, <3>2, <3>3
  <2>4. \A s \in Assets : factors'[s] \in [Scores!Factors -> Int] \union {None}
    BY <2>3, FactorsAre
  <2> QED BY <2>1, <2>3, <2>4 DEF ScoresInv
<1>2. CASE Scores!Refresh
  <2>1. result' = Scores!ScoreEtfs /\ history' = history /\ factors' = factors
    BY <1>2 DEF Scores!Refresh
  <2>2. Scores!ScoreEtfs' = Scores!ScoreEtfs
    BY <2>1, ScoresFollow
  <2> QED BY <2>1, <2>2 DEF ScoresInv
<1>3. CASE UNCHANGED Scores!vars
  <2>1. result' = result /\ history' = history /\ factors' = factors
    BY <1>3 DEF Scores!vars
  <2>2. Scores!ScoreEtfs' = Scores!ScoreEtfs
    BY <2>1, ScoresFollow
  <2> QED BY <2>1, <2>2 DEF ScoresInv
<1> QED BY <1>1, <1>2, <1>3 DEF Scores!Next

\* Of two scored members of a category the one that is worse in no factor has no lower
\* rank, and a better one if it is better in a factor that counts; the members of a
\* category are scored together or not at all, somebody is first, and neither a better
\* rank nor a better grade goes to a worse score.  For any instruments, rows, windows,
\* weights and number of days.
THEOREM ScoresAreSound == ScoreConstants /\ Scores!Spec => [](Scores!ScoresTypeOK /\ Scores!ScoresSound)
<1> SUFFICES ASSUME ScoreConstants PROVE Scores!Spec => [](Scores!ScoresTypeOK /\ Scores!ScoresSound)
  OBVIOUS
<1>1. Scores!Init => ScoresInv
  BY ScoresInitial
<1>2. ScoresInv /\ [Scores!Next]_Scores!vars => ScoresInv'
  BY ScoresStep
<1>3. ScoresInv => Scores!ScoresTypeOK /\ Scores!ScoresSound
  BY Dominates, Ranked, ScoresTyped DEF Scores!ScoresSound
<1> QED BY <1>1, <1>2, <1>3, PTL DEF Scores!Spec
=============================================================================
