-------------------------- MODULE DedicatedProofs ---------------------------
(***************************************************************************)
(* Proofs about DedicatedCollection, for any threads, answers, thresholds  *)
(* and times; then about HKNews, KnowledgeBase, HKSnapshots and            *)
(* IndustryMapping.                                                        *)
(*                                                                         *)
(* That the complete snapshot of a Hong Kong valuation is kept needs that  *)
(* one pipeline uses the cache: its lock covers a store (StoreInv), but it *)
(* stops no other pipeline.  That failing sources rest holds for the       *)
(* valuation of an A share, which has no old entry to show instead: then   *)
(* the breaker counts what really failed in a row (RowMatches).            *)
(***************************************************************************)
EXTENDS DedicatedCollection, Sequences, FiniteSetTheorems, TLAPS

Figures == [day : Int, positive : BOOLEAN, degraded : BOOLEAN, curve : BOOLEAN,
            has : SUBSET Parts, failed : SUBSET Parts]
Snapshots == [day : Int, positive : BOOLEAN, degraded : BOOLEAN, curve : BOOLEAN,
              has : SUBSET Parts, at : Nat]
\* What is true of the constants: figures come as figures, None is nothing.
ConstantsOK ==
    /\ Answers \subseteq Figures /\ None \notin Snapshots /\ None \notin Nat
    /\ Threshold \in Nat \ {0} /\ OpenFor \in Nat /\ MaxTime \in Nat /\ MaxFaults \in Nat

Places == {"idle", "readLatest", "readLast", "readFresh", "gate", "fetch", "judge", "store",
           "check", "keep", "put", "mark", "done"}
Maybe == Snapshots \union {None}

Shapes ==
    /\ now \in Nat /\ latest \in Maybe /\ last \in Maybe
    /\ fails \in [Pipelines -> Nat] /\ openUntil \in [Pipelines -> Nat \union {None}]
    /\ failedRow \in [Pipelines -> Nat] /\ failedAt \in [Pipelines -> Nat]
    /\ pc \in [Threads -> Places] /\ refresh \in [Threads -> BOOLEAN]
    /\ old \in [Threads -> Maybe] /\ got \in [Threads -> Maybe]
    /\ wasOpen \in [Threads -> BOOLEAN]
    /\ \A t \in Threads : pc[t] \in {"judge", "store", "done"} \union Locked => got[t] # None

LEMMA PipelinesOwn == \A t \in Threads : Owner(t) \in Pipelines
  BY DEF Threads, Owner

LEMMA ResultsAreSnapshots ==
    ASSUME ConstantsOK, Shapes, NEW t \in Threads, NEW a \in Answers
    PROVE Result(t, a) \in Snapshots
  BY DEF ConstantsOK, Shapes, Maybe, Result, Merged, Supplied, Figures, Snapshots

LEMMA ShapesInit == ConstantsOK /\ Init => Shapes
  BY DEF Init, Shapes, Places, Maybe, Locked

\* What may happen to the counters of a pipeline.
Counters == /\ fails' \in [Pipelines -> Nat] /\ openUntil' \in [Pipelines -> Nat \union {None}]
            /\ failedRow' \in [Pipelines -> Nat] /\ failedAt' \in [Pipelines -> Nat]

LEMMA CountersCount ==
    ASSUME ConstantsOK, Shapes, NEW p \in Pipelines,
           Success(p) \/ Failure(p) \/ UNCHANGED breaker,
           \/ FailedOnceMore(p) \/ RowBegins(p) \/ UNCHANGED row
           \/ failedRow' = [failedRow EXCEPT ![p] = 0] /\ UNCHANGED failedAt
    PROVE Counters
<1> USE DEF ConstantsOK, Shapes, Counters
<1>1. fails' \in [Pipelines -> Nat] /\ openUntil' \in [Pipelines -> Nat \union {None}]
  BY DEF Success, Failure, breaker
<1>2. failedRow' \in [Pipelines -> Nat] /\ failedAt' \in [Pipelines -> Nat]
  BY DEF FailedOnceMore, RowBegins, row
<1> QED
  BY <1>1, <1>2

LEMMA ShapesNext ==
    ASSUME ConstantsOK, Shapes, [Next]_vars
    PROVE Shapes'
<1> USE DEF Locked, Places, Maybe
<1>1. ASSUME NEW t \in Threads, Begin(t) PROVE Shapes'
  <2>1. Counters
    BY <1>1, CountersCount, PipelinesOwn DEF Begin
  <2> QED
    BY <1>1, <2>1 DEF Begin, Goto, Counters, Shapes, cache
<1>2. ASSUME NEW t \in Threads, ReadLatest(t) PROVE Shapes'
  <2>1. Counters
    BY <1>2, CountersCount, PipelinesOwn DEF ReadLatest
  <2> QED
    BY <1>2, <2>1 DEF ReadLatest, Goto, Counters, Shapes, cache
<1>3. ASSUME NEW t \in Threads, ReadLast(t) PROVE Shapes'
  <2>1. Counters
    BY <1>3, CountersCount, PipelinesOwn DEF ReadLast
  <2> QED
    BY <1>3, <2>1 DEF ReadLast, Goto, Counters, Shapes, cache
<1>4. ASSUME NEW t \in Threads, Serve(t) PROVE Shapes'
  <2>1. Counters
    BY <1>4, CountersCount, PipelinesOwn DEF Serve
  <2> QED
    BY <1>4, <2>1 DEF Serve, Goto, Return, Counters, Shapes, cache
<1>5. ASSUME NEW t \in Threads, Miss(t) PROVE Shapes'
  <2>1. Counters
    BY <1>5, CountersCount, PipelinesOwn DEF Miss
  <2> QED
    BY <1>5, <2>1 DEF Miss, Goto, Counters, Shapes, cache
<1>6. ASSUME NEW t \in Threads, Rest(t) PROVE Shapes'
  <2>1. Counters
    BY <1>6, CountersCount, PipelinesOwn DEF Rest
  <2> QED
    BY <1>6, <2>1 DEF Rest, Goto, Return, Counters, Shapes, cache
<1>7. ASSUME NEW t \in Threads, Ask(t) PROVE Shapes'
  <2>1. Counters
    BY <1>7, CountersCount, PipelinesOwn DEF Ask
  <2> QED
    <3>1. IsOpen(Owner(t)) \in BOOLEAN
      BY DEF IsOpen
    <3>2. wasOpen' \in [Threads -> BOOLEAN]
      BY <1>7, <3>1 DEF Ask, Shapes
    <3> QED
      BY <1>7, <2>1, <3>2 DEF Ask, Goto, Counters, Shapes, cache
<1>8. ASSUME NEW t \in Threads, Answered(t) PROVE Shapes'
  <2>1. Counters
    BY <1>8, CountersCount, PipelinesOwn DEF Answered
  <2> QED
    BY <1>8, <2>1, ResultsAreSnapshots DEF Answered, Goto, Counters, Shapes, cache, ConstantsOK
<1>9. ASSUME NEW t \in Threads, Unanswered(t) PROVE Shapes'
  <2>1. Counters
    BY <1>9, CountersCount, PipelinesOwn DEF Unanswered
  <2> QED
    BY <1>9, <2>1 DEF Unanswered, Goto, Counters, Shapes, cache
<1>10. ASSUME NEW t \in Threads, Broken(t) PROVE Shapes'
  <2>1. Counters
    BY <1>10, CountersCount, PipelinesOwn DEF Broken
  <2> QED
    BY <1>10, <2>1 DEF Broken, Goto, Return, Counters, Shapes, cache
<1>11. ASSUME NEW t \in Threads, Failed(t) PROVE Shapes'
  <2>1. Counters
    BY <1>11, CountersCount, PipelinesOwn DEF Failed
  <2> QED
    BY <1>11, <2>1 DEF Failed, Goto, Return, Counters, Shapes, cache
<1>12. ASSUME NEW t \in Threads, Judge(t) PROVE Shapes'
  <2>1. Counters
    BY <1>12, CountersCount, PipelinesOwn DEF Judge
  <2> QED
    BY <1>12, <2>1 DEF Judge, Goto, Return, Counters, Shapes, cache
<1>13. ASSUME NEW t \in Threads, Lock(t) PROVE Shapes'
  <2>1. Counters
    BY <1>13, CountersCount, PipelinesOwn DEF Lock
  <2> QED
    BY <1>13, <2>1 DEF Lock, Goto, LockFree, Counters, Shapes, cache
<1>14. ASSUME NEW t \in Threads, Check(t) PROVE Shapes'
  <2>1. Counters
    BY <1>14, CountersCount, PipelinesOwn DEF Check
  <2> QED
    BY <1>14, <2>1 DEF Check, Goto, Keeps, Counters, Shapes, cache
<1>15. ASSUME NEW t \in Threads, Keep(t) PROVE Shapes'
  <2>1. Counters
    BY <1>15, CountersCount, PipelinesOwn DEF Keep
  <2> QED
    BY <1>15, <2>1 DEF Keep, Goto, Counters, Shapes, cache
<1>16. ASSUME NEW t \in Threads, Put(t) PROVE Shapes'
  <2>1. Counters
    BY <1>16, CountersCount, PipelinesOwn DEF Put
  <2> QED
    BY <1>16, <2>1 DEF Put, Goto, Counters, Shapes, cache
<1>17. ASSUME NEW t \in Threads, Mark(t) PROVE Shapes'
  <2>1. Counters
    BY <1>17, CountersCount, PipelinesOwn DEF Mark
  <2> QED
    BY <1>17, <2>1 DEF Mark, Goto, Counters, Shapes, cache
<1>18. ASSUME NEW t \in Threads, StoreFails(t) PROVE Shapes'
  <2>1. Counters
    BY <1>18, CountersCount, PipelinesOwn DEF StoreFails
  <2> QED
    BY <1>18, <2>1 DEF StoreFails, Goto, Counters, Shapes, cache
<1>19. ASSUME NEW t \in Threads, Done(t) PROVE Shapes'
  <2>1. Counters
    BY <1>19, CountersCount, PipelinesOwn DEF Done
  <2> QED
    BY <1>19, <2>1 DEF Done, Goto, Return, Counters, Shapes, cache
<1>20. CASE Tick
  BY <1>20 DEF Tick, Shapes, cache, breaker, row
<1>21. CASE UNCHANGED vars
  BY <1>21 DEF vars, Shapes
<1> QED
  BY <1>1, <1>2, <1>3, <1>4, <1>5, <1>6, <1>7, <1>8, <1>9, <1>10, <1>11, <1>12, <1>13, <1>14, <1>15, <1>16, <1>17, <1>18, <1>19, <1>20, <1>21 DEF Next

\* Which places belong to which kind, and what no kind but one has.
Routes ==
    /\ now \in 0 .. MaxTime /\ faults \in 0 .. MaxFaults
    /\ \A t \in Threads :
          /\ pc[t] \in {"readLatest", "readLast", "check", "keep", "mark"} => HK
          /\ pc[t] \in {"readFresh", "store", "put", "done"} => Cached
          /\ pc[t] = "judge" => ~Cached
          /\ wasOpen[t] => ~Cached
    /\ ~HK => last = None /\ \A t \in Threads : old[t] = None
    /\ ~Cached => latest = None
BreakersMatch == \A p \in Pipelines : openUntil[p] # None <=> fails[p] >= Threshold

LEMMA BreakersNext ==
    ASSUME ConstantsOK, Shapes, BreakersMatch, NEW p \in Pipelines,
           Success(p) \/ Failure(p) \/ UNCHANGED breaker
    PROVE BreakersMatch'
<1> USE DEF ConstantsOK, Shapes, BreakersMatch
<1>1. CASE Success(p)
  BY <1>1 DEF Success
<1>2. CASE UNCHANGED breaker
  BY <1>2 DEF breaker
<1>3. CASE Failure(p) /\ ~UNCHANGED breaker
  BY <1>3 DEF Failure
<1> QED
  BY <1>1, <1>2, <1>3

LEMMA BreakersAlways ==
    ASSUME ConstantsOK, Shapes, BreakersMatch, [Next]_vars
    PROVE BreakersMatch'
<1>1. ASSUME NEW t \in Threads, Begin(t) PROVE BreakersMatch'
  BY <1>1, BreakersNext, PipelinesOwn DEF Begin
<1>2. ASSUME NEW t \in Threads, ReadLatest(t) PROVE BreakersMatch'
  BY <1>2, BreakersNext, PipelinesOwn DEF ReadLatest
<1>3. ASSUME NEW t \in Threads, ReadLast(t) PROVE BreakersMatch'
  BY <1>3, BreakersNext, PipelinesOwn DEF ReadLast
<1>4. ASSUME NEW t \in Threads, Serve(t) PROVE BreakersMatch'
  BY <1>4, BreakersNext, PipelinesOwn DEF Serve
<1>5. ASSUME NEW t \in Threads, Miss(t) PROVE BreakersMatch'
  BY <1>5, BreakersNext, PipelinesOwn DEF Miss
<1>6. ASSUME NEW t \in Threads, Rest(t) PROVE BreakersMatch'
  BY <1>6, BreakersNext, PipelinesOwn DEF Rest
<1>7. ASSUME NEW t \in Threads, Ask(t) PROVE BreakersMatch'
  BY <1>7, BreakersNext, PipelinesOwn DEF Ask
<1>8. ASSUME NEW t \in Threads, Answered(t) PROVE BreakersMatch'
  BY <1>8, BreakersNext, PipelinesOwn DEF Answered
<1>9. ASSUME NEW t \in Threads, Unanswered(t) PROVE BreakersMatch'
  BY <1>9, BreakersNext, PipelinesOwn DEF Unanswered
<1>10. ASSUME NEW t \in Threads, Broken(t) PROVE BreakersMatch'
  BY <1>10, BreakersNext, PipelinesOwn DEF Broken
<1>11. ASSUME NEW t \in Threads, Failed(t) PROVE BreakersMatch'
  BY <1>11, BreakersNext, PipelinesOwn DEF Failed
<1>12. ASSUME NEW t \in Threads, Judge(t) PROVE BreakersMatch'
  BY <1>12, BreakersNext, PipelinesOwn DEF Judge
<1>13. ASSUME NEW t \in Threads, Lock(t) PROVE BreakersMatch'
  BY <1>13, BreakersNext, PipelinesOwn DEF Lock
<1>14. ASSUME NEW t \in Threads, Check(t) PROVE BreakersMatch'
  BY <1>14, BreakersNext, PipelinesOwn DEF Check
<1>15. ASSUME NEW t \in Threads, Keep(t) PROVE BreakersMatch'
  BY <1>15, BreakersNext, PipelinesOwn DEF Keep
<1>16. ASSUME NEW t \in Threads, Put(t) PROVE BreakersMatch'
  BY <1>16, BreakersNext, PipelinesOwn DEF Put
<1>17. ASSUME NEW t \in Threads, Mark(t) PROVE BreakersMatch'
  BY <1>17, BreakersNext, PipelinesOwn DEF Mark
<1>18. ASSUME NEW t \in Threads, StoreFails(t) PROVE BreakersMatch'
  BY <1>18, BreakersNext, PipelinesOwn DEF StoreFails
<1>19. ASSUME NEW t \in Threads, Done(t) PROVE BreakersMatch'
  BY <1>19, BreakersNext, PipelinesOwn DEF Done
<1>20. CASE Tick \/ UNCHANGED vars
  BY <1>20 DEF Tick, vars, breaker, BreakersMatch
<1> QED
  BY <1>1, <1>2, <1>3, <1>4, <1>5, <1>6, <1>7, <1>8, <1>9, <1>10, <1>11, <1>12, <1>13, <1>14, <1>15, <1>16, <1>17, <1>18, <1>19, <1>20 DEF Next

LEMMA RoutesNext ==
    ASSUME ConstantsOK, Shapes, Routes, [Next]_vars
    PROVE Routes'
<1> USE DEF ConstantsOK, Shapes, Routes, Places, Locked, HK, Cached
<1>1. ASSUME NEW t \in Threads, Begin(t) PROVE Routes'
  BY <1>1 DEF Begin, Goto, cache
<1>2. ASSUME NEW t \in Threads, ReadLatest(t) PROVE Routes'
  BY <1>2 DEF ReadLatest, Goto, cache
<1>3. ASSUME NEW t \in Threads, ReadLast(t) PROVE Routes'
  BY <1>3 DEF ReadLast, Goto, cache
<1>4. ASSUME NEW t \in Threads, Serve(t) PROVE Routes'
  BY <1>4 DEF Serve, Goto, Return, cache
<1>5. ASSUME NEW t \in Threads, Miss(t) PROVE Routes'
  BY <1>5 DEF Miss, Goto, cache
<1>6. ASSUME NEW t \in Threads, Rest(t) PROVE Routes'
  BY <1>6 DEF Rest, Goto, Return, cache
<1>7. ASSUME NEW t \in Threads, Ask(t) PROVE Routes'
  BY <1>7 DEF Ask, Goto, cache
<1>8. ASSUME NEW t \in Threads, Answered(t) PROVE Routes'
  BY <1>8 DEF Answered, Goto, cache
<1>9. ASSUME NEW t \in Threads, Unanswered(t) PROVE Routes'
  BY <1>9 DEF Unanswered, Goto, cache
<1>10. ASSUME NEW t \in Threads, Broken(t) PROVE Routes'
  BY <1>10 DEF Broken, Goto, Return, cache
<1>11. ASSUME NEW t \in Threads, Failed(t) PROVE Routes'
  BY <1>11 DEF Failed, Goto, Return, cache
<1>12. ASSUME NEW t \in Threads, Judge(t) PROVE Routes'
  BY <1>12 DEF Judge, Goto, Return, cache
<1>13. ASSUME NEW t \in Threads, Lock(t) PROVE Routes'
  BY <1>13 DEF Lock, Goto, LockFree, cache
<1>14. ASSUME NEW t \in Threads, Check(t) PROVE Routes'
  BY <1>14 DEF Check, Goto, Keeps, cache
<1>15. ASSUME NEW t \in Threads, Keep(t) PROVE Routes'
  BY <1>15 DEF Keep, Goto, cache
<1>16. ASSUME NEW t \in Threads, Put(t) PROVE Routes'
  BY <1>16 DEF Put, Goto, cache
<1>17. ASSUME NEW t \in Threads, Mark(t) PROVE Routes'
  BY <1>17 DEF Mark, Goto, cache
<1>18. ASSUME NEW t \in Threads, StoreFails(t) PROVE Routes'
  BY <1>18 DEF StoreFails, Goto, cache
<1>19. ASSUME NEW t \in Threads, Done(t) PROVE Routes'
  BY <1>19 DEF Done, Goto, Return, cache
<1>20. CASE Tick
  BY <1>20 DEF Tick, cache, breaker, row
<1>21. CASE UNCHANGED vars
  BY <1>21 DEF vars, cache, breaker, row
<1> QED
  BY <1>1, <1>2, <1>3, <1>4, <1>5, <1>6, <1>7, <1>8, <1>9, <1>10, <1>11, <1>12, <1>13, <1>14, <1>15, <1>16, <1>17, <1>18, <1>19, <1>20, <1>21 DEF Next

\* The cache and the breakers hold what they may, for every kind.
THEOREM DedicatedTypesHold ==
    ASSUME ConstantsOK
    PROVE Spec => [](Shapes /\ Routes /\ DedicatedTypeOK)
<1> DEFINE Inv == Shapes /\ Routes /\ BreakersMatch
<1>1. Init => Inv
  BY ConstantsOK, ShapesInit DEF Init, ConstantsOK, Routes, BreakersMatch
<1>2. Inv /\ [Next]_vars => Inv'
  BY ConstantsOK, ShapesNext, RoutesNext, BreakersAlways
<1>3. Inv => DedicatedTypeOK
  BY DEF Routes, BreakersMatch, DedicatedTypeOK
<1> QED
  BY <1>1, <1>2, <1>3, PTL DEF Spec

-----------------------------------------------------------------------------
(* A Hong Kong valuation, one pipeline.                                    *)

OnePipeline == \A p, q \in Pipelines : p = q

\* The store of one thread is not disturbed by another, and what is complete
\* is set aside before something less is put in its place.
StoreInv ==
    /\ \A t, u \in Threads : pc[t] \in Locked /\ pc[u] \in Locked => t = u
    /\ LastIsComplete
    /\ \A t \in Threads :
          /\ pc[t] \in {"check", "keep"} => ~Complete(got[t])
          /\ pc[t] = "keep" => latest # None /\ Complete(latest)
          /\ pc[t] = "put" /\ ~Complete(got[t]) /\ latest # None /\ Complete(latest) => last # None
          /\ pc[t] = "mark" => latest = got[t] /\ Complete(got[t])

LEMMA StoreNext ==
    ASSUME ConstantsOK, HK, OnePipeline, Shapes, StoreInv, [Next]_vars
    PROVE StoreInv'
<1> USE DEF ConstantsOK, Shapes, StoreInv, Locked, Places, Complete, LastIsComplete, HK
<1>1. ASSUME NEW t \in Threads, Begin(t) PROVE StoreInv'
  BY <1>1 DEF Begin, Goto, cache
<1>2. ASSUME NEW t \in Threads, ReadLatest(t) PROVE StoreInv'
  BY <1>2 DEF ReadLatest, Goto, cache
<1>3. ASSUME NEW t \in Threads, ReadLast(t) PROVE StoreInv'
  BY <1>3 DEF ReadLast, Goto, cache
<1>4. ASSUME NEW t \in Threads, Serve(t) PROVE StoreInv'
  BY <1>4 DEF Serve, Goto, Return, cache
<1>5. ASSUME NEW t \in Threads, Miss(t) PROVE StoreInv'
  BY <1>5 DEF Miss, Goto, cache
<1>6. ASSUME NEW t \in Threads, Rest(t) PROVE StoreInv'
  BY <1>6 DEF Rest, Goto, Return, cache
<1>7. ASSUME NEW t \in Threads, Ask(t) PROVE StoreInv'
  BY <1>7 DEF Ask, Goto, cache
<1>8. ASSUME NEW t \in Threads, Answered(t) PROVE StoreInv'
  BY <1>8 DEF Answered, Goto, cache
<1>9. ASSUME NEW t \in Threads, Unanswered(t) PROVE StoreInv'
  BY <1>9 DEF Unanswered, Goto, cache
<1>10. ASSUME NEW t \in Threads, Broken(t) PROVE StoreInv'
  BY <1>10 DEF Broken, Goto, Return, cache
<1>11. ASSUME NEW t \in Threads, Failed(t) PROVE StoreInv'
  BY <1>11 DEF Failed, Goto, Return, cache
<1>12. ASSUME NEW t \in Threads, Judge(t) PROVE StoreInv'
  BY <1>12 DEF Judge, Goto, Return, cache
<1>13. ASSUME NEW t \in Threads, Lock(t) PROVE StoreInv'
  BY <1>13 DEF Lock, Goto, LockFree, cache, OnePipeline, Owner, Threads
<1>14. ASSUME NEW t \in Threads, Check(t) PROVE StoreInv'
  BY <1>14 DEF Check, Goto, Keeps, cache
<1>15. ASSUME NEW t \in Threads, Keep(t) PROVE StoreInv'
  BY <1>15 DEF Keep, Goto, cache
<1>16. ASSUME NEW t \in Threads, Put(t) PROVE StoreInv'
  BY <1>16 DEF Put, Goto, cache
<1>17. ASSUME NEW t \in Threads, Mark(t) PROVE StoreInv'
  BY <1>17 DEF Mark, Goto, cache
<1>18. ASSUME NEW t \in Threads, StoreFails(t) PROVE StoreInv'
  BY <1>18 DEF StoreFails, Goto, cache
<1>19. ASSUME NEW t \in Threads, Done(t) PROVE StoreInv'
  BY <1>19 DEF Done, Goto, Return, cache
<1>20. CASE Tick
  BY <1>20 DEF Tick, cache, breaker, row
<1>21. CASE UNCHANGED vars
  BY <1>21 DEF vars, cache, breaker, row
<1> QED
  BY <1>1, <1>2, <1>3, <1>4, <1>5, <1>6, <1>7, <1>8, <1>9, <1>10, <1>11, <1>12, <1>13, <1>14, <1>15, <1>16, <1>17, <1>18, <1>19, <1>20, <1>21 DEF Next

LEMMA StoreStep ==
    ASSUME ConstantsOK, HK, Shapes, StoreInv, [Next]_vars
    PROVE CompleteIsKept
<1> SUFFICES ASSUME HasComplete PROVE HasComplete'
  BY DEF CompleteIsKept
<1> USE DEF HasComplete, StoreInv, LastIsComplete, Shapes, Locked, Complete
<1>1. ASSUME UNCHANGED cache PROVE HasComplete'
  BY <1>1 DEF cache
<1>2. ASSUME NEW t \in Threads, Miss(t) PROVE HasComplete'
  BY <1>2 DEF Miss
<1>3. ASSUME NEW t \in Threads, Keep(t) PROVE HasComplete'
  BY <1>3 DEF Keep
<1>4. ASSUME NEW t \in Threads, Put(t) PROVE HasComplete'
  BY <1>4 DEF Put
<1>5. ASSUME NEW t \in Threads, Mark(t) PROVE HasComplete'
  BY <1>5 DEF Mark
<1> QED
  BY <1>1, <1>2, <1>3, <1>4, <1>5
     DEF Next, Tick, vars, Begin, ReadLatest, ReadLast, Serve, Rest, Ask, Answered, Unanswered,
         Broken, Failed, Judge, Lock, Check, StoreFails, Done, cache

LEMMA StoreInvariance ==
    ASSUME ConstantsOK, HK, OnePipeline
    PROVE Spec => [](Shapes /\ StoreInv)
<1>1. Init => Shapes /\ StoreInv
  BY ConstantsOK, ShapesInit DEF Init, StoreInv, LastIsComplete, Locked
<1>2. Shapes /\ StoreInv /\ [Next]_vars => Shapes' /\ StoreInv'
  BY ConstantsOK, HK, OnePipeline, ShapesNext, StoreNext
<1> QED
  BY <1>1, <1>2, PTL DEF Spec

\* "last_complete" never holds a degraded snapshot (_store_cache).
THEOREM LastStaysComplete ==
    ASSUME ConstantsOK, HK, OnePipeline
    PROVE Spec => []LastIsComplete
<1>1. StoreInv => LastIsComplete
  BY DEF StoreInv
<1> QED
  BY <1>1, StoreInvariance, ConstantsOK, HK, OnePipeline, PTL

\* Once the cache has a complete snapshot it always has one, whatever is
\* collected later and wherever a store fails (_store_cache).
THEOREM CompleteStays ==
    ASSUME ConstantsOK, HK, OnePipeline
    PROVE Spec => [][CompleteIsKept]_vars
<1>1. Shapes /\ StoreInv /\ [Next]_vars => CompleteIsKept
  BY StoreStep, ConstantsOK, HK
<1> QED
  BY <1>1, StoreInvariance, ConstantsOK, HK, OnePipeline, PTL DEF Spec

-----------------------------------------------------------------------------
(* A Hong Kong valuation, one call at a time.                              *)

OneThread == \A t, u \in Threads : t = u
\* A value read off the end of a curve is a degraded answer (akshare.py).
CurvesAreDegraded == \A a \in Answers : a.curve => a.degraded

\* The thread falls back to what is in the cache, so its answer is no older.
CurveInv ==
    \A t \in Threads : latest # None =>
       /\ pc[t] \in {"readFresh", "gate", "fetch"} => old[t] = latest
       /\ pc[t] \in {"store", "check", "keep", "put"} /\ got[t].curve => got[t].day >= latest.day
       /\ pc[t] # "readLast"

LEMMA CurveResults ==
    ASSUME ConstantsOK, CurvesAreDegraded, HK, Shapes, NEW t \in Threads, NEW a \in Answers,
           old[t] # None, Result(t, a).curve
    PROVE Result(t, a).day >= old[t].day
<1>1. old[t].day \in Int /\ a.day \in Int
  BY DEF ConstantsOK, Shapes, Maybe, Snapshots, Figures
<1>2. a.curve /\ a.degraded
  BY DEF Result, Merged, CurvesAreDegraded
<1> QED
  BY <1>1, <1>2 DEF Result, Merged

LEMMA CurveNext ==
    ASSUME ConstantsOK, CurvesAreDegraded, HK, OneThread, Shapes, Routes, CurveInv, [Next]_vars
    PROVE CurveInv'
<1> USE DEF ConstantsOK, Shapes, CurveInv, Locked, Places, HK, OneThread
<1>1. ASSUME NEW t \in Threads, Begin(t) PROVE CurveInv'
  BY <1>1 DEF Begin, Goto, cache
<1>2. ASSUME NEW t \in Threads, ReadLatest(t) PROVE CurveInv'
  BY <1>2 DEF ReadLatest, Goto, cache
<1>3. ASSUME NEW t \in Threads, ReadLast(t) PROVE CurveInv'
  BY <1>3 DEF ReadLast, Goto, cache
<1>4. ASSUME NEW t \in Threads, Serve(t) PROVE CurveInv'
  BY <1>4 DEF Serve, Goto, Return, cache
<1>5. ASSUME NEW t \in Threads, Miss(t) PROVE CurveInv'
  BY <1>5 DEF Miss, Goto, cache
<1>6. ASSUME NEW t \in Threads, Rest(t) PROVE CurveInv'
  BY <1>6 DEF Rest, Goto, Return, cache
<1>7. ASSUME NEW t \in Threads, Ask(t) PROVE CurveInv'
  BY <1>7 DEF Ask, Goto, cache
<1>8. ASSUME NEW t \in Threads, Answered(t) PROVE CurveInv'
  <2>1. PICK a \in Answers : got' = [got EXCEPT ![t] = Result(t, a)]
    BY <1>8 DEF Answered
  <2>2. latest # None /\ Result(t, a).curve => Result(t, a).day >= latest.day
    BY <1>8, CurveResults DEF Answered
  <2> QED
    BY <1>8, <2>1, <2>2 DEF Answered, Goto, cache
<1>9. ASSUME NEW t \in Threads, Unanswered(t) PROVE CurveInv'
  BY <1>9 DEF Unanswered, Goto, cache
<1>10. ASSUME NEW t \in Threads, Broken(t) PROVE CurveInv'
  BY <1>10 DEF Broken, Goto, Return, cache
<1>11. ASSUME NEW t \in Threads, Failed(t) PROVE CurveInv'
  BY <1>11 DEF Failed, Goto, Return, cache
<1>12. ASSUME NEW t \in Threads, Judge(t) PROVE CurveInv'
  BY <1>12 DEF Judge, Goto, Return, cache
<1>13. ASSUME NEW t \in Threads, Lock(t) PROVE CurveInv'
  BY <1>13 DEF Lock, Goto, cache
<1>14. ASSUME NEW t \in Threads, Check(t) PROVE CurveInv'
  BY <1>14 DEF Check, Goto, Keeps, cache
<1>15. ASSUME NEW t \in Threads, Keep(t) PROVE CurveInv'
  BY <1>15 DEF Keep, Goto, cache
<1>16. ASSUME NEW t \in Threads, Put(t) PROVE CurveInv'
  BY <1>16 DEF Put, Goto, cache
<1>17. ASSUME NEW t \in Threads, Mark(t) PROVE CurveInv'
  BY <1>17 DEF Mark, Goto, cache
<1>18. ASSUME NEW t \in Threads, StoreFails(t) PROVE CurveInv'
  BY <1>18 DEF StoreFails, Goto, cache
<1>19. ASSUME NEW t \in Threads, Done(t) PROVE CurveInv'
  BY <1>19 DEF Done, Goto, Return, cache
<1>20. CASE Tick
  BY <1>20 DEF Tick, cache, breaker, row
<1>21. CASE UNCHANGED vars
  BY <1>21 DEF vars, cache, breaker, row
<1> QED
  BY <1>1, <1>2, <1>3, <1>4, <1>5, <1>6, <1>7, <1>8, <1>9, <1>10, <1>11, <1>12, <1>13, <1>14, <1>15, <1>16, <1>17, <1>18, <1>19, <1>20, <1>21 DEF Next

\* A value read off the end of a curve never replaces a newer one
\* (_merge_hk_valuation), if no other call stores a newer one meanwhile.
THEOREM NewerStays ==
    ASSUME ConstantsOK, CurvesAreDegraded, HK, OneThread
    PROVE Spec => [][NewerIsKept]_vars
<1> DEFINE Inv == Shapes /\ Routes /\ CurveInv
<1>1. Init => Inv
  BY ConstantsOK, ShapesInit DEF Init, ConstantsOK, Routes, CurveInv
<1>2. Inv /\ [Next]_vars => Inv'
  BY ConstantsOK, CurvesAreDegraded, HK, OneThread, ShapesNext, RoutesNext, CurveNext
<1>3. ASSUME Inv, [Next]_vars PROVE NewerIsKept
  <2> SUFFICES ASSUME latest # None, latest' # latest, latest'.curve
               PROVE latest'.day >= latest.day
    BY DEF NewerIsKept
  <2>1. PICK t \in Threads : Put(t)
    BY <1>3, HK
       DEF Next, Tick, vars, Begin, ReadLatest, ReadLast, Serve, Miss, Rest, Ask, Answered,
           Unanswered, Broken, Failed, Judge, Lock, Check, Keep, Mark, StoreFails, Done, cache
  <2> QED
    BY <1>3, <2>1 DEF Put, CurveInv
<1> QED
  BY <1>1, <1>2, <1>3, PTL DEF Spec

-----------------------------------------------------------------------------
(* The breaker.                                                            *)

\* The valuation of an A share has nothing to fall back to, so the breaker
\* counts what really failed in a row.
RowMatches ==
    \A p \in Pipelines : /\ fails[p] = failedRow[p]
                         /\ Full(p) => openUntil[p] = failedAt[p] + OpenFor

LEMMA RowNext ==
    ASSUME ConstantsOK, Kind = "a-valuation", Shapes, Routes, BreakersMatch, RowMatches, [Next]_vars
    PROVE RowMatches'
<1> USE DEF ConstantsOK, Shapes, BreakersMatch, RowMatches, Full
<1>1. ASSUME NEW t \in Threads, Begin(t) PROVE RowMatches'
  BY <1>1, PipelinesOwn DEF Begin, breaker, row
<1>2. ASSUME NEW t \in Threads, ReadLatest(t) PROVE RowMatches'
  BY <1>2, PipelinesOwn DEF ReadLatest, breaker, row
<1>3. ASSUME NEW t \in Threads, ReadLast(t) PROVE RowMatches'
  BY <1>3, PipelinesOwn DEF ReadLast, breaker, row
<1>4. ASSUME NEW t \in Threads, Serve(t) PROVE RowMatches'
  BY <1>4, PipelinesOwn DEF Serve, Success
<1>5. ASSUME NEW t \in Threads, Miss(t) PROVE RowMatches'
  BY <1>5, PipelinesOwn DEF Miss, breaker, row
<1>6. ASSUME NEW t \in Threads, Rest(t) PROVE RowMatches'
  BY <1>6, PipelinesOwn DEF Rest, breaker, row
<1>7. ASSUME NEW t \in Threads, Ask(t) PROVE RowMatches'
  BY <1>7, PipelinesOwn DEF Ask, Success, RowBegins, IsOpen, breaker
<1>8. ASSUME NEW t \in Threads, Answered(t) PROVE RowMatches'
  BY <1>8, PipelinesOwn DEF Answered, breaker, row
<1>9. ASSUME NEW t \in Threads, Unanswered(t) PROVE RowMatches'
  BY <1>9, PipelinesOwn DEF Unanswered, breaker, row
<1>10. ASSUME NEW t \in Threads, Broken(t) PROVE RowMatches'
  BY <1>10, PipelinesOwn DEF Broken, breaker, row
<1>11. ASSUME NEW t \in Threads, Failed(t) PROVE RowMatches'
  BY <1>11, PipelinesOwn DEF Failed, Failure, FailedOnceMore, Routes, HK, Cached, breaker, row
<1>12. ASSUME NEW t \in Threads, Judge(t) PROVE RowMatches'
  BY <1>12, PipelinesOwn DEF Judge, Routes, Cached
<1>13. ASSUME NEW t \in Threads, Lock(t) PROVE RowMatches'
  BY <1>13, PipelinesOwn DEF Lock, breaker, row
<1>14. ASSUME NEW t \in Threads, Check(t) PROVE RowMatches'
  BY <1>14, PipelinesOwn DEF Check, breaker, row
<1>15. ASSUME NEW t \in Threads, Keep(t) PROVE RowMatches'
  BY <1>15, PipelinesOwn DEF Keep, breaker, row
<1>16. ASSUME NEW t \in Threads, Put(t) PROVE RowMatches'
  BY <1>16, PipelinesOwn DEF Put, breaker, row
<1>17. ASSUME NEW t \in Threads, Mark(t) PROVE RowMatches'
  BY <1>17, PipelinesOwn DEF Mark, breaker, row
<1>18. ASSUME NEW t \in Threads, StoreFails(t) PROVE RowMatches'
  BY <1>18, PipelinesOwn DEF StoreFails, breaker, row
<1>19. ASSUME NEW t \in Threads, Done(t) PROVE RowMatches'
  BY <1>19, PipelinesOwn DEF Done, Success
<1>20. CASE Tick \/ UNCHANGED vars
  BY <1>20 DEF Tick, vars, breaker, row
<1> QED
  BY <1>1, <1>2, <1>3, <1>4, <1>5, <1>6, <1>7, <1>8, <1>9, <1>10, <1>11, <1>12, <1>13, <1>14, <1>15, <1>16, <1>17, <1>18, <1>19, <1>20 DEF Next

\* Only the gate lets a thread through to the sources.
LEMMA Gate ==
    ASSUME Shapes, [Next]_vars, NEW t \in Threads, pc[t] = "gate", pc'[t] = "fetch"
    PROVE Ask(t)
<1> USE DEF Shapes, Places
<1>1. ASSUME NEW u \in Threads, pc'[u] = pc[u] \/ pc'[u] # "fetch",
             pc' = [pc EXCEPT ![u] = pc'[u]]
      PROVE FALSE
  BY <1>1
<1>2. ASSUME NEW u \in Threads, Ask(u) PROVE u = t
  BY <1>2 DEF Ask, Goto
<1>3. CASE Tick \/ UNCHANGED vars
  BY <1>3 DEF Tick, vars
<1> QED
  BY <1>1, <1>2, <1>3
     DEF Next, Goto, Return, Begin, ReadLatest, ReadLast, Serve, Miss, Rest, Answered, Unanswered,
         Broken, Failed, Judge, Lock, Check, Keep, Put, Mark, StoreFails, Done

LEMMA ShareInvariance ==
    ASSUME ConstantsOK, Kind = "a-valuation"
    PROVE Spec => [](Shapes /\ Routes /\ BreakersMatch /\ RowMatches)
<1> DEFINE Inv == Shapes /\ Routes /\ BreakersMatch /\ RowMatches
<1>1. Init => Inv
  BY ConstantsOK, ShapesInit DEF Init, ConstantsOK, Routes, BreakersMatch, RowMatches, Full
<1>2. Inv /\ [Next]_vars => Inv'
  BY ConstantsOK, Kind = "a-valuation", ShapesNext, RoutesNext, BreakersAlways, RowNext
<1> QED
  BY <1>1, <1>2, PTL DEF Spec

\* After Threshold failures in a row the sources of a valuation are left
\* alone for OpenFor (CircuitBreaker), however many threads ask.
THEOREM FailingSharesRest ==
    ASSUME ConstantsOK, Kind = "a-valuation"
    PROVE Spec => [][FailingAreRested]_vars
<1>1. ASSUME Shapes, Routes, BreakersMatch, RowMatches, [Next]_vars PROVE FailingAreRested
  <2> SUFFICES ASSUME NEW t \in Threads, pc[t] = "gate", pc'[t] = "fetch", ~wasOpen'[t],
                      Full(Owner(t)), now < failedAt[Owner(t)] + OpenFor
               PROVE FALSE
    BY <1>1 DEF FailingAreRested
  <2>1. Ask(t)
    BY <1>1, Gate
  <2>2. IsOpen(Owner(t))
    BY <1>1, PipelinesOwn, ConstantsOK DEF RowMatches, IsOpen, Shapes, ConstantsOK
  <2> QED
    BY <2>1, <2>2 DEF Ask
<1> QED
  BY <1>1, ShareInvariance, ConstantsOK, Kind = "a-valuation", PTL DEF Spec

\* A breaker that is open closes early only by a call that asked the sources
\* of industries themselves, not by one its own cache answered (fetch_one).
THEOREM OnlyLiveCallsClose ==
    ASSUME ConstantsOK
    PROVE Spec => [][LiveCloses]_vars
<1>1. ASSUME Shapes, Routes, [Next]_vars PROVE LiveCloses
  <2> SUFFICES ASSUME NEW p \in Pipelines, Kind = "industry", IsOpen(p), openUntil'[p] = None
               PROVE \E t \in Threads : Owner(t) = p /\ pc[t] # pc'[t] /\ ~wasOpen[t]
    BY DEF LiveCloses
  <2> USE DEF Shapes, Routes, Cached, IsOpen
  <2>1. breaker' # breaker
    BY DEF breaker
  <2>2. PICK t \in Threads : Serve(t) \/ Ask(t) \/ Failed(t) \/ Judge(t) \/ Done(t)
    BY <1>1, <2>1
       DEF Next, Tick, vars, Begin, ReadLatest, ReadLast, Miss, Rest, Answered, Unanswered,
           Broken, Lock, Check, Keep, Put, Mark, StoreFails, breaker
  <2>3. ~Serve(t) /\ ~Done(t)
    BY <1>1 DEF Serve, Done
  <2>4. CASE Ask(t)
    BY <1>1, <2>4, PipelinesOwn DEF Ask, Success, breaker
  <2>5. CASE Failed(t) \/ Judge(t)
    <3>1. ~wasOpen[t]
      BY <2>1, <2>5 DEF Failed, Judge
    <3>2. Owner(t) = p
      BY <1>1, <2>5, <3>1, PipelinesOwn DEF Failed, Judge, Success, Failure, breaker
    <3>3. pc[t] # pc'[t]
      BY <1>1, <2>5 DEF Failed, Judge, Return, Goto
    <3> QED
      BY <3>1, <3>2, <3>3
  <2> QED
    BY <2>2, <2>3, <2>4, <2>5
<1> QED
  BY <1>1, DedicatedTypesHold, ConstantsOK, PTL DEF Spec

-----------------------------------------------------------------------------
(* HKNews, which has caches and breakers of the same form: names that both  *)
(* have are shared by the two, which are never used together.               *)

CONSTANTS Queries, Window, ServeFor
VARIABLES previous, waiting, errors, items, shown

News == INSTANCE HKNews

\* Thresholds and times are numbers, and None is no time.
NewsConstants ==
    /\ Threshold \in Nat \ {0} /\ OpenFor \in Nat /\ Window \in Nat /\ None \notin Nat

Held == {"store", "put", "done"}
\* A snapshot that was collected in the past and was recent then.
Good(e) == /\ e.at \in Nat /\ e.at <= now /\ e.errors # Queries
           /\ \A d \in e.items : e.at - Window < d /\ d <= e.at
BreakerOK(p) == openUntil[p] # None <=> fails[p] >= Threshold

NewsInv ==
    /\ now \in Nat /\ pc \in [News!Threads -> {"idle", "fresh", "query"} \union Held]
    /\ DOMAIN got = News!Threads
    /\ fails \in [Pipelines -> Nat] /\ openUntil \in [Pipelines -> Nat \union {None}]
    /\ latest # None => Good(latest)
    /\ \A t \in News!Threads : pc[t] \in Held => Good(got[t])
    /\ \A p \in Pipelines : BreakerOK(p)
    /\ News!ShownIsRecent

LEMMA PipelineOf == \A t \in News!Threads : News!Owner(t) \in Pipelines
  BY DEF News!Threads, News!Owner

LEMMA NewsInvInit == NewsConstants /\ News!Init => NewsInv
  BY DEF NewsConstants, News!Init, NewsInv, Held, BreakerOK, News!ShownIsRecent

\* What a breaker counts and when it opens belong together.
LEMMA BreakerKept ==
    ASSUME NewsConstants, NewsInv, NEW p \in Pipelines, News!Success(p) \/ News!Failure(p) \/ UNCHANGED News!breaker
    PROVE  /\ fails' \in [Pipelines -> Nat] /\ openUntil' \in [Pipelines -> Nat \union {None}]
           /\ \A q \in Pipelines : BreakerOK(q)'
<1> USE DEF NewsConstants, NewsInv, BreakerOK
<1>1. CASE News!Success(p)
  BY <1>1 DEF News!Success
<1>2. CASE UNCHANGED News!breaker
  BY <1>2 DEF News!breaker
<1>3. CASE News!Failure(p)
  BY <1>3, <1>2 DEF News!Failure
<1> QED BY <1>1, <1>2, <1>3

\* A call returns.
LEMMA ShowKeeps ==
    ASSUME NewsConstants, NewsInv, NEW t \in News!Threads, NEW e, News!Show(t, e), UNCHANGED <<now, latest>>,
           News!Success(News!Owner(t)) \/ News!Failure(News!Owner(t)) \/ UNCHANGED News!breaker
    PROVE  NewsInv'
<1>1. /\ fails' \in [Pipelines -> Nat] /\ openUntil' \in [Pipelines -> Nat \union {None}]
      /\ \A q \in Pipelines : BreakerOK(q)'
  BY BreakerKept, PipelineOf
<1>2. /\ pc' = [pc EXCEPT ![t] = "idle"] /\ got' = [got EXCEPT ![t] = None]
      /\ now' = now /\ latest' = latest
  BY DEF News!Show, News!Goto
<1>3. News!ShownIsRecent'
  BY <1>2 DEF News!Show, News!ShownIsRecent, News!Current
<1>4. \A u \in News!Threads : pc'[u] \in Held => pc[u] \in Held /\ got'[u] = got[u]
  BY <1>2 DEF NewsInv, Held
<1>5. \A u \in News!Threads : pc'[u] \in Held => Good(got[u]) /\ got'[u] = got[u]
  BY <1>4 DEF NewsInv
<1>6. \A u \in News!Threads : pc'[u] \in Held => Good(got[u])'
  BY <1>2, <1>5 DEF Good
<1>7. (latest # None => Good(latest))'
  BY <1>2 DEF NewsInv, Good
<1> QED BY <1>1, <1>2, <1>3, <1>6, <1>7 DEF NewsInv

\* A call goes on, with what it has and the cache as it is.
LEMMA GoOnKeeps ==
    ASSUME NewsConstants, NewsInv, NEW t \in News!Threads, NEW place \in {"fresh", "query"} \union Held,
           News!Goto(t, place), UNCHANGED <<now, latest, got>>, place \in Held => pc[t] \in Held,
           News!Success(News!Owner(t)) \/ UNCHANGED News!breaker, shown' = None \/ UNCHANGED shown
    PROVE  NewsInv'
<1>1. /\ fails' \in [Pipelines -> Nat] /\ openUntil' \in [Pipelines -> Nat \union {None}]
      /\ \A q \in Pipelines : BreakerOK(q)'
  BY BreakerKept, PipelineOf
<1>2. pc' \in [News!Threads -> {"idle", "fresh", "query"} \union Held] /\ \A u \in News!Threads : pc'[u] \in Held => pc[u] \in Held
  BY DEF News!Goto, NewsInv, Held
<1>3. \A u \in News!Threads : pc'[u] \in Held => Good(got[u])'
  BY <1>2 DEF NewsInv, Good
<1>4. (latest # None => Good(latest))' /\ News!ShownIsRecent'
  BY DEF NewsInv, Good, News!ShownIsRecent
<1> QED BY <1>1, <1>2, <1>3, <1>4 DEF NewsInv

LEMMA QueryKeeps ==
    ASSUME NewsConstants, NewsInv, NEW t \in News!Threads, News!Query(t)
    PROVE  NewsInv'
<1>1. UNCHANGED <<now, latest, News!breaker, pc, got, shown>>
  BY DEF News!Query
<1> QED BY <1>1 DEF NewsInv, Good, BreakerOK, News!ShownIsRecent, News!breaker

LEMMA CollectedKeeps ==
    ASSUME NewsConstants, NewsInv, NEW t \in News!Threads, News!Collected(t)
    PROVE  NewsInv'
<1>1. PICK e : e = [errors |-> errors[t], items |-> News!Current(items[t]), at |-> now]
  OBVIOUS
<1>2. /\ pc' = [pc EXCEPT ![t] = "store"] /\ got' = [got EXCEPT ![t] = e] /\ e.errors # Queries
      /\ UNCHANGED <<now, latest, News!breaker, shown>>
  BY <1>1 DEF News!Collected, News!Goto
<1>3. Good(e)'
  BY <1>1, <1>2 DEF Good, News!Current, NewsInv
<1>4. \A u \in News!Threads : pc'[u] \in Held => Good(got[u])'
  BY <1>2, <1>3 DEF NewsInv, Good
<1>5. (latest # None => Good(latest))' /\ News!ShownIsRecent' /\ \A p \in Pipelines : BreakerOK(p)'
  BY <1>2 DEF NewsInv, Good, News!ShownIsRecent, BreakerOK, News!breaker
<1> QED BY <1>2, <1>4, <1>5 DEF NewsInv, Held, News!breaker

LEMMA PutKeeps ==
    ASSUME NewsConstants, NewsInv, NEW t \in News!Threads, News!Put(t)
    PROVE  NewsInv'
<1>1. /\ pc' = [pc EXCEPT ![t] = "done"] /\ UNCHANGED <<now, News!breaker, got, shown>> /\ pc[t] = "put"
      /\ latest' \in {latest, got[t]}
  BY DEF News!Put, News!Goto
<1>2. \A u \in News!Threads : pc'[u] \in Held => Good(got[u])'
  BY <1>1 DEF NewsInv, Good, Held
<1>3. (latest # None => Good(latest))' /\ News!ShownIsRecent' /\ \A p \in Pipelines : BreakerOK(p)'
  BY <1>1 DEF NewsInv, Good, News!ShownIsRecent, BreakerOK, News!breaker, Held
<1> QED BY <1>1, <1>2, <1>3 DEF NewsInv, Held, News!breaker

LEMMA TickKeeps == NewsConstants /\ NewsInv /\ News!Tick => NewsInv'
<1> SUFFICES ASSUME NewsConstants, NewsInv, News!Tick PROVE NewsInv'
  OBVIOUS
<1>1. now' = now + 1 /\ UNCHANGED <<latest, News!breaker, pc, got, shown>> /\ now \in Nat
  BY DEF News!Tick, News!call, NewsInv
<1>2. \A e : Good(e) => e.at \in Nat /\ e.at <= now'
  BY <1>1 DEF Good
<1>3. (latest # None => Good(latest))'
  BY <1>1, <1>2 DEF NewsInv, Good
<1>4. \A u \in News!Threads : pc'[u] \in Held => Good(got[u])'
  BY <1>1, <1>2 DEF NewsInv, Good
<1> QED BY <1>1, <1>3, <1>4 DEF NewsInv, News!ShownIsRecent, BreakerOK, News!breaker

LEMMA NewsStep == NewsConstants /\ NewsInv /\ [News!Next]_News!vars => NewsInv'
<1> SUFFICES ASSUME NewsConstants, NewsInv, [News!Next]_News!vars PROVE NewsInv'
  OBVIOUS
<1>1. CASE UNCHANGED News!vars
  BY <1>1 DEF News!vars, News!call, News!breaker, NewsInv, Good, News!ShownIsRecent, BreakerOK
<1>2. CASE News!Tick
  BY <1>2, TickKeeps
<1>3. ASSUME NEW t \in News!Threads,
             \/ News!Begin(t) \/ News!Serve(t) \/ News!Ask(t) \/ News!Rest(t) \/ News!Query(t)
             \/ News!Collected(t) \/ News!Failed(t) \/ News!Check(t) \/ News!Put(t) \/ News!Done(t)
      PROVE  NewsInv'
  <2>1. CASE News!Begin(t)
    BY <2>1, GoOnKeeps DEF News!Begin, Held
  <2>2. CASE News!Ask(t)
    BY <2>2, GoOnKeeps DEF News!Ask, Held
  <2>3. CASE News!Check(t)
    <3>1. pc[t] \in Held /\ UNCHANGED <<now, latest, News!breaker, got, shown>>
      BY <2>3 DEF News!Check, Held
    <3>2. PICK place \in Held : News!Goto(t, place)
      BY <2>3 DEF News!Check, Held
    <3> QED BY <3>1, <3>2, GoOnKeeps
  <2>4. CASE News!Serve(t)
    BY <2>4, ShowKeeps DEF News!Serve
  <2>5. CASE News!Rest(t)
    BY <2>5, ShowKeeps DEF News!Rest
  <2>6. CASE News!Failed(t)
    BY <2>6, ShowKeeps DEF News!Failed
  <2>7. CASE News!Done(t)
    BY <2>7, ShowKeeps DEF News!Done
  <2> QED BY <1>3, <2>1, <2>2, <2>3, <2>4, <2>5, <2>6, <2>7, QueryKeeps, CollectedKeeps, PutKeeps
<1> QED BY <1>1, <1>2, <1>3 DEF News!Next

\* What is cached was collected in the past, from at least one query, and was recent then;
\* a breaker is open when the failures are enough; and what is shown is recent on the day
\* it is shown (Pipeline._collect_hk_news, current_news), for any pipelines and threads.
THEOREM NewsAreRecent == NewsConstants /\ News!Spec => [](News!NewsTypeOK /\ News!ShownIsRecent)
<1> SUFFICES ASSUME NewsConstants PROVE News!Spec => [](News!NewsTypeOK /\ News!ShownIsRecent)
  OBVIOUS
<1>1. News!Init => NewsInv
  BY NewsInvInit
<1>2. NewsInv /\ [News!Next]_News!vars => NewsInv'
  BY NewsStep
<1>3. NewsInv => News!NewsTypeOK /\ News!ShownIsRecent
  BY DEF NewsInv, News!NewsTypeOK, Good, BreakerOK
<1> QED BY <1>1, <1>2, <1>3, PTL DEF News!Spec

-----------------------------------------------------------------------------
\* With one pipeline its lock holds one thread between the check and the put, so that
\* the cache still is what the check saw.
OneNewsPipeline == \A p, q \in Pipelines : p = q
StoreHolds ==
    /\ pc \in [News!Threads -> {"idle", "fresh", "query"} \union Held]
    /\ \A t \in News!Threads : pc[t] = "put" =>
          /\ News!Stores(t)
          /\ \A u \in News!Threads \ {t} : pc[u] # "put"

LEMMA StoreHoldsInit == News!Init => StoreHolds
  BY DEF News!Init, StoreHolds

LEMMA StoreHoldsStep == OneNewsPipeline /\ StoreHolds /\ [News!Next]_News!vars => StoreHolds'
<1> SUFFICES ASSUME OneNewsPipeline, StoreHolds, [News!Next]_News!vars PROVE StoreHolds'
  OBVIOUS
<1>1. CASE UNCHANGED <<pc, latest, got>>
  BY <1>1 DEF StoreHolds, News!Stores
<1>2. ASSUME NEW t \in News!Threads, NEW place \in {"idle", "fresh", "query", "store", "done"}, News!Goto(t, place),
             UNCHANGED latest, \A u \in News!Threads \ {t} : got'[u] = got[u]
      PROVE  StoreHolds'
  <2>1. pc' \in [News!Threads -> {"idle", "fresh", "query"} \union Held] /\ pc'[t] = place
        /\ \A u \in News!Threads \ {t} : pc'[u] = pc[u]
    BY <1>2 DEF StoreHolds, News!Goto, Held
  <2> QED BY <1>2, <2>1 DEF StoreHolds, News!Stores
<1>3. ASSUME NEW t \in News!Threads, \E e : News!Show(t, e), UNCHANGED latest PROVE StoreHolds'
  <2>1. News!Goto(t, "idle") /\ got' = [got EXCEPT ![t] = None]
    BY <1>3 DEF News!Show
  <2> QED BY <2>1, <1>2, <1>3
<1>4. ASSUME NEW t \in News!Threads, News!Check(t) PROVE StoreHolds'
  <2>1. CASE News!Stores(t)
    <3>1. pc' = [pc EXCEPT ![t] = "put"] /\ UNCHANGED <<latest, got>> /\ \A u \in News!Threads : pc[u] # "put"
      BY <1>4, <2>1, PipelineOf DEF News!Check, News!Goto, News!LockFree, OneNewsPipeline
    <3> QED BY <3>1, <2>1 DEF StoreHolds, News!Stores, Held
  <2>2. CASE ~News!Stores(t)
    BY <1>2, <1>4, <2>2 DEF News!Check
  <2> QED BY <2>1, <2>2
<1>5. ASSUME NEW t \in News!Threads, News!Put(t) PROVE StoreHolds'
  <2>1. pc' = [pc EXCEPT ![t] = "done"] /\ pc[t] = "put"
    BY <1>5 DEF News!Put, News!Goto
  <2> QED BY <2>1 DEF StoreHolds, Held
<1>6. ASSUME NEW t \in News!Threads,
             \/ News!Begin(t) \/ News!Serve(t) \/ News!Ask(t) \/ News!Rest(t) \/ News!Query(t)
             \/ News!Collected(t) \/ News!Failed(t) \/ News!Check(t) \/ News!Put(t) \/ News!Done(t)
      PROVE  StoreHolds'
  <2>1. CASE News!Begin(t)
    BY <2>1, <1>2 DEF News!Begin
  <2>2. CASE News!Ask(t)
    BY <2>2, <1>2 DEF News!Ask
  <2>3. CASE News!Query(t)
    BY <2>3, <1>1 DEF News!Query
  <2>4. CASE News!Collected(t)
    <3>1. \A u \in News!Threads \ {t} : got'[u] = got[u]
      BY <2>4 DEF News!Collected
    <3> QED BY <3>1, <2>4, <1>2 DEF News!Collected
  <2>5. CASE News!Serve(t) \/ News!Rest(t) \/ News!Failed(t) \/ News!Done(t)
    BY <2>5, <1>3 DEF News!Serve, News!Rest, News!Failed, News!Done
  <2> QED BY <1>6, <2>1, <2>2, <2>3, <2>4, <2>5, <1>4, <1>5
<1>7. CASE News!Tick
  BY <1>7, <1>1 DEF News!Tick, News!call
<1> QED BY <1>1, <1>6, <1>7 DEF News!Next, News!vars, News!call

\* Once complete news are cached, only complete ones replace them (_store_cache), for any
\* number of threads of one pipeline and wherever a statement fails.
THEOREM CompleteNewsStay == OneNewsPipeline /\ News!Spec => [][News!CompleteStays]_News!vars
<1> SUFFICES ASSUME OneNewsPipeline PROVE News!Spec => [][News!CompleteStays]_News!vars
  OBVIOUS
<1>1. News!Init => StoreHolds
  BY StoreHoldsInit
<1>2. StoreHolds /\ [News!Next]_News!vars => StoreHolds'
  BY StoreHoldsStep
<1>3. StoreHolds /\ [News!Next]_News!vars => [News!CompleteStays]_News!vars
  <2> SUFFICES ASSUME StoreHolds, News!Next PROVE News!CompleteStays
    BY DEF News!vars
  <2>1. CASE UNCHANGED latest
    BY <2>1 DEF News!CompleteStays
  <2>2. ASSUME NEW t \in News!Threads, News!Put(t) PROVE News!CompleteStays
    BY <2>2 DEF News!Put, StoreHolds, News!Stores, News!CompleteStays
  <2> QED BY <2>1, <2>2 DEF News!Next, News!Tick, News!Begin, News!Serve, News!Ask, News!Rest, News!Query, News!Collected, News!Failed, News!Check, News!Done
<1> QED BY <1>1, <1>2, <1>3, PTL DEF News!Spec

-----------------------------------------------------------------------------
(* KnowledgeBase.  A document is added as a whole or not at all (WholeText),  *)
(* for its chunks are known by its text; a collection has one more identity  *)
(* than commands have deleted it (MadeFits).                                 *)

CONSTANTS Commands, Names, Files, Texts, Symbols, Inside, Dates, TopK
VARIABLES disk, chunks, made, gone, handle, installed, provider, cmd, found, cut

Base == INSTANCE KnowledgeBase

\* How the instance counts.
LEMMA BaseCounts == \A S : Base!Cardinality(S) = Cardinality(S)
  BY Zenon DEF Base!Cardinality, Cardinality

Labels == [symbols : SUBSET Symbols, date : Dates]
\* The commands end, the lists of collections and documents are not empty, texts have
\* numbers of pieces; the null value is no word of a command.
KnowledgeConstants ==
    /\ IsFiniteSet(Commands) /\ "web" \notin Commands
    /\ Names \in Seq(Base!Collections) /\ Names # <<>> /\ Files \in Seq(Base!FileSet) /\ Files # <<>>
    /\ \A t \in Texts : t.sections \in Nat /\ t.paragraphs \in Nat
    /\ 0 \in Dates

Words == {"model", "keyword"}
NewPlaces == {"load", "check", "add"}
CleanPlaces == {"read", "delete"}
CmdFits(r) ==
    /\ DOMAIN r = DOMAIN Base!Idle
    /\ r.pc \in {"new", "drop", "make", "done"} \union NewPlaces \union CleanPlaces
    /\ r.pc \in NewPlaces => /\ r.kind = "ingest" /\ r.name \in Base!Collections /\ r.label \in Labels
                             /\ r.todo \in Seq(Base!FileSet) /\ r.todo # <<>>
    /\ r.pc \in {"check", "add"} => r.text \in Texts
    /\ r.pc \in {"drop", "make"} => r.kind = "source" /\ r.name \in Base!Collections
    /\ r.pc \in CleanPlaces => /\ r.kind \in {"symbol", "before"}
                               /\ r.todo \in Seq(Base!Collections) /\ r.todo # <<>>

\* No collection was made anew more often than a command has deleted it.
Droppers == {p \in Commands : cmd[p].pc # "new" /\ cmd[p].kind = "source" /\ cmd[p].pc # "drop"}
MadeFits == \A c \in Base!Collections : made[c] + (IF c \in gone THEN 1 ELSE 0) <= Cardinality(Droppers) + 1

ChunksFit ==
    /\ DOMAIN chunks = Base!Collections
    /\ \A c \in Base!Collections : /\ chunks[c] \subseteq Base!Chunk /\ IsFiniteSet(chunks[c])
                                   /\ \A k, l \in chunks[c] : Base!Id(k) = Base!Id(l) => k = l
                                   /\ c \in gone => chunks[c] = {}
OfText(c, t) == {k \in chunks[c] : k.text = t}
WholeText(c, t) ==
    OfText(c, t) # {} =>
        /\ \A i \in 1 .. Base!Pieces(c, t) : \E k \in OfText(c, t) : k.place = i
        /\ \A k \in OfText(c, t) : k.place \in 1 .. Base!Pieces(c, t)
        /\ \A k, l \in OfText(c, t) : k.label = l.label /\ k.vector = l.vector

HandlesFit ==
    /\ made \in [Base!Collections -> Nat \ {0}] /\ gone \subseteq Base!Collections
    /\ handle \in [Base!Engines -> [Base!Collections -> Nat \ {0}]]
    /\ \A e \in Base!Engines, c \in Base!Collections : handle[e][c] <= made[c]

KnowledgeInv ==
    /\ disk \in [Base!FileSet -> Texts] /\ installed \in BOOLEAN /\ provider \in [Base!Engines -> Words]
    /\ found \subseteq Base!Chunk /\ cut \subseteq Texts
    /\ DOMAIN cmd = Commands /\ \A p \in Commands : CmdFits(cmd[p])
    /\ HandlesFit /\ MadeFits /\ ChunksFit
    /\ \A c \in Base!Collections, t \in Texts \ cut : WholeText(c, t)

-----------------------------------------------------------------------------
LEMMA IdsTell == \A k, l : Base!Id(k) = Base!Id(l) <=> k.text = l.text /\ k.place = l.place
  BY DEF Base!Id

LEMMA PiecesFit == KnowledgeConstants => \A c : \A t \in Texts : Base!Pieces(c, t) \in Nat
<1> SUFFICES ASSUME KnowledgeConstants, NEW c, NEW t \in Texts PROVE Base!Pieces(c, t) \in Nat
  OBVIOUS
<1>1. t.sections \in Nat /\ t.paragraphs \in Nat
  BY DEF KnowledgeConstants
<1>2. (t.paragraphs + 2) \div 3 \in Nat
  BY <1>1
<1> QED BY <1>1, <1>2 DEF Base!Pieces, Base!ByHeading, Base!ByCluster, Base!BySection

LEMMA DroppersCount ==
    ASSUME KnowledgeConstants
    PROVE  /\ Cardinality(Droppers) \in Nat /\ Cardinality(Droppers) <= Cardinality(Commands)
           /\ IsFiniteSet(Droppers)
  BY FS_Subset, FS_CardinalityType DEF KnowledgeConstants, Droppers

LEMMA KnowledgeInit == KnowledgeConstants /\ Base!Init => KnowledgeInv
<1> SUFFICES ASSUME KnowledgeConstants, Base!Init PROVE KnowledgeInv
  OBVIOUS
<1>1. /\ disk \in [Base!FileSet -> Texts] /\ installed \in BOOLEAN /\ provider \in [Base!Engines -> Words]
      /\ found \subseteq Base!Chunk /\ cut \subseteq Texts
  BY DEF Base!Init, Base!Embedding, Words
<1>2. DOMAIN cmd = Commands /\ \A p \in Commands : cmd[p] = Base!Idle
  BY DEF Base!Init
<1>3. CmdFits(Base!Idle)
  BY DEF CmdFits, Base!Idle, NewPlaces, CleanPlaces
<1>4. HandlesFit
  BY DEF HandlesFit, Base!Init
<1>5. ChunksFit
  BY FS_EmptySet DEF ChunksFit, Base!Init
<1>6. MadeFits
  BY DroppersCount DEF MadeFits, Base!Init
<1>7. \A c \in Base!Collections, t \in Texts \ cut : WholeText(c, t)
  BY DEF WholeText, OfText, Base!Init
<1> QED BY <1>1, <1>2, <1>3, <1>4, <1>5, <1>6, <1>7 DEF KnowledgeInv

-----------------------------------------------------------------------------
\* A step of one command; what it stands at decides what the others see of it.
LEMMA CmdMoves ==
    ASSUME KnowledgeInv, NEW p \in Commands, NEW r, Base!Go(p, r), CmdFits(r)
    PROVE  DOMAIN cmd' = Commands /\ cmd'[p] = r /\ \A q \in Commands : CmdFits(cmd'[q])
  BY DEF Base!Go, KnowledgeInv

LEMMA CmdsFit == \A q \in Commands : CmdFits(cmd'[q]) <=> CmdFits(cmd[q])'
  BY DEF CmdFits, Base!Idle, NewPlaces, CleanPlaces, Labels, Base!Collections, Base!FileSet

LEMMA DroppersStay ==
    ASSUME KnowledgeConstants, KnowledgeInv, NEW p \in Commands, NEW r, Base!Go(p, r),
           p \in Droppers => r.pc \notin {"new", "drop"} /\ r.kind = "source"
    PROVE  Cardinality(Droppers)' >= Cardinality(Droppers)
<1>1. Droppers \subseteq Droppers'
  BY DEF Droppers, Base!Go, KnowledgeInv
<1>2. IsFiniteSet(Droppers')
  BY FS_Subset DEF KnowledgeConstants, Droppers
<1> QED BY <1>1, <1>2, FS_Subset

\* The collections and the chunks stay; a command goes on.
LEMMA WalkKeeps ==
    ASSUME KnowledgeConstants, KnowledgeInv, NEW p \in Commands, NEW r, Base!Go(p, r), CmdFits(r),
           p \in Droppers => r.pc \notin {"new", "drop"} /\ r.kind = "source",
           UNCHANGED <<disk, Base!base, handle, installed, provider, cut>>, found' = {}
    PROVE  KnowledgeInv'
<1>1. UNCHANGED <<disk, chunks, made, gone, handle, installed, provider, cut>>
  BY DEF Base!base
<1>2. DOMAIN cmd' = Commands /\ \A q \in Commands : CmdFits(cmd[q])'
  BY CmdMoves, CmdsFit
<1>3. MadeFits'
  <2>1. Cardinality(Droppers)' >= Cardinality(Droppers) /\ Cardinality(Droppers) \in Nat /\ Cardinality(Droppers)' \in Nat
    <3>1. IsFiniteSet(Droppers')
      BY FS_Subset DEF KnowledgeConstants, Droppers
    <3> QED BY <3>1, DroppersStay, DroppersCount, FS_CardinalityType
  <2>2. \A c \in Base!Collections : made[c] \in Nat
    BY DEF KnowledgeInv, HandlesFit
  <2> QED BY <1>1, <2>1, <2>2 DEF MadeFits, KnowledgeInv
<1>4. HandlesFit' /\ ChunksFit' /\ \A c \in Base!Collections, t \in Texts \ cut' : WholeText(c, t)'
  BY <1>1 DEF KnowledgeInv, HandlesFit, ChunksFit, WholeText, OfText, Base!Id, Base!Chunk
<1>5. \A c \in Base!Collections, t \in (Texts \ cut)' : WholeText(c, t)'
  BY <1>4
<1> QED BY <1>1, <1>2, <1>3, <1>4, <1>5 DEF KnowledgeInv, Base!Chunk

\* What is gone is made again, under a new identity.
Remade == [c \in Base!Collections |-> IF c \in gone THEN made[c] + 1 ELSE made[c]]
LEMMA RemakeFits ==
    ASSUME KnowledgeInv, made' = Remade, gone' = {}
    PROVE  /\ made' \in [Base!Collections -> Nat \ {0}]
           /\ \A c \in Base!Collections : made'[c] = made[c] + (IF c \in gone THEN 1 ELSE 0) /\ made[c] <= made'[c]
  BY DEF KnowledgeInv, HandlesFit, Remade

LEMMA OpenKeeps ==
    ASSUME KnowledgeConstants, KnowledgeInv, NEW p \in Commands, Base!Open(p), NEW r, Base!Go(p, r), CmdFits(r),
           cmd[p].pc = "new", UNCHANGED <<disk, chunks, installed, cut>>, found' = {}
    PROVE  KnowledgeInv'
<1>1. made' = Remade /\ gone' = {} /\ handle' = [handle EXCEPT ![p] = made'] /\ provider' = [provider EXCEPT ![p] = Base!Embedding]
  BY DEF Base!Open, Remade
<1>2. DOMAIN cmd' = Commands /\ \A q \in Commands : CmdFits(cmd[q])'
  BY CmdMoves, CmdsFit
<1>3. /\ made' \in [Base!Collections -> Nat \ {0}]
      /\ \A c \in Base!Collections : made'[c] = made[c] + (IF c \in gone THEN 1 ELSE 0) /\ made[c] <= made'[c]
  BY <1>1, RemakeFits
<1>4. HandlesFit'
  <2>1. \A e \in Base!Engines, c \in Base!Collections : handle'[e][c] = (IF e = p THEN made'[c] ELSE handle[e][c])
    BY <1>1 DEF KnowledgeInv, HandlesFit
  <2>2. handle' \in [Base!Engines -> [Base!Collections -> Nat \ {0}]]
    BY <1>1, <1>3 DEF KnowledgeInv, HandlesFit
  <2>3. ASSUME NEW e \in Base!Engines, NEW c \in Base!Collections PROVE handle'[e][c] <= made'[c]
    <3>1. handle[e][c] \in Nat /\ handle[e][c] <= made[c] /\ made[c] \in Nat /\ made'[c] \in Nat
      BY <1>3 DEF KnowledgeInv, HandlesFit
    <3> QED BY <1>3, <2>1, <3>1
  <2> QED BY <1>1, <1>3, <2>2, <2>3 DEF HandlesFit, Base!Engines, Base!Collections
<1>5. MadeFits'
  <2>1. p \notin Droppers
    BY DEF Droppers
  <2>2. Cardinality(Droppers)' >= Cardinality(Droppers) /\ Cardinality(Droppers) \in Nat /\ Cardinality(Droppers)' \in Nat
    <3>1. IsFiniteSet(Droppers')
      BY FS_Subset DEF KnowledgeConstants, Droppers
    <3> QED BY <2>1, <3>1, DroppersStay, DroppersCount, FS_CardinalityType
  <2>3. ASSUME NEW c \in Base!Collections PROVE made'[c] <= Cardinality(Droppers)' + 1 /\ c \notin gone'
    <3>1. made[c] \in Nat /\ made[c] + (IF c \in gone THEN 1 ELSE 0) <= Cardinality(Droppers) + 1
      BY DEF KnowledgeInv, HandlesFit, MadeFits
    <3> QED BY <1>1, <1>3, <2>2, <3>1
  <2>4. \A c \in Base!Collections : made'[c] \in Nat
    BY <1>3
  <2> QED BY <2>2, <2>3, <2>4 DEF MadeFits, Base!Collections
<1>6. ChunksFit' /\ \A c \in Base!Collections, t \in Texts \ cut' : WholeText(c, t)'
  BY <1>1 DEF KnowledgeInv, ChunksFit, WholeText, OfText, Base!Id, Base!Chunk
<1>7. provider' \in [Base!Engines -> Words]
  BY <1>1 DEF KnowledgeInv, Base!Embedding, Words
<1> QED BY <1>2, <1>4, <1>5, <1>6, <1>7 DEF KnowledgeInv, Base!Chunk

LEMMA IngestKeeps ==
    ASSUME KnowledgeConstants, KnowledgeInv, NEW p \in Commands, Base!Ingest(p), found' = {}
    PROVE  KnowledgeInv'
<1>1. PICK name \in Base!Collections, label \in Labels, todo \in Seq(Base!FileSet) \ {<<>>} :
        Base!Go(p, [Base!Idle EXCEPT !.pc = "load", !.kind = "ingest", !.name = name, !.todo = todo, !.label = label])
  <2>1. PICK name \in Base!Collections, symbols \in SUBSET Symbols, date \in Dates :
          \/ \E f \in Base!FileSet :
                Base!Go(p, [Base!Idle EXCEPT !.pc = "load", !.kind = "ingest", !.name = name, !.todo = <<f>>,
                                   !.label = [symbols |-> symbols, date |-> date]])
          \/ /\ symbols = {} /\ date = 0
             /\ Base!Go(p, [Base!Idle EXCEPT !.pc = "load", !.kind = "ingest", !.name = name, !.todo = Files,
                                   !.label = Base!NoLabel])
    BY DEF Base!Ingest
  <2>2. [symbols |-> symbols, date |-> date] \in Labels /\ Base!NoLabel \in Labels
    BY DEF Labels, Base!NoLabel, KnowledgeConstants
  <2>3. \A f \in Base!FileSet : <<f>> \in Seq(Base!FileSet) \ {<<>>}
    OBVIOUS
  <2>4. Files \in Seq(Base!FileSet) \ {<<>>}
    BY DEF KnowledgeConstants
  <2>5. CASE \E f \in Base!FileSet :
                Base!Go(p, [Base!Idle EXCEPT !.pc = "load", !.kind = "ingest", !.name = name, !.todo = <<f>>,
                                   !.label = [symbols |-> symbols, date |-> date]])
    BY <2>2, <2>3, <2>5
  <2>6. CASE Base!Go(p, [Base!Idle EXCEPT !.pc = "load", !.kind = "ingest", !.name = name, !.todo = Files, !.label = Base!NoLabel])
    BY <2>2, <2>4, <2>6
  <2> QED BY <2>1, <2>5, <2>6
<1>2. PICK r : r = [Base!Idle EXCEPT !.pc = "load", !.kind = "ingest", !.name = name, !.todo = todo, !.label = label]
  OBVIOUS
<1>3. /\ DOMAIN r = DOMAIN Base!Idle /\ r.pc = "load" /\ r.kind = "ingest" /\ r.name = name /\ r.todo = todo /\ r.label = label
  BY <1>2 DEF Base!Idle
<1>4. CmdFits(r)
  BY <1>3 DEF CmdFits, NewPlaces, CleanPlaces
<1>5. Base!Go(p, r)
  BY <1>1, <1>2
<1> QED BY <1>4, <1>5, OpenKeeps DEF Base!Ingest, Base!At

\* What is left of a list is a list.
LEMMA RestFits ==
    ASSUME NEW S, NEW todo \in Seq(S), todo # <<>>
    PROVE  /\ Head(todo) \in S /\ Tail(todo) \in Seq(S) /\ (Len(todo) # 1 => Tail(todo) # <<>>)
<1>1. Len(todo) \in Nat /\ Len(todo) # 0
  OBVIOUS
<1>2. Head(todo) \in S /\ Tail(todo) \in Seq(S)
  OBVIOUS
<1>3. Len(Tail(todo)) = Len(todo) - 1
  BY <1>1
<1>4. Len(todo) # 1 => Len(Tail(todo)) # 0
  BY <1>1, <1>3
<1>5. Tail(todo) = <<>> => Len(Tail(todo)) = 0
  <2> SUFFICES ASSUME NEW t, t = <<>> PROVE Len(t) = 0
    OBVIOUS
  <2> QED OBVIOUS
<1> QED BY <1>2, <1>4, <1>5

LEMMA NextFits ==
    ASSUME NEW r, CmdFits(r), r.pc \in NewPlaces, NEW n, n = Base!Next1(r)
    PROVE  CmdFits(n) /\ n.pc \in {"done", "load"} /\ n.kind = "ingest"
<1>1. PICK at \in {"done", "load"} : at = IF Len(r.todo) = 1 THEN "done" ELSE "load"
  OBVIOUS
<1>2. PICK todo : todo = Tail(r.todo)
  OBVIOUS
<1>3. n = [r EXCEPT !.pc = at, !.todo = todo]
  BY <1>1, <1>2 DEF Base!Next1
<1>4. DOMAIN n = DOMAIN Base!Idle /\ n.pc = at /\ n.todo = todo /\ n.kind = r.kind /\ n.name = r.name /\ n.label = r.label
  BY <1>3 DEF CmdFits, Base!Idle
<1>5. at = "load" => todo \in Seq(Base!FileSet) /\ todo # <<>>
  BY <1>1, <1>2, RestFits DEF CmdFits
<1> QED BY <1>4, <1>5 DEF CmdFits, NewPlaces, CleanPlaces

LEMMA LoadKeeps ==
    ASSUME KnowledgeConstants, KnowledgeInv, NEW p \in Commands, Base!Load(p), found' = {}
    PROVE  KnowledgeInv'
<1>1. PICK r : r = cmd[p]
  OBVIOUS
<1>2. CmdFits(r) /\ r.pc = "load" /\ p \notin Droppers
  BY <1>1 DEF Base!Load, Base!At, KnowledgeInv, CmdFits, Droppers, NewPlaces
<1>3. CASE Base!Go(p, [r EXCEPT !.pc = "check", !.text = disk[Head(r.todo)]])
  <2>1. Head(r.todo) \in Base!FileSet
    BY <1>2, RestFits DEF CmdFits, NewPlaces
  <2>2. PICK text \in Texts : text = disk[Head(r.todo)]
    BY <2>1 DEF KnowledgeInv
  <2>3. PICK n : n = [r EXCEPT !.pc = "check", !.text = text]
    OBVIOUS
  <2>4. /\ DOMAIN n = DOMAIN Base!Idle /\ n.pc = "check" /\ n.text = text /\ n.todo = r.todo /\ n.kind = r.kind
        /\ n.name = r.name /\ n.label = r.label
    BY <1>2, <2>3 DEF CmdFits, Base!Idle
  <2>5. CmdFits(n)
    BY <1>2, <2>4 DEF CmdFits, NewPlaces, CleanPlaces
  <2> QED BY <1>2, <1>3, <2>2, <2>3, <2>5, WalkKeeps DEF Base!Load
<1>4. CASE Base!Go(p, [Base!Next1(r) EXCEPT !.out = "error"])
  <2>1. PICK x : x = Base!Next1(r)
    OBVIOUS
  <2>2. CmdFits(x) /\ x.pc \in {"done", "load"}
    BY <1>2, <2>1, NextFits DEF NewPlaces
  <2>3. PICK n : n = [x EXCEPT !.out = "error"]
    OBVIOUS
  <2>4. /\ DOMAIN n = DOMAIN Base!Idle /\ n.pc = x.pc /\ n.text = x.text /\ n.todo = x.todo /\ n.kind = x.kind
        /\ n.name = x.name /\ n.label = x.label
    BY <2>2, <2>3 DEF CmdFits, Base!Idle
  <2>5. CmdFits(n)
    BY <2>2, <2>4 DEF CmdFits, NewPlaces, CleanPlaces
  <2> QED BY <1>2, <1>4, <2>1, <2>3, <2>5, WalkKeeps DEF Base!Load
<1> QED BY <1>1, <1>3, <1>4 DEF Base!Load

LEMMA CheckKeeps ==
    ASSUME KnowledgeConstants, KnowledgeInv, NEW p \in Commands, Base!Check(p), found' = {}
    PROVE  KnowledgeInv'
<1>1. PICK r : r = cmd[p]
  OBVIOUS
<1>2. CmdFits(r) /\ r.pc = "check" /\ p \notin Droppers
  BY <1>1 DEF Base!Check, Base!At, KnowledgeInv, CmdFits, Droppers, NewPlaces
<1>3. CASE Base!Go(p, Base!Next1(r))
  <2>1. PICK n : n = Base!Next1(r)
    OBVIOUS
  <2>2. CmdFits(n)
    BY <1>2, <2>1, NextFits DEF NewPlaces
  <2> QED BY <1>2, <1>3, <2>1, <2>2, WalkKeeps DEF Base!Check
<1>4. CASE Base!Go(p, [r EXCEPT !.pc = "add"])
  <2>1. PICK n : n = [r EXCEPT !.pc = "add"]
    OBVIOUS
  <2>2. /\ DOMAIN n = DOMAIN Base!Idle /\ n.pc = "add" /\ n.text = r.text /\ n.todo = r.todo /\ n.kind = r.kind
        /\ n.name = r.name /\ n.label = r.label
    BY <1>2, <2>1 DEF CmdFits, Base!Idle
  <2>3. CmdFits(n)
    BY <1>2, <2>2 DEF CmdFits, NewPlaces, CleanPlaces
  <2> QED BY <1>2, <1>4, <2>1, <2>3, WalkKeeps DEF Base!Check
<1> QED BY <1>1, <1>3, <1>4 DEF Base!Check

-----------------------------------------------------------------------------
LEMMA MadeStays ==
    ASSUME KnowledgeConstants, KnowledgeInv, NEW p \in Commands, NEW r, Base!Go(p, r),
           p \in Droppers => r.pc \notin {"new", "drop"} /\ r.kind = "source", UNCHANGED <<made, gone>>
    PROVE  MadeFits'
<1>1. Cardinality(Droppers)' >= Cardinality(Droppers) /\ Cardinality(Droppers) \in Nat /\ Cardinality(Droppers)' \in Nat
  <2>1. IsFiniteSet(Droppers')
    BY FS_Subset DEF KnowledgeConstants, Droppers
  <2> QED BY <2>1, DroppersStay, DroppersCount, FS_CardinalityType
<1>2. \A c \in Base!Collections : made[c] \in Nat
  BY DEF KnowledgeInv, HandlesFit
<1> QED BY <1>1, <1>2 DEF MadeFits, KnowledgeInv

\* A command that ends, wherever it stands.
LEMMA EndFits ==
    ASSUME KnowledgeInv, NEW p \in Commands, cmd[p].pc # "new", NEW out, Base!End(p, out)
    PROVE  \E r : /\ Base!Go(p, r) /\ CmdFits(r) /\ r.pc = "done" /\ r.kind = cmd[p].kind
                  /\ (p \in Droppers => r.kind = "source")
<1>1. PICK s : s = cmd[p]
  OBVIOUS
<1>2. PICK r : r = [s EXCEPT !.pc = "done", !.todo = <<>>, !.ids = {}, !.out = out]
  OBVIOUS
<1>3. CmdFits(s)
  BY <1>1 DEF KnowledgeInv
<1>4. DOMAIN r = DOMAIN Base!Idle /\ r.pc = "done" /\ r.kind = s.kind
  BY <1>2, <1>3 DEF CmdFits, Base!Idle
<1>5. CmdFits(r)
  BY <1>4 DEF CmdFits, NewPlaces, CleanPlaces
<1>6. Base!Go(p, r)
  BY <1>1, <1>2 DEF Base!End
<1>7. p \in Droppers => r.kind = "source"
  BY <1>1, <1>4 DEF Droppers
<1> QED BY <1>1, <1>4, <1>5, <1>6, <1>7

LEMMA EndKeeps ==
    ASSUME KnowledgeConstants, KnowledgeInv, NEW p \in Commands, cmd[p].pc # "new", NEW out, Base!End(p, out),
           UNCHANGED <<disk, Base!base, handle, installed, provider, cut>>, found' = {}
    PROVE  KnowledgeInv'
<1>1. PICK r : /\ Base!Go(p, r) /\ CmdFits(r) /\ r.pc = "done" /\ (p \in Droppers => r.kind = "source")
  BY EndFits
<1> QED BY <1>1, WalkKeeps

\* What a command makes of one collection.
WholeIn(c, S, t) ==
    LET of == {k \in S : k.text = t} IN
    of # {} => /\ \A i \in 1 .. Base!Pieces(c, t) : \E k \in of : k.place = i
               /\ \A k \in of : k.place \in 1 .. Base!Pieces(c, t)
               /\ \A k, l \in of : k.label = l.label /\ k.vector = l.vector
ChunksKept(c, after) ==
    /\ chunks' = [chunks EXCEPT ![c] = after] /\ after \subseteq Base!Chunk /\ IsFiniteSet(after)
    /\ \A k, l \in after : Base!Id(k) = Base!Id(l) => k = l
    /\ gone \subseteq gone' /\ gone' \subseteq gone \union {c} /\ (c \in gone' => after = {})
    /\ cut \subseteq cut' /\ cut' \subseteq Texts
    /\ \A t \in Texts \ cut' : WholeIn(c, after, t)

LEMMA WholeTells == \A c, t : WholeText(c, t) <=> WholeIn(c, chunks[c], t)
  BY DEF WholeText, WholeIn, OfText

LEMMA ChunksStep ==
    ASSUME KnowledgeConstants, KnowledgeInv, NEW p \in Commands, NEW r, Base!Go(p, r), CmdFits(r), MadeFits',
           UNCHANGED <<disk, made, handle, installed, provider>>, found' = {},
           NEW c \in Base!Collections, NEW after, ChunksKept(c, after)
    PROVE  KnowledgeInv'
<1>1. DOMAIN cmd' = Commands /\ \A q \in Commands : CmdFits(cmd[q])'
  BY CmdMoves, CmdsFit
<1>2. /\ DOMAIN chunks' = Base!Collections /\ \A d \in Base!Collections : chunks'[d] = IF d = c THEN after ELSE chunks[d]
  BY DEF ChunksKept, KnowledgeInv, ChunksFit
<1>3. ChunksFit'
  <2>1. ASSUME NEW d \in Base!Collections
        PROVE  /\ chunks'[d] \subseteq Base!Chunk /\ IsFiniteSet(chunks'[d])
               /\ \A k, l \in chunks'[d] : Base!Id(k) = Base!Id(l) => k = l
               /\ d \in gone' => chunks'[d] = {}
    <3>1. CASE d = c
      BY <1>2, <3>1 DEF ChunksKept
    <3>2. CASE d # c
      BY <1>2, <3>2 DEF ChunksKept, KnowledgeInv, ChunksFit
    <3> QED BY <3>1, <3>2
  <2> QED BY <1>2, <2>1 DEF ChunksFit, Base!Chunk, Base!Id, Base!Collections
<1>4. ASSUME NEW d \in Base!Collections, NEW t \in Texts \ cut' PROVE WholeText(d, t)'
  <2>1. PICK S : S = chunks'[d]
    OBVIOUS
  <2>2. WholeIn(d, S, t)
    <3>1. CASE d = c
      BY <1>2, <2>1, <3>1 DEF ChunksKept
    <3>2. CASE d # c
      <4>1. t \in Texts \ cut
        BY DEF ChunksKept
      <4>2. WholeText(d, t)
        BY <4>1 DEF KnowledgeInv
      <4> QED BY <1>2, <2>1, <3>2, <4>2, WholeTells
    <3> QED BY <3>1, <3>2
  <2> QED BY <2>1, <2>2 DEF WholeText, WholeIn, OfText
<1>5. HandlesFit' /\ cut' \subseteq Texts
  BY DEF KnowledgeInv, HandlesFit, ChunksKept
<1>6. /\ disk' \in [Base!FileSet -> Texts] /\ installed' \in BOOLEAN /\ provider' \in [Base!Engines -> Words]
      /\ found' \subseteq Base!Chunk
  BY DEF KnowledgeInv
<1>7. \A d \in Base!Collections, t \in (Texts \ cut)' : WholeText(d, t)'
  BY <1>4
<1> QED BY <1>1, <1>3, <1>5, <1>6, <1>7 DEF KnowledgeInv, Base!Chunk

-----------------------------------------------------------------------------
\* What a chunk of a document is, and that a document has finitely many of them.
DocumentOf(new, c, text, label, vector) ==
    /\ new \subseteq Base!Chunk /\ IsFiniteSet(new)
    /\ \A k \in new : /\ k.text = text /\ k.label = label /\ k.vector = vector
                      /\ k.place \in 1 .. Base!Pieces(c, text)
    /\ \A i \in 1 .. Base!Pieces(c, text) : \E k \in new : k.place = i
    /\ \A k, l \in new : Base!Id(k) = Base!Id(l) => k = l
LEMMA DocumentFits ==
    ASSUME KnowledgeConstants, NEW c, NEW text \in Texts, NEW label \in Labels, NEW by, provider[by] \in Words,
           NEW new, new = Base!Document(c, text, label, by)
    PROVE  DocumentOf(new, c, text, label, provider[by])
<1>1. PICK n \in Nat : n = Base!Pieces(c, text)
  BY PiecesFit
<1>2. new = {[text |-> text, place |-> i, label |-> label, vector |-> provider[by]] : i \in 1 .. n}
  BY <1>1 DEF Base!Document
<1>3. \A i \in 1 .. n : i \in Nat
  OBVIOUS
<1>4. \A i \in 1 .. n : [text |-> text, place |-> i, label |-> label, vector |-> provider[by]] \in Base!Chunk
  BY <1>3 DEF Base!Chunk, Words, Labels
<1>5. new \subseteq Base!Chunk
  BY <1>2, <1>4
<1>6. IsFiniteSet(new)
  <2>1. PICK f : f = [i \in 1 .. n |-> [text |-> text, place |-> i, label |-> label, vector |-> provider[by]]]
    OBVIOUS
  <2>2. IsFiniteSet(1 .. n)
    BY FS_Interval
  <2>3. f \in Surjection(1 .. n, new)
    BY <1>2, <2>1 DEF Surjection
  <2> QED BY <2>2, <2>3, FS_Surjection
<1>7. ASSUME NEW k \in new
      PROVE  k.text = text /\ k.label = label /\ k.vector = provider[by] /\ k.place \in 1 .. n
  BY <1>2
<1>8. \A i \in 1 .. n : \E k \in new : k.place = i
  <2> SUFFICES ASSUME NEW i \in 1 .. n PROVE \E k \in new : k.place = i
    OBVIOUS
  <2>1. PICK k : k = [text |-> text, place |-> i, label |-> label, vector |-> provider[by]]
    OBVIOUS
  <2>2. k \in new /\ k.place = i
    BY <1>2, <2>1
  <2> QED BY <2>2
<1>9. ASSUME NEW k \in new, NEW l \in new, Base!Id(k) = Base!Id(l) PROVE k = l
  BY <1>2, <1>9, IdsTell
<1> QED BY <1>1, <1>5, <1>6, <1>7, <1>8, <1>9 DEF DocumentOf

\* A text that is there whole keeps out all of a document with it; of a text that is
\* not there, everything is added.
LEMMA AllOrNothing ==
    ASSUME KnowledgeConstants, KnowledgeInv, NEW c \in Base!Collections, NEW text \in Texts, NEW new,
           NEW label, NEW vector,
           \A k \in new : /\ k.text = text /\ k.label = label /\ k.vector = vector
                          /\ k.place \in 1 .. Base!Pieces(c, text),
           \A i \in 1 .. Base!Pieces(c, text) : \E k \in new : k.place = i,
           NEW after, after = Base!Added(c, new), WholeText(c, text)
    PROVE  WholeIn(c, after, text)
<1>1. PICK of : of = {k \in after : k.text = text}
  OBVIOUS
<1>2. after = chunks[c] \union {k \in new : Base!Id(k) \notin {Base!Id(l) : l \in chunks[c]}}
  BY DEF Base!Added, Base!Ids
<1>3. CASE OfText(c, text) # {}
  <2>1. ASSUME NEW k \in new PROVE Base!Id(k) \in {Base!Id(l) : l \in chunks[c]}
    <3>1. k.place \in 1 .. Base!Pieces(c, text) /\ k.text = text
      OBVIOUS
    <3>2. PICK l \in OfText(c, text) : l.place = k.place
      BY <1>3, <3>1 DEF WholeText
    <3>3. l \in chunks[c] /\ Base!Id(l) = Base!Id(k)
      BY <3>1, <3>2, IdsTell DEF OfText
    <3> QED BY <3>3
  <2>2. after = chunks[c]
    BY <1>2, <2>1
  <2>3. of = OfText(c, text)
    BY <1>1, <2>2 DEF OfText
  <2> QED BY <1>1, <2>3 DEF WholeText, WholeIn
<1>4. CASE OfText(c, text) = {}
  <2>1. ASSUME NEW k \in new PROVE Base!Id(k) \notin {Base!Id(l) : l \in chunks[c]}
    <3> SUFFICES ASSUME NEW l \in chunks[c], Base!Id(k) = Base!Id(l) PROVE FALSE
      OBVIOUS
    <3>1. l.text = text
      BY IdsTell
    <3> QED BY <1>4, <3>1 DEF OfText
  <2>2. of = new
    <3>1. \A k \in chunks[c] : k.text # text
      BY <1>4 DEF OfText
    <3> QED BY <1>1, <1>2, <2>1, <3>1
  <2> QED BY <1>1, <2>2 DEF WholeIn
<1> QED BY <1>3, <1>4

LEMMA AddKeeps ==
    ASSUME KnowledgeConstants, KnowledgeInv, NEW p \in Commands, Base!Add(p), found' = {}
    PROVE  KnowledgeInv'
<1>1. PICK r : r = cmd[p]
  OBVIOUS
<1>2. CmdFits(r) /\ r.pc = "add" /\ p \notin Droppers
  BY <1>1 DEF Base!Add, Base!At, KnowledgeInv, CmdFits, Droppers, NewPlaces
<1>3. CASE UNCHANGED chunks /\ Base!End(p, "raised")
  <2>1. UNCHANGED <<disk, Base!base, handle, installed, provider, cut>>
    BY <1>3 DEF Base!Add, Base!base
  <2>2. cmd[p].pc # "new"
    BY <1>1, <1>2
  <2> QED BY <1>3, <2>1, <2>2, EndKeeps
<1>4. CASE /\ Base!Alive(p, r.name)
           /\ chunks' = [chunks EXCEPT ![r.name] = Base!Added(r.name, Base!Document(r.name, r.text, r.label, p))]
           /\ Base!Go(p, Base!Next1(r))
  <2>1. PICK c \in Base!Collections, text \in Texts, label \in Labels : c = r.name /\ text = r.text /\ label = r.label
    BY <1>2 DEF CmdFits, NewPlaces
  <2>2. PICK new : new = Base!Document(c, text, label, p)
    OBVIOUS
  <2>3. provider[p] \in Words /\ c \notin gone
    BY <1>4, <2>1 DEF KnowledgeInv, Base!Engines, Base!Alive
  <2>4. /\ new \subseteq Base!Chunk /\ IsFiniteSet(new)
        /\ \A k \in new : /\ k.text = text /\ k.label = label /\ k.vector = provider[p]
                          /\ k.place \in 1 .. Base!Pieces(c, text)
        /\ \A i \in 1 .. Base!Pieces(c, text) : \E k \in new : k.place = i
        /\ \A k, l \in new : Base!Id(k) = Base!Id(l) => k = l
    <3>1. DocumentOf(new, c, text, label, provider[p])
      BY <2>2, <2>3, DocumentFits
    <3> QED BY <3>1 DEF DocumentOf
  <2>5. PICK after : after = Base!Added(c, new)
    OBVIOUS
  <2>6. /\ chunks' = [chunks EXCEPT ![c] = after]
        /\ UNCHANGED <<disk, made, gone, handle, installed, provider, cut>>
    <3>1. UNCHANGED <<disk, made, gone, handle, installed, provider, cut>>
      BY DEF Base!Add
    <3> QED BY <1>4, <2>1, <2>2, <2>5, <3>1
  <2>7. after = chunks[c] \union {k \in new : Base!Id(k) \notin {Base!Id(l) : l \in chunks[c]}}
    BY <2>5 DEF Base!Added, Base!Ids
  <2>8. PICK n : n = Base!Next1(r)
    OBVIOUS
  <2>9. CmdFits(n)
    BY <1>2, <2>8, NextFits DEF NewPlaces
  <2>10. Base!Go(p, n)
    BY <1>4, <2>8
  <2>11. /\ after \subseteq Base!Chunk /\ IsFiniteSet(after)
         /\ \A k, l \in after : Base!Id(k) = Base!Id(l) => k = l
    <3>1. /\ chunks[c] \subseteq Base!Chunk /\ IsFiniteSet(chunks[c])
          /\ \A k, l \in chunks[c] : Base!Id(k) = Base!Id(l) => k = l
      BY DEF KnowledgeInv, ChunksFit
    <3>2. PICK more : more = {k \in new : Base!Id(k) \notin {Base!Id(l) : l \in chunks[c]}}
      OBVIOUS
    <3>3. more \subseteq new /\ after = chunks[c] \union more
      BY <2>7, <3>2
    <3>4. IsFiniteSet(more)
      BY <2>4, <3>3, FS_Subset
    <3>5. IsFiniteSet(after)
      BY <3>1, <3>3, <3>4, FS_Union
    <3>6. \A k \in more, l \in chunks[c] : Base!Id(k) # Base!Id(l)
      BY <3>2
    <3>7. \A k, l \in after : Base!Id(k) = Base!Id(l) => k = l
      BY <2>4, <3>1, <3>3, <3>6
    <3> QED BY <2>4, <3>1, <3>3, <3>5, <3>7
  <2>12. ChunksKept(c, after)
    <3>1. ASSUME NEW t \in Texts \ cut PROVE WholeIn(c, after, t)
      <4>1. WholeText(c, t)
        BY DEF KnowledgeInv
      <4>2. CASE t = text
        BY <2>4, <2>5, <4>1, <4>2, AllOrNothing
      <4>3. CASE t # text
        <5>1. {k \in after : k.text = t} = OfText(c, t)
          BY <2>4, <2>7, <4>3 DEF OfText
        <5> QED BY <4>1, <5>1 DEF WholeIn, WholeText
      <4> QED BY <4>2, <4>3
    <3>2. gone' = gone /\ cut' = cut /\ cut \subseteq Texts
      BY <2>6 DEF KnowledgeInv
    <3> QED BY <2>3, <2>6, <2>11, <3>1, <3>2 DEF ChunksKept
  <2>13. MadeFits'
    BY <1>2, <2>6, <2>10, MadeStays
  <2> QED BY <1>2, <2>6, <2>9, <2>10, <2>12, <2>13, ChunksStep
<1> QED BY <1>1, <1>3, <1>4 DEF Base!Add

-----------------------------------------------------------------------------
LEMMA CleanSourceKeeps ==
    ASSUME KnowledgeConstants, KnowledgeInv, NEW p \in Commands, Base!CleanSource(p), found' = {}
    PROVE  KnowledgeInv'
<1>1. PICK name \in Base!Collections : Base!Go(p, [Base!Idle EXCEPT !.pc = "drop", !.kind = "source", !.name = name])
  BY DEF Base!CleanSource
<1>2. PICK r : r = [Base!Idle EXCEPT !.pc = "drop", !.kind = "source", !.name = name]
  OBVIOUS
<1>3. DOMAIN r = DOMAIN Base!Idle /\ r.pc = "drop" /\ r.kind = "source" /\ r.name = name
  BY <1>2 DEF Base!Idle
<1>4. CmdFits(r)
  BY <1>3 DEF CmdFits, NewPlaces, CleanPlaces
<1>5. Base!Go(p, r)
  BY <1>1, <1>2
<1>6. Base!Open(p) /\ cmd[p].pc = "new" /\ UNCHANGED <<disk, chunks, installed, cut>>
  BY DEF Base!CleanSource, Base!At
<1> QED BY <1>4, <1>5, <1>6, OpenKeeps

LEMMA CleanKeeps ==
    ASSUME KnowledgeConstants, KnowledgeInv, NEW p \in Commands, Base!Clean(p), found' = {}
    PROVE  KnowledgeInv'
<1>1. Base!Open(p) /\ cmd[p].pc = "new" /\ UNCHANGED <<disk, chunks, installed, cut>>
  BY DEF Base!Clean, Base!At
<1>2. ASSUME NEW kind \in {"symbol", "before"}, NEW label,
             Base!Go(p, [Base!Idle EXCEPT !.pc = "read", !.kind = kind, !.label = label, !.todo = Names])
      PROVE  KnowledgeInv'
  <2>1. PICK r : r = [Base!Idle EXCEPT !.pc = "read", !.kind = kind, !.label = label, !.todo = Names]
    OBVIOUS
  <2>2. DOMAIN r = DOMAIN Base!Idle /\ r.pc = "read" /\ r.kind = kind /\ r.todo = Names
    BY <2>1 DEF Base!Idle
  <2>3. CmdFits(r)
    BY <2>2 DEF CmdFits, NewPlaces, CleanPlaces, KnowledgeConstants
  <2>4. Base!Go(p, r)
    BY <1>2, <2>1
  <2> QED BY <1>1, <2>3, <2>4, OpenKeeps
<1>3. CASE \E s \in Symbols : Base!Go(p, [Base!Idle EXCEPT !.pc = "read", !.kind = "symbol", !.label = s, !.todo = Names])
  BY <1>2, <1>3
<1>4. CASE \E d \in Dates \ {0} : Base!Go(p, [Base!Idle EXCEPT !.pc = "read", !.kind = "before", !.label = d, !.todo = Names])
  BY <1>2, <1>4
<1> QED BY <1>3, <1>4 DEF Base!Clean

\* A command that deletes a collection counts from here on.
LEMMA DropCounts ==
    ASSUME KnowledgeConstants, KnowledgeInv, NEW p \in Commands, cmd[p].pc = "drop", NEW r, Base!Go(p, r),
           r.pc \notin {"new", "drop"}, r.kind = "source"
    PROVE  /\ Cardinality(Droppers)' = Cardinality(Droppers) + 1
           /\ Cardinality(Droppers) \in Nat /\ Cardinality(Droppers)' \in Nat
<1>1. p \notin Droppers /\ IsFiniteSet(Droppers)
  BY DroppersCount DEF Droppers
<1>2. Droppers' = Droppers \union {p}
  BY DEF Droppers, Base!Go, KnowledgeInv
<1>3. Cardinality(Droppers \union {p}) = Cardinality(Droppers) + 1
  BY <1>1, FS_AddElement
<1> QED BY <1>2, <1>3, DroppersCount

LEMMA DropKeeps ==
    ASSUME KnowledgeConstants, KnowledgeInv, NEW p \in Commands, Base!Drop(p), found' = {}
    PROVE  KnowledgeInv'
<1>1. PICK s : s = cmd[p]
  OBVIOUS
<1>2. CmdFits(s) /\ s.pc = "drop" /\ s.kind = "source" /\ s.name \in Base!Collections
  BY <1>1 DEF Base!Drop, Base!At, KnowledgeInv, CmdFits
<1>3. CASE Base!End(p, "error") /\ UNCHANGED <<chunks, gone>>
  <2>1. UNCHANGED <<disk, Base!base, handle, installed, provider, cut>>
    BY <1>3 DEF Base!Drop, Base!base
  <2>2. cmd[p].pc # "new"
    BY <1>1, <1>2
  <2> QED BY <1>3, <2>1, <2>2, EndKeeps
<1>4. CASE /\ s.name \notin gone
           /\ chunks' = [chunks EXCEPT ![s.name] = {}] /\ gone' = gone \union {s.name}
           /\ Base!Go(p, [s EXCEPT !.pc = "make"])
  <2>1. PICK c \in Base!Collections : c = s.name
    BY <1>2
  <2>2. PICK r : r = [s EXCEPT !.pc = "make"]
    OBVIOUS
  <2>3. DOMAIN r = DOMAIN Base!Idle /\ r.pc = "make" /\ r.kind = "source" /\ r.name = c
    BY <1>2, <2>1, <2>2 DEF CmdFits, Base!Idle
  <2>4. CmdFits(r)
    BY <2>3 DEF CmdFits, NewPlaces, CleanPlaces
  <2>5. Base!Go(p, r)
    BY <1>4, <2>2
  <2>6. UNCHANGED <<disk, made, handle, installed, provider, cut>>
    BY DEF Base!Drop
  <2>7. MadeFits'
    <3>1. /\ Cardinality(Droppers)' = Cardinality(Droppers) + 1
          /\ Cardinality(Droppers) \in Nat /\ Cardinality(Droppers)' \in Nat
      BY <1>1, <1>2, <2>3, <2>5, DropCounts
    <3>2. ASSUME NEW d \in Base!Collections PROVE made[d] + (IF d \in gone' THEN 1 ELSE 0) <= Cardinality(Droppers)' + 1
      <4>1. made[d] \in Nat /\ made[d] + (IF d \in gone THEN 1 ELSE 0) <= Cardinality(Droppers) + 1
        BY DEF KnowledgeInv, HandlesFit, MadeFits
      <4> QED BY <3>1, <4>1
    <3> QED BY <2>6, <3>2 DEF MadeFits, Base!Collections
  <2>8. ChunksKept(c, {})
    <3>1. \A t : WholeIn(c, {}, t)
      BY DEF WholeIn
    <3>2. IsFiniteSet({}) /\ cut \subseteq Texts
      BY FS_EmptySet DEF KnowledgeInv
    <3> QED BY <1>4, <2>1, <2>6, <3>1, <3>2 DEF ChunksKept
  <2> QED BY <2>4, <2>5, <2>6, <2>7, <2>8, ChunksStep
<1> QED BY <1>1, <1>3, <1>4 DEF Base!Drop

LEMMA MakeKeeps ==
    ASSUME KnowledgeConstants, KnowledgeInv, NEW p \in Commands, Base!Make(p), found' = {}
    PROVE  KnowledgeInv'
<1>1. PICK c \in Base!Collections : c = cmd[p].name /\ cmd[p].kind = "source" /\ cmd[p].pc = "make"
  BY DEF Base!Make, Base!At, KnowledgeInv, CmdFits
<1>2. /\ made' = [made EXCEPT ![c] = IF c \in gone THEN made[c] + 1 ELSE made[c]] /\ gone' = gone \ {c}
      /\ handle' = [handle EXCEPT ![p] = [handle[p] EXCEPT ![c] = made'[c]]]
      /\ Base!End(p, None) /\ UNCHANGED <<disk, chunks, installed, provider, cut>>
  BY <1>1 DEF Base!Make
<1>3. PICK r : Base!Go(p, r) /\ CmdFits(r) /\ r.pc = "done" /\ r.kind = cmd[p].kind
  BY <1>1, <1>2, EndFits
<1>4. DOMAIN cmd' = Commands /\ \A q \in Commands : CmdFits(cmd[q])'
  BY <1>3, CmdMoves, CmdsFit
<1>5. /\ DOMAIN made' = Base!Collections
      /\ \A d \in Base!Collections : made'[d] = IF d = c /\ c \in gone THEN made[d] + 1 ELSE made[d]
  BY <1>2 DEF KnowledgeInv, HandlesFit
<1>6. made' \in [Base!Collections -> Nat \ {0}]
  <2>1. \A d \in Base!Collections : made'[d] \in Nat \ {0}
    BY <1>5 DEF KnowledgeInv, HandlesFit
  <2>2. made' = [d \in Base!Collections |-> made'[d]]
    BY <1>2, <1>5 DEF KnowledgeInv, HandlesFit
  <2> QED BY <2>1, <2>2
<1>7. HandlesFit'
  <2>1. \A e \in Base!Engines, d \in Base!Collections : handle'[e][d] = IF e = p /\ d = c THEN made'[d] ELSE handle[e][d]
    BY <1>2 DEF KnowledgeInv, HandlesFit
  <2>2. handle' \in [Base!Engines -> [Base!Collections -> Nat \ {0}]]
    <3>1. PICK handles : handles = [handle[p] EXCEPT ![c] = made'[c]]
      OBVIOUS
    <3>2. p \in Base!Engines /\ handle[p] \in [Base!Collections -> Nat \ {0}] /\ made'[c] \in Nat \ {0}
      BY <1>6 DEF Base!Engines, KnowledgeInv, HandlesFit
    <3>3. handles \in [Base!Collections -> Nat \ {0}]
      BY <3>1, <3>2
    <3> QED BY <1>2, <3>1, <3>2, <3>3 DEF KnowledgeInv, HandlesFit
  <2>3. ASSUME NEW e \in Base!Engines, NEW d \in Base!Collections PROVE handle'[e][d] <= made'[d]
    <3>1. handle[e][d] \in Nat /\ handle[e][d] <= made[d] /\ made[d] \in Nat /\ made'[d] \in Nat
      BY <1>6 DEF KnowledgeInv, HandlesFit
    <3> QED BY <1>5, <2>1, <3>1
  <2>4. gone' \subseteq Base!Collections
    BY <1>2 DEF KnowledgeInv, HandlesFit
  <2> QED BY <1>6, <2>2, <2>3, <2>4 DEF HandlesFit, Base!Engines, Base!Collections
<1>8. MadeFits'
  <2>1. Cardinality(Droppers)' >= Cardinality(Droppers) /\ Cardinality(Droppers) \in Nat /\ Cardinality(Droppers)' \in Nat
    <3>1. IsFiniteSet(Droppers')
      BY FS_Subset DEF KnowledgeConstants, Droppers
    <3> QED BY <1>1, <1>3, <3>1, DroppersStay, DroppersCount, FS_CardinalityType
  <2>2. ASSUME NEW d \in Base!Collections PROVE made'[d] + (IF d \in gone' THEN 1 ELSE 0) <= Cardinality(Droppers)' + 1
    <3>1. made[d] \in Nat /\ made[d] + (IF d \in gone THEN 1 ELSE 0) <= Cardinality(Droppers) + 1
      BY DEF KnowledgeInv, HandlesFit, MadeFits
    <3> QED BY <1>2, <1>5, <2>1, <3>1
  <2> QED BY <2>2 DEF MadeFits, Base!Collections
<1>9. ChunksFit' /\ \A d \in Base!Collections, t \in Texts \ cut : WholeText(d, t)'
  BY <1>2 DEF KnowledgeInv, ChunksFit, WholeText, OfText, Base!Id, Base!Chunk
<1>10. \A d \in Base!Collections, t \in (Texts \ cut)' : WholeText(d, t)'
  BY <1>2, <1>9
<1> QED BY <1>2, <1>4, <1>7, <1>8, <1>9, <1>10 DEF KnowledgeInv, Base!Chunk

-----------------------------------------------------------------------------
LEMMA NextNameFits ==
    ASSUME NEW r, CmdFits(r), r.pc \in CleanPlaces, NEW n, n = Base!NextName(r)
    PROVE  CmdFits(n) /\ n.pc \in {"done", "read"} /\ n.kind = r.kind
<1>1. PICK at \in {"done", "read"} : at = IF Len(r.todo) = 1 THEN "done" ELSE "read"
  OBVIOUS
<1>2. PICK todo : todo = Tail(r.todo)
  OBVIOUS
<1>3. n = [r EXCEPT !.pc = at, !.todo = todo, !.ids = {}]
  BY <1>1, <1>2 DEF Base!NextName
<1>4. DOMAIN n = DOMAIN Base!Idle /\ n.pc = at /\ n.todo = todo /\ n.kind = r.kind
  BY <1>3 DEF CmdFits, Base!Idle
<1>5. at = "read" => todo \in Seq(Base!Collections) /\ todo # <<>>
  BY <1>1, <1>2, RestFits DEF CmdFits
<1> QED BY <1>4, <1>5 DEF CmdFits, NewPlaces, CleanPlaces

LEMMA ReadChunksKeeps ==
    ASSUME KnowledgeConstants, KnowledgeInv, NEW p \in Commands, Base!ReadChunks(p), found' = {}
    PROVE  KnowledgeInv'
<1>1. PICK r : r = cmd[p]
  OBVIOUS
<1>2. CmdFits(r) /\ r.pc = "read" /\ p \notin Droppers
  BY <1>1 DEF Base!ReadChunks, Base!At, KnowledgeInv, CmdFits, Droppers, CleanPlaces
<1>3. CASE Base!Go(p, Base!NextName(r))
  <2>1. PICK n : n = Base!NextName(r)
    OBVIOUS
  <2>2. CmdFits(n)
    BY <1>2, <2>1, NextNameFits DEF CleanPlaces
  <2> QED BY <1>2, <1>3, <2>1, <2>2, WalkKeeps DEF Base!ReadChunks
<1>4. ASSUME NEW ids, Base!Go(p, [r EXCEPT !.pc = "delete", !.ids = ids]) PROVE KnowledgeInv'
  <2>1. PICK n : n = [r EXCEPT !.pc = "delete", !.ids = ids]
    OBVIOUS
  <2>2. /\ DOMAIN n = DOMAIN Base!Idle /\ n.pc = "delete" /\ n.todo = r.todo /\ n.kind = r.kind
    BY <1>2, <2>1 DEF CmdFits, Base!Idle
  <2>3. CmdFits(n)
    BY <1>2, <2>2 DEF CmdFits, NewPlaces, CleanPlaces
  <2> QED BY <1>2, <1>4, <2>1, <2>3, WalkKeeps DEF Base!ReadChunks
<1> QED BY <1>1, <1>3, <1>4 DEF Base!ReadChunks

LEMMA DeleteChunkKeeps ==
    ASSUME KnowledgeConstants, KnowledgeInv, NEW p \in Commands, Base!DeleteChunk(p), found' = {}
    PROVE  KnowledgeInv'
<1>1. PICK r : r = cmd[p]
  OBVIOUS
<1>2. CmdFits(r) /\ r.pc = "delete" /\ p \notin Droppers
  BY <1>1 DEF Base!DeleteChunk, Base!At, KnowledgeInv, CmdFits, Droppers, CleanPlaces
<1>3. PICK c \in Base!Collections : c = Head(r.todo)
  BY <1>2, RestFits DEF CmdFits, CleanPlaces
<1>4. UNCHANGED <<disk, made, gone, handle, installed, provider>>
  BY DEF Base!DeleteChunk
<1>5. PICK next : next = Base!NextName(r)
  OBVIOUS
<1>6. CmdFits(next)
  BY <1>2, <1>5, NextNameFits DEF CleanPlaces
<1>7. CASE Base!Go(p, Base!NextName(r)) /\ UNCHANGED <<chunks, cut>>
  <2>1. UNCHANGED <<disk, Base!base, handle, installed, provider, cut>>
    BY <1>4, <1>7 DEF Base!base
  <2> QED BY <1>2, <1>5, <1>6, <1>7, <2>1, WalkKeeps
<1>8. ASSUME NEW id \in r.ids, Base!Alive(p, c),
             chunks' = [chunks EXCEPT ![c] = {k \in @ : Base!Id(k) # id}],
             cut' = cut \union {k.text : k \in {k \in chunks[c] : Base!Id(k) = id}},
             Base!Go(p, IF r.ids = {id} THEN Base!NextName(r) ELSE [r EXCEPT !.ids = @ \ {id}])
      PROVE  KnowledgeInv'
  <2>1. PICK n : n = IF r.ids = {id} THEN Base!NextName(r) ELSE [r EXCEPT !.ids = @ \ {id}]
    OBVIOUS
  <2>2. CmdFits(n)
    <3>1. CASE r.ids = {id}
      BY <1>5, <1>6, <2>1, <3>1
    <3>2. CASE r.ids # {id}
      <4>1. PICK ids : ids = r.ids \ {id}
        OBVIOUS
      <4>2. n = [r EXCEPT !.ids = ids]
        BY <2>1, <3>2, <4>1
      <4>3. DOMAIN n = DOMAIN Base!Idle /\ n.pc = "delete" /\ n.todo = r.todo /\ n.kind = r.kind
        BY <1>2, <4>2 DEF CmdFits, Base!Idle
      <4> QED BY <1>2, <4>3 DEF CmdFits, NewPlaces, CleanPlaces
    <3> QED BY <3>1, <3>2
  <2>3. PICK after : after = {k \in chunks[c] : Base!Id(k) # id}
    OBVIOUS
  <2>4. chunks' = [chunks EXCEPT ![c] = after]
    BY <1>8, <2>3
  <2>5. /\ after \subseteq Base!Chunk /\ IsFiniteSet(after) /\ \A k, l \in after : Base!Id(k) = Base!Id(l) => k = l
    <3>1. /\ chunks[c] \subseteq Base!Chunk /\ IsFiniteSet(chunks[c])
          /\ \A k, l \in chunks[c] : Base!Id(k) = Base!Id(l) => k = l
      BY DEF KnowledgeInv, ChunksFit
    <3>2. after \subseteq chunks[c]
      BY <2>3
    <3> QED BY <3>1, <3>2, FS_Subset
  <2>6. cut \subseteq cut' /\ cut' \subseteq Texts
    <3>1. \A k \in chunks[c] : k.text \in Texts
      BY DEF KnowledgeInv, ChunksFit, Base!Chunk
    <3> QED BY <1>8, <3>1 DEF KnowledgeInv
  <2>7. ASSUME NEW t \in Texts \ cut' PROVE WholeIn(c, after, t)
    <3>1. \A k \in chunks[c] : k.text = t => k \in after
      BY <1>8, <2>3
    <3>2. {k \in after : k.text = t} = OfText(c, t)
      BY <2>3, <3>1 DEF OfText
    <3>3. WholeText(c, t)
      BY <2>6 DEF KnowledgeInv
    <3> QED BY <3>2, <3>3 DEF WholeText, WholeIn
  <2>8. c \notin gone
    BY <1>8 DEF Base!Alive
  <2>9. ChunksKept(c, after)
    BY <1>4, <2>4, <2>5, <2>6, <2>7, <2>8 DEF ChunksKept
  <2>10. Base!Go(p, n)
    BY <1>8, <2>1
  <2>11. MadeFits'
    BY <1>2, <1>4, <2>10, MadeStays
  <2> QED BY <1>4, <2>2, <2>9, <2>10, <2>11, ChunksStep
<1> QED BY <1>1, <1>3, <1>7, <1>8 DEF Base!DeleteChunk

LEMMA KillKeeps ==
    ASSUME KnowledgeConstants, KnowledgeInv, NEW p \in Commands, Base!Kill(p), found' = {}
    PROVE  KnowledgeInv'
<1>1. /\ cmd[p].pc # "new" /\ Base!End(p, "killed") /\ UNCHANGED <<disk, Base!base, handle, installed, provider, cut>>
  BY DEF Base!Kill
<1> QED BY <1>1, EndKeeps

-----------------------------------------------------------------------------
\* Nothing moves but what was found.
LEMMA WorldStays ==
    ASSUME KnowledgeInv, UNCHANGED <<disk, chunks, made, gone, handle, installed, provider, cmd, cut>>,
           found' \subseteq Base!Chunk
    PROVE  KnowledgeInv'
<1>1. HandlesFit' /\ MadeFits'
  BY DEF KnowledgeInv, HandlesFit, MadeFits, Droppers, Base!Collections
<1>2. ChunksFit'
  BY DEF KnowledgeInv, ChunksFit, Base!Id, Base!Chunk, Base!Collections
<1>3. \A q \in Commands : CmdFits(cmd[q])'
  BY DEF KnowledgeInv, CmdFits, Base!Idle, Labels, Base!Collections, Base!FileSet
<1>4. \A c \in Base!Collections, t \in (Texts \ cut)' : WholeText(c, t)'
  BY DEF KnowledgeInv, WholeText, OfText, Base!Collections
<1>5. /\ disk' \in [Base!FileSet -> Texts] /\ installed' \in BOOLEAN /\ provider' \in [Base!Engines -> Words]
      /\ cut' \subseteq Texts /\ DOMAIN cmd' = Commands
  BY DEF KnowledgeInv
<1> QED BY <1>1, <1>2, <1>3, <1>4, <1>5 DEF KnowledgeInv, Base!Chunk

LEMMA SearchKeeps == ASSUME KnowledgeInv, Base!Search PROVE KnowledgeInv'
<1>1. UNCHANGED <<disk, chunks, made, gone, handle, installed, provider, cmd, cut>>
  BY DEF Base!Search, Base!base
<1>2. PICK name \in Base!Collections, s \in Symbols \union {None} :
        LET fit == {k \in chunks[name] : s = None \/ Base!About(k, s)}
        IN found' \in IF ~Base!Alive("web", name) THEN {{}}
                      ELSE IF provider["web"] = "model" THEN Base!ByVector(fit) ELSE Base!ByWords(fit)
  BY DEF Base!Search
<1>3. PICK fit : fit = {k \in chunks[name] : s = None \/ Base!About(k, s)}
  OBVIOUS
<1>4. found' \subseteq fit
  BY <1>2, <1>3 DEF Base!ByVector, Base!ByWords
<1>5. fit \subseteq Base!Chunk
  BY <1>3 DEF KnowledgeInv, ChunksFit
<1> QED BY <1>1, <1>4, <1>5, WorldStays


\* The chunks and the commands stay; the collections may be made anew.
LEMMA WorldKeeps ==
    ASSUME KnowledgeInv, UNCHANGED <<chunks, cmd, cut>>, provider' \in [Base!Engines -> Words], installed' \in BOOLEAN,
           disk' \in [Base!FileSet -> Texts], found' = {}, HandlesFit', MadeFits', gone' \subseteq gone
    PROVE  KnowledgeInv'
<1>1. ChunksFit' /\ \A q \in Commands : CmdFits(cmd[q])'
  BY DEF KnowledgeInv, ChunksFit, Base!Id, CmdFits, Base!Idle, Labels, Base!Collections, Base!FileSet, Base!Chunk
<1>2. \A c \in Base!Collections, t \in (Texts \ cut)' : WholeText(c, t)'
  BY DEF KnowledgeInv, WholeText, OfText, Base!Id
<1> QED BY <1>1, <1>2 DEF KnowledgeInv, Base!Chunk

LEMMA ReloadKeeps == ASSUME KnowledgeConstants, KnowledgeInv, Base!Reload, found' = {} PROVE KnowledgeInv'
<1>1. /\ made' = Remade /\ gone' = {} /\ handle' = [handle EXCEPT !["web"] = made']
      /\ UNCHANGED <<disk, chunks, installed, provider, cmd, cut>>
  BY DEF Base!Reload, Remade
<1>2. /\ made' \in [Base!Collections -> Nat \ {0}]
      /\ \A c \in Base!Collections : made'[c] = made[c] + (IF c \in gone THEN 1 ELSE 0) /\ made[c] <= made'[c]
  BY <1>1, RemakeFits
<1>3. HandlesFit'
  <2>1. \A e \in Base!Engines, c \in Base!Collections : handle'[e][c] = (IF e = "web" THEN made'[c] ELSE handle[e][c])
    BY <1>1 DEF KnowledgeInv, HandlesFit
  <2>2. handle' \in [Base!Engines -> [Base!Collections -> Nat \ {0}]]
    BY <1>1, <1>2 DEF KnowledgeInv, HandlesFit
  <2>3. ASSUME NEW e \in Base!Engines, NEW c \in Base!Collections PROVE handle'[e][c] <= made'[c]
    <3>1. handle[e][c] \in Nat /\ handle[e][c] <= made[c] /\ made[c] \in Nat /\ made'[c] \in Nat
      BY <1>2 DEF KnowledgeInv, HandlesFit
    <3> QED BY <1>2, <2>1, <3>1
  <2> QED BY <1>1, <1>2, <2>2, <2>3 DEF HandlesFit, Base!Engines, Base!Collections
<1>4. MadeFits'
  <2>1. Droppers' = Droppers /\ Cardinality(Droppers) \in Nat
    BY <1>1, DroppersCount DEF Droppers
  <2>2. ASSUME NEW c \in Base!Collections PROVE made'[c] <= Cardinality(Droppers) + 1 /\ c \notin gone' /\ made'[c] \in Nat
    <3>1. made[c] \in Nat /\ made[c] + (IF c \in gone THEN 1 ELSE 0) <= Cardinality(Droppers) + 1
      BY DEF KnowledgeInv, HandlesFit, MadeFits
    <3> QED BY <1>1, <1>2, <2>1, <3>1
  <2> QED BY <2>1, <2>2 DEF MadeFits, Base!Collections
<1>5. /\ provider' \in [Base!Engines -> Words] /\ installed' \in BOOLEAN /\ disk' \in [Base!FileSet -> Texts]
      /\ UNCHANGED <<chunks, cmd, cut>> /\ gone' \subseteq gone
  BY <1>1 DEF KnowledgeInv
<1> QED BY <1>3, <1>4, <1>5, WorldKeeps

LEMMA EditKeeps == ASSUME KnowledgeInv, Base!Edit \/ Base!Install, found' = {} PROVE KnowledgeInv'
<1>1. UNCHANGED <<chunks, made, gone, handle, provider, cmd, cut>>
  BY DEF Base!Edit, Base!Install, Base!base
<1>2. /\ provider' \in [Base!Engines -> Words] /\ installed' \in BOOLEAN /\ disk' \in [Base!FileSet -> Texts]
  BY DEF KnowledgeInv, Base!Edit, Base!Install
<1>3. HandlesFit' /\ MadeFits'
  BY <1>1 DEF KnowledgeInv, HandlesFit, MadeFits, Droppers
<1> QED BY <1>1, <1>2, <1>3, WorldKeeps

LEMMA KnowledgeStep == ASSUME KnowledgeConstants, KnowledgeInv, [Base!Next]_Base!kbvars PROVE KnowledgeInv'
<1>1. ASSUME NEW p \in Commands, Base!Step(p), found' = {} PROVE KnowledgeInv'
  BY <1>1, IngestKeeps, LoadKeeps, CheckKeeps, AddKeeps, CleanSourceKeeps, DropKeeps, MakeKeeps, CleanKeeps,
     ReadChunksKeeps, DeleteChunkKeeps, KillKeeps DEF Base!Step
<1>2. CASE UNCHANGED Base!kbvars
  <2>1. UNCHANGED <<disk, chunks, made, gone, handle, installed, provider, cmd, cut, found>>
    BY <1>2 DEF Base!kbvars
  <2>2. found \subseteq Base!Chunk
    BY DEF KnowledgeInv
  <2> QED BY <2>1, <2>2, WorldStays
<1> QED BY <1>1, <1>2, SearchKeeps, ReloadKeeps, EditKeeps DEF Base!Next

-----------------------------------------------------------------------------
LEMMA OneOfAKind ==
    ASSUME NEW S, \A x, y \in S : x = y, S # {}
    PROVE  Cardinality(S) = 1
<1>1. PICK x : x \in S
  OBVIOUS
<1>2. S = {x}
  BY <1>1
<1> QED BY <1>2, FS_Singleton

LEMMA KnowledgeSays == ASSUME KnowledgeConstants, KnowledgeInv PROVE Base!KBTypeOK /\ Base!KBSafe
<1>1. ASSUME NEW c \in Base!Collections
      PROVE  chunks[c] \subseteq Base!Chunk /\ made[c] \in 1 .. Cardinality(Commands) + 1 /\ (c \in gone => chunks[c] = {})
  <2>1. Cardinality(Droppers) \in Nat /\ Cardinality(Droppers) <= Cardinality(Commands) /\ Cardinality(Commands) \in Nat
    BY DroppersCount, FS_CardinalityType DEF KnowledgeConstants
  <2>2. made[c] \in Nat \ {0} /\ made[c] + (IF c \in gone THEN 1 ELSE 0) <= Cardinality(Droppers) + 1
    BY DEF KnowledgeInv, HandlesFit, MadeFits
  <2>3. made[c] \in 1 .. Cardinality(Commands) + 1
    BY <2>1, <2>2
  <2> QED BY <2>3 DEF KnowledgeInv, ChunksFit
<1>2. \A e \in Base!Engines, c \in Base!Collections : handle[e][c] \in 1 .. made[c]
  <2> SUFFICES ASSUME NEW e \in Base!Engines, NEW c \in Base!Collections PROVE handle[e][c] \in 1 .. made[c]
    OBVIOUS
  <2>1. handle[e][c] \in Nat \ {0} /\ handle[e][c] <= made[c] /\ made[c] \in Nat
    BY DEF KnowledgeInv, HandlesFit
  <2> QED BY <2>1
<1>3. \A p \in Commands : cmd[p].pc \in {"new", "load", "check", "add", "drop", "make", "read", "delete", "done"}
  BY DEF KnowledgeInv, CmdFits, NewPlaces, CleanPlaces
<1>4. Base!KBTypeOK
  BY <1>1, <1>2, <1>3, BaseCounts DEF Base!KBTypeOK, KnowledgeInv
<1>5. Base!StoredWhole
  <2> SUFFICES ASSUME NEW c \in Base!Collections, NEW t \in Texts \ cut, {k \in chunks[c] : k.text = t} # {}
               PROVE  /\ {k.place : k \in {k \in chunks[c] : k.text = t}} = 1 .. Base!Pieces(c, t)
                      /\ Base!Cardinality({<<k.label, k.vector>> : k \in {k \in chunks[c] : k.text = t}}) = 1
    BY Zenon DEF Base!StoredWhole
  <2>1. PICK of : of = {k \in chunks[c] : k.text = t}
    OBVIOUS
  <2>2. of # {} /\ of = OfText(c, t) /\ WholeText(c, t)
    BY <2>1 DEF KnowledgeInv, OfText
  <2>3. /\ \A i \in 1 .. Base!Pieces(c, t) : \E k \in of : k.place = i
        /\ \A k \in of : k.place \in 1 .. Base!Pieces(c, t)
        /\ \A k, l \in of : k.label = l.label /\ k.vector = l.vector
    BY <2>2 DEF WholeText
  <2>4. {k.place : k \in of} = 1 .. Base!Pieces(c, t)
    BY <2>3
  <2>5. Base!Cardinality({<<k.label, k.vector>> : k \in of}) = 1
    <3>1. PICK kinds : kinds = {<<k.label, k.vector>> : k \in of}
      OBVIOUS
    <3>2. ASSUME NEW x \in kinds, NEW y \in kinds PROVE x = y
      <4>1. PICK k \in of : x = <<k.label, k.vector>>
        BY <3>1
      <4>2. PICK l \in of : y = <<l.label, l.vector>>
        BY <3>1
      <4> QED BY <2>3, <4>1, <4>2
    <3>3. kinds # {}
      <4>1. PICK k : k \in of
        BY <2>2
      <4> QED BY <3>1, <4>1
    <3>4. Cardinality(kinds) = 1
      BY <3>2, <3>3, OneOfAKind
    <3> QED BY <3>1, <3>4, BaseCounts
  <2> QED BY <2>1, <2>4, <2>5, Zenon
<1>6. Base!StoredOnce
  <2> SUFFICES ASSUME NEW c \in Base!Collections PROVE Cardinality(chunks[c]) = Cardinality(Base!Ids(c))
    BY BaseCounts DEF Base!StoredOnce
  <2>1. IsFiniteSet(chunks[c]) /\ \A k, l \in chunks[c] : Base!Id(k) = Base!Id(l) => k = l
    BY DEF KnowledgeInv, ChunksFit
  <2>2. PICK f : f = [k \in chunks[c] |-> Base!Id(k)]
    OBVIOUS
  <2>3. f \in [chunks[c] -> Base!Ids(c)]
    BY <2>2 DEF Base!Ids
  <2>4. \A t \in Base!Ids(c) : \E k \in chunks[c] : f[k] = t
    BY <2>2 DEF Base!Ids
  <2>5. \A k, l \in chunks[c] : f[k] = f[l] => k = l
    BY <2>1, <2>2
  <2>6. f \in Bijection(chunks[c], Base!Ids(c))
    BY <2>3, <2>4, <2>5 DEF Bijection, Injection, Surjection, IsInjective
  <2>7. ExistsBijection(chunks[c], Base!Ids(c))
    BY <2>6 DEF ExistsBijection
  <2> QED BY <2>1, <2>7, FS_Bijection
<1> QED BY <1>4, <1>5, <1>6 DEF Base!KBSafe

\* A document is in a collection as a whole and once, with the metadata of one ingest,
\* until a clean takes chunks of it, however many commands ingest, delete, rebuild or
\* are killed beside each other.
THEOREM KnowledgeIsSound == KnowledgeConstants /\ Base!Spec => [](Base!KBTypeOK /\ Base!KBSafe)
<1> SUFFICES ASSUME KnowledgeConstants PROVE Base!Spec => [](Base!KBTypeOK /\ Base!KBSafe)
  OBVIOUS
<1>1. Base!Init => KnowledgeInv
  BY KnowledgeInit
<1>2. KnowledgeInv /\ [Base!Next]_Base!kbvars => KnowledgeInv'
  BY KnowledgeStep
<1>3. KnowledgeInv => Base!KBTypeOK /\ Base!KBSafe
  BY KnowledgeSays
<1> QED BY <1>1, <1>2, <1>3, PTL DEF Base!Spec

-----------------------------------------------------------------------------
\* With two commands, what one is about to delete of a collection is what it chose
\* there: the other one either deletes too, or adds to a collection whose chunks are
\* all still there.
TwoCommands == \A p, q, r \in Commands : p = q \/ q = r \/ p = r
Stores(r) == r.pc = "new" \/ r.pc \in NewPlaces
ChoseOf(r, S) == \A k \in S : Base!Id(k) \in r.ids => Base!Chosen(r, k)
Has(S, ids) == \A id \in ids : \E k \in S : Base!Id(k) = id
Meant == \A p \in Commands : cmd[p].pc = "delete" =>
            /\ ChoseOf(cmd[p], chunks[Head(cmd[p].todo)])
            /\ \A q \in Commands \ {p} : Stores(cmd[q]) => Has(chunks[Head(cmd[p].todo)], cmd[p].ids)

\* A step of a command that adds nothing.
LEMMA MeantShrinks ==
    ASSUME KnowledgeInv, Meant, TwoCommands, NEW p \in Commands, NEW r, Base!Go(p, r), CmdFits(r),
           \A c \in Base!Collections : chunks'[c] \subseteq chunks[c],
           Stores(r) => Stores(cmd[p]) /\ chunks' = chunks,
           r.pc = "delete" =>
               /\ ChoseOf(r, chunks'[Head(r.todo)])
               /\ \A q \in Commands \ {p} : Stores(cmd[q]) => Has(chunks'[Head(r.todo)], r.ids)
    PROVE  Meant'
<1> SUFFICES ASSUME NEW o \in Commands, cmd'[o].pc = "delete"
             PROVE  /\ ChoseOf(cmd'[o], chunks'[Head(cmd'[o].todo)])
                    /\ \A q \in Commands \ {o} : Stores(cmd'[q]) => Has(chunks'[Head(cmd'[o].todo)], cmd'[o].ids)
  BY DEF Meant, ChoseOf, Has, Stores, Base!Chosen, Base!About, Base!Before, Base!Id
<1>1. \A q \in Commands : cmd'[q] = IF q = p THEN r ELSE cmd[q]
  BY DEF Base!Go, KnowledgeInv
<1>2. CASE o = p
  <2>1. cmd'[o] = r /\ \A q \in Commands \ {o} : cmd'[q] = cmd[q]
    BY <1>1, <1>2
  <2> QED BY <1>2, <2>1
<1>3. CASE o # p
  <2>1. cmd'[o] = cmd[o]
    BY <1>1, <1>3
  <2>2. PICK s : s = cmd[o]
    OBVIOUS
  <2>3. CmdFits(s) /\ s.pc = "delete"
    BY <2>1, <2>2 DEF KnowledgeInv
  <2>4. PICK c \in Base!Collections : c = Head(s.todo)
    BY <2>3, RestFits DEF CmdFits, CleanPlaces
  <2>5. ChoseOf(s, chunks[c]) /\ \A q \in Commands \ {o} : Stores(cmd[q]) => Has(chunks[c], s.ids)
    BY <2>1, <2>2, <2>4 DEF Meant
  <2>6. ChoseOf(s, chunks'[c])
    BY <2>5 DEF ChoseOf
  <2>7. ASSUME NEW q \in Commands \ {o}, Stores(cmd'[q]) PROVE Has(chunks'[c], s.ids)
    <3>1. q = p
      BY <1>3 DEF TwoCommands
    <3>2. Stores(r)
      BY <1>1, <2>7, <3>1
    <3> QED BY <2>5, <3>1, <3>2
  <2> QED BY <2>1, <2>2, <2>4, <2>6, <2>7
<1> QED BY <1>2, <1>3

\* What one adds has ids that were not there.
LEMMA MeantGrows ==
    ASSUME KnowledgeInv, Meant, NEW p \in Commands, NEW r, Base!Go(p, r), r.pc # "delete", Stores(cmd[p]),
           NEW c \in Base!Collections, NEW new, chunks' = [chunks EXCEPT ![c] = Base!Added(c, new)]
    PROVE  Meant'
<1> SUFFICES ASSUME NEW o \in Commands, cmd'[o].pc = "delete"
             PROVE  /\ ChoseOf(cmd'[o], chunks'[Head(cmd'[o].todo)])
                    /\ \A q \in Commands \ {o} : Stores(cmd'[q]) => Has(chunks'[Head(cmd'[o].todo)], cmd'[o].ids)
  BY DEF Meant, ChoseOf, Has, Stores, Base!Chosen, Base!About, Base!Before, Base!Id
<1>1. \A q \in Commands : cmd'[q] = IF q = p THEN r ELSE cmd[q]
  BY DEF Base!Go, KnowledgeInv
<1>2. o # p /\ cmd'[o] = cmd[o]
  BY <1>1
<1>3. PICK s : s = cmd[o]
  OBVIOUS
<1>4. CmdFits(s) /\ s.pc = "delete"
  BY <1>2, <1>3 DEF KnowledgeInv
<1>5. PICK d \in Base!Collections : d = Head(s.todo)
  BY <1>4, RestFits DEF CmdFits, CleanPlaces
<1>6. ChoseOf(s, chunks[d]) /\ Has(chunks[d], s.ids)
  BY <1>2, <1>3, <1>5 DEF Meant
<1>7. ASSUME NEW k \in chunks'[d], k \notin chunks[d] PROVE Base!Id(k) \notin s.ids
  <2>1. d = c /\ k \in Base!Added(c, new)
    BY <1>7 DEF KnowledgeInv, ChunksFit
  <2>2. Base!Id(k) \notin {Base!Id(l) : l \in chunks[c]}
    BY <1>7, <2>1 DEF Base!Added, Base!Ids
  <2> QED BY <1>6, <2>1, <2>2 DEF Has
<1>8. chunks[d] \subseteq chunks'[d]
  BY DEF KnowledgeInv, ChunksFit, Base!Added
<1>9. ChoseOf(s, chunks'[d]) /\ Has(chunks'[d], s.ids)
  BY <1>6, <1>7, <1>8 DEF ChoseOf, Has
<1> QED BY <1>2, <1>3, <1>5, <1>9

\* A step that leaves the chunks where they are.
LEMMA MeantWalks ==
    ASSUME KnowledgeInv, Meant, TwoCommands, NEW p \in Commands, NEW r, Base!Go(p, r), CmdFits(r),
           UNCHANGED chunks, Stores(r) => Stores(cmd[p]), r.pc # "delete"
    PROVE  Meant'
  BY MeantShrinks

LEMMA MeantOpens ==
    ASSUME KnowledgeConstants, KnowledgeInv, Meant, TwoCommands, NEW p \in Commands,
           Base!Ingest(p) \/ Base!CleanSource(p) \/ Base!Clean(p)
    PROVE  Meant'
<1>1. UNCHANGED chunks /\ Stores(cmd[p])
  BY DEF Base!Ingest, Base!CleanSource, Base!Clean, Base!At, Stores
<1>2. ASSUME NEW r, Base!Go(p, r), r.pc # "delete", CmdFits(r) PROVE Meant'
  BY <1>1, <1>2, MeantWalks
<1>3. CASE Base!Ingest(p)
  <2>1. ASSUME NEW name \in Base!Collections, NEW label \in Labels, NEW todo \in Seq(Base!FileSet) \ {<<>>},
               Base!Go(p, [Base!Idle EXCEPT !.pc = "load", !.kind = "ingest", !.name = name, !.todo = todo, !.label = label])
        PROVE  Meant'
    <3>1. PICK r : r = [Base!Idle EXCEPT !.pc = "load", !.kind = "ingest", !.name = name, !.todo = todo, !.label = label]
      OBVIOUS
    <3>2. DOMAIN r = DOMAIN Base!Idle /\ r.pc = "load" /\ r.kind = "ingest" /\ r.name = name /\ r.todo = todo /\ r.label = label
      BY <3>1 DEF Base!Idle
    <3>3. CmdFits(r)
      BY <3>2 DEF CmdFits, NewPlaces, CleanPlaces
    <3> QED BY <1>2, <2>1, <3>1, <3>2, <3>3
  <2>2. PICK name \in Base!Collections, symbols \in SUBSET Symbols, date \in Dates :
          \/ \E f \in Base!FileSet :
                Base!Go(p, [Base!Idle EXCEPT !.pc = "load", !.kind = "ingest", !.name = name, !.todo = <<f>>,
                                   !.label = [symbols |-> symbols, date |-> date]])
          \/ /\ symbols = {} /\ date = 0
             /\ Base!Go(p, [Base!Idle EXCEPT !.pc = "load", !.kind = "ingest", !.name = name, !.todo = Files,
                                   !.label = Base!NoLabel])
    BY <1>3 DEF Base!Ingest
  <2>3. [symbols |-> symbols, date |-> date] \in Labels /\ Base!NoLabel \in Labels
    BY DEF Labels, Base!NoLabel, KnowledgeConstants
  <2>4. (\A f \in Base!FileSet : <<f>> \in Seq(Base!FileSet) \ {<<>>}) /\ Files \in Seq(Base!FileSet) \ {<<>>}
    BY DEF KnowledgeConstants
  <2>5. CASE \E f \in Base!FileSet :
                Base!Go(p, [Base!Idle EXCEPT !.pc = "load", !.kind = "ingest", !.name = name, !.todo = <<f>>,
                                   !.label = [symbols |-> symbols, date |-> date]])
    BY <2>1, <2>3, <2>4, <2>5
  <2>6. CASE Base!Go(p, [Base!Idle EXCEPT !.pc = "load", !.kind = "ingest", !.name = name, !.todo = Files, !.label = Base!NoLabel])
    BY <2>1, <2>3, <2>4, <2>6
  <2> QED BY <2>2, <2>5, <2>6
<1>4. CASE Base!CleanSource(p)
  <2>1. PICK name \in Base!Collections : Base!Go(p, [Base!Idle EXCEPT !.pc = "drop", !.kind = "source", !.name = name])
    BY <1>4 DEF Base!CleanSource
  <2>2. PICK r : r = [Base!Idle EXCEPT !.pc = "drop", !.kind = "source", !.name = name]
    OBVIOUS
  <2>3. DOMAIN r = DOMAIN Base!Idle /\ r.pc = "drop" /\ r.kind = "source" /\ r.name = name
    BY <2>2 DEF Base!Idle
  <2>4. CmdFits(r)
    BY <2>3 DEF CmdFits, NewPlaces, CleanPlaces
  <2> QED BY <1>2, <2>1, <2>2, <2>3, <2>4
<1>5. ASSUME NEW kind \in {"symbol", "before"}, NEW label,
             Base!Go(p, [Base!Idle EXCEPT !.pc = "read", !.kind = kind, !.label = label, !.todo = Names])
      PROVE  Meant'
  <2>1. PICK r : r = [Base!Idle EXCEPT !.pc = "read", !.kind = kind, !.label = label, !.todo = Names]
    OBVIOUS
  <2>2. DOMAIN r = DOMAIN Base!Idle /\ r.pc = "read" /\ r.kind = kind /\ r.todo = Names
    BY <2>1 DEF Base!Idle
  <2>3. CmdFits(r)
    BY <2>2 DEF CmdFits, NewPlaces, CleanPlaces, KnowledgeConstants
  <2> QED BY <1>2, <1>5, <2>1, <2>2, <2>3
<1>6. CASE \E s \in Symbols : Base!Go(p, [Base!Idle EXCEPT !.pc = "read", !.kind = "symbol", !.label = s, !.todo = Names])
  BY <1>5, <1>6
<1>7. CASE \E d \in Dates \ {0} : Base!Go(p, [Base!Idle EXCEPT !.pc = "read", !.kind = "before", !.label = d, !.todo = Names])
  BY <1>5, <1>7
<1> QED BY <1>3, <1>4, <1>6, <1>7 DEF Base!Clean

LEMMA MeantLoads ==
    ASSUME KnowledgeConstants, KnowledgeInv, Meant, TwoCommands, NEW p \in Commands,
           Base!Load(p) \/ Base!Check(p)
    PROVE  Meant'
<1>1. PICK r : r = cmd[p]
  OBVIOUS
<1>2. CmdFits(r) /\ r.pc \in {"load", "check"} /\ Stores(cmd[p]) /\ UNCHANGED chunks
  BY <1>1 DEF Base!Load, Base!Check, Base!At, KnowledgeInv, Stores, NewPlaces, Base!base
<1>3. ASSUME NEW n, Base!Go(p, n), n.pc # "delete", CmdFits(n) PROVE Meant'
  BY <1>2, <1>3, MeantWalks
<1>4. CASE Base!Go(p, [r EXCEPT !.pc = "check", !.text = disk[Head(r.todo)]])
  <2>1. Head(r.todo) \in Base!FileSet
    BY <1>2, RestFits DEF CmdFits, NewPlaces
  <2>2. PICK text \in Texts : text = disk[Head(r.todo)]
    BY <2>1 DEF KnowledgeInv
  <2>3. PICK n : n = [r EXCEPT !.pc = "check", !.text = text]
    OBVIOUS
  <2>4. /\ DOMAIN n = DOMAIN Base!Idle /\ n.pc = "check" /\ n.text = text /\ n.todo = r.todo /\ n.kind = r.kind
        /\ n.name = r.name /\ n.label = r.label
    BY <1>2, <2>3 DEF CmdFits, Base!Idle
  <2>5. CmdFits(n)
    BY <1>2, <2>4 DEF CmdFits, NewPlaces, CleanPlaces
  <2> QED BY <1>3, <1>4, <2>2, <2>3, <2>4, <2>5
<1>5. CASE Base!Go(p, [Base!Next1(r) EXCEPT !.out = "error"])
  <2>1. PICK x : x = Base!Next1(r)
    OBVIOUS
  <2>2. CmdFits(x) /\ x.pc \in {"done", "load"}
    BY <1>2, <2>1, NextFits DEF NewPlaces
  <2>3. PICK n : n = [x EXCEPT !.out = "error"]
    OBVIOUS
  <2>4. /\ DOMAIN n = DOMAIN Base!Idle /\ n.pc = x.pc /\ n.text = x.text /\ n.todo = x.todo /\ n.kind = x.kind
        /\ n.name = x.name /\ n.label = x.label
    BY <2>2, <2>3 DEF CmdFits, Base!Idle
  <2>5. CmdFits(n)
    BY <2>2, <2>4 DEF CmdFits, NewPlaces, CleanPlaces
  <2> QED BY <1>3, <1>5, <2>1, <2>2, <2>3, <2>4, <2>5
<1>6. CASE Base!Go(p, Base!Next1(r))
  <2>1. PICK n : n = Base!Next1(r)
    OBVIOUS
  <2>2. CmdFits(n) /\ n.pc \in {"done", "load"}
    BY <1>2, <2>1, NextFits DEF NewPlaces
  <2> QED BY <1>3, <1>6, <2>1, <2>2
<1>7. CASE Base!Go(p, [r EXCEPT !.pc = "add"]) /\ r.pc = "check"
  <2>1. PICK n : n = [r EXCEPT !.pc = "add"]
    OBVIOUS
  <2>2. /\ DOMAIN n = DOMAIN Base!Idle /\ n.pc = "add" /\ n.text = r.text /\ n.todo = r.todo /\ n.kind = r.kind
        /\ n.name = r.name /\ n.label = r.label
    BY <1>2, <2>1 DEF CmdFits, Base!Idle
  <2>3. CmdFits(n)
    BY <1>2, <1>7, <2>2 DEF CmdFits, NewPlaces, CleanPlaces
  <2> QED BY <1>3, <1>7, <2>1, <2>2, <2>3
<1> QED BY <1>1, <1>4, <1>5, <1>6, <1>7 DEF Base!Load, Base!Check, Base!At

LEMMA MeantEnds == ASSUME KnowledgeInv, Meant, TwoCommands, NEW p \in Commands, cmd[p].pc # "new", NEW out, Base!End(p, out),
                          \A c \in Base!Collections : chunks'[c] \subseteq chunks[c]
                   PROVE Meant'
<1>1. PICK r : Base!Go(p, r) /\ CmdFits(r) /\ r.pc = "done"
  BY EndFits
<1>2. ~Stores(r) /\ r.pc # "delete"
  BY <1>1 DEF Stores, NewPlaces
<1> QED BY <1>1, <1>2, MeantShrinks

LEMMA MeantAdds ==
    ASSUME KnowledgeConstants, KnowledgeInv, Meant, TwoCommands, NEW p \in Commands, Base!Add(p)
    PROVE  Meant'
<1>1. PICK r : r = cmd[p]
  OBVIOUS
<1>2. CmdFits(r) /\ r.pc = "add" /\ Stores(cmd[p]) /\ r.name \in Base!Collections
  BY <1>1 DEF Base!Add, Base!At, KnowledgeInv, Stores, NewPlaces, CmdFits
<1>3. CASE UNCHANGED chunks /\ Base!End(p, "raised")
  <2>1. cmd[p].pc # "new" /\ \A c \in Base!Collections : chunks'[c] \subseteq chunks[c]
    BY <1>1, <1>2, <1>3
  <2> QED BY <1>3, <2>1, MeantEnds
<1>4. CASE /\ chunks' = [chunks EXCEPT ![r.name] = Base!Added(r.name, Base!Document(r.name, r.text, r.label, p))]
           /\ Base!Go(p, Base!Next1(r))
  <2>1. PICK n : n = Base!Next1(r)
    OBVIOUS
  <2>2. n.pc \in {"done", "load"}
    BY <1>2, <2>1, NextFits DEF NewPlaces
  <2>3. PICK new : new = Base!Document(r.name, r.text, r.label, p)
    OBVIOUS
  <2> QED BY <1>2, <1>4, <2>1, <2>2, <2>3, MeantGrows
<1> QED BY <1>1, <1>3, <1>4 DEF Base!Add

LEMMA MeantDrops ==
    ASSUME KnowledgeConstants, KnowledgeInv, Meant, TwoCommands, NEW p \in Commands,
           Base!Drop(p) \/ Base!Make(p) \/ Base!Kill(p)
    PROVE  Meant'
<1>1. cmd[p].pc # "new" /\ CmdFits(cmd[p])
  BY DEF Base!Drop, Base!Make, Base!Kill, Base!At, KnowledgeInv
<1>2. \A c \in Base!Collections : chunks'[c] \subseteq chunks[c]
  BY DEF Base!Drop, Base!Make, Base!Kill, Base!base, KnowledgeInv, ChunksFit
<1>3. CASE \E out : Base!End(p, out)
  BY <1>1, <1>2, <1>3, MeantEnds
<1>4. CASE Base!Go(p, [cmd[p] EXCEPT !.pc = "make"]) /\ cmd[p].pc = "drop"
  <2>1. PICK s : s = cmd[p]
    OBVIOUS
  <2>2. PICK r : r = [s EXCEPT !.pc = "make"]
    OBVIOUS
  <2>3. DOMAIN r = DOMAIN Base!Idle /\ r.pc = "make" /\ r.kind = s.kind /\ r.name = s.name
    BY <1>1, <2>1, <2>2 DEF CmdFits, Base!Idle
  <2>4. CmdFits(r)
    BY <1>1, <1>4, <2>1, <2>3 DEF CmdFits, NewPlaces, CleanPlaces
  <2>5. ~Stores(r) /\ r.pc # "delete"
    BY <2>3 DEF Stores, NewPlaces
  <2>6. Base!Go(p, r)
    BY <1>4, <2>1, <2>2
  <2> QED BY <1>2, <2>4, <2>5, <2>6, MeantShrinks
<1>5. \/ \E out : Base!End(p, out)
      \/ Base!Go(p, [cmd[p] EXCEPT !.pc = "make"]) /\ cmd[p].pc = "drop"
  BY DEF Base!Drop, Base!Make, Base!Kill, Base!At
<1> QED BY <1>3, <1>4, <1>5

LEMMA MeantReads ==
    ASSUME KnowledgeConstants, KnowledgeInv, Meant, TwoCommands, NEW p \in Commands, Base!ReadChunks(p)
    PROVE  Meant'
<1>1. PICK r : r = cmd[p]
  OBVIOUS
<1>2. CmdFits(r) /\ r.pc = "read" /\ UNCHANGED chunks
  BY <1>1 DEF Base!ReadChunks, Base!At, KnowledgeInv, Base!base
<1>3. PICK c \in Base!Collections : c = Head(r.todo)
  BY <1>2, RestFits DEF CmdFits, CleanPlaces
<1>4. CASE Base!Go(p, Base!NextName(r))
  <2>1. PICK n : n = Base!NextName(r)
    OBVIOUS
  <2>2. CmdFits(n) /\ n.pc \in {"done", "read"}
    BY <1>2, <2>1, NextNameFits DEF CleanPlaces
  <2>3. ~Stores(n) /\ n.pc # "delete"
    BY <2>2 DEF Stores, NewPlaces
  <2> QED BY <1>2, <1>4, <2>1, <2>2, <2>3, MeantWalks
<1>5. ASSUME NEW ids, ids = {Base!Id(k) : k \in {k \in chunks[c] : Base!Chosen(r, k)}},
             Base!Go(p, [r EXCEPT !.pc = "delete", !.ids = ids])
      PROVE  Meant'
  <2>1. PICK n : n = [r EXCEPT !.pc = "delete", !.ids = ids]
    OBVIOUS
  <2>2. /\ DOMAIN n = DOMAIN Base!Idle /\ n.pc = "delete" /\ n.todo = r.todo /\ n.kind = r.kind /\ n.ids = ids /\ n.label = r.label
    BY <1>2, <2>1 DEF CmdFits, Base!Idle
  <2>3. CmdFits(n) /\ ~Stores(n)
    BY <1>2, <2>2 DEF CmdFits, NewPlaces, CleanPlaces, Stores
  <2>4. \A k, l \in chunks[c] : Base!Id(k) = Base!Id(l) => k = l
    BY DEF KnowledgeInv, ChunksFit
  <2>5. ChoseOf(n, chunks[c])
    <3> SUFFICES ASSUME NEW k \in chunks[c], Base!Id(k) \in ids PROVE Base!Chosen(n, k)
      BY <2>2 DEF ChoseOf
    <3>1. PICK l \in chunks[c] : Base!Chosen(r, l) /\ Base!Id(l) = Base!Id(k)
      BY <1>5
    <3>2. l = k
      BY <2>4, <3>1
    <3> QED BY <2>2, <3>1, <3>2 DEF Base!Chosen
  <2>6. Has(chunks[c], n.ids)
    BY <1>5, <2>2 DEF Has
  <2>7. Base!Go(p, n)
    BY <1>5, <2>1
  <2>8. n.pc = "delete" =>
               /\ ChoseOf(n, chunks'[Head(n.todo)])
               /\ \A q \in Commands \ {p} : Stores(cmd[q]) => Has(chunks'[Head(n.todo)], n.ids)
    BY <1>2, <1>3, <2>2, <2>5, <2>6
  <2>9. \A d \in Base!Collections : chunks'[d] \subseteq chunks[d]
    BY <1>2
  <2> QED BY <2>3, <2>7, <2>8, <2>9, MeantShrinks
<1> QED BY <1>1, <1>3, <1>4, <1>5 DEF Base!ReadChunks

LEMMA MeantDeletes ==
    ASSUME KnowledgeConstants, KnowledgeInv, Meant, TwoCommands, NEW p \in Commands, Base!DeleteChunk(p)
    PROVE  Meant'
<1>1. PICK r : r = cmd[p]
  OBVIOUS
<1>2. CmdFits(r) /\ r.pc = "delete"
  BY <1>1 DEF Base!DeleteChunk, Base!At, KnowledgeInv
<1>3. PICK c \in Base!Collections : c = Head(r.todo)
  BY <1>2, RestFits DEF CmdFits, CleanPlaces
<1>4. PICK next : next = Base!NextName(r)
  OBVIOUS
<1>5. CmdFits(next) /\ next.pc \in {"done", "read"} /\ ~Stores(next)
  <2>1. CmdFits(next) /\ next.pc \in {"done", "read"}
    BY <1>2, <1>4, NextNameFits DEF CleanPlaces
  <2> QED BY <2>1 DEF Stores, NewPlaces
<1>6. CASE Base!Go(p, Base!NextName(r)) /\ UNCHANGED chunks
  BY <1>4, <1>5, <1>6, MeantWalks
<1>7. ASSUME NEW id \in r.ids, chunks' = [chunks EXCEPT ![c] = {k \in @ : Base!Id(k) # id}],
             Base!Go(p, IF r.ids = {id} THEN Base!NextName(r) ELSE [r EXCEPT !.ids = @ \ {id}])
      PROVE  Meant'
  <2>1. /\ chunks'[c] = {k \in chunks[c] : Base!Id(k) # id}
        /\ \A d \in Base!Collections : chunks'[d] \subseteq chunks[d]
    BY <1>7 DEF KnowledgeInv, ChunksFit
  <2>2. CASE r.ids = {id}
    BY <1>4, <1>5, <1>7, <2>1, <2>2, MeantShrinks
  <2>3. CASE r.ids # {id}
    <3>1. PICK ids : ids = r.ids \ {id}
      OBVIOUS
    <3>2. PICK n : n = [r EXCEPT !.ids = ids]
      OBVIOUS
    <3>3. DOMAIN n = DOMAIN Base!Idle /\ n.pc = "delete" /\ n.todo = r.todo /\ n.kind = r.kind /\ n.label = r.label /\ n.ids = ids
      BY <1>2, <3>2 DEF CmdFits, Base!Idle
    <3>4. CmdFits(n) /\ ~Stores(n)
      BY <1>2, <3>3 DEF CmdFits, NewPlaces, CleanPlaces, Stores
    <3>5. ChoseOf(r, chunks[c]) /\ \A q \in Commands \ {p} : Stores(cmd[q]) => Has(chunks[c], r.ids)
      BY <1>1, <1>2, <1>3 DEF Meant
    <3>6. ChoseOf(n, chunks'[c])
      <4> SUFFICES ASSUME NEW k \in chunks'[c], Base!Id(k) \in ids PROVE Base!Chosen(n, k)
        BY <3>3 DEF ChoseOf
      <4>1. k \in chunks[c] /\ Base!Id(k) \in r.ids
        BY <2>1, <3>1
      <4>2. Base!Chosen(r, k)
        BY <3>5, <4>1 DEF ChoseOf
      <4> QED BY <3>3, <4>2 DEF Base!Chosen
    <3>7. ASSUME NEW q \in Commands \ {p}, Stores(cmd[q]) PROVE Has(chunks'[c], ids)
      <4> SUFFICES ASSUME NEW x \in ids PROVE \E k \in chunks'[c] : Base!Id(k) = x
        BY DEF Has
      <4>1. PICK k \in chunks[c] : Base!Id(k) = x
        BY <3>1, <3>5, <3>7 DEF Has
      <4>2. k \in chunks'[c]
        BY <2>1, <3>1, <4>1
      <4> QED BY <4>1, <4>2
    <3>8. Base!Go(p, n)
      BY <1>7, <2>3, <3>1, <3>2
    <3>9. n.pc = "delete" =>
               /\ ChoseOf(n, chunks'[Head(n.todo)])
               /\ \A q \in Commands \ {p} : Stores(cmd[q]) => Has(chunks'[Head(n.todo)], n.ids)
      BY <1>3, <3>3, <3>6, <3>7
    <3> QED BY <2>1, <3>4, <3>8, <3>9, MeantShrinks
  <2> QED BY <2>2, <2>3
<1> QED BY <1>1, <1>3, <1>6, <1>7 DEF Base!DeleteChunk

LEMMA MeantRests == ASSUME KnowledgeInv, Meant, UNCHANGED <<chunks, cmd>> PROVE Meant'
  BY DEF Meant, ChoseOf, Has, Stores, Base!Chosen, Base!About, Base!Before, Base!Id

LEMMA MeantStep == ASSUME KnowledgeConstants, KnowledgeInv, Meant, TwoCommands, [Base!Next]_Base!kbvars PROVE Meant'
<1>1. ASSUME NEW p \in Commands, Base!Step(p) PROVE Meant'
  BY <1>1, MeantOpens, MeantLoads, MeantAdds, MeantDrops, MeantReads, MeantDeletes DEF Base!Step
<1>2. CASE Base!Search \/ Base!Reload \/ Base!Edit \/ Base!Install \/ UNCHANGED Base!kbvars
  BY <1>2, MeantRests DEF Base!Search, Base!Reload, Base!Edit, Base!Install, Base!base, Base!kbvars
<1> QED BY <1>1, <1>2 DEF Base!Next

LEMMA StepMeant == ASSUME KnowledgeConstants, KnowledgeInv, Meant, [Base!Next]_Base!kbvars PROVE Base!GoneWasMeant
<1> SUFFICES ASSUME NEW c \in Base!Collections, NEW k \in chunks[c] \ chunks'[c], c \notin gone'
             PROVE  \E p \in Commands : cmd[p].kind \in {"symbol", "before"} /\ Base!Chosen(cmd[p], k)
  BY DEF Base!GoneWasMeant
<1>1. \E p \in Commands : Base!Add(p) \/ Base!Drop(p) \/ Base!DeleteChunk(p)
  <2>1. chunks' # chunks
    OBVIOUS
  <2> QED BY <2>1 DEF Base!Next, Base!Step, Base!Ingest, Base!Load, Base!Check, Base!CleanSource, Base!Make,
                      Base!Clean, Base!ReadChunks, Base!Kill, Base!Search, Base!Reload,
                      Base!Edit, Base!Install, Base!base, Base!kbvars
<1>2. PICK p \in Commands : Base!Add(p) \/ Base!Drop(p) \/ Base!DeleteChunk(p)
  BY <1>1
<1>3. CASE Base!Add(p)
  BY <1>3 DEF Base!Add, Base!Added, KnowledgeInv, ChunksFit
<1>4. CASE Base!Drop(p)
  BY <1>4 DEF Base!Drop, KnowledgeInv, ChunksFit
<1>5. CASE Base!DeleteChunk(p)
  <2>1. PICK r : r = cmd[p]
    OBVIOUS
  <2>2. CmdFits(r) /\ r.pc = "delete"
    BY <1>5, <2>1 DEF Base!DeleteChunk, Base!At, KnowledgeInv
  <2>3. PICK d \in Base!Collections : d = Head(r.todo)
    BY <2>2, RestFits DEF CmdFits, CleanPlaces
  <2>4. PICK id \in r.ids : chunks' = [chunks EXCEPT ![d] = {l \in @ : Base!Id(l) # id}]
    BY <1>5, <2>1, <2>3 DEF Base!DeleteChunk
  <2>5. c = d /\ Base!Id(k) = id
    BY <2>4 DEF KnowledgeInv, ChunksFit
  <2>6. Base!Chosen(r, k)
    BY <2>1, <2>2, <2>3, <2>4, <2>5 DEF Meant, ChoseOf
  <2> QED BY <2>1, <2>2, <2>6 DEF CmdFits, CleanPlaces
<1> QED BY <1>2, <1>3, <1>4, <1>5

\* A chunk goes because a command that cleans chose it as it is, or with its collection.
\* For two commands: a third one could ingest anew what the second took away, under the
\* id that the first has read.
THEOREM GoneWereMeant == KnowledgeConstants /\ TwoCommands /\ Base!Spec => [][Base!GoneWasMeant]_Base!kbvars
<1> SUFFICES ASSUME KnowledgeConstants, TwoCommands PROVE Base!Spec => [][Base!GoneWasMeant]_Base!kbvars
  OBVIOUS
<1>1. Base!Init => KnowledgeInv /\ Meant
  <2>1. Base!Init => Meant
    BY DEF Base!Init, Base!Idle, Meant
  <2> QED BY <2>1, KnowledgeInit
<1>2. KnowledgeInv /\ Meant /\ [Base!Next]_Base!kbvars => KnowledgeInv' /\ Meant'
  BY KnowledgeStep, MeantStep
<1>3. KnowledgeInv /\ Meant /\ [Base!Next]_Base!kbvars => Base!GoneWasMeant
  BY StepMeant
<1> QED BY <1>1, <1>2, <1>3, PTL DEF Base!Spec

-----------------------------------------------------------------------------
(* HKSnapshots.  The two industry files name one edition whenever nobody     *)
(* holds their lock and no refresh left them torn, and each edition passed   *)
(* its checks against an official list (Edition).                            *)

CONSTANTS Refreshers, Readers, Codes, Rosters, Pages, PageSize, Profiles, Lists, Counts
VARIABLES connect, csv, json, locked, run, reader, torn

Members == INSTANCE HKSnapshots

\* How the instance counts.
LEMMA MembersCounts == \A S : Members!Cardinality(S) = Cardinality(S)
  BY Zenon DEF Members!Cardinality, Cardinality

\* The sources speak of the codes; a list of the other source has at least one code.
SnapshotConstants ==
    /\ \A rows \in Rosters : \A listed \in rows : listed.code \in Codes
    /\ \A pages \in Pages : /\ pages[1].total \in Nat \ {0}
                            /\ \A i \in DOMAIN pages : pages[i].codes \subseteq Codes
    /\ MaxFaults \in Nat /\ None \notin Refreshers

\* An edition that passed its checks against an official list.
Edition(rows) ==
    \E list \in Lists, counts \in Counts :
        /\ Members!Baseline(list, counts)
        /\ \A c \in DOMAIN rows \intersect DOMAIN list : rows[c] = list[c]
Published(rows) == rows = None \/ (DOMAIN rows \subseteq Codes /\ Edition(rows))

Holding == {"csv", "json", "backcsv", "backjson"}
\* Where a refresh stands, and how what it kept of the files compares with them.
RunFits(r) ==
    /\ DOMAIN r = DOMAIN Members!NewRun
    /\ r.pc \in {"new", "fetch", "oldcsv", "oldjson", "lock", "done"} \union Holding
    /\ Published(r.rows) /\ Published(r.csv) /\ Published(r.json)
SomeMembers == connect.members \subseteq Codes /\ connect.members # {}
RunStands(r) ==
    /\ r.pc = "fetch" => SomeMembers
    /\ (r.pc = "oldjson" /\ ~r.passed /\ ~torn /\ locked = None) => r.csv = csv
    /\ (r.pc = "lock" /\ ~r.passed /\ ~torn /\ locked = None) => r.csv = csv /\ r.json = json
    /\ (r.pc = "csv" /\ ~torn) => csv = json
    /\ r.pc \in {"json", "backcsv"} => csv = r.rows
    /\ r.pc = "backjson" => csv = r.csv
    /\ (r.pc \in Holding /\ ~torn /\ ~r.passed) => r.csv = r.json
ReaderFits(r) ==
    /\ DOMAIN r = DOMAIN Members!NewReader
    /\ r.pc \in {"connect", "done"} => r.rows # None /\ Published(r.rows)
    /\ r.pc = "done" => r.members \subseteq DOMAIN r.rows

MembersFit == connect # None => SomeMembers
FilesFit ==
    /\ MembersFit /\ Published(csv) /\ Published(json)
    /\ locked \in Refreshers \union {None} /\ faults \in 0 .. MaxFaults /\ torn \in BOOLEAN
    /\ (locked = None /\ ~torn) => csv = json
SnapshotsInv ==
    /\ FilesFit
    /\ DOMAIN run = Refreshers
    /\ \A p \in Refreshers : RunFits(run[p]) /\ RunStands(run[p]) /\ (run[p].pc \in Holding <=> locked = p)
    /\ DOMAIN reader = Readers /\ \A p \in Readers : ReaderFits(reader[p])

-----------------------------------------------------------------------------
LEMMA SnapshotsInit == SnapshotConstants /\ Members!Init => SnapshotsInv
<1> SUFFICES ASSUME SnapshotConstants, Members!Init PROVE SnapshotsInv
  OBVIOUS
<1>1. RunFits(Members!NewRun) /\ RunStands(Members!NewRun) /\ Members!NewRun.pc \notin Holding
  BY DEF RunFits, RunStands, Members!NewRun, Holding, Published
<1>2. ReaderFits(Members!NewReader)
  BY DEF ReaderFits, Members!NewReader
<1>3. FilesFit
  <2>1. MembersFit /\ Published(csv) /\ Published(json) /\ csv = json
    BY DEF Members!Init, MembersFit, Published
  <2>2. faults \in 0 .. MaxFaults
    <3>1. MaxFaults \in Nat
      BY DEF SnapshotConstants
    <3> QED BY <3>1 DEF Members!Init
  <2> QED BY <2>1, <2>2 DEF FilesFit, Members!Init
<1> QED BY <1>1, <1>2, <1>3 DEF Members!Init, SnapshotsInv, SnapshotConstants

\* What a value is does not change with the state.
LEMMA FitsStay ==
    /\ \A r : RunFits(r)' <=> RunFits(r')
    /\ \A x : Published(x)' <=> Published(x')
    /\ \A r : ReaderFits(r)' <=> ReaderFits(r')
  BY DEF RunFits, ReaderFits, Published, Edition, Holding, Members!Baseline, Members!NewRun, Members!NewReader

\* The rows made of what the sources say are an edition that passed its checks.
LEMMA IndustriesFit ==
    ASSUME NEW members \in SUBSET Codes, NEW sectors \in Profiles, NEW list \in Lists, NEW counts \in Counts,
           NEW rows, rows = Members!Industries(members, sectors, list, counts), rows # None
    PROVE  Published(rows)
<1>1. PICK pairs : pairs = Members!Pairs(sectors, list, members)
  OBVIOUS
<1>2. Members!Baseline(list, counts) /\ Members!OneParent(pairs) /\ rows = Members!Mapped(members, sectors, pairs)
  BY <1>1 DEF Members!Industries
<1>3. DOMAIN rows = members /\ \A c \in members : rows[c] = Members!Crosswalk(pairs)[sectors[c]]
  BY <1>2 DEF Members!Mapped
<1>4. ASSUME NEW c \in DOMAIN rows \intersect DOMAIN list PROVE rows[c] = list[c]
  <2>1. PICK one : one = <<sectors[c], list[c]>>
    OBVIOUS
  <2>2. one \in pairs /\ one[1] = sectors[c] /\ one[2] = list[c]
    BY <1>1, <1>3, <2>1 DEF Members!Pairs
  <2>3. PICK s : s = sectors[c]
    OBVIOUS
  <2>4. s \in Members!Sectors(pairs)
    BY <2>2, <2>3 DEF Members!Sectors
  <2>5. Members!Crosswalk(pairs)[s] = (CHOOSE p \in pairs : p[1] = s)[2]
    BY <2>4 DEF Members!Crosswalk
  <2>6. PICK p : p = CHOOSE q \in pairs : q[1] = s
    OBVIOUS
  <2>7. p \in pairs /\ p[1] = s
    BY <2>2, <2>3, <2>6
  <2>8. p = one
    BY <1>2, <2>2, <2>3, <2>7 DEF Members!OneParent
  <2> QED BY <1>3, <2>2, <2>3, <2>5, <2>6, <2>8
<1> QED BY <1>2, <1>3, <1>4 DEF Published, Edition

-----------------------------------------------------------------------------
\* A refresh that does not hold the lock goes on; the files and the lock stay.
LEMMA WalkStep ==
    ASSUME SnapshotConstants, SnapshotsInv, NEW p \in Refreshers, NEW r, Members!Go(p, r), RunFits(r), RunStands(r)',
           r.pc \notin Holding, run[p].pc \notin Holding,
           UNCHANGED <<csv, json, torn, locked, reader, faults>>, MembersFit', SomeMembers => SomeMembers'
    PROVE  SnapshotsInv'
<1>1. DOMAIN run' = Refreshers /\ \A q \in Refreshers : run'[q] = IF q = p THEN r ELSE run[q]
  BY DEF Members!Go, SnapshotsInv
<1>2. ASSUME NEW q \in Refreshers
      PROVE  RunFits(run'[q]) /\ RunStands(run[q])' /\ (run'[q].pc \in Holding <=> locked' = q)
  <2>1. CASE q = p
    BY <1>1, <2>1 DEF SnapshotsInv, RunStands, Holding
  <2>2. CASE q # p
    <3>1. run'[q] = run[q] /\ RunFits(run[q]) /\ RunStands(run[q]) /\ (run[q].pc \in Holding <=> locked = q)
      BY <1>1, <2>2 DEF SnapshotsInv
    <3> QED BY <3>1 DEF RunStands, SomeMembers, Holding
  <2> QED BY <2>1, <2>2
<1>3. FilesFit'
  BY FitsStay DEF SnapshotsInv, FilesFit
<1>4. DOMAIN reader' = Readers /\ \A q \in Readers : ReaderFits(reader[q])'
  BY FitsStay DEF SnapshotsInv
<1> QED BY <1>1, <1>2, <1>3, <1>4, FitsStay DEF SnapshotsInv, Holding

\* The one that has the lock goes on, and so far nobody else can have it.
LEMMA HoldStep ==
    ASSUME SnapshotConstants, SnapshotsInv, NEW p \in Refreshers, NEW r, Members!Go(p, r), RunFits(r), RunStands(r)',
           r.pc \in Holding, locked \in {p, None}, locked' = p,
           UNCHANGED <<json, torn, reader, connect>>, Published(csv'), faults' \in 0 .. MaxFaults
    PROVE  SnapshotsInv'
<1>1. DOMAIN run' = Refreshers /\ \A q \in Refreshers : run'[q] = IF q = p THEN r ELSE run[q]
  BY DEF Members!Go, SnapshotsInv
<1>2. p # None
  BY DEF SnapshotConstants
<1>3. ASSUME NEW q \in Refreshers
      PROVE  RunFits(run'[q]) /\ RunStands(run[q])' /\ (run'[q].pc \in Holding <=> locked' = q)
  <2>1. CASE q = p
    BY <1>1, <2>1 DEF RunStands, SomeMembers, Holding
  <2>2. CASE q # p
    <3>1. run'[q] = run[q] /\ RunFits(run[q]) /\ RunStands(run[q]) /\ run[q].pc \notin Holding
      BY <1>1, <1>2, <2>2 DEF SnapshotsInv, SnapshotConstants
    <3> QED BY <1>2, <2>2, <3>1 DEF RunStands, SomeMembers, Holding
  <2> QED BY <2>1, <2>2
<1>4. FilesFit'
  BY <1>2, FitsStay DEF SnapshotsInv, FilesFit, MembersFit, SomeMembers
<1>5. DOMAIN reader' = Readers /\ \A q \in Readers : ReaderFits(reader[q])'
  BY FitsStay DEF SnapshotsInv
<1> QED BY <1>1, <1>3, <1>4, <1>5, FitsStay DEF SnapshotsInv, Holding

\* It gives the lock back: the others know that it passed.
LEMMA GiveStep ==
    ASSUME SnapshotConstants, SnapshotsInv, NEW p \in Refreshers, locked = p, Members!Give(p),
           UNCHANGED <<reader, connect>>, Published(csv'), Published(json'), faults' \in 0 .. MaxFaults,
           torn' \in BOOLEAN, ~torn' => csv' = json'
    PROVE  SnapshotsInv'
<1>1. PICK done : done = [Members!NewRun EXCEPT !.pc = "done"]
  OBVIOUS
<1>2. DOMAIN done = DOMAIN Members!NewRun /\ done.pc = "done" /\ done.rows = None /\ done.csv = None /\ done.json = None
  BY <1>1 DEF Members!NewRun
<1>3. /\ DOMAIN run' = Refreshers /\ locked' = None
      /\ \A q \in Refreshers : run'[q] = IF q = p THEN done
                               ELSE IF run[q].pc \in {"oldjson", "lock"} THEN [run[q] EXCEPT !.passed = TRUE] ELSE run[q]
  BY <1>1 DEF Members!Give
<1>4. p # None
  BY DEF SnapshotConstants
<1>5. ASSUME NEW q \in Refreshers
      PROVE  RunFits(run'[q]) /\ RunStands(run[q])' /\ run'[q].pc \notin Holding
  <2>1. PICK n : n = run'[q]
    OBVIOUS
  <2>2. CASE q = p
    <3>1. n = done
      BY <1>3, <2>1, <2>2
    <3>2. RunFits(n)
      BY <1>2, <3>1 DEF RunFits, Published
    <3> QED BY <1>2, <2>1, <3>1, <3>2 DEF RunStands, SomeMembers, Holding
  <2>3. CASE q # p
    <3>1. PICK s : s = run[q]
      OBVIOUS
    <3>2. RunFits(s) /\ RunStands(s) /\ s.pc \notin Holding
      BY <1>4, <2>3, <3>1 DEF SnapshotsInv
    <3>3. CASE s.pc \in {"oldjson", "lock"}
      <4>1. n = [s EXCEPT !.passed = TRUE]
        BY <1>3, <2>1, <2>3, <3>1, <3>3
      <4>2. /\ DOMAIN n = DOMAIN Members!NewRun /\ n.pc = s.pc /\ n.rows = s.rows /\ n.csv = s.csv /\ n.json = s.json /\ n.passed
        BY <3>2, <4>1 DEF RunFits, Members!NewRun
      <4>3. RunFits(n) /\ n.pc \notin Holding
        BY <3>2, <4>2 DEF RunFits
      <4> QED BY <2>1, <3>3, <4>2, <4>3 DEF RunStands, SomeMembers, Holding
    <3>4. CASE s.pc \notin {"oldjson", "lock"}
      <4>1. n = s
        BY <1>3, <2>1, <2>3, <3>1, <3>4
      <4> QED BY <2>1, <3>2, <3>4, <4>1 DEF RunStands, SomeMembers, Holding
    <3> QED BY <3>3, <3>4
  <2> QED BY <2>2, <2>3
<1>6. FilesFit'
  BY <1>3, FitsStay DEF SnapshotsInv, FilesFit, MembersFit, SomeMembers
<1>7. DOMAIN reader' = Readers /\ \A q \in Readers : ReaderFits(reader[q])'
  BY FitsStay DEF SnapshotsInv
<1> QED BY <1>3, <1>4, <1>5, <1>6, <1>7, FitsStay DEF SnapshotsInv, Holding, SnapshotConstants

-----------------------------------------------------------------------------
LEMMA EndStep ==
    ASSUME SnapshotConstants, SnapshotsInv, NEW p \in Refreshers, Members!End(p), run[p].pc \notin Holding,
           UNCHANGED <<csv, json, torn, locked, reader, faults>>, MembersFit', SomeMembers => SomeMembers'
    PROVE  SnapshotsInv'
<1>1. PICK done : done = [Members!NewRun EXCEPT !.pc = "done"]
  OBVIOUS
<1>2. DOMAIN done = DOMAIN Members!NewRun /\ done.pc = "done" /\ done.rows = None /\ done.csv = None /\ done.json = None
  BY <1>1 DEF Members!NewRun
<1>3. RunFits(done) /\ RunStands(done)' /\ done.pc \notin Holding
  BY <1>2 DEF RunFits, RunStands, Holding, Published
<1>4. Members!Go(p, done)
  BY <1>1 DEF Members!End
<1> QED BY <1>3, <1>4, WalkStep

LEMMA MembersKeeps ==
    ASSUME SnapshotConstants, SnapshotsInv, NEW p \in Refreshers, Members!Members(p)
    PROVE  SnapshotsInv'
<1>1. run[p].pc = "new" /\ run[p].pc \notin Holding /\ UNCHANGED <<csv, json, torn, locked, reader, faults>>
  BY DEF Members!Members, Members!At, Members!pair, Holding
<1>2. CASE Members!End(p) /\ UNCHANGED connect
  <2>1. MembersFit' /\ (SomeMembers => SomeMembers')
    BY <1>2 DEF SnapshotsInv, FilesFit, MembersFit, SomeMembers
  <2> QED BY <1>1, <1>2, <2>1, EndStep
<1>3. CASE \E rows \in Rosters :
             /\ Members!Sound(rows) /\ connect' = Members!Roster(rows)
             /\ Members!Go(p, [Members!NewRun EXCEPT !.pc = "fetch"])
  <2>1. PICK rows \in Rosters : /\ Members!Sound(rows) /\ connect' = Members!Roster(rows)
                                /\ Members!Go(p, [Members!NewRun EXCEPT !.pc = "fetch"])
    BY <1>3
  <2>2. PICK codes : codes = {listed.code : listed \in Members!Shares(rows)}
    OBVIOUS
  <2>3. connect'.members = codes
    BY <2>1, <2>2 DEF Members!Roster
  <2>4. codes \subseteq Codes /\ codes # {}
    <3>1. \A listed \in Members!Shares(rows) : listed.code \in Codes
      BY DEF Members!Shares, SnapshotConstants
    <3>2. Members!Shares(rows) # {}
      BY <2>1 DEF Members!Sound
    <3> QED BY <2>2, <3>1, <3>2
  <2>5. PICK r : r = [Members!NewRun EXCEPT !.pc = "fetch"]
    OBVIOUS
  <2>6. DOMAIN r = DOMAIN Members!NewRun /\ r.pc = "fetch" /\ r.rows = None /\ r.csv = None /\ r.json = None
    BY <2>5 DEF Members!NewRun
  <2>7. RunFits(r) /\ r.pc \notin Holding
    BY <2>6 DEF RunFits, Holding, Published
  <2>8. SomeMembers' /\ MembersFit'
    BY <2>3, <2>4 DEF MembersFit, SomeMembers
  <2>9. RunStands(r)'
    BY <2>6, <2>8 DEF RunStands, Holding
  <2> QED BY <1>1, <2>1, <2>5, <2>7, <2>8, <2>9, WalkStep
<1> QED BY <1>2, <1>3 DEF Members!Members

LEMMA PagedMembersKeeps ==
    ASSUME SnapshotConstants, SnapshotsInv, NEW p \in Refreshers, Members!PagedMembers(p)
    PROVE  SnapshotsInv'
<1>1. run[p].pc \notin Holding /\ Members!End(p) /\ UNCHANGED <<csv, json, torn, locked, reader, faults>>
  BY DEF Members!PagedMembers, Members!At, Members!pair, Holding
<1>2. PICK pages \in Pages : Members!Complete(pages) /\ connect' = [members |-> Members!Listed(pages), day |-> 0]
  BY DEF Members!PagedMembers
<1>3. PICK codes : codes = Members!Listed(pages)
  OBVIOUS
<1>4. connect'.members = codes
  BY <1>2, <1>3
<1>5. codes \subseteq Codes
  BY <1>3 DEF Members!Listed, SnapshotConstants
<1>6. codes # {}
  <2>1. Members!Cardinality(codes) \in Nat \ {0}
    BY <1>2, <1>3 DEF Members!Complete, SnapshotConstants
  <2> QED BY <2>1, MembersCounts, FS_EmptySet
<1>7. SomeMembers' /\ MembersFit'
  BY <1>4, <1>5, <1>6 DEF SomeMembers, MembersFit
<1> QED BY <1>1, <1>7, EndStep

LEMMA FetchKeeps ==
    ASSUME SnapshotConstants, SnapshotsInv, NEW p \in Refreshers, Members!FetchIndustries(p)
    PROVE  SnapshotsInv'
<1>1. PICK s : s = run[p]
  OBVIOUS
<1>2. /\ s.pc = "fetch" /\ s.pc \notin Holding /\ RunFits(s) /\ SomeMembers
      /\ UNCHANGED <<connect, csv, json, torn, locked, reader, faults>>
  BY <1>1 DEF Members!FetchIndustries, Members!At, Members!pair, Holding, SnapshotsInv, RunStands
<1>3. SomeMembers' /\ MembersFit'
  BY <1>2 DEF SomeMembers, MembersFit
<1>4. PICK sectors \in Profiles, list \in Lists, counts \in Counts :
        LET rows == Members!Industries(connect.members, sectors, list, counts)
        IN IF rows = None THEN Members!End(p) ELSE Members!Go(p, [s EXCEPT !.pc = "oldcsv", !.rows = rows])
  BY <1>1 DEF Members!FetchIndustries
<1>5. PICK rows : rows = Members!Industries(connect.members, sectors, list, counts)
  OBVIOUS
<1>6. CASE rows = None
  <2>1. Members!End(p)
    BY <1>4, <1>5, <1>6
  <2> QED BY <1>1, <1>2, <1>3, <2>1, EndStep
<1>7. CASE rows # None
  <2>1. PICK members \in SUBSET Codes : members = connect.members
    BY <1>2 DEF SomeMembers
  <2>2. Published(rows)
    BY <1>5, <1>7, <2>1, IndustriesFit
  <2>3. PICK r : r = [s EXCEPT !.pc = "oldcsv", !.rows = rows]
    OBVIOUS
  <2>4. DOMAIN r = DOMAIN Members!NewRun /\ r.pc = "oldcsv" /\ r.rows = rows /\ r.csv = s.csv /\ r.json = s.json
    BY <1>2, <2>3 DEF RunFits, Members!NewRun
  <2>5. RunFits(r) /\ r.pc \notin Holding /\ RunStands(r)'
    BY <1>2, <2>2, <2>4 DEF RunFits, Holding, RunStands
  <2>6. Members!Go(p, r)
    BY <1>4, <1>5, <1>7, <2>3
  <2> QED BY <1>1, <1>2, <1>3, <2>5, <2>6, WalkStep
<1> QED BY <1>6, <1>7

LEMMA OldKeeps ==
    ASSUME SnapshotConstants, SnapshotsInv, NEW p \in Refreshers, Members!OldCsv(p) \/ Members!OldJson(p)
    PROVE  SnapshotsInv'
<1>1. PICK s : s = run[p]
  OBVIOUS
<1>2. /\ RunFits(s) /\ RunStands(s) /\ Published(csv) /\ Published(json)
      /\ UNCHANGED <<connect, csv, json, torn, locked, reader, faults>>
  BY <1>1 DEF Members!OldCsv, Members!OldJson, Members!pair, SnapshotsInv, FilesFit
<1>3. (SomeMembers => SomeMembers') /\ MembersFit'
  BY <1>2 DEF SomeMembers, MembersFit, SnapshotsInv, FilesFit
<1>4. locked = None /\ ~torn => csv = json
  BY DEF SnapshotsInv, FilesFit
<1>5. CASE Members!OldCsv(p)
  <2>1. s.pc = "oldcsv" /\ Members!Go(p, [s EXCEPT !.pc = "oldjson", !.csv = csv])
    BY <1>1, <1>5 DEF Members!OldCsv, Members!At
  <2>2. PICK r : r = [s EXCEPT !.pc = "oldjson", !.csv = csv]
    OBVIOUS
  <2>3. DOMAIN r = DOMAIN Members!NewRun /\ r.pc = "oldjson" /\ r.rows = s.rows /\ r.csv = csv /\ r.json = s.json
    BY <1>2, <2>2 DEF RunFits, Members!NewRun
  <2>4. RunFits(r) /\ r.pc \notin Holding /\ RunStands(r)' /\ s.pc \notin Holding
    BY <1>2, <2>1, <2>3 DEF RunFits, Holding, RunStands
  <2> QED BY <1>1, <1>2, <1>3, <2>1, <2>2, <2>4, WalkStep
<1>6. CASE Members!OldJson(p)
  <2>1. s.pc = "oldjson" /\ Members!Go(p, [s EXCEPT !.pc = "lock", !.json = json])
    BY <1>1, <1>6 DEF Members!OldJson, Members!At
  <2>2. PICK r : r = [s EXCEPT !.pc = "lock", !.json = json]
    OBVIOUS
  <2>3. DOMAIN r = DOMAIN Members!NewRun /\ r.pc = "lock" /\ r.rows = s.rows /\ r.csv = s.csv /\ r.json = json /\ r.passed = s.passed
    BY <1>2, <2>2 DEF RunFits, Members!NewRun
  <2>4. RunFits(r) /\ r.pc \notin Holding /\ s.pc \notin Holding
    BY <1>2, <2>1, <2>3 DEF RunFits, Holding
  <2>5. RunStands(r)'
    BY <1>2, <2>1, <2>3 DEF RunStands, Holding
  <2> QED BY <1>1, <1>2, <1>3, <2>1, <2>2, <2>4, <2>5, WalkStep
<1> QED BY <1>5, <1>6

LEMMA LockKeeps == ASSUME SnapshotConstants, SnapshotsInv, NEW p \in Refreshers, Members!Lock(p) PROVE SnapshotsInv'
<1>1. PICK s : s = run[p]
  OBVIOUS
<1>2. /\ s.pc = "lock" /\ s.pc \notin Holding /\ RunFits(s) /\ RunStands(s)
      /\ UNCHANGED <<connect, csv, json, torn, reader, faults>>
  BY <1>1 DEF Members!Lock, Members!At, Members!pair, SnapshotsInv, Holding
<1>3. (SomeMembers => SomeMembers') /\ MembersFit' /\ Published(csv)' /\ faults' \in 0 .. MaxFaults
  BY <1>2, FitsStay DEF SomeMembers, MembersFit, SnapshotsInv, FilesFit
<1>4. CASE locked # None /\ Members!End(p) /\ UNCHANGED locked
  BY <1>1, <1>2, <1>3, <1>4, EndStep
<1>5. CASE locked = None /\ locked' = p /\ Members!Go(p, [s EXCEPT !.pc = "csv"])
  <2>1. ~torn => csv = json
    BY <1>5 DEF SnapshotsInv, FilesFit
  <2>2. PICK r : r = [s EXCEPT !.pc = "csv"]
    OBVIOUS
  <2>3. DOMAIN r = DOMAIN Members!NewRun /\ r.pc = "csv" /\ r.rows = s.rows /\ r.csv = s.csv /\ r.json = s.json /\ r.passed = s.passed
    BY <1>2, <2>2 DEF RunFits, Members!NewRun
  <2>4. RunFits(r) /\ r.pc \in Holding
    BY <1>2, <2>3 DEF RunFits, Holding
  <2>5. RunStands(r)'
    BY <1>2, <1>5, <2>1, <2>3 DEF RunStands, Holding
  <2>6. Published(csv')
    BY <1>3, FitsStay
  <2> QED BY <1>2, <1>3, <1>5, <2>2, <2>4, <2>5, <2>6, HoldStep
<1> QED BY <1>1, <1>4, <1>5 DEF Members!Lock

LEMMA FaultCounts == ASSUME SnapshotConstants, SnapshotsInv, Members!Fault PROVE faults' \in 0 .. MaxFaults
<1>1. MaxFaults \in Nat /\ faults \in 0 .. MaxFaults
  BY DEF SnapshotConstants, SnapshotsInv, FilesFit
<1> QED BY <1>1 DEF Members!Fault

\* What the one that has the lock knows.
LEMMA HolderKnows ==
    ASSUME SnapshotConstants, SnapshotsInv, NEW p \in Refreshers, run[p].pc \in Holding
    PROVE  /\ locked = p /\ RunFits(run[p]) /\ RunStands(run[p]) /\ Published(csv) /\ Published(json)
           /\ faults \in 0 .. MaxFaults /\ torn \in BOOLEAN
  BY DEF SnapshotsInv, FilesFit

LEMMA WriteCsvKeeps ==
    ASSUME SnapshotConstants, SnapshotsInv, NEW p \in Refreshers, Members!WriteCsv(p)
    PROVE  SnapshotsInv'
<1>1. PICK s : s = run[p]
  OBVIOUS
<1>2. s.pc = "csv" /\ s.pc \in Holding /\ UNCHANGED <<connect, reader>>
  BY <1>1 DEF Members!WriteCsv, Members!At, Holding
<1>3. /\ locked = p /\ RunFits(s) /\ RunStands(s) /\ Published(csv) /\ Published(json)
      /\ faults \in 0 .. MaxFaults /\ torn \in BOOLEAN
  BY <1>1, <1>2, HolderKnows
<1>4. CASE /\ csv' = s.rows /\ Members!Go(p, [s EXCEPT !.pc = "json"])
           /\ UNCHANGED <<json, torn, locked, faults>>
  <2>1. PICK r : r = [s EXCEPT !.pc = "json"]
    OBVIOUS
  <2>2. DOMAIN r = DOMAIN Members!NewRun /\ r.pc = "json" /\ r.rows = s.rows /\ r.csv = s.csv /\ r.json = s.json /\ r.passed = s.passed
    BY <1>3, <2>1 DEF RunFits, Members!NewRun
  <2>3. RunFits(r) /\ r.pc \in Holding /\ Published(csv')
    BY <1>3, <1>4, <2>2 DEF RunFits, Holding
  <2>4. RunStands(r)'
    BY <1>2, <1>3, <1>4, <2>2 DEF RunStands, Holding
  <2> QED BY <1>2, <1>3, <1>4, <2>1, <2>3, <2>4, HoldStep
<1>5. CASE Members!Fault /\ Members!Give(p) /\ UNCHANGED Members!pair
  <2>1. UNCHANGED <<csv, json, torn>> /\ faults' \in 0 .. MaxFaults
    BY <1>5, FaultCounts DEF Members!pair
  <2>2. ~torn => csv = json
    BY <1>2, <1>3 DEF RunStands
  <2> QED BY <1>2, <1>3, <1>5, <2>1, <2>2, GiveStep
<1> QED BY <1>1, <1>4, <1>5 DEF Members!WriteCsv

LEMMA WriteJsonKeeps ==
    ASSUME SnapshotConstants, SnapshotsInv, NEW p \in Refreshers, Members!WriteJson(p)
    PROVE  SnapshotsInv'
<1>1. PICK s : s = run[p]
  OBVIOUS
<1>2. s.pc = "json" /\ s.pc \in Holding /\ UNCHANGED <<connect, reader>>
  BY <1>1 DEF Members!WriteJson, Members!At, Holding
<1>3. /\ locked = p /\ RunFits(s) /\ RunStands(s) /\ Published(csv) /\ Published(json)
      /\ faults \in 0 .. MaxFaults /\ torn \in BOOLEAN
  BY <1>1, <1>2, HolderKnows
<1>4. csv = s.rows
  BY <1>2, <1>3 DEF RunStands
<1>5. CASE json' = s.rows /\ torn' = FALSE /\ Members!Give(p) /\ UNCHANGED <<csv, faults>>
  BY <1>2, <1>3, <1>4, <1>5, GiveStep
<1>6. CASE Members!Fault /\ Members!Go(p, [s EXCEPT !.pc = "backcsv"]) /\ UNCHANGED <<Members!pair, locked>>
  <2>1. UNCHANGED <<csv, json, torn, locked>> /\ faults' \in 0 .. MaxFaults
    BY <1>6, FaultCounts DEF Members!pair
  <2>2. PICK r : r = [s EXCEPT !.pc = "backcsv"]
    OBVIOUS
  <2>3. DOMAIN r = DOMAIN Members!NewRun /\ r.pc = "backcsv" /\ r.rows = s.rows /\ r.csv = s.csv /\ r.json = s.json /\ r.passed = s.passed
    BY <1>3, <2>2 DEF RunFits, Members!NewRun
  <2>4. RunFits(r) /\ r.pc \in Holding /\ Published(csv')
    BY <1>3, <2>1, <2>3 DEF RunFits, Holding
  <2>5. RunStands(r)'
    BY <1>2, <1>3, <1>4, <2>1, <2>3 DEF RunStands, Holding
  <2> QED BY <1>2, <1>3, <1>6, <2>1, <2>2, <2>4, <2>5, HoldStep
<1> QED BY <1>1, <1>5, <1>6 DEF Members!WriteJson

LEMMA BackCsvKeeps ==
    ASSUME SnapshotConstants, SnapshotsInv, NEW p \in Refreshers, Members!BackCsv(p)
    PROVE  SnapshotsInv'
<1>1. PICK s : s = run[p]
  OBVIOUS
<1>2. s.pc = "backcsv" /\ s.pc \in Holding /\ UNCHANGED <<connect, reader>>
  BY <1>1 DEF Members!BackCsv, Members!At, Holding
<1>3. /\ locked = p /\ RunFits(s) /\ RunStands(s) /\ Published(csv) /\ Published(json)
      /\ faults \in 0 .. MaxFaults /\ torn \in BOOLEAN
  BY <1>1, <1>2, HolderKnows
<1>4. CASE /\ csv' = s.csv /\ Members!Go(p, [s EXCEPT !.pc = "backjson"])
           /\ UNCHANGED <<json, torn, locked, faults>>
  <2>1. PICK r : r = [s EXCEPT !.pc = "backjson"]
    OBVIOUS
  <2>2. DOMAIN r = DOMAIN Members!NewRun /\ r.pc = "backjson" /\ r.rows = s.rows /\ r.csv = s.csv /\ r.json = s.json /\ r.passed = s.passed
    BY <1>3, <2>1 DEF RunFits, Members!NewRun
  <2>3. RunFits(r) /\ r.pc \in Holding /\ Published(csv')
    BY <1>3, <1>4, <2>2 DEF RunFits, Holding
  <2>4. RunStands(r)'
    BY <1>2, <1>3, <1>4, <2>2 DEF RunStands, Holding
  <2> QED BY <1>2, <1>3, <1>4, <2>1, <2>3, <2>4, HoldStep
<1>5. CASE Members!Fault /\ torn' = TRUE /\ Members!Give(p) /\ UNCHANGED <<csv, json>>
  <2>1. faults' \in 0 .. MaxFaults
    BY <1>5, FaultCounts
  <2> QED BY <1>2, <1>3, <1>5, <2>1, GiveStep
<1> QED BY <1>1, <1>4, <1>5 DEF Members!BackCsv

LEMMA BackJsonKeeps ==
    ASSUME SnapshotConstants, SnapshotsInv, NEW p \in Refreshers, Members!BackJson(p)
    PROVE  SnapshotsInv'
<1>1. PICK s : s = run[p]
  OBVIOUS
<1>2. s.pc = "backjson" /\ s.pc \in Holding /\ UNCHANGED <<connect, reader>>
  BY <1>1 DEF Members!BackJson, Members!At, Holding
<1>3. /\ locked = p /\ RunFits(s) /\ RunStands(s) /\ Published(csv) /\ Published(json)
      /\ faults \in 0 .. MaxFaults /\ torn \in BOOLEAN
  BY <1>1, <1>2, HolderKnows
<1>4. CASE json' = s.json /\ torn' = (torn \/ s.passed) /\ Members!Give(p) /\ UNCHANGED <<csv, faults>>
  <2>1. csv = s.csv /\ (~torn /\ ~s.passed => s.csv = s.json) /\ Published(s.json)
    BY <1>2, <1>3 DEF RunStands, RunFits
  <2>2. torn' \in BOOLEAN
    BY <1>4
  <2>3. ~torn' => csv' = json'
    BY <1>4, <2>1
  <2> QED BY <1>2, <1>3, <1>4, <2>1, <2>2, <2>3, GiveStep
<1>5. CASE Members!Fault /\ torn' = TRUE /\ Members!Give(p) /\ UNCHANGED <<csv, json>>
  <2>1. faults' \in 0 .. MaxFaults
    BY <1>5, FaultCounts
  <2> QED BY <1>2, <1>3, <1>5, <2>1, GiveStep
<1> QED BY <1>1, <1>4, <1>5 DEF Members!BackJson

LEMMA KillKeepsHere ==
    ASSUME SnapshotConstants, SnapshotsInv, NEW p \in Refreshers, Members!Kill(p)
    PROVE  SnapshotsInv'
<1>1. UNCHANGED <<connect, csv, json, reader, faults>>
  BY DEF Members!Kill
<1>2. CASE locked = p
  <2>1. PICK s : s = run[p]
    OBVIOUS
  <2>2. s.pc \in Holding
    BY <1>2, <2>1 DEF SnapshotsInv
  <2>3. /\ RunStands(s) /\ Published(csv) /\ Published(json) /\ faults \in 0 .. MaxFaults /\ torn \in BOOLEAN
    BY <2>1, <2>2, HolderKnows
  <2>4. Members!Give(p) /\ torn' = (torn \/ s.pc \in {"json", "backcsv", "backjson"})
    BY <1>2, <2>1 DEF Members!Kill
  <2>5. torn' \in BOOLEAN /\ (~torn' => csv = json)
    BY <2>2, <2>3, <2>4 DEF RunStands, Holding
  <2> QED BY <1>1, <1>2, <2>3, <2>4, <2>5, GiveStep
<1>3. CASE locked # p
  <2>1. run[p].pc \notin Holding /\ Members!End(p) /\ UNCHANGED <<locked, torn>>
    BY <1>3 DEF Members!Kill, SnapshotsInv
  <2>2. MembersFit' /\ (SomeMembers => SomeMembers')
    BY <1>1 DEF SnapshotsInv, FilesFit, MembersFit, SomeMembers
  <2> QED BY <1>1, <2>1, <2>2, EndStep
<1> QED BY <1>2, <1>3

-----------------------------------------------------------------------------
LEMMA ReadStep ==
    ASSUME SnapshotConstants, SnapshotsInv, NEW p \in Readers, NEW r, Members!RGo(p, r), ReaderFits(r), UNCHANGED Members!files
    PROVE  SnapshotsInv'
<1>1. UNCHANGED <<connect, csv, json, torn, locked, run, faults>>
  BY DEF Members!files, Members!pair
<1>2. DOMAIN reader' = Readers /\ \A q \in Readers : ReaderFits(reader'[q])
  BY DEF Members!RGo, SnapshotsInv
<1>3. FilesFit'
  BY <1>1, FitsStay DEF SnapshotsInv, FilesFit, MembersFit, SomeMembers
<1>4. \A q \in Refreshers : RunFits(run[q])' /\ RunStands(run[q])' /\ (run[q].pc \in Holding <=> locked = q)'
  BY <1>1, FitsStay DEF SnapshotsInv, RunStands, SomeMembers, Holding
<1> QED BY <1>1, <1>2, <1>3, <1>4, FitsStay DEF SnapshotsInv

LEMMA ReadKeeps == ASSUME SnapshotConstants, SnapshotsInv, NEW p \in Readers, Members!Read(p) PROVE SnapshotsInv'
<1>1. PICK s : s = reader[p]
  OBVIOUS
<1>2. ReaderFits(s) /\ Published(csv) /\ UNCHANGED Members!files
  BY <1>1 DEF SnapshotsInv, FilesFit, Members!Read, Members!ReadJson, Members!Digest, Members!ReadRows,
     Members!ReadConnect
<1>3. CASE Members!ReadJson(p)
  <2>1. PICK r : r = [Members!NewReader EXCEPT !.pc = "digest", !.named = json]
    OBVIOUS
  <2>2. DOMAIN r = DOMAIN Members!NewReader /\ r.pc = "digest"
    BY <2>1 DEF Members!NewReader
  <2>3. ReaderFits(r) /\ Members!RGo(p, r)
    BY <1>3, <2>1, <2>2 DEF ReaderFits, Members!ReadJson
  <2> QED BY <1>2, <2>3, ReadStep
<1>4. CASE Members!RGo(p, [Members!NewReader EXCEPT !.pc = "failed"])
  <2>1. PICK r : r = [Members!NewReader EXCEPT !.pc = "failed"]
    OBVIOUS
  <2>2. DOMAIN r = DOMAIN Members!NewReader /\ r.pc = "failed"
    BY <2>1 DEF Members!NewReader
  <2>3. ReaderFits(r) /\ Members!RGo(p, r)
    BY <1>4, <2>1, <2>2 DEF ReaderFits
  <2> QED BY <1>2, <2>3, ReadStep
<1>5. CASE Members!RGo(p, [s EXCEPT !.pc = "rows"])
  <2>1. PICK r : r = [s EXCEPT !.pc = "rows"]
    OBVIOUS
  <2>2. DOMAIN r = DOMAIN Members!NewReader /\ r.pc = "rows"
    BY <1>2, <2>1 DEF Members!NewReader, ReaderFits
  <2>3. ReaderFits(r) /\ Members!RGo(p, r)
    BY <1>5, <2>1, <2>2 DEF ReaderFits
  <2> QED BY <1>2, <2>3, ReadStep
<1>6. CASE Members!RGo(p, [s EXCEPT !.pc = "connect", !.rows = csv]) /\ csv # None
  <2>1. PICK r : r = [s EXCEPT !.pc = "connect", !.rows = csv]
    OBVIOUS
  <2>2. DOMAIN r = DOMAIN Members!NewReader /\ r.pc = "connect" /\ r.rows = csv
    BY <1>2, <2>1 DEF Members!NewReader, ReaderFits
  <2>3. ReaderFits(r) /\ Members!RGo(p, r)
    BY <1>2, <1>6, <2>1, <2>2 DEF ReaderFits
  <2> QED BY <1>2, <2>3, ReadStep
<1>7. CASE Members!ReadConnect(p)
  <2>1. s.pc = "connect" /\ Members!RGo(p, [s EXCEPT !.pc = "done", !.members = DOMAIN s.rows \intersect connect.members])
    BY <1>1, <1>7 DEF Members!ReadConnect, Members!RAt
  <2>2. PICK members : members = DOMAIN s.rows \intersect connect.members
    OBVIOUS
  <2>3. PICK r : r = [s EXCEPT !.pc = "done", !.members = members]
    OBVIOUS
  <2>4. DOMAIN r = DOMAIN Members!NewReader /\ r.pc = "done" /\ r.rows = s.rows /\ r.members = members
    BY <1>2, <2>3 DEF Members!NewReader, ReaderFits
  <2>5. ReaderFits(r)
    BY <1>2, <2>1, <2>2, <2>4 DEF ReaderFits
  <2>6. Members!RGo(p, r)
    BY <2>1, <2>2, <2>3
  <2> QED BY <1>2, <2>5, <2>6, ReadStep
<1>8. CASE Members!Digest(p)
  BY <1>1, <1>4, <1>5, <1>8 DEF Members!Digest
<1>9. CASE Members!ReadRows(p)
  BY <1>1, <1>4, <1>6, <1>9 DEF Members!ReadRows
<1> QED BY <1>3, <1>7, <1>8, <1>9 DEF Members!Read

LEMMA SnapshotsStep == ASSUME SnapshotConstants, SnapshotsInv, [Members!Next]_Members!hkvars PROVE SnapshotsInv'
<1>1. ASSUME NEW p \in Refreshers, Members!Refresh(p) PROVE SnapshotsInv'
  BY <1>1, MembersKeeps, PagedMembersKeeps, FetchKeeps, OldKeeps, LockKeeps, WriteCsvKeeps, WriteJsonKeeps,
     BackCsvKeeps, BackJsonKeeps, KillKeepsHere DEF Members!Refresh
<1>2. CASE UNCHANGED Members!hkvars
  <2>1. UNCHANGED <<connect, csv, json, torn, locked, run, reader, faults>>
    BY <1>2 DEF Members!hkvars
  <2>2. FilesFit'
    BY <2>1, FitsStay DEF SnapshotsInv, FilesFit, MembersFit, SomeMembers
  <2>3. \A q \in Refreshers : RunFits(run[q])' /\ RunStands(run[q])' /\ (run[q].pc \in Holding <=> locked = q)'
    BY <2>1, FitsStay DEF SnapshotsInv, RunStands, SomeMembers, Holding
  <2>4. DOMAIN reader' = Readers /\ \A q \in Readers : ReaderFits(reader[q])'
    BY <2>1, FitsStay DEF SnapshotsInv
  <2> QED BY <2>1, <2>2, <2>3, <2>4 DEF SnapshotsInv
<1> QED BY <1>1, <1>2, ReadKeeps DEF Members!Next

LEMMA SnapshotsSay == ASSUME SnapshotsInv PROVE Members!HKTypeOK /\ Members!HKSafe
<1>1. Members!HKTypeOK
  BY DEF SnapshotsInv, FilesFit, MembersFit, SomeMembers, Published, Members!HKTypeOK
<1>2. Members!PairedAtRest
  BY DEF SnapshotsInv, FilesFit, Members!PairedAtRest
<1>3. Members!PeersAgree
  <2> SUFFICES ASSUME NEW p \in Readers, reader[p].pc = "done"
               PROVE  reader[p].members \subseteq DOMAIN reader[p].rows /\ Edition(reader[p].rows)
    BY DEF Members!PeersAgree, Edition
  <2> QED BY DEF SnapshotsInv, ReaderFits, Published
<1> QED BY <1>1, <1>2, <1>3 DEF Members!HKSafe

\* The two files of a Hong Kong industry edition name the same edition whenever no
\* refresh holds their lock or was torn between them, each holds what passed the checks
\* against an official list, and an analysis takes members of the edition it read, for
\* any number of refreshes and readers and whatever writes fail.
THEOREM SnapshotsArePaired == SnapshotConstants /\ Members!Spec => [](Members!HKTypeOK /\ Members!HKSafe)
<1> SUFFICES ASSUME SnapshotConstants PROVE Members!Spec => [](Members!HKTypeOK /\ Members!HKSafe)
  OBVIOUS
<1>1. Members!Init => SnapshotsInv
  BY SnapshotsInit
<1>2. SnapshotsInv /\ [Members!Next]_Members!hkvars => SnapshotsInv'
  BY SnapshotsStep
<1>3. SnapshotsInv => Members!HKTypeOK /\ Members!HKSafe
  BY SnapshotsSay
<1> QED BY <1>1, <1>2, <1>3, PTL DEF Members!Spec

-----------------------------------------------------------------------------
(* IndustryMapping.  A rebuild has every stock that the industries it calls   *)
(* completed gave, and the checkpoint is behind it (BuildStands); a publisher *)
(* that no rewrite of the candidate tore has read as much of it (Covered); a  *)
(* writer under the lock still has the verified rows (Keeps).                 *)

CONSTANTS Builders, Writers, Kinds, Worlds, Tables, Stocks, Others, Rate, MaxBuilders
VARIABLES table, candidate, checkpoint, build, writer, given

Mapping == INSTANCE IndustryMapping

\* How the instance counts.
LEMMA MappingCounts == \A S : Mapping!Cardinality(S) = Cardinality(S)
  BY Zenon DEF Mapping!Cardinality, Cardinality

RowsFit(rows, S) == DOMAIN rows \subseteq S /\ \A s \in DOMAIN rows : rows[s] \in Mapping!Row
\* Rebuilds run one at a time.  An edition of the site has industries, each with a
\* level 2 name for a parent; its pages list stocks; the table has the rows of others.
MappingConstants ==
    /\ IsFiniteSet(Builders) /\ MaxBuilders = 1 /\ None \notin Writers
    /\ Worlds \in Seq(Mapping!Trees) /\ Worlds # <<>>
    /\ \A t \in Mapping!Trees :
          /\ t.codes \in Seq(DOMAIN t.parent) /\ t.codes # <<>>
          /\ \A k \in DOMAIN t.codes : t.parent[t.codes[k]] \in t.names
          /\ \A i \in Mapping!Industries : DOMAIN t.lists[i] \subseteq Stocks
    /\ \A rows \in Tables : RowsFit(rows, Mapping!Symbols) /\ Others \subseteq DOMAIN rows

Walking == {"fetch", "rows", "state"}
NamesOf(rows) == {rows[s].level2 : s \in DOMAIN rows}
BuildFits(r) ==
    /\ DOMAIN r = DOMAIN Mapping!NewBuild /\ r.pc \in {"new", "unlink", "done"} \union Walking
    /\ r.pc = "unlink" => r.completed = {}
    /\ r.pc \in {"unlink"} \union Walking =>
          /\ r.tree \in Mapping!Trees
          /\ RowsFit(r.rows, Stocks) /\ NamesOf(r.rows) \subseteq r.tree.names
          /\ r.completed \subseteq Mapping!Industries /\ r.failed \subseteq Mapping!Industries
          /\ r.at \in 1 .. Len(r.tree.codes)
\* What a rebuild knows: all that the industries it calls completed gave; the
\* checkpoint is behind it.
BuildStands(r) ==
    /\ r.pc = "unlink" => candidate = None
    /\ r.pc \in Walking =>
          /\ \A i \in r.completed : given[i] \subseteq DOMAIN r.rows
          /\ checkpoint # None => checkpoint.names = r.tree.names /\ checkpoint.completed \subseteq r.completed
    /\ r.pc = "state" => candidate = r.rows

Works == {"publish", "update", "backfill", "migrate"}
WriterFits(r) ==
    /\ DOMAIN r = DOMAIN Mapping!NewWriter /\ r.pc \in {"new", "state", "lock", "write", "done"}
    /\ r.pc \in {"state", "lock", "write"} => r.kind \in Works
    /\ r.pc = "state" => r.kind = "publish" /\ RowsFit(r.rows, Stocks)
    /\ (r.pc \in {"lock", "write"} /\ r.kind = "update") => \E s \in Stocks : r.of = {s}
    /\ (r.pc = "lock" /\ r.kind \in {"update", "backfill"}) => r.of \subseteq Stocks /\ r.level2 \in Mapping!Level2
    /\ (r.pc = "lock" /\ r.kind = "publish") =>
          RowsFit(r.rows, Stocks) /\ (~r.torn => DOMAIN r.rows = {} \/ r.gave \subseteq DOMAIN r.rows)
    /\ r.pc = "write" => RowsFit(r.rows, Mapping!Symbols) /\ Others \subseteq DOMAIN r.rows
    /\ (r.pc = "write" /\ r.kind = "publish" /\ ~r.torn) => r.gave \subseteq DOMAIN r.rows
\* What a publisher has read of the candidate before it reads the checkpoint.
Covered(rows) ==
    /\ checkpoint # None => \A i \in checkpoint.completed : given[i] \subseteq DOMAIN rows
    /\ \A b \in Builders : build[b].pc = "state" => \A i \in build[b].completed : given[i] \subseteq DOMAIN rows
\* What a writer is about to write of the table under its lock.
MappingKeeps(r) ==
    \A s \in DOMAIN table : table[s].status = "verified" =>
        \/ r.kind = "publish" \/ (r.kind = "update" /\ r.of = {s})
        \/ s \in DOMAIN r.rows /\ r.rows[s] = table[s]
WriterStands(r) ==
    /\ (r.pc = "state" /\ ~r.torn) => DOMAIN r.rows = {} \/ Covered(r.rows)
    /\ r.pc = "write" => MappingKeeps(r)

CandidateFits == candidate # None => RowsFit(candidate, Stocks)
CheckpointFits == checkpoint # None => /\ checkpoint.completed \subseteq Mapping!Industries /\ checkpoint.failed \subseteq Mapping!Industries
TableFits == RowsFit(table, Mapping!Symbols) /\ Others \subseteq DOMAIN table
MappingFilesFit == CandidateFits /\ CheckpointFits /\ Mapping!CheckpointBehind /\ Mapping!NamesKnown /\ given \in [Mapping!Industries -> SUBSET Stocks]
BuildsFit ==
    /\ DOMAIN build = Builders /\ \A b \in Builders : BuildFits(build[b]) /\ BuildStands(build[b])
    /\ \A b, c \in Mapping!Busy : b = c
WritersFit ==
    /\ DOMAIN writer = Writers /\ locked \in Writers \union {None}
    /\ \A w \in Writers : WriterFits(writer[w]) /\ WriterStands(writer[w]) /\ (writer[w].pc = "write" <=> locked = w)
MappingInv == now \in DOMAIN Worlds /\ TableFits /\ MappingFilesFit /\ BuildsFit /\ WritersFit

-----------------------------------------------------------------------------
LEMMA PutFits ==
    ASSUME NEW S, NEW f, NEW g, RowsFit(f, S), RowsFit(g, S), NEW h, h = Mapping!Put(f, g)
    PROVE  RowsFit(h, S)
<1>1. DOMAIN h = DOMAIN f \union DOMAIN g
  BY DEF Mapping!Put
<1>2. \A s \in DOMAIN h : h[s] = IF s \in DOMAIN g THEN g[s] ELSE f[s]
  BY <1>1 DEF Mapping!Put
<1> QED BY <1>1, <1>2 DEF RowsFit

LEMMA TreeFits == ASSUME MappingConstants, now \in DOMAIN Worlds PROVE Mapping!tree \in Mapping!Trees
  BY DEF Mapping!tree, Mapping!Trees

LEMMA RowIs == \A n \in Mapping!Level2 : Mapping!Verified(n) \in Mapping!Row /\ Mapping!Verified(n).level2 = n /\ Mapping!Verified(n).status = "verified"
  BY DEF Mapping!Verified, Mapping!Row

LEMMA NamesFit == \A t \in Mapping!Trees : t.names \subseteq Mapping!Level2
  BY DEF Mapping!Level2

LEMMA EmptyFits == \A S : RowsFit(Mapping!Empty, S) /\ DOMAIN Mapping!Empty = {} /\ NamesOf(Mapping!Empty) = {}
  BY DEF RowsFit, Mapping!Empty, NamesOf

\* An industry that a rebuild comes to is one of its tree.
LEMMA IndustryFits ==
    ASSUME MappingConstants, NEW t \in Mapping!Trees, NEW k \in 1 .. Len(t.codes), NEW i, i = t.codes[k]
    PROVE  i \in Mapping!Industries /\ t.parent[i] \in t.names
<1>1. k \in DOMAIN t.codes /\ i \in DOMAIN t.parent
  BY DEF MappingConstants
<1> QED BY <1>1 DEF MappingConstants, Mapping!Industries

\* What an industry gives is named by the tree of the rebuild, whichever edition it reads.
LEMMA ListedFits ==
    ASSUME MappingConstants, now \in DOMAIN Worlds, NEW r, BuildFits(r), r.pc = "fetch",
           NEW i, i = r.tree.codes[r.at], NEW rows, rows = Mapping!Listed(r, i)
    PROVE  /\ i \in Mapping!Industries /\ DOMAIN Mapping!Constituents(i) \subseteq Stocks
           /\ DOMAIN rows = DOMAIN Mapping!Constituents(i) \union DOMAIN r.rows
           /\ RowsFit(rows, Stocks) /\ NamesOf(rows) \subseteq r.tree.names
<1>1. r.tree \in Mapping!Trees /\ RowsFit(r.rows, Stocks) /\ NamesOf(r.rows) \subseteq r.tree.names /\ r.at \in 1 .. Len(r.tree.codes)
  BY DEF BuildFits, Walking
<1>2. i \in Mapping!Industries /\ r.tree.parent[i] \in r.tree.names
  BY <1>1, IndustryFits
<1>3. DOMAIN Mapping!Constituents(i) \subseteq Stocks
  BY <1>2, TreeFits DEF Mapping!Constituents, MappingConstants
<1>4. PICK stocks : stocks = Mapping!Constituents(i)
  OBVIOUS
<1>5. PICK new : new = [s \in DOMAIN stocks |-> Mapping!Verified(Mapping!Named(r.tree, i, stocks[s]))]
  OBVIOUS
<1>6. \A n : Mapping!Named(r.tree, i, n) \in r.tree.names
  BY <1>2 DEF Mapping!Named
<1>7. DOMAIN new = DOMAIN stocks /\ \A s \in DOMAIN new : new[s] \in Mapping!Row /\ new[s].level2 \in r.tree.names
  BY <1>1, <1>5, <1>6, RowIs, NamesFit
<1>8. rows = Mapping!Put(new, r.rows)
  BY <1>4, <1>5 DEF Mapping!Listed
<1>9. DOMAIN rows = DOMAIN stocks \union DOMAIN r.rows /\ \A s \in DOMAIN rows : rows[s] = IF s \in DOMAIN r.rows THEN r.rows[s] ELSE new[s]
  <2>1. DOMAIN rows = DOMAIN new \union DOMAIN r.rows
    BY <1>8 DEF Mapping!Put
  <2>2. \A s \in DOMAIN rows : rows[s] = IF s \in DOMAIN r.rows THEN r.rows[s] ELSE new[s]
    BY <1>8, <2>1 DEF Mapping!Put
  <2> QED BY <1>7, <2>1, <2>2
<1>10. RowsFit(rows, Stocks)
  BY <1>1, <1>3, <1>4, <1>7, <1>9 DEF RowsFit
<1>11. NamesOf(rows) \subseteq r.tree.names
  <2> SUFFICES ASSUME NEW s \in DOMAIN rows PROVE rows[s].level2 \in r.tree.names
    BY DEF NamesOf
  <2> QED BY <1>1, <1>7, <1>9 DEF NamesOf
<1> QED BY <1>2, <1>3, <1>4, <1>9, <1>10, <1>11

LEMMA MappingInit == MappingConstants /\ Mapping!Init => MappingInv
<1> SUFFICES ASSUME MappingConstants, Mapping!Init PROVE MappingInv
  OBVIOUS
<1>1. now \in DOMAIN Worlds
  BY DEF Mapping!Init, MappingConstants
<1>2. TableFits
  BY DEF Mapping!Init, MappingConstants, TableFits
<1>3. MappingFilesFit
  BY DEF Mapping!Init, MappingFilesFit, CandidateFits, CheckpointFits, Mapping!CheckpointBehind,
     Mapping!NamesKnown, Mapping!Nothing
<1>4. BuildsFit
  <2>1. BuildFits(Mapping!NewBuild) /\ BuildStands(Mapping!NewBuild) /\ Mapping!NewBuild.pc = "new"
    BY DEF BuildFits, BuildStands, Mapping!NewBuild, Walking
  <2> QED BY <2>1 DEF Mapping!Init, BuildsFit, Mapping!Busy
<1>5. WritersFit
  <2>1. WriterFits(Mapping!NewWriter) /\ WriterStands(Mapping!NewWriter) /\ Mapping!NewWriter.pc = "new"
    BY DEF WriterFits, WriterStands, Mapping!NewWriter
  <2> QED BY <2>1 DEF Mapping!Init, WritersFit, MappingConstants
<1> QED BY <1>1, <1>2, <1>3, <1>4, <1>5 DEF MappingInv

-----------------------------------------------------------------------------
\* What a value is does not change with the state.
LEMMA MappingFitsStay == \A r : (BuildFits(r)' <=> BuildFits(r')) /\ (WriterFits(r)' <=> WriterFits(r'))
  BY DEF BuildFits, WriterFits, RowsFit, NamesOf, Mapping!NewBuild, Mapping!NewWriter, Mapping!Row,
     Mapping!Level2, Mapping!Trees, Mapping!Industries, Mapping!Symbols, Walking, Works

Alone(b) == \A c \in Builders \ {b} : build[c].pc \in {"new", "done"}
LEMMA AloneAtWork == ASSUME MappingInv, NEW b \in Mapping!Busy PROVE b \in Builders /\ Alone(b)
<1>1. b \in Builders
  BY DEF Mapping!Busy
<1>2. ASSUME NEW c \in Builders \ {b}, build[c].pc \notin {"new", "done"} PROVE FALSE
  <2>1. c \in Mapping!Busy
    BY <1>2 DEF Mapping!Busy
  <2> QED BY <2>1 DEF MappingInv, BuildsFit
<1> QED BY <1>1, <1>2 DEF Alone
LEMMA AloneAtStart ==
    ASSUME MappingConstants, Mapping!Cardinality(Mapping!Busy) < MaxBuilders
    PROVE  \A b \in Builders : Alone(b)
<1>1. IsFiniteSet(Mapping!Busy)
  BY FS_Subset DEF MappingConstants, Mapping!Busy
<1>2. Cardinality(Mapping!Busy) \in Nat /\ Cardinality(Mapping!Busy) < 1
  BY <1>1, MappingCounts, FS_CardinalityType DEF MappingConstants
<1>3. Cardinality(Mapping!Busy) = 0
  BY <1>2
<1>4. Mapping!Busy = {}
  BY <1>1, <1>3, FS_EmptySet
<1> QED BY <1>4 DEF Alone, Mapping!Busy

\* A rebuild goes on; the others have not begun or have ended.
LEMMA BuildMoves ==
    ASSUME MappingInv, NEW b \in Builders, Alone(b), NEW r, Mapping!BGo(b, r), BuildFits(r), BuildStands(r)'
    PROVE  /\ BuildsFit' /\ build'[b] = r
           /\ \A c \in Builders \ {b} : build'[c] = build[c] /\ build[c].pc \in {"new", "done"}
<1>1. DOMAIN build' = Builders /\ \A c \in Builders : build'[c] = IF c = b THEN r ELSE build[c]
  BY DEF Mapping!BGo, MappingInv, BuildsFit
<1>2. \A c \in Builders \ {b} : build'[c] = build[c] /\ build[c].pc \in {"new", "done"}
  BY <1>1 DEF Alone
<1>3. ASSUME NEW c \in Builders PROVE BuildFits(build'[c]) /\ BuildStands(build[c])'
  <2>1. CASE c = b
    BY <1>1, <2>1 DEF BuildStands
  <2>2. CASE c # b
    <3>1. build'[c] = build[c] /\ build[c].pc \in {"new", "done"} /\ BuildFits(build[c])
      BY <1>2, <2>2 DEF MappingInv, BuildsFit
    <3> QED BY <3>1 DEF BuildStands, Walking
  <2> QED BY <2>1, <2>2
<1>4. \A c, d \in Mapping!Busy' : c = d
  BY <1>1, <1>2 DEF Mapping!Busy
<1> QED BY <1>1, <1>2, <1>3, <1>4, MappingFitsStay DEF BuildsFit

\* The writers are where they were.
LEMMA WritersRest ==
    ASSUME MappingInv, UNCHANGED <<now, table, locked, writer>>, \A rows : Covered(rows) => Covered(rows)'
    PROVE  WritersFit' /\ TableFits' /\ now' \in DOMAIN Worlds
<1>1. ASSUME NEW w \in Writers
      PROVE  WriterFits(writer[w])' /\ WriterStands(writer[w])' /\ (writer'[w].pc = "write" <=> locked' = w)
  <2>1. WriterFits(writer[w]) /\ WriterStands(writer[w]) /\ (writer[w].pc = "write" <=> locked = w) /\ writer'[w] = writer[w]
    BY DEF MappingInv, WritersFit
  <2>2. PICK r : r = writer[w]
    OBVIOUS
  <2>3. (r.pc = "state" /\ ~r.torn) => DOMAIN r.rows = {} \/ Covered(r.rows)'
    BY <2>1, <2>2 DEF WriterStands
  <2>4. r.pc = "write" => MappingKeeps(r)'
    BY <2>1, <2>2 DEF WriterStands, MappingKeeps
  <2>5. WriterStands(writer[w])'
    BY <2>1, <2>2, <2>3, <2>4 DEF WriterStands, MappingKeeps, Covered
  <2> QED BY <2>1, <2>5, MappingFitsStay
<1>2. TableFits' /\ now' \in DOMAIN Worlds
  BY DEF MappingInv, TableFits, RowsFit, Mapping!Row, Mapping!Level2, Mapping!Trees, Mapping!Symbols
<1> QED BY <1>1, <1>2 DEF MappingInv, WritersFit

LEMMA FirstIndustry ==
    ASSUME MappingConstants, NEW t \in Mapping!Trees
    PROVE  Len(t.codes) \in Nat /\ 1 \in 1 .. Len(t.codes)
<1>1. t.codes \in Seq(DOMAIN t.parent) /\ t.codes # <<>>
  BY DEF MappingConstants
<1> QED BY <1>1

LEMMA StartKeeps == ASSUME MappingConstants, MappingInv, NEW b \in Builders, Mapping!Start(b) PROVE MappingInv'
<1>1. PICK r : r = [Mapping!NewBuild EXCEPT !.pc = "unlink", !.tree = Mapping!tree]
  OBVIOUS
<1>2. DOMAIN r = DOMAIN Mapping!NewBuild /\ r.pc = "unlink" /\ r.tree = Mapping!tree /\ r.rows = Mapping!Empty /\ r.completed = {} /\ r.failed = {} /\ r.at = 1
  BY <1>1 DEF Mapping!NewBuild
<1>3. BuildFits(r)
  <2>1. r.tree \in Mapping!Trees /\ r.at \in 1 .. Len(r.tree.codes)
    BY <1>2, TreeFits, FirstIndustry DEF MappingInv
  <2> QED BY <1>2, <2>1, EmptyFits DEF BuildFits, Walking
<1>4. Mapping!BGo(b, r) /\ candidate' = None /\ UNCHANGED <<now, table, locked, checkpoint, writer, given>> /\ Alone(b)
  BY <1>1, AloneAtStart DEF Mapping!Start
<1>5. BuildStands(r)'
  BY <1>2, <1>4 DEF BuildStands, Walking
<1>6. /\ BuildsFit' /\ build'[b] = r
      /\ \A c \in Builders \ {b} : build'[c] = build[c] /\ build[c].pc \in {"new", "done"}
  BY <1>3, <1>4, <1>5, BuildMoves
<1>7. \A rows : Covered(rows) => Covered(rows)'
  BY <1>2, <1>4, <1>6 DEF Covered
<1>8. MappingFilesFit'
  BY <1>4 DEF MappingInv, MappingFilesFit, CandidateFits, CheckpointFits, Mapping!CheckpointBehind,
     Mapping!NamesKnown, Mapping!Trees, Mapping!Industries
<1> QED BY <1>4, <1>6, <1>7, <1>8, WritersRest DEF MappingInv

LEMMA UnlinkKeeps == ASSUME MappingConstants, MappingInv, NEW b \in Builders, Mapping!Unlink(b) PROVE MappingInv'
<1>1. PICK s : s = build[b]
  OBVIOUS
<1>2. s.pc = "unlink" /\ BuildFits(s) /\ BuildStands(s) /\ b \in Mapping!Busy
  BY <1>1 DEF Mapping!Unlink, Mapping!BAt, MappingInv, BuildsFit, Mapping!Busy
<1>3. PICK r : r = [s EXCEPT !.pc = "fetch"]
  OBVIOUS
<1>4. /\ DOMAIN r = DOMAIN Mapping!NewBuild /\ r.pc = "fetch" /\ r.tree = s.tree /\ r.rows = s.rows /\ r.completed = {}
      /\ r.failed = s.failed /\ r.at = s.at
  BY <1>2, <1>3 DEF Mapping!NewBuild, BuildFits
<1>5. BuildFits(r)
  BY <1>2, <1>4 DEF BuildFits, Walking
<1>6. /\ Mapping!BGo(b, r) /\ checkpoint' = None /\ given' = Mapping!Nothing /\ UNCHANGED <<now, table, locked, candidate, writer>>
      /\ Alone(b)
  BY <1>1, <1>2, <1>3, AloneAtWork DEF Mapping!Unlink
<1>7. BuildStands(r)'
  BY <1>4, <1>6 DEF BuildStands, Walking
<1>8. /\ BuildsFit' /\ build'[b] = r
      /\ \A c \in Builders \ {b} : build'[c] = build[c] /\ build[c].pc \in {"new", "done"}
  BY <1>5, <1>6, <1>7, BuildMoves
<1>9. \A rows : Covered(rows)'
  BY <1>4, <1>6, <1>8 DEF Covered
<1>10. MappingFilesFit'
  BY <1>6 DEF MappingInv, MappingFilesFit, CandidateFits, CheckpointFits, Mapping!CheckpointBehind,
     Mapping!NamesKnown, Mapping!Nothing, RowsFit, Mapping!Row,
              Mapping!Level2, Mapping!Trees, Mapping!Industries
<1> QED BY <1>6, <1>8, <1>9, <1>10, WritersRest DEF MappingInv

LEMMA ResumeKeeps == ASSUME MappingConstants, MappingInv, NEW b \in Builders, Mapping!Resume(b) PROVE MappingInv'
<1>1. UNCHANGED <<now, table, locked, candidate, checkpoint, writer, given>> /\ Alone(b)
  BY AloneAtStart DEF Mapping!Resume, Mapping!files
<1>2. MappingFilesFit'
  BY <1>1 DEF MappingInv, MappingFilesFit, CandidateFits, CheckpointFits, Mapping!CheckpointBehind,
     Mapping!NamesKnown, RowsFit, Mapping!Row, Mapping!Level2, Mapping!Trees, Mapping!Industries
<1>3. ASSUME NEW r, Mapping!BGo(b, r), BuildFits(r), BuildStands(r), r.pc # "state"
      PROVE  MappingInv'
  <2>1. BuildStands(r)'
    BY <1>1, <1>3 DEF BuildStands
  <2>2. /\ BuildsFit' /\ build'[b] = r
        /\ \A c \in Builders \ {b} : build'[c] = build[c] /\ build[c].pc \in {"new", "done"}
    BY <1>1, <1>3, <2>1, BuildMoves
  <2>3. \A rows : Covered(rows) => Covered(rows)'
    BY <1>1, <1>3, <2>2 DEF Covered
  <2> QED BY <1>1, <1>2, <2>2, <2>3, WritersRest DEF MappingInv
<1>4. CASE Mapping!BGo(b, [Mapping!NewBuild EXCEPT !.pc = "done"])
  <2>1. PICK r : r = [Mapping!NewBuild EXCEPT !.pc = "done"]
    OBVIOUS
  <2>2. DOMAIN r = DOMAIN Mapping!NewBuild /\ r.pc = "done"
    BY <2>1 DEF Mapping!NewBuild
  <2>3. BuildFits(r) /\ BuildStands(r)
    BY <2>2 DEF BuildFits, BuildStands, Walking
  <2> QED BY <1>3, <1>4, <2>1, <2>2, <2>3
<1>5. CASE /\ checkpoint # None /\ candidate # None /\ checkpoint.names = Mapping!tree.names
           /\ Mapping!BGo(b, [Mapping!NewBuild EXCEPT !.pc = "fetch", !.tree = Mapping!tree, !.rows = candidate,
                                      !.completed = checkpoint.completed, !.failed = checkpoint.failed])
  <2>1. PICK r : r = [Mapping!NewBuild EXCEPT !.pc = "fetch", !.tree = Mapping!tree, !.rows = candidate,
                                      !.completed = checkpoint.completed, !.failed = checkpoint.failed]
    OBVIOUS
  <2>2. /\ DOMAIN r = DOMAIN Mapping!NewBuild /\ r.pc = "fetch" /\ r.tree = Mapping!tree /\ r.rows = candidate
        /\ r.completed = checkpoint.completed /\ r.failed = checkpoint.failed /\ r.at = 1
    BY <2>1 DEF Mapping!NewBuild
  <2>3. /\ RowsFit(candidate, Stocks) /\ checkpoint.completed \subseteq Mapping!Industries /\ checkpoint.failed \subseteq Mapping!Industries
        /\ \A i \in checkpoint.completed : given[i] \subseteq DOMAIN candidate
        /\ NamesOf(candidate) \subseteq checkpoint.names
    BY <1>5 DEF MappingInv, MappingFilesFit, CandidateFits, CheckpointFits, Mapping!CheckpointBehind,
       Mapping!NamesKnown, NamesOf
  <2>4. r.tree \in Mapping!Trees /\ r.at \in 1 .. Len(r.tree.codes)
    BY <2>2, TreeFits, FirstIndustry DEF MappingInv
  <2>5. BuildFits(r)
    BY <1>5, <2>2, <2>3, <2>4 DEF BuildFits, Walking
  <2>6. BuildStands(r)
    BY <1>5, <2>2, <2>3 DEF BuildStands, Walking
  <2> QED BY <1>3, <1>5, <2>1, <2>2, <2>5, <2>6
<1> QED BY <1>4, <1>5 DEF Mapping!Resume, Mapping!SameTree

LEMMA LaterFits ==
    ASSUME MappingConstants, NEW r, BuildFits(r), r.pc \in Walking, NEW n, n = Mapping!Later(r)
    PROVE  /\ BuildFits(n) /\ n.pc \in {"fetch", "done"} /\ n.rows = r.rows /\ n.completed = r.completed /\ n.tree = r.tree
<1>1. PICK place \in {"fetch", "done"} : place = IF r.at = Len(r.tree.codes) THEN "done" ELSE "fetch"
  OBVIOUS
<1>2. PICK at : at = r.at + 1
  OBVIOUS
<1>3. n = [r EXCEPT !.pc = place, !.at = at]
  BY <1>1, <1>2 DEF Mapping!Later
<1>4. /\ DOMAIN n = DOMAIN Mapping!NewBuild /\ n.pc = place /\ n.at = at /\ n.rows = r.rows /\ n.completed = r.completed
      /\ n.failed = r.failed /\ n.tree = r.tree
  BY <1>3 DEF Mapping!NewBuild, BuildFits
<1>5. r.tree \in Mapping!Trees /\ r.at \in 1 .. Len(r.tree.codes)
  BY DEF BuildFits
<1>6. Len(r.tree.codes) \in Nat
  BY <1>5, FirstIndustry
<1>7. place = "fetch" => at \in 1 .. Len(r.tree.codes)
  BY <1>1, <1>2, <1>5, <1>6
<1> QED BY <1>4, <1>7 DEF BuildFits, Walking

LEMMA MappingFetchKeeps ==
    ASSUME MappingConstants, MappingInv, NEW b \in Builders, Mapping!Fetch(b)
    PROVE  MappingInv'
<1>1. PICK s : s = build[b]
  OBVIOUS
<1>2. s.pc = "fetch" /\ BuildFits(s) /\ BuildStands(s) /\ b \in Mapping!Busy
  BY <1>1 DEF Mapping!Fetch, Mapping!BAt, MappingInv, BuildsFit, Mapping!Busy
<1>3. UNCHANGED <<now, table, locked, candidate, checkpoint, writer>> /\ Alone(b)
  BY <1>2, AloneAtWork DEF Mapping!Fetch, Mapping!files
<1>4. PICK i : i = s.tree.codes[s.at]
  OBVIOUS
<1>5. PICK listed : listed = Mapping!Listed(s, i)
  OBVIOUS
<1>6. /\ i \in Mapping!Industries /\ DOMAIN Mapping!Constituents(i) \subseteq Stocks
      /\ DOMAIN listed = DOMAIN Mapping!Constituents(i) \union DOMAIN s.rows
      /\ RowsFit(listed, Stocks) /\ NamesOf(listed) \subseteq s.tree.names
  BY <1>2, <1>4, <1>5, ListedFits DEF MappingInv
<1>7. /\ \A j \in s.completed : given[j] \subseteq DOMAIN s.rows
      /\ checkpoint # None => checkpoint.names = s.tree.names /\ checkpoint.completed \subseteq s.completed
      /\ s.tree \in Mapping!Trees /\ RowsFit(s.rows, Stocks) /\ NamesOf(s.rows) \subseteq s.tree.names
      /\ s.completed \subseteq Mapping!Industries /\ s.failed \subseteq Mapping!Industries /\ s.at \in 1 .. Len(s.tree.codes)
  BY <1>2 DEF BuildStands, BuildFits, Walking
<1>8. ASSUME NEW r, Mapping!BGo(b, r), BuildFits(r), r.pc \in {"fetch", "rows", "done"}, r.tree = s.tree,
             given' \in [Mapping!Industries -> SUBSET Stocks], s.completed \subseteq r.completed,
             \A j \in s.completed : given'[j] = given[j],
             \A j \in r.completed : given'[j] \subseteq DOMAIN r.rows
      PROVE  MappingInv'
  <2>1. BuildStands(r)'
    BY <1>3, <1>7, <1>8 DEF BuildStands, Walking
  <2>2. /\ BuildsFit' /\ build'[b] = r
        /\ \A c \in Builders \ {b} : build'[c] = build[c] /\ build[c].pc \in {"new", "done"}
    BY <1>3, <1>8, <2>1, BuildMoves
  <2>3. checkpoint # None => \A j \in checkpoint.completed : given'[j] = given[j]
    BY <1>7, <1>8
  <2>4. \A rows : Covered(rows) => Covered(rows)'
    BY <1>3, <1>8, <2>2, <2>3 DEF Covered
  <2>5. MappingFilesFit'
    BY <1>3, <1>8, <2>3 DEF MappingInv, MappingFilesFit, CandidateFits, CheckpointFits,
       Mapping!CheckpointBehind, Mapping!NamesKnown, RowsFit, Mapping!Row,
                            Mapping!Level2, Mapping!Trees, Mapping!Industries
  <2> QED BY <1>3, <2>2, <2>4, <2>5, WritersRest DEF MappingInv
<1>9. given \in [Mapping!Industries -> SUBSET Stocks]
  BY DEF MappingInv, MappingFilesFit
<1>10. CASE Mapping!BGo(b, Mapping!Later(s)) /\ UNCHANGED given
  <2>1. PICK r : r = Mapping!Later(s)
    OBVIOUS
  <2>2. BuildFits(r) /\ r.pc \in {"fetch", "done"} /\ r.rows = s.rows /\ r.completed = s.completed /\ r.tree = s.tree
    BY <1>2, <2>1, LaterFits DEF Walking
  <2> QED BY <1>7, <1>8, <1>9, <1>10, <2>1, <2>2
<1>11. CASE /\ i \notin s.completed
            /\ Mapping!BGo(b, [s EXCEPT !.pc = "rows", !.rows = listed, !.completed = @ \union {i}, !.failed = @ \ {i}])
            /\ given' = [given EXCEPT ![i] = DOMAIN Mapping!Constituents(i)]
  <2>1. PICK completed, failed : completed = s.completed \union {i} /\ failed = s.failed \ {i}
    OBVIOUS
  <2>2. PICK r : r = [s EXCEPT !.pc = "rows", !.rows = listed, !.completed = completed, !.failed = failed]
    OBVIOUS
  <2>3. Mapping!BGo(b, r)
    BY <1>11, <2>1, <2>2
  <2>4. /\ DOMAIN r = DOMAIN Mapping!NewBuild /\ r.pc = "rows" /\ r.rows = listed /\ r.completed = completed
        /\ r.failed = failed /\ r.tree = s.tree /\ r.at = s.at
    BY <1>2, <2>2 DEF Mapping!NewBuild, BuildFits
  <2>5. completed \subseteq Mapping!Industries /\ failed \subseteq Mapping!Industries
    BY <1>6, <1>7, <2>1
  <2>6. BuildFits(r)
    BY <1>6, <1>7, <2>4, <2>5 DEF BuildFits, Walking
  <2>7. given' \in [Mapping!Industries -> SUBSET Stocks] /\ \A j \in Mapping!Industries : given'[j] = IF j = i THEN DOMAIN Mapping!Constituents(i) ELSE given[j]
    BY <1>6, <1>9, <1>11
  <2>8. \A j \in s.completed : given'[j] = given[j]
    BY <1>7, <1>11, <2>7
  <2>9. \A j \in r.completed : given'[j] \subseteq DOMAIN r.rows
    BY <1>6, <1>7, <2>1, <2>4, <2>5, <2>7, <2>8
  <2> QED BY <1>8, <2>1, <2>3, <2>4, <2>6, <2>7, <2>8, <2>9
<1>12. CASE Mapping!BGo(b, [s EXCEPT !.pc = "rows", !.failed = @ \union {i}]) /\ UNCHANGED given
  <2>1. PICK failed : failed = s.failed \union {i}
    OBVIOUS
  <2>2. PICK r : r = [s EXCEPT !.pc = "rows", !.failed = failed]
    OBVIOUS
  <2>3. Mapping!BGo(b, r)
    BY <1>12, <2>1, <2>2
  <2>4. /\ DOMAIN r = DOMAIN Mapping!NewBuild /\ r.pc = "rows" /\ r.rows = s.rows /\ r.completed = s.completed
        /\ r.failed = failed /\ r.tree = s.tree /\ r.at = s.at
    BY <1>2, <2>2 DEF Mapping!NewBuild, BuildFits
  <2>5. failed \subseteq Mapping!Industries
    BY <1>6, <1>7, <2>1
  <2>6. BuildFits(r)
    BY <1>7, <2>4, <2>5 DEF BuildFits, Walking
  <2> QED BY <1>7, <1>8, <1>9, <1>12, <2>3, <2>4, <2>6
<1> QED BY <1>1, <1>4, <1>5, <1>10, <1>11, <1>12 DEF Mapping!Fetch

LEMMA WriteRowsKeeps ==
    ASSUME MappingConstants, MappingInv, NEW b \in Builders, Mapping!WriteRows(b)
    PROVE  MappingInv'
<1>1. PICK s : s = build[b]
  OBVIOUS
<1>2. s.pc = "rows" /\ BuildFits(s) /\ BuildStands(s) /\ b \in Mapping!Busy
  BY <1>1 DEF Mapping!WriteRows, Mapping!BAt, MappingInv, BuildsFit, Mapping!Busy
<1>3. PICK r : r = [s EXCEPT !.pc = "state"]
  OBVIOUS
<1>4. /\ DOMAIN r = DOMAIN Mapping!NewBuild /\ r.pc = "state" /\ r.rows = s.rows /\ r.completed = s.completed
      /\ r.failed = s.failed /\ r.tree = s.tree /\ r.at = s.at
  BY <1>2, <1>3 DEF Mapping!NewBuild, BuildFits
<1>5. /\ Mapping!BGo(b, r) /\ candidate' = s.rows /\ UNCHANGED <<now, table, locked, checkpoint, given>> /\ Alone(b)
  BY <1>1, <1>2, <1>3, AloneAtWork DEF Mapping!WriteRows
<1>6. BuildFits(r)
  BY <1>2, <1>4 DEF BuildFits, Walking
<1>7. /\ \A i \in s.completed : given[i] \subseteq DOMAIN s.rows
      /\ checkpoint # None => checkpoint.names = s.tree.names /\ checkpoint.completed \subseteq s.completed
      /\ RowsFit(s.rows, Stocks) /\ NamesOf(s.rows) \subseteq s.tree.names
  BY <1>2 DEF BuildStands, BuildFits, Walking
<1>8. BuildStands(r)'
  BY <1>4, <1>5, <1>7 DEF BuildStands, Walking
<1>9. BuildsFit'
  BY <1>5, <1>6, <1>8, BuildMoves
<1>10. MappingFilesFit'
  <2>1. CandidateFits'
    BY <1>5, <1>7 DEF CandidateFits, RowsFit, Mapping!Row, Mapping!Level2, Mapping!Trees
  <2>2. CheckpointFits' /\ given' \in [Mapping!Industries -> SUBSET Stocks]
    BY <1>5 DEF MappingInv, MappingFilesFit, CheckpointFits, Mapping!Trees, Mapping!Industries
  <2>3. Mapping!CheckpointBehind'
    BY <1>5, <1>7 DEF Mapping!CheckpointBehind
  <2>4. Mapping!NamesKnown'
    BY <1>5, <1>7 DEF Mapping!NamesKnown, NamesOf
  <2> QED BY <2>1, <2>2, <2>3, <2>4 DEF MappingFilesFit, Mapping!Industries, Mapping!Trees
<1>11. WritersFit'
  <2>1. DOMAIN writer' = Writers /\ \A w \in Writers : writer'[w] = IF Mapping!WAt(w, "state") THEN [writer[w] EXCEPT !.torn = TRUE] ELSE writer[w]
    BY DEF Mapping!WriteRows
  <2>2. ASSUME NEW w \in Writers
        PROVE  WriterFits(writer[w])' /\ WriterStands(writer[w])' /\ (writer'[w].pc = "write" <=> locked' = w)
    <3>1. PICK q : q = writer[w]
      OBVIOUS
    <3>2. WriterFits(q) /\ WriterStands(q) /\ (q.pc = "write" <=> locked = w)
      BY <3>1 DEF MappingInv, WritersFit
    <3>3. CASE q.pc = "state"
      <4>1. PICK x : x = [q EXCEPT !.torn = TRUE]
        OBVIOUS
      <4>2. writer'[w] = x
        BY <2>1, <3>1, <3>3, <4>1 DEF Mapping!WAt
      <4>3. /\ DOMAIN x = DOMAIN q /\ x.torn = TRUE /\ x.pc = q.pc /\ x.kind = q.kind /\ x.rows = q.rows
        BY <3>2, <4>1 DEF WriterFits, Mapping!NewWriter
      <4>4. WriterFits(x)
        BY <3>2, <3>3, <4>3 DEF WriterFits
      <4>5. x.pc = "state" /\ x.torn
        BY <3>3, <4>3
      <4>6. WriterStands(writer[w])'
        BY <4>2, <4>5 DEF WriterStands
      <4> QED BY <1>5, <3>2, <3>3, <4>2, <4>4, <4>5, <4>6, MappingFitsStay
    <3>4. CASE q.pc # "state"
      <4>1. writer'[w] = q
        BY <2>1, <3>1, <3>4 DEF Mapping!WAt
      <4>2. q.pc = "write" => MappingKeeps(q)'
        BY <1>5, <3>2 DEF WriterStands, MappingKeeps
      <4>3. WriterStands(writer[w])'
        BY <3>4, <4>1, <4>2 DEF WriterStands, MappingKeeps
      <4> QED BY <1>5, <3>2, <4>1, <4>3, MappingFitsStay
    <3> QED BY <3>3, <3>4
  <2> QED BY <1>5, <2>1, <2>2 DEF WritersFit, MappingInv
<1>12. TableFits' /\ now' \in DOMAIN Worlds
  BY <1>5 DEF MappingInv, TableFits, RowsFit, Mapping!Row, Mapping!Level2, Mapping!Trees, Mapping!Symbols
<1> QED BY <1>9, <1>10, <1>11, <1>12 DEF MappingInv

LEMMA WriteCheckpointKeeps ==
    ASSUME MappingConstants, MappingInv, NEW b \in Builders, Mapping!WriteCheckpoint(b)
    PROVE  MappingInv'
<1>1. PICK s : s = build[b]
  OBVIOUS
<1>2. s.pc = "state" /\ BuildFits(s) /\ BuildStands(s) /\ b \in Mapping!Busy
  BY <1>1 DEF Mapping!WriteCheckpoint, Mapping!BAt, MappingInv, BuildsFit, Mapping!Busy
<1>3. PICK r : r = Mapping!Later(s)
  OBVIOUS
<1>4. PICK c : c = [completed |-> s.completed, failed |-> s.failed,
                    expected_codes |-> Mapping!expected_codes(s.tree), names |-> s.tree.names]
  OBVIOUS
<1>5. /\ Mapping!BGo(b, r) /\ checkpoint' = c /\ UNCHANGED <<now, table, locked, candidate, writer, given>> /\ Alone(b)
  BY <1>1, <1>2, <1>3, <1>4, AloneAtWork DEF Mapping!WriteCheckpoint
<1>6. /\ BuildFits(r) /\ r.pc \in {"fetch", "done"} /\ r.rows = s.rows /\ r.completed = s.completed /\ r.tree = s.tree
  BY <1>2, <1>3, LaterFits DEF Walking
<1>7. /\ \A i \in s.completed : given[i] \subseteq DOMAIN s.rows
      /\ candidate = s.rows
      /\ RowsFit(s.rows, Stocks) /\ NamesOf(s.rows) \subseteq s.tree.names
      /\ s.tree \in Mapping!Trees /\ s.completed \subseteq Mapping!Industries /\ s.failed \subseteq Mapping!Industries
  BY <1>2 DEF BuildStands, BuildFits, Walking
<1>8. BuildStands(r)'
  BY <1>4, <1>5, <1>6, <1>7 DEF BuildStands, Walking
<1>9. /\ BuildsFit' /\ build'[b] = r
      /\ \A d \in Builders \ {b} : build'[d] = build[d] /\ build[d].pc \in {"new", "done"}
  BY <1>5, <1>6, <1>8, BuildMoves
<1>10. MappingFilesFit'
  <2>1. CandidateFits'
    BY <1>5, <1>7 DEF CandidateFits, RowsFit, Mapping!Row, Mapping!Level2, Mapping!Trees
  <2>2. CheckpointFits' /\ given' \in [Mapping!Industries -> SUBSET Stocks]
    BY <1>4, <1>5, <1>7 DEF MappingInv, MappingFilesFit, CheckpointFits, Mapping!Trees, Mapping!Industries
  <2>3. Mapping!CheckpointBehind'
    BY <1>4, <1>5, <1>7 DEF Mapping!CheckpointBehind
  <2>4. Mapping!NamesKnown'
    BY <1>4, <1>5, <1>7 DEF Mapping!NamesKnown, NamesOf
  <2> QED BY <2>1, <2>2, <2>3, <2>4 DEF MappingFilesFit, Mapping!Industries, Mapping!Trees
<1>11. ASSUME NEW rows, Covered(rows) PROVE Covered(rows)'
  <2>1. \A i \in s.completed : given[i] \subseteq DOMAIN rows
    BY <1>1, <1>2, <1>11 DEF Covered
  <2>2. \A d \in Builders : build'[d].pc # "state"
    BY <1>6, <1>9
  <2> QED BY <1>4, <1>5, <2>1, <2>2 DEF Covered
<1> QED BY <1>5, <1>9, <1>10, <1>11, WritersRest DEF MappingInv

LEMMA KillBuildKeeps ==
    ASSUME MappingConstants, MappingInv, NEW b \in Builders, Mapping!KillBuild(b)
    PROVE  MappingInv'
<1>1. PICK r : r = [Mapping!NewBuild EXCEPT !.pc = "done"]
  OBVIOUS
<1>2. DOMAIN r = DOMAIN Mapping!NewBuild /\ r.pc = "done"
  BY <1>1 DEF Mapping!NewBuild
<1>3. Mapping!BGo(b, r) /\ UNCHANGED <<now, table, locked, candidate, checkpoint, writer, given>> /\ Alone(b)
  BY <1>1, AloneAtWork DEF Mapping!KillBuild, Mapping!files
<1>4. BuildFits(r) /\ BuildStands(r)'
  BY <1>2 DEF BuildFits, BuildStands, Walking
<1>5. /\ BuildsFit' /\ build'[b] = r
      /\ \A d \in Builders \ {b} : build'[d] = build[d] /\ build[d].pc \in {"new", "done"}
  BY <1>3, <1>4, BuildMoves
<1>6. \A rows : Covered(rows) => Covered(rows)'
  BY <1>2, <1>3, <1>5 DEF Covered
<1>7. MappingFilesFit'
  BY <1>3 DEF MappingInv, MappingFilesFit, CandidateFits, CheckpointFits, Mapping!CheckpointBehind,
     Mapping!NamesKnown, RowsFit, Mapping!Row, Mapping!Level2, Mapping!Trees, Mapping!Industries
<1> QED BY <1>3, <1>5, <1>6, <1>7, WritersRest DEF MappingInv

-----------------------------------------------------------------------------
\* A writer goes on; the others and the rebuilds are where they were.
LEMMA WriterMoves ==
    ASSUME MappingInv, NEW w \in Writers, NEW r, Mapping!WGo(w, r), WriterFits(r), WriterStands(r)',
           UNCHANGED <<now, table, candidate, checkpoint, build, given>>,
           \/ r.pc # "write" /\ writer[w].pc # "write" /\ locked' = locked
           \/ r.pc # "write" /\ locked' = IF locked = w THEN None ELSE locked
           \/ r.pc = "write" /\ locked = None /\ locked' = w,
           None \notin Writers
    PROVE  MappingInv'
<1>1. DOMAIN writer' = Writers /\ \A v \in Writers : writer'[v] = IF v = w THEN r ELSE writer[v]
  BY DEF Mapping!WGo, MappingInv, WritersFit
<1>2. ASSUME NEW v \in Writers
      PROVE  WriterFits(writer[v])' /\ WriterStands(writer[v])' /\ (writer'[v].pc = "write" <=> locked' = v)
  <2>1. WriterFits(writer[v]) /\ WriterStands(writer[v]) /\ (writer[v].pc = "write" <=> locked = v)
    BY DEF MappingInv, WritersFit
  <2>2. CASE v = w
    <3>1. writer'[v] = r
      BY <1>1, <2>2
    <3>2. WriterStands(writer[v])'
      BY <3>1 DEF WriterStands
    <3> QED BY <2>1, <2>2, <3>1, <3>2, MappingFitsStay
  <2>3. CASE v # w
    <3>1. writer'[v] = writer[v]
      BY <1>1, <2>3
    <3>2. PICK q : q = writer[v]
      OBVIOUS
    <3>3. \A rows : Covered(rows) => Covered(rows)'
      BY DEF Covered
    <3>4. (q.pc = "state" /\ ~q.torn) => DOMAIN q.rows = {} \/ Covered(q.rows)'
      BY <2>1, <3>2, <3>3 DEF WriterStands
    <3>5. q.pc = "write" => MappingKeeps(q)'
      BY <2>1, <3>2 DEF WriterStands, MappingKeeps
    <3>6. WriterStands(writer[v])'
      BY <3>1, <3>2, <3>4, <3>5 DEF WriterStands, MappingKeeps, Covered
    <3>7. writer'[v].pc = "write" <=> locked' = v
      BY <2>1, <2>3, <3>1
    <3> QED BY <2>1, <3>1, <3>6, <3>7, MappingFitsStay
  <2> QED BY <2>2, <2>3
<1>3. WritersFit'
  BY <1>1, <1>2 DEF WritersFit, MappingInv
<1>4. BuildsFit'
  <2>1. ASSUME NEW b \in Builders PROVE BuildFits(build[b])' /\ BuildStands(build[b])'
    <3>1. BuildFits(build[b]) /\ BuildStands(build[b])
      BY DEF MappingInv, BuildsFit
    <3> QED BY <3>1, MappingFitsStay DEF BuildStands
  <2> QED BY <2>1 DEF BuildsFit, MappingInv, Mapping!Busy
<1>5. MappingFilesFit'
  BY DEF MappingInv, MappingFilesFit, CandidateFits, CheckpointFits, Mapping!CheckpointBehind, Mapping!NamesKnown,
     RowsFit, Mapping!Row, Mapping!Level2, Mapping!Trees, Mapping!Industries
<1>6. TableFits' /\ now' \in DOMAIN Worlds
  BY DEF MappingInv, TableFits, RowsFit, Mapping!Row, Mapping!Level2, Mapping!Trees, Mapping!Symbols
<1> QED BY <1>3, <1>4, <1>5, <1>6 DEF MappingInv

LEMMA PublishKeeps == ASSUME MappingConstants, MappingInv, NEW w \in Writers, Mapping!Publish(w) PROVE MappingInv'
<1>1. PICK rows : rows = IF candidate = None THEN Mapping!Empty ELSE candidate
  OBVIOUS
<1>2. RowsFit(rows, Stocks)
  BY <1>1, EmptyFits DEF MappingInv, MappingFilesFit, CandidateFits
<1>3. DOMAIN rows = {} \/ Covered(rows)
  <2>1. CASE candidate = None
    BY <1>1, <2>1, EmptyFits
  <2>2. CASE candidate # None
    <3>1. rows = candidate /\ (checkpoint # None => \A i \in checkpoint.completed : given[i] \subseteq DOMAIN rows)
      BY <1>1, <2>2 DEF MappingInv, MappingFilesFit, Mapping!CheckpointBehind
    <3>2. ASSUME NEW b \in Builders, build[b].pc = "state"
          PROVE  \A i \in build[b].completed : given[i] \subseteq DOMAIN rows
      BY <3>1, <3>2 DEF MappingInv, BuildsFit, BuildStands, Walking
    <3> QED BY <3>1, <3>2 DEF Covered
  <2> QED BY <2>1, <2>2
<1>4. PICK r : r = [Mapping!NewWriter EXCEPT !.pc = "state", !.kind = "publish", !.rows = rows]
  OBVIOUS
<1>5. DOMAIN r = DOMAIN Mapping!NewWriter /\ r.pc = "state" /\ r.kind = "publish" /\ r.rows = rows
  BY <1>4 DEF Mapping!NewWriter
<1>6. /\ Mapping!WGo(w, r) /\ UNCHANGED <<now, table, locked, candidate, checkpoint, build, given>> /\ writer[w].pc = "new"
  BY <1>1, <1>4 DEF Mapping!Publish, Mapping!WAt, Mapping!files
<1>7. WriterFits(r)
  BY <1>2, <1>5 DEF WriterFits, Works
<1>8. Covered(rows) => Covered(rows)'
  BY <1>6 DEF Covered
<1>9. WriterStands(r)'
  BY <1>3, <1>5, <1>8 DEF WriterStands
<1> QED BY <1>5, <1>6, <1>7, <1>9, WriterMoves DEF MappingConstants

\* A writer that ends lets go of the lock it has.
LEMMA WriterEnds ==
    ASSUME MappingConstants, MappingInv, NEW w \in Writers, Mapping!WEnd(w),
           UNCHANGED <<now, table, candidate, checkpoint, build, given>>,
           \/ writer[w].pc # "write" /\ locked' = locked
           \/ locked' = IF locked = w THEN None ELSE locked
    PROVE  MappingInv'
<1>1. PICK r : r = [Mapping!NewWriter EXCEPT !.pc = "done", !.kind = writer[w].kind]
  OBVIOUS
<1>2. DOMAIN r = DOMAIN Mapping!NewWriter /\ r.pc = "done"
  BY <1>1 DEF Mapping!NewWriter
<1>3. Mapping!WGo(w, r)
  BY <1>1 DEF Mapping!WEnd
<1>4. WriterFits(r) /\ WriterStands(r)'
  BY <1>2 DEF WriterFits, WriterStands
<1> QED BY <1>2, <1>3, <1>4, WriterMoves DEF MappingConstants

LEMMA ReadCheckpointKeeps ==
    ASSUME MappingConstants, MappingInv, NEW w \in Writers, Mapping!ReadCheckpoint(w) PROVE MappingInv'
<1>1. UNCHANGED <<now, table, locked, candidate, checkpoint, build, given>> /\ writer[w].pc = "state"
  BY DEF Mapping!ReadCheckpoint, Mapping!WAt, Mapping!files
<1>2. CASE ~Mapping!Complete(checkpoint)
  BY <1>1, <1>2, WriterEnds DEF Mapping!ReadCheckpoint
<1>3. CASE Mapping!Complete(checkpoint)
  <2>1. PICK s : s = writer[w]
    OBVIOUS
  <2>2. WriterFits(s) /\ WriterStands(s) /\ s.pc = "state"
    BY <1>1, <2>1 DEF MappingInv, WritersFit
  <2>3. PICK gave : gave = UNION {given[i] : i \in checkpoint.completed}
    OBVIOUS
  <2>4. PICK r : r = [s EXCEPT !.pc = "lock", !.state = checkpoint, !.gave = gave]
    OBVIOUS
  <2>5. /\ DOMAIN r = DOMAIN Mapping!NewWriter /\ r.pc = "lock" /\ r.kind = "publish" /\ r.rows = s.rows
        /\ r.torn = s.torn /\ r.gave = gave
    BY <2>2, <2>4 DEF WriterFits, Mapping!NewWriter
  <2>6. Mapping!WGo(w, r)
    BY <1>3, <2>1, <2>3, <2>4 DEF Mapping!ReadCheckpoint
  <2>7. ~s.torn => DOMAIN s.rows = {} \/ gave \subseteq DOMAIN s.rows
    <3>1. checkpoint # None
      BY <1>3 DEF Mapping!Complete
    <3> QED BY <2>2, <2>3, <3>1 DEF WriterStands, Covered
  <2>8. WriterFits(r)
    BY <2>2, <2>5, <2>7 DEF WriterFits, Works
  <2>9. WriterStands(r)'
    BY <2>5 DEF WriterStands
  <2> QED BY <1>1, <2>5, <2>6, <2>8, <2>9, WriterMoves DEF MappingConstants
<1> QED BY <1>2, <1>3

\* An update, a backfill or a migration goes for the lock.
LEMMA AsksKeep ==
    ASSUME MappingConstants, MappingInv, NEW w \in Writers, Mapping!Update(w) \/ Mapping!Backfill(w) \/ Mapping!Migrate(w) PROVE MappingInv'
<1>1. UNCHANGED <<now, table, locked, candidate, checkpoint, build, given>> /\ writer[w].pc = "new"
  BY DEF Mapping!Update, Mapping!Backfill, Mapping!Migrate, Mapping!WAt, Mapping!files
<1>2. ASSUME NEW r, Mapping!WGo(w, r), WriterFits(r), r.pc = "lock" PROVE MappingInv'
  BY <1>1, <1>2, WriterMoves DEF MappingConstants, WriterStands
<1>3. CASE Mapping!Update(w)
  <2>1. PICK s \in Stocks, n \in Mapping!Level2 :
           Mapping!WGo(w, [Mapping!NewWriter EXCEPT !.pc = "lock", !.kind = "update", !.of = {s}, !.level2 = n])
    BY <1>3 DEF Mapping!Update
  <2>2. PICK r : r = [Mapping!NewWriter EXCEPT !.pc = "lock", !.kind = "update", !.of = {s}, !.level2 = n]
    OBVIOUS
  <2>3. DOMAIN r = DOMAIN Mapping!NewWriter /\ r.pc = "lock" /\ r.kind = "update" /\ r.of = {s} /\ r.level2 = n
    BY <2>2 DEF Mapping!NewWriter
  <2>4. WriterFits(r)
    BY <2>3 DEF WriterFits, Works
  <2> QED BY <1>2, <2>1, <2>2, <2>3, <2>4
<1>4. CASE Mapping!Backfill(w)
  <2>1. PICK S \in SUBSET Stocks, n \in Mapping!Level2 :
           Mapping!WGo(w, [Mapping!NewWriter EXCEPT !.pc = "lock", !.kind = "backfill", !.of = S, !.level2 = n])
    BY <1>4 DEF Mapping!Backfill
  <2>2. PICK r : r = [Mapping!NewWriter EXCEPT !.pc = "lock", !.kind = "backfill", !.of = S, !.level2 = n]
    OBVIOUS
  <2>3. DOMAIN r = DOMAIN Mapping!NewWriter /\ r.pc = "lock" /\ r.kind = "backfill" /\ r.of = S /\ r.level2 = n
    BY <2>2 DEF Mapping!NewWriter
  <2>4. WriterFits(r)
    BY <2>3 DEF WriterFits, Works
  <2> QED BY <1>2, <2>1, <2>2, <2>3, <2>4
<1>5. CASE Mapping!Migrate(w)
  <2>1. PICK r : r = [Mapping!NewWriter EXCEPT !.pc = "lock", !.kind = "migrate"]
    OBVIOUS
  <2>2. DOMAIN r = DOMAIN Mapping!NewWriter /\ r.pc = "lock" /\ r.kind = "migrate"
    BY <2>1 DEF Mapping!NewWriter
  <2>3. WriterFits(r)
    BY <2>2 DEF WriterFits, Works
  <2> QED BY <1>2, <1>5, <2>1, <2>2, <2>3 DEF Mapping!Migrate
<1> QED BY <1>3, <1>4, <1>5

-----------------------------------------------------------------------------
\* What a writer makes of the table has the rows no rebuild makes, and every verified
\* row that it was not to replace.
LEMMA ResultFits ==
    ASSUME MappingConstants, MappingInv, NEW r, WriterFits(r), r.pc = "lock", NEW rows, rows = Mapping!Result(r, table)
    PROVE  /\ RowsFit(rows, Mapping!Symbols) /\ Others \subseteq DOMAIN rows
           /\ \A s \in DOMAIN table : table[s].status = "verified" =>
                \/ r.kind = "publish" \/ (r.kind = "update" /\ r.of = {s})
                \/ s \in DOMAIN rows /\ rows[s] = table[s]
           /\ r.kind = "publish" => DOMAIN r.rows \subseteq DOMAIN rows
<1>1. RowsFit(table, Mapping!Symbols) /\ Others \subseteq DOMAIN table /\ Stocks \subseteq Mapping!Symbols
  BY DEF MappingInv, TableFits, Mapping!Symbols
<1>2. r.kind \in Works
  BY DEF WriterFits
<1>3. CASE r.kind = "publish"
  <2>1. PICK others : others = Mapping!Only(table, Others)
    OBVIOUS
  <2>2. DOMAIN others = DOMAIN table \intersect Others /\ \A s \in DOMAIN others : others[s] = table[s]
    BY <2>1 DEF Mapping!Only
  <2>3. RowsFit(others, Mapping!Symbols) /\ RowsFit(r.rows, Mapping!Symbols)
    BY <1>1, <1>3, <2>2 DEF RowsFit, WriterFits
  <2>4. rows = Mapping!Put(others, r.rows)
    BY <1>3, <2>1 DEF Mapping!Result, Mapping!Published
  <2>5. DOMAIN rows = DOMAIN others \union DOMAIN r.rows
    BY <2>4 DEF Mapping!Put
  <2> QED BY <1>1, <1>3, <2>2, <2>3, <2>4, <2>5, PutFits
<1>4. CASE r.kind = "update"
  <2>1. PICK s \in Stocks : r.of = {s}
    BY <1>4 DEF WriterFits
  <2>2. r.level2 \in Mapping!Level2
    BY <1>4 DEF WriterFits
  <2>3. PICK new : new = [q \in r.of |-> Mapping!Verified(r.level2)]
    OBVIOUS
  <2>4. DOMAIN new = {s} /\ RowsFit(new, Mapping!Symbols)
    BY <1>1, <2>1, <2>2, <2>3, RowIs DEF RowsFit
  <2>5. rows = Mapping!Put(table, new)
    BY <1>4, <2>3 DEF Mapping!Result, Mapping!Updated
  <2>6. DOMAIN rows = DOMAIN table \union {s}
    BY <2>4, <2>5 DEF Mapping!Put
  <2>7. \A q \in DOMAIN table : q # s => rows[q] = table[q]
    BY <2>4, <2>5, <2>6 DEF Mapping!Put
  <2> QED BY <1>1, <1>4, <2>1, <2>4, <2>5, <2>6, <2>7, PutFits
<1>5. CASE r.kind = "backfill"
  <2>1. r.of \subseteq Stocks /\ r.level2 \in Mapping!Level2
    BY <1>5 DEF WriterFits
  <2>2. PICK new : new = [q \in Mapping!Unfilled(r, table) |-> Mapping!Verified(r.level2)]
    OBVIOUS
  <2>3. DOMAIN new \subseteq r.of /\ \A q \in DOMAIN new : q \notin DOMAIN table \/ table[q].status = "missing"
    BY <2>2 DEF Mapping!Unfilled
  <2>4. RowsFit(new, Mapping!Symbols)
    BY <1>1, <2>1, <2>2, <2>3, RowIs DEF RowsFit
  <2>5. rows = Mapping!Put(table, new)
    BY <1>5, <2>2 DEF Mapping!Result, Mapping!Filled
  <2>6. DOMAIN rows = DOMAIN table \union DOMAIN new
    BY <2>5 DEF Mapping!Put
  <2>7. \A q \in DOMAIN table : q \notin DOMAIN new => rows[q] = table[q]
    BY <2>5, <2>6 DEF Mapping!Put
  <2> QED BY <1>1, <1>5, <2>3, <2>4, <2>5, <2>6, <2>7, PutFits
<1>6. CASE r.kind = "migrate"
  <2>1. rows = table
    BY <1>6 DEF Mapping!Result
  <2> QED BY <1>1, <1>6, <2>1
<1> QED BY <1>2, <1>3, <1>4, <1>5, <1>6 DEF Works

LEMMA MappingLockKeeps == ASSUME MappingConstants, MappingInv, NEW w \in Writers, Mapping!Lock(w) PROVE MappingInv'
<1>1. PICK s : s = writer[w]
  OBVIOUS
<1>2. WriterFits(s) /\ s.pc = "lock"
  BY <1>1 DEF Mapping!Lock, Mapping!WAt, MappingInv, WritersFit
<1>3. UNCHANGED <<now, table, candidate, checkpoint, build, given>> /\ locked = None
  BY DEF Mapping!Lock, Mapping!files
<1>4. CASE s.kind = "publish" /\ ~Mapping!Valid(s.rows, Mapping!Cardinality(Mapping!Shares(table)), s.state.names)
  BY <1>1, <1>2, <1>3, <1>4, WriterEnds DEF Mapping!Lock
<1>5. CASE ~(s.kind = "publish" /\ ~Mapping!Valid(s.rows, Mapping!Cardinality(Mapping!Shares(table)), s.state.names))
  <2>1. PICK rows : rows = Mapping!Result(s, table)
    OBVIOUS
  <2>2. /\ RowsFit(rows, Mapping!Symbols) /\ Others \subseteq DOMAIN rows
        /\ \A q \in DOMAIN table : table[q].status = "verified" =>
             \/ s.kind = "publish" \/ (s.kind = "update" /\ s.of = {q})
             \/ q \in DOMAIN rows /\ rows[q] = table[q]
        /\ s.kind = "publish" => DOMAIN s.rows \subseteq DOMAIN rows
    BY <1>2, <2>1, ResultFits
  <2>3. PICK r : r = [s EXCEPT !.pc = "write", !.rows = rows]
    OBVIOUS
  <2>4. /\ DOMAIN r = DOMAIN Mapping!NewWriter /\ r.pc = "write" /\ r.kind = s.kind /\ r.rows = rows
        /\ r.torn = s.torn /\ r.gave = s.gave /\ r.of = s.of
    BY <1>2, <2>3 DEF WriterFits, Mapping!NewWriter
  <2>5. Mapping!WGo(w, r) /\ locked' = w
    BY <1>1, <1>5, <2>1, <2>3 DEF Mapping!Lock
  <2>6. (s.kind = "publish" /\ ~s.torn) => s.gave \subseteq DOMAIN rows
    <3>1. s.kind = "publish" => DOMAIN s.rows # {}
      BY <1>5 DEF Mapping!Valid
    <3> QED BY <1>2, <2>2, <3>1 DEF WriterFits
  <2>7. WriterFits(r)
    BY <1>2, <2>2, <2>4, <2>6 DEF WriterFits
  <2>8. WriterStands(r)'
    BY <1>3, <2>2, <2>4 DEF WriterStands, MappingKeeps
  <2> QED BY <1>3, <2>4, <2>5, <2>7, <2>8, WriterMoves DEF MappingConstants
<1> QED BY <1>4, <1>5

LEMMA WriteKeeps == ASSUME MappingConstants, MappingInv, NEW w \in Writers, Mapping!Write(w) PROVE MappingInv'
<1>1. PICK s : s = writer[w]
  OBVIOUS
<1>2. WriterFits(s) /\ s.pc = "write" /\ locked = w
  BY <1>1 DEF Mapping!Write, Mapping!WAt, MappingInv, WritersFit
<1>3. UNCHANGED <<now, candidate, checkpoint, build, given>> /\ table' = s.rows /\ locked' = None
  BY <1>1 DEF Mapping!Write, Mapping!files
<1>4. PICK r : r = [Mapping!NewWriter EXCEPT !.pc = "done", !.kind = writer[w].kind]
  OBVIOUS
<1>5. DOMAIN r = DOMAIN Mapping!NewWriter /\ r.pc = "done"
  BY <1>4 DEF Mapping!NewWriter
<1>6. WriterFits(r)
  BY <1>5 DEF WriterFits
<1>7. DOMAIN writer' = Writers /\ \A v \in Writers : writer'[v] = IF v = w THEN r ELSE writer[v]
  BY <1>4 DEF Mapping!Write, Mapping!WEnd, Mapping!WGo, MappingInv, WritersFit
<1>8. ASSUME NEW v \in Writers
      PROVE  WriterFits(writer[v])' /\ WriterStands(writer[v])' /\ (writer'[v].pc = "write" <=> locked' = v)
  <2>1. CASE v = w
    <3>1. writer'[v] = r
      BY <1>7, <2>1
    <3>2. WriterStands(writer[v])'
      BY <1>5, <3>1 DEF WriterStands
    <3> QED BY <1>3, <1>5, <1>6, <3>1, <3>2, MappingFitsStay DEF MappingConstants
  <2>2. CASE v # w
    <3>1. PICK q : q = writer[v]
      OBVIOUS
    <3>2. writer'[v] = q /\ WriterFits(q) /\ WriterStands(q) /\ q.pc # "write"
      BY <1>2, <1>7, <2>2, <3>1 DEF MappingInv, WritersFit
    <3>3. \A rows : Covered(rows) => Covered(rows)'
      BY <1>3 DEF Covered
    <3>4. WriterStands(writer[v])'
      BY <3>2, <3>3 DEF WriterStands, Covered
    <3> QED BY <1>3, <3>2, <3>4, MappingFitsStay DEF MappingConstants
  <2> QED BY <2>1, <2>2
<1>9. WritersFit'
  BY <1>3, <1>7, <1>8 DEF WritersFit
<1>10. BuildsFit'
  <2>1. ASSUME NEW b \in Builders PROVE BuildFits(build[b])' /\ BuildStands(build[b])'
    <3>1. BuildFits(build[b]) /\ BuildStands(build[b])
      BY DEF MappingInv, BuildsFit
    <3> QED BY <1>3, <3>1, MappingFitsStay DEF BuildStands
  <2> QED BY <1>3, <2>1 DEF BuildsFit, MappingInv, Mapping!Busy
<1>11. MappingFilesFit'
  BY <1>3 DEF MappingInv, MappingFilesFit, CandidateFits, CheckpointFits, Mapping!CheckpointBehind,
     Mapping!NamesKnown, RowsFit, Mapping!Row, Mapping!Level2, Mapping!Trees, Mapping!Industries
<1>12. TableFits' /\ now' \in DOMAIN Worlds
  BY <1>2, <1>3 DEF MappingInv, WriterFits, TableFits, RowsFit, Mapping!Row, Mapping!Level2, Mapping!Trees,
     Mapping!Symbols
<1> QED BY <1>9, <1>10, <1>11, <1>12 DEF MappingInv

LEMMA SiteMovesKeeps == ASSUME MappingConstants, MappingInv, Mapping!SiteMoves PROVE MappingInv'
<1>1. UNCHANGED <<table, locked, candidate, checkpoint, build, writer, given>> /\ now' \in DOMAIN Worlds
  <2>1. Len(Worlds) \in Nat /\ DOMAIN Worlds = 1 .. Len(Worlds)
    BY DEF MappingConstants
  <2> QED BY <2>1 DEF Mapping!SiteMoves, Mapping!files, MappingInv
<1>2. WritersFit'
  <2>1. ASSUME NEW w \in Writers PROVE WriterFits(writer[w])' /\ WriterStands(writer[w])'
    <3>1. WriterFits(writer[w]) /\ WriterStands(writer[w])
      BY DEF MappingInv, WritersFit
    <3> QED BY <1>1, <3>1, MappingFitsStay DEF WriterStands, Covered, MappingKeeps
  <2> QED BY <1>1, <2>1 DEF MappingInv, WritersFit
<1>3. BuildsFit'
  <2>1. ASSUME NEW b \in Builders PROVE BuildFits(build[b])' /\ BuildStands(build[b])'
    <3>1. BuildFits(build[b]) /\ BuildStands(build[b])
      BY DEF MappingInv, BuildsFit
    <3> QED BY <1>1, <3>1, MappingFitsStay DEF BuildStands
  <2> QED BY <1>1, <2>1 DEF BuildsFit, MappingInv, Mapping!Busy
<1>4. MappingFilesFit' /\ TableFits'
  BY <1>1 DEF MappingInv, MappingFilesFit, CandidateFits, CheckpointFits, Mapping!CheckpointBehind,
     Mapping!NamesKnown, TableFits, RowsFit, Mapping!Row,
              Mapping!Level2, Mapping!Trees, Mapping!Industries, Mapping!Symbols
<1> QED BY <1>1, <1>2, <1>3, <1>4 DEF MappingInv

LEMMA MappingStep == MappingConstants /\ MappingInv /\ [Mapping!Next]_Mapping!imvars => MappingInv'
<1> SUFFICES ASSUME MappingConstants, MappingInv, [Mapping!Next]_Mapping!imvars PROVE MappingInv'
  OBVIOUS
<1>1. ASSUME NEW b \in Builders, Mapping!Build(b) PROVE MappingInv'
  BY <1>1, StartKeeps, UnlinkKeeps, ResumeKeeps, MappingFetchKeeps, WriteRowsKeeps, WriteCheckpointKeeps,
     KillBuildKeeps DEF Mapping!Build
<1>2. ASSUME NEW w \in Writers, Mapping!Work(w) PROVE MappingInv'
  <2>1. CASE Mapping!KillWriter(w)
    BY <2>1, WriterEnds DEF Mapping!KillWriter, Mapping!files
  <2> QED BY <1>2, <2>1, PublishKeeps, ReadCheckpointKeeps, AsksKeep, MappingLockKeeps, WriteKeeps DEF Mapping!Work
<1>3. CASE UNCHANGED Mapping!imvars
  <2>1. UNCHANGED <<now, table, locked, candidate, checkpoint, build, writer, given>>
    BY <1>3 DEF Mapping!imvars
  <2>2. WritersFit'
    <3>1. ASSUME NEW w \in Writers PROVE WriterFits(writer[w])' /\ WriterStands(writer[w])'
      <4>1. WriterFits(writer[w]) /\ WriterStands(writer[w])
        BY DEF MappingInv, WritersFit
      <4> QED BY <2>1, <4>1, MappingFitsStay DEF WriterStands, Covered, MappingKeeps
    <3> QED BY <2>1, <3>1 DEF MappingInv, WritersFit
  <2>3. BuildsFit'
    <3>1. ASSUME NEW b \in Builders PROVE BuildFits(build[b])' /\ BuildStands(build[b])'
      <4>1. BuildFits(build[b]) /\ BuildStands(build[b])
        BY DEF MappingInv, BuildsFit
      <4> QED BY <2>1, <4>1, MappingFitsStay DEF BuildStands
    <3> QED BY <2>1, <3>1 DEF BuildsFit, MappingInv, Mapping!Busy
  <2>4. MappingFilesFit' /\ TableFits' /\ now' \in DOMAIN Worlds
    BY <2>1 DEF MappingInv, MappingFilesFit, CandidateFits, CheckpointFits, Mapping!CheckpointBehind,
       Mapping!NamesKnown, TableFits, RowsFit, Mapping!Row,
                Mapping!Level2, Mapping!Trees, Mapping!Industries, Mapping!Symbols
  <2> QED BY <2>2, <2>3, <2>4 DEF MappingInv
<1> QED BY <1>1, <1>2, <1>3, SiteMovesKeeps DEF Mapping!Next

LEMMA MappingSays == MappingConstants /\ MappingInv => Mapping!IMTypeOK /\ Mapping!IMSafe /\ Mapping!PublishedWhole
<1> SUFFICES ASSUME MappingConstants, MappingInv PROVE Mapping!IMTypeOK /\ Mapping!IMSafe /\ Mapping!PublishedWhole
  OBVIOUS
<1>1. Mapping!IMTypeOK
  <2>1. \A b \in Builders : build[b].pc \in {"new", "unlink", "fetch", "rows", "state", "done"}
    BY DEF MappingInv, BuildsFit, BuildFits, Walking
  <2>2. \A w \in Writers : writer[w].pc \in {"new", "state", "lock", "write", "done"}
    BY DEF MappingInv, WritersFit, WriterFits
  <2>3. now \in DOMAIN Worlds /\ locked \in Writers \union {None} /\ RowsFit(table, Mapping!Symbols)
    BY DEF MappingInv, WritersFit, TableFits
  <2>4. candidate # None => RowsFit(candidate, Stocks)
    BY DEF MappingInv, MappingFilesFit, CandidateFits
  <2>5. checkpoint # None => checkpoint.completed \union checkpoint.failed \subseteq Mapping!Industries
    BY DEF MappingInv, MappingFilesFit, CheckpointFits
  <2> QED BY <2>1, <2>2, <2>3, <2>4, <2>5 DEF Mapping!IMTypeOK, RowsFit
<1>2. Mapping!IMSafe
  BY DEF Mapping!IMSafe, MappingInv, MappingFilesFit, TableFits, Mapping!OthersStay
<1>3. Mapping!PublishedWhole
  BY DEF Mapping!PublishedWhole, Mapping!WAt, MappingInv, WritersFit, WriterFits
<1> QED BY <1>1, <1>2, <1>3

\* A candidate holds all that its completed industries gave, under the level 2 names of its
\* checkpoint, and what is published is as whole, wherever rebuilds, one at a time, are killed
\* and resumed, on a site whose parents and lists may have changed (industry_mapping_builder.py
\* compares industries and names only), and whoever else writes the table; no rows of other
\* markets are lost.
THEOREM MappingIsSound == MappingConstants /\ Mapping!Spec => [](Mapping!IMTypeOK /\ Mapping!IMSafe /\ Mapping!PublishedWhole)
<1> SUFFICES ASSUME MappingConstants PROVE Mapping!Spec => [](Mapping!IMTypeOK /\ Mapping!IMSafe /\ Mapping!PublishedWhole)
  OBVIOUS
<1>1. Mapping!Init => MappingInv
  BY MappingInit
<1>2. MappingInv /\ [Mapping!Next]_Mapping!imvars => MappingInv'
  BY MappingStep
<1>3. MappingInv => Mapping!IMTypeOK /\ Mapping!IMSafe /\ Mapping!PublishedWhole
  BY MappingSays
<1> QED BY <1>1, <1>2, <1>3, PTL DEF Mapping!Spec

\* The table changes by the step of the writer that has the lock.
LEMMA WriteVerifies ==
    ASSUME MappingConstants, MappingInv, NEW w \in Writers, Mapping!Write(w)
    PROVE  Mapping!VerifiedStays
<1>1. PICK r : r = writer[w]
  OBVIOUS
<1>2. r.pc = "write" /\ WriterFits(r) /\ MappingKeeps(r) /\ table' = r.rows
  BY <1>1 DEF Mapping!Write, Mapping!WAt, MappingInv, WritersFit, WriterStands
<1>3. ASSUME NEW s \in DOMAIN table, table[s].status = "verified", s \notin DOMAIN table' \/ table'[s] # table[s]
      PROVE  Mapping!WAt(w, "write") /\ (writer[w].kind = "publish" \/ (writer[w].kind = "update" /\ s = CHOOSE q \in writer[w].of : TRUE))
  <2>1. r.kind = "publish" \/ (r.kind = "update" /\ r.of = {s})
    BY <1>2, <1>3 DEF MappingKeeps
  <2>2. s = CHOOSE q \in {s} : TRUE
    OBVIOUS
  <2> QED BY <1>1, <1>2, <2>1, <2>2 DEF Mapping!WAt
<1> QED BY <1>3 DEF Mapping!VerifiedStays

\* A verified row goes or changes only by a publication or by an update of its stock.
THEOREM VerifiedStay == MappingConstants /\ Mapping!Spec => [][Mapping!VerifiedStays]_Mapping!imvars
<1> SUFFICES ASSUME MappingConstants PROVE Mapping!Spec => [][Mapping!VerifiedStays]_Mapping!imvars
  OBVIOUS
<1>1. MappingInv /\ [Mapping!Next]_Mapping!imvars => [Mapping!VerifiedStays]_Mapping!imvars
  <2> SUFFICES ASSUME MappingInv, Mapping!Next PROVE Mapping!VerifiedStays
    OBVIOUS
  <2>1. CASE \E w \in Writers : Mapping!Write(w)
    BY <2>1, WriteVerifies
  <2>2. CASE table' = table
    BY <2>2 DEF Mapping!VerifiedStays
  <2> QED BY <2>1, <2>2 DEF Mapping!Next, Mapping!Build, Mapping!Work, Mapping!Start, Mapping!Unlink,
             Mapping!Resume, Mapping!Fetch, Mapping!WriteRows, Mapping!WriteCheckpoint, Mapping!KillBuild,
                           Mapping!Publish, Mapping!ReadCheckpoint, Mapping!Update, Mapping!Backfill, Mapping!Migrate, Mapping!Lock, Mapping!KillWriter, Mapping!SiteMoves
<1>2. Mapping!Init => MappingInv
  BY MappingInit
<1>3. MappingInv /\ [Mapping!Next]_Mapping!imvars => MappingInv'
  BY MappingStep
<1> QED BY <1>1, <1>2, <1>3, PTL DEF Mapping!Spec
=============================================================================
