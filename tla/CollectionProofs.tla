-------------------------- MODULE CollectionProofs --------------------------
(***************************************************************************)
(* Proofs about ResilientCollection, then about HKPeers, GoldSources and   *)
(* PeerComparison.                                                         *)
(*                                                                         *)
(* ResilientCollection.  That every variable keeps to its domain holds     *)
(* whatever runtimes share the cache.  What a call knows of the cache, and *)
(* so that history, current facts and remembered failures are respected,   *)
(* holds when one runtime uses it: its lock lets one thread at a time      *)
(* between the read of the entries and the last statement of a store, but  *)
(* it stops no other runtime.                                              *)
(***************************************************************************)
EXTENDS ResilientCollection, Sequences, FiniteSetTheorems, WellFoundedInduction, TLAPS

Places == {"idle", "decide", "fetch", "promote", "copy", "put", "clear", "mark",
           "storeFailure", "return"}
Maybe == Entry \union {None}
Sights == [latest : Maybe, complete : Maybe, attempt : Maybe]

\* The variables and what is in the hands of a thread at each place.
Shapes ==
    /\ now \in 0 .. MaxTime
    /\ latest \in Maybe /\ complete \in Maybe /\ attempt \in Maybe
    /\ fails \in [Collectors -> 0 .. Threshold]
    /\ openUntil \in [Collectors -> Nat \union {None}]
    /\ pc \in [Threads -> Places]
    /\ refresh \in [Threads -> BOOLEAN]
    /\ saw \in [Threads -> Sights]
    /\ tries \in [Threads -> 0 .. Sources * Attempts]
    /\ got \in [Threads -> Maybe]
\* A closed breaker has not counted Threshold failures.
BreakersCount == \A c \in Collectors : openUntil[c] = None => fails[c] < Threshold
\* A failure is never a current fact, nor facts a remembered failure.
EntriesKeepApart ==
    /\ attempt # None => attempt.state = "failed"
    /\ latest # None => latest.state # "failed"
HandsMatch ==
    \A t \in Threads :
       /\ pc[t] \in {"promote", "copy", "put", "clear", "mark", "storeFailure", "return"}
             => got[t] # None
       /\ pc[t] \in {"promote", "copy", "put", "clear", "mark"} => got[t].state # "failed"
       /\ pc[t] = "storeFailure" => got[t].state = "failed"

TInv == Shapes /\ BreakersCount /\ EntriesKeepApart /\ HandsMatch

-----------------------------------------------------------------------------
(* One runtime.                                                            *)

OneRuntime == \A c, d \in Collectors : c = d

Before == {"decide", "fetch", "promote"}
OneAtATime == \A t, u \in Threads : pc[t] # "idle" /\ pc[u] # "idle" => t = u
\* What is kept as history is whole, and nothing is from the future.
HistoryIsWhole ==
    /\ complete # None => complete.state \in Whole /\ complete.at <= now
    /\ latest # None => latest.at <= now
\* Whole current facts do not end before the history they were compared with.
FactsReach ==
    Compared /\ latest # None /\ latest.state \in Whole /\ complete # None
       => latest.day >= complete.day
\* What the thread read is still so, as far as it matters.
SightHolds ==
    \A t \in Threads :
       /\ pc[t] \in Before \union {"copy", "put"} => saw[t].latest = latest
       /\ pc[t] \in Before /\ complete # None => saw[t].complete = complete
       /\ pc[t] = "decide" => saw[t].attempt = attempt
\* What is about to be stored is of this call, and goes on from what was there.
GotFollows ==
    \A t \in Threads :
       /\ pc[t] \in {"promote", "copy", "put", "clear", "mark"} => got[t].at = now
       /\ pc[t] \in {"promote", "copy", "put"} /\ Dated /\ HasRows(got[t]) /\ HasRows(latest)
             /\ got[t].state # "not_applicable" => got[t].day >= latest.day
       /\ pc[t] \in {"promote", "put"} /\ Compared /\ got[t].state \in Whole /\ complete # None
             => got[t].day >= complete.day
       /\ pc[t] = "copy" => /\ latest # None /\ latest.state \in Whole
                            /\ got[t].state \notin Whole
                            /\ complete # None => latest.at >= complete.at
       /\ pc[t] \in {"clear", "mark"} => latest = got[t]
       /\ pc[t] = "mark" => got[t].state \in Whole

CInv == OneAtATime /\ HistoryIsWhole /\ FactsReach /\ SightHolds /\ GotFollows

-----------------------------------------------------------------------------
(* Every variable keeps to its domain.                                     *)

LEMMA TypedInit == Init => TInv
  BY BoundsAreNumbers DEF Init, TInv, Shapes, BreakersCount, EntriesKeepApart, HandsMatch,
     Places, Maybe, Sights, NoSight

LEMMA OwnersCollect == \A t \in Threads : Owner(t) \in Collectors
  BY DEF Threads, Owner

\* A breaker counts up to Threshold and no further, whatever a call does to it.
BreakersOK ==
    /\ fails \in [Collectors -> 0 .. Threshold]
    /\ openUntil \in [Collectors -> Nat \union {None}]
    /\ BreakersCount

LEMMA BreakersNext ==
    ASSUME BreakersOK, now \in Nat, NEW c \in Collectors,
           Success(c) \/ Failure(c) \/ Closes(c) \/ UNCHANGED breaker
    PROVE BreakersOK'
<1> USE BoundsAreNumbers, NoneIsNothing DEF BreakersOK, BreakersCount
<1>1. CASE Success(c)
  BY <1>1 DEF Success
<1>2. CASE UNCHANGED breaker
  BY <1>2 DEF breaker
<1>3. CASE Failure(c)
  <2>1. CASE openUntil[c] # None
    BY <1>2, <1>3, <2>1 DEF Failure
  <2>2. CASE openUntil[c] = None
    <3>1. fails[c] + 1 \in 0 .. Threshold /\ now + OpenFor \in Nat
      BY <2>2
    <3> QED
      BY <1>3, <2>2, <3>1 DEF Failure
  <2> QED
    BY <2>1, <2>2
<1>4. CASE Closes(c)
  BY <1>2, <1>4 DEF Closes, breaker
<1> QED
  BY <1>1, <1>2, <1>3, <1>4

LEMMA TypedNext == TInv /\ [Next]_vars => TInv'
<1> SUFFICES ASSUME TInv, [Next]_vars PROVE TInv'
  OBVIOUS
<1> USE BoundsAreNumbers, NoneIsNothing
        DEF TInv, Shapes, EntriesKeepApart, HandsMatch, Places, Maybe, Sights
<1>0. ASSUME NEW c \in Collectors, Success(c) \/ Failure(c) \/ Closes(c) \/ UNCHANGED breaker
      PROVE BreakersOK'
  <2>1. BreakersOK /\ now \in Nat
    BY DEF BreakersOK
  <2> QED
    BY <1>0, <2>1, BreakersNext
<1>a. [state |-> "failed", day |-> 0, at |-> now] \in Entry
  BY DEF Entry
<1>b. NoSight \in Sights
  BY DEF NoSight
<1>1. ASSUME NEW t \in Threads, Begin(t) PROVE TInv'
  <2>1. BreakersOK'
    BY <1>0, <1>1, OwnersCollect DEF Begin
  <2> QED
    BY <1>1, <2>1 DEF Begin, Goto, cache, BreakersOK
<1>2. ASSUME NEW t \in Threads, Hold(t) PROVE TInv'
  <2>1. BreakersOK'
    BY <1>0, <1>2, OwnersCollect DEF Hold
  <2> QED
    BY <1>2, <1>b, <2>1 DEF Hold, Return, cache, BreakersOK
<1>3. ASSUME NEW t \in Threads, Serve(t) PROVE TInv'
  <2>1. BreakersOK'
    BY <1>0, <1>3, OwnersCollect DEF Serve
  <2> QED
    BY <1>3, <1>b, <2>1 DEF Serve, Return, cache, BreakersOK
<1>4. ASSUME NEW t \in Threads, Ask(t) PROVE TInv'
  <2>1. BreakersOK'
    BY <1>0, <1>4, OwnersCollect DEF Ask
  <2>2. CASE ~refresh[t] /\ IsOpen(Owner(t))
    <3>1. UNCHANGED breaker /\ Goto(t, "storeFailure")
      BY <1>4, <2>2 DEF Ask
    <3>2. PICK e \in Entry : e.state = "failed" /\ got' = [got EXCEPT ![t] = e]
      BY <1>4, <1>a, <2>2 DEF Ask
    <3> QED
      BY <1>4, <2>1, <3>1, <3>2 DEF Ask, Goto, cache, BreakersOK
  <2>3. CASE ~(~refresh[t] /\ IsOpen(Owner(t)))
    BY <1>4, <2>1, <2>3 DEF Ask, Goto, cache, BreakersOK
  <2> QED
    BY <2>2, <2>3
<1>5. ASSUME NEW t \in Threads, Fetch(t) PROVE TInv'
  <2>1. BreakersOK'
    BY <1>0, <1>5, OwnersCollect DEF Fetch
  <2>2. CASE tries' = [tries EXCEPT ![t] = @ + 1] /\ UNCHANGED <<got, pc>>
    BY <1>5, <2>1, <2>2 DEF Fetch, cache, BreakersOK
  <2>3. ASSUME NEW e \in Entry, e.state # "failed", got' = [got EXCEPT ![t] = e],
               Goto(t, "promote"), UNCHANGED tries
        PROVE TInv'
    BY <1>5, <2>1, <2>3 DEF Fetch, Goto, cache, BreakersOK
  <2>4. ASSUME NEW enough \in BOOLEAN, NEW day \in Days
        PROVE /\ [state |-> Classified(t, enough, day), day |-> day, at |-> now] \in Entry
              /\ Classified(t, enough, day) # "failed"
    BY DEF Classified, Entry, Whole
  <2>5. \A day \in Days \union {0} : [state |-> "not_applicable", day |-> day, at |-> now] \in Entry
    BY DEF Entry
  <2> QED
    BY <1>5, <2>2, <2>3, <2>4, <2>5 DEF Fetch
<1>6. ASSUME NEW t \in Threads, FetchEnds(t) PROVE TInv'
  <2>1. BreakersOK'
    BY <1>0, <1>6, OwnersCollect DEF FetchEnds
  <2> QED
    BY <1>6, <1>a, <2>1 DEF FetchEnds, Goto, cache, BreakersOK
<1>7. ASSUME NEW t \in Threads, FailingStatement(t) PROVE TInv'
  <2>1. BreakersOK'
    BY <1>0, <1>7, OwnersCollect DEF FailingStatement
  <2> QED
    BY <1>7, <2>1 DEF FailingStatement, Goto, cache, BreakersOK
<1>8. ASSUME NEW t \in Threads, Promote(t) PROVE TInv'
  <2>1. BreakersOK'
    BY <1>0, <1>8, OwnersCollect DEF Promote
  <2> QED
    BY <1>8, <2>1 DEF Promote, Goto, cache, BreakersOK
<1>9. ASSUME NEW t \in Threads, Copy(t) PROVE TInv'
  <2>1. BreakersOK'
    BY <1>0, <1>9, OwnersCollect DEF Copy
  <2> QED
    BY <1>9, <2>1 DEF Copy, Goto, BreakersOK
<1>10. ASSUME NEW t \in Threads, Put(t) PROVE TInv'
  <2>1. BreakersOK'
    BY <1>0, <1>10, OwnersCollect DEF Put
  <2> QED
    BY <1>10, <2>1 DEF Put, Goto, BreakersOK
<1>11. ASSUME NEW t \in Threads, Clear(t) PROVE TInv'
  <2>1. BreakersOK'
    BY <1>0, <1>11, OwnersCollect DEF Clear
  <2> QED
    BY <1>11, <2>1 DEF Clear, Goto, BreakersOK
<1>12. ASSUME NEW t \in Threads, Mark(t) PROVE TInv'
  <2>1. BreakersOK'
    BY <1>0, <1>12, OwnersCollect DEF Mark
  <2> QED
    BY <1>12, <2>1 DEF Mark, Goto, BreakersOK
<1>13. ASSUME NEW t \in Threads, StoreFailure(t) PROVE TInv'
  <2>1. BreakersOK'
    BY <1>0, <1>13, OwnersCollect DEF StoreFailure
  <2> QED
    BY <1>13, <2>1 DEF StoreFailure, Goto, FailureStored, BreakersOK
<1>14. ASSUME NEW t \in Threads, Answer(t) PROVE TInv'
  <2>1. BreakersOK'
    BY <1>0, <1>14, OwnersCollect DEF Answer
  <2> QED
    BY <1>14, <1>b, <2>1 DEF Answer, Return, cache, BreakersOK
<1>15. ASSUME NEW c \in Collectors, Crash(c) PROVE TInv'
  <2>1. BreakersOK'
    BY <1>0, <1>15 DEF Crash
  <2>2. /\ pc' \in [Threads -> Places] /\ refresh' \in [Threads -> BOOLEAN]
        /\ saw' \in [Threads -> Sights] /\ got' \in [Threads -> Maybe]
    BY <1>15, <1>b DEF Crash
  <2>3. tries' \in [Threads -> 0 .. Sources * Attempts]
    BY <1>15 DEF Crash
  <2>4. HandsMatch'
    BY <1>15 DEF Crash
  <2> QED
    BY <1>15, <2>1, <2>2, <2>3, <2>4 DEF Crash, cache, BreakersOK
<1>16. CASE Tick
  BY <1>16 DEF Tick, cache, breaker, BreakersCount
<1>17. CASE UNCHANGED vars
  BY <1>17 DEF vars, BreakersCount
<1> QED
  BY <1>1, <1>2, <1>3, <1>4, <1>5, <1>6, <1>7, <1>8, <1>9, <1>10, <1>11, <1>12, <1>13, <1>14, <1>15, <1>16, <1>17 DEF Next, Call

\* The records of the cache, the breakers and the hands of the threads keep to
\* their domains and to what every place of _call_with_cache may hold, for any
\* number of runtimes and threads.
THEOREM TypesHold == Spec => [](TInv /\ CollectionTypeOK)
<1>1. Init => TInv
  BY TypedInit
<1>2. TInv /\ [Next]_vars => TInv'
  BY TypedNext
<1>3. TInv => CollectionTypeOK
  BY DEF TInv, Shapes, EntriesKeepApart, Maybe, CollectionTypeOK
<1> QED
  BY <1>1, <1>2, <1>3, PTL DEF Spec

-----------------------------------------------------------------------------
(* What a thread knows of the cache.                                       *)

LEMMA EntriesAreDated == \A e \in Entry : e.day \in Nat /\ e.at \in Nat
<1>1. \A e \in Entry : e.day \in Days \union {0} /\ e.at \in 0 .. MaxTime
  BY DEF Entry
<1>2. \A d \in Days \union {0} : d \in Nat
  BY BoundsAreNumbers
<1>3. \A n \in 0 .. MaxTime : n \in Nat
  BY BoundsAreNumbers
<1> QED
  BY <1>1, <1>2, <1>3

LEMMA SightInit == Init => CInv
  BY NoneIsNothing DEF Init, CInv, OneAtATime, HistoryIsWhole, FactsReach, SightHolds, GotFollows, Before

LEMMA SightNext ==
    ASSUME OneRuntime, TInv, TInv', CInv, [Next]_vars
    PROVE CInv'
<1> USE BoundsAreNumbers, NoneIsNothing
        DEF TInv, Shapes, HandsMatch, EntriesKeepApart, Places, Maybe, Sights, CInv, OneAtATime, HistoryIsWhole, FactsReach,
            SightHolds, GotFollows, Before, HasRows
<1>0. ASSUME NEW t \in Threads, pc[t] # "idle"
      PROVE \A u \in Threads : u # t => pc[u] = "idle"
  BY <1>0
<1>1. ASSUME NEW t \in Threads, Begin(t) PROVE CInv'
  BY <1>1 DEF Begin, Goto, cache, LockFree, Owner, Threads, OneRuntime
<1>2. ASSUME NEW t \in Threads, Hold(t) PROVE CInv'
  BY <1>2 DEF Hold, Return, cache
<1>3. ASSUME NEW t \in Threads, Serve(t) PROVE CInv'
  BY <1>3 DEF Serve, Return, cache
<1>4. ASSUME NEW t \in Threads, Ask(t) PROVE CInv'
  <2>1. CASE ~refresh[t] /\ IsOpen(Owner(t))
    <3>1. UNCHANGED <<now, cache, saw>> /\ Goto(t, "storeFailure") /\ pc[t] = "decide"
      BY <1>4, <2>1 DEF Ask
    <3>2. \A u \in Threads : u # t => pc[u] = "idle" /\ pc'[u] = "idle"
      BY <1>0, <3>1 DEF Goto
    <3>3. pc'[t] = "storeFailure"
      BY <3>1 DEF Goto
    <3> QED
      BY <3>1, <3>2, <3>3 DEF cache
  <2>2. CASE ~(~refresh[t] /\ IsOpen(Owner(t)))
    BY <1>4, <2>2 DEF Ask, Goto, cache
  <2> QED
    BY <2>1, <2>2
<1>5. ASSUME NEW t \in Threads, Fetch(t) PROVE CInv'
  <2>1. UNCHANGED <<now, cache, saw>> /\ pc[t] = "fetch"
    BY <1>5 DEF Fetch
  <2>2. CASE tries' = [tries EXCEPT ![t] = @ + 1] /\ UNCHANGED <<got, pc>>
    BY <2>1, <2>2 DEF cache
  <2>3. ASSUME NEW e \in Entry, e.at = now, got' = [got EXCEPT ![t] = e], Goto(t, "promote"),
               Dated /\ e.day # 0 /\ HasRows(latest) /\ e.state # "not_applicable"
                  => e.day >= latest.day,
               Compared /\ e.state \in Whole /\ complete # None => e.day >= complete.day
        PROVE CInv'
    <3>1. \A u \in Threads : u # t => pc[u] = "idle" /\ pc'[u] = "idle"
      BY <1>0, <2>1, <2>3 DEF Goto
    <3>2. pc'[t] = "promote" /\ got'[t] = e
      BY <2>3 DEF Goto
    <3> QED
      BY <2>1, <2>3, <3>1, <3>2 DEF cache
  <2>4. ASSUME NEW enough \in BOOLEAN, NEW day \in Days, ~Late(t, day),
               got' = [got EXCEPT ![t] = [state |-> Classified(t, enough, day), day |-> day, at |-> now]],
               Goto(t, "promote")
        PROVE CInv'
    <3> DEFINE e == [state |-> Classified(t, enough, day), day |-> day, at |-> now]
    <3>1. e \in Entry
      BY DEF Classified, Entry, Whole
    <3>2. Dated /\ HasRows(latest) => day >= latest.day
      <4>1. saw[t].latest = latest
        BY <2>1
      <4>2. day \in Nat /\ (latest # None => latest.day \in Nat)
        BY EntriesAreDated
      <4> QED
        BY <2>4, <4>1, <4>2 DEF Late
    <3>3. Compared /\ e.state \in Whole /\ complete # None => day >= complete.day
      BY <2>1 DEF Classified, Entry, Whole
    <3> QED
      BY <2>3, <2>4, <3>1, <3>2, <3>3
  <2>5. \A day \in Days \union {0} : [state |-> "not_applicable", day |-> day, at |-> now] \in Entry
    BY DEF Entry
  <2> QED
    BY <1>5, <2>2, <2>3, <2>4, <2>5 DEF Fetch, Whole
<1>6. ASSUME NEW t \in Threads, FetchEnds(t) PROVE CInv'
  BY <1>6 DEF FetchEnds, Goto, cache
<1>7. ASSUME NEW t \in Threads, FailingStatement(t) PROVE CInv'
  BY <1>7 DEF FailingStatement, Goto, cache
<1>8. ASSUME NEW t \in Threads, Promote(t) PROVE CInv'
  BY <1>8 DEF Promote, Goto, cache, Promotable
<1>9. ASSUME NEW t \in Threads, Copy(t) PROVE CInv'
  <2>1. /\ pc[t] = "copy" /\ complete' = latest /\ UNCHANGED <<now, latest, attempt, saw, got>>
        /\ \A u \in Threads : u # t => pc[u] = "idle" /\ pc'[u] = "idle"
        /\ pc'[t] = "put"
    BY <1>9, <1>0 DEF Copy, Goto
  <2>2. latest # None /\ latest.state \in Whole /\ latest.day \in Nat /\ latest.day >= latest.day
    BY <2>1, EntriesAreDated
  <2> QED
    BY <2>1, <2>2
<1>10. ASSUME NEW t \in Threads, Put(t) PROVE CInv'
  BY <1>10 DEF Put, Goto
<1>11. ASSUME NEW t \in Threads, Clear(t) PROVE CInv'
  BY <1>11 DEF Clear, Goto
<1>12. ASSUME NEW t \in Threads, Mark(t) PROVE CInv'
  <2>1. /\ pc[t] = "mark" /\ complete' = latest /\ UNCHANGED <<now, latest, attempt, saw, got>>
        /\ \A u \in Threads : u # t => pc[u] = "idle" /\ pc'[u] = "idle"
        /\ pc'[t] = "return"
    BY <1>12, <1>0 DEF Mark, Goto
  <2>2. latest = got[t] /\ latest # None /\ latest.state \in Whole /\ latest.day \in Nat
        /\ latest.day >= latest.day
    BY <2>1, EntriesAreDated
  <2> QED
    BY <2>1, <2>2
<1>13. ASSUME NEW t \in Threads, StoreFailure(t) PROVE CInv'
  BY <1>13 DEF StoreFailure, Goto
<1>14. ASSUME NEW t \in Threads, Answer(t) PROVE CInv'
  BY <1>14 DEF Answer, Return, cache
<1>15. ASSUME NEW c \in Collectors, Crash(c) PROVE CInv'
  BY <1>15 DEF Crash, cache, OneRuntime, Owner, Threads
<1>16. CASE Tick
  BY <1>16 DEF Tick, cache, Entry
<1>17. CASE UNCHANGED vars
  BY <1>17 DEF vars
<1> QED
  BY <1>1, <1>2, <1>3, <1>4, <1>5, <1>6, <1>7, <1>8, <1>9, <1>10, <1>11, <1>12, <1>13, <1>14, <1>15, <1>16, <1>17 DEF Next, Call

-----------------------------------------------------------------------------
(* What a step may do to the entries.                                      *)

\* Only a copy and a mark write the history, only a put the current facts,
\* and only the decision to ask sends a thread to the sources.
LEMMA Writers ==
    ASSUME [Next]_vars
    PROVE /\ complete' = complete \/ \E t \in Threads : Copy(t) \/ Mark(t)
          /\ latest' = latest \/ \E t \in Threads : Put(t)
<1>1. ASSUME NEW t \in Threads, Call(t)
      PROVE (complete' = complete \/ Copy(t) \/ Mark(t)) /\ (latest' = latest \/ Put(t))
  BY <1>1 DEF Call, Begin, Hold, Serve, Ask, Fetch, FetchEnds, FailingStatement, Promote, Copy,
              Put, Clear, Mark, StoreFailure, Answer, cache
<1>2. CASE (\E c \in Collectors : Crash(c)) \/ Tick \/ UNCHANGED vars
  BY <1>2 DEF Crash, Tick, cache, vars
<1> QED
  BY <1>1, <1>2 DEF Next

LEMMA Askers ==
    ASSUME TInv, [Next]_vars, NEW t \in Threads, pc[t] # "fetch", pc'[t] = "fetch"
    PROVE Ask(t)
<1> USE DEF TInv, Shapes
<1>1. ASSUME NEW u \in Threads, Call(u) PROVE Ask(t)
  <2>1. CASE Return(u)
    BY <2>1 DEF Return
  <2>2. ASSUME NEW p \in Places, p # "fetch", Goto(u, p) PROVE FALSE
    BY <2>2 DEF Goto
  <2>3. CASE UNCHANGED pc
    BY <2>3
  <2>4. CASE Ask(u)
    <3>1. u = t
      BY <2>4 DEF Ask, Goto
    <3> QED
      BY <2>4, <3>1
  <2> QED
    BY <1>1, <2>1, <2>2, <2>3, <2>4
       DEF Places, Call, Begin, Hold, Serve, Fetch, FetchEnds, FailingStatement, Promote, Copy,
           Put, Clear, Mark, StoreFailure, Answer
<1>2. CASE \E c \in Collectors : Crash(c)
  BY <1>2 DEF Crash
<1>3. CASE Tick \/ UNCHANGED vars
  BY <1>3 DEF Tick, vars
<1> QED
  BY <1>1, <1>2, <1>3 DEF Next

LEMMA HistoryStep ==
    ASSUME TInv, CInv, [Next]_vars
    PROVE HistoryIsKept /\ HistoryMovesOn
<1> SUFFICES ASSUME complete # None
             PROVE /\ complete' # None /\ complete'.state \in Whole
                   /\ complete'.at >= complete.at /\ (Compared => complete'.day >= complete.day)
  BY DEF HistoryIsKept, HistoryMovesOn
<1>1. /\ complete.state \in Whole /\ complete.at \in Nat /\ complete.day \in Nat
      /\ now \in Nat /\ complete.at <= now
  BY EntriesAreDated, BoundsAreNumbers DEF TInv, Shapes, Maybe, CInv, HistoryIsWhole
<1>2. CASE complete' = complete
  BY <1>1, <1>2
<1>3. ASSUME NEW t \in Threads, Copy(t) \/ Mark(t)
      PROVE /\ complete' = latest /\ latest # None /\ latest.state \in Whole
            /\ latest.at >= complete.at
  <2>1. CASE Copy(t)
    BY <2>1 DEF Copy, CInv, GotFollows
  <2>2. CASE Mark(t)
    BY <1>1, <2>2 DEF Mark, CInv, GotFollows, TInv, HandsMatch
  <2> QED
    BY <1>3, <2>1, <2>2
<1>4. latest # None /\ latest.state \in Whole /\ Compared => latest.day >= complete.day
  BY DEF CInv, FactsReach
<1> QED
  BY <1>2, <1>3, <1>4, Writers

LEMMA FactsStep ==
    ASSUME TInv, CInv, [Next]_vars
    PROVE FactsMoveOn
<1> SUFFICES ASSUME Dated, HasRows(latest), HasRows(latest'), latest'.state # "not_applicable"
             PROVE latest'.day >= latest.day
  BY DEF FactsMoveOn
<1>1. CASE latest' = latest
  BY <1>1, EntriesAreDated DEF TInv, Shapes, Maybe, HasRows
<1>2. ASSUME NEW t \in Threads, Put(t) PROVE latest'.day >= latest.day
  BY <1>2 DEF Put, CInv, GotFollows, HasRows
<1> QED
  BY <1>1, <1>2, Writers

LEMMA SourcesStep ==
    ASSUME TInv, CInv, [Next]_vars
    PROVE SourcesAreRested
<1> SUFFICES ASSUME NEW t \in Threads, pc[t] # "fetch", pc'[t] = "fetch", attempt # None, ~refresh[t]
             PROVE now - attempt.at > Wait
  BY DEF SourcesAreRested
<1>1. pc[t] = "decide" /\ ~HeldBack(t)
  BY Askers DEF Ask
<1>2. saw[t].attempt = attempt /\ attempt.state = "failed" /\ attempt.at \in Nat /\ now \in Nat
  BY <1>1, EntriesAreDated, BoundsAreNumbers
     DEF CInv, SightHolds, TInv, EntriesKeepApart, Shapes, Maybe
<1>3. Wait \in Nat
  BY BoundsAreNumbers DEF Wait
<1>4. ~(now - attempt.at <= Wait)
  BY <1>1, <1>2 DEF HeldBack, Fresh, Ttl
<1> QED
  BY <1>2, <1>3, <1>4

-----------------------------------------------------------------------------
\* What one thread knows of the cache stays true while it needs it, when one
\* runtime uses the cache.
LEMMA SightHoldsAlways ==
    ASSUME OneRuntime
    PROVE Spec => [](TInv /\ CInv)
<1>1. Init => TInv /\ CInv
  BY TypedInit, SightInit
<1>2. TInv /\ CInv /\ [Next]_vars => TInv' /\ CInv'
  BY OneRuntime, TypedNext, SightNext
<1> QED
  BY <1>1, <1>2, PTL DEF Spec

\* The history that results are compared with is never lost and never replaced
\* by less than a whole result or by one collected earlier (_store, copy_entry),
\* wherever a store fails or the process ends; and where PricePolicy compares
\* whole rows with it, never by rows that end earlier.
THEOREM HistoryStays ==
    ASSUME OneRuntime
    PROVE Spec => HistoryKept /\ [][HistoryMovesOn]_vars
<1>1. TInv /\ CInv /\ [Next]_vars => HistoryIsKept /\ HistoryMovesOn
  BY HistoryStep
<1> QED
  BY <1>1, SightHoldsAlways, OneRuntime, PTL DEF Spec, HistoryKept

\* Rows of prices or of financials that are stored as anything but "not
\* applicable" never end before the current facts they replace (_is_late).
THEOREM FactsOnlyMoveOn ==
    ASSUME OneRuntime
    PROVE Spec => [][FactsMoveOn]_vars
<1>1. TInv /\ CInv /\ [Next]_vars => FactsMoveOn
  BY FactsStep
<1> QED
  BY <1>1, SightHoldsAlways, OneRuntime, PTL DEF Spec

\* A remembered failure keeps the sources from being asked for the retry
\* time, unless a person asks for a refresh (collect).
THEOREM SourcesRestAfterFailure ==
    ASSUME OneRuntime
    PROVE Spec => SourcesRest
<1>1. TInv /\ CInv /\ [Next]_vars => SourcesAreRested
  BY SourcesStep
<1> QED
  BY <1>1, SightHoldsAlways, OneRuntime, PTL DEF Spec, SourcesRest

-----------------------------------------------------------------------------
(* HKPeers.  What an analysis shows is built for the peers the files named   *)
(* when it asked (CallFits), and the snapshot that is kept has a value of    *)
(* one day for each of its peers (CacheFits).                                *)

CONSTANTS Analyses, Target, Others, Rosters, Sites, PageSize, MaxMoves
VARIABLES roster, site, snapshot, fresh, call, moves

Pool == INSTANCE HKPeers WITH Callers <- Analyses, cache <- snapshot

PeersConstants == MaxMoves \in Nat

\* Every answer is built for the peers it names; one without errors has all of their days.
LEMMA BuildFits ==
    ASSUME NEW rows, NEW ros, NEW d, d = Pool!Build(rows, ros)
    PROVE  /\ d.peers = Pool!Qualified(ros) /\ d.sector = ros[Target] /\ DOMAIN d.value = d.peers /\ d.errors \in BOOLEAN
           /\ ~d.errors => d.asof # 0 /\ \A c \in d.peers : d.value[c] # 0
<1>1. PICK peers : peers = Pool!Qualified(ros)
  OBVIOUS
<1>2. PICK s : s = ros[Target]
  OBVIOUS
<1>3. PICK day : day = Pool!Day(rows, Target, s)
  OBVIOUS
<1>4. PICK value : value = [c \in peers |-> Pool!Picked(rows, c, s, day)]
  OBVIOUS
<1>5. PICK quoted : quoted = {c \in peers \union {Target} : Pool!About(rows, c, s) # {}}
  OBVIOUS
<1>6. PICK errors \in BOOLEAN : errors = (day = 0 \/ quoted # peers \union {Target} \/ \E c \in peers \intersect quoted : value[c] = 0)
  OBVIOUS
<1>7. d = [sector |-> s, peers |-> peers, asof |-> day, value |-> value, errors |-> errors]
  BY <1>1, <1>2, <1>3, <1>4, <1>5, <1>6 DEF Pool!Build
<1>8. ~errors => day # 0 /\ \A c \in peers : value[c] # 0
  BY <1>6
<1> QED BY <1>1, <1>2, <1>4, <1>7, <1>8

CacheFits(d) == d # None =>
    /\ d.peers \subseteq Others /\ DOMAIN d.value = d.peers
    /\ d.asof # 0 /\ \A c \in d.peers : d.value[c] # 0
CallFits(r) ==
    /\ DOMAIN r = DOMAIN Pool!NewCall /\ r.pc \in {"new", "page", "build", "done"}
    /\ r.pc # "done" => r.shown = None
    /\ r.shown # None => r.shown.peers = Pool!Qualified(r.roster) /\ r.shown.sector = r.roster[Target]

PeersInv ==
    /\ roster \in Rosters /\ site \in Sites /\ fresh \in BOOLEAN /\ moves \in 0 .. MaxMoves
    /\ CacheFits(snapshot)
    /\ DOMAIN call = Analyses /\ \A p \in Analyses : CallFits(call[p])

LEMMA CallMoves ==
    ASSUME PeersInv, NEW p \in Analyses, NEW r, Pool!Go(p, r), CallFits(r)
    PROVE  DOMAIN call' = Analyses /\ \A q \in Analyses : CallFits(call'[q])
  BY DEF Pool!Go, PeersInv

\* A call is over: it shows nothing, or what names its peers.
LEMMA DoneFits ==
    ASSUME PeersInv, NEW p \in Analyses, NEW r, NEW d, NEW status, Pool!Done(p, r, d, status),
           d # None => d.peers = Pool!Qualified(r.roster) /\ d.sector = r.roster[Target]
    PROVE  DOMAIN call' = Analyses /\ \A q \in Analyses : CallFits(call'[q])
<1>1. PICK ros : ros = r.roster
  OBVIOUS
<1>2. PICK x : x = [Pool!NewCall EXCEPT !.pc = "done", !.roster = ros, !.shown = d, !.status = status]
  OBVIOUS
<1>3. DOMAIN x = DOMAIN Pool!NewCall /\ x.pc = "done" /\ x.roster = ros /\ x.shown = d
  BY <1>2 DEF Pool!NewCall
<1>4. CallFits(x)
  BY <1>1, <1>3 DEF CallFits
<1>5. Pool!Go(p, x)
  BY <1>1, <1>2 DEF Pool!Done
<1> QED BY <1>4, <1>5, CallMoves

\* What an old snapshot gives is built for the roster of the call.
LEMMA RestoredFits ==
    ASSUME NEW old, NEW ros
    PROVE  \E rows : Pool!Restored(old, ros) = Pool!Build(rows, ros)
  BY DEF Pool!Restored

LEMMA StaleFits ==
    ASSUME PeersInv, NEW p \in Analyses, NEW r, NEW old, NEW status, Pool!Done(p, r, Pool!Restored(old, r.roster), status)
    PROVE  DOMAIN call' = Analyses /\ \A q \in Analyses : CallFits(call'[q])
<1>1. PICK d : d = Pool!Restored(old, r.roster)
  OBVIOUS
<1>2. PICK rows : d = Pool!Build(rows, r.roster)
  BY <1>1, RestoredFits
<1>3. d.peers = Pool!Qualified(r.roster) /\ d.sector = r.roster[Target]
  BY <1>2, BuildFits
<1> QED BY <1>1, <1>3, DoneFits

LEMMA CacheSame ==
    ASSUME PeersInv, UNCHANGED <<Pool!world, snapshot>>, fresh' \in BOOLEAN,
           DOMAIN call' = Analyses /\ \A q \in Analyses : CallFits(call'[q])
    PROVE  PeersInv'
<1>1. UNCHANGED <<roster, site, moves, snapshot>>
  BY DEF Pool!world
<1>2. \A q \in Analyses : CallFits(call[q])'
  BY DEF CallFits, Pool!NewCall, Pool!Qualified
<1> QED BY <1>1, <1>2 DEF PeersInv, CacheFits

LEMMA BeginKeeps == ASSUME PeersInv, NEW p \in Analyses, Pool!Begin(p) PROVE PeersInv'
<1>1. PICK r : r = [Pool!NewCall EXCEPT !.roster = roster, !.old = snapshot]
  OBVIOUS
<1>2. DOMAIN r = DOMAIN Pool!NewCall /\ r.pc = "new" /\ r.roster = roster /\ r.old = snapshot /\ r.shown = None
  BY <1>1 DEF Pool!NewCall
<1>3. CASE Pool!Done(p, r, None, "none")
  BY <1>2, <1>3, DoneFits, CacheSame DEF Pool!Begin, PeersInv
<1>4. CASE snapshot # None /\ Pool!Reusable(snapshot, roster) /\ Pool!Done(p, r, snapshot, "cache")
  <2>1. PICK d : d = snapshot
    OBVIOUS
  <2>2. DOMAIN call' = Analyses /\ \A q \in Analyses : CallFits(call'[q])
    BY <1>2, <1>4, <2>1, DoneFits DEF Pool!Reusable
  <2> QED BY <2>2, CacheSame DEF Pool!Begin, PeersInv
<1>5. CASE Pool!Done(p, r, Pool!Restored(snapshot, roster), "stale")
  <2>1. PICK d : d = snapshot
    OBVIOUS
  <2>2. DOMAIN call' = Analyses /\ \A q \in Analyses : CallFits(call'[q])
    BY <1>2, <1>5, <2>1, StaleFits
  <2> QED BY <2>2, CacheSame DEF Pool!Begin, PeersInv
<1>6. CASE Pool!Go(p, [r EXCEPT !.pc = "page", !.page = 1])
  <2>1. PICK x : x = [r EXCEPT !.pc = "page", !.page = 1]
    OBVIOUS
  <2>2. CallFits(x)
    BY <1>2, <2>1 DEF CallFits, Pool!NewCall
  <2> QED BY <1>6, <2>1, <2>2, CallMoves, CacheSame DEF Pool!Begin, PeersInv
<1> QED BY <1>1, <1>3, <1>4, <1>5, <1>6 DEF Pool!Begin

LEMMA PageKeeps == ASSUME PeersInv, NEW p \in Analyses, Pool!Page(p) \/ Pool!PageFails(p) PROVE PeersInv'
<1>1. PICK r : r = call[p]
  OBVIOUS
<1>2. CallFits(r) /\ UNCHANGED <<Pool!world, snapshot, fresh>> /\ r.pc = "page"
  BY <1>1 DEF PeersInv, Pool!Page, Pool!PageFails, Pool!At
<1>3. CASE Pool!Done(p, r, Pool!Restored(r.old, r.roster), "stale")
  BY <1>2, <1>3, StaleFits, CacheSame DEF PeersInv
<1>4. PICK s : s = [r EXCEPT !.rows = @ \union Pool!PageOf(r.page), !.got = @ + Pool!OnPage(r.page),
                             !.pages = Pool!PagesNow, !.count = Pool!Len(site), !.page = @ + 1]
  OBVIOUS
<1>5. DOMAIN s = DOMAIN Pool!NewCall /\ s.pc = "page" /\ s.shown = r.shown
  BY <1>2, <1>4 DEF CallFits, Pool!NewCall
<1>6. CASE Pool!Go(p, s)
  BY <1>2, <1>5, <1>6, CallMoves, CacheSame DEF CallFits, PeersInv
<1>7. CASE Pool!Done(p, r, Pool!Restored(r.old, r.roster), "stale") \/ Pool!Go(p, s) \/ Pool!Go(p, [s EXCEPT !.pc = "build"])
  <2>1. PICK x : x = [s EXCEPT !.pc = "build"]
    OBVIOUS
  <2>2. CallFits(x)
    BY <1>2, <1>5, <2>1 DEF CallFits, Pool!NewCall
  <2> QED BY <1>2, <1>3, <1>6, <1>7, <2>1, <2>2, CallMoves, CacheSame DEF PeersInv
<1> QED BY <1>1, <1>4, <1>7 DEF Pool!Page, Pool!PageFails

LEMMA KeepKeeps == ASSUME PeersInv, NEW p \in Analyses, Pool!Keep(p) PROVE PeersInv'
<1>1. PICK r : r = call[p]
  OBVIOUS
<1>2. PICK d : d = Pool!Build(r.rows, r.roster)
  OBVIOUS
<1>3. UNCHANGED <<roster, site, moves>> /\ UNCHANGED Pool!world
  BY DEF Pool!Keep, Pool!world
<1>4. CASE Pool!Done(p, r, Pool!Restored(r.old, r.roster), "stale") /\ UNCHANGED <<snapshot, fresh>>
  BY <1>3, <1>4, StaleFits, CacheSame DEF PeersInv
<1>5. CASE Pool!Done(p, r, d, "live") /\ IF ~d.errors /\ ~r.late THEN snapshot' = d /\ fresh' = TRUE ELSE UNCHANGED <<snapshot, fresh>>
  <2>1. DOMAIN call' = Analyses /\ \A q \in Analyses : CallFits(call'[q])
    BY <1>2, <1>5, BuildFits, DoneFits
  <2>2. CASE UNCHANGED <<snapshot, fresh>>
    BY <1>3, <2>1, <2>2, CacheSame DEF PeersInv
  <2>3. CASE ~d.errors /\ snapshot' = d /\ fresh' = TRUE
    <3>1. CacheFits(d)
      <4>1. Pool!Qualified(r.roster) \subseteq Others
        BY DEF Pool!Qualified
      <4> QED BY <1>2, <2>3, <4>1, BuildFits DEF CacheFits
    <3>2. CacheFits(snapshot)'
      BY <2>3, <3>1 DEF CacheFits
    <3>3. \A q \in Analyses : CallFits(call[q])'
      BY <2>1 DEF CallFits, Pool!NewCall, Pool!Qualified
    <3> QED BY <1>3, <2>1, <2>3, <3>2, <3>3 DEF PeersInv
  <2> QED BY <1>5, <2>2, <2>3
<1> QED BY <1>1, <1>2, <1>4, <1>5 DEF Pool!Keep

LEMMA RestKeeps ==
    ASSUME PeersInv, NEW p \in Analyses, Pool!Lapse(p) \/ Pool!Again(p)
    PROVE  PeersInv'
<1>1. CallFits(call[p]) /\ UNCHANGED <<Pool!world, snapshot, fresh>>
  BY DEF PeersInv, Pool!Lapse, Pool!Again
<1>2. CASE Pool!Lapse(p)
  <2>1. PICK x : x = [call[p] EXCEPT !.late = TRUE]
    OBVIOUS
  <2>2. CallFits(x)
    BY <1>1, <2>1 DEF CallFits, Pool!NewCall
  <2> QED BY <1>1, <1>2, <2>1, <2>2, CallMoves, CacheSame DEF Pool!Lapse, PeersInv
<1>3. CASE Pool!Again(p)
  <2>1. CallFits(Pool!NewCall)
    BY DEF CallFits, Pool!NewCall
  <2> QED BY <1>1, <1>3, <2>1, CallMoves, CacheSame DEF Pool!Again, PeersInv
<1> QED BY <1>2, <1>3

LEMMA PeersStep == PeersConstants /\ PeersInv /\ [Pool!Next]_Pool!hpvars => PeersInv'
<1> SUFFICES ASSUME PeersConstants, PeersInv, [Pool!Next]_Pool!hpvars PROVE PeersInv'
  OBVIOUS
<1>1. CASE UNCHANGED Pool!hpvars \/ Pool!HourPasses
  <2>1. UNCHANGED <<roster, site, moves, snapshot, call>> /\ UNCHANGED <<Pool!world, snapshot>> /\ fresh' \in BOOLEAN
    BY <1>1 DEF Pool!hpvars, Pool!HourPasses, Pool!world, PeersInv
  <2> QED BY <2>1, CacheSame DEF PeersInv
<1>2. CASE Pool!Move
  <2>1. roster' \in Rosters /\ site' \in Sites /\ moves' \in 0 .. MaxMoves /\ UNCHANGED <<snapshot, fresh, call>>
    BY <1>2 DEF Pool!Move, PeersInv, PeersConstants
  <2>2. \A q \in Analyses : CallFits(call[q])'
    BY <2>1 DEF PeersInv, CallFits, Pool!NewCall, Pool!Qualified
  <2> QED BY <2>1, <2>2 DEF PeersInv, CacheFits
<1> QED BY <1>1, <1>2, BeginKeeps, PageKeeps, KeepKeeps, RestKeeps DEF Pool!Next

(* Whatever _fetch_impl shows of a Hong Kong stock's peers is of the peers   *)
(* the files gave that call, and what the cache holds has all of their       *)
(* values, for any number of calls that share it, changes of the files and   *)
(* of the site between two pages.                                            *)
THEOREM PeersAreQualified == PeersConstants /\ Pool!Spec => [](Pool!HPTypeOK /\ Pool!HPSafe)
<1> SUFFICES ASSUME PeersConstants PROVE Pool!Spec => [](Pool!HPTypeOK /\ Pool!HPSafe)
  OBVIOUS
<1>1. Pool!Init => PeersInv
  <2>1. CallFits(Pool!NewCall)
    BY DEF CallFits, Pool!NewCall
  <2>2. ASSUME Pool!Init PROVE DOMAIN call = Analyses /\ \A p \in Analyses : CallFits(call[p])
    <3>1. DOMAIN call = Analyses /\ \A p \in Analyses : call[p] = Pool!NewCall
      BY <2>2 DEF Pool!Init
    <3> QED BY <2>1, <3>1
  <2>3. Pool!Init => roster \in Rosters /\ site \in Sites /\ fresh \in BOOLEAN /\ moves \in 0 .. MaxMoves
    <3>1. MaxMoves \in Nat
      BY DEF PeersConstants
    <3>2. Pool!Init => fresh = FALSE /\ moves = 0 /\ roster \in Rosters /\ site \in Sites
      BY DEF Pool!Init
    <3>3. 0 \in 0 .. MaxMoves /\ FALSE \in BOOLEAN
      BY <3>1
    <3> QED BY <3>2, <3>3
  <2>4. Pool!Init => CacheFits(snapshot)
    BY DEF Pool!Init, CacheFits
  <2> QED BY <2>2, <2>3, <2>4 DEF PeersInv
<1>2. PeersInv /\ [Pool!Next]_Pool!hpvars => PeersInv'
  BY PeersStep
<1>3. PeersInv => Pool!HPTypeOK /\ Pool!HPSafe
  BY DEF PeersInv, CacheFits, CallFits, Pool!HPTypeOK, Pool!HPSafe, Pool!CacheWhole, Pool!ShownQualified
<1> QED BY <1>1, <1>2, <1>3, PTL DEF Pool!Spec

(* Only an answer in time and without errors replaces the snapshot.          *)
THEOREM SnapshotsInTime == PeersConstants /\ Pool!Spec => [][Pool!KeptInTime]_Pool!hpvars
<1> SUFFICES ASSUME PeersConstants PROVE Pool!Spec => [][Pool!KeptInTime]_Pool!hpvars
  OBVIOUS
<1>1. [Pool!Next]_Pool!hpvars => [Pool!KeptInTime]_Pool!hpvars
  <2> SUFFICES ASSUME Pool!Next, snapshot' # snapshot PROVE Pool!KeptInTime
    BY DEF Pool!KeptInTime
  <2>1. PICK p \in Analyses : Pool!Keep(p)
    BY DEF Pool!Next, Pool!Begin, Pool!Page, Pool!PageFails, Pool!Lapse, Pool!Again, Pool!HourPasses, Pool!Move
  <2> QED BY <2>1 DEF Pool!Keep, Pool!KeptInTime
<1> QED BY <1>1, PTL DEF Pool!Spec

-----------------------------------------------------------------------------
(* GoldSources.  One run has the lock, so what it has read is still filed    *)
(* when it writes (Asking, Holding, Saving, Saved); the complete series that *)
(* is filed has no day that a latest one called complete lacks (FilesFit).   *)

CONSTANTS Reports, Answers, FirstDay, LastDay, CacheFor, MaxAge, Span, Enough, Window, Lag, MaxVisits, MaxMishaps
VARIABLES hour, filed, visit, told, seen

Gold == INSTANCE GoldSources WITH Callers <- Reports

\* Of numbers that are not below zero there is a least one, and a greatest if they end.
LEMMA LeastOf ==
  ASSUME NEW T, T \subseteq Nat, T # {}
  PROVE  \E x \in T : \A y \in T : x <= y
<1> DEFINE R == OpToRel(<, Nat)
<1>1. IsWellFoundedOn(R, Nat)
  BY NatLessThanWellFounded
<1>2. \A x, y \in Nat : x < y => <<x, y>> \in R
  BY DEF OpToRel
<1> HIDE DEF R
<1>3. PICK x \in T : \A y \in T : <<y, x>> \notin R
  BY <1>1, WFMin, Zenon
<1>4. \A y \in T : y \in Nat /\ ~(y < x)
  BY <1>2, <1>3, Zenon
<1>5. x \in Nat /\ \A y \in T : x <= y
  BY <1>4
<1> QED BY <1>5
LEMMA GreatestOf ==
  ASSUME NEW T, NEW b \in Int, T \subseteq Nat, T # {}, \A x \in T : x <= b
  PROVE  \E x \in T : \A y \in T : y <= x
<1> DEFINE D == {b - x : x \in T}
<1>1. D \subseteq Nat /\ D # {}
  <2>1. \A x \in T : x \in Nat /\ b - x \in Nat
    OBVIOUS
  <2> QED BY <2>1
<1>2. PICK d \in D : \A e \in D : d <= e
  BY <1>1, LeastOf
<1>3. PICK x \in T : d = b - x
  BY <1>2
<1>4. ASSUME NEW y \in T PROVE y <= x
  <2>1. d <= b - y
    BY <1>2
  <2> QED BY <2>1, <1>3
<1> QED BY <1>4

FileRows == [days : SUBSET Nat, state : {"complete", "partial"}, fetched : Nat, stored : Nat, expires : Nat]
\* Days and the clock are numbers.
GoldConstants ==
    /\ FirstDay \in Nat /\ LastDay \in Nat /\ FirstDay <= LastDay
    /\ CacheFor \in Nat /\ Retry \in Nat /\ Window \in Nat /\ Lag \in Nat /\ MaxAge \in Int /\ Enough \in Int /\ Span \in Int
    /\ \A days \in Answers : days \subseteq Nat
    /\ None \notin Nat \union FileRows \union SUBSET Nat

\* A series of days that were over when it was fetched.
Series(s) ==
    /\ s.days \subseteq Nat /\ s.days # {} /\ s.fetched \in Nat /\ \A d \in s.days : d <= s.fetched
    /\ s.state \in {"complete", "partial"}
Filed(s) ==
    /\ s \in FileRows /\ Series(s) /\ s.fetched <= s.stored /\ s.stored <= hour
\* What a run has read of a file.
CopyOf(s, f) ==
    /\ s = None <=> f = None
    /\ f # None => Filed(s) /\ s.days = f.days /\ s.fetched = f.fetched

Judged(days, at) == Gold!Classify(days, None, at) = "complete"
\* The complete series that is filed has no day the other lacks.
CoversWhole(days) == filed.whole # None => Gold!Asked(filed.whole.days, hour) \subseteq days
LatestIsWhole == filed.latest # None /\ Judged(filed.latest.days, filed.latest.fetched)

FilesFit ==
    /\ DOMAIN filed = {"latest", "whole", "attempt"} /\ filed.attempt \in (FirstDay .. hour) \union {None}
    /\ filed.latest # None => Filed(filed.latest)
    /\ filed.whole # None => Filed(filed.whole) /\ filed.latest # None
    /\ filed.latest # None /\ filed.latest.state = "complete" => CoversWhole(filed.latest.days)

SeenFits ==
    /\ DOMAIN seen = {"visits", "mishaps", "whole", "last"} /\ seen.last \in Nat
    /\ seen.last > 0 => filed.latest # None /\ Gold!LastOf(filed.latest.days) >= seen.last
    /\ seen.whole => filed.whole # None \/ LatestIsWhole

\* What a run holds belongs to the files as they are: it writes alone.
Asking(v) ==
    /\ CopyOf(v.latest, filed.latest)
    /\ v.kept \in BOOLEAN /\ (v.kept <=> filed.whole = None /\ LatestIsWhole)
    /\ v.kept => v.whole = v.latest
    /\ ~v.kept => CopyOf(v.whole, filed.whole)
Holding(v) ==
    /\ DOMAIN v.value = {"days", "state", "fetched"} /\ Series(v.value) /\ v.value.fetched = v.at
    /\ v.value.state = "complete" => Judged(v.value.days, v.value.fetched) /\ CoversWhole(v.value.days)
Saving(v) ==
    /\ filed.latest # None => Gold!LastOf(v.value.days) >= Gold!LastOf(filed.latest.days)
    /\ v.pc = "whole0" => /\ v.value.state = "partial" /\ filed.whole = None /\ filed.latest # None
                          /\ Filed(v.whole) /\ v.whole.days = filed.latest.days
    /\ v.pc = "latest" /\ v.value.state = "partial" => filed.whole # None \/ ~LatestIsWhole
Saved(v) ==
    /\ filed.latest # None /\ filed.latest.days = v.value.days /\ filed.latest.state = v.value.state
    /\ v.pc = "whole" => v.value.state = "complete"

Inner == {"asking", "whole0", "latest", "whole", "unlink"}
VisitFits(v) ==
    /\ DOMAIN v = DOMAIN Gold!Idle /\ v.pc \in {"idle", "waits"} \union Inner
    /\ v.at \in Nat /\ (v.pc # "idle" => v.at <= hour)
    /\ v.pc = "asking" => Asking(v)
    /\ v.pc \in {"whole0", "latest", "whole", "unlink"} => Holding(v)
    /\ v.pc \in {"whole0", "latest"} => Saving(v)
    /\ v.pc \in {"whole", "unlink"} => Saved(v)

ToldFits(ans) == /\ DOMAIN ans = {"days", "state", "from"} /\ ans.state \in {"complete", "partial", "failed"}

GoldInv ==
    /\ hour \in FirstDay .. LastDay
    /\ FilesFit /\ SeenFits
    /\ DOMAIN visit = Reports /\ \A c \in Reports : VisitFits(visit[c])
    /\ \A c, o \in Reports : Gold!Inside(c) /\ Gold!Inside(o) => c = o
    /\ told # None => ToldFits(told)

-----------------------------------------------------------------------------
LEMMA GoldInit == GoldConstants /\ Gold!GSInit => GoldInv
<1> SUFFICES ASSUME GoldConstants, Gold!GSInit PROVE GoldInv
  OBVIOUS
<1>1. hour \in FirstDay .. LastDay /\ DOMAIN visit = Reports /\ \A c \in Reports : visit[c] = Gold!Idle
  BY DEF Gold!GSInit, GoldConstants
<1>2. VisitFits(Gold!Idle)
  BY DEF VisitFits, Gold!Idle, Inner
<1>3. FilesFit
  BY DEF FilesFit, Gold!GSInit
<1>4. SeenFits
  BY DEF SeenFits, Gold!GSInit
<1>5. \A c \in Reports : ~Gold!Inside(c)
  BY <1>1 DEF Gold!Inside, Gold!Idle
<1> QED BY <1>1, <1>2, <1>3, <1>4, <1>5 DEF GoldInv, Gold!GSInit

\* The last day of days that end is one of them.
LEMMA LastFits ==
    ASSUME NEW days, days \subseteq Nat, days # {}, NEW b \in Nat, \A d \in days : d <= b
    PROVE  Gold!LastOf(days) \in days /\ Gold!LastOf(days) \in Nat /\ \A d \in days : d <= Gold!LastOf(days)
<1>1. PICK x \in days : \A y \in days : y <= x
  <2>1. b \in Int
    OBVIOUS
  <2> QED BY <2>1, GreatestOf
<1>2. Gold!LastOf(days) \in days /\ \A d \in days : d <= Gold!LastOf(days)
  BY <1>1 DEF Gold!LastOf
<1> QED BY <1>2

LEMMA SeriesLast ==
    ASSUME NEW s, Series(s)
    PROVE  Gold!LastOf(s.days) \in s.days /\ Gold!LastOf(s.days) \in Nat /\ \A d \in s.days : d <= Gold!LastOf(s.days)
<1>1. PICK days : days = s.days
  OBVIOUS
<1>2. PICK b \in Nat : b = s.fetched
  BY DEF Series
<1> QED BY <1>1, <1>2, LastFits DEF Series

\* What a run reads of a file.
LEMMA ReadFits ==
    ASSUME GoldConstants, hour \in Nat, NEW f, f # None => Filed(f), NEW s, s = Gold!ReadCache(f, hour)
    PROVE  CopyOf(s, f) /\ (f # None => (s.state = "complete" => f.state = "complete"))
<1>1. CASE f = None
  BY <1>1 DEF Gold!ReadCache, CopyOf
<1>2. CASE f # None
  <2>1. PICK state : state = IF Gold!Classify(f.days, None, hour) = "partial" THEN "partial" ELSE f.state
    OBVIOUS
  <2>2. PICK expires : expires = IF state = "partial" THEN Gold!Sooner(f.expires, f.stored + Retry) ELSE f.expires
    OBVIOUS
  <2>3. f.fetched \in Nat /\ f.stored \in Nat /\ f.expires \in Nat /\ f.fetched <= hour /\ f.stored <= hour
    BY <1>2 DEF Filed, Series, FileRows
  <2>4. s = [f EXCEPT !.state = state, !.expires = expires]
    BY <1>2, <2>1, <2>2, <2>3 DEF Gold!ReadCache
  <2>5. expires \in Nat
    BY <2>2, <2>3 DEF Gold!Sooner, GoldConstants
  <2>6. state \in {"complete", "partial"} /\ (state = "complete" => f.state = "complete")
    BY <1>2, <2>1 DEF Filed, Series
  <2>7. s \in FileRows /\ s.days = f.days /\ s.fetched = f.fetched /\ s.stored = f.stored /\ s.state = state
    BY <1>2, <2>4, <2>5, <2>6 DEF Filed, FileRows
  <2>8. Filed(s)
    BY <1>2, <2>6, <2>7 DEF Filed, Series
  <2>9. s # None
    BY <2>7 DEF GoldConstants
  <2> QED BY <1>2, <2>6, <2>7, <2>8, <2>9 DEF CopyOf
<1> QED BY <1>1, <1>2

\* What is judged complete at one time and against one series was so before and covers it.
LEMMA JudgedBefore ==
    ASSUME NEW days, NEW old, NEW h \in Nat, NEW at \in Nat, at <= h, Gold!LastOf(days) \in Nat, GoldConstants,
           Gold!Classify(days, old, h) = "complete"
    PROVE  Judged(days, at) /\ (old # None => Gold!Asked(old, h) \subseteq days)
<1>1. h - Gold!LastOf(days) <= MaxAge /\ Gold!Covers(days)
  BY DEF Gold!Classify, GoldConstants
<1>2. at - Gold!LastOf(days) <= MaxAge
  BY <1>1 DEF GoldConstants
<1>3. Judged(days, at)
  BY <1>1, <1>2 DEF Judged, Gold!Classify, GoldConstants
<1>4. old # None => Gold!Asked(old, h) \subseteq days
  BY DEF Gold!Classify
<1> QED BY <1>3, <1>4

LEMMA Judges == \A days, old, h : Gold!Classify(days, old, h) \in {"complete", "partial"}
  BY DEF Gold!Classify

-----------------------------------------------------------------------------
\* A step of one run: the others are outside, or the files stay.
LEMMA OneVisits ==
    ASSUME GoldInv, NEW c \in Reports, NEW w, visit' = [visit EXCEPT ![c] = w], VisitFits(w)', UNCHANGED hour,
           UNCHANGED filed \/ Gold!Inside(c), w.pc \in Inner => \A o \in Reports \ {c} : ~Gold!Inside(o)
    PROVE  /\ DOMAIN visit' = Reports /\ \A q \in Reports : VisitFits(visit[q])'
           /\ \A q, o \in Reports : Gold!Inside(q)' /\ Gold!Inside(o)' => q = o
<1>1. DOMAIN visit' = Reports /\ visit'[c] = w /\ \A q \in Reports \ {c} : visit'[q] = visit[q]
  BY DEF GoldInv
<1>2. ASSUME NEW v, VisitFits(v), UNCHANGED filed \/ v.pc \notin Inner PROVE VisitFits(v)'
  <2>1. CASE UNCHANGED filed
    BY <1>2, <2>1 DEF VisitFits, Asking, Holding, Saving, Saved, CopyOf, Filed, LatestIsWhole, CoversWhole
  <2>2. CASE v.pc \notin Inner
    BY <1>2, <2>2 DEF VisitFits, Inner
  <2> QED BY <1>2, <2>1, <2>2
<1>3. \A q \in Reports \ {c} : UNCHANGED filed \/ visit[q].pc \notin Inner
  BY DEF GoldInv, Gold!Inside, Inner
<1>4. ASSUME NEW q \in Reports PROVE VisitFits(visit[q])'
  <2>1. CASE q = c
    BY <1>1, <2>1
  <2>2. CASE q # c
    <3>1. PICK v : v = visit[q]
      OBVIOUS
    <3>2. VisitFits(v)'
      BY <1>2, <1>3, <2>2, <3>1 DEF GoldInv
    <3>3. v = visit'[q]
      BY <1>1, <2>2, <3>1
    <3> QED BY <3>2, <3>3
  <2> QED BY <2>1, <2>2
<1>5. \A q \in Reports \ {c} : Gold!Inside(q)' <=> Gold!Inside(q)
  BY <1>1 DEF Gold!Inside
<1>6. Gold!Inside(c)' <=> w.pc \in Inner
  BY <1>1 DEF Gold!Inside, Inner
<1> QED BY <1>1, <1>4, <1>5, <1>6 DEF GoldInv

\* What a run answers from the files is the latest series.
Shown(ans) ==
    /\ ToldFits(ans)
    /\ ans.from = "files" => /\ ans.days = IF filed.latest = None THEN {} ELSE filed.latest.days
                             /\ ans.state = "complete" => CoversWhole(ans.days)

LEMMA TellKeeps ==
    ASSUME GoldInv, NEW c \in Reports, NEW ans, Shown(ans), Gold!Tell(c, ans), UNCHANGED hour,
           filed'.latest = filed.latest, filed'.whole = filed.whole, FilesFit', UNCHANGED filed \/ Gold!Inside(c), SeenFits'
    PROVE  GoldInv' /\ Gold!GSStep
<1>1. VisitFits(Gold!Idle)'
  BY DEF VisitFits, Gold!Idle, Inner, GoldInv
<1>2. PICK w : w = Gold!Idle
  OBVIOUS
<1>3. VisitFits(w)' /\ w.pc \notin Inner
  BY <1>1, <1>2 DEF VisitFits, Gold!Idle, Inner
<1>4. visit' = [visit EXCEPT ![c] = w] /\ told' = ans
  BY <1>2 DEF Gold!Tell
<1>5. /\ DOMAIN visit' = Reports /\ \A q \in Reports : VisitFits(visit[q])'
      /\ \A q, o \in Reports : Gold!Inside(q)' /\ Gold!Inside(o)' => q = o
  BY <1>3, <1>4, OneVisits
<1>6. ToldFits(told)'
  BY <1>4 DEF Shown, ToldFits
<1>7. GoldInv'
  BY <1>5, <1>6 DEF GoldInv
<1>8. ASSUME told'.from = "files"
      PROVE  /\ seen.last > 0 => told'.days # {} /\ Gold!LastOf(told'.days) >= seen.last
             /\ told'.state = "complete" /\ filed.whole # None => Gold!Asked(filed.whole.days, hour) \subseteq told'.days
  <2>1. seen.last > 0 => told'.days # {} /\ Gold!LastOf(told'.days) >= seen.last
    <3> SUFFICES ASSUME seen.last > 0 PROVE told'.days # {} /\ Gold!LastOf(told'.days) >= seen.last
      OBVIOUS
    <3>1. filed.latest # None /\ Gold!LastOf(filed.latest.days) >= seen.last /\ filed.latest.days # {}
      BY DEF GoldInv, SeenFits, FilesFit, Filed, Series
    <3>2. told'.days = filed.latest.days
      BY <1>4, <1>8, <3>1 DEF Shown
    <3> QED BY <3>1, <3>2
  <2>2. told'.state = "complete" /\ filed.whole # None => Gold!Asked(filed.whole.days, hour) \subseteq told'.days
    BY <1>4, <1>8 DEF Shown, CoversWhole
  <2> QED BY <2>1, <2>2
<1> QED BY <1>7, <1>8 DEF Gold!GSStep

LEMMA SeenMisses ==
    ASSUME SeenFits, seen' = Gold!OneMore \/ seen' = seen \/ seen' = [seen EXCEPT !.visits = @ + 1],
           filed'.latest = filed.latest, filed'.whole = filed.whole
    PROVE  SeenFits'
<1>1. DOMAIN seen' = DOMAIN seen /\ seen'.last = seen.last /\ seen'.whole = seen.whole
  BY DEF SeenFits, Gold!OneMore
<1> QED BY <1>1 DEF SeenFits, LatestIsWhole

\* What is remembered of an answer is in the files.
LEMMA Remembers ==
    ASSUME GoldInv, NEW ans, Shown(ans), ans.from = "files", seen' = Gold!Remember(ans) \/ seen' = [Gold!Remember(ans) EXCEPT !.mishaps = @ + 1],
           filed'.latest = filed.latest, filed'.whole = filed.whole
    PROVE  SeenFits'
<1>1. SeenFits /\ FilesFit
  BY DEF GoldInv
<1>2. LatestIsWhole' = LatestIsWhole
  BY DEF LatestIsWhole
<1>3. CASE ans.days = {}
  BY <1>1, <1>3, SeenMisses DEF Gold!Remember, Gold!OneMore
<1>4. CASE ans.days # {}
  <2>1. filed.latest # None /\ ans.days = filed.latest.days
    BY <1>4 DEF Shown
  <2>2. Gold!LastOf(filed.latest.days) \in Nat
    BY <1>1, <2>1, SeriesLast DEF FilesFit, Filed
  <2>3. PICK last : last = IF Gold!LastOf(ans.days) > seen.last THEN Gold!LastOf(ans.days) ELSE seen.last
    OBVIOUS
  <2>4. Gold!Remember(ans) = [seen EXCEPT !.last = last]
    BY <1>4, <2>3 DEF Gold!Remember
  <2>5. DOMAIN seen' = DOMAIN seen /\ seen'.last = last /\ seen'.whole = seen.whole
    BY <1>1, <2>4 DEF SeenFits
  <2>6. last \in Nat /\ last <= Gold!LastOf(filed.latest.days)
    BY <1>1, <2>1, <2>2, <2>3 DEF SeenFits
  <2> QED BY <1>1, <1>2, <2>1, <2>2, <2>5, <2>6 DEF SeenFits
<1> QED BY <1>3, <1>4

LEMMA FilesSame == ASSUME FilesFit, UNCHANGED <<filed, hour>> PROVE FilesFit'
  BY DEF FilesFit, Filed, CoversWhole

\* Only the mark of a failure changes.
LEMMA AttemptFits ==
    ASSUME FilesFit, hour \in FirstDay .. LastDay, GoldConstants, UNCHANGED hour, NEW at \in {hour, None}, filed' = [filed EXCEPT !.attempt = at]
    PROVE  FilesFit' /\ filed'.latest = filed.latest /\ filed'.whole = filed.whole
<1>1. DOMAIN filed' = DOMAIN filed /\ filed'.latest = filed.latest /\ filed'.whole = filed.whole /\ filed'.attempt = at
  BY DEF FilesFit
<1>2. at \in (FirstDay .. hour) \union {None}
  BY DEF GoldConstants
<1> QED BY <1>1, <1>2 DEF FilesFit, Filed, CoversWhole

LEMMA AttemptWrites ==
    ASSUME FilesFit, hour \in FirstDay .. LastDay, GoldConstants, UNCHANGED hour, filed' = Gold!WriteAttempt \/ UNCHANGED filed
    PROVE  FilesFit' /\ filed'.latest = filed.latest /\ filed'.whole = filed.whole
<1>1. PICK at \in {hour, None} : at = hour
  OBVIOUS
<1>2. UNCHANGED filed \/ filed' = [filed EXCEPT !.attempt = at]
  BY <1>1 DEF Gold!WriteAttempt
<1> QED BY <1>2, FilesSame, AttemptFits

\* The old data, shown as failed.
LEMMA ReferenceShown ==
    ASSUME NEW newest, NEW whole, CopyOf(newest, filed.latest), newest = None => whole = None
    PROVE  Shown(Gold!Reference(newest, whole)) /\ Gold!Reference(newest, whole).from = "files"
<1>1. PICK days : days = IF newest # None THEN newest.days ELSE IF whole # None THEN whole.days ELSE {}
  OBVIOUS
<1>2. Gold!Reference(newest, whole) = [days |-> days, state |-> "failed", from |-> "files"]
  BY <1>1 DEF Gold!Reference, Gold!Answer
<1>3. days = IF filed.latest = None THEN {} ELSE filed.latest.days
  BY <1>1 DEF CopyOf
<1> QED BY <1>2, <1>3 DEF Shown, ToldFits

-----------------------------------------------------------------------------
LEMMA WorkKeeps ==
    ASSUME GoldInv, NEW c \in Reports, NEW w, visit' = [visit EXCEPT ![c] = w], VisitFits(w)', UNCHANGED <<hour, told>>,
           UNCHANGED filed \/ Gold!Inside(c), w.pc \in Inner => \A o \in Reports \ {c} : ~Gold!Inside(o), FilesFit', SeenFits'
    PROVE  GoldInv'
<1>1. /\ DOMAIN visit' = Reports /\ \A q \in Reports : VisitFits(visit[q])'
      /\ \A q, o \in Reports : Gold!Inside(q)' /\ Gold!Inside(o)' => q = o
  BY OneVisits
<1> QED BY <1>1 DEF GoldInv, ToldFits

LEMMA VisitKeeps == ASSUME GoldConstants, GoldInv, NEW c \in Reports, Gold!Visit(c) PROVE GoldInv' /\ Gold!GSStep
<1>1. PICK r \in BOOLEAN : visit' = [visit EXCEPT ![c] = [Gold!Idle EXCEPT !.pc = "waits", !.at = hour, !.refresh = r]]
  BY DEF Gold!Visit
<1>2. PICK w : w = [Gold!Idle EXCEPT !.pc = "waits", !.at = hour, !.refresh = r]
  OBVIOUS
<1>3. DOMAIN w = DOMAIN Gold!Idle /\ w.pc = "waits" /\ w.at = hour
  BY <1>2 DEF Gold!Idle
<1>4. UNCHANGED <<hour, filed, told>> /\ seen' = [seen EXCEPT !.visits = @ + 1]
  BY DEF Gold!Visit
<1>5. hour \in Nat /\ hour' = hour
  BY <1>4 DEF GoldInv, GoldConstants
<1>6. VisitFits(w)'
  BY <1>3, <1>5 DEF VisitFits, Inner, Gold!Idle
<1>7. FilesFit' /\ SeenFits'
  BY <1>4, FilesSame, SeenMisses DEF GoldInv
<1>8. GoldInv'
  BY <1>1, <1>2, <1>3, <1>4, <1>6, <1>7, WorkKeeps DEF Inner
<1> QED BY <1>4, <1>8 DEF Gold!GSStep

LEMMA EnterKeeps == ASSUME GoldConstants, GoldInv, NEW c \in Reports, Gold!Enter(c) PROVE GoldInv' /\ Gold!GSStep
<1>1. PICK newest : newest = Gold!ReadCache(filed.latest, hour)
  OBVIOUS
<1>2. PICK stored : stored = Gold!ReadCache(filed.whole, hour)
  OBVIOUS
<1>3. PICK kept \in BOOLEAN : kept = (stored = None /\ newest # None /\ Gold!Classify(newest.days, None, newest.fetched) = "complete")
  OBVIOUS
<1>4. PICK whole : whole = IF kept THEN newest ELSE stored
  OBVIOUS
<1>5. UNCHANGED <<hour, filed>> /\ hour \in Nat /\ FilesFit /\ SeenFits
  BY DEF Gold!Enter, GoldInv, GoldConstants
<1>6. /\ CopyOf(newest, filed.latest) /\ (filed.latest # None => (newest.state = "complete" => filed.latest.state = "complete"))
      /\ CopyOf(stored, filed.whole)
  BY <1>1, <1>2, <1>5, ReadFits DEF FilesFit
<1>7. FilesFit'
  BY <1>5, FilesSame
<1>8. newest = None => whole = None
  BY <1>3, <1>4, <1>5, <1>6 DEF CopyOf, FilesFit
<1>9. CASE Gold!Tell(c, Gold!Reference(newest, whole)) /\ seen' = Gold!Remember(Gold!Reference(newest, whole))
  <2>1. PICK ans : ans = Gold!Reference(newest, whole)
    OBVIOUS
  <2>2. Shown(ans) /\ ans.from = "files"
    BY <1>6, <1>8, <2>1, ReferenceShown
  <2>3. SeenFits'
    BY <1>5, <1>9, <2>1, <2>2, Remembers
  <2> QED BY <1>5, <1>7, <1>9, <2>1, <2>2, <2>3, TellKeeps
<1>10. CASE newest # None /\ Gold!Tell(c, Gold!Answer(newest.days, newest.state, "files")) /\ seen' = Gold!Remember(Gold!Answer(newest.days, newest.state, "files"))
  <2>1. PICK ans : ans = Gold!Answer(newest.days, newest.state, "files")
    OBVIOUS
  <2>2. Shown(ans) /\ ans.from = "files"
    <3>1. DOMAIN ans = {"days", "state", "from"} /\ ans.days = newest.days /\ ans.state = newest.state /\ ans.from = "files"
      BY <2>1 DEF Gold!Answer
    <3>2. filed.latest # None /\ newest.days = filed.latest.days /\ newest.state \in {"complete", "partial"}
      BY <1>6, <1>10 DEF CopyOf, Filed, Series
    <3>3. ans.state = "complete" => CoversWhole(ans.days)
      BY <1>5, <1>6, <3>1, <3>2 DEF FilesFit
    <3> QED BY <3>1, <3>2, <3>3 DEF Shown, ToldFits
  <2>3. SeenFits'
    BY <1>5, <1>10, <2>1, <2>2, Remembers
  <2> QED BY <1>5, <1>7, <1>10, <2>1, <2>2, <2>3, TellKeeps
<1>11. CASE /\ visit' = [visit EXCEPT ![c] = [@ EXCEPT !.pc = "asking", !.at = hour, !.latest = newest, !.whole = whole, !.kept = kept]]
            /\ UNCHANGED <<told, seen>>
  <2>1. PICK w : w = [visit[c] EXCEPT !.pc = "asking", !.at = hour, !.latest = newest, !.whole = whole, !.kept = kept]
    OBVIOUS
  <2>2. VisitFits(visit[c])
    BY DEF GoldInv
  <2>3. /\ DOMAIN w = DOMAIN Gold!Idle /\ w.pc = "asking" /\ w.at = hour /\ w.latest = newest /\ w.whole = whole
        /\ w.kept = kept
    BY <2>1, <2>2 DEF VisitFits, Gold!Idle
  <2>4. kept <=> filed.whole = None /\ LatestIsWhole
    BY <1>3, <1>6 DEF CopyOf, LatestIsWhole, Judged
  <2>5. Asking(w)
    BY <1>4, <1>6, <2>3, <2>4 DEF Asking
  <2>6. VisitFits(w)
    BY <1>5, <2>3, <2>5 DEF VisitFits, Inner
  <2>7. VisitFits(w)'
    BY <1>5, <2>3, <2>5, <2>6 DEF VisitFits, Inner, Asking, CopyOf, Filed, LatestIsWhole
  <2>8. visit' = [visit EXCEPT ![c] = w] /\ \A o \in Reports : ~Gold!Inside(o)
    BY <1>11, <2>1 DEF Gold!Enter
  <2>9. SeenFits'
    BY <1>5, <1>11, SeenMisses
  <2>10. GoldInv'
    BY <1>5, <1>7, <1>11, <2>7, <2>8, <2>9, WorkKeeps
  <2> QED BY <1>5, <1>11, <2>10 DEF Gold!GSStep
<1> QED BY <1>1, <1>2, <1>3, <1>4, <1>9, <1>10, <1>11 DEF Gold!Enter

LEMMA GiveUpKeeps == ASSUME GoldConstants, GoldInv, NEW c \in Reports, Gold!GiveUp(c) PROVE GoldInv' /\ Gold!GSStep
<1>1. PICK newest : newest = Gold!ReadCache(filed.latest, hour)
  OBVIOUS
<1>2. PICK whole : whole = Gold!ReadCache(filed.whole, hour)
  OBVIOUS
<1>3. UNCHANGED <<hour, filed>> /\ hour \in Nat /\ FilesFit
  BY DEF Gold!GiveUp, GoldInv, GoldConstants
<1>4. CopyOf(newest, filed.latest) /\ CopyOf(whole, filed.whole)
  BY <1>1, <1>2, <1>3, ReadFits DEF FilesFit
<1>5. newest = None => whole = None
  BY <1>3, <1>4 DEF CopyOf, FilesFit
<1>6. PICK ans : ans = Gold!Reference(newest, whole)
  OBVIOUS
<1>7. Shown(ans) /\ ans.from = "files"
  BY <1>4, <1>5, <1>6, ReferenceShown
<1>8. Gold!Tell(c, ans) /\ seen' = Gold!Remember(ans)
  BY <1>1, <1>2, <1>6 DEF Gold!GiveUp
<1> QED BY <1>3, <1>7, <1>8, FilesSame, Remembers, TellKeeps

LEMMA FailKeeps == ASSUME GoldConstants, GoldInv, NEW c \in Reports, Gold!Fail(c) PROVE GoldInv' /\ Gold!GSStep
<1>1. PICK ans : ans = Gold!Reference(visit[c].latest, visit[c].whole)
  OBVIOUS
<1>2. Asking(visit[c]) /\ FilesFit /\ UNCHANGED hour /\ Gold!Inside(c) /\ hour \in FirstDay .. LastDay
  BY DEF Gold!Fail, GoldInv, VisitFits, Gold!Inside
<1>3. Shown(ans) /\ ans.from = "files"
  <2>1. visit[c].latest = None => visit[c].whole = None
    BY <1>2 DEF Asking, CopyOf, FilesFit
  <2> QED BY <1>1, <1>2, <2>1, ReferenceShown DEF Asking
<1>4. FilesFit' /\ filed'.latest = filed.latest /\ filed'.whole = filed.whole
  BY <1>2, AttemptWrites DEF Gold!Fail
<1>5. Gold!Tell(c, ans) /\ seen' = Gold!Remember(ans)
  BY <1>1 DEF Gold!Fail
<1> QED BY <1>2, <1>3, <1>4, <1>5, Remembers, TellKeeps

LEMMA DeliverKeeps == ASSUME GoldConstants, GoldInv, NEW c \in Reports, Gold!Deliver(c) PROVE GoldInv' /\ Gold!GSStep
<1>1. PICK v : v = visit[c]
  OBVIOUS
<1>2. VisitFits(v) /\ v.pc = "asking" /\ Asking(v) /\ FilesFit /\ SeenFits /\ UNCHANGED hour /\ hour \in Nat /\ Gold!Inside(c)
      /\ hour \in FirstDay .. LastDay /\ v.at \in Nat /\ v.at <= hour
  BY <1>1 DEF Gold!Deliver, GoldInv, VisitFits, Gold!Inside, GoldConstants
<1>3. PICK days \in Answers : LET reply == Gold!Fetched(days, v.at)
                                  state == Gold!Classify(reply, IF v.whole = None THEN None ELSE v.whole.days, hour)
                              IN /\ reply # {}
                                 /\ IF v.latest # None /\ Gold!LastOf(reply) < Gold!LastOf(v.latest.days)
                                    THEN /\ filed' = Gold!WriteAttempt
                                         /\ Gold!Tell(c, Gold!Reference(v.latest, v.whole)) /\ seen' = Gold!Remember(Gold!Reference(v.latest, v.whole))
                                    ELSE /\ visit' = [visit EXCEPT ![c] = [v EXCEPT !.pc = IF state = "partial" /\ v.kept THEN "whole0" ELSE "latest",
                                                         !.value = [days |-> reply, state |-> state, fetched |-> v.at]]]
                                         /\ UNCHANGED <<filed, told, seen>>
  BY <1>1 DEF Gold!Deliver
<1>4. PICK reply : reply = Gold!Fetched(days, v.at)
  OBVIOUS
<1>5. PICK old : old = IF v.whole = None THEN None ELSE v.whole.days
  OBVIOUS
<1>6. PICK state \in {"complete", "partial"} : state = Gold!Classify(reply, old, hour)
  BY Judges
<1>7. reply # {} /\ reply \subseteq Nat /\ \A d \in reply : d <= v.at
  <2>1. days \subseteq Nat
    BY DEF GoldConstants
  <2>2. \A d \in reply : d \in days /\ d <= v.at - Lag
    BY <1>4 DEF Gold!Fetched, Gold!Asked
  <2>3. ASSUME NEW d \in reply PROVE d \in Nat /\ d <= v.at
    <3>1. d \in Nat /\ d <= v.at - Lag
      BY <2>1, <2>2
    <3>2. v.at \in Nat /\ Lag \in Nat
      BY <1>2 DEF GoldConstants
    <3> QED BY <3>1, <3>2
  <2> QED BY <1>3, <1>4, <2>3
<1>8. Gold!LastOf(reply) \in Nat
  BY <1>2, <1>7, LastFits
<1>9. CASE filed' = Gold!WriteAttempt /\ Gold!Tell(c, Gold!Reference(v.latest, v.whole)) /\ seen' = Gold!Remember(Gold!Reference(v.latest, v.whole))
  <2>1. PICK ans : ans = Gold!Reference(v.latest, v.whole)
    OBVIOUS
  <2>2. Shown(ans) /\ ans.from = "files"
    <3>1. v.latest = None => v.whole = None
      BY <1>2 DEF Asking, CopyOf, FilesFit
    <3> QED BY <1>2, <2>1, <3>1, ReferenceShown DEF Asking
  <2>3. FilesFit' /\ filed'.latest = filed.latest /\ filed'.whole = filed.whole
    BY <1>2, <1>9, AttemptWrites
  <2> QED BY <1>2, <1>9, <2>1, <2>2, <2>3, Remembers, TellKeeps
<1>10. CASE /\ ~(v.latest # None /\ Gold!LastOf(reply) < Gold!LastOf(v.latest.days))
            /\ visit' = [visit EXCEPT ![c] = [v EXCEPT !.pc = IF state = "partial" /\ v.kept THEN "whole0" ELSE "latest",
                                 !.value = [days |-> reply, state |-> state, fetched |-> v.at]]]
            /\ UNCHANGED <<filed, told, seen>>
  <2>1. PICK value : value = [days |-> reply, state |-> state, fetched |-> v.at]
    OBVIOUS
  <2>2. PICK to \in {"whole0", "latest"} : to = IF state = "partial" /\ v.kept THEN "whole0" ELSE "latest"
    OBVIOUS
  <2>3. PICK w : w = [v EXCEPT !.pc = to, !.value = value]
    OBVIOUS
  <2>4. /\ DOMAIN w = DOMAIN Gold!Idle /\ w.pc = to /\ w.value = value /\ w.at = v.at /\ w.whole = v.whole /\ w.kept = v.kept
    BY <1>2, <2>3 DEF VisitFits, Gold!Idle
  <2>5. state = "complete" => Judged(reply, v.at) /\ (old # None => Gold!Asked(old, hour) \subseteq reply)
    BY <1>2, <1>6, <1>8, JudgedBefore
  <2>6. state = "complete" => CoversWhole(reply)
    <3>1. CASE v.kept
      BY <1>2, <3>1 DEF Asking, CoversWhole
    <3>2. CASE ~v.kept
      <4>1. filed.whole # None => v.whole # None /\ old = filed.whole.days
        BY <1>2, <1>5, <3>2 DEF Asking, CopyOf
      <4>2. filed.whole # None => old # None
        <5>1. filed.whole # None => filed.whole.days \in SUBSET Nat
          BY <1>2 DEF FilesFit, Filed, Series
        <5>2. None \notin SUBSET Nat
          BY DEF GoldConstants
        <5> QED BY <4>1, <5>1, <5>2
      <4> QED BY <2>5, <4>1, <4>2 DEF CoversWhole
    <3> QED BY <1>2, <3>1, <3>2 DEF Asking
  <2>7. Holding(w)
    BY <1>2, <1>7, <2>1, <2>4, <2>5, <2>6 DEF Holding, Series
  <2>8. Saving(w)
    <3>1. filed.latest # None => Gold!LastOf(w.value.days) >= Gold!LastOf(filed.latest.days)
      <4> SUFFICES ASSUME filed.latest # None PROVE Gold!LastOf(reply) >= Gold!LastOf(filed.latest.days)
        BY <2>1, <2>4
      <4>1. v.latest # None /\ v.latest.days = filed.latest.days
        BY <1>2 DEF Asking, CopyOf
      <4>2. Gold!LastOf(filed.latest.days) \in Nat
        BY <1>2, SeriesLast DEF FilesFit, Filed
      <4> QED BY <1>8, <1>10, <4>1, <4>2
    <3>2. to = "whole0" => /\ state = "partial" /\ filed.whole = None /\ filed.latest # None
                           /\ Filed(v.whole) /\ v.whole.days = filed.latest.days
      BY <1>2, <2>2 DEF Asking, CopyOf, LatestIsWhole
    <3>3. to = "latest" /\ state = "partial" => filed.whole # None \/ ~LatestIsWhole
      BY <1>2, <2>2 DEF Asking
    <3> QED BY <2>1, <2>4, <3>1, <3>2, <3>3 DEF Saving
  <2>9. VisitFits(w)
    BY <1>2, <2>2, <2>4, <2>7, <2>8 DEF VisitFits, Inner
  <2>10. VisitFits(w)'
    BY <1>2, <1>10, <2>9 DEF VisitFits, Inner, Asking, Holding, Saving, Saved, CopyOf, Filed, LatestIsWhole, CoversWhole
  <2>11. visit' = [visit EXCEPT ![c] = w] /\ \A o \in Reports \ {c} : ~Gold!Inside(o)
    BY <1>2, <1>10, <2>1, <2>2, <2>3 DEF GoldInv
  <2>12. GoldInv'
    BY <1>2, <1>10, <2>10, <2>11, FilesSame, SeenMisses, WorkKeeps
  <2> QED BY <1>10, <2>12 DEF Gold!GSStep
<1> QED BY <1>3, <1>4, <1>5, <1>6, <1>9, <1>10

\* What a run got is the answer, but not from the files.
LEMMA UnfiledKeeps ==
    ASSUME GoldConstants, GoldInv, NEW c \in Reports, visit[c].pc \in {"whole0", "latest"}, Gold!Unfiled(c), UNCHANGED hour,
           seen' = Gold!OneMore \/ seen' = seen
    PROVE  GoldInv' /\ Gold!GSStep
<1>1. PICK ans : ans = [Gold!Live(c) EXCEPT !.from = "source"]
  OBVIOUS
<1>2. ans.from = "source" /\ DOMAIN ans = {"days", "state", "from"} /\ ans.state = visit[c].value.state
  BY <1>1 DEF Gold!Live, Gold!Answer
<1>3. Shown(ans)
  BY <1>2 DEF GoldInv, VisitFits, Holding, Series, Shown, ToldFits
<1>4. FilesFit' /\ SeenFits' /\ UNCHANGED filed /\ Gold!Tell(c, ans)
  BY <1>1, FilesSame, SeenMisses DEF Gold!Unfiled, GoldInv
<1> QED BY <1>3, <1>4, TellKeeps

\* With the files behind it.
LEMMA LiveShown ==
    ASSUME GoldInv, NEW c \in Reports, visit[c].pc \in {"whole", "unlink"}, NEW ans, ans = Gold!Live(c)
    PROVE  Shown(ans) /\ ans.from = "files"
<1>1. ans.from = "files" /\ DOMAIN ans = {"days", "state", "from"} /\ ans.days = visit[c].value.days /\ ans.state = visit[c].value.state
  BY DEF Gold!Live, Gold!Answer
<1>2. Holding(visit[c]) /\ Saved(visit[c])
  BY DEF GoldInv, VisitFits
<1> QED BY <1>1, <1>2 DEF Shown, ToldFits, Holding, Series, Saved

LEMMA SaveOldWholeKeeps == ASSUME GoldConstants, GoldInv, NEW c \in Reports, Gold!SaveOldWhole(c) PROVE GoldInv' /\ Gold!GSStep
<1>1. CASE Gold!Unfiled(c) /\ seen' = Gold!OneMore
  BY <1>1, UnfiledKeeps DEF Gold!SaveOldWhole
<1>2. CASE /\ filed' = [filed EXCEPT !.whole = [visit[c].whole EXCEPT !.state = "complete", !.stored = visit[c].whole.fetched]]
           /\ visit' = [visit EXCEPT ![c].pc = "latest"]
           /\ UNCHANGED <<told, seen>>
  <2>1. PICK v : v = visit[c]
    OBVIOUS
  <2>2. /\ VisitFits(v) /\ v.pc = "whole0" /\ Holding(v) /\ Saving(v) /\ FilesFit /\ SeenFits /\ UNCHANGED hour
        /\ Gold!Inside(c) /\ v.value.state = "partial" /\ filed.whole = None /\ filed.latest # None
        /\ Filed(v.whole) /\ v.whole.days = filed.latest.days
    BY <2>1 DEF Gold!SaveOldWhole, GoldInv, VisitFits, Gold!Inside, Saving
  <2>3. PICK x : x = [v.whole EXCEPT !.state = "complete", !.stored = v.whole.fetched]
    OBVIOUS
  <2>4. PICK w : w = [v EXCEPT !.pc = "latest"]
    OBVIOUS
  <2>5. x \in FileRows /\ x.days = v.whole.days /\ x.state = "complete" /\ x.stored = v.whole.fetched /\ x.fetched = v.whole.fetched
    BY <2>2, <2>3 DEF Filed, FileRows, Series
  <2>6. Filed(x) /\ x # None
    <3>1. v.whole.fetched \in Nat /\ v.whole.fetched <= hour
      BY <2>2 DEF Filed, Series, FileRows, GoldInv, GoldConstants
    <3> QED BY <2>2, <2>5, <3>1 DEF Filed, Series, GoldConstants
  <2>7. DOMAIN filed' = DOMAIN filed /\ filed'.latest = filed.latest /\ filed'.whole = x /\ filed'.attempt = filed.attempt
    BY <1>2, <2>1, <2>2, <2>3 DEF FilesFit
  <2>8. CoversWhole(filed.latest.days)'
    BY <2>2, <2>5, <2>7 DEF CoversWhole, Gold!Asked
  <2>9. FilesFit'
    BY <2>2, <2>6, <2>7, <2>8 DEF FilesFit, Filed, CoversWhole
  <2>10. SeenFits'
    BY <1>2, <2>2, <2>6, <2>7 DEF SeenFits
  <2>11. DOMAIN w = DOMAIN Gold!Idle /\ w.pc = "latest" /\ w.value = v.value /\ w.at = v.at
    BY <2>2, <2>4 DEF VisitFits, Gold!Idle
  <2>12. Holding(w)'
    BY <2>2, <2>11 DEF Holding
  <2>13. Saving(w)'
    BY <2>2, <2>6, <2>7, <2>11 DEF Saving
  <2>14. VisitFits(w)'
    BY <2>2, <2>11, <2>12, <2>13 DEF VisitFits, Inner
  <2>15. visit' = [visit EXCEPT ![c] = w] /\ \A o \in Reports \ {c} : ~Gold!Inside(o)
    BY <1>2, <2>1, <2>2, <2>4 DEF GoldInv
  <2>16. GoldInv'
    BY <1>2, <2>2, <2>9, <2>10, <2>14, <2>15, WorkKeeps
  <2> QED BY <1>2, <2>2, <2>7, <2>16 DEF Gold!GSStep
<1> QED BY <1>1, <1>2 DEF Gold!SaveOldWhole

\* What is filed of the series of a run.
LEMMA SnapshotFits ==
    ASSUME GoldConstants, hour \in Nat, UNCHANGED hour, NEW v, Series(v), v.fetched <= hour, NEW x, x = Gold!Snapshot(v)
    PROVE  Filed(x)' /\ x.days = v.days /\ x.state = v.state /\ x.fetched = v.fetched /\ x # None
<1>1. PICK expires : expires = hour + (IF v.state = "partial" THEN Gold!Sooner(CacheFor, Retry) ELSE CacheFor)
  OBVIOUS
<1>2. expires \in Nat
  BY <1>1 DEF Gold!Sooner, GoldConstants
<1>3. x = [days |-> v.days, state |-> v.state, fetched |-> v.fetched, stored |-> hour, expires |-> expires]
  BY <1>1 DEF Gold!Snapshot
<1>4. x \in FileRows /\ x.days = v.days /\ x.state = v.state /\ x.fetched = v.fetched /\ x.stored = hour
  BY <1>2, <1>3 DEF Series, FileRows
<1> QED BY <1>4 DEF Filed, Series, GoldConstants

LEMMA SaveLatestKeeps == ASSUME GoldConstants, GoldInv, NEW c \in Reports, Gold!SaveLatest(c) PROVE GoldInv' /\ Gold!GSStep
<1>1. CASE Gold!Unfiled(c) /\ (seen' = Gold!OneMore \/ seen' = seen)
  BY <1>1, UnfiledKeeps DEF Gold!SaveLatest
<1>2. CASE /\ ~Gold!Late(filed.latest, visit[c].value)
           /\ filed' = [filed EXCEPT !.latest = Gold!Snapshot(visit[c].value)]
           /\ visit' = [visit EXCEPT ![c].pc = IF visit[c].value.state = "complete" THEN "whole" ELSE "unlink"]
           /\ seen' = [seen EXCEPT !.whole = @ \/ visit[c].value.state = "complete"]
           /\ UNCHANGED told
  <2>1. PICK u : u = visit[c]
    OBVIOUS
  <2>2. PICK v : v = u.value
    OBVIOUS
  <2>3. /\ VisitFits(u) /\ u.pc = "latest" /\ Holding(u) /\ Saving(u) /\ FilesFit /\ SeenFits /\ UNCHANGED hour
        /\ Gold!Inside(c) /\ hour \in Nat /\ u.at \in Nat /\ u.at <= hour
    BY <2>1 DEF Gold!SaveLatest, GoldInv, VisitFits, Gold!Inside, GoldConstants
  <2>4. Series(v) /\ v.fetched = u.at /\ (v.state = "complete" => Judged(v.days, v.fetched) /\ CoversWhole(v.days))
    BY <2>2, <2>3 DEF Holding
  <2>5. PICK x : x = Gold!Snapshot(v)
    OBVIOUS
  <2>6. Filed(x)' /\ x.days = v.days /\ x.state = v.state /\ x.fetched = v.fetched /\ x # None
    BY <2>3, <2>4, <2>5, SnapshotFits
  <2>7. DOMAIN filed' = DOMAIN filed /\ filed'.latest = x /\ filed'.whole = filed.whole /\ filed'.attempt = filed.attempt
    BY <1>2, <2>1, <2>2, <2>3, <2>5 DEF FilesFit
  <2>8. FilesFit'
    BY <2>3, <2>4, <2>6, <2>7 DEF FilesFit, Filed, CoversWhole
  <2>9. filed.latest # None => Gold!LastOf(v.days) >= Gold!LastOf(filed.latest.days) /\ Gold!LastOf(filed.latest.days) \in Nat
    BY <2>2, <2>3, SeriesLast DEF Saving, FilesFit, Filed
  <2>10. Gold!LastOf(v.days) \in Nat
    BY <2>4, SeriesLast
  <2>11. PICK whole : whole = (seen.whole \/ v.state = "complete")
    OBVIOUS
  <2>12. DOMAIN seen' = DOMAIN seen /\ seen'.last = seen.last /\ (seen'.whole <=> whole)
    BY <1>2, <2>1, <2>2, <2>3, <2>11 DEF SeenFits
  <2>13. LatestIsWhole' <=> Judged(v.days, v.fetched)
    BY <2>6, <2>7 DEF LatestIsWhole, Judged
  <2>14. whole => filed.whole # None \/ LatestIsWhole'
    <3>1. CASE v.state = "complete"
      BY <2>4, <2>13, <3>1
    <3>2. CASE v.state # "complete"
      BY <2>2, <2>3, <2>4, <2>11, <3>2 DEF Saving, SeenFits, Series
    <3> QED BY <3>1, <3>2
  <2>15. SeenFits'
    <3>1. seen'.last > 0 => filed'.latest # None /\ Gold!LastOf(filed'.latest.days) >= seen'.last
      BY <2>3, <2>6, <2>7, <2>9, <2>10, <2>12 DEF SeenFits
    <3> QED BY <2>3, <2>7, <2>12, <2>14, <3>1 DEF SeenFits
  <2>16. PICK to \in {"whole", "unlink"} : to = IF v.state = "complete" THEN "whole" ELSE "unlink"
    OBVIOUS
  <2>17. PICK w : w = [u EXCEPT !.pc = to]
    OBVIOUS
  <2>18. DOMAIN w = DOMAIN Gold!Idle /\ w.pc = to /\ w.value = v /\ w.at = u.at
    BY <2>2, <2>3, <2>17 DEF VisitFits, Gold!Idle
  <2>19. Holding(w)'
    BY <2>2, <2>3, <2>7, <2>18 DEF Holding, CoversWhole
  <2>20. Saved(w)'
    BY <2>6, <2>7, <2>16, <2>18 DEF Saved
  <2>21. VisitFits(w)'
    BY <2>3, <2>16, <2>18, <2>19, <2>20 DEF VisitFits, Inner
  <2>22. visit' = [visit EXCEPT ![c] = w] /\ \A o \in Reports \ {c} : ~Gold!Inside(o)
    BY <1>2, <2>1, <2>2, <2>3, <2>16, <2>17 DEF GoldInv
  <2>23. GoldInv'
    BY <1>2, <2>3, <2>8, <2>15, <2>21, <2>22, WorkKeeps
  <2>24. filed.latest # None => filed'.latest.fetched >= filed.latest.fetched
    <3>1. filed.latest # None => filed.latest.fetched \in Nat /\ ~(filed.latest.fetched > v.fetched)
      BY <1>2, <2>1, <2>2, <2>3 DEF Gold!Late, FilesFit, Filed, Series
    <3>2. v.fetched \in Nat /\ filed'.latest.fetched = v.fetched
      BY <2>4, <2>6, <2>7 DEF Series
    <3> QED BY <3>1, <3>2
  <2> QED BY <1>2, <2>6, <2>7, <2>9, <2>23, <2>24 DEF Gold!GSStep
<1> QED BY <1>1, <1>2 DEF Gold!SaveLatest

LEMMA SaveWholeKeeps == ASSUME GoldConstants, GoldInv, NEW c \in Reports, Gold!SaveWhole(c) PROVE GoldInv' /\ Gold!GSStep
<1>1. CASE Gold!Tell(c, Gold!Live(c)) /\ seen' = [Gold!Remember(Gold!Live(c)) EXCEPT !.mishaps = @ + 1] /\ UNCHANGED filed
  <2>1. PICK ans : ans = Gold!Live(c)
    OBVIOUS
  <2>2. Shown(ans) /\ ans.from = "files"
    BY <2>1, LiveShown DEF Gold!SaveWhole
  <2>3. UNCHANGED hour /\ FilesFit
    BY DEF Gold!SaveWhole, GoldInv
  <2> QED BY <1>1, <2>1, <2>2, <2>3, FilesSame, Remembers, TellKeeps
<1>2. CASE /\ filed' = [filed EXCEPT !.whole = Gold!Snapshot(visit[c].value)]
           /\ visit' = [visit EXCEPT ![c].pc = "unlink"]
           /\ UNCHANGED <<told, seen>>
  <2>1. PICK u : u = visit[c]
    OBVIOUS
  <2>2. PICK v : v = u.value
    OBVIOUS
  <2>3. /\ VisitFits(u) /\ u.pc = "whole" /\ Holding(u) /\ Saved(u) /\ FilesFit /\ SeenFits /\ UNCHANGED hour
        /\ Gold!Inside(c) /\ hour \in Nat /\ u.at \in Nat /\ u.at <= hour
    BY <2>1 DEF Gold!SaveWhole, GoldInv, VisitFits, Gold!Inside, GoldConstants
  <2>4. Series(v) /\ v.fetched = u.at /\ CoversWhole(v.days) /\ filed.latest # None /\ filed.latest.days = v.days
    BY <2>2, <2>3 DEF Holding, Saved
  <2>5. PICK x : x = Gold!Snapshot(v)
    OBVIOUS
  <2>6. Filed(x)' /\ x.days = v.days /\ x.state = v.state /\ x.fetched = v.fetched /\ x # None
    BY <2>3, <2>4, <2>5, SnapshotFits
  <2>7. DOMAIN filed' = DOMAIN filed /\ filed'.latest = filed.latest /\ filed'.whole = x /\ filed'.attempt = filed.attempt
    BY <1>2, <2>1, <2>2, <2>3, <2>5 DEF FilesFit
  <2>8. CoversWhole(v.days)'
    BY <2>6, <2>7 DEF CoversWhole, Gold!Asked
  <2>9. FilesFit'
    BY <2>3, <2>4, <2>6, <2>7, <2>8 DEF FilesFit, Filed, CoversWhole
  <2>10. SeenFits'
    BY <1>2, <2>3, <2>6, <2>7 DEF SeenFits
  <2>11. PICK w : w = [u EXCEPT !.pc = "unlink"]
    OBVIOUS
  <2>12. DOMAIN w = DOMAIN Gold!Idle /\ w.pc = "unlink" /\ w.value = v /\ w.at = u.at
    BY <2>2, <2>3, <2>11 DEF VisitFits, Gold!Idle
  <2>13. Holding(w)'
    BY <2>2, <2>3, <2>8, <2>12 DEF Holding
  <2>14. Saved(w)'
    BY <2>2, <2>3, <2>7, <2>12 DEF Saved
  <2>15. VisitFits(w)'
    BY <2>3, <2>12, <2>13, <2>14 DEF VisitFits, Inner
  <2>16. visit' = [visit EXCEPT ![c] = w] /\ \A o \in Reports \ {c} : ~Gold!Inside(o)
    BY <1>2, <2>1, <2>3, <2>11 DEF GoldInv
  <2>17. GoldInv'
    BY <1>2, <2>3, <2>9, <2>10, <2>15, <2>16, WorkKeeps
  <2>18. filed.whole # None => Gold!Asked(filed.whole.days, hour) \subseteq filed'.whole.days
    BY <2>4, <2>6, <2>7 DEF CoversWhole
  <2> QED BY <1>2, <2>7, <2>17, <2>18 DEF Gold!GSStep
<1> QED BY <1>1, <1>2 DEF Gold!SaveWhole

LEMMA UnlinkKeeps == ASSUME GoldConstants, GoldInv, NEW c \in Reports, Gold!Unlink(c) PROVE GoldInv' /\ Gold!GSStep
<1>1. PICK ans : ans = Gold!Live(c)
  OBVIOUS
<1>2. Shown(ans) /\ ans.from = "files"
  BY <1>1, LiveShown DEF Gold!Unlink
<1>3. UNCHANGED hour /\ FilesFit /\ hour \in FirstDay .. LastDay /\ Gold!Inside(c)
  BY DEF Gold!Unlink, GoldInv, Gold!Inside
<1>4. PICK at \in {hour, None} : at = None
  OBVIOUS
<1>5. filed' = [filed EXCEPT !.attempt = at]
  BY <1>4 DEF Gold!Unlink
<1>6. FilesFit' /\ filed'.latest = filed.latest /\ filed'.whole = filed.whole
  BY <1>3, <1>5, AttemptFits
<1>7. Gold!Tell(c, ans) /\ seen' = Gold!Remember(ans)
  BY <1>1 DEF Gold!Unlink
<1> QED BY <1>2, <1>3, <1>6, <1>7, Remembers, TellKeeps

LEMMA BareKeeps == ASSUME GoldConstants, GoldInv, NEW c \in Reports, Gold!Bare(c) PROVE GoldInv' /\ Gold!GSStep
<1>1. UNCHANGED <<hour, filed>> /\ seen' = Gold!OneMore /\ FilesFit /\ SeenFits
  BY DEF Gold!Bare, GoldInv
<1>2. PICK days : \E state \in {"failed", "complete", "partial"} : Gold!Tell(c, Gold!Answer(days, state, "source"))
  <2>1. CASE Gold!Tell(c, Gold!Answer({}, "failed", "source"))
    BY <2>1
  <2>2. ASSUME NEW days \in Answers, Gold!Tell(c, Gold!Answer(Gold!Fetched(days, hour), Gold!Classify(Gold!Fetched(days, hour), None, hour), "source"))
        PROVE  \E reply : \E state \in {"failed", "complete", "partial"} : Gold!Tell(c, Gold!Answer(reply, state, "source"))
    <3>1. PICK reply : reply = Gold!Fetched(days, hour)
      OBVIOUS
    <3>2. PICK state \in {"complete", "partial"} : state = Gold!Classify(reply, None, hour)
      BY Judges
    <3> QED BY <2>2, <3>1, <3>2
  <2> QED BY <2>1, <2>2 DEF Gold!Bare
<1>3. PICK state \in {"failed", "complete", "partial"} : Gold!Tell(c, Gold!Answer(days, state, "source"))
  BY <1>2
<1>4. PICK ans : ans = Gold!Answer(days, state, "source")
  OBVIOUS
<1>5. Shown(ans)
  BY <1>4 DEF Gold!Answer, Shown, ToldFits
<1>6. Gold!Tell(c, ans)
  BY <1>3, <1>4
<1> QED BY <1>1, <1>5, <1>6, FilesSame, SeenMisses, TellKeeps

LEMMA DieKeeps == ASSUME GoldConstants, GoldInv, NEW c \in Reports, Gold!Die(c) PROVE GoldInv' /\ Gold!GSStep
<1>1. UNCHANGED <<hour, filed, told>> /\ seen' = Gold!OneMore /\ FilesFit /\ SeenFits
  BY DEF Gold!Die, GoldInv
<1>2. PICK w : w = Gold!Idle
  OBVIOUS
<1>3. VisitFits(w)' /\ w.pc \notin Inner
  BY <1>1, <1>2 DEF VisitFits, Gold!Idle, Inner
<1>4. visit' = [visit EXCEPT ![c] = w]
  BY <1>2 DEF Gold!Die
<1>5. GoldInv'
  BY <1>1, <1>3, <1>4, FilesSame, SeenMisses, WorkKeeps
<1> QED BY <1>1, <1>5 DEF Gold!GSStep

\* With a later clock fewer days are asked for.
LEMMA TickKeeps == ASSUME GoldConstants, GoldInv, Gold!Tick PROVE GoldInv' /\ Gold!GSStep
<1>1. /\ UNCHANGED <<filed, visit, told, seen>> /\ hour \in Nat /\ hour' = hour + 1 /\ hour' \in FirstDay .. LastDay
      /\ FilesFit /\ SeenFits
  BY DEF Gold!Tick, GoldInv, GoldConstants
<1>2. ASSUME NEW s, Filed(s) PROVE Filed(s)'
  BY <1>1, <1>2 DEF Filed, FileRows, Series
<1>3. ASSUME NEW days, filed.whole # None, CoversWhole(days) PROVE CoversWhole(days)'
  <2>1. PICK ds : ds = filed.whole.days
    OBVIOUS
  <2>2. ds \subseteq Nat
    BY <1>1, <1>3, <2>1 DEF FilesFit, Filed, Series
  <2>3. Gold!Asked(ds, hour + 1) \subseteq Gold!Asked(ds, hour)
    <3>1. ASSUME NEW d \in Gold!Asked(ds, hour + 1) PROVE d \in Gold!Asked(ds, hour)
      <4>1. d \in ds /\ d >= (hour + 1) - Window
        BY <3>1 DEF Gold!Asked
      <4>2. d \in Nat /\ Window \in Nat
        BY <2>2, <4>1 DEF GoldConstants
      <4>3. d >= hour - Window
        BY <1>1, <4>1, <4>2
      <4> QED BY <4>1, <4>3 DEF Gold!Asked
    <3> QED BY <3>1
  <2> QED BY <1>1, <1>3, <2>1, <2>3 DEF CoversWhole
<1>4. \A days : CoversWhole(days) => CoversWhole(days)'
  BY <1>1, <1>3 DEF CoversWhole
<1>5. FilesFit'
  <2>1. filed'.attempt \in (FirstDay .. hour') \union {None}
    <3>1. filed.attempt \in (FirstDay .. hour) \union {None}
      BY <1>1 DEF FilesFit
    <3> QED BY <1>1, <3>1 DEF GoldConstants
  <2> QED BY <1>1, <1>2, <1>4, <2>1 DEF FilesFit
<1>6. SeenFits'
  BY <1>1 DEF SeenFits, LatestIsWhole
<1>7. ASSUME NEW v, VisitFits(v) PROVE VisitFits(v)'
  <2>1. v.pc # "idle" => v.at <= hour'
    BY <1>1, <1>7 DEF VisitFits
  <2>2. Asking(v) => Asking(v)'
    BY <1>1, <1>2 DEF Asking, CopyOf, LatestIsWhole
  <2>3. Holding(v) => Holding(v)'
    BY <1>4 DEF Holding
  <2>4. Saving(v) => Saving(v)'
    BY <1>1, <1>2 DEF Saving, LatestIsWhole
  <2>5. Saved(v) => Saved(v)'
    BY <1>1 DEF Saved
  <2> QED BY <1>7, <2>1, <2>2, <2>3, <2>4, <2>5 DEF VisitFits
<1>8. \A c \in Reports : VisitFits(visit[c])'
  BY <1>1, <1>7 DEF GoldInv
<1>9. GoldInv'
  BY <1>1, <1>5, <1>6, <1>8 DEF GoldInv, Gold!Inside, ToldFits
<1> QED BY <1>1, <1>9 DEF Gold!GSStep

LEMMA GoldStep == ASSUME GoldConstants, GoldInv, [Gold!GSNext]_Gold!gsvars PROVE GoldInv' /\ [Gold!GSStep]_Gold!gsvars
<1>1. CASE UNCHANGED Gold!gsvars
  <2>1. UNCHANGED hour /\ UNCHANGED filed /\ UNCHANGED visit /\ UNCHANGED told /\ UNCHANGED seen
    BY <1>1 DEF Gold!gsvars
  <2>2. FilesFit' /\ SeenFits'
    BY <2>1, FilesSame DEF GoldInv, SeenFits, LatestIsWhole
  <2>3. ASSUME NEW v, VisitFits(v) PROVE VisitFits(v)'
    BY <2>1, <2>3 DEF VisitFits, Asking, Holding, Saving, Saved, CopyOf, Filed, LatestIsWhole, CoversWhole
  <2>4. \A c \in Reports : VisitFits(visit[c])'
    BY <2>1, <2>3 DEF GoldInv
  <2>5. GoldInv'
    BY <2>1, <2>2, <2>4 DEF GoldInv, Gold!Inside, ToldFits
  <2> QED BY <1>1, <2>5
<1>2. CASE Gold!Tick
  BY <1>2, TickKeeps
<1>3. ASSUME NEW c \in Reports,
             \/ Gold!Visit(c) \/ Gold!Enter(c) \/ Gold!GiveUp(c) \/ Gold!Fail(c) \/ Gold!Deliver(c) \/ Gold!SaveOldWhole(c)
             \/ Gold!SaveLatest(c) \/ Gold!SaveWhole(c) \/ Gold!Unlink(c) \/ Gold!Bare(c) \/ Gold!Die(c)
      PROVE  GoldInv' /\ Gold!GSStep
  BY <1>3, VisitKeeps, EnterKeeps, GiveUpKeeps, FailKeeps, DeliverKeeps, SaveOldWholeKeeps, SaveLatestKeeps, SaveWholeKeeps,
     UnlinkKeeps, BareKeeps, DieKeeps
<1> QED BY <1>1, <1>2, <1>3 DEF Gold!GSNext

LEMMA GoldSays == ASSUME GoldConstants, GoldInv PROVE Gold!GSTypeOK /\ Gold!GSSafe
<1>1. \A f \in {filed.latest, filed.whole} : f # None =>
         /\ f.days # {} /\ f.state \in {"complete", "partial"}
         /\ f.fetched <= f.stored /\ f.stored <= hour /\ f.expires \in Nat
  BY DEF GoldInv, FilesFit, Filed, Series, FileRows
<1>2. Gold!GSTypeOK
  BY <1>1 DEF Gold!GSTypeOK, GoldInv, FilesFit, ToldFits
<1> QED BY <1>2 DEF GoldInv, SeenFits, LatestIsWhole, Judged, Gold!GSSafe

\* Of one source of the gold reports, with files shared by runs that die between any two
\* writes: once a complete series was filed one is known for ever, and one run at most
\* has the lock (GoldCollector).
THEOREM GoldIsKept == GoldConstants /\ Gold!GSInit /\ [][Gold!GSNext]_Gold!gsvars => [](Gold!GSTypeOK /\ Gold!GSSafe)
<1> SUFFICES ASSUME GoldConstants PROVE Gold!GSInit /\ [][Gold!GSNext]_Gold!gsvars => [](Gold!GSTypeOK /\ Gold!GSSafe)
  OBVIOUS
<1>1. Gold!GSInit => GoldInv
  BY GoldInit
<1>2. GoldInv /\ [Gold!GSNext]_Gold!gsvars => GoldInv'
  BY GoldStep
<1>3. GoldInv => Gold!GSTypeOK /\ Gold!GSSafe
  BY GoldSays
<1> QED BY <1>1, <1>2, <1>3, PTL

\* The files only go forward: the latest series by its last day, the complete one by the
\* days still asked for, and no answer from the files ends before an earlier one.
THEOREM GoldGoesOn == GoldConstants /\ Gold!GSInit /\ [][Gold!GSNext]_Gold!gsvars => [][Gold!GSStep]_Gold!gsvars
<1> SUFFICES ASSUME GoldConstants PROVE Gold!GSInit /\ [][Gold!GSNext]_Gold!gsvars => [][Gold!GSStep]_Gold!gsvars
  OBVIOUS
<1>1. Gold!GSInit => GoldInv
  BY GoldInit
<1>2. GoldInv /\ [Gold!GSNext]_Gold!gsvars => GoldInv' /\ [Gold!GSStep]_Gold!gsvars
  BY GoldStep
<1> QED BY <1>1, <1>2, PTL

-----------------------------------------------------------------------------
(* PeerComparison.  The jobs of a round are disjoint, and what has come is of *)
(* jobs that no longer fly (Flight), so that no stock has two quotes though   *)
(* the sites change between two batches; an end that is compared is of the    *)
(* stock itself (YearIsEarlier, SampleFits).                                  *)

CONSTANTS Symbols, Order, Targets, Markets, Today, Batch, InFlight, MaxShifts
VARIABLES market, classes, quotes, figures, study, shifts

Beside == INSTANCE PeerComparison

\* How the instance counts.
LEMMA BesideCounts == \A S : Beside!Cardinality(S) = Cardinality(S)
  BY Zenon DEF Beside!Cardinality, Cardinality

Pools == SUBSET Symbols
QuoteRows == [symbol : Symbols, day : Int, value : Int]
FigureRows == [symbol : Symbols, end : Nat, kind : STRING, value : Int, ok : BOOLEAN]

PeerConstants ==
    /\ IsFiniteSet(Symbols) /\ Targets \subseteq Symbols
    /\ Batch \in Nat \ {0} /\ InFlight \in Nat /\ Enough \in Nat \ {0} /\ Today \in Nat /\ MaxShifts \in Nat
    /\ None \notin Int /\ None \notin Pools /\ None \notin SUBSET QuoteRows /\ None \notin SUBSET FigureRows
    /\ \A m \in Markets : /\ \A s \in Symbols : /\ m.quotes[s].day \in Int /\ m.quotes[s].value \in Int
                                                /\ m.industry[s] # None => m.members[m.industry[s]] \in Pools
                          /\ m.rows \in Seq(FigureRows) /\ m.known \in Nat

\* Rows of one key each: a quote for a stock, an indicator row for a stock and a period.
QuotePer(Q) == Q \subseteq QuoteRows /\ IsFiniteSet(Q) /\ \A r, q \in Q : r.symbol = q.symbol => r = q
RowPer(F) == /\ F \subseteq FigureRows /\ IsFiniteSet(F) /\ \A r, q \in F : Beside!SameKey(r, q) => r = q
             /\ \A r \in F : r.ok => r.end <= Today

\* What a round has is of jobs that no longer fly.
Flight(t) ==
    /\ t.next \in Int /\ t.flying \subseteq Int /\ \A j \in t.flying : j < t.next
    /\ IsFiniteSet(t.flying) /\ Beside!Cardinality(t.flying) <= InFlight
    /\ \A r \in t.got : \E j \in Int : j < t.next /\ j \notin t.flying /\ r.symbol \in Beside!Job(t.pool, j)

\* What is shown was computed from the rows of its analysis.
ShownFits(t) ==
    /\ QuotePer(t.rows) /\ RowPer(t.figures)
    /\ t.shown.valuation = Beside!Valuation(t.stock, t.pool \ {t.stock}, t.rows)
    /\ t.shown.annual = Beside!Period("annual", t.stock, t.pool \ {t.stock}, t.figures, t.known)
    /\ t.shown.latest = Beside!Period("latest", t.stock, t.pool \ {t.stock}, t.figures, t.known)
    /\ t.shown.sufficiency = "sufficient" => t.shown.valuation.metric.status = "ok"

Pooled(t) == t.stock \in Targets /\ t.stock \in t.pool /\ t.pool \in Pools
StudyFits(t) ==
    /\ DOMAIN t = DOMAIN Beside!NewStudy /\ t.pc \in {"new", "classify", "quotes", "financial", "done"}
    /\ t.pc = "classify" => t.stock \in Targets /\ (t.old = None \/ (t.old \in Pools /\ t.stock \in t.old))
    /\ t.pc = "quotes" => Pooled(t) /\ Flight(t) /\ QuotePer(t.got) /\ (t.old = None \/ QuotePer(t.old))
    /\ t.pc = "financial" => /\ Pooled(t) /\ Flight(t) /\ RowPer(t.got) /\ (t.old = None \/ RowPer(t.old))
                             /\ QuotePer(t.rows)
    /\ t.pc \in {"new", "classify", "done"} => t.flying = {}
    /\ t.pc # "done" => t.shown = None
    /\ t.shown # None => Pooled(t) /\ ShownFits(t)

ClassesFit(c) == \A s \in DOMAIN c : s \in Symbols /\ DOMAIN c[s] = {"payload", "fresh"} /\ c[s].payload \in Pools /\ s \in c[s].payload
QuotesFit(c) ==
    \A k \in DOMAIN c : /\ k \in Pools /\ DOMAIN c[k] = {"payload", "fresh"} /\ QuotePer(c[k].payload)
                         /\ {r.symbol : r \in c[k].payload} = k
FiguresFit(c) ==
    \A k \in DOMAIN c : /\ k \in Pools /\ DOMAIN c[k] = {"payload", "fresh"} /\ RowPer(c[k].payload)
                         /\ {r.symbol : r \in c[k].payload} = k /\ \A r \in c[k].payload : r.ok
CachesFit == ClassesFit(classes) /\ QuotesFit(quotes) /\ FiguresFit(figures)

PeerInv ==
    /\ market \in Markets /\ shifts \in 0 .. MaxShifts /\ CachesFit
    /\ DOMAIN study = Analyses /\ \A p \in Analyses : StudyFits(study[p])

-----------------------------------------------------------------------------
LEMMA ImageFits ==
    ASSUME NEW S, IsFiniteSet(S), NEW f
    PROVE  IsFiniteSet({f[x] : x \in S}) /\ Beside!Cardinality({f[x] : x \in S}) <= Beside!Cardinality(S)
<1>1. PICK T : T = {f[x] : x \in S}
  OBVIOUS
<1>2. [x \in S |-> f[x]] \in Surjection(S, T)
  BY <1>1 DEF Surjection
<1> QED BY <1>1, <1>2, FS_Surjection, BesideCounts

LEMMA NoRows == QuotePer({}) /\ RowPer({})
  BY FS_EmptySet, BesideCounts DEF QuotePer, RowPer

LEMMA QuotesOfFit ==
    ASSUME PeerConstants, market \in Markets, NEW asked \in Pools
    PROVE  QuotePer(Beside!QuotesOf(asked)) /\ \A r \in Beside!QuotesOf(asked) : r.symbol \in asked
<1>1. PICK have : have = {s \in asked : market.quotes[s].day \in 1 .. Today}
  OBVIOUS
<1>2. Beside!QuotesOf(asked) = {[symbol |-> s, day |-> market.quotes[s].day, value |-> market.quotes[s].value] : s \in have}
  BY <1>1 DEF Beside!QuotesOf
<1>3. have \subseteq Symbols /\ have \subseteq asked
  BY <1>1 DEF Pools
<1>4. IsFiniteSet(have)
  BY <1>3, FS_Subset, BesideCounts DEF PeerConstants
<1>5. IsFiniteSet(Beside!QuotesOf(asked))
  <2>1. PICK f : f = [s \in have |-> [symbol |-> s, day |-> market.quotes[s].day, value |-> market.quotes[s].value]]
    OBVIOUS
  <2>2. Beside!QuotesOf(asked) = {f[s] : s \in have}
    BY <1>2, <2>1
  <2> QED BY <1>4, <2>2, ImageFits
<1>6. Beside!QuotesOf(asked) \subseteq QuoteRows
  BY <1>2, <1>3 DEF PeerConstants, QuoteRows
<1> QED BY <1>2, <1>3, <1>5, <1>6 DEF QuotePer

LEMMA NormalFits == ASSUME NEW rows \in Seq(FigureRows) PROVE RowPer(Beside!Normal(rows))
<1>1. PICK first : first = {i \in DOMAIN rows : \A k \in 1 .. i - 1 : ~Beside!SameKey(rows[i], rows[k])}
  OBVIOUS
<1>2. PICK ok : ok = [i \in DOMAIN rows |-> Beside!Confirmed(rows[i]) /\ \A k \in DOMAIN rows : Beside!SameKey(rows[i], rows[k]) => rows[k].value = rows[i].value]
  OBVIOUS
<1>3. Beside!Normal(rows) = {[rows[i] EXCEPT !.ok = ok[i]] : i \in first}
  BY <1>1, <1>2 DEF Beside!Normal
<1>4. /\ DOMAIN rows = 1 .. Len(rows) /\ Len(rows) \in Nat /\ \A i \in DOMAIN rows : rows[i] \in FigureRows
  OBVIOUS
<1>5. \A i \in DOMAIN rows : ok[i] \in BOOLEAN
  BY <1>2
<1>6. \A i \in first : LET r == [rows[i] EXCEPT !.ok = ok[i]]
                       IN /\ r \in FigureRows /\ r.symbol = rows[i].symbol /\ r.end = rows[i].end /\ r.kind = rows[i].kind
                          /\ r.ok = ok[i]
  BY <1>1, <1>4, <1>5 DEF FigureRows
<1>7. IsFiniteSet(first)
  <2>1. IsFiniteSet(1 .. Len(rows))
    BY <1>4, FS_Interval, BesideCounts
  <2> QED BY <1>1, <1>4, <2>1, FS_Subset, BesideCounts
<1>8. IsFiniteSet(Beside!Normal(rows))
  <2>1. PICK f : f = [i \in first |-> [rows[i] EXCEPT !.ok = ok[i]]]
    OBVIOUS
  <2>2. Beside!Normal(rows) = {f[i] : i \in first}
    BY <1>3, <2>1
  <2> QED BY <1>7, <2>2, ImageFits
<1>9. ASSUME NEW i \in first, NEW k \in first, Beside!SameKey(rows[i], rows[k]) PROVE i = k
  <2>1. Beside!SameKey(rows[k], rows[i])
    BY <1>9 DEF Beside!SameKey
  <2>2. ~(k \in 1 .. i - 1) /\ ~(i \in 1 .. k - 1)
    BY <1>1, <1>9, <2>1
  <2> QED BY <1>1, <1>4, <2>2
<1>10. ASSUME NEW r \in Beside!Normal(rows), NEW q \in Beside!Normal(rows), Beside!SameKey(r, q) PROVE r = q
  <2>1. PICK i \in first : r = [rows[i] EXCEPT !.ok = ok[i]]
    BY <1>3
  <2>2. PICK k \in first : q = [rows[k] EXCEPT !.ok = ok[k]]
    BY <1>3
  <2>3. Beside!SameKey(rows[i], rows[k])
    BY <1>6, <1>10, <2>1, <2>2 DEF Beside!SameKey
  <2> QED BY <1>9, <2>1, <2>2, <2>3
<1>11. Beside!Normal(rows) \subseteq FigureRows
  BY <1>3, <1>6
<1>12. \A r \in Beside!Normal(rows) : r.ok => r.end <= Today
  <2>1. \A i \in first : ok[i] => rows[i].end <= Today
    BY <1>1, <1>2 DEF Beside!Confirmed
  <2>2. TAKE r \in Beside!Normal(rows)
  <2>3. PICK i \in first : r = [rows[i] EXCEPT !.ok = ok[i]]
    BY <1>3
  <2>4. r.ok = ok[i] /\ r.end = rows[i].end
    BY <1>6, <2>3
  <2> QED BY <2>1, <2>4
<1> QED BY <1>8, <1>10, <1>11, <1>12 DEF RowPer

LEMMA FiguresOfFit ==
    ASSUME PeerConstants, market \in Markets, NEW asked
    PROVE  RowPer(Beside!FiguresOf(asked)) /\ \A r \in Beside!FiguresOf(asked) : r.symbol \in asked
<1>1. RowPer(Beside!Normal(market.rows))
  BY NormalFits DEF PeerConstants
<1>2. Beside!FiguresOf(asked) \subseteq Beside!Normal(market.rows) /\ \A r \in Beside!FiguresOf(asked) : r.symbol \in asked
  BY DEF Beside!FiguresOf
<1>3. IsFiniteSet(Beside!FiguresOf(asked))
  BY <1>1, <1>2, FS_Subset, BesideCounts DEF RowPer
<1> QED BY <1>1, <1>2, <1>3 DEF RowPer

LEMMA JobsAreWhole == ASSUME PeerConstants, NEW pool \in Pools PROVE Beside!NumJobs(pool) \in Int
<1>1. PICK n \in Int : n = Beside!Cardinality(pool) + Batch - 1
  <2>1. Beside!Cardinality(pool) \in Nat
    BY FS_Subset, FS_CardinalityType, BesideCounts DEF PeerConstants, Pools
  <2> QED BY <2>1 DEF PeerConstants
<1>2. n \div Batch \in Int
  BY DEF PeerConstants
<1> QED BY <1>1, <1>2 DEF Beside!NumJobs

LEMMA RoundFits ==
    ASSUME PeerConstants, NEW t, DOMAIN t = DOMAIN Beside!NewStudy, Pooled(t), t.shown = None, NEW old,
           NEW phase \in {"quotes", "financial"},
           phase = "quotes" => old = None \/ QuotePer(old),
           phase = "financial" => QuotePer(t.rows) /\ (old = None \/ RowPer(old)),
           NEW u, u = Beside!Round(t, phase, old)
    PROVE  StudyFits(u) /\ u.got = {}
<1>1. PICK first : first = IF t.late THEN 0 ELSE IF Beside!NumJobs(t.pool) < InFlight THEN Beside!NumJobs(t.pool) ELSE InFlight
  OBVIOUS
<1>2. first \in Int /\ first <= InFlight
  BY <1>1, JobsAreWhole DEF PeerConstants, Pooled
<1>3. u = [t EXCEPT !.pc = phase, !.next = first + 1, !.flying = 1 .. first, !.failed = FALSE, !.got = {}, !.old = old]
  BY <1>1 DEF Beside!Round
<1>4. /\ DOMAIN u = DOMAIN Beside!NewStudy /\ u.pc = phase /\ u.next = first + 1 /\ u.flying = 1 .. first /\ u.got = {} /\ u.old = old
      /\ u.pool = t.pool /\ u.stock = t.stock /\ u.rows = t.rows /\ u.shown = None
  BY <1>3 DEF Beside!NewStudy
<1>5. Flight(u)
  <2>1. IsFiniteSet(1 .. first) /\ Beside!Cardinality(1 .. first) = IF 1 > first THEN 0 ELSE first - 1 + 1
    BY <1>2, FS_Interval, BesideCounts
  <2>2. Beside!Cardinality(1 .. first) <= InFlight
    BY <1>2, <2>1 DEF PeerConstants
  <2>3. \A j \in 1 .. first : j \in Int /\ j < first + 1
    BY <1>2
  <2> QED BY <1>2, <1>4, <2>1, <2>2, <2>3 DEF Flight
<1> QED BY <1>4, <1>5, NoRows DEF StudyFits, Pooled

LEMMA FinishFits ==
    ASSUME PeerConstants, NEW t, DOMAIN t = DOMAIN Beside!NewStudy, Pooled(t), QuotePer(t.rows), NEW rows, RowPer(rows), NEW errors,
           NEW w, w = Beside!Finish(t, rows, errors)
    PROVE  StudyFits(w) /\ w.got = {}
<1>1. PICK u : u = [t EXCEPT !.figures = rows, !.errors = @ \/ errors]
  OBVIOUS
<1>2. /\ u.stock = t.stock /\ u.pool = t.pool /\ u.rows = t.rows /\ u.figures = rows /\ u.known = t.known
  BY <1>1 DEF Beside!NewStudy
<1>3. PICK e : e = Beside!Enrich(u)
  OBVIOUS
<1>4. /\ e.valuation = Beside!Valuation(t.stock, t.pool \ {t.stock}, t.rows)
      /\ e.annual = Beside!Period("annual", t.stock, t.pool \ {t.stock}, rows, t.known)
      /\ e.latest = Beside!Period("latest", t.stock, t.pool \ {t.stock}, rows, t.known)
      /\ e.sufficiency = "sufficient" => e.valuation.metric.status = "ok"
  BY <1>2, <1>3 DEF Beside!Enrich
<1>5. w = [Beside!NewStudy EXCEPT !.pc = "done", !.stock = t.stock, !.pool = t.pool, !.rows = t.rows, !.figures = rows, !.known = t.known,
                           !.shown = e]
  BY <1>1, <1>3 DEF Beside!Finish
<1>6. /\ DOMAIN w = DOMAIN Beside!NewStudy /\ w.pc = "done" /\ w.stock = t.stock /\ w.pool = t.pool /\ w.rows = t.rows /\ w.figures = rows
      /\ w.known = t.known /\ w.shown = e /\ w.flying = {} /\ w.got = {}
  BY <1>5 DEF Beside!NewStudy
<1>7. ShownFits(w)
  BY <1>4, <1>6 DEF ShownFits
<1> QED BY <1>6, <1>7 DEF StudyFits, Pooled

LEMMA FinancialFits ==
    ASSUME PeerConstants, FiguresFit(figures), NEW t, DOMAIN t = DOMAIN Beside!NewStudy, Pooled(t), t.shown = None, QuotePer(t.rows),
           NEW u, u = Beside!Financial(t)
    PROVE  StudyFits(u) /\ u.got = {}
<1>1. CASE Beside!Fresh(figures, t.pool) /\ ~t.refresh
  <2>1. RowPer(Beside!Old(figures, t.pool))
    BY <1>1 DEF Beside!Fresh, Beside!Old, FiguresFit
  <2>2. u = Beside!Finish(t, Beside!Old(figures, t.pool), FALSE)
    BY <1>1 DEF Beside!Financial
  <2> QED BY <2>1, <2>2, FinishFits
<1>2. CASE ~(Beside!Fresh(figures, t.pool) /\ ~t.refresh)
  <2>1. PICK old : old = Beside!Old(figures, t.pool)
    OBVIOUS
  <2>2. old = None \/ RowPer(old)
    BY <2>1 DEF Beside!Old, FiguresFit
  <2>3. u = Beside!Round(t, "financial", old)
    BY <1>2, <2>1 DEF Beside!Financial
  <2> QED BY <2>2, <2>3, RoundFits
<1> QED BY <1>1, <1>2

LEMMA QuotesFits ==
    ASSUME PeerConstants, CachesFit, NEW t, DOMAIN t = DOMAIN Beside!NewStudy, Pooled(t), t.shown = None, NEW anew, NEW u, u = Beside!Quotes(t, anew)
    PROVE  StudyFits(u) /\ u.got = {}
<1>1. CASE Beside!Fresh(quotes, t.pool) /\ ~anew
  <2>1. PICK x : x = [t EXCEPT !.rows = Beside!Old(quotes, t.pool)]
    OBVIOUS
  <2>2. DOMAIN x = DOMAIN Beside!NewStudy /\ x.stock = t.stock /\ x.pool = t.pool /\ x.shown = None /\ x.rows = Beside!Old(quotes, t.pool)
    BY <2>1 DEF Beside!NewStudy
  <2>3. QuotePer(x.rows) /\ Pooled(x)
    BY <1>1, <2>2 DEF Beside!Fresh, Beside!Old, QuotesFit, CachesFit, Pooled
  <2>4. u = Beside!Financial(x)
    BY <1>1, <2>1 DEF Beside!Quotes
  <2> QED BY <2>2, <2>3, <2>4, FinancialFits DEF CachesFit
<1>2. CASE ~(Beside!Fresh(quotes, t.pool) /\ ~anew)
  <2>1. PICK old : old = Beside!Old(quotes, t.pool)
    OBVIOUS
  <2>2. old = None \/ QuotePer(old)
    BY <2>1 DEF Beside!Old, QuotesFit, CachesFit
  <2>3. u = Beside!Round(t, "quotes", old)
    BY <1>2, <2>1 DEF Beside!Quotes
  <2> QED BY <2>2, <2>3, RoundFits
<1> QED BY <1>1, <1>2

LEMMA NewFits ==
    ASSUME NEW t, NEW s, t = Beside!NewStudy \/ t = [Beside!NewStudy EXCEPT !.pc = "done", !.stock = s]
    PROVE  StudyFits(t) /\ t.got = {}
<1>1. DOMAIN t = DOMAIN Beside!NewStudy /\ t.pc \in {"new", "done"} /\ t.flying = {} /\ t.shown = None /\ t.got = {}
  <2>1. CASE t = Beside!NewStudy
    BY <2>1 DEF Beside!NewStudy
  <2>2. CASE t = [Beside!NewStudy EXCEPT !.pc = "done", !.stock = s]
    BY <2>2 DEF Beside!NewStudy
  <2> QED BY <2>1, <2>2
<1> QED BY <1>1 DEF StudyFits

\* What is late gets no more rows.
NoneLate == \A q \in Analyses : study[q].late => study'[q].got \subseteq study[q].got
LEMMA Moves ==
    ASSUME PeerInv, NEW p \in Analyses, NEW t, Beside!Go(p, t), StudyFits(t), CachesFit', UNCHANGED <<market, shifts>>,
           study[p].late => t.got \subseteq study[p].got
    PROVE  PeerInv' /\ NoneLate
<1>1. PeerInv'
  BY DEF PeerInv, Beside!Go
<1>2. ASSUME NEW q \in Analyses, study[q].late PROVE study'[q].got \subseteq study[q].got
  <2>1. study'[q] = IF q = p THEN t ELSE study[q]
    BY DEF PeerInv, Beside!Go
  <2> QED BY <1>2, <2>1
<1> QED BY <1>1, <1>2 DEF NoneLate

LEMMA SameCaches == ASSUME CachesFit, UNCHANGED Beside!caches PROVE CachesFit'
  BY DEF Beside!caches, CachesFit

LEMMA PeerBeginKeeps == ASSUME PeerConstants, PeerInv, NEW p \in Analyses, Beside!Begin(p) PROVE PeerInv' /\ NoneLate
<1>1. PICK s \in Targets, anew \in BOOLEAN, only \in BOOLEAN :
          LET old == Beside!Old(classes, s)
              t == [Beside!NewStudy EXCEPT !.stock = s, !.refresh = anew, !.late = only, !.old = old, !.known = market.known]
          IN IF only /\ old = None THEN Beside!Go(p, [Beside!NewStudy EXCEPT !.pc = "done", !.stock = s])
             ELSE IF only \/ (Beside!Fresh(classes, s) /\ ~anew) THEN Beside!Go(p, Beside!Quotes([t EXCEPT !.pool = old], anew /\ ~only))
             ELSE Beside!Go(p, [t EXCEPT !.pc = "classify"])
  BY DEF Beside!Begin
<1>2. UNCHANGED Beside!caches /\ UNCHANGED <<market, shifts>>
  BY DEF Beside!Begin, Beside!Stays
<1>3. PICK old : old = Beside!Old(classes, s)
  OBVIOUS
<1>4. PICK t : t = [Beside!NewStudy EXCEPT !.stock = s, !.refresh = anew, !.late = only, !.old = old, !.known = market.known]
  OBVIOUS
<1>5. DOMAIN t = DOMAIN Beside!NewStudy /\ t.stock = s /\ t.old = old /\ t.shown = None /\ t.flying = {} /\ t.got = {}
  BY <1>4 DEF Beside!NewStudy
<1>6. s \in DOMAIN classes => old \in Pools /\ s \in old
  BY <1>3 DEF PeerInv, CachesFit, ClassesFit, Beside!Old
<1>7. s \notin DOMAIN classes => old = None /\ ~Beside!Fresh(classes, s)
  BY <1>3 DEF Beside!Old, Beside!Fresh
<1>8. CachesFit'
  BY <1>2, SameCaches DEF PeerInv
<1>9. CASE only /\ old = None
  <2>1. PICK x : x = [Beside!NewStudy EXCEPT !.pc = "done", !.stock = s]
    OBVIOUS
  <2>2. Beside!Go(p, x)
    BY <1>1, <1>3, <1>9, <2>1
  <2> QED BY <1>2, <1>8, <2>1, <2>2, NewFits, Moves
<1>10. CASE ~(only /\ old = None) /\ (only \/ (Beside!Fresh(classes, s) /\ ~anew))
  <2>1. PICK x : x = [t EXCEPT !.pool = old]
    OBVIOUS
  <2>2. DOMAIN x = DOMAIN Beside!NewStudy /\ x.stock = s /\ x.pool = old /\ x.shown = None
    BY <1>5, <2>1 DEF Beside!NewStudy
  <2>3. Pooled(x)
    BY <1>6, <1>7, <1>10, <2>2 DEF Pooled
  <2>4. PICK u : u = Beside!Quotes(x, anew /\ ~only)
    OBVIOUS
  <2>5. StudyFits(u) /\ u.got = {}
    BY <2>2, <2>3, <2>4, QuotesFits DEF PeerInv
  <2>6. Beside!Go(p, u)
    BY <1>1, <1>3, <1>4, <1>10, <2>1, <2>4
  <2> QED BY <1>2, <1>8, <2>5, <2>6, Moves
<1>11. CASE ~(only /\ old = None) /\ ~(only \/ (Beside!Fresh(classes, s) /\ ~anew))
  <2>1. PICK x : x = [t EXCEPT !.pc = "classify"]
    OBVIOUS
  <2>2. DOMAIN x = DOMAIN Beside!NewStudy /\ x.stock = s /\ x.old = old /\ x.pc = "classify" /\ x.shown = None /\ x.flying = {} /\ x.got = {}
    BY <1>5, <2>1 DEF Beside!NewStudy
  <2>3. StudyFits(x)
    BY <1>6, <1>7, <2>2 DEF StudyFits
  <2>4. Beside!Go(p, x)
    BY <1>1, <1>3, <1>4, <1>11, <2>1
  <2> QED BY <1>2, <1>8, <2>2, <2>3, <2>4, Moves
<1> QED BY <1>9, <1>10, <1>11

LEMMA ClassifyKeeps == ASSUME PeerConstants, PeerInv, NEW p \in Analyses, Beside!Classify(p) PROVE PeerInv' /\ NoneLate
<1>1. PICK t : t = study[p]
  OBVIOUS
<1>2. t.pc = "classify" /\ UNCHANGED quotes /\ UNCHANGED figures /\ UNCHANGED <<market, shifts>>
  BY <1>1 DEF Beside!Classify, Beside!Stays, Beside!At
<1>3. DOMAIN t = DOMAIN Beside!NewStudy /\ t.stock \in Targets /\ t.stock \in Symbols /\ (t.old = None \/ (t.old \in Pools /\ t.stock \in t.old)) /\ t.shown = None
  <2>1. StudyFits(t)
    BY <1>1 DEF PeerInv
  <2> QED BY <1>2, <2>1 DEF StudyFits, PeerConstants
<1>4. PICK i : i = Beside!Profile(t.stock)
  OBVIOUS
<1>5. CASE ~(t.late \/ i = None \/ t.stock \notin Beside!Members(i)) /\ classes' = Beside!Put(classes, t.stock, Beside!Members(i)) /\ Beside!Go(p, Beside!Quotes([t EXCEPT !.pool = Beside!Members(i)], t.refresh))
  <2>1. Beside!Members(i) \in Pools /\ t.stock \in Beside!Members(i)
    BY <1>3, <1>4, <1>5 DEF PeerInv, PeerConstants, Beside!Profile, Beside!Members
  <2>2. PICK x : x = [t EXCEPT !.pool = Beside!Members(i)]
    OBVIOUS
  <2>3. DOMAIN x = DOMAIN Beside!NewStudy /\ x.stock = t.stock /\ x.pool = Beside!Members(i) /\ x.shown = None
    BY <1>3, <2>2 DEF Beside!NewStudy
  <2>4. PICK u : u = Beside!Quotes(x, t.refresh)
    OBVIOUS
  <2>5. StudyFits(u) /\ u.got = {}
    BY <1>3, <2>1, <2>3, <2>4, QuotesFits DEF PeerInv, Pooled
  <2>6. Beside!Go(p, u)
    BY <1>5, <2>2, <2>4
  <2>7. ClassesFit(classes')
    <3>1. PICK d : d = Beside!Put(classes, t.stock, Beside!Members(i))
      OBVIOUS
    <3>2. /\ DOMAIN d = DOMAIN classes \union {t.stock} /\ d[t.stock] = [payload |-> Beside!Members(i), fresh |-> TRUE]
          /\ \A j \in DOMAIN classes : j # t.stock => d[j] = classes[j]
      BY <3>1 DEF Beside!Put, Beside!Entry
    <3>3. ClassesFit(d)
      BY <1>3, <2>1, <3>2 DEF PeerInv, CachesFit, ClassesFit
    <3> QED BY <1>5, <3>1, <3>3
  <2>8. CachesFit'
    BY <1>2, <2>7 DEF PeerInv, CachesFit
  <2> QED BY <1>2, <2>5, <2>6, <2>8, Moves
<1>6. CASE UNCHANGED classes /\ Beside!Go(p, IF t.old = None THEN [Beside!NewStudy EXCEPT !.pc = "done", !.stock = t.stock] ELSE Beside!Quotes([t EXCEPT !.pool = t.old], t.refresh))
  <2>1. CachesFit'
    BY <1>2, <1>6 DEF PeerInv, CachesFit
  <2>2. CASE t.old = None
    <3>1. PICK x : x = [Beside!NewStudy EXCEPT !.pc = "done", !.stock = t.stock]
      OBVIOUS
    <3>2. Beside!Go(p, x)
      BY <1>6, <2>2, <3>1
    <3> QED BY <1>2, <2>1, <3>1, <3>2, NewFits, Moves
  <2>3. CASE t.old # None
    <3>1. PICK x : x = [t EXCEPT !.pool = t.old]
      OBVIOUS
    <3>2. DOMAIN x = DOMAIN Beside!NewStudy /\ x.stock = t.stock /\ x.pool = t.old /\ x.shown = None
      BY <1>3, <3>1 DEF Beside!NewStudy
    <3>3. PICK u : u = Beside!Quotes(x, t.refresh)
      OBVIOUS
    <3>4. StudyFits(u) /\ u.got = {}
      BY <1>3, <2>3, <3>2, <3>3, QuotesFits DEF PeerInv, Pooled
    <3>5. Beside!Go(p, u)
      BY <1>6, <2>3, <3>1, <3>3
    <3> QED BY <1>2, <2>1, <3>4, <3>5, Moves
  <2> QED BY <2>2, <2>3
<1> QED BY <1>1, <1>4, <1>5, <1>6 DEF Beside!Classify

\* What an answer adds to a round: rows of stocks of another job.
LEMMA Disjoint == ASSUME NEW pool, NEW i \in Int, NEW j \in Int, i # j PROVE Beside!Job(pool, i) \intersect Beside!Job(pool, j) = {}
<1> SUFFICES ASSUME NEW s \in Beside!Job(pool, i), s \in Beside!Job(pool, j) PROVE FALSE
  OBVIOUS
<1>1. Beside!Before(pool, s) \div Batch = i - 1 /\ Beside!Before(pool, s) \div Batch = j - 1
  BY DEF Beside!Job
<1>2. i - 1 = j - 1
  BY <1>1
<1> QED BY <1>2

LEMMA AnswerFits ==
    ASSUME PeerConstants, PeerInv, NEW t, StudyFits(t), t.pc \in {"quotes", "financial"}, NEW j \in t.flying, NEW asked, asked = Beside!Job(t.pool, j),
           NEW new, new = {} \/ new = IF t.pc = "quotes" THEN Beside!QuotesOf(asked) ELSE Beside!FiguresOf(asked),
           NEW u, DOMAIN u = DOMAIN t, u.pc = t.pc, u.stock = t.stock, u.pool = t.pool, u.old = t.old, u.rows = t.rows,
           u.shown = t.shown, u.flying = (t.flying \ {j}) \union (IF t.next <= Beside!NumJobs(t.pool) THEN {t.next} ELSE {}),
           u.next = (IF t.next <= Beside!NumJobs(t.pool) THEN t.next + 1 ELSE t.next), u.got = t.got \union new
    PROVE  StudyFits(u)
<1>1. DOMAIN t = DOMAIN Beside!NewStudy /\ Pooled(t) /\ Flight(t) /\ t.shown = None
  BY DEF StudyFits
<1>2. /\ DOMAIN u = DOMAIN Beside!NewStudy /\ u.pc = t.pc /\ u.stock = t.stock /\ u.pool = t.pool /\ u.old = t.old /\ u.rows = t.rows
      /\ u.shown = None
      /\ u.flying = (t.flying \ {j}) \union (IF t.next <= Beside!NumJobs(t.pool) THEN {t.next} ELSE {})
      /\ u.next = (IF t.next <= Beside!NumJobs(t.pool) THEN t.next + 1 ELSE t.next) /\ u.got = t.got \union new
  BY <1>1
<1>3. asked \in Pools /\ asked \subseteq t.pool /\ j \in Int /\ t.next \in Int /\ j < t.next
  BY <1>1 DEF Beside!Job, Pooled, Pools, Flight
<1>4. \A r \in new : r.symbol \in asked
  BY <1>3, QuotesOfFit, FiguresOfFit DEF PeerInv
<1>5. ASSUME NEW r \in t.got, NEW q \in new PROVE r.symbol # q.symbol
  <2>1. PICK i \in Int : i \notin t.flying /\ r.symbol \in Beside!Job(t.pool, i)
    BY <1>1 DEF Flight
  <2>2. i # j
    BY <2>1
  <2> QED BY <1>3, <1>4, <2>1, <2>2, Disjoint
<1>6. Flight(u)
  <2>1. IsFiniteSet(t.flying \ {j}) /\ Beside!Cardinality(t.flying \ {j}) = Beside!Cardinality(t.flying) - 1 /\ Beside!Cardinality(t.flying) \in Nat
    BY <1>1, FS_RemoveElement, FS_CardinalityType, BesideCounts DEF Flight
  <2>2. IsFiniteSet(u.flying) /\ Beside!Cardinality(u.flying) <= InFlight
    <3>1. CASE t.next <= Beside!NumJobs(t.pool)
      <4>1. u.flying = (t.flying \ {j}) \union {t.next}
        BY <1>2, <3>1
      <4>2. IsFiniteSet(u.flying) /\ Beside!Cardinality(u.flying) \in {Beside!Cardinality(t.flying) - 1, Beside!Cardinality(t.flying) - 1 + 1}
        <5>1. PICK rest : rest = t.flying \ {j}
          OBVIOUS
        <5>2. IsFiniteSet(rest) /\ Beside!Cardinality(rest) = Beside!Cardinality(t.flying) - 1
          BY <2>1, <5>1, Zenon
        <5>3. IsFiniteSet(rest \union {t.next}) /\ Beside!Cardinality(rest \union {t.next}) \in {Beside!Cardinality(rest), Beside!Cardinality(rest) + 1}
          BY <5>2, FS_AddElement, BesideCounts
        <5>4. u.flying = rest \union {t.next}
          BY <4>1, <5>1
        <5> QED BY <5>2, <5>3, <5>4, Zenon
      <4>3. Beside!Cardinality(t.flying) <= InFlight /\ InFlight \in Int
        BY <1>1 DEF Flight, PeerConstants
      <4> QED BY <2>1, <4>2, <4>3
    <3>2. CASE ~(t.next <= Beside!NumJobs(t.pool))
      <4>1. u.flying = t.flying \ {j}
        BY <1>2, <3>2
      <4>2. Beside!Cardinality(t.flying) <= InFlight /\ InFlight \in Int
        BY <1>1 DEF Flight, PeerConstants
      <4>3. IsFiniteSet(u.flying) /\ Beside!Cardinality(u.flying) = Beside!Cardinality(t.flying) - 1
        BY <2>1, <4>1, Zenon
      <4> QED BY <2>1, <4>2, <4>3
    <3> QED BY <3>1, <3>2
  <2>3. u.next \in Int /\ t.next <= u.next /\ u.flying \subseteq Int /\ \A i \in u.flying : i < u.next
    <3>1. CASE t.next <= Beside!NumJobs(t.pool)
      BY <1>1, <1>2, <1>3, <3>1 DEF Flight
    <3>2. CASE ~(t.next <= Beside!NumJobs(t.pool))
      BY <1>1, <1>2, <1>3, <3>2 DEF Flight
    <3> QED BY <3>1, <3>2
  <2>4. \A i \in Int : i < t.next /\ (i = j \/ i \notin t.flying) => i < u.next /\ i \notin u.flying
    BY <1>2, <1>3, <2>3
  <2>5. ASSUME NEW r \in u.got PROVE \E i \in Int : i < u.next /\ i \notin u.flying /\ r.symbol \in Beside!Job(u.pool, i)
    <3>1. CASE r \in t.got
      BY <1>1, <1>2, <2>4, <3>1 DEF Flight
    <3>2. CASE r \in new
      BY <1>2, <1>3, <1>4, <2>4, <3>2
    <3> QED BY <1>2, <3>1, <3>2
  <2> QED BY <2>2, <2>3, <2>5 DEF Flight
<1>7. CASE t.pc = "quotes"
  <2>1. QuotePer(t.got) /\ (t.old = None \/ QuotePer(t.old))
    BY <1>7 DEF StudyFits
  <2>2. QuotePer(new)
    BY <1>3, <1>7, QuotesOfFit, NoRows DEF PeerInv
  <2>3. QuotePer(t.got \union new)
    <3>1. IsFiniteSet(t.got \union new)
      BY <2>1, <2>2, FS_Union, BesideCounts DEF QuotePer
    <3>2. \A r, q \in t.got \union new : r.symbol = q.symbol => r = q
      BY <1>5, <2>1, <2>2 DEF QuotePer
    <3> QED BY <2>1, <2>2, <3>1, <3>2 DEF QuotePer
  <2> QED BY <1>1, <1>2, <1>6, <1>7, <2>1, <2>3 DEF StudyFits, Pooled
<1>8. CASE t.pc = "financial"
  <2>1. RowPer(t.got) /\ (t.old = None \/ RowPer(t.old)) /\ QuotePer(t.rows)
    BY <1>8 DEF StudyFits
  <2>2. RowPer(new)
    BY <1>3, <1>8, FiguresOfFit, NoRows DEF PeerInv
  <2>3. RowPer(t.got \union new)
    <3>1. IsFiniteSet(t.got \union new)
      BY <2>1, <2>2, FS_Union, BesideCounts DEF RowPer
    <3>2. ASSUME NEW r \in t.got \union new, NEW q \in t.got \union new, Beside!SameKey(r, q) PROVE r = q
      <4>1. r.symbol = q.symbol
        BY <3>2 DEF Beside!SameKey
      <4> QED BY <1>5, <2>1, <2>2, <3>2, <4>1 DEF RowPer
    <3> QED BY <2>1, <2>2, <3>1, <3>2 DEF RowPer
  <2> QED BY <1>1, <1>2, <1>6, <1>8, <2>1, <2>3 DEF StudyFits, Pooled
<1> QED BY <1>7, <1>8

LEMMA AnswerKeeps == ASSUME PeerConstants, PeerInv, NEW p \in Analyses, Beside!Answer(p) PROVE PeerInv' /\ NoneLate
<1>1. PICK t : t = study[p]
  OBVIOUS
<1>2. t.pc \in {"quotes", "financial"} /\ StudyFits(t)
  BY <1>1 DEF Beside!Answer, PeerInv
<1>3. PICK j \in t.flying, ok \in BOOLEAN :
          LET more == t.next <= Beside!NumJobs(t.pool)
              asked == Beside!Job(t.pool, j)
          IN Beside!Go(p, [t EXCEPT !.flying = (@ \ {j}) \union (IF more THEN {t.next} ELSE {}),
                             !.next = IF more THEN @ + 1 ELSE @, !.failed = @ \/ ~ok,
                             !.got = IF ~ok THEN @ ELSE @ \union (IF Beside!At(p, "quotes") THEN Beside!QuotesOf(asked) ELSE Beside!FiguresOf(asked))])
  BY <1>1 DEF Beside!Answer
<1>4. PICK more : more = (t.next <= Beside!NumJobs(t.pool))
  OBVIOUS
<1>5. PICK asked : asked = Beside!Job(t.pool, j)
  OBVIOUS
<1>6. PICK new : new = IF ~ok THEN {} ELSE IF t.pc = "quotes" THEN Beside!QuotesOf(asked) ELSE Beside!FiguresOf(asked)
  OBVIOUS
<1>7. PICK u : u = [t EXCEPT !.flying = (@ \ {j}) \union (IF more THEN {t.next} ELSE {}),
                             !.next = IF more THEN @ + 1 ELSE @, !.failed = @ \/ ~ok, !.got = @ \union new]
  OBVIOUS
<1>8. StudyFits(u)
  <2>1. DOMAIN t = DOMAIN Beside!NewStudy
    BY <1>2 DEF StudyFits
  <2>2. /\ DOMAIN u = DOMAIN t /\ u.pc = t.pc /\ u.stock = t.stock /\ u.pool = t.pool /\ u.old = t.old /\ u.rows = t.rows
        /\ u.shown = t.shown /\ u.flying = (t.flying \ {j}) \union (IF t.next <= Beside!NumJobs(t.pool) THEN {t.next} ELSE {})
        /\ u.next = (IF t.next <= Beside!NumJobs(t.pool) THEN t.next + 1 ELSE t.next) /\ u.got = t.got \union new
    BY <1>4, <1>7, <2>1 DEF Beside!NewStudy
  <2>3. new = {} \/ new = IF t.pc = "quotes" THEN Beside!QuotesOf(asked) ELSE Beside!FiguresOf(asked)
    BY <1>6
  <2> QED BY <1>2, <1>5, <2>2, <2>3, AnswerFits
<1>9. (IF ~ok THEN t.got ELSE t.got \union (IF Beside!At(p, "quotes") THEN Beside!QuotesOf(asked) ELSE Beside!FiguresOf(asked))) = t.got \union new
  BY <1>1, <1>6 DEF Beside!At
<1>10. Beside!Go(p, [t EXCEPT !.flying = (@ \ {j}) \union (IF more THEN {t.next} ELSE {}),
                       !.next = IF more THEN @ + 1 ELSE @, !.failed = @ \/ ~ok,
                       !.got = IF ~ok THEN @ ELSE @ \union (IF Beside!At(p, "quotes") THEN Beside!QuotesOf(asked) ELSE Beside!FiguresOf(asked))])
  BY <1>3, <1>4, <1>5
<1>11. Beside!Go(p, u)
  BY <1>7, <1>9, <1>10
<1>12. UNCHANGED Beside!caches /\ UNCHANGED <<market, shifts>>
  BY DEF Beside!Answer, Beside!Stays
<1>13. ~study[p].late
  BY DEF Beside!Answer
<1> QED BY <1>8, <1>11, <1>12, <1>13, SameCaches, Moves DEF PeerInv

LEMMA KeepQuotesKeeps == ASSUME PeerConstants, PeerInv, NEW p \in Analyses, Beside!KeepQuotes(p) PROVE PeerInv' /\ NoneLate
<1>1. PICK t : t = study[p]
  OBVIOUS
<1>2. t.pc = "quotes" /\ StudyFits(t)
  BY <1>1 DEF Beside!KeepQuotes, PeerInv, Beside!At
<1>3. DOMAIN t = DOMAIN Beside!NewStudy /\ Pooled(t) /\ QuotePer(t.got) /\ (t.old = None \/ QuotePer(t.old)) /\ t.shown = None
  BY <1>2 DEF StudyFits
<1>4. PICK errors : errors = (t.failed \/ t.flying # {} \/ ~Beside!Covered(t))
  OBVIOUS
<1>5. PICK u : u = [t EXCEPT !.errors = @ \/ errors, !.rows = IF errors /\ t.old # None THEN t.old ELSE t.got]
  OBVIOUS
<1>6. /\ DOMAIN u = DOMAIN Beside!NewStudy /\ u.stock = t.stock /\ u.pool = t.pool /\ u.shown = None
      /\ u.rows = IF errors /\ t.old # None THEN t.old ELSE t.got
  BY <1>3, <1>5 DEF Beside!NewStudy
<1>7. Pooled(u) /\ QuotePer(u.rows)
  BY <1>3, <1>6 DEF Pooled
<1>8. PICK w : w = Beside!Financial(u)
  OBVIOUS
<1>9. StudyFits(w) /\ w.got = {}
  BY <1>6, <1>7, <1>8, FinancialFits DEF PeerInv, CachesFit
<1>10. Beside!Go(p, w) /\ quotes' = (IF ~errors /\ ~t.late THEN Beside!Put(quotes, t.pool, t.got) ELSE quotes)
  BY <1>1, <1>4, <1>5, <1>8 DEF Beside!KeepQuotes
<1>11. UNCHANGED <<classes, figures>> /\ UNCHANGED <<market, shifts>>
  BY DEF Beside!KeepQuotes, Beside!Stays
<1>12. QuotesFit(quotes')
  <2>1. CASE ~errors /\ ~t.late
    <3>1. PICK d : d = Beside!Put(quotes, t.pool, t.got)
      OBVIOUS
    <3>2. /\ DOMAIN d = DOMAIN quotes \union {t.pool} /\ d[t.pool] = [payload |-> t.got, fresh |-> TRUE]
          /\ \A j \in DOMAIN quotes : j # t.pool => d[j] = quotes[j]
      BY <3>1 DEF Beside!Put, Beside!Entry
    <3>3. {r.symbol : r \in t.got} = t.pool
      BY <1>4, <2>1 DEF Beside!Covered
    <3>4. QuotesFit(d)
      BY <1>3, <3>2, <3>3 DEF PeerInv, CachesFit, QuotesFit, Pooled
    <3> QED BY <1>10, <2>1, <3>1, <3>4
  <2>2. CASE ~(~errors /\ ~t.late)
    BY <1>10, <2>2 DEF PeerInv, CachesFit
  <2> QED BY <2>1, <2>2
<1>13. CachesFit'
  BY <1>11, <1>12 DEF PeerInv, CachesFit
<1> QED BY <1>9, <1>10, <1>11, <1>13, Moves

LEMMA KeepFiguresKeeps == ASSUME PeerConstants, PeerInv, NEW p \in Analyses, Beside!KeepFigures(p) PROVE PeerInv' /\ NoneLate
<1>1. PICK t : t = study[p]
  OBVIOUS
<1>2. t.pc = "financial" /\ StudyFits(t)
  BY <1>1 DEF Beside!KeepFigures, PeerInv, Beside!At
<1>3. DOMAIN t = DOMAIN Beside!NewStudy /\ Pooled(t) /\ RowPer(t.got) /\ (t.old = None \/ RowPer(t.old)) /\ QuotePer(t.rows)
  BY <1>2 DEF StudyFits
<1>4. PICK errors : errors = (t.failed \/ t.flying # {} \/ ~Beside!Covered(t) \/ \E r \in t.got : ~r.ok)
  OBVIOUS
<1>5. PICK rows : rows = IF errors /\ t.old # None THEN t.old ELSE t.got
  OBVIOUS
<1>6. RowPer(rows)
  BY <1>3, <1>5
<1>7. PICK w : w = Beside!Finish(t, rows, errors)
  OBVIOUS
<1>8. StudyFits(w) /\ w.got = {}
  BY <1>3, <1>6, <1>7, FinishFits
<1>9. Beside!Go(p, w) /\ figures' = (IF ~errors /\ ~t.late THEN Beside!Put(figures, t.pool, t.got) ELSE figures)
  BY <1>1, <1>4, <1>5, <1>7 DEF Beside!KeepFigures
<1>10. UNCHANGED <<classes, quotes>> /\ UNCHANGED <<market, shifts>>
  BY DEF Beside!KeepFigures, Beside!Stays
<1>11. FiguresFit(figures')
  <2>1. CASE ~errors /\ ~t.late
    <3>1. PICK d : d = Beside!Put(figures, t.pool, t.got)
      OBVIOUS
    <3>2. /\ DOMAIN d = DOMAIN figures \union {t.pool} /\ d[t.pool] = [payload |-> t.got, fresh |-> TRUE]
          /\ \A j \in DOMAIN figures : j # t.pool => d[j] = figures[j]
      BY <3>1 DEF Beside!Put, Beside!Entry
    <3>3. {r.symbol : r \in t.got} = t.pool /\ \A r \in t.got : r.ok
      BY <1>4, <2>1 DEF Beside!Covered
    <3>4. FiguresFit(d)
      BY <1>3, <3>2, <3>3 DEF PeerInv, CachesFit, FiguresFit, Pooled
    <3> QED BY <1>9, <2>1, <3>1, <3>4
  <2>2. CASE ~(~errors /\ ~t.late)
    BY <1>9, <2>2 DEF PeerInv, CachesFit
  <2> QED BY <2>1, <2>2
<1>12. CachesFit'
  BY <1>10, <1>11 DEF PeerInv, CachesFit
<1> QED BY <1>8, <1>9, <1>10, <1>12, Moves

LEMMA LapseKeeps == ASSUME PeerConstants, PeerInv, NEW p \in Analyses, Beside!Lapse(p) \/ Beside!Again(p) PROVE PeerInv' /\ NoneLate
<1>1. PICK t : t = study[p] /\ StudyFits(t)
  BY DEF PeerInv
<1>2. PICK u : u = [t EXCEPT !.late = TRUE]
  OBVIOUS
<1>3. PICK n : n = Beside!NewStudy
  OBVIOUS
<1>4. Beside!Go(p, u) \/ Beside!Go(p, n)
  BY <1>1, <1>2, <1>3 DEF Beside!Lapse, Beside!Again
<1>5. UNCHANGED Beside!caches /\ UNCHANGED <<market, shifts>>
  BY DEF Beside!Lapse, Beside!Again, Beside!Stays
<1>6. /\ DOMAIN u = DOMAIN Beside!NewStudy /\ u.pc = t.pc /\ u.stock = t.stock /\ u.old = t.old /\ u.pool = t.pool /\ u.next = t.next
      /\ u.flying = t.flying /\ u.got = t.got /\ u.rows = t.rows /\ u.figures = t.figures /\ u.known = t.known /\ u.shown = t.shown
  BY <1>1, <1>2 DEF StudyFits, Beside!NewStudy
<1>7. StudyFits(u)
  BY <1>1, <1>6 DEF StudyFits, Flight, Pooled, ShownFits
<1>8. StudyFits(n) /\ n.got = {}
  BY <1>3, NewFits
<1>9. CachesFit'
  BY <1>5, SameCaches DEF PeerInv
<1> QED BY <1>1, <1>4, <1>5, <1>6, <1>7, <1>8, <1>9, Moves

LEMMA WorldKeeps == ASSUME PeerConstants, PeerInv, Beside!TimePasses \/ Beside!Shift PROVE PeerInv' /\ NoneLate
<1>1. CASE Beside!TimePasses
  <2>1. \A c : DOMAIN Beside!Aged(c) = DOMAIN c /\ \A k \in DOMAIN c : DOMAIN c[k] = {"payload", "fresh"} =>
                   DOMAIN Beside!Aged(c)[k] = {"payload", "fresh"} /\ Beside!Aged(c)[k].payload = c[k].payload
    BY DEF Beside!Aged
  <2>2. ClassesFit(Beside!Aged(classes)) /\ QuotesFit(Beside!Aged(quotes)) /\ FiguresFit(Beside!Aged(figures))
    <3>1. ClassesFit(Beside!Aged(classes))
      BY <2>1 DEF PeerInv, CachesFit, ClassesFit
    <3>2. QuotesFit(Beside!Aged(quotes))
      BY <2>1 DEF PeerInv, CachesFit, QuotesFit
    <3>3. FiguresFit(Beside!Aged(figures))
      BY <2>1 DEF PeerInv, CachesFit, FiguresFit
    <3> QED BY <3>1, <3>2, <3>3
  <2>3. CachesFit'
    BY <1>1, <2>2 DEF Beside!TimePasses, CachesFit
  <2> QED BY <1>1, <2>3 DEF Beside!TimePasses, Beside!Stays, PeerInv, NoneLate
<1>2. CASE Beside!Shift
  <2>1. market' \in Markets /\ shifts' \in 0 .. MaxShifts
    BY <1>2 DEF Beside!Shift, PeerInv, PeerConstants
  <2>2. CachesFit'
    BY <1>2, SameCaches DEF Beside!Shift, PeerInv, Beside!caches
  <2> QED BY <1>2, <2>1, <2>2 DEF Beside!Shift, PeerInv, NoneLate
<1> QED BY <1>1, <1>2

LEMMA PeerInit == PeerConstants /\ Beside!Init => PeerInv
<1> SUFFICES ASSUME PeerConstants, Beside!Init PROVE PeerInv
  OBVIOUS
<1>1. CachesFit
  BY DEF Beside!Init, CachesFit, ClassesFit, QuotesFit, FiguresFit
<1>2. PICK n : n = Beside!NewStudy
  OBVIOUS
<1>3. StudyFits(n)
  BY <1>2, NewFits
<1>4. study = [p \in Analyses |-> n] /\ market \in Markets /\ shifts = 0
  BY <1>2 DEF Beside!Init
<1> QED BY <1>1, <1>3, <1>4 DEF PeerInv, PeerConstants

LEMMA PeerStep == PeerConstants /\ PeerInv /\ [Beside!Next]_Beside!pcvars => PeerInv' /\ NoneLate
<1> SUFFICES ASSUME PeerConstants, PeerInv, [Beside!Next]_Beside!pcvars PROVE PeerInv' /\ NoneLate
  OBVIOUS
<1>1. CASE Beside!Next
  BY <1>1, PeerBeginKeeps, ClassifyKeeps, AnswerKeeps, KeepQuotesKeeps, KeepFiguresKeeps, LapseKeeps, WorldKeeps DEF Beside!Next
<1>2. CASE UNCHANGED Beside!pcvars
  BY <1>2, SameCaches DEF Beside!pcvars, Beside!caches, PeerInv, NoneLate
<1> QED BY <1>1, <1>2

-----------------------------------------------------------------------------
\* The values a quote of the day is compared with.
Sample(Q, peers, day) == {<<r.symbol, r.value>> : r \in {r \in Q : r.symbol \in peers /\ day # 0 /\ r.day = day /\ r.value > 0}}

LEMMA SampleFits ==
    ASSUME NEW Q, QuotePer(Q), NEW peers, NEW day
    PROVE  /\ IsFiniteSet(Sample(Q, peers, day))
           /\ \A v, w \in Sample(Q, peers, day) : v[1] = w[1] => v = w
           /\ \A v \in Sample(Q, peers, day) : v[1] \in peers /\ day # 0 /\ v[2] \in Int
           /\ \A v \in Sample(Q, peers, day) : \A r \in Q : r.symbol = v[1] => r.day = day
           /\ \A r \in Q : r.symbol \in peers /\ day # 0 /\ r.day = day /\ r.value > 0 <=> <<r.symbol, r.value>> \in Sample(Q, peers, day)
<1>1. PICK some : some = {r \in Q : r.symbol \in peers /\ day # 0 /\ r.day = day /\ r.value > 0}
  OBVIOUS
<1>2. PICK f : f = [r \in some |-> <<r.symbol, r.value>>]
  OBVIOUS
<1>3. PICK all : all = Sample(Q, peers, day)
  OBVIOUS
<1>4. all = {f[r] : r \in some}
  BY <1>1, <1>2, <1>3 DEF Sample
<1>5. IsFiniteSet(some)
  BY <1>1, FS_Subset, BesideCounts DEF QuotePer
<1>6. IsFiniteSet(all)
  BY <1>4, <1>5, ImageFits
<1>7. \A v \in all : \E r \in Q : /\ r.symbol \in peers /\ day # 0 /\ r.day = day /\ r.value > 0
                                  /\ v = <<r.symbol, r.value>> /\ v[1] = r.symbol /\ v[2] = r.value
  <2>1. TAKE v \in all
  <2>2. PICK r \in some : v = f[r]
    BY <1>4
  <2>3. v = <<r.symbol, r.value>> /\ r \in Q /\ r.symbol \in peers /\ day # 0 /\ r.day = day /\ r.value > 0
    BY <1>1, <1>2, <2>2
  <2>4. v[1] = r.symbol /\ v[2] = r.value
    BY <2>3
  <2> QED BY <2>3, <2>4
<1>8. \A r, q \in Q : r.symbol = q.symbol => r = q
  BY DEF QuotePer
<1>9. \A v, w \in all : v[1] = w[1] => v = w
  BY <1>7, <1>8
<1>10. \A v \in all : v[1] \in peers /\ day # 0 /\ v[2] \in Int
  BY <1>7 DEF QuotePer, QuoteRows
<1>11. \A v \in all : \A r \in Q : r.symbol = v[1] => r.day = day
  BY <1>7, <1>8
<1>12. ASSUME NEW r \in Q PROVE r.symbol \in peers /\ day # 0 /\ r.day = day /\ r.value > 0 <=> <<r.symbol, r.value>> \in all
  <2>1. r \in some => <<r.symbol, r.value>> \in all
    BY <1>2, <1>4
  <2>2. <<r.symbol, r.value>> \in all => r.symbol \in peers /\ day # 0 /\ r.day = day /\ r.value > 0
    BY <1>7, <1>8
  <2> QED BY <1>1, <2>1, <2>2
<1> QED BY <1>3, <1>6, <1>9, <1>10, <1>11, <1>12

\* A valuation, whatever its quotes; that of a stock with a quote.
LEMMA ValuationIs ==
    ASSUME NEW s, NEW peers, NEW Q, NEW v, v = Beside!Valuation(s, peers, Q)
    PROVE  /\ v.metric.sample = Sample(Q, peers, v.day)
           /\ v.metric.status = "ok" => Beside!Cardinality(Sample(Q, peers, v.day)) >= Enough
           /\ v.day # 0 => \E r \in Q : r.symbol = s /\ v.day = r.day
<1>1. PICK mine : mine = {r \in Q : r.symbol = s}
  OBVIOUS
<1>2. PICK day : day = IF mine = {} THEN 0 ELSE (CHOOSE r \in mine : TRUE).day
  OBVIOUS
<1>3. PICK target : target = IF mine = {} THEN None ELSE LET x == (CHOOSE r \in mine : TRUE).value IN IF x > 0 THEN x ELSE None
  OBVIOUS
<1>4. PICK all : all = Sample(Q, peers, day)
  OBVIOUS
<1>5. v = [day |-> day, metric |-> Beside!Summary(target, all)]
  BY <1>1, <1>2, <1>3, <1>4 DEF Beside!Valuation, Sample
<1>6. v.day = day /\ v.metric = Beside!Summary(target, all)
  BY <1>5
<1>7. v.metric.sample = all /\ (v.metric.status = "ok" => Beside!Cardinality(all) >= Enough)
  BY <1>6 DEF Beside!Summary
<1>8. day # 0 => \E r \in Q : r.symbol = s /\ day = r.day
  BY <1>1, <1>2
<1> QED BY <1>4, <1>6, <1>7, <1>8

Lower(A, x) == {y \in A : y[2] < x}
Level(A, x) == {y \in A : y[2] = x}
Ranks(A, x) == 2 * Beside!Cardinality(Lower(A, x)) + Beside!Cardinality(Level(A, x))
LEMMA ValuationOf ==
    ASSUME NEW s, NEW peers, NEW Q, QuotePer(Q), NEW r \in Q, r.symbol = s, None \notin Int,
           NEW v, v = Beside!Valuation(s, peers, Q)
    PROVE  /\ v.day = r.day
           /\ v.metric.status = "ok" => v.metric.target = r.value /\ r.value > 0 /\ v.metric.rank = Ranks(Sample(Q, peers, r.day), r.value)
<1>0. PICK all : all = Sample(Q, peers, r.day)
  OBVIOUS
<1>1. PICK mine : mine = {q \in Q : q.symbol = s}
  OBVIOUS
<1>2. mine = {r} /\ (CHOOSE q \in mine : TRUE) = r
  BY <1>1 DEF QuotePer
<1>3. r.value \in Int
  BY DEF QuotePer, QuoteRows
<1>4. PICK target : target = IF r.value > 0 THEN r.value ELSE None
  OBVIOUS
<1>5. v = [day |-> r.day, metric |-> Beside!Summary(target, all)]
  BY <1>0, <1>1, <1>2, <1>4 DEF Beside!Valuation, Sample
<1>6. v.day = r.day /\ v.metric = Beside!Summary(target, all)
  BY <1>5
<1>7. v.metric.status = "ok" => /\ target # None /\ v.metric.target = target
                                /\ v.metric.rank = Ranks(all, target)
  BY <1>6 DEF Beside!Summary, Ranks, Lower, Level
<1> QED BY <1>0, <1>3, <1>4, <1>6, <1>7

\* A sample has at most one value of a stock.
LEMMA SampleCount ==
    ASSUME NEW S, NEW T, IsFiniteSet(S), IsFiniteSet(T), \A v \in S : v[1] \in T, \A v, w \in S : v[1] = w[1] => v = w
    PROVE  Beside!Cardinality(S) <= Beside!Cardinality(T)
<1>1. PICK f : f = [v \in S |-> v[1]]
  OBVIOUS
<1>2. f \in Injection(S, T)
  <2>1. f \in [S -> T]
    BY <1>1
  <2>2. \A v, w \in S : f[v] = f[w] => v = w
    BY <1>1
  <2> QED BY <2>1, <2>2 DEF Injection, IsInjective
<1> QED BY <1>2, FS_Injection, BesideCounts

LEMMA Ranked ==
    ASSUME PeerConstants, NEW k \in Pools, NEW Q, QuotePer(Q), {r.symbol : r \in Q} = k, NEW s \in k, NEW u \in k,
           NEW v, v = Beside!Valuation(s, k \ {s}, Q), NEW w, w = Beside!Valuation(u, k \ {u}, Q),
           v.day = w.day, v.metric.status = "ok", w.metric.status = "ok", v.metric.target < w.metric.target
    PROVE  v.metric.rank < w.metric.rank
<1>1. PICK r \in Q : r.symbol = s
  OBVIOUS
<1>2. PICK q \in Q : q.symbol = u
  OBVIOUS
<1>3. None \notin Int /\ r.value \in Int /\ q.value \in Int
  BY DEF PeerConstants, QuotePer, QuoteRows
<1>4. PICK A : A = Sample(Q, k \ {s}, r.day)
  OBVIOUS
<1>5. PICK B : B = Sample(Q, k \ {u}, q.day)
  OBVIOUS
<1>6. PICK low : low = Lower(A, r.value)
  OBVIOUS
<1>7. PICK same : same = Level(A, r.value)
  OBVIOUS
<1>8. PICK under : under = Lower(B, q.value)
  OBVIOUS
<1>9. PICK level : level = Level(B, q.value)
  OBVIOUS
<1>10. v.day = r.day /\ v.metric.target = r.value /\ r.value > 0 /\ v.metric.rank = 2 * Beside!Cardinality(low) + Beside!Cardinality(same)
  <2>1. v.metric.rank = Ranks(A, r.value) /\ v.day = r.day /\ v.metric.target = r.value /\ r.value > 0
    BY <1>1, <1>3, <1>4, ValuationOf
  <2> QED BY <1>6, <1>7, <2>1 DEF Ranks
<1>11. w.day = q.day /\ w.metric.target = q.value /\ q.value > 0 /\ w.metric.rank = 2 * Beside!Cardinality(under) + Beside!Cardinality(level)
  <2>1. w.metric.rank = Ranks(B, q.value) /\ w.day = q.day /\ w.metric.target = q.value /\ q.value > 0
    BY <1>2, <1>3, <1>5, ValuationOf
  <2> QED BY <1>8, <1>9, <2>1 DEF Ranks
<1>12. r.day = q.day /\ r.value < q.value /\ s # u
  <2>1. r.day = q.day /\ r.value < q.value
    BY <1>10, <1>11
  <2>2. r # q
    BY <1>3, <2>1
  <2> QED BY <1>1, <1>2, <2>1, <2>2 DEF QuotePer
<1>13. IsFiniteSet(A) /\ IsFiniteSet(B)
  BY <1>4, <1>5, SampleFits
<1>14. IsFiniteSet(low) /\ IsFiniteSet(same) /\ IsFiniteSet(under) /\ IsFiniteSet(level)
  BY <1>6, <1>7, <1>8, <1>9, <1>13, FS_Subset, BesideCounts DEF Lower, Level
<1>15. r.day # 0
  <2>1. Beside!Cardinality(A) >= Enough
    <3>1. v.metric.status = "ok" => Beside!Cardinality(Sample(Q, k \ {s}, v.day)) >= Enough
      BY ValuationIs
    <3> QED BY <1>4, <1>10, <3>1
  <2>2. A # {}
    <3>1. A = {} => Beside!Cardinality(A) = 0
      BY FS_EmptySet, BesideCounts, Zenon
    <3> QED BY <2>1, <3>1 DEF PeerConstants
  <2> QED BY <1>4, <2>2, SampleFits
<1>16. PICK mine : mine = <<r.symbol, r.value>>
  OBVIOUS
<1>17. mine \in under /\ mine \notin A
  <2>1. mine \in B
    BY <1>1, <1>5, <1>10, <1>12, <1>15, <1>16, SampleFits
  <2>2. mine[2] = r.value /\ mine[1] = s
    BY <1>1, <1>16
  <2>3. mine \notin A
    BY <1>4, <2>2, SampleFits
  <2> QED BY <1>8, <1>12, <2>1, <2>2, <2>3 DEF Lower
<1>18. low \union same \subseteq under
  <2>1. ASSUME NEW x \in A, x[2] <= r.value PROVE x \in B /\ x[2] < q.value
    <3>1. PICK o \in Q : x = <<o.symbol, o.value>> /\ o.symbol \in k \ {s} /\ o.day = r.day /\ o.value > 0
      BY <1>4, <2>1, Zenon DEF Sample
    <3>2. x[2] = o.value /\ o.value \in Int
      BY <3>1 DEF QuotePer, QuoteRows
    <3>3. o.value < q.value
      BY <1>3, <1>12, <2>1, <3>2
    <3>4. o # q
      BY <1>3, <3>3
    <3>5. o.symbol # u
      BY <1>2, <3>4 DEF QuotePer
    <3>6. x \in B
      BY <1>5, <1>12, <1>15, <3>1, <3>5, SampleFits
    <3> QED BY <3>2, <3>3, <3>6
  <2>2. \A x \in A : x[2] \in Int
    BY <1>4, SampleFits
  <2> QED BY <1>3, <1>6, <1>7, <1>8, <2>1, <2>2 DEF Lower, Level
<1>19. low \intersect same = {}
  BY <1>3, <1>6, <1>7 DEF Lower, Level
<1>20. PICK both : both = low \union same
  OBVIOUS
<1>21. IsFiniteSet(both) /\ Beside!Cardinality(both) = Beside!Cardinality(low) + Beside!Cardinality(same)
  <2>1. IsFiniteSet(low \union same) /\ Beside!Cardinality(low \union same) = Beside!Cardinality(low) + Beside!Cardinality(same) - Beside!Cardinality(low \intersect same)
    BY <1>14, FS_Union, BesideCounts
  <2>2. Beside!Cardinality({}) = 0 /\ Beside!Cardinality(low) \in Nat /\ Beside!Cardinality(same) \in Nat
    BY <1>14, FS_EmptySet, FS_CardinalityType, BesideCounts
  <2>3. Beside!Cardinality(low \intersect same) = 0
    BY <1>19, <2>2, Zenon
  <2>4. IsFiniteSet(both) /\ Beside!Cardinality(both) = Beside!Cardinality(low) + Beside!Cardinality(same) - Beside!Cardinality(low \intersect same)
    BY <1>20, <2>1, Zenon
  <2> QED BY <2>2, <2>3, <2>4
<1>22. Beside!Cardinality(both \union {mine}) = Beside!Cardinality(both) + 1
  <2>1. mine \notin both
    BY <1>6, <1>7, <1>17, <1>20 DEF Lower, Level
  <2> QED BY <1>21, <2>1, FS_AddElement, BesideCounts
<1>23. Beside!Cardinality(both \union {mine}) <= Beside!Cardinality(under)
  <2>1. both \union {mine} \in SUBSET under
    BY <1>17, <1>18, <1>20
  <2> QED BY <1>14, <2>1, FS_Subset, BesideCounts
<1>24. Beside!Cardinality(low) \in Nat /\ Beside!Cardinality(same) \in Nat /\ Beside!Cardinality(under) \in Nat /\ Beside!Cardinality(level) \in Nat
  BY <1>14, FS_CardinalityType, BesideCounts
<1> QED BY <1>10, <1>11, <1>21, <1>22, <1>23, <1>24

\* A comparison of indicators, whatever its rows.
PeriodFits(c, s, peers, F) ==
    /\ \A v \in c.metric.sample : v[1] \in peers
    /\ \A v, w \in c.metric.sample : v[1] = w[1] => v = w
    /\ Beside!OfOnePeriod(c, s, F)

LEMMA PeriodIs ==
    ASSUME PeerConstants, NEW kind, NEW s, NEW peers, NEW F, RowPer(F), NEW known, NEW d, d = Beside!Period(kind, s, peers, F, known)
    PROVE  PeriodFits(d, s, peers, F)
<1> DEFINE targets == Beside!Own(kind, s, F)
           end == IF targets = {} THEN 0 ELSE Beside!Latest({r.end : r \in targets})
           anchor == CHOOSE r \in targets : r.end = end
           reason == targets = {} \/ (kind = "latest" /\ end < known)
           metric == IF reason THEN Beside!Summary(None, {}) ELSE Beside!Summary(anchor.value, Beside!Alike(anchor, peers, F))
<1>71. d = [end |-> end, reason |-> reason, metric |-> metric]
  BY DEF Beside!Period
<1>72. d.metric = metric /\ d.end = end
  BY <1>71
<1>73. reason \in BOOLEAN
  OBVIOUS
<1>74. metric = IF reason THEN Beside!Summary(None, {}) ELSE Beside!Summary(anchor.value, Beside!Alike(anchor, peers, F))
  OBVIOUS
<1>75. ~reason => targets # {} /\ end = Beside!Latest({r.end : r \in targets})
  OBVIOUS
<1>76. targets \subseteq {r \in F : r.symbol = s /\ r.ok}
  BY DEF Beside!Own
<1>77. (\E r \in targets : r.end = end) => anchor \in targets /\ anchor.end = end
  OBVIOUS
<1> HIDE DEF targets, end, anchor, reason, metric
<1>78. ~reason => anchor \in F /\ anchor.symbol = s /\ anchor.ok /\ anchor.end = end
  <2>1. SUFFICES ASSUME ~reason PROVE anchor \in targets /\ anchor.end = end
    BY <1>76
  <2>2. PICK ends : ends = {r.end : r \in targets}
    OBVIOUS
  <2>3. ends \subseteq Nat /\ ends # {} /\ \A x \in ends : x <= Today
    BY <1>75, <1>76, <2>1, <2>2 DEF RowPer, FigureRows
  <2>9. Today \in Int
    BY DEF PeerConstants
  <2>4. PICK m \in ends : \A x \in ends : x <= m
    BY <2>3, <2>9, GreatestOf
  <2>5. Beside!Latest(ends) \in ends
    BY <2>4 DEF Beside!Latest
  <2>6. end \in ends
    BY <1>75, <2>1, <2>2, <2>5
  <2> QED BY <1>77, <2>2, <2>6
<1>5. PICK some : some = IF reason THEN {} ELSE {r \in F : r.symbol \in peers /\ r.ok /\ r.end = anchor.end /\ r.kind = anchor.kind}
  OBVIOUS
<1>6. PICK all : all = {<<r.symbol, r.value>> : r \in some}
  OBVIOUS
<1>7. all = IF reason THEN {} ELSE Beside!Alike(anchor, peers, F)
  <2>1. CASE reason
    BY <1>5, <1>6, <2>1
  <2>2. CASE ~reason
    <3>1. some = {r \in F : r.symbol \in peers /\ r.ok /\ r.end = anchor.end /\ r.kind = anchor.kind}
      BY <1>5, <2>2, Zenon
    <3>2. Beside!Alike(anchor, peers, F) = {<<r.symbol, r.value>> : r \in some}
      BY <3>1, Zenon DEF Beside!Alike
    <3> QED BY <1>6, <2>2, <3>2, Zenon
  <2> QED BY <2>1, <2>2
<1>8. d.metric.sample = all
  BY <1>7, <1>72, <1>74 DEF Beside!Summary
<1>9. ASSUME NEW v \in all PROVE \E r \in some : v = <<r.symbol, r.value>> /\ v[1] = r.symbol /\ v[2] = r.value
  <2>1. PICK r \in some : v = <<r.symbol, r.value>>
    BY <1>6
  <2>2. v[1] = r.symbol /\ v[2] = r.value
    BY <2>1
  <2> QED BY <2>1, <2>2
<1>10. ASSUME NEW r \in some, NEW q \in some, r.symbol = q.symbol PROVE r = q
  <2>1. Beside!SameKey(r, q)
    BY <1>5, <1>10 DEF Beside!SameKey
  <2> QED BY <1>5, <2>1 DEF RowPer
<1>11. \A v \in all : v[1] \in peers
  BY <1>5, <1>9
<1>12. \A v, w \in all : v[1] = w[1] => v = w
  BY <1>9, <1>10
<1>13. ASSUME NEW v \in all
       PROVE  \E r, mine \in F : /\ r.symbol = v[1] /\ r.value = v[2] /\ r.ok /\ r.end = d.end
                                 /\ mine.symbol = s /\ mine.ok /\ mine.end = r.end /\ mine.kind = r.kind
  <2>1. PICK r \in some : v[1] = r.symbol /\ v[2] = r.value
    BY <1>9
  <2>2. ~reason /\ r \in F /\ r.ok /\ r.end = anchor.end /\ r.kind = anchor.kind
    BY <1>5, <2>1
  <2>3. anchor \in F /\ anchor.symbol = s /\ anchor.ok /\ anchor.end = d.end
    BY <1>72, <1>78, <2>2
  <2> QED BY <2>1, <2>2, <2>3
<1>14. Beside!OfOnePeriod(d, s, F)
  BY <1>8, <1>13 DEF Beside!OfOnePeriod
<1> QED BY <1>8, <1>11, <1>12, <1>14 DEF PeriodFits

\* The last year that is compared is not after the latest period.
LEMMA YearIsEarlier ==
    ASSUME PeerConstants, NEW s, NEW peers, NEW F, RowPer(F), NEW known,
           NEW y, y = Beside!Period("annual", s, peers, F, known), NEW l, l = Beside!Period("latest", s, peers, F, known), l.end # 0
    PROVE  y.end <= l.end
<1>1. PICK R : R = Beside!Own("latest", s, F)
  OBVIOUS
<1>2. PICK A : A = Beside!Own("annual", s, F)
  OBVIOUS
<1>3. PICK ends : ends = {r.end : r \in R}
  OBVIOUS
<1>4. PICK years : years = {r.end : r \in A}
  OBVIOUS
<1>5. R = {r \in F : r.symbol = s /\ r.ok}
  BY <1>1 DEF Beside!Own
<1>6. A = {r \in F : r.symbol = s /\ r.ok /\ r.kind = "annual"}
  BY <1>2 DEF Beside!Own
<1>7. l.end = (IF R = {} THEN 0 ELSE Beside!Latest(ends))
  BY <1>1, <1>3 DEF Beside!Period
<1>8. y.end = (IF A = {} THEN 0 ELSE Beside!Latest(years))
  BY <1>2, <1>4 DEF Beside!Period
<1>9. R # {} /\ l.end = Beside!Latest(ends)
  BY <1>7
<1>10. ends \subseteq Nat /\ years \subseteq ends /\ (\A x \in ends : x <= Today) /\ ends # {}
  BY <1>3, <1>4, <1>5, <1>6, <1>9 DEF RowPer, FigureRows
<1>11. Today \in Int
  BY DEF PeerConstants
<1>12. Beside!Latest(ends) \in ends /\ \A x \in ends : x <= Beside!Latest(ends)
  <2>1. PICK m \in ends : \A x \in ends : x <= m
    BY <1>10, <1>11, GreatestOf
  <2> QED BY <2>1 DEF Beside!Latest
<1>13. CASE A = {}
  <2>1. y.end = 0 /\ l.end \in Nat
    BY <1>8, <1>9, <1>10, <1>12, <1>13
  <2> QED BY <2>1
<1>14. CASE A # {}
  <2>1. years # {} /\ years \subseteq Nat /\ \A x \in years : x <= Today
    BY <1>4, <1>10, <1>14
  <2>2. PICK m \in years : \A x \in years : x <= m
    BY <1>11, <2>1, GreatestOf
  <2>3. Beside!Latest(years) \in years
    BY <2>2 DEF Beside!Latest
  <2> QED BY <1>8, <1>9, <1>10, <1>12, <1>14, <2>3
<1> QED BY <1>13, <1>14

-----------------------------------------------------------------------------
\* What the invariant says of the analyses and the caches.
LEMMA PeerTypes == ASSUME PeerConstants, PeerInv PROVE Beside!PCTypeOK
<1>1. DOMAIN classes \subseteq Symbols /\ \A k \in DOMAIN quotes \union DOMAIN figures : k \subseteq Symbols
  BY DEF PeerInv, CachesFit, ClassesFit, QuotesFit, FiguresFit, Pools
<1>2. ASSUME NEW p \in Analyses
      PROVE  study[p].pc \in {"new", "classify", "quotes", "financial", "done"} /\ Beside!Cardinality(study[p].flying) <= InFlight
  <2>1. PICK t : t = study[p] /\ StudyFits(t)
    BY DEF PeerInv
  <2>2. t.flying = {} => Beside!Cardinality(t.flying) = 0
    BY FS_EmptySet, BesideCounts, Zenon
  <2>3. Beside!Cardinality(t.flying) <= InFlight
    BY <2>1, <2>2 DEF StudyFits, Flight, PeerConstants
  <2>4. t.pc \in {"new", "classify", "quotes", "financial", "done"}
    BY <2>1 DEF StudyFits
  <2> QED BY <2>1, <2>3, <2>4
<1> QED BY <1>1, <1>2 DEF Beside!PCTypeOK, PeerInv

LEMMA PeerWhole == ASSUME PeerInv PROVE Beside!CachesWhole
<1>1. ASSUME NEW s \in DOMAIN classes PROVE s \in Beside!Old(classes, s)
  BY <1>1 DEF PeerInv, CachesFit, ClassesFit, Beside!Old
<1>2. ASSUME NEW k \in DOMAIN quotes PROVE {r.symbol : r \in Beside!Old(quotes, k)} = k
  <2>1. Beside!Old(quotes, k) = quotes[k].payload
    BY DEF Beside!Old
  <2> QED BY <2>1 DEF PeerInv, CachesFit, QuotesFit
<1>3. ASSUME NEW k \in DOMAIN figures
      PROVE  {r.symbol : r \in Beside!Old(figures, k)} = k /\ \A r \in Beside!Old(figures, k) : r.ok
  <2>1. Beside!Old(figures, k) = figures[k].payload
    BY DEF Beside!Old
  <2> QED BY <2>1 DEF PeerInv, CachesFit, FiguresFit
<1> QED BY <1>1, <1>2, <1>3 DEF Beside!CachesWhole

LEMMA PeerRanks == ASSUME PeerConstants, PeerInv PROVE Beside!RanksAgree
<1> SUFFICES ASSUME NEW k \in DOMAIN quotes, NEW s \in k, NEW u \in k, NEW v, v = Beside!Valuation(s, k \ {s}, Beside!Old(quotes, k)),
                    NEW w, w = Beside!Valuation(u, k \ {u}, Beside!Old(quotes, k)),
                    v.day = w.day, v.metric.status = "ok", w.metric.status = "ok", v.metric.target < w.metric.target
             PROVE  v.metric.rank < w.metric.rank
  BY DEF Beside!RanksAgree
<1>1. PICK Q : Q = Beside!Old(quotes, k)
  OBVIOUS
<1>2. Q = quotes[k].payload
  BY <1>1 DEF Beside!Old
<1>3. k \in Pools /\ QuotePer(Q) /\ {r.symbol : r \in Q} = k
  BY <1>2 DEF PeerInv, CachesFit, QuotesFit
<1> QED BY <1>1, <1>3, Ranked

LEMMA PeerAlike == ASSUME PeerConstants, PeerInv PROVE Beside!ComparedAlike
<1> SUFFICES ASSUME NEW p \in Analyses, study[p].shown # None, NEW t, t = study[p], NEW d, d = t.shown
             PROVE  /\ \A v, w \in d.valuation.metric.sample : v[1] = w[1] => v = w
                    /\ \A v \in d.valuation.metric.sample : v[1] \in t.pool \ {t.stock}
                    /\ \A v, w \in d.annual.metric.sample : v[1] = w[1] => v = w
                    /\ \A v \in d.annual.metric.sample : v[1] \in t.pool \ {t.stock}
                    /\ \A v, w \in d.latest.metric.sample : v[1] = w[1] => v = w
                    /\ \A v \in d.latest.metric.sample : v[1] \in t.pool \ {t.stock}
                    /\ Beside!OfOnePeriod(d.annual, t.stock, t.figures) /\ Beside!OfOnePeriod(d.latest, t.stock, t.figures)
                    /\ \A v \in d.valuation.metric.sample : \A r \in t.rows : r.symbol = v[1] =>
                          \E mine \in t.rows : mine.symbol = t.stock /\ mine.day = r.day
                    /\ d.latest.end # 0 => d.annual.end <= d.latest.end
                    /\ d.sufficiency = "sufficient" => Beside!Cardinality(t.pool) > Enough
  BY DEF Beside!ComparedAlike
<1>1. Pooled(t) /\ ShownFits(t)
  BY DEF PeerInv, StudyFits
<1>2. PICK peers : peers = t.pool \ {t.stock}
  OBVIOUS
<1>3. PICK v : v = d.valuation
  OBVIOUS
<1>4. PICK all : all = Sample(t.rows, peers, v.day)
  OBVIOUS
<1>5. /\ v = Beside!Valuation(t.stock, peers, t.rows) /\ d.annual = Beside!Period("annual", t.stock, peers, t.figures, t.known)
      /\ d.latest = Beside!Period("latest", t.stock, peers, t.figures, t.known) /\ QuotePer(t.rows) /\ RowPer(t.figures)
      /\ d.sufficiency = "sufficient" => v.metric.status = "ok"
  BY <1>1, <1>2, <1>3 DEF ShownFits
<1>6. /\ v.metric.sample = all /\ (v.metric.status = "ok" => Beside!Cardinality(all) >= Enough)
      /\ v.day # 0 => \E r \in t.rows : r.symbol = t.stock /\ v.day = r.day
  BY <1>4, <1>5, ValuationIs
<1>7. /\ IsFiniteSet(all) /\ \A x, y \in all : x[1] = y[1] => x = y
      /\ \A x \in all : x[1] \in peers /\ v.day # 0
      /\ \A x \in all : \A r \in t.rows : r.symbol = x[1] => r.day = v.day
  BY <1>4, <1>5, SampleFits
<1>8. /\ \A x \in d.annual.metric.sample : x[1] \in peers
      /\ \A x, y \in d.annual.metric.sample : x[1] = y[1] => x = y
      /\ Beside!OfOnePeriod(d.annual, t.stock, t.figures)
  <2>1. PeriodFits(d.annual, t.stock, peers, t.figures)
    BY <1>5, PeriodIs
  <2> QED BY <2>1 DEF PeriodFits
<1>9. /\ \A x \in d.latest.metric.sample : x[1] \in peers
      /\ \A x, y \in d.latest.metric.sample : x[1] = y[1] => x = y
      /\ Beside!OfOnePeriod(d.latest, t.stock, t.figures)
  <2>1. PeriodFits(d.latest, t.stock, peers, t.figures)
    BY <1>5, PeriodIs
  <2> QED BY <2>1 DEF PeriodFits
<1>10. \A x \in all : \A r \in t.rows : r.symbol = x[1] => \E mine \in t.rows : mine.symbol = t.stock /\ mine.day = r.day
  BY <1>6, <1>7
<1>11. d.latest.end # 0 => d.annual.end <= d.latest.end
  BY <1>5, YearIsEarlier
<1>12. d.sufficiency = "sufficient" => Beside!Cardinality(t.pool) > Enough
  <2>1. IsFiniteSet(t.pool) /\ t.stock \in t.pool
    BY <1>1, FS_Subset, BesideCounts DEF Pooled, Pools, PeerConstants
  <2>2. IsFiniteSet(t.pool \ {t.stock}) /\ Beside!Cardinality(t.pool \ {t.stock}) = Beside!Cardinality(t.pool) - 1 /\ Beside!Cardinality(t.pool) \in Nat
    BY <2>1, FS_RemoveElement, FS_CardinalityType, BesideCounts
  <2>3. IsFiniteSet(peers) /\ Beside!Cardinality(peers) = Beside!Cardinality(t.pool) - 1
    BY <1>2, <2>2, Zenon
  <2>4. Beside!Cardinality(all) <= Beside!Cardinality(peers) /\ Beside!Cardinality(all) \in Nat
    BY <1>7, <2>3, SampleCount, FS_CardinalityType, BesideCounts
  <2> QED BY <1>5, <1>6, <2>2, <2>3, <2>4 DEF PeerConstants
<1> QED BY <1>2, <1>3, <1>6, <1>7, <1>8, <1>9, <1>10, <1>11, <1>12

-----------------------------------------------------------------------------
\* What a step does to the caches.
Replaced(c, new, phase) ==
    /\ DOMAIN c \subseteq DOMAIN new
    /\ \A k \in DOMAIN new : Beside!Old(new, k) # Beside!Old(c, k) =>
          \E p \in Analyses : Beside!At(p, phase) /\ study[p].pool = k /\ ~study[p].late /\ ~study[p].failed

LEMMA PutReplaces ==
    ASSUME NEW c, NEW x, NEW phase, NEW p \in Analyses, Beside!At(p, phase), ~study[p].late, ~study[p].failed, NEW new, new = Beside!Put(c, study[p].pool, x)
    PROVE  Replaced(c, new, phase)
<1>1. DOMAIN new = DOMAIN c \union {study[p].pool} /\ \A k \in DOMAIN c : k # study[p].pool => new[k] = c[k]
  BY DEF Beside!Put
<1>2. \A k \in DOMAIN new : k # study[p].pool => Beside!Old(new, k) = Beside!Old(c, k)
  BY <1>1 DEF Beside!Old
<1> QED BY <1>1, <1>2 DEF Replaced

LEMMA SameReplaces == ASSUME NEW c, NEW phase PROVE Replaced(c, c, phase)
  BY DEF Replaced

LEMMA AgedReplaces ==
    ASSUME NEW c, NEW phase, \A k \in DOMAIN c : DOMAIN c[k] = {"payload", "fresh"}
    PROVE  Replaced(c, Beside!Aged(c), phase)
<1>1. PICK new : new = Beside!Aged(c)
  OBVIOUS
<1>2. DOMAIN new = DOMAIN c /\ \A k \in DOMAIN c : new[k].payload = c[k].payload
  BY <1>1 DEF Beside!Aged
<1>3. \A k \in DOMAIN c : Beside!Old(new, k) = Beside!Old(c, k)
  BY <1>2 DEF Beside!Old
<1> QED BY <1>1, <1>2, <1>3 DEF Replaced

LEMMA PeerKept ==
    ASSUME PeerConstants, PeerInv, [Beside!Next]_Beside!pcvars
    PROVE  DOMAIN classes \subseteq DOMAIN classes' /\ Replaced(quotes, quotes', "quotes") /\ Replaced(figures, figures', "financial")
<1>1. CASE UNCHANGED Beside!caches
  BY <1>1, SameReplaces DEF Beside!caches
<1>2. ASSUME NEW p \in Analyses, Beside!Classify(p)
      PROVE  DOMAIN classes \subseteq DOMAIN classes' /\ UNCHANGED <<quotes, figures>>
  BY <1>2 DEF Beside!Classify, Beside!Put
<1>3. ASSUME NEW p \in Analyses, Beside!KeepQuotes(p)
      PROVE  UNCHANGED <<classes, figures>> /\ Replaced(quotes, quotes', "quotes")
  <2>1. PICK t : t = study[p]
    OBVIOUS
  <2>2. PICK errors : errors = (t.failed \/ t.flying # {} \/ ~Beside!Covered(t))
    OBVIOUS
  <2>3. /\ Beside!At(p, "quotes") /\ UNCHANGED <<classes, figures>>
        /\ quotes' = (IF ~errors /\ ~t.late THEN Beside!Put(quotes, t.pool, t.got) ELSE quotes)
    BY <1>3, <2>1, <2>2 DEF Beside!KeepQuotes
  <2>4. CASE ~errors /\ ~t.late
    BY <2>1, <2>2, <2>3, <2>4, PutReplaces
  <2>5. CASE ~(~errors /\ ~t.late)
    BY <2>3, <2>5, SameReplaces
  <2> QED BY <2>3, <2>4, <2>5
<1>4. ASSUME NEW p \in Analyses, Beside!KeepFigures(p)
      PROVE  UNCHANGED <<classes, quotes>> /\ Replaced(figures, figures', "financial")
  <2>1. PICK t : t = study[p]
    OBVIOUS
  <2>2. PICK errors : errors = (t.failed \/ t.flying # {} \/ ~Beside!Covered(t) \/ \E r \in t.got : ~r.ok)
    OBVIOUS
  <2>3. /\ Beside!At(p, "financial") /\ UNCHANGED <<classes, quotes>>
        /\ figures' = (IF ~errors /\ ~t.late THEN Beside!Put(figures, t.pool, t.got) ELSE figures)
    BY <1>4, <2>1, <2>2 DEF Beside!KeepFigures
  <2>4. CASE ~errors /\ ~t.late
    BY <2>1, <2>2, <2>3, <2>4, PutReplaces
  <2>5. CASE ~(~errors /\ ~t.late)
    BY <2>3, <2>5, SameReplaces
  <2> QED BY <2>3, <2>4, <2>5
<1>5. CASE Beside!TimePasses
  <2>1. /\ \A k \in DOMAIN quotes : DOMAIN quotes[k] = {"payload", "fresh"}
        /\ \A k \in DOMAIN figures : DOMAIN figures[k] = {"payload", "fresh"}
    BY DEF PeerInv, CachesFit, QuotesFit, FiguresFit
  <2>2. DOMAIN Beside!Aged(classes) = DOMAIN classes
    BY DEF Beside!Aged
  <2>3. quotes' = Beside!Aged(quotes) /\ figures' = Beside!Aged(figures) /\ classes' = Beside!Aged(classes)
    BY <1>5 DEF Beside!TimePasses
  <2> QED BY <2>1, <2>2, <2>3, AgedReplaces
<1>6. ASSUME NEW p \in Analyses, Beside!Begin(p) \/ Beside!Answer(p) \/ Beside!Lapse(p) \/ Beside!Again(p) PROVE UNCHANGED Beside!caches
  BY <1>6 DEF Beside!Begin, Beside!Answer, Beside!Lapse, Beside!Again
<1>7. CASE Beside!Shift
  BY <1>1, <1>7 DEF Beside!Shift
<1>8. CASE UNCHANGED Beside!pcvars
  BY <1>1, <1>8 DEF Beside!pcvars, Beside!caches
<1> QED BY <1>1, <1>2, <1>3, <1>4, <1>5, <1>6, <1>7, <1>8, SameReplaces DEF Beside!Next

-----------------------------------------------------------------------------
\* A cache holds whole pools only, and under a pool an undisputed row of each of its
\* stocks; what is shown compares a stock with the others of its pool, one value of
\* each, of one day and one period; and the ranks of two stocks of a pool agree with
\* their values. For any analyses beside each other, any batches in any order of their
\* answers, any lapse of the budget and any change of the sites between two batches.
THEOREM PeersAreSound == PeerConstants /\ Beside!Spec => [](Beside!PCTypeOK /\ Beside!PCSafe)
<1> SUFFICES ASSUME PeerConstants PROVE Beside!Spec => [](Beside!PCTypeOK /\ Beside!PCSafe)
  OBVIOUS
<1>1. Beside!Init => PeerInv
  BY PeerInit
<1>2. PeerInv /\ [Beside!Next]_Beside!pcvars => PeerInv'
  BY PeerStep
<1>3. PeerInv => Beside!PCTypeOK /\ Beside!PCSafe
  BY PeerTypes, PeerWhole, PeerAlike, PeerRanks DEF Beside!PCSafe
<1> QED BY <1>1, <1>2, <1>3, PTL DEF Beside!Spec

\* What came late is neither used nor kept, what is kept is never lost, and a snapshot
\* gives way only to one of a round in time without a failure.
THEOREM PeersInTime == PeerConstants /\ Beside!Spec => [][Beside!FetchedInTime]_Beside!pcvars
<1> SUFFICES ASSUME PeerConstants PROVE Beside!Spec => [][Beside!FetchedInTime]_Beside!pcvars
  OBVIOUS
<1>1. Beside!Init => PeerInv
  BY PeerInit
<1>2. PeerInv /\ [Beside!Next]_Beside!pcvars => PeerInv'
  BY PeerStep
<1>3. PeerInv /\ [Beside!Next]_Beside!pcvars => [Beside!FetchedInTime]_Beside!pcvars
  BY PeerStep, PeerKept DEF Beside!FetchedInTime, NoneLate, Replaced
<1> QED BY <1>1, <1>2, <1>3, PTL DEF Beside!Spec
=============================================================================
