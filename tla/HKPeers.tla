-------------------------------- MODULE HKPeers --------------------------------
(***************************************************************************)
(* The peers of a Hong Kong stock: who they are is read from the files of  *)
(* the exchange's members and of their sectors, what they are worth from a *)
(* pool of a site, page by page within a budget, and from a snapshot in    *)
(* the cache when the site fails or gives less than all.                   *)
(***************************************************************************)
EXTENDS Integers, Sequences, FiniteSets

CONSTANTS
    Callers,        \* analyses of Target, any number at one time
    Target, Others, \* the stock and the other Hong Kong stocks
    Rosters,        \* what the files may say: [stock |-> its sector, None when it is not qualified]
    Sites,          \* pools the site may show: sequences of [code, sector, day]; day 0 cannot be used
    PageSize,
    MaxMoves,       \* changes of the files and the site, in all
    None

VARIABLES
    roster,         \* what the files say
    site,           \* the pool the site shows
    cache,          \* the snapshot peer_hk_industry_v2, None at first
    fresh,          \* it is less than an hour old
    call,           \* [caller |-> where it is]
    moves

hpvars == <<roster, site, cache, fresh, call, moves>>
world == <<roster, site, moves>>

Stocks == Others \union {Target}
MaxOf(S) == CHOOSE m \in S : \A n \in S : n <= m

-----------------------------------------------------------------------------
\* build_industry_data: the peers are those of the files, the values those of the
\* rows about the same sector; of several rows about a peer the one of the target's
\* day is taken, else the newest.
About(rows, c, s) == {r \in rows : r.code = c /\ r.sector = s}
Day(rows, c, s) == IF About(rows, c, s) = {} THEN 0 ELSE MaxOf({r.day : r \in About(rows, c, s)})
Picked(rows, c, s, day) ==
    IF day # 0 /\ \E r \in About(rows, c, s) : r.day = day THEN day ELSE Day(rows, c, s)
Qualified(ros) == {c \in Others : ros[c] = ros[Target]}

Build(rows, ros) ==
    LET s == ros[Target]
        day == Day(rows, Target, s)
        peers == Qualified(ros)
        quoted == {c \in peers \union {Target} : About(rows, c, s) # {}}
        value == [c \in peers |-> Picked(rows, c, s, day)]
    IN [sector |-> s, peers |-> peers, asof |-> day, value |-> value,
        errors |-> day = 0 \/ quoted # peers \union {Target} \/ \E c \in peers \intersect quoted : value[c] = 0]

\* The old snapshot as rows; its peers keep its sector.
AsRows(d, ros) == {[code |-> Target, sector |-> ros[Target], day |-> d.asof]}
                  \union {[code |-> c, sector |-> d.sector, day |-> d.value[c]] : c \in d.peers}
Restored(old, ros) == Build(IF old = None THEN {} ELSE AsRows(old, ros), ros)

-----------------------------------------------------------------------------
NewCall == [pc |-> "new", roster |-> None, old |-> None, rows |-> {}, page |-> 0, pages |-> 0, count |-> 0,
            got |-> 0, late |-> FALSE, shown |-> None, status |-> None]

Init ==
    /\ roster \in Rosters /\ site \in Sites
    /\ cache = None /\ fresh = FALSE
    /\ call = [p \in Callers |-> NewCall] /\ moves = 0

At(p, pc) == call[p].pc = pc
Go(p, r) == call' = [call EXCEPT ![p] = r]
Done(p, r, d, status) == Go(p, [NewCall EXCEPT !.pc = "done", !.roster = r.roster, !.shown = d, !.status = status])

ReusableFresh(old, ros) == old.sector = ros[Target]
\* A fresh snapshot is used when the files still give its peers and sector.
Reusable(old, ros) == old.peers = Qualified(ros) /\ old.sector = ros[Target]

\* _fetch_impl up to the request; cacheOnly when the breaker is open.
Begin(p) ==
    /\ At(p, "new")
    /\ \E refresh, cacheOnly \in BOOLEAN :
          LET r == [NewCall EXCEPT !.roster = roster, !.old = cache] IN
          IF roster[Target] = None THEN Done(p, r, None, "none")
          ELSE IF cache # None /\ fresh /\ (~refresh \/ cacheOnly) /\ Reusable(cache, roster)
               THEN Done(p, r, cache, "cache")
          ELSE IF cacheOnly THEN Done(p, r, Restored(cache, roster), "stale")
          ELSE Go(p, [r EXCEPT !.pc = "page", !.page = 1])
    /\ UNCHANGED <<world, cache, fresh>>

PageOf(i) == {site[k] : k \in {k \in DOMAIN site : (k - 1) \div PageSize = i - 1}}
PagesNow == (Len(site) + PageSize - 1) \div PageSize
OnPage(i) == IF i * PageSize <= Len(site) THEN PageSize ELSE Len(site) - (i - 1) * PageSize

\* fetch_sector_pool: a page within the budget, of a pool of the same size; anything
\* else, and a pool with fewer rows than it says, shows the old snapshot.
Page(p) ==
    /\ At(p, "page")
    /\ LET r == call[p] IN
       IF r.late \/ (r.page > 1 /\ (PagesNow # r.pages \/ Len(site) # r.count))
       THEN Done(p, r, Restored(r.old, r.roster), "stale")
       ELSE LET s == [r EXCEPT !.rows = @ \union PageOf(r.page), !.got = @ + OnPage(r.page),
                               !.pages = PagesNow, !.count = Len(site), !.page = @ + 1]
            IN IF s.page <= s.pages THEN Go(p, s)
               ELSE IF s.got # s.count THEN Done(p, r, Restored(r.old, r.roster), "stale")
               ELSE Go(p, [s EXCEPT !.pc = "build"])
    /\ UNCHANGED <<world, cache, fresh>>

\* The request fails, or what it answers is no page.
PageFails(p) ==
    /\ At(p, "page")
    /\ Done(p, call[p], Restored(call[p].old, call[p].roster), "stale")
    /\ UNCHANGED <<world, cache, fresh>>

\* What is whole and in time is kept; what is not gives way to the old snapshot.
Keep(p) ==
    /\ At(p, "build")
    /\ LET r == call[p]
           d == Build(r.rows, r.roster)
       IN IF d.errors /\ r.old # None
          THEN Done(p, r, Restored(r.old, r.roster), "stale") /\ UNCHANGED <<cache, fresh>>
          ELSE /\ Done(p, r, d, "live")
               /\ IF ~d.errors /\ ~r.late THEN cache' = d /\ fresh' = TRUE ELSE UNCHANGED <<cache, fresh>>
    /\ UNCHANGED world

\* The budget of 60 seconds runs out.
Lapse(p) == /\ call[p].pc \in {"page", "build"} /\ ~call[p].late
            /\ Go(p, [call[p] EXCEPT !.late = TRUE])
            /\ UNCHANGED <<world, cache, fresh>>
Again(p) == At(p, "done") /\ Go(p, NewCall) /\ UNCHANGED <<world, cache, fresh>>
HourPasses == fresh /\ fresh' = FALSE /\ UNCHANGED <<world, cache, call>>

\* A refresh of the files, and the site.
Move == /\ moves < MaxMoves /\ moves' = moves + 1
        /\ \/ roster' \in Rosters \ {roster} /\ UNCHANGED site
           \/ site' \in Sites \ {site} /\ UNCHANGED roster
        /\ UNCHANGED <<cache, fresh, call>>

Next == \/ \E p \in Callers : Begin(p) \/ Page(p) \/ PageFails(p) \/ Keep(p) \/ Lapse(p) \/ Again(p)
        \/ HourPasses \/ Move

Spec == Init /\ [][Next]_hpvars

-----------------------------------------------------------------------------
HPTypeOK ==
    /\ roster \in Rosters /\ site \in Sites /\ fresh \in BOOLEAN /\ moves \in 0 .. MaxMoves
    /\ \A p \in Callers : call[p].pc \in {"new", "page", "build", "done"}
    /\ cache # None => cache.peers \subseteq Others /\ DOMAIN cache.value = cache.peers

\* What the cache holds has a day for the target and for each peer, however the
\* pages shifted while they were read.
CacheWhole == cache # None => cache.asof # 0 /\ \A c \in cache.peers : cache.value[c] # 0

\* The peers shown are those the files gave this call, of one sector with the
\* target, also when their values come from the cache.
ShownQualified ==
    \A p \in Callers :
        LET r == call[p] IN
        r.pc = "done" /\ r.shown # None =>
            /\ r.shown.peers = Qualified(r.roster) /\ r.shown.sector = r.roster[Target]
HPSafe == CacheWhole /\ ShownQualified

\* What an answer lacks never replaces what the cache holds, and late answers are
\* not kept.
KeptInTime == cache' # cache => \E p \in Callers : At(p, "build") /\ ~call[p].late /\ ~cache'.errors
=============================================================================
