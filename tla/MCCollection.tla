---------------------------- MODULE MCCollection -----------------------------
(***************************************************************************)
(* Small instances of the three ways a kind of data is collected through   *)
(* the cache, and of the files the analyses read beside it.  A behaviour   *)
(* belongs to one part; the variables the part does not have are None.     *)
(*   daily     two threads of one runtime, prices of three days            *)
(*   quarterly the same of financials, whose whole rows are not compared   *)
(*   hk        one thread, every answer a source may give, time passes     *)
(*   hk2       two threads at one instant, a store may fail                *)
(*   shares    two threads, the valuation of an A share                    *)
(*   industry  two threads, the industry, which is cached by no entry      *)
(*   news      one thread, two queries, time passes                        *)
(*   news2     two threads at one instant                                  *)
(*   rag       two commands on a collection, one code inside the other     *)
(*   shelves   two commands on two collections and two documents           *)
(*   rebuild   two rebuilds, one publisher, a tree that moves twice        *)
(*   table     a rebuild and two writers of the table of industries        *)
(*   members   two refreshes and an analysis of Hong Kong, two faults      *)
(***************************************************************************)
EXTENDS ResilientCollection, Sequences

VARIABLES
    part,
    last, old, wasOpen, known, failedRow, failedAt,  \* DedicatedCollection
    previous, waiting, errors, items, shown,         \* HKNews
    disk, chunks, made, gone, handle, installed, provider, cmd, found, cut,  \* KnowledgeBase
    edition, table, candidate, checkpoint, build, writer, given, locked,     \* IndustryMapping
    connect, csv, json, run, reader, torn                                    \* HKSnapshots

\* A source returns a complete snapshot, one without its history, one read off
\* the end of a curve (of either day), or one whose figures are not positive.
Full == [day |-> 2, positive |-> TRUE, degraded |-> FALSE, curve |-> FALSE,
          has |-> {"history"}, failed |-> {}]
Bare == [Full EXCEPT !.degraded = TRUE, !.has = {}, !.failed = {"history"}]
Curve == [Full EXCEPT !.degraded = TRUE, !.curve = TRUE, !.day = 1]
Negative == [Full EXCEPT !.positive = FALSE]

Quarterly == INSTANCE ResilientCollection WITH Compared <- FALSE, Attempts <- 1, MaxTime <- 2, MaxFaults <- 0

HK == INSTANCE DedicatedCollection WITH
    Kind <- "hk-valuation", Pipelines <- {1}, PerPipeline <- 1, Sources <- 1, Attempts <- 2,
    Parts <- {"history"}, Answers <- {Full, Bare, Curve, [Curve EXCEPT !.day = 3], Negative},
    Normal <- 2, Retry <- 1, Threshold <- 2, OpenFor <- 2, MaxTime <- 4, MaxFaults <- 1
HKTwo == INSTANCE DedicatedCollection WITH
    Kind <- "hk-valuation", Pipelines <- {1}, PerPipeline <- 2, Sources <- 1, Attempts <- 1,
    Parts <- {"history"}, Answers <- {Full, Bare},
    Normal <- 2, Retry <- 1, Threshold <- 2, OpenFor <- 2, MaxTime <- 0, MaxFaults <- 1
Shares == INSTANCE DedicatedCollection WITH
    Kind <- "a-valuation", Pipelines <- {1}, PerPipeline <- 2, Sources <- 1, Attempts <- 1,
    Parts <- {"history"}, Answers <- {Full, Negative},
    Normal <- 2, Retry <- 1, Threshold <- 2, OpenFor <- 2, MaxTime <- 3, MaxFaults <- 0
Industry == INSTANCE DedicatedCollection WITH
    Kind <- "industry", Pipelines <- {1}, PerPipeline <- 2, Sources <- 1, Attempts <- 1,
    Parts <- {"history"}, Answers <- {Full, Bare, Curve},
    Normal <- 2, Retry <- 1, Threshold <- 2, OpenFor <- 2, MaxTime <- 4, MaxFaults <- 0

News == INSTANCE HKNews WITH
    Pipelines <- {1}, PerPipeline <- 1, Queries <- {"code", "name"}, Window <- 2, ServeFor <- 1,
    Threshold <- 2, OpenFor <- 2, MaxTime <- 3, MaxFaults <- 1
NewsTwo == INSTANCE HKNews WITH
    Pipelines <- {1}, PerPipeline <- 2, Queries <- {"code", "name"}, Window <- 2, ServeFor <- 1,
    Threshold <- 1, OpenFor <- 2, MaxTime <- 0, MaxFaults <- 1

Rag == INSTANCE KnowledgeBase WITH
    Commands <- {"c1", "c2"}, Names <- <<"research_reports">>, Files <- <<"a">>,
    Texts <- {[sections |-> 2, paragraphs |-> 3]},
    Symbols <- {"00700", "600700"}, Inside <- {<<"00700", "600700">>}, Dates <- 0 .. 2, TopK <- 1
Shelves == INSTANCE KnowledgeBase WITH
    Commands <- {"c1", "c2"}, Names <- <<"academic", "policy_macro">>, Files <- <<"a", "b">>,
    Texts <- {[sections |-> 1, paragraphs |-> 2]}, Symbols <- {"600700"}, Inside <- {}, Dates <- {0}, TopK <- 1

\* An edition of the site: the industries in order, the names of level 2, and
\* which stocks the industries i1 and i2 list.
Site(codes, names, one, two) ==
    [codes |-> codes, names |-> names,
     parent |-> [i \in {"i1", "i2"} |-> IF i = "i1" THEN "A" ELSE "B"],
     lists |-> [i \in {"i1", "i2"} |-> [s \in (IF i = "i1" THEN one ELSE two) |-> IF i = "i1" THEN "B" ELSE "new"]]]
Unknown == [level2 |-> None, status |-> "missing"]
Rebuild == INSTANCE IndustryMapping WITH
    Builders <- {1, 2}, Writers <- {"w1"}, Kinds <- {"publish"},
    Worlds <- << Site(<<"i1", "i2">>, {"A", "B"}, {"s1"}, {"s2"}),
                 [Site(<<"i2", "i1">>, {"A", "B"}, {"s1", "s2"}, {}) EXCEPT !.parent["i2"] = "A"],
                 Site(<<"i1">>, {"A"}, {"s1"}, {}) >>,
    Tables <- {[s \in {"s1", "hk"} |-> Unknown]},
    Stocks <- {"s1", "s2"}, Others <- {"hk"}, Rate <- 50, MaxBuilders <- 1, now <- edition
Table == INSTANCE IndustryMapping WITH
    Builders <- {1}, Writers <- {"w1", "w2"}, Kinds <- {"publish", "update", "backfill", "migrate"},
    Worlds <- << Site(<<"i1">>, {"A", "B"}, {"s1"}, {}) >>,
    Tables <- {[s \in {"s1", "s2", "hk"} |-> Unknown],
               [s \in {"s1", "hk"} |->
                    IF s = "s1" THEN [level2 |-> "A", status |-> "verified"] ELSE Unknown]},
    Stocks <- {"s1", "s2"}, Others <- {"hk"}, Rate <- 50, MaxBuilders <- 1, now <- edition

Listing(code, stock, day) == [code |-> code, stock |-> stock, day |-> day]
Members == INSTANCE HKSnapshots WITH
    Refreshers <- {1, 2}, Readers <- {"r"}, Codes <- {"a", "b"},
    Rosters <- { {Listing("a", TRUE, 1)}, {Listing("a", TRUE, 1), Listing("b", TRUE, 1)},
                 {Listing("a", TRUE, 2), Listing("b", FALSE, 2)},
                 {Listing("a", TRUE, 1), Listing("b", TRUE, 2)}, {Listing("b", FALSE, 1)} },
    Pages <- { <<[page |-> 1, total |-> 2, codes |-> {"a"}], [page |-> 2, total |-> 2, codes |-> {"b"}]>>,
               <<[page |-> 1, total |-> 2, codes |-> {"a"}], [page |-> 2, total |-> 2, codes |-> {"a"}]>>,
               <<[page |-> 1, total |-> 2, codes |-> {"a"}], [page |-> 2, total |-> 1, codes |-> {"b"}]>>,
               <<[page |-> 1, total |-> 1, codes |-> {"a"}]>> },
    PageSize <- 1, Profiles <- [{"a", "b"} -> {"x", "y", None}],
    Lists <- UNION {[S -> {"P", "Q"}] : S \in SUBSET {"a", "b"}},
    Counts <- { [i \in {"P"} |-> 1], [i \in {"P"} |-> 2], [i \in {"P", "Q"} |-> 1] },
    MaxFaults <- 2

-----------------------------------------------------------------------------
DailyOnly == <<complete, attempt, saw>>
DedicatedOnly == <<last, old, wasOpen, known, failedRow, failedAt>>
NewsOnly == <<previous, waiting, errors, items, shown>>
CacheOnly == <<now, latest, fails, openUntil, pc, refresh, DailyOnly, DedicatedOnly, NewsOnly, tries, got>>
RagOnly == <<disk, chunks, made, gone, handle, installed, provider, cmd, found, cut>>
TableOnly == <<edition, table, candidate, checkpoint, build, writer, given>>
MembersOnly == <<connect, csv, json, run, reader, torn>>

NoDaily == complete = None /\ attempt = None /\ saw = None
NoDedicated == /\ last = None /\ old = None /\ wasOpen = None /\ known = None
               /\ failedRow = None /\ failedAt = None
NoNews == /\ previous = None /\ waiting = None /\ errors = None /\ items = None /\ shown = None
NoCache == /\ now = None /\ latest = None /\ fails = None /\ openUntil = None /\ pc = None
           /\ refresh = None /\ NoDaily /\ NoDedicated /\ NoNews /\ tries = None /\ got = None
NoRag == /\ disk = None /\ chunks = None /\ made = None /\ gone = None /\ handle = None
         /\ installed = None /\ provider = None /\ cmd = None /\ found = None /\ cut = None
NoTable == /\ edition = None /\ table = None /\ candidate = None /\ checkpoint = None
           /\ build = None /\ writer = None /\ given = None
NoMembers == /\ connect = None /\ csv = None /\ json = None /\ run = None /\ reader = None
             /\ torn = None
NoFiles == NoRag /\ NoTable /\ NoMembers /\ locked = None

MCInit ==
        \/ /\ \/ part = "daily" /\ Init
              \/ part = "quarterly" /\ Quarterly!Init
           /\ NoDedicated /\ NoNews /\ NoFiles
        \/ /\ \/ part = "hk" /\ HK!Init
              \/ part = "hk2" /\ HKTwo!Init
              \/ part = "shares" /\ Shares!Init
              \/ part = "industry" /\ Industry!Init
           /\ NoDaily /\ NoNews /\ NoFiles
        \/ /\ \/ part = "news" /\ News!Init
              \/ part = "news2" /\ NewsTwo!Init
           /\ NoDaily /\ NoDedicated /\ tries = None /\ NoFiles
        \/ /\ \/ part = "rag" /\ Rag!Init
              \/ part = "shelves" /\ Shelves!Init
           /\ NoCache /\ faults = None /\ NoTable /\ NoMembers /\ locked = None
        \/ /\ \/ part = "rebuild" /\ Rebuild!Init
              \/ part = "table" /\ Table!Init
           /\ NoCache /\ faults = None /\ NoRag /\ NoMembers
        \/ part = "members" /\ Members!Init /\ NoCache /\ NoRag /\ NoTable

CacheNext == \/ /\ \/ part = "daily" /\ Next
                   \/ part = "quarterly" /\ Quarterly!Next
                /\ UNCHANGED <<DedicatedOnly, NewsOnly>>
             \/ /\ \/ part = "hk" /\ HK!Next
                   \/ part = "hk2" /\ HKTwo!Next
                   \/ part = "shares" /\ Shares!Next
                   \/ part = "industry" /\ Industry!Next
                /\ UNCHANGED <<DailyOnly, NewsOnly>>
             \/ /\ \/ part = "news" /\ News!Next
                   \/ part = "news2" /\ NewsTwo!Next
                /\ UNCHANGED <<DailyOnly, DedicatedOnly, tries>>

MCNext == /\ UNCHANGED part
        /\ \/ CacheNext /\ UNCHANGED <<RagOnly, TableOnly, MembersOnly, locked>>
           \/ /\ \/ part = "rag" /\ Rag!Next
                 \/ part = "shelves" /\ Shelves!Next
              /\ UNCHANGED <<CacheOnly, faults, TableOnly, MembersOnly, locked>>
           \/ /\ \/ part = "rebuild" /\ Rebuild!Next
                 \/ part = "table" /\ Table!Next
              /\ UNCHANGED <<CacheOnly, faults, RagOnly, MembersOnly>>
           \/ part = "members" /\ Members!Next /\ UNCHANGED <<CacheOnly, RagOnly, TableOnly>>

all == <<part, CacheOnly, faults, RagOnly, TableOnly, MembersOnly, locked>>

MCSpec == MCInit /\ [][MCNext]_all

-----------------------------------------------------------------------------
\* What the caches, the breakers and the threads may hold; "last_complete" is a
\* complete snapshot, never a degraded one; what the cache held when a call began is
\* not lost on the way; the news shown are those of the days before they are shown;
\* a document is in a collection of the knowledge base as a whole and once; the
\* candidate and the checkpoint of a rebuild belong together wherever it was
\* interrupted, and what is published has every stock they were given; the two
\* files of Hong Kong industries are one edition whenever nobody writes them.
CollectionSafe ==
    CASE part = "daily" -> CollectionTypeOK
      [] part = "quarterly" -> Quarterly!CollectionTypeOK
      [] part = "hk" -> HK!DedicatedTypeOK /\ HK!LastIsComplete /\ HK!EvidenceShown
      [] part = "hk2" -> HKTwo!LastIsComplete
      [] part = "industry" -> Industry!DedicatedTypeOK
      [] part = "news" -> News!NewsTypeOK /\ News!ShownIsRecent
      [] part = "rag" -> Rag!KBTypeOK /\ Rag!KBSafe
      [] part = "shelves" -> Shelves!KBTypeOK /\ Shelves!KBSafe
      [] part = "rebuild" -> Rebuild!IMTypeOK /\ Rebuild!IMSafe /\ Rebuild!PublishedWhole
      [] part = "table" -> Table!IMTypeOK /\ Table!IMSafe /\ Table!PublishedWhole
      [] part = "members" -> Members!HKTypeOK /\ Members!HKSafe
      [] OTHER -> TRUE

\* Action property: once there is a complete snapshot, of a valuation or of the news,
\* only complete ones replace it, and a value read off the end of a curve replaces
\* no newer one; older rows of prices or of financials replace newer ones as current
\* facts only where they are not applicable, and the history of prices keeps its day;
\* after Threshold failures in a row the sources rest, and a breaker closes early only
\* by a call that asked them; a chunk of a document goes only when a clean that runs
\* chose it; a row that says an industry is changed by an update of its stock or a
\* publication only.
CollectionStepsKept ==
    [][/\ part = "daily" => FactsMoveOn /\ HistoryMovesOn
       /\ part = "quarterly" => Quarterly!FactsMoveOn
       /\ part = "hk2" => HKTwo!CompleteIsKept
       /\ part = "hk" => HK!NewerIsKept
       /\ part = "shares" => Shares!FailingAreRested
       /\ part = "industry" => Industry!LiveCloses
       /\ part = "news2" => NewsTwo!CompleteStays
       /\ part = "rag" => Rag!GoneWasMeant
       /\ part = "shelves" => Shelves!GoneWasMeant
       /\ part = "rebuild" => Rebuild!VerifiedStays
       /\ part = "table" => Table!VerifiedStays]_all
=============================================================================
