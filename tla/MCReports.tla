------------------------------ MODULE MCReports ------------------------------
(***************************************************************************)
(* Small instances of the modules a report goes through: the stages that   *)
(* make it, the archive that keeps it, the runs that push it.  A behaviour *)
(* belongs to one part; the variables the part does not have are None.     *)
(*   report   collected data of every class a decision tells apart         *)
(*   archive  one report of a stock, one of an index, one sweeping loop    *)
(*   push     one subscription, the endpoint and the command line          *)
(*   pool     two analyses of one Hong Kong stock with two others, pages   *)
(*            of two rows, one change of the files or the site             *)
(*   beside   one analysis after another of a stock with two peers, three  *)
(*            batches, two in flight, the sites change to the later ones   *)
(*   back     two backtests of a stock over at most six days, five         *)
(*            histories, four benchmarks, one reader                       *)
(*   gold     two runs of a gold report, three visits of one source, three  *)
(*            ticks, one crash, lost write or lock that cannot be had      *)
(***************************************************************************)
EXTENDS StockReport, PushRuns, ReportArchive

CONSTANTS a, b, s1

VARIABLES
    part,
    roster, site, cache, fresh, call, moves,
    market, classes, quotes, figures, study, shifts,
    job, tmp, final, page,
    hour, filed, visit, told, seen

Sectors(x, y, z) == [c \in {"t", "a", "b"} |-> CASE c = "t" -> x [] c = "a" -> y [] OTHER -> z]
Shown(c, s, d) == [code |-> c, sector |-> s, day |-> d]
SitePools == {<<Shown("t", "P", 1), Shown("a", "P", 1), Shown("b", "P", 1)>>,
              <<Shown("b", "P", 1), Shown("t", "P", 2), Shown("a", "P", 2)>>,
              <<Shown("t", "P", 1), Shown("t", "P", 2), Shown("a", "P", 1), Shown("a", "P", 0), Shown("b", "Q", 2)>>}
Pooled == INSTANCE HKPeers WITH
    Callers <- {"p", "q"}, Target <- "t", Others <- {"a", "b"}, PageSize <- 2, MaxMoves <- 1, Sites <- SitePools,
    Rosters <- {Sectors("P", "P", "P"), Sectors("Q", "P", "Q"), Sectors("P", "P", None)}

Quote(d, v) == [day |-> d, value |-> v]
Figure(s, e, k, v) == [symbol |-> s, end |-> e, kind |-> k, value |-> v, ok |-> TRUE]
Sites1 == [industry |-> [s \in {"a", "b", "t"} |-> "I"], members |-> [i \in {"I"} |-> {"a", "b", "t"}],
           quotes |-> [s \in {"a", "b", "t"} |-> IF s = "b" THEN Quote(1, 3) ELSE Quote(1, 2)],
           rows |-> <<Figure("t", 2, "annual", 1), Figure("a", 2, "annual", 2), Figure("b", 2, "annual", 2),
                      Figure("t", 3, "quarter", 1), Figure("a", 3, "quarter", 3), Figure("b", 3, "quarter", 2)>>, known |-> 3]
\* Later: b has left the industry and has a quote of the future, two versions of one row
\* of t disagree.
Sites2 == [Sites1 EXCEPT !.members = [i \in {"I"} |-> {"a", "t"}],
               !.quotes = [s \in {"a", "b", "t"} |-> CASE s = "a" -> Quote(2, 2) [] s = "b" -> Quote(9, 5) [] OTHER -> Quote(2, 1)],
               !.rows = <<Figure("t", 3, "quarter", 1), Figure("t", 3, "quarter", 2), Figure("a", 3, "quarter", 3), Figure("b", 3, "quarter", 2)>>]
Beside == INSTANCE PeerComparison WITH
    Analyses <- {"p"}, Symbols <- {"a", "b", "t"}, Targets <- {"t"}, Order <- <<"a", "b", "t">>, Markets <- {Sites1, Sites2},
    Today <- 3, Batch <- 1, InFlight <- 2, Enough <- 2, MaxShifts <- 1

Day(d, o, c) == [date |-> d, open |-> o, close |-> c]
\* A holding that grows beyond its target, one that falls below it, a month that begins
\* late, a gap, too few days before the start.
HistorySet == {<<Day(1, 100, 100), Day(2, 100, 100), Day(3, 100, 200), Day(4, 400, 400), Day(5, 400, 400), Day(6, 300, 200)>>,
               <<Day(1, 100, 100), Day(2, 100, 100), Day(3, 100, 200), Day(4, 400, 100), Day(5, 100, 100), Day(6, 200, 300)>>,
               <<Day(1, 100, 100), Day(2, 100, 200), Day(3, 200, 100), Day(4, 100, 200), Day(6, 100, 100)>>,
               <<Day(1, 100, 100), Day(2, 100, 100), Day(6, 200, 100)>>,
               <<Day(2, 100, 100), Day(3, 100, 200), Day(4, 200, 200)>>}
Backtests == INSTANCE StockBacktest WITH
    Runs <- {"p", "q"}, Shelves <- {<<"other", "asked">>, <<"asked", None>>, <<"asked", "asked">>}, Histories <- HistorySet, Benchmarks <- {1 .. 6, 2 .. 6, {1, 3, 5}, {1, 2, 6}}, Start <- 3, Finish <- 6,
    WarmUp <- 2, MaxGap <- 3, Tolerance <- 1, Positions <- [attack |-> 7, watch |-> 4, defend |-> 0],
    Cash <- 10000, Slip <- 1, Rate <- 1, Stamp <- 1, MinFee <- 5, MaxTries <- 2, Rough <- TRUE, reader <- page

\* A series too short, one that ends before another, one that misses a day, a whole one.
GoldPart == INSTANCE GoldSources WITH
    Callers <- {"p", "q"}, Answers <- {{1, 2}, {2}, {1, 2, 3}, {2, 4}}, FirstDay <- 2, LastDay <- 4, CacheFor <- 2, Retry <- 1,
    MaxAge <- 1, Span <- 1, Enough <- 2, Window <- 2, Lag <- 0, MaxVisits <- 3, MaxMishaps <- 1

-----------------------------------------------------------------------------
Asked == [market : {"a", "hk"}, extra : {TRUE}, llm : {TRUE}, backend : {TRUE}, dimension : {None}]
         \union [market : {"a"}, extra : {TRUE}, llm : {TRUE}, backend : {FALSE}, dimension : {None}]
         \union [market : {"hk"}, extra : {TRUE}, llm : {FALSE}, backend : {TRUE}, dimension : {None}]
         \union [market : {"a"}, extra : {FALSE}, llm : {TRUE}, backend : {TRUE}, dimension : {None}]
AskedOne == [market : {"a"}, extra : {TRUE}, llm : {TRUE}, backend : {TRUE}, dimension : Dimensions]
            \union [market : {"hk"}, extra : {TRUE}, llm : {TRUE}, backend : {TRUE}, dimension : {"financial"}]
RequestSet == Asked \union AskedOne

Books(periods, whole) ==
    [NoStatement EXCEPT !.periods = periods, !.profits = periods, !.revenues = periods,
        !.ttm = "pos", !.equity = TRUE, !.debt = TRUE, !.cash = whole, !.margins = periods,
        !.annual = IF whole THEN "latest" ELSE "older"]
StatementSet == {NoStatement, Books(4, TRUE), [Books(4, TRUE) EXCEPT !.dear = 100], Books(3, TRUE), [Books(4, FALSE) EXCEPT !.partial = TRUE],
                 [Books(5, TRUE) EXCEPT !.ttm = "neg", !.shares = TRUE]}

Multiples(pe, pb, days) == [pe |-> pe, pb |-> pb, ps |-> "none", peDays |-> days, pbDays |-> days]
ValuationSet == {NoValuation, Multiples("pos", "pos", 150), Multiples("neg", "pos", 150),
                 Multiples("pos", "none", 40), [Multiples("none", "neg", 0) EXCEPT !.ps = "pos"]}

Pool == [state |-> "known", listed |-> TRUE, peers |-> 9, heads |-> 5, ready |-> TRUE,
         complete |-> TRUE, usable |-> TRUE, premium |-> TRUE, periods |-> TRUE]
IndustrySet == {NoIndustry, Pool,
                [Pool EXCEPT !.ready = FALSE, !.complete = FALSE, !.periods = FALSE, !.peers = 3]}
NewsSet == {NoNews, [items |-> 4, failed |-> FALSE], [items |-> 4, failed |-> TRUE]}
MarkSet == {[d \in Core |-> IF d = "financial" THEN 9 ELSE 4]}

-----------------------------------------------------------------------------
PoolOnly == <<roster, site, cache, fresh, call, moves>>
BesideOnly == <<market, classes, quotes, figures, study, shifts>>
BackOnly == <<job, tmp, final, page>>
GoldOnly == <<hour, filed, visit, told, seen>>

AnyOf(S) == CHOOSE x \in S : TRUE
\* In the other parts one report waits to be made.
NoReport == /\ request = AnyOf(Requests) /\ rows = AnyOf(Prices) /\ fin = AnyOf(Statements)
            /\ val = AnyOf(Valuations) /\ ind = AnyOf(Industries) /\ news = AnyOf(Newses) /\ marks = AnyOf(Marks)
            /\ Init
NoPool == roster = None /\ site = None /\ cache = None /\ fresh = None /\ call = None /\ moves = None
NoBack == job = None /\ tmp = None /\ final = None /\ page = None
NoGold == hour = None /\ filed = None /\ visit = None /\ told = None /\ seen = None
NoBeside == market = None /\ classes = None /\ quotes = None /\ figures = None /\ study = None /\ shifts = None

ReportsInit ==
    /\ PushInit /\ ArchiveInit
    /\ \/ part = "report" /\ Init /\ NoPool /\ NoBeside /\ NoBack /\ NoGold
       \/ part \in {"archive", "push"} /\ NoReport /\ NoPool /\ NoBeside /\ NoBack /\ NoGold
       \/ part = "pool" /\ Pooled!Init /\ NoReport /\ NoBeside /\ NoBack /\ NoGold
       \/ part = "beside" /\ Beside!Init /\ market = Sites1 /\ NoReport /\ NoPool /\ NoBack /\ NoGold
       \/ part = "back" /\ Backtests!Init /\ NoReport /\ NoPool /\ NoBeside /\ NoGold
       \/ part = "gold" /\ GoldPart!GSInit /\ NoReport /\ NoPool /\ NoBeside /\ NoBack

\* Faults of the files and readers of the archive, faults and crashes of the push, in one
\* behaviour.
Mishaps == [archive |-> 2, push |-> 1]

ReportsNext ==
    /\ UNCHANGED part
    /\ \/ part = "report" /\ Next /\ UNCHANGED <<archvars, pvars, PoolOnly, BesideOnly, BackOnly, GoldOnly>>
       \/ part = "archive" /\ ArchiveNext /\ mishaps' + reads' <= Mishaps.archive
          /\ UNCHANGED <<vars, pvars, PoolOnly, BesideOnly, BackOnly, GoldOnly>>
       \/ part = "push" /\ PushNext /\ faults' + crashes' <= Mishaps.push
          /\ UNCHANGED <<vars, archvars, PoolOnly, BesideOnly, BackOnly, GoldOnly>>
       \/ part = "pool" /\ Pooled!Next /\ UNCHANGED <<vars, archvars, pvars, BesideOnly, BackOnly, GoldOnly>>
       \/ part = "beside" /\ Beside!Next /\ UNCHANGED <<vars, archvars, pvars, PoolOnly, BackOnly, GoldOnly>>
       \/ part = "back" /\ Backtests!Next /\ UNCHANGED <<vars, archvars, pvars, PoolOnly, BesideOnly, GoldOnly>>
       \/ part = "gold" /\ GoldPart!GSNext /\ UNCHANGED <<vars, archvars, pvars, PoolOnly, BesideOnly, BackOnly>>

all == <<vars, archvars, pvars, PoolOnly, BesideOnly, BackOnly, GoldOnly, part>>
ReportsSpec == ReportsInit /\ [][ReportsNext]_all

-----------------------------------------------------------------------------
\* Every variable keeps to its domain; a Hong Kong stock is compared with its own
\* qualified peers only, a Chinese one by values of one day and one period; a backtest
\* trades on what was known, its curve follows its order book, and a directory with its
\* name is whole; once gold data were filed complete, a complete series is known.
PartsSafe == CASE part = "report" -> ReportTypeOK
               [] part = "archive" -> ArchiveTypeOK
               [] part = "push" -> PushTypeOK
               [] part = "pool" -> Pooled!HPTypeOK /\ Pooled!HPSafe
               [] part = "beside" -> Beside!PCTypeOK /\ Beside!PCSafe
               [] part = "back" -> Backtests!SBTypeOK /\ Backtests!SBSafe
               [] part = "gold" -> GoldPart!GSTypeOK /\ GoldPart!GSSafe

\* Action property: a sweep leaves recent reports and unmatched pairs alone, a closed
\* push run is never opened again, peers that came late or in part replace nothing,
\* a published backtest stays as it is, and no answer of a gold source goes back behind
\* one that was filed.
ReportStepsKept == [][/\ part = "archive" => UnverifiedKept
                      /\ part = "push" => ClosedRunStays
                      /\ part = "pool" => Pooled!KeptInTime
                      /\ part = "beside" => Beside!FetchedInTime
                      /\ part = "back" => Backtests!PublishedStays
                      /\ part = "gold" => GoldPart!GSStep]_all
=============================================================================
