----------------------------- MODULE StockBacktest -----------------------------
(***************************************************************************)
(* The backtest of one stock: the strategy and the costs, the prices and   *)
(* what they must satisfy, the order book day by day beside the simulation *)
(* of its orders, the benchmark, the directory of a run with its five      *)
(* files, and a reader of the report library.                              *)
(***************************************************************************)
EXTENDS Integers, Sequences, FiniteSets

CONSTANTS
    Runs,           \* runs of `stock-robot backtest`, no two of one second
    Shelves,        \* what the directory of strategies may hold: ids in file order, None for a bad file
    Histories,      \* what the site may give: sequences of [date, open, close]
    Benchmarks,     \* and of the benchmark: sets of dates
    Start, Finish,  \* the dates of the request
    WarmUp, MaxGap, Tolerance,
    Positions,      \* target_positions in tenths, by signal
    Cash,           \* initial_cash
    Slip, Rate, Stamp, MinFee, \* the cost profile, rates in hundredths
    MaxTries,       \* attempts to publish a directory
    Rough,          \* a strategy, a cost profile or a benchmark may be bad, a write may fail
    None

VARIABLES
    job,            \* [run |-> where it is]
    tmp, final,     \* the directory of a run and its .tmp: the files in them, None when absent
    reader          \* a request for a report: [pc, run, place, missing]

sbvars == <<job, tmp, final, reader>>

Files == <<"manifest.json", "summary.json", "equity_curve.csv", "trades.csv", "report.md">>
FileSet == {Files[i] : i \in DOMAIN Files}

-----------------------------------------------------------------------------
\* validate_price_history: in order, each day once, no gap.
Continuous(days) == \A i \in 2 .. Len(days) : days[i].date - days[i - 1].date \in 1 .. MaxGap
Covered(days) == Cardinality({i \in DOMAIN days : days[i].date < Start}) >= WarmUp

\* The benchmark has the ends of the interval, but for a few days, and no gap.
SoundBenchmark(dates, from, to) ==
    LET inside == {d \in dates : d \in from .. to}
    IN /\ \E d \in inside : d - from <= Tolerance /\ \E d2 \in inside : to - d2 <= Tolerance
       /\ \A d \in inside : (\A e \in inside : e <= d) \/ \E e \in inside : e - d \in 1 .. MaxGap
\* Each day has a value of that day or of one before it.
Aligned(days, dates) == \A i \in DOMAIN days : \E d \in dates : d <= days[i].date /\ d >= days[1].date

\* The signal of a day is that of the prices up to the day; what cannot be scored defends.
Score(prefix) == IF Len(prefix) < 2 THEN None
                 ELSE LET n == Len(prefix) IN IF prefix[n].close > prefix[n - 1].close THEN 8
                                              ELSE IF prefix[n].close = prefix[n - 1].close THEN 5 ELSE 2
Signal(score) == IF score = None THEN "defend" ELSE IF score >= 7 THEN "attack" ELSE IF score >= 4 THEN "watch" ELSE "defend"
TargetOn(days, i) == Positions[Signal(Score(SubSeq(days, 1, i)))]

Larger(m, n) == IF m > n THEN m ELSE n
Fees(notional, direction) ==
    Larger((notional * Rate) \div 100, MinFee) + (IF direction = "sell" THEN (notional * Stamp) \div 100 ELSE 0)

\* The order of a day: what yesterday's signal asks for, at today's open.
Order(days, i, b) ==
    LET target == TargetOn(days, i - 1)
        open == days[i].open
        direction == IF target > b.target THEN "buy" ELSE "sell"
        price == IF direction = "buy" THEN (open * (100 + Slip)) \div 100 ELSE (open * (100 - Slip)) \div 100
        wanted == (target * (b.cash + b.shares * open)) \div (10 * price)
        qty == IF direction = "buy" THEN wanted - b.shares ELSE b.shares - wanted
    IN [target |-> target, direction |-> direction, price |-> price, wanted |-> wanted, qty |-> qty,
        fees |-> Fees(qty * price, direction)]

\* The simulation fills an order as far as its cash goes.
Fill(b, size, price, fees) ==
    IF size > 0 /\ size * price + fees > b.vcash
    THEN LET part == IF b.vcash <= fees THEN 0 ELSE (b.vcash - fees) \div price
         IN [b EXCEPT !.vshares = @ + part, !.vcash = @ - part * price - (IF part = 0 THEN 0 ELSE fees)]
    ELSE [b EXCEPT !.vshares = @ + size, !.vcash = @ - size * price - fees]

\* One day of the order book.
Traded(days, i, b) ==
    LET o == Order(days, i, b)
    IN IF o.target = b.target \/ o.qty = 0 THEN b
       ELSE Fill([b EXCEPT !.cash = IF o.direction = "buy" THEN @ - o.qty * o.price - o.fees ELSE @ + o.qty * o.price - o.fees,
                           !.shares = o.wanted, !.target = o.target,
                           !.trades = Append(@, [signal |-> days[i - 1].date, date |-> days[i].date, qty |-> o.qty, direction |-> o.direction])],
                 IF o.direction = "buy" THEN o.qty ELSE -o.qty, o.price, o.fees)

-----------------------------------------------------------------------------
NewBook == [cash |-> Cash, shares |-> 0, target |-> 0, trades |-> <<>>, vcash |-> Cash, vshares |-> 0]
NewJob == [pc |-> "new", days |-> <<>>, day |-> 0, book |-> NewBook, count |-> 0, next |-> 1, tries |-> 0]
NoReader == [pc |-> "idle", run |-> None, place |-> None, missing |-> {}]

Init == /\ job = [r \in Runs |-> NewJob]
        /\ tmp = [r \in Runs |-> None] /\ final = [r \in Runs |-> None]
        /\ reader = NoReader

At(r, pc) == job[r].pc = pc
Go(r, j) == job' = [job EXCEPT ![r] = j]
Fails(r) == Go(r, [job[r] EXCEPT !.pc = "failed"])
Dirs == <<tmp, final>>

\* One bad file, or one id twice, and no strategy of the directory can be used.
Loads(shelf) == \A i \in DOMAIN shelf : shelf[i] # None /\ \A k \in 1 .. i - 1 : shelf[k] # shelf[i]
Finds(shelf) == Loads(shelf) /\ \E i \in DOMAIN shelf : shelf[i] = "asked"

\* The command looks for the benchmark and the strategy before it starts.
Ask(r) == /\ At(r, "new")
          /\ \E shelf \in Shelves : Go(r, [job[r] EXCEPT !.pc = IF Finds(shelf) THEN "resolve" ELSE "failed"])
          /\ UNCHANGED <<Dirs, reader>>
\* The run reads them again, and the costs, of which none may be missing.
Resolve(r) == /\ At(r, "resolve")
              /\ \E shelf \in Shelves : \/ Finds(shelf) /\ Go(r, [job[r] EXCEPT !.pc = "fetch"])
                                        \/ (~Finds(shelf) \/ Rough) /\ Fails(r)
              /\ UNCHANGED <<Dirs, reader>>

\* The prices from before the start, for the signals, to the end.
FetchPrices(r) ==
    /\ At(r, "fetch")
    /\ \E days \in Histories \union {<<>>} :
          IF days = <<>> \/ ~Continuous(days) \/ ~Covered(days) THEN Fails(r)
          ELSE Go(r, [job[r] EXCEPT !.pc = "trade", !.days = days,
                                    !.day = CHOOSE i \in 1 .. Len(days) + 1 : /\ i <= Len(days) => days[i].date >= Start
                                                                              /\ \A k \in 1 .. i - 1 : days[k].date < Start])
    /\ UNCHANGED <<Dirs, reader>>

\* The days before the start have signals and no orders.
Trade(r) ==
    /\ At(r, "trade")
    /\ LET j == job[r] IN
       IF j.day > Len(j.days) THEN Go(r, [j EXCEPT !.pc = "benchmark"])
       ELSE Go(r, [j EXCEPT !.day = @ + 1, !.book = IF j.day = 1 THEN @ ELSE Traded(j.days, j.day, @)])
    /\ UNCHANGED <<Dirs, reader>>

FetchBenchmark(r) ==
    /\ At(r, "benchmark")
    /\ \E dates \in Benchmarks :
          LET days == job[r].days
          IN IF SoundBenchmark(dates, days[1].date, days[Len(days)].date) /\ Aligned(days, dates)
             THEN Go(r, [job[r] EXCEPT !.pc = "metrics"]) ELSE Fails(r)
    /\ UNCHANGED <<Dirs, reader>>

\* Only the days of the request count.
Metrics(r) ==
    /\ At(r, "metrics")
    /\ LET j == job[r] IN
       IF \A i \in DOMAIN j.days : j.days[i].date \notin Start .. Finish THEN Fails(r)
       ELSE Go(r, [j EXCEPT !.pc = "write", !.count = Cardinality({i \in DOMAIN j.book.trades : j.book.trades[i].date \in Start .. Finish})])
    /\ tmp' = IF job'[r].pc = "write" THEN [tmp EXCEPT ![r] = {}] ELSE tmp
    /\ UNCHANGED <<final, reader>>

\* The five files in their order, then the name of the directory; whatever fails takes
\* the directory away.
Discard(r) == Fails(r) /\ tmp' = [tmp EXCEPT ![r] = None]
Write(r) ==
    /\ At(r, "write") /\ job[r].next <= Len(Files)
    /\ \/ Go(r, [job[r] EXCEPT !.next = @ + 1]) /\ tmp' = [tmp EXCEPT ![r] = @ \union {Files[job[r].next]}]
       \/ Rough /\ Discard(r)
    /\ UNCHANGED <<final, reader>>
Publish(r) ==
    /\ At(r, "write") /\ job[r].next > Len(Files)
    /\ final' = [final EXCEPT ![r] = tmp[r]] /\ tmp' = [tmp EXCEPT ![r] = None]
    /\ Go(r, [job[r] EXCEPT !.pc = "done"]) /\ UNCHANGED reader
\* A scanner holds a file: the name is tried again, and given up in the end.
Occupied(r) ==
    /\ At(r, "write") /\ job[r].next > Len(Files) /\ Rough
    /\ IF job[r].tries + 1 < MaxTries THEN Go(r, [job[r] EXCEPT !.tries = @ + 1]) /\ UNCHANGED tmp ELSE Discard(r)
    /\ UNCHANGED <<final, reader>>
\* What a process leaves behind that is killed.
Kill(r) == /\ job[r].pc \notin {"new", "done", "failed", "killed"} /\ Rough
           /\ Go(r, [job[r] EXCEPT !.pc = "killed"]) /\ UNCHANGED <<Dirs, reader>>

-----------------------------------------------------------------------------
In(r, place) == IF place = "final" THEN final[r] ELSE tmp[r]
Has(r, place, f) == In(r, place) # None /\ f \in In(r, place)
\* list_reports: every directory with a report and a summary, one of a run under way too.
Listed == {x \in Runs \X {"final", "tmp"} : Has(x[1], x[2], "report.md") /\ Has(x[1], x[2], "summary.json")}
Find == /\ reader.pc = "idle"
        /\ \E x \in Listed : reader' = [NoReader EXCEPT !.pc = "text", !.run = x[1], !.place = x[2]]
        /\ UNCHANGED <<job, Dirs>>
\* get_report_detail: the text and the summary must be there, the tables may be missing.
ReadText == /\ reader.pc = "text"
            /\ reader' = IF Has(reader.run, reader.place, "report.md") /\ Has(reader.run, reader.place, "summary.json") THEN [reader EXCEPT !.pc = "curve"]
                         ELSE NoReader
            /\ UNCHANGED <<job, Dirs>>
ReadTable(pc, f, then) ==
    /\ reader.pc = pc
    /\ reader' = [reader EXCEPT !.pc = then, !.missing = IF Has(reader.run, reader.place, f) THEN @ ELSE @ \union {f}]
    /\ UNCHANGED <<job, Dirs>>
ReadCurve == ReadTable("curve", "equity_curve.csv", "trades")
ReadTrades == ReadTable("trades", "trades.csv", "shown")
Close == reader.pc = "shown" /\ reader' = NoReader /\ UNCHANGED <<job, Dirs>>

Next == \/ \E r \in Runs : \/ Ask(r) \/ Resolve(r) \/ FetchPrices(r) \/ Trade(r) \/ FetchBenchmark(r) \/ Metrics(r)
                           \/ Write(r) \/ Publish(r) \/ Occupied(r) \/ Kill(r)
        \/ Find \/ ReadText \/ ReadCurve \/ ReadTrades \/ Close

Spec == Init /\ [][Next]_sbvars

-----------------------------------------------------------------------------
SBTypeOK ==
    /\ \A r \in Runs : job[r].pc \in {"new", "resolve", "fetch", "trade", "benchmark", "metrics", "write", "done", "failed", "killed"}
                       /\ tmp[r] \in {None} \union SUBSET FileSet /\ final[r] \in {None} \union SUBSET FileSet
    /\ reader.pc \in {"idle", "text", "curve", "trades", "shown"} /\ reader.missing \subseteq FileSet

\* The simulation, from which the curve is drawn, holds what the order book holds, and
\* neither ever owes cash.
LedgerAgrees == \A r \in Runs : LET held == job[r].book IN held.vshares = held.shares /\ held.vcash = held.cash /\ held.cash >= 0 /\ held.shares >= 0

\* Nothing of the future: two runs whose prices agree up to a day, and at the open of the
\* next, have the same trades up to that next day.
Until(r, d) == LET trades == job[r].book.trades IN {trades[k] : k \in {k \in DOMAIN trades : trades[k].date <= d}}
NoLookAhead ==
    \A r, s \in Runs : \A i \in DOMAIN job[r].days :
        /\ i > 1 /\ i \in DOMAIN job[s].days /\ i < job[r].day /\ i < job[s].day
        /\ SubSeq(job[r].days, 1, i - 1) = SubSeq(job[s].days, 1, i - 1)
        /\ job[r].days[i].date = job[s].days[i].date /\ job[r].days[i].open = job[s].days[i].open
        => Until(r, job[r].days[i].date) = Until(s, job[r].days[i].date)

\* Every trade of a finished run is in its interval and counted, each on a day of its
\* own, the day after its signal, with the days its scores need before it.
TradesCounted ==
    \A r \in Runs : At(r, "done") =>
        LET j == job[r] IN
        /\ j.count = Len(j.book.trades)
        /\ \A k \in DOMAIN j.book.trades : \E i \in 2 .. Len(j.days) :
              j.book.trades[k].date = j.days[i].date /\ j.book.trades[k].signal = j.days[i - 1].date /\ i > WarmUp

\* A directory with the name of a finished run is whole and so is what is read of it;
\* a run that failed leaves nothing.
PublishedWhole ==
    /\ \A r \in Runs : final[r] \in {None, FileSet} /\ (At(r, "failed") => tmp[r] = None /\ final[r] = None)
    /\ reader.place = "final" => reader.missing = {}
SBSafe == LedgerAgrees /\ NoLookAhead /\ TradesCounted /\ PublishedWhole

\* What is published stays as it is.
PublishedStays == \A r \in Runs : final[r] # None => final'[r] = final[r]
=============================================================================
