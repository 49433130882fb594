---------------------------- MODULE RadarBacktest ----------------------------
(***************************************************************************)
(* The monthly rotation the radar is tested with                           *)
(* (src/src/radar/backtest.py), day by day, in two worlds at once: they    *)
(* have the same rows, with the same prices up to the day `split`.         *)
(*                                                                         *)
(* A price is one number for the open and the close of a day; fees and     *)
(* slippage are part of it, so that money is neither made nor lost by a    *)
(* trade.  A row may be absent, or there without its prices.  The score of *)
(* an instrument stands for any score of its rows up to the signal day:    *)
(* its last price; all that share the first place are chosen.              *)
(***************************************************************************)
EXTENDS Integers, FiniteSetsExt, Functions

CONSTANTS
    Symbols,
    Category,     \* Category[s]
    Month,        \* Month[d]: the month of a day
    Histories,    \* the prices there may be: pairs of [Symbols -> [Days -> Prices]]
    Benchmarks,   \* the days each benchmark has, a set of choices
    InitialCash,
    None

Days == DOMAIN Month
Absent == 0
Blank == 9
Worlds == {1, 2}
Has(price) == price \notin {Absent, Blank}

VARIABLES
    world,      \* world[w]: the prices
    split,      \* the last day the worlds have in common
    bench,      \* the days of the benchmarks
    dates,      \* the trading days of the test, None before they are known
    day,        \* the last one that is done, 0 before
    book,       \* book[w]: cash, shares, pending choice, trades
    ended       \* None, "result" or "error"

vars == <<world, split, bench, dates, day, book, ended>>

Opening == [cash |-> InitialCash, shares |-> [s \in Symbols |-> 0], plan |-> None,
            bought |-> {}, kept |-> {}, equity |-> InitialCash]

Init ==
    /\ \E h \in Histories : \E k \in Days :
          /\ split = k
          /\ world = [w \in Worlds |-> [s \in Symbols |-> [d \in Days |-> h[IF d <= k THEN 1 ELSE w][s][d]]]]
    /\ bench \in Benchmarks
    /\ dates = None /\ day = 0 /\ ended = None
    /\ book = [w \in Worlds |-> Opening]

-----------------------------------------------------------------------------
\* _trading_dates: the days any instrument has a row of, the same in both worlds.
TradingDates == {d \in Days : \E s \in Symbols : world[1][s][d] # Absent}

\* _trim_to_common_benchmark_dates: values are carried on from day to day.
Alignable(values, d) == \E e \in values : e <= d /\ e \in TradingDates
Common == {d \in TradingDates : \A values \in bench : Alignable(values, d)}
Trimmed == IF bench = {} THEN TradingDates
           ELSE IF Common = {} THEN {} ELSE {d \in TradingDates : d >= Min(Common)}

Trim == /\ dates = None
        /\ dates' = Trimmed
        /\ ended' = IF TradingDates = {} THEN "result" ELSE IF Trimmed = {} THEN "error" ELSE None
        /\ UNCHANGED <<world, split, bench, day, book>>

-----------------------------------------------------------------------------
Rows(w, s, d) == {e \in Days : e <= d /\ world[w][s][e] # Absent}
LastClose(w, s, d) == LET rows == Rows(w, s, d)
                      IN IF rows = {} \/ ~Has(world[w][s][Max(rows)]) THEN 0 ELSE world[w][s][Max(rows)]

\* _choices_at: what the scores see ends with the signal day.
Window(w, s, d) == Rows(w, s, d)
Score(w, s, d) == LET rows == {e \in Window(w, s, d) : Has(world[w][s][e])}
                  IN IF rows = {} THEN 0 ELSE world[w][s][Max(rows)]
Best(w, s, d) == \A t \in Symbols : Category[t] = Category[s] => Score(w, t, d) <= Score(w, s, d)
ChoicesAt(w, d) == {s \in Symbols : Score(w, s, d) > 0 /\ Best(w, s, d)}

\* The days after d; the last day of a month has none of the month after it.
After(d) == {e \in dates : e > d}
MonthEnd(d) == After(d) = {} \/ Month[Min(After(d))] # Month[d]

-----------------------------------------------------------------------------
Total(f) == FoldFunction(LAMBDA a, b : a + b, 0, f)

\* _rebalance: sell what has an open, then buy the choices that have one with equal parts
\* of the cash; what cannot be sold is kept, and does not take part.
Tradable(w, S, d) == {s \in S : Has(world[w][s][d])}

Sold(w, b, d) ==
    LET out == Tradable(w, {s \in Symbols : b.shares[s] > 0}, d)
    IN [b EXCEPT !.cash = @ + Total([s \in out |-> b.shares[s] * world[w][s][d]]),
                 !.kept = {s \in Symbols : b.shares[s] > 0} \ out,
                 !.shares = [s \in Symbols |-> IF s \in out THEN 0 ELSE @[s]]]

WholeCash(cash, n) == cash
Budget(cash, n) == cash \div n

Bought(w, b, choices, d) ==
    LET in == Tradable(w, choices, d)
        part == Budget(b.cash, Cardinality(in))
    IN IF in = {} THEN [b EXCEPT !.bought = {}]
       ELSE [b EXCEPT !.shares = [s \in Symbols |-> IF s \in in THEN part \div world[w][s][d] ELSE @[s]],
                      !.cash = @ - part * Cardinality(in), !.bought = in]

Rebalanced(w, b, d) == Bought(w, Sold(w, b, d), b.plan, d)

Equity(w, b, d) == b.cash + Total([s \in Symbols |-> b.shares[s] * LastClose(w, s, d)])

\* One trading day: an order of the day before is executed at the open, the book is
\* valued at the close, and on the last day of a month the next order is written.
NextDay ==
    /\ dates # None /\ ended = None /\ After(day) # {}
    /\ LET d == Min(After(day))
           Done(w) == IF book[w].plan = None THEN book[w] ELSE Rebalanced(w, book[w], d)
       IN /\ book' = [w \in Worlds |->
                         [Done(w) EXCEPT !.plan = IF MonthEnd(d) /\ After(d) # {} THEN ChoicesAt(w, d) ELSE None,
                                         !.equity = Equity(w, Done(w), d)]]
          /\ day' = d
    /\ UNCHANGED <<world, split, bench, dates, ended>>

\* _normalized_benchmark: a benchmark must have a value on the first of the days that are
\* left; a value carried on to it by the trimming is not seen here, and the run fails.
Normal == \A values \in bench : Min(dates) \in values

End == /\ dates # None /\ ended = None /\ After(day) = {}
       /\ ended' = IF Normal THEN "result" ELSE "error"
       /\ UNCHANGED <<world, split, bench, dates, day, book>>

Next == Trim \/ NextDay \/ End

Spec == Init /\ [][Next]_vars

-----------------------------------------------------------------------------
BacktestTypeOK ==
    /\ day \in {0} \union Days /\ ended \in {None, "result", "error"}
    /\ \A w \in Worlds : /\ book[w].cash \in Nat /\ \A s \in Symbols : book[w].shares[s] \in Nat
                         /\ book[w].plan # None => book[w].plan \subseteq Symbols

\* No look into the future: while the worlds are the same, so are the books, orders and
\* values included.
NoLookAhead == day <= split => book[1] = book[2]

\* An execution neither makes nor loses money at its prices, leaves alone what cannot be
\* traded that day, and buys only what was chosen the day before.
ValueAt(w, b, d) == b.cash + Total([s \in Tradable(w, Symbols, d) |-> b.shares[s] * world[w][s][d]])
MoneyIsKept ==
    day' # day => \A w \in Worlds :
        LET d == day'
        IN /\ ValueAt(w, book[w], d) = ValueAt(w, book'[w], d)
           /\ \A s \in Symbols \ Tradable(w, Symbols, d) : book'[w].shares[s] = book[w].shares[s]
           /\ \A s \in Symbols : book'[w].shares[s] > book[w].shares[s]
                  => IF book[w].plan = None THEN FALSE ELSE s \in book[w].plan
=============================================================================
