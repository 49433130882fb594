----------------------------- MODULE RadarScores -----------------------------
(***************************************************************************)
(* The scores of the radar, day by day (src/src/radar/scoring.py and the   *)
(* profile it is given, src/src/radar/models.py).                          *)
(*                                                                         *)
(* Closes are powers of two up to Scale, so that Scale times a ratio of    *)
(* two closes is a whole number; 0 is a close that is not a number.  The   *)
(* standard deviation is compared through n times the sum of squares less  *)
(* the squared sum, which orders instruments as it does.                   *)
(***************************************************************************)
EXTENDS Integers, Sequences, FiniteSetsExt

CONSTANTS
    Symbols,
    Category,     \* Category[s]
    Windows,      \* days: a record of short, medium, drawdown, volatility, liquidity
    Weights,      \* Weights[factor]
    MinimumCategorySize,
    Rows,         \* Rows[s]: the rows a day may bring, records of close and amount
    Scale,
    LastDay,
    None

Factors == {"trend", "drawdown", "volatility", "liquidity"}

\* RadarScoreProfile.validate_profile
ProfileAssumption == /\ DOMAIN Weights = Factors
                     /\ \A f \in Factors : Weights[f] >= 0
                     /\ \E f \in Factors : Weights[f] > 0
                     /\ \A w \in DOMAIN Windows : Windows[w] > 0
                     /\ MinimumCategorySize >= 2

VARIABLES
    history,    \* history[s]: the rows of an instrument, the latest last
    factors,    \* factors[s]: what the rows make of each factor, None while they do not reach
    result      \* result[s]: its percentiles, score, rank and grade; None before the refresh

vars == <<history, factors, result>>

-----------------------------------------------------------------------------
Sums(seq) == LET sum[i \in 0 .. Len(seq)] == IF i = 0 THEN 0 ELSE sum[i - 1] + seq[i] IN sum
Total(seq) == Sums(seq)[Len(seq)]
LastOf(seq, n) == SubSeq(seq, Len(seq) - n + 1, Len(seq))

RequiredDays == 1 + Max({Windows[w] : w \in DOMAIN Windows})
Numbers(rows) ==
    LET upTo[i \in 0 .. Len(rows)] == IF i = 0 THEN <<>> ELSE IF rows[i].close > 0 THEN Append(upTo[i - 1], rows[i].close) ELSE upTo[i - 1]
    IN upTo
Closes(rows) == Numbers(rows)[Len(rows)]
Amounts(rows) == [i \in DOMAIN rows |-> rows[i].amount]

\* Scale times a return over n days.
Return(closes, n) == (closes[Len(closes)] * Scale) \div closes[Len(closes) - n] - Scale

\* Scale times the deepest fall below the highest close so far, at most 0.
MaxDrawdown(window) ==
    Min({(window[i] * Scale) \div Max({window[j] : j \in 1 .. i}) - Scale : i \in DOMAIN window})

Volatility(closes, n) ==
    LET changes == LastOf([i \in 1 .. Len(closes) - 1 |-> Return(SubSeq(closes, 1, i + 1), 1)], n)
    IN n * Total([i \in DOMAIN changes |-> changes[i] * changes[i]]) - Total(changes) * Total(changes)

\* _factors: None while the rows do not reach; a larger factor is meant to be better.
FactorsOf(rows) ==
    LET closes == Closes(rows)
    IN IF Len(rows) < RequiredDays \/ Len(closes) < RequiredDays THEN None
       ELSE [trend |-> Return(closes, Windows.short) + Return(closes, Windows.medium),
             drawdown |-> -MaxDrawdown(LastOf(closes, Windows.drawdown)),
             volatility |-> -Volatility(closes, Windows.volatility),
             liquidity |-> Total(LastOf(Amounts(rows), Windows.liquidity))]

\* Series.rank(pct=True), twice and times the number of members: members with the same
\* value share the mean of their places.
RankBelow(values, s) ==
    2 * Cardinality({t \in DOMAIN values : values[t] < values[s]})
    + Cardinality({t \in DOMAIN values : values[t] = values[s]})
Rank2(values, s) == RankBelow(values, s) + 1

\* _grade: 66.67 and 33.33 of 100 points, in hundredths of a point.
Grade(score, full) == IF score * 10000 >= 6667 * full THEN "preferred"
                      ELSE IF score * 10000 >= 3333 * full THEN "watched" ELSE "cautious"

Unscored == [percentile |-> None, score |-> None, rank |-> None, grade |-> "unavailable"]

\* score_etfs: members of one category that have every factor, when they are enough.
Eligible(c) == {s \in Symbols : Category[s] = c /\ factors[s] # None}
Percentile(s) == [f \in Factors |-> Rank2([t \in Eligible(Category[s]) |-> factors[t][f]], s)]
Weighted(p) == Weights["trend"] * p["trend"] + Weights["drawdown"] * p["drawdown"]
               + Weights["volatility"] * p["volatility"] + Weights["liquidity"] * p["liquidity"]
Score(s) == Weighted(Percentile(s))
FullScore(members) == 2 * Cardinality(members) * Weighted([f \in Factors |-> 1])

ScoreEtfs ==
    [s \in Symbols |->
        LET members == Eligible(Category[s])
        IN IF s \notin members \/ Cardinality(members) < MinimumCategorySize THEN Unscored
           ELSE [percentile |-> Percentile(s), score |-> Score(s),
                 rank |-> 1 + Cardinality({t \in members : Score(t) > Score(s)}),
                 grade |-> Grade(Score(s), FullScore(members))]]

-----------------------------------------------------------------------------
Init == /\ history = [s \in Symbols |-> <<>>]
        /\ factors = [s \in Symbols |-> None]
        /\ result = None

\* A day closes: every instrument gets its row.
NewDay == /\ \A s \in Symbols : Len(history[s]) < LastDay
          /\ \E day \in {d \in [Symbols -> UNION {Rows[s] : s \in Symbols}] : \A s \in Symbols : d[s] \in Rows[s]} :
                LET rows == [s \in Symbols |-> Append(history[s], day[s])]
                IN history' = rows /\ factors' = [s \in Symbols |-> FactorsOf(rows[s])]
          /\ result' = None

\* The refresh of the day scores it.
Refresh == /\ result = None
           /\ result' = ScoreEtfs
           /\ UNCHANGED <<history, factors>>

Next == NewDay \/ Refresh

Spec == Init /\ [][Next]_vars

-----------------------------------------------------------------------------
Grades == {"preferred", "watched", "cautious", "unavailable"}
ScoresTypeOK == \A s \in Symbols :
    /\ Len(history[s]) <= LastDay
    /\ result # None => result[s].grade \in Grades /\ result[s].rank \in Nat \cup {None}

Scored(s, t) == /\ result # None /\ Category[s] = Category[t]
                /\ result[s].score # None /\ result[t].score # None

\* What is worse in no factor has no lower rank, and what is better in one that counts has
\* a better one.
Dominance ==
    \A s, t \in Symbols : Scored(s, t) =>
        ((\A f \in Factors : factors[s][f] >= factors[t][f])
            => /\ result[s].rank <= result[t].rank
               /\ (\E f \in Factors : Weights[f] > 0 /\ factors[s][f] > factors[t][f])
                     => result[s].rank < result[t].rank)

\* Instruments of one category are scored together or not at all, those with the best
\* score share the first place, and a grade never orders against the rank.
Level(grade) == CASE grade = "preferred" -> 3 [] grade = "watched" -> 2 [] OTHER -> 1
CategoryIsRanked ==
    \A s \in Symbols : Scored(s, s) =>
        LET peers == {t \in Symbols : Scored(s, t)}
        IN /\ Cardinality(peers) >= MinimumCategorySize
           /\ \E t \in peers : result[t].rank = 1
           /\ \A t \in peers : /\ result[t].rank < result[s].rank => result[t].score > result[s].score
                               /\ result[t].rank <= result[s].rank => Level(result[t].grade) >= Level(result[s].grade)

ScoresSound == Dominance /\ CategoryIsRanked

\* The smaller fall counts for more: of two scored members of a category the one whose
\* closes fell less from their highest has the higher drawdown percentile, as the design
\* has it ("60 日最大回撤的反向分位", low first).
SmallerDrawdownFirst ==
    \A s, t \in Symbols : Scored(s, t) =>
        LET Fall(u) == MaxDrawdown(LastOf(Closes(history[u]), Windows.drawdown))
        IN Fall(s) > Fall(t) => result[s].percentile["drawdown"] > result[t].percentile["drawdown"]
=============================================================================
