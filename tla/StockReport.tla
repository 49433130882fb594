----------------------------- MODULE StockReport -----------------------------
(***************************************************************************)
(* One report of a share, from the collected data to the payload:          *)
(* Pipeline.run (src/src/core/pipeline.py), the enrichers and the services *)
(* between them (src/src/data), the five analysers (src/src/analysis) and  *)
(* the report's scores, quality and signal (src/src/report).               *)
(*                                                                         *)
(* Any stage may raise: what it would have set keeps its former value, and *)
(* the report still goes out.  Collected data is a record of what later    *)
(* decisions look at: how many rows, which fields, which sign.  The tier a *)
(* figure falls in (the points it earns) is data too: marks.               *)
(***************************************************************************)
EXTENDS Integers, FiniteSets, FiniteSetsExt

CONSTANTS
    Requests,     \* [market, extra, llm, backend, dimension]: what is asked
    Prices,       \* numbers of daily rows
    Statements,   \* [periods, profits, revenues, partial, ttm, dear, equity, shares, debt, cash, margins, annual]
    Valuations,   \* [pe, pb, ps, peDays, pbDays]: signs of the multiples, length of the curves
    Industries,   \* [state, listed, peers, heads, ready, complete, usable, premium, periods]
    Newses,       \* [items, failed]
    Marks,        \* points the tiers give: [dimension -> 0..10]
    Risks,        \* risk scores the annotation can lead to
    Sector,       \* "general", "bank"
    MaxFailures,  \* bound: stages that raise
    None

VARIABLES
    request, rows, fin, val, ind, news, marks,   \* given, never changed after collect
    pc,
    suff,         \* the level of each kind of data: 0 missing, 1 partial, 2 sufficient
    history,      \* enriched_valuation: valid days of PE and of PB
    peers,        \* enriched_industry: None, "plain", "comparison"
    roe,          \* financial_scoring_facts: None (not asked), TRUE, FALSE
    mood,         \* enriched_sentiment: None, or [status, risk]
    results,      \* [dimension -> [status, score, full]]
    calls,        \* calls of the language model
    bulk,         \* the commentary: None, "text", "sorry"
    report,
    failed,       \* stages that raised
    broken        \* analysers that raised

given == <<request, rows, fin, val, ind, news, marks>>
stages == <<suff, history, peers, roe, mood>>
vars == <<given, pc, stages, results, calls, bulk, report, failed, broken>>

Core == {"financial", "technical", "valuation", "industry"}
Dimensions == Core \union {"sentiment"}
HK == request.market = "hk"

\* What a request for one dimension collects.
DIMENSION_DATA_MAP(d) ==
    CASE d = "financial" -> {"financial"} [] d = "technical" -> {"price"}
      [] d = "valuation" -> {"price", "valuation"} [] d = "industry" -> {"industry"}
      [] d = "sentiment" -> {"news"}
      [] OTHER -> {"financial", "price", "valuation", "industry", "news"}

NoStatement == [periods |-> 0, profits |-> 0, revenues |-> 0, partial |-> FALSE, ttm |-> "none",
    dear |-> 0, equity |-> FALSE, shares |-> FALSE, debt |-> FALSE, cash |-> FALSE, margins |-> 0,
    annual |-> "none"]
NoValuation == [pe |-> "none", pb |-> "none", ps |-> "none", peDays |-> 0, pbDays |-> 0]
NoIndustry == [state |-> "absent", listed |-> FALSE, peers |-> 0, heads |-> 0, ready |-> FALSE,
    complete |-> FALSE, usable |-> FALSE, premium |-> FALSE, periods |-> FALSE]
NoNews == [items |-> 0, failed |-> FALSE]

\* What collected data may be.  On "dear" days the price is over 200 times the profit.
Signs == {"pos", "neg", "none"}
StatementType == [periods : Nat, profits : Nat, revenues : Nat, partial : BOOLEAN, ttm : Signs, dear : Nat,
    equity : BOOLEAN, shares : BOOLEAN, debt : BOOLEAN, cash : BOOLEAN, margins : Nat, annual : {"none", "older", "latest"}]
ValuationType == [pe : Signs, pb : Signs, ps : Signs, peDays : Nat, pbDays : Nat]
IndustryType == [state : {"absent", "unknown", "known"}, listed : BOOLEAN, peers : Nat, heads : Nat, ready : BOOLEAN,
    complete : BOOLEAN, usable : BOOLEAN, premium : BOOLEAN, periods : BOOLEAN]
NewsType == [items : Nat, failed : BOOLEAN]

ASSUME RequestsAssumption ==
    Requests \subseteq [market : {"a", "hk"}, extra : BOOLEAN, llm : BOOLEAN, backend : BOOLEAN,
                        dimension : Dimensions \union {None}]
ASSUME DataAssumption ==
    /\ Prices \subseteq Nat /\ Statements \subseteq StatementType /\ Valuations \subseteq ValuationType
    /\ Industries \subseteq IndustryType /\ Newses \subseteq NewsType
ASSUME PointsAssumption == Marks \subseteq [Core -> 0 .. 10] /\ Risks \subseteq 0 .. 10
ASSUME NoneAssumption == None \notin Nat \union BOOLEAN \union {"text", "sorry"}

Init ==
    /\ request \in Requests /\ rows \in Prices /\ fin \in Statements /\ val \in Valuations
    /\ ind \in Industries /\ news \in Newses /\ marks \in Marks
    /\ pc = "collect"
    /\ suff = [d \in Dimensions |-> 0] /\ history = None /\ peers = None
    /\ roe = None /\ mood = None
    /\ results = [d \in {} |-> None] /\ calls = {} /\ bulk = None /\ report = None /\ failed = {} /\ broken = {}

Collect ==
    /\ pc = "collect" /\ pc' = "price"
    /\ LET kinds == DIMENSION_DATA_MAP(request.dimension) IN
       /\ rows' = IF "price" \in kinds THEN rows ELSE 0
       /\ fin' = IF "financial" \in kinds THEN fin ELSE NoStatement
       /\ val' = IF "valuation" \in kinds THEN val ELSE NoValuation
       /\ ind' = IF "industry" \in kinds THEN ind ELSE NoIndustry
       /\ news' = IF "news" \in kinds THEN news ELSE NoNews
    /\ UNCHANGED <<request, marks, stages, results, calls, bulk, report, failed, broken>>

-----------------------------------------------------------------------------
(* The enrichers, in the order of their registration.                      *)

PriceLevel == IF rows >= 60 THEN 2 ELSE IF rows >= 20 THEN 1 ELSE 0
PriceEnricher == /\ suff' = [d \in Dimensions |-> IF d = "technical" THEN PriceLevel ELSE 0]
                 /\ UNCHANGED <<history, peers, roe, mood>>

FinancialLevel ==
    IF HK THEN IF fin.profits + fin.revenues > 0 THEN 1 ELSE 0
    ELSE IF fin.periods >= 4 /\ fin.profits >= 3 /\ fin.revenues >= 3
         THEN IF fin.partial THEN 1 ELSE 2
         ELSE IF fin.periods >= 2 /\ fin.profits >= 1 THEN 1 ELSE 0
FinancialEnricher == /\ suff' = [suff EXCEPT !["financial"] = FinancialLevel]
                     /\ UNCHANGED <<history, peers, roe, mood>>

\* The number of shares comes from a measured multiple, else from the chain.
TotalShares == \/ val.pe = "pos" /\ fin.ttm = "pos"
               \/ val.pb = "pos"
               \/ fin.shares
\* A PE over 200 is no point of the curve; the longer curve alone sets the level.
EnrichA ==
    IF suff["technical"] = 0 \/ fin.periods < 4 \/ ~fin.equity
    THEN /\ suff' = [suff EXCEPT !["valuation"] = 0] /\ UNCHANGED history
    ELSE LET points == IF TotalShares THEN rows ELSE 0
             pe == IF fin.ttm = "pos" /\ points > fin.dear THEN points - fin.dear ELSE 0
         IN /\ history' = [pe |-> pe, pb |-> points]
            /\ suff' = [suff EXCEPT !["valuation"] =
                          IF points < 30 THEN 0
                          ELSE IF fin.ttm # "pos" \/ points < 120 THEN 1 ELSE 2]
\* Only measured curves, on the days that have a price.
Positive == {m \in {"pe", "pb", "ps"} : val[m] = "pos"}
EnrichHK ==
    IF Positive = {}
    THEN /\ suff' = [suff EXCEPT !["valuation"] = 0] /\ history' = None
    ELSE LET pe == Min({rows, val.peDays})
             pb == Min({rows, val.pbDays})
         IN /\ history' = [pe |-> pe, pb |-> pb]
            /\ suff' = [suff EXCEPT !["valuation"] = IF pe >= 120 /\ pb >= 120 THEN 2 ELSE 1]
ValuationEnricher == (IF HK THEN EnrichHK ELSE EnrichA) /\ UNCHANGED <<peers, roe, mood>>

PoolLevel(heads) == IF ind.peers >= 8 /\ heads >= 4 THEN 2
                    ELSE IF ind.peers >= 3 \/ (~HK /\ heads >= 2) THEN 1 ELSE 0
IndustryEnricher ==
    /\ suff' = IF HK THEN suff
               ELSE [suff EXCEPT !["industry"] = IF ind.state = "known" THEN PoolLevel(ind.heads) ELSE 0]
    /\ peers' = IF ~HK /\ ind.state = "known" THEN "plain" ELSE peers
    /\ UNCHANGED <<history, roe, mood>>
HKIndustryEnricher ==
    /\ suff' = IF ~HK THEN suff
               ELSE [suff EXCEPT !["industry"] = IF ind.state = "absent" THEN 0 ELSE PoolLevel(ind.heads)]
    /\ peers' = IF ~HK THEN peers ELSE IF ind.state = "absent" THEN None ELSE "plain"
    /\ UNCHANGED <<history, roe, mood>>

\* The comparison with verified peers replaces what the enrichers found.
PeerComparison ==
    /\ peers' = IF ind.ready THEN "comparison" ELSE "plain"
    /\ suff' = IF ind.state = "absent" THEN suff
               ELSE [suff EXCEPT !["industry"] =
                        IF ~ind.ready THEN 0 ELSE IF ind.complete THEN 2 ELSE IF ind.usable THEN 1 ELSE 0]
    /\ UNCHANGED <<history, roe, mood>>

\* The return on equity of the newest whole year; an older year never stands
\* in for it, but a fetch of its own may bring it.
AnnualROE ==
    IF ~(request.extra /\ request.dimension \in {None, "financial"})
    THEN UNCHANGED stages
    ELSE /\ \E fetched \in BOOLEAN :
              roe' = (fin.annual = "latest" \/ (fin.periods > 0 /\ fetched))
         /\ UNCHANGED <<suff, history, peers, mood>>

After(p) ==
    CASE p = "price" -> "financial" [] p = "financial" -> "valuation" [] p = "valuation" -> "industry"
      [] p = "industry" -> "hk" [] p = "hk" -> "compare" [] p = "compare" -> "roe" [] p = "roe" -> "mood"
Stage(p) ==
    CASE p = "price" -> PriceEnricher [] p = "financial" -> FinancialEnricher
      [] p = "valuation" -> ValuationEnricher [] p = "industry" -> IndustryEnricher
      [] p = "hk" -> HKIndustryEnricher [] p = "compare" -> PeerComparison
      [] p = "roe" -> AnnualROE
EarlyStages == {"price", "financial", "valuation", "industry", "hk", "compare", "roe"}

RunStage ==
    /\ pc \in EarlyStages /\ Stage(pc) /\ pc' = After(pc)
    /\ UNCHANGED <<given, results, calls, bulk, report, failed, broken>>

\* A stage raises: an enricher leaves things as they were; the comparison and
\* the yearly facts leave an explicit absence.
StageRaises ==
    /\ pc \in EarlyStages /\ Cardinality(failed) < MaxFailures
    /\ failed' = failed \union {pc}
    /\ pc' = After(pc)
    /\ peers' = IF pc = "compare" THEN None ELSE peers
    /\ suff' = IF pc = "compare" THEN [suff EXCEPT !["industry"] = 0] ELSE suff
    /\ roe' = IF pc = "roe" /\ request.extra /\ request.dimension \in {None, "financial"}
              THEN FALSE ELSE roe
    /\ UNCHANGED <<given, history, mood, results, calls, bulk, report, broken>>

-----------------------------------------------------------------------------
(* The mood of the news: one call of the model for the whole batch.        *)

LLMEnabled == request.llm /\ request.extra
HasMainData == \E d \in Core : suff[d] # 0
MoodModel == LLMEnabled /\ request.backend /\ (HasMainData \/ request.dimension = "sentiment")
CollectionFailure == news.failed
Assessable == ~CollectionFailure /\ news.items > 0 /\ MoodModel

Assessed(status, risk) ==
    /\ mood' = [status |-> status, risk |-> risk]
    /\ suff' = [suff EXCEPT !["sentiment"] = IF status = "complete" THEN 2 ELSE 0]
    /\ UNCHANGED <<history, peers, roe>>
ValidAnnotation == \E risk \in Risks : Assessed("complete", risk)
NothingToAssess == Assessed("unavailable", None)
BadAnnotation == Assessed("failed", None)

AssessMood ==
    /\ pc = "mood" /\ pc' = "analyse"
    /\ IF ~request.extra THEN UNCHANGED <<stages, calls>>
       ELSE IF Assessable
            THEN /\ calls' = calls \union {"mood"}
                 /\ (ValidAnnotation \/ NothingToAssess \/ BadAnnotation)
            ELSE NothingToAssess /\ UNCHANGED calls
    /\ UNCHANGED <<given, results, bulk, report, failed, broken>>

MoodRaises ==
    /\ pc = "mood" /\ request.extra /\ Cardinality(failed) < MaxFailures
    /\ failed' = failed \union {"mood"} /\ pc' = "analyse"
    /\ UNCHANGED <<given, stages, results, calls, bulk, report, broken>>

-----------------------------------------------------------------------------
(* The analysers.                                                          *)

Result(status, score, full) == [status |-> status, score |-> score, full |-> full]
Unavailable == Result("unavailable", None, None)
Scored(condition, d) == IF condition THEN marks[d] ELSE None

Eligible == IF Sector = "bank" THEN {"roe", "cash"} ELSE {"roe", "debt", "cash", "margin"}
Available == {i \in Eligible :
    CASE i = "roe" -> roe = TRUE [] i = "debt" -> fin.debt
      [] i = "cash" -> fin.cash [] i = "margin" -> fin.margins >= 2}
Financial ==
    LET counted == IF fin.periods >= 4 /\ suff["financial"] = 2 THEN "ok" ELSE "partial"
        whole == Available = Eligible
    IN IF fin.periods = 0 \/ (suff["financial"] = 0 /\ roe = None) THEN Unavailable
       ELSE IF ~request.extra THEN Result(counted, None, None)
       ELSE Result(IF roe # None /\ Available # {} THEN IF whole THEN "ok" ELSE "partial"
                   ELSE counted, Scored(Available # {}, "financial"), whole)

Technical ==
    IF rows < 20 \/ suff["technical"] = 0 THEN Unavailable
    ELSE Result(IF rows >= 60 /\ suff["technical"] = 2 THEN "ok" ELSE "partial",
                Scored(request.extra, "technical"), None)

\* A-shares rank a positive multiple; Hong Kong ranks the end of its own
\* curve unless the multiple is known not to be positive.
Ranked(sign, days) == /\ days >= 120
                      /\ IF HK THEN sign # "neg" ELSE sign = "pos"
Usable == IF ~HK /\ suff["valuation"] = 0 THEN None ELSE history
ValuationEvidence ==
    (IF Usable # None /\ Ranked(val.pe, Usable.pe) THEN {"pe"} ELSE {})
    \union (IF Usable # None /\ Ranked(val.pb, Usable.pb) THEN {"pb"} ELSE {})
    \union (IF peers = "comparison" /\ ind.premium THEN {"premium"} ELSE {})
ValuationItems == IF Sector = "bank" THEN {"pb"} ELSE {"pe", "pb", "premium"}
Valuation ==
    LET whole == /\ history # None /\ Max({history.pe, history.pb}) >= 120
                 /\ suff["valuation"] = 2 /\ {"pe", "pb"} \subseteq Positive
    IN IF ValuationEvidence = {} /\ (Positive = {} \/ suff["valuation"] = 0) THEN Unavailable
       ELSE Result(IF whole THEN "ok" ELSE "partial",
                   Scored(request.extra /\ ValuationEvidence \cap ValuationItems # {}, "valuation"), None)

ComparisonStatus == IF ind.complete THEN "ok" ELSE "partial"
Industry ==
    IF ind.state = "absent" \/ (HK /\ ~ind.listed) THEN Unavailable
    ELSE IF peers = "comparison" /\ request.extra
         THEN Result(ComparisonStatus, Scored(ind.periods, "industry"), None)
    ELSE IF ~HK /\ suff["industry"] = 0 THEN Unavailable
    ELSE IF HK THEN Result(IF peers = "comparison" THEN ComparisonStatus
                           ELSE "partial", None, None)
    ELSE Result(IF ind.state = "known" THEN "ok" ELSE "partial", None, None)

NewsOnly == Result(IF news.failed THEN "partial" ELSE "ok", None, None)
Sentiment ==
    IF ~request.extra
    THEN IF HK THEN IF news = NoNews THEN Unavailable ELSE NewsOnly
         ELSE Result(IF news.items > 0 THEN "ok" ELSE "partial", None, None)
    ELSE IF mood = None
         THEN IF HK /\ news # NoNews THEN NewsOnly ELSE Unavailable
    ELSE IF mood.status = "complete" THEN Result("ok", mood.risk, None)
    ELSE Result(IF news.items > 0 THEN "partial" ELSE "unavailable", None, None)

Modules == IF request.dimension = None THEN Dimensions ELSE {request.dimension}
Outcome(d) == CASE d = "financial" -> Financial [] d = "technical" -> Technical
                [] d = "valuation" -> Valuation [] d = "industry" -> Industry
                [] d = "sentiment" -> Sentiment

\* Outside the extra mode no judgement is left in a result.
Objective(r) == Result(r.status, None, None)
Kept(r) == IF request.extra THEN r ELSE Objective(r)

\* The modules run side by side and are looked up by their dimension; any of
\* them may raise.
Analyse ==
    /\ pc = "analyse" /\ pc' = "comment"
    /\ \E bad \in SUBSET Modules :
         /\ Cardinality(failed) + Cardinality(bad) <= MaxFailures
         /\ broken' = bad
         /\ results' = [d \in Modules |-> IF d \in bad THEN Unavailable ELSE Kept(Outcome(d))]
    /\ UNCHANGED <<given, stages, calls, bulk, report, failed>>

-----------------------------------------------------------------------------
(* Scores, quality, commentary, payload.                                   *)

Known(d) == d \in DOMAIN results
\* participation_score: the risk of the news counts the other way round.
ParticipationUpright(d) ==
    IF ~Known(d) \/ results[d].status = "unavailable" THEN None ELSE results[d].score
Participation(d) ==
    IF ~Known(d) \/ results[d].status = "unavailable" \/ results[d].score = None THEN None
    ELSE IF d = "sentiment" THEN 10 - results[d].score ELSE results[d].score
Weight(d) == CASE d = "financial" -> 30 [] d = "technical" -> 20 [] d = "valuation" -> 25
               [] d = "industry" -> 20 [] d = "sentiment" -> 5

Participants == {d \in Dimensions : Participation(d) # None}
HasScored == Participants \cap Core # {}
OverAll(f) == f["financial"] + f["technical"] + f["valuation"] + f["industry"] + f["sentiment"]
\* The total in tenths, weights of the missing dimensions shared out.
Total ==
    IF ~HasScored THEN None
    ELSE LET w == OverAll([d \in Dimensions |-> IF d \in Participants THEN Weight(d) ELSE 0])
             s == OverAll([d \in Dimensions |-> IF d \in Participants THEN Weight(d) * Participation(d) ELSE 0])
         IN (20 * s + w) \div (2 * w)

HasFacts(d) ==
    /\ Known(d) /\ results[d].status # "unavailable"
    /\ CASE d = "financial" -> fin.profits + fin.revenues > 0
         [] d = "technical" -> TRUE
         [] d = "valuation" -> \E m \in {"pe", "pb", "ps"} : val[m] # "none"
         [] d = "industry" -> peers # None
         [] d = "sentiment" -> FALSE
HasAnalysisData == \E d \in Core : Participation(d) # None \/ HasFacts(d)

StatusLevel(d) == IF ~Known(d) THEN 0
                  ELSE CASE results[d].status = "ok" -> 2 [] results[d].status = "partial" -> 1
                         [] OTHER -> 0
LevelBase(d) ==
    IF d = "financial" /\ Participation(d) # None /\ results[d].full # None THEN StatusLevel(d)
    ELSE Min({suff[d], StatusLevel(d)})
Level(d) ==
    IF request.extra
    THEN IF Participation(d) # None THEN LevelBase(d)
         ELSE IF HK /\ ~HasFacts(d) THEN 0 ELSE Min({LevelBase(d), 1})
    ELSE IF d = "sentiment"
         THEN IF news.items = 0 THEN 0 ELSE IF news.failed THEN Min({StatusLevel(d), 1}) ELSE StatusLevel(d)
    ELSE IF HasFacts(d) THEN LevelBase(d) ELSE 0
\* In hundredths.
Coverage == OverAll([d \in Dimensions |-> Weight(d) * Level(d)]) \div 2
AllComplete == \A d \in Dimensions : Level(d) = 2 /\ (Participation(d) # None \/ ~request.extra)

SignalReady(d) ==
    /\ IF d = "financial" /\ Known(d) /\ results[d].full # None THEN results[d].full ELSE suff[d] = 2
    /\ Known(d) /\ results[d].status = "ok" /\ Participation(d) # None
SignalAllowed == /\ request.extra /\ HasScored
                 /\ \A d \in {"financial", "technical", "valuation"} : SignalReady(d)

Comments == LLMEnabled /\ HasAnalysisData

Comment ==
    /\ pc = "comment" /\ pc' = "payload"
    /\ IF Comments /\ request.backend
       THEN /\ calls' = calls \union {"comment"}
            /\ bulk' \in {None, "text", "sorry"}
       ELSE UNCHANGED <<calls, bulk>>
    /\ UNCHANGED <<given, stages, results, report, failed, broken>>

CommentaryStatus ==
    IF ~request.extra THEN "not_requested"
    ELSE IF ~HasAnalysisData THEN "insufficient"
    ELSE IF ~request.llm THEN "disabled"
    ELSE IF ~request.backend THEN "config"
    ELSE IF bulk = "text" THEN "ok" ELSE "failed"

Payload ==
    /\ pc = "payload" /\ pc' = "done"
    /\ report' = [final |-> IF request.extra /\ HasScored THEN Total ELSE None,
                  signal |-> SignalAllowed /\ Total # None,
                  commentary |-> CommentaryStatus,
                  quality |-> IF AllComplete THEN "ok" ELSE IF HasAnalysisData THEN "partial"
                              ELSE "unavailable",
                  coverage |-> Coverage]
    /\ UNCHANGED <<given, stages, results, calls, bulk, failed, broken>>

Stop == pc = "done" /\ UNCHANGED vars

Next == Collect \/ RunStage \/ StageRaises \/ AssessMood \/ MoodRaises \/ Analyse \/ Comment
        \/ Payload \/ Stop
Spec == Init /\ [][Next]_vars

-----------------------------------------------------------------------------
(* Properties.                                                             *)

ReportTypeOK ==
    /\ suff \in [Dimensions -> 0 .. 2]
    /\ calls \subseteq {"mood", "comment"} /\ bulk \in {None, "text", "sorry"}
    /\ peers \in {None, "plain", "comparison"} /\ roe \in {None, TRUE, FALSE}
    /\ Cardinality(failed) <= MaxFailures

\* A signal (src/src/report/quality.py build_data_quality) rests on data of
\* this very run: a full window of prices, every part of the financial score,
\* a ranked history of PB, and of PE too unless so many days of a Chinese share
\* are dear that under 120 are left (valuation_enricher.py counts the longer
\* curve), and no stage of the three raised.
SignalGrounded ==
    (report # None /\ report.signal) =>
        /\ request.extra /\ report.final # None
        /\ rows >= 120 /\ Available = Eligible
        /\ "pb" \in ValuationEvidence
        /\ "pe" \in ValuationEvidence \/ (~HK /\ rows < 120 + fin.dear)
        /\ failed \cap {"price", "valuation"} = {}
        /\ broken \cap {"financial", "technical", "valuation"} = {}

\* Without extra analysis nothing is judged: no score, no signal, no model.
ObjectiveOnly ==
    ~request.extra =>
        /\ calls = {} /\ bulk = None
        /\ \A d \in DOMAIN results : results[d].score = None
        /\ report # None => /\ report.final = None /\ ~report.signal
                            /\ report.commentary = "not_requested"

\* The total lies between the least and the greatest dimension that takes part
\* in it, a run with no core score has none, and bad news never lifts it.
TotalWithin ==
    (report # None /\ report.final # None) =>
        /\ Participants \cap Core # {}
        /\ \E lo, hi \in Participants :
             /\ 10 * Participation(lo) <= report.final /\ report.final <= 10 * Participation(hi)
        /\ ("sentiment" \in Participants /\ mood.risk = 10) =>
             \E d \in Participants \cap Core : report.final <= 10 * Participation(d)

\* The model is asked about the mood only when some main data can be analysed
\* or the mood is what was asked for, and for a commentary only with data to
\* comment on: also when stages before it raised.
ModelNeedsData ==
    /\ "mood" \in calls => news.items > 0 /\ ~news.failed /\ (HasMainData \/ request.dimension = "sentiment")
    /\ "comment" \in calls => HasAnalysisData

\* A report called complete covers all it weighs, and no stage whose data it
\* would need has raised.
CompleteIsWhole ==
    (report # None /\ report.quality = "ok") =>
        /\ report.coverage = 100
        /\ failed \cap {"price", "valuation", "compare"} = {} /\ broken = {}
        /\ request.extra => Participants = Dimensions

\* What the payload says of the commentary is what happened: a text is "ok"
\* only if the model wrote it, an apology of the backend never is.
CommentaryTold ==
    report # None =>
        /\ (report.commentary = "ok") <=> (bulk = "text")
        /\ report.commentary = "failed" => "comment" \in calls
        /\ report.commentary \in {"disabled", "config"} => "comment" \notin calls

\* What may be said in a report, whatever was collected and whichever stage raised.
ReportSound == /\ SignalGrounded /\ ObjectiveOnly /\ TotalWithin
               /\ ModelNeedsData /\ CompleteIsWhole /\ CommentaryTold
=============================================================================
