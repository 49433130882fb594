----------------------------- MODULE PeerComparison -----------------------------
(***************************************************************************)
(* A Chinese stock beside its peers: the pool of its Shenwan level 3       *)
(* industry, their quotes of one day and their indicators of one period,   *)
(* fetched in batches, at most two at one time, within one budget; what    *)
(* came whole is kept, what did not gives way to the last that did.        *)
(***************************************************************************)
EXTENDS Integers, Sequences, FiniteSets

CONSTANTS
    Analyses,       \* analyses, any number at one time
    Symbols, Order, \* the stocks, and as a sequence: their codes sorted
    Targets,        \* those that are analysed
    Markets,        \* what the sites may say: records [industry, members, quotes, rows, known]
    Today, Batch, InFlight, Enough, \* the day and period after which all is future; MAX_BATCH, max_workers, 5
    MaxShifts,      \* changes of what the sites say
    None

VARIABLES
    market,         \* what the sites say
    classes, quotes, figures, \* peer_classification, peer_valuation, peer_financial
    study,          \* [analysis |-> where it is]
    shifts

pcvars == <<market, classes, quotes, figures, study, shifts>>
caches == <<classes, quotes, figures>>

Entry(x) == [payload |-> x, fresh |-> TRUE]
Old(cache, k) == IF k \in DOMAIN cache THEN cache[k].payload ELSE None
Fresh(cache, k) == k \in DOMAIN cache /\ cache[k].fresh
Put(cache, k, x) == [j \in DOMAIN cache \union {k} |-> IF j = k THEN Entry(x) ELSE cache[j]]
Latest(S) == CHOOSE m \in S : \A n \in S : n <= m

-----------------------------------------------------------------------------
\* What the pages are read as: the industry of level 3 and its members; the quotes asked
\* for, of a day that has come; the rows asked for, one of a key, and no
\* value where two versions of a key differ.
Profile(s) == market.industry[s]
Members(i) == market.members[i]
QuotesOf(asked) == {[symbol |-> s, day |-> market.quotes[s].day, value |-> market.quotes[s].value] :
                       s \in {s \in asked : market.quotes[s].day \in 1 .. Today}}
Confirmed(r) == r.end <= Today /\ (r.kind = "annual") = (r.end % 2 = 0)
SameKey(r, t) == <<r.symbol, r.end, r.kind>> = <<t.symbol, t.end, t.kind>>
Normal(rows) ==
    {[rows[i] EXCEPT !.ok = Confirmed(rows[i]) /\ \A k \in DOMAIN rows : SameKey(rows[i], rows[k]) => rows[k].value = rows[i].value] :
        i \in {i \in DOMAIN rows : \A k \in 1 .. i - 1 : ~SameKey(rows[i], rows[k])}}
FiguresOf(asked) == {r \in Normal(market.rows) : r.symbol \in asked}

-----------------------------------------------------------------------------
\* The position of a value among those of the peers; the sum of the two middle values
\* is twice the median, the rank is in half places.
Place(vals, n) ==
    CHOOSE x \in {v[2] : v \in vals} : Cardinality({v \in vals : v[2] < x}) < n /\ n <= Cardinality({v \in vals : v[2] <= x})
Summary(target, peers) ==
    LET n == Cardinality(peers)
        enough == n >= Enough
    IN [target |-> target, sample |-> peers, status |-> IF ~enough THEN "insufficient" ELSE IF target = None THEN "partial" ELSE "ok",
        middle |-> IF enough THEN Place(peers, (n + 1) \div 2) + Place(peers, n \div 2 + 1) ELSE None,
        rank |-> IF enough /\ target # None
                 THEN 2 * Cardinality({v \in peers : v[2] < target}) + Cardinality({v \in peers : v[2] = target}) ELSE None]

\* Values of the target's day only; a multiple that is not positive is no value.
Valuation(s, peers, rows) ==
    LET mine == {r \in rows : r.symbol = s}
        day == IF mine = {} THEN 0 ELSE (CHOOSE r \in mine : TRUE).day
        target == IF mine = {} THEN None ELSE LET v == (CHOOSE r \in mine : TRUE).value IN IF v > 0 THEN v ELSE None
    IN [day |-> day, metric |-> Summary(target,
            {<<r.symbol, r.value>> : r \in {r \in rows : r.symbol \in peers /\ day # 0 /\ r.day = day /\ r.value > 0}})]

\* The target's own latest period is the anchor; a period older than the one the target
\* has published compares nothing.
Own(kind, s, rows) == {r \in rows : r.symbol = s /\ r.ok /\ (kind = "annual" => r.kind = "annual")}
Alike(anchor, peers, rows) ==
    {<<r.symbol, r.value>> : r \in {r \in rows : r.symbol \in peers /\ r.ok /\ r.end = anchor.end /\ r.kind = anchor.kind}}
Period(kind, s, peers, rows, known) ==
    LET targets == Own(kind, s, rows)
        end == IF targets = {} THEN 0 ELSE Latest({r.end : r \in targets})
        anchor == CHOOSE r \in targets : r.end = end
        reason == targets = {} \/ (kind = "latest" /\ end < known)
    IN [end |-> end, reason |-> reason,
        metric |-> IF reason THEN Summary(None, {}) ELSE Summary(anchor.value, Alike(anchor, peers, rows))]

\* PeerComparisonService.enrich: what the report shows of the three comparisons.
Enrich(t) ==
    LET peers == t.pool \ {t.stock}
        v == Valuation(t.stock, peers, t.rows)
        y == Period("annual", t.stock, peers, t.figures, t.known)
        l == Period("latest", t.stock, peers, t.figures, t.known)
        all == <<v.metric, y.metric, l.metric>>
    IN [valuation |-> v, annual |-> y, latest |-> l,
        sufficiency |-> IF (\A i \in 1 .. 3 : all[i].status = "ok") /\ ~t.errors THEN "sufficient"
                        ELSE IF \E i \in 1 .. 3 : all[i].target # None \/ all[i].sample # {} THEN "partial" ELSE "insufficient"]

-----------------------------------------------------------------------------
NewStudy == [pc |-> "new", stock |-> None, refresh |-> FALSE, late |-> FALSE, errors |-> FALSE, pool |-> {}, known |-> 0,
             next |-> 1, flying |-> {}, failed |-> FALSE, got |-> {}, old |-> None, rows |-> {}, figures |-> {}, shown |-> None]

Init == /\ market \in Markets /\ shifts = 0
        /\ classes = <<>> /\ quotes = <<>> /\ figures = <<>>
        /\ study = [p \in Analyses |-> NewStudy]

At(p, pc) == study[p].pc = pc
Go(p, t) == study' = [study EXCEPT ![p] = t]
Stays == UNCHANGED <<market, shifts>>

\* The jobs of a round: the members as they are sorted, in batches.
Before(pool, s) == Cardinality({k \in DOMAIN Order : Order[k] \in pool /\ \A i \in DOMAIN Order : Order[i] = s => k < i})
Job(pool, j) == {s \in pool : Before(pool, s) \div Batch = j - 1}
NumJobs(pool) == (Cardinality(pool) + Batch - 1) \div Batch
\* A round starts with as many jobs as may fly; without time none is sent.
Round(t, pc, old) ==
    LET first == IF t.late THEN 0 ELSE IF NumJobs(t.pool) < InFlight THEN NumJobs(t.pool) ELSE InFlight
    IN [t EXCEPT !.pc = pc, !.next = first + 1, !.flying = 1 .. first, !.failed = FALSE, !.got = {}, !.old = old]

\* fetch_financial_rows up to its batches, then the comparison.
Finish(t, rows, errors) ==
    LET u == [t EXCEPT !.figures = rows, !.errors = @ \/ errors]
    IN [NewStudy EXCEPT !.pc = "done", !.stock = t.stock, !.pool = t.pool, !.rows = t.rows, !.figures = rows, !.known = t.known,
                        !.shown = Enrich(u)]
Financial(t) ==
    IF Fresh(figures, t.pool) /\ ~t.refresh THEN Finish(t, Old(figures, t.pool), FALSE)
    ELSE Round(t, "financial", Old(figures, t.pool))

\* _quote_snapshot up to its batches.
Quotes(t, refresh) ==
    IF Fresh(quotes, t.pool) /\ ~refresh THEN Financial([t EXCEPT !.rows = Old(quotes, t.pool)])
    ELSE Round(t, "quotes", Old(quotes, t.pool))

\* fetch_a_industry up to the request of the industry; with an open breaker there is
\* no time at all, an industry of any age, and quotes that are not refreshed.
Begin(p) ==
    /\ At(p, "new")
    /\ \E s \in Targets, refresh, only \in BOOLEAN :
          LET old == Old(classes, s)
              t == [NewStudy EXCEPT !.stock = s, !.refresh = refresh, !.late = only, !.old = old, !.known = market.known]
          IN IF only /\ old = None THEN Go(p, [NewStudy EXCEPT !.pc = "done", !.stock = s])
             ELSE IF only \/ (Fresh(classes, s) /\ ~refresh) THEN Go(p, Quotes([t EXCEPT !.pool = old], refresh /\ ~only))
             ELSE Go(p, [t EXCEPT !.pc = "classify"])
    /\ UNCHANGED caches /\ Stays

\* The stock's page and the page of its industry, which must list it.
Classify(p) ==
    /\ At(p, "classify")
    /\ LET t == study[p]
           i == Profile(t.stock)
           fails == t.late \/ i = None \/ t.stock \notin Members(i)
       IN \/ ~fails /\ classes' = Put(classes, t.stock, Members(i)) /\ Go(p, Quotes([t EXCEPT !.pool = Members(i)], t.refresh))
          \/ /\ UNCHANGED classes
             /\ Go(p, IF t.old = None THEN [NewStudy EXCEPT !.pc = "done", !.stock = t.stock] ELSE Quotes([t EXCEPT !.pool = t.old], t.refresh))
    /\ UNCHANGED <<quotes, figures>> /\ Stays

\* _parallel_batches: one of the jobs in flight is answered or fails; the next is sent.
Answer(p) ==
    /\ study[p].pc \in {"quotes", "financial"} /\ ~study[p].late
    /\ \E j \in study[p].flying, ok \in BOOLEAN :
          LET t == study[p]
              more == t.next <= NumJobs(t.pool)
              asked == Job(t.pool, j)
          IN Go(p, [t EXCEPT !.flying = (@ \ {j}) \union (IF more THEN {t.next} ELSE {}),
                             !.next = IF more THEN @ + 1 ELSE @, !.failed = @ \/ ~ok,
                             !.got = IF ~ok THEN @ ELSE @ \union (IF At(p, "quotes") THEN QuotesOf(asked) ELSE FiguresOf(asked))])
    /\ UNCHANGED caches /\ Stays

Covered(t) == {r.symbol : r \in t.got} = t.pool
\* The quotes are all there and in time, or the old ones are shown.
KeepQuotes(p) ==
    /\ At(p, "quotes") /\ (study[p].flying = {} \/ study[p].late)
    /\ LET t == study[p]
           errors == t.failed \/ t.flying # {} \/ ~Covered(t)
           u == [t EXCEPT !.errors = @ \/ errors, !.rows = IF errors /\ t.old # None THEN t.old ELSE t.got]
       IN /\ Go(p, Financial(u))
          /\ quotes' = IF ~errors /\ ~t.late THEN Put(quotes, t.pool, t.got) ELSE quotes
    /\ UNCHANGED <<classes, figures>> /\ Stays

\* The same for the indicators, of which none may be in doubt.
KeepFigures(p) ==
    /\ At(p, "financial") /\ (study[p].flying = {} \/ study[p].late)
    /\ LET t == study[p]
           errors == t.failed \/ t.flying # {} \/ ~Covered(t) \/ \E r \in t.got : ~r.ok
       IN /\ Go(p, Finish(t, IF errors /\ t.old # None THEN t.old ELSE t.got, errors))
          /\ figures' = IF ~errors /\ ~t.late THEN Put(figures, t.pool, t.got) ELSE figures
    /\ UNCHANGED <<classes, quotes>> /\ Stays

\* The budget runs out.
Lapse(p) == /\ study[p].pc \in {"classify", "quotes", "financial"} /\ ~study[p].late
            /\ Go(p, [study[p] EXCEPT !.late = TRUE]) /\ UNCHANGED caches /\ Stays
Again(p) == At(p, "done") /\ Go(p, NewStudy) /\ UNCHANGED caches /\ Stays

Aged(cache) == [k \in DOMAIN cache |-> [cache[k] EXCEPT !.fresh = FALSE]]
\* So much time passes that nothing is fresh; the sites say something else.
TimePasses == /\ quotes' = Aged(quotes) /\ figures' = Aged(figures) /\ classes' = Aged(classes)
              /\ caches' # caches /\ UNCHANGED study /\ Stays
Shift == /\ shifts < MaxShifts /\ shifts' = shifts + 1 /\ market' \in Markets \ {market}
         /\ UNCHANGED <<caches, study>>

Next == \/ \E p \in Analyses : Begin(p) \/ Classify(p) \/ Answer(p) \/ KeepQuotes(p) \/ KeepFigures(p) \/ Lapse(p) \/ Again(p)
        \/ TimePasses \/ Shift

Spec == Init /\ [][Next]_pcvars

-----------------------------------------------------------------------------
PCTypeOK ==
    /\ market \in Markets /\ shifts \in 0 .. MaxShifts
    /\ DOMAIN classes \subseteq Symbols /\ \A k \in DOMAIN quotes \union DOMAIN figures : k \subseteq Symbols
    /\ \A p \in Analyses : study[p].pc \in {"new", "classify", "quotes", "financial", "done"}
                           /\ Cardinality(study[p].flying) <= InFlight

\* What the caches hold is whole: a pool with the stock in it, and under a pool a quote and
\* an undisputed row of each of its members, whichever batches came in which order.
CachesWhole ==
    /\ \A s \in DOMAIN classes : s \in Old(classes, s)
    /\ \A k \in DOMAIN quotes : {r.symbol : r \in Old(quotes, k)} = k
    /\ \A k \in DOMAIN figures : {r.symbol : r \in Old(figures, k)} = k /\ \A r \in Old(figures, k) : r.ok

\* A value of a comparison is of an undisputed row, and the stock has one of the same
\* period and kind, at the end that is shown.
OfOnePeriod(c, stock, rows) ==
    \A v \in c.metric.sample : \E r, mine \in rows :
        /\ r.symbol = v[1] /\ r.value = v[2] /\ r.ok /\ r.end = c.end
        /\ mine.symbol = stock /\ mine.ok /\ mine.end = r.end /\ mine.kind = r.kind

\* The comparisons shown are of the pool's other stocks, one value of each, of the
\* day and the period of the stock itself, also when batches of one round were
\* answered before and after a change, or come from the cache.
ComparedAlike ==
    \A p \in Analyses : study[p].shown # None =>
        LET t == study[p]
            d == t.shown
            fair(m) == /\ \A v, w \in m.sample : v[1] = w[1] => v = w
                       /\ \A v \in m.sample : v[1] \in t.pool \ {t.stock}
        IN /\ fair(d.valuation.metric) /\ fair(d.annual.metric) /\ fair(d.latest.metric)
           /\ OfOnePeriod(d.annual, t.stock, t.figures) /\ OfOnePeriod(d.latest, t.stock, t.figures)
           /\ \A v \in d.valuation.metric.sample : \A r \in t.rows : r.symbol = v[1] =>
                  \E mine \in t.rows : mine.symbol = t.stock /\ mine.day = r.day
           /\ d.latest.end # 0 => d.annual.end <= d.latest.end
           /\ d.sufficiency = "sufficient" => Cardinality(t.pool) > Enough

\* Two stocks of a pool that are compared by the quotes kept for it stand in the
\* order of their values, although each is left out of its own comparison.
RanksAgree ==
    \A k \in DOMAIN quotes : \A s, u \in k :
        LET v == Valuation(s, k \ {s}, Old(quotes, k))
            w == Valuation(u, k \ {u}, Old(quotes, k))
        IN v.day = w.day /\ v.metric.status = "ok" /\ w.metric.status = "ok" /\ v.metric.target < w.metric.target
           => v.metric.rank < w.metric.rank
PCSafe == CachesWhole /\ ComparedAlike /\ RanksAgree

\* Nothing that came late is used or kept, what is kept is never lost, and a snapshot
\* gives way only to one that was fetched whole.
FetchedInTime ==
    /\ \A p \in Analyses : study[p].late => study'[p].got \subseteq study[p].got
    /\ DOMAIN classes \subseteq DOMAIN classes' /\ DOMAIN quotes \subseteq DOMAIN quotes' /\ DOMAIN figures \subseteq DOMAIN figures'
    /\ \A k \in DOMAIN quotes' : Old(quotes', k) # Old(quotes, k) =>
          \E p \in Analyses : At(p, "quotes") /\ study[p].pool = k /\ ~study[p].late /\ ~study[p].failed
    /\ \A k \in DOMAIN figures' : Old(figures', k) # Old(figures, k) =>
          \E p \in Analyses : At(p, "financial") /\ study[p].pool = k /\ ~study[p].late /\ ~study[p].failed
=============================================================================
