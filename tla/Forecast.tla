------------------------------ MODULE Forecast ------------------------------
(***************************************************************************)
(* internal/forecast: the plan and live lines of the week, the gate and    *)
(* the scores kept in forecast_scores, a set of records                    *)
(*   [week, plan, actual], actual empty until the week has been scored.    *)
(* The views that write them are Books.tla.                                *)
(***************************************************************************)
EXTENDS Prices, StoreReads

WeekStart(w) == StartOfDay(FirstOfWeek(w))

AtDay(byDay, d) == IF d \in DOMAIN byDay THEN byDay[d] ELSE 0

HistoryPoints(byDay, now) ==
    [i \in 0..6 |-> AtDay(byDay, LocalDay(now) - 6 + i)]

\* A weekday's average over those of its last four days that have a turn at
\* all: a day off is no zero.
PlanLine(byDay, w) ==
    [i \in 0..6 |->
        LET before == {FirstOfWeek(w) + i - 7 * k : k \in 1..4} \cap DOMAIN byDay
        IN IF before = {} THEN 0
           ELSE SumOver(before, LAMBDA d : byDay[d]) \div Cardinality(before)]

\* Today's figure carried to the end of its day; never less than it is.
EndOf(sofar, elapsed, whole) ==
    LET e == (sofar * whole) \div elapsed IN IF e < sofar THEN sofar ELSE e

\* The first instant of a day counts as a minute.
SinceMidnight(now) ==
    LET e == now - StartOfDay(LocalDay(now)) IN IF e <= 0 THEN Minute ELSE e

SinceFirst(now) ==
    StartOfDay(LocalDay(now)) - StartOfDay(FirstOfMonth(MonthOf(LocalDay(now))))
        + SinceMidnight(now)

LiveLine(byDay, w, now) ==
    LET today == LocalDay(now)
        eod == EndOf(AtDay(byDay, today), SinceMidnight(now), Second * DayLen)
        soFar == SumOver(FirstOfMonth(MonthOf(today))..today, LAMBDA d : AtDay(byDay, d))
    IN [line |-> [i \in 0..6 |->
            IF FirstOfWeek(w) + i < today THEN AtDay(byDay, FirstOfWeek(w) + i) ELSE eod],
        endOfDay |-> eod,
        endOfMonth |-> EndOf(soFar, SinceFirst(now), Second * DayLen * MonthDays)]

AddCostForecast(es, cfg, now) ==
    LET today == HeadlineUSD(cfg, EventsSince(es, StripBounds(now).day))
        month == HeadlineUSD(cfg, EventsSince(es, StripBounds(now).month))
    IN IF ~today.covered /\ ~month.covered THEN [covered |-> FALSE, endOfDay |-> 0, endOfMonth |-> 0]
       ELSE [covered |-> TRUE,
             endOfDay |-> EndOf(today.usd, SinceMidnight(now), Second * DayLen),
             endOfMonth |-> EndOf(month.usd, SinceFirst(now), Second * DayLen * MonthDays)]

-----------------------------------------------------------------------------
PlanTokensForWeek(es, w) ==
    LET plan == PlanLine(DailyTokenTotals(es, WeekStart(w - 4), 0), w)
    IN SumOver(0..6, LAMBDA i : plan[i])

ActualTokensForWeek(es, w) ==
    LET daily == DailyTokenTotals(es, WeekStart(w), WeekStart(w + 1))
    IN SumOver({d \in DOMAIN daily : d < FirstOfWeek(w + 1)}, LAMBDA d : daily[d])

ForecastScore(scores, w) == {s \in scores : s.week = w}

(* MUTANT: the later plan of a week takes the place of the first. *)
InsertForecastPlanAnyway(scores, w, plan) ==
    (scores \ ForecastScore(scores, w)) \cup {[week |-> w, plan |-> plan, actual |-> <<>>]}

\* ON CONFLICT DO NOTHING.
InsertForecastPlan(scores, w, plan) ==
    IF ForecastScore(scores, w) # {} THEN scores
    ELSE scores \cup {[week |-> w, plan |-> plan, actual |-> <<>>]}

(* MUTANT: without AND actual_tokens IS NULL. *)
RecordForecastActualAnyway(scores, w, tokens) ==
    {IF s.week = w THEN [s EXCEPT !.actual = <<tokens>>] ELSE s : s \in scores}

(* MUTANT: the actual goes to the week before. *)
RecordForecastActualBefore(scores, w, tokens) ==
    {IF s.week = w - 1 /\ s.actual = <<>> THEN [s EXCEPT !.actual = <<tokens>>] ELSE s :
        s \in scores}

\* WHERE ... AND actual_tokens IS NULL.
RecordForecastActual(scores, w, tokens) ==
    {IF s.week = w /\ s.actual = <<>> THEN [s EXCEPT !.actual = <<tokens>>] ELSE s : s \in scores}

\* Every week that is over and has no actual.
Due(scores, now) == {s.week : s \in {r \in scores : r.actual = <<>> /\ now >= WeekStart(r.week + 1)}}

Abs(x) == IF x < 0 THEN -x ELSE x

\* The error of each scored week in percent of its plan; a week planned at
\* zero adds nothing to the sum and one to the count.
ErrorBand(scores) ==
    LET scored == {s \in scores : s.actual # <<>>}
    IN SumOver({s \in scored : s.plan > 0},
               LAMBDA s : (100 * Abs(s.actual[1] - s.plan)) \div s.plan)
        \div Cardinality(scored)

\* Build, on the scores EnsureScored has left.
BuildForecast(es, scores, cfg, now) ==
    LET scored == {s \in scores : s.actual # <<>>}
        w == WeekOf(LocalDay(now))
        byDay == DailyTokenTotals(es, WeekStart(w - 4), 0)
        history == HistoryPoints(DailyTokenTotals(es, StartOfDay(LocalDay(now) - 6), 0), now)
    IN IF scored = {} THEN [locked |-> TRUE, history |-> history]
       ELSE [locked |-> FALSE, history |-> history, band |-> ErrorBand(scores),
             plan |-> PlanLine(byDay, w), live |-> LiveLine(byDay, w, now),
             cost |-> AddCostForecast(es, cfg, now)]

=============================================================================
