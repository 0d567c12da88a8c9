----------------------------- MODULE DevTotals ------------------------------
(***************************************************************************)
(* cmd/burnmon-dev: the totals it shows of today (the vendor strip, which  *)
(* a loop refreshes, and the header, to which each tick of the page adds   *)
(* what the chart's window holds of later turns) and of half a year (the   *)
(* heatmap, whose closed days are cached for a day), while the collection  *)
(* and the watcher fill the store and midnight passes.                     *)
(* Instants are half seconds; every turn is of one token.                  *)
(***************************************************************************)
EXTENDS Integers, Sequences, FiniteSets, SequencesExt, FiniteSetsExt

CONSTANTS
    DayTicks,   \* instants of a day, whole seconds
    TickWindow, \* live.ChartWindow, in instants
    MaxInstant, \* bound: the last instant
    MaxTurns    \* bound: turns in the store

ASSUME TotalsAssumption ==
    /\ DayTicks \in Nat \ {0} /\ DayTicks % 2 = 0
    /\ {TickWindow, MaxInstant, MaxTurns} \subseteq Nat

VARIABLES
    instant,    \* now
    turns,      \* the store: when each of its turns was
    collected,  \* initialCollectDone is closed
    strip,      \* vendorStripCache: the turns its total of today sums, GeneratedAt
    counting,   \* where the loop that refreshes it is
    tick,       \* where the page's call of bdevSnapshotNow is
    header,     \* headlineDay and headlineFloor, which is what is shown
    closed,     \* heatmapClosed and heatmapAsOf
    refresh,    \* where the heatmap's refresher is
    rows        \* heatmapRowsCache

headerVars == <<strip, counting, tick, header>>
heatmapVars == <<closed, refresh, rows>>
totalsVars == <<instant, turns, collected, headerVars, heatmapVars>>

NoDay == -1
DayAt(t) == t \div DayTicks
DayStart(d) == d * DayTicks
OfDay(ts, d) == {t \in ts : DayAt(t) = d}
Since(ts, t0) == {t \in ts : t >= t0}
ToSecond(t) == t - (t % 2)

NoStrip == [counted |-> {}, at |-> NoDay]
NoCount == [at |-> "idle", now |-> 0, counted |-> {}]
NoTick == [at |-> "idle", now |-> 0, strip |-> NoStrip, had |-> {}]
NoRefresh == [at |-> "idle", day |-> NoDay, days |-> <<>>, seen |-> {}]

TotalsInit ==
    /\ instant = 0 /\ turns = {} /\ collected = FALSE
    /\ strip = NoStrip /\ counting = NoCount /\ tick = NoTick
    /\ header = [day |-> NoDay, tokens |-> 0, owed |-> {}, twice |-> {}]
    /\ closed = [day |-> NoDay, days |-> <<>>, seen |-> {}]
    /\ refresh = NoRefresh
    /\ rows = [day |-> NoDay, days |-> <<>>, seen |-> {}]

InstantPasses ==
    /\ instant < MaxInstant /\ instant' = instant + 1
    /\ UNCHANGED <<turns, collected, headerVars, heatmapVars>>

\* A turn is stored: just now by the watcher, or long after it was.
StoreTurn(t) ==
    /\ t \notin turns /\ Cardinality(turns) < MaxTurns
    /\ turns' = turns \cup {t}
    /\ UNCHANGED <<instant, collected, headerVars, heatmapVars>>

\* startInitialCollect has ended, with whatever it stored.
InitialCollectDone ==
    /\ ~collected /\ collected' = TRUE
    /\ UNCHANGED <<instant, turns, headerVars, heatmapVars>>

-----------------------------------------------------------------------------
(* The vendor strip: the clock is read before the store, and the time it   *)
(* says is cut to the second, as it is read back from text.                *)

StripUnchanged == UNCHANGED <<instant, turns, collected, tick, header, heatmapVars>>

StripBegins ==
    /\ counting.at = "idle"
    /\ counting' = [counting EXCEPT !.at = "begun", !.now = instant]
    /\ UNCHANGED strip /\ StripUnchanged

StripCounts ==
    /\ counting.at = "begun"
    /\ counting' = [counting EXCEPT !.at = "counted",
                                    !.counted = Since(turns, DayStart(DayAt(counting.now)))]
    /\ UNCHANGED strip /\ StripUnchanged

StripFails ==
    /\ counting.at = "begun" /\ counting' = NoCount
    /\ UNCHANGED strip /\ StripUnchanged

CacheStrip ==
    /\ counting.at = "counted" /\ counting' = NoCount
    /\ strip' = [counted |-> counting.counted, at |-> ToSecond(counting.now)]
    /\ StripUnchanged

-----------------------------------------------------------------------------
(* headline.go, and the steps of bdevSnapshotNow it depends on.            *)

TickUnchanged == UNCHANGED <<instant, turns, collected, strip, counting, heatmapVars>>

\* had (ghost): the turns of its day it could have shown.
TickBegins ==
    /\ tick.at = "idle"
    /\ tick' = [tick EXCEPT !.at = "begun", !.now = instant, !.had = OfDay(turns, DayAt(instant))]
    /\ UNCHANGED header /\ TickUnchanged

TickCopies ==
    /\ tick.at = "begun"
    /\ tick' = [tick EXCEPT !.at = "copied", !.strip = strip]
    /\ UNCHANGED header /\ TickUnchanged

TickFails ==
    /\ tick.at = "copied" /\ tick' = NoTick
    /\ UNCHANGED header /\ TickUnchanged

(* MUTANT: a cache of yesterday counts. *)
UsesStripStale(c, now) == c.at # NoDay

UsesStrip(c, now) == c.at # NoDay /\ c.at >= DayStart(DayAt(now))

\* What the window holds of today, later than the strip if that is today's.
AddedNow(c, now) ==
    {t \in Since(turns, now - TickWindow) :
        t >= DayStart(DayAt(now)) /\ (UsesStrip(c, now) => t > c.at)}

HeadlineToday(c, now) ==
    Cardinality(IF UsesStrip(c, now) THEN c.counted ELSE {}) + Cardinality(AddedNow(c, now))

\* Whether the strip and the window reach back over the whole day together,
\* and then the turns that came late: after the strip, of its time or before.
Reaches(c, now) ==
    IF UsesStrip(c, now) THEN DayAt(c.at) = DayAt(now) /\ c.at >= now - TickWindow
    ELSE DayStart(DayAt(now)) >= now - TickWindow
Late(c, now) == {t \in turns : UsesStrip(c, now) /\ t <= c.at /\ t \notin c.counted}

\* headlineTodayMonotonic: within a day the header never dips.
\* Ghosts: owed, what this tick has to show; twice, what the strips of this
\* day's ticks counted although it was later than their stamp.
ShowHeadline ==
    /\ tick.at = "copied" /\ tick' = NoTick
    /\ LET day == DayAt(tick.now)
           candidate == HeadlineToday(tick.strip, tick.now)
           floor == IF header.day = day THEN header.tokens ELSE candidate
       IN header' = [day |-> day,
                     tokens |-> IF candidate < floor THEN floor ELSE candidate,
                     owed |-> IF Reaches(tick.strip, tick.now)
                              THEN tick.had \ Late(tick.strip, tick.now) ELSE {},
                     twice |-> (IF header.day = day THEN header.twice ELSE {})
                               \cup {t \in tick.strip.counted : t > tick.strip.at}]
    /\ TickUnchanged

-----------------------------------------------------------------------------
(* closedDayRows and activityHeatmapRows.                                  *)

\* The sequence of a set of days, each once and in order.
DaysInOrder(days) ==
    CHOOSE s \in [1..Cardinality(days) -> days] :
        /\ \A i, j \in DOMAIN s : i < j => s[i] < s[j]
        /\ \A d \in days : \E i \in DOMAIN s : s[i] = d

DayRows(ts) ==
    LET days == DaysInOrder({DayAt(t) : t \in ts})
    IN [i \in DOMAIN days |-> [day |-> days[i], turns |-> OfDay(ts, days[i])]]

\* seen (ghost): what the heatmap has to hold; of closed days that are cached,
\* what the refresh that cached them had to.
HeatmapBegins ==
    /\ refresh.at = "idle"
    /\ LET today == DayAt(instant)
       IN refresh' = [at |-> IF closed.day = today THEN "closed" ELSE "query", day |-> today,
                      days |-> IF closed.day = today THEN closed.days ELSE <<>>,
                      seen |-> IF closed.day = today THEN closed.seen \cup OfDay(turns, today)
                               ELSE turns]
    /\ UNCHANGED <<instant, turns, collected, headerVars, closed, rows>>

HeatmapFails ==
    /\ refresh.at \in {"query", "closed"} /\ refresh' = NoRefresh
    /\ UNCHANGED <<instant, turns, collected, headerVars, closed, rows>>

ReadClosedDays ==
    /\ refresh.at = "query"
    /\ refresh' = [refresh EXCEPT !.at = "built",
                                  !.days = DayRows({t \in turns : t < DayStart(refresh.day)})]
    /\ UNCHANGED <<instant, turns, collected, headerVars, closed, rows>>

CacheClosedDays ==
    /\ refresh.at = "built"
    /\ refresh' = [refresh EXCEPT !.at = "closed"]
    /\ closed' = IF collected THEN [day |-> refresh.day, days |-> refresh.days,
                                    seen |-> {t \in refresh.seen : DayAt(t) < refresh.day}]
                 ELSE closed
    /\ UNCHANGED <<instant, turns, collected, headerVars, rows>>

(* MUTANT: the second read asks the clock again. *)
TodayAsksAgain == DayAt(instant)
Today == refresh.day

\* Turns from today's midnight on, of which only today's row is taken.
ReadToday ==
    /\ refresh.at = "closed"
    /\ rows' = [day |-> Today, seen |-> refresh.seen,
                days |-> Append(refresh.days, [day |-> Today, turns |-> OfDay(turns, Today)])]
    /\ refresh' = NoRefresh
    /\ UNCHANGED <<instant, turns, collected, headerVars, closed>>

TotalsNext ==
    \/ InstantPasses \/ InitialCollectDone
    \/ \E t \in 0..instant : StoreTurn(t)
    \/ StripBegins \/ StripCounts \/ StripFails \/ CacheStrip
    \/ TickBegins \/ TickCopies \/ TickFails \/ ShowHeadline
    \/ HeatmapBegins \/ HeatmapFails \/ ReadClosedDays \/ CacheClosedDays \/ ReadToday

-----------------------------------------------------------------------------
\* The heatmap is of one day: each day has one row, today's is the last, and
\* no turn is missing that was stored when its refresh began or, of closed
\* days that were cached, when the refresh began that cached them (the code
\* caches them too when the backfill was over only after they were read), also
\* if midnight passes between its two reads.
HeatmapOfOneDay ==
    rows.day # NoDay =>
        /\ \A i, j \in DOMAIN rows.days : i < j => rows.days[i].day < rows.days[j].day
        /\ Last(rows.days).day = rows.day
        /\ rows.seen \subseteq UNION {rows.days[i].turns : i \in DOMAIN rows.days}

\* The header leaves out no turn of its day that was stored when its tick
\* began, if strip and window reach back over the day, except a turn that was
\* stored late; and it shows no turn of an earlier day, and none twice but
\* those the strip's query found later than the strip's own stamp.
HeadlineOfItsDay ==
    /\ Cardinality(header.owed) <= header.tokens
    /\ header.tokens <= Cardinality(Since(turns, DayStart(header.day))) + Cardinality(header.twice)

TotalsOfTheirDay == HeatmapOfOneDay /\ HeadlineOfItsDay

TotalsSpec == TotalsInit /\ [][TotalsNext]_totalsVars
=============================================================================
