------------------------------- MODULE Books -------------------------------
(***************************************************************************)
(* forecast.EnsureScored, which every view of the forecast runs first,     *)
(* over the store's table forecast_scores.  Windows, browser tabs and      *)
(* programs view it at the same time over one store; what a view read is   *)
(* in its hands until it writes, each store call is a step, and a view may *)
(* end after any of them, with an error or with its program.  Turns reach  *)
(* the store meanwhile, also those of a week that is over.                 *)
(***************************************************************************)
EXTENDS Forecast

CONSTANTS
    Viewers,    \* who views the forecast
    BookTurns,  \* the turns that may reach the store
    BookTimes   \* the instants of the clock

ASSUME BooksAssumption == BookTimes # <<>>

VARIABLES
    scores,     \* forecast_scores
    stored,     \* the turns in the store
    moment,     \* which instant it is
    viewing     \* [Viewers -> its EnsureScored]

booksVars == <<scores, stored, moment, viewing>>

\* now is the instant the view was asked at, tokens the figure read last,
\* due the weeks still to score; listed (ghost) those it found due.
NoViewing == [pc |-> "idle", now |-> 0, tokens |-> 0, due |-> {}, listed |-> {}]

BooksInit ==
    /\ scores = {} /\ stored = {} /\ moment = 1
    /\ viewing = [v \in Viewers |-> NoViewing]

-----------------------------------------------------------------------------
ViewAt(v, pc) == viewing[v].pc = pc
ThisWeek(v) == WeekOf(LocalDay(viewing[v].now))
WithViewing(v, call) == viewing' = [viewing EXCEPT ![v] = call]

\* Is this week on the books?
ViewForecast(v) ==
    LET now == BookTimes[moment]
        known == ForecastScore(scores, WeekOf(LocalDay(now))) # {}
    IN /\ ViewAt(v, "idle")
       /\ WithViewing(v, [NoViewing EXCEPT !.pc = IF known THEN "list" ELSE "plan", !.now = now])
       /\ UNCHANGED <<scores, stored, moment>>

ReadPlan(v) ==
    /\ ViewAt(v, "plan")
    /\ WithViewing(v, [viewing[v] EXCEPT !.pc = "insert",
                                         !.tokens = PlanTokensForWeek(stored, ThisWeek(v))])
    /\ UNCHANGED <<scores, stored, moment>>

InsertPlan(v) ==
    /\ ViewAt(v, "insert")
    /\ scores' = InsertForecastPlan(scores, ThisWeek(v), viewing[v].tokens)
    /\ WithViewing(v, [viewing[v] EXCEPT !.pc = "list"])
    /\ UNCHANGED <<stored, moment>>

NextWeek(due) == IF due = {} THEN "done" ELSE "score"

ListWeeks(v) ==
    LET due == Due(scores, viewing[v].now)
    IN /\ ViewAt(v, "list")
       /\ WithViewing(v, [viewing[v] EXCEPT !.pc = NextWeek(due), !.due = due, !.listed = due])
       /\ UNCHANGED <<scores, stored, moment>>

\* Oldest first.
OldestDue(v) == CHOOSE w \in viewing[v].due : \A x \in viewing[v].due : w <= x

ReadActual(v) ==
    /\ ViewAt(v, "score")
    /\ WithViewing(v, [viewing[v] EXCEPT !.pc = "record",
                                         !.tokens = ActualTokensForWeek(stored, OldestDue(v))])
    /\ UNCHANGED <<scores, stored, moment>>

RecordActual(v) ==
    LET rest == viewing[v].due \ {OldestDue(v)}
    IN /\ ViewAt(v, "record")
       /\ scores' = RecordForecastActual(scores, OldestDue(v), viewing[v].tokens)
       /\ WithViewing(v, [viewing[v] EXCEPT !.pc = NextWeek(rest), !.due = rest])
       /\ UNCHANGED <<stored, moment>>

\* The view goes on to what it shows, a call of it fails, or its program
\* ends.
LeaveForecast(v) ==
    /\ ~ ViewAt(v, "idle")
    /\ WithViewing(v, NoViewing)
    /\ UNCHANGED <<scores, stored, moment>>

LateTurn ==
    /\ \E e \in BookTurns \ stored :
         /\ e.at <= BookTimes[moment]
         /\ stored' = stored \cup {e}
    /\ UNCHANGED <<scores, moment, viewing>>

NextMoment ==
    /\ moment < Len(BookTimes) /\ moment' = moment + 1
    /\ UNCHANGED <<scores, stored, viewing>>

BooksNext ==
    \/ \E v \in Viewers :
         \/ ViewForecast(v) \/ ReadPlan(v) \/ InsertPlan(v) \/ ListWeeks(v)
         \/ ReadActual(v) \/ RecordActual(v) \/ LeaveForecast(v)
    \/ LateTurn \/ NextMoment

-----------------------------------------------------------------------------
\* What is on the books stays: a week's plan, and its actual once it has one.
Recorded ==
    \A s \in scores : \E t \in scores' :
        t.week = s.week /\ t.plan = s.plan /\ (s.actual # <<>> => t.actual = s.actual)

\* A view that is through has its week on the books, and every week it found
\* to be due has its actual, whoever wrote them.
Served ==
    \A v \in Viewers : ViewAt(v, "done") =>
        /\ ForecastScore(scores, ThisWeek(v)) # {}
        /\ \A w \in viewing[v].listed : \A s \in ForecastScore(scores, w) : s.actual # <<>>

\* A week's plan is written once and its actual once, whatever views overlap,
\* fail half-way or write what they read long ago, and whatever is stored
\* late; and a view that comes through leaves behind what it came for.
ScoresAreFinal == [][Recorded]_booksVars /\ []Served
=============================================================================
