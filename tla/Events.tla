------------------------------- MODULE Events -------------------------------
(***************************************************************************)
(* schema.Event, the instants the store keeps as text, and the local       *)
(* calendar every view cuts time by.                                       *)
(*                                                                         *)
(* An instant counts half seconds: the even one is a whole second, the odd *)
(* one any instant inside it.  0 is the zero time.  Two simplifications of *)
(* the calendar: every month has MonthDays days and no day is a DST day.   *)
(***************************************************************************)
EXTENDS Integers, Sequences, FiniteSets, FiniteSetsExt, SequencesExt

CONSTANTS
    Zone,       \* local time is UTC plus Zone seconds
    MonthDays   \* bound: days of a month

ASSUME EventsAssumption == Zone \in Nat /\ MonthDays \in Nat \ {0}

Second == 2
Minute == 60 * Second
DayLen == 86400

\* A token class the vendor does not have, a session with no parent, an event
\* with no model.
Nil == -1
None == "none"

Tokens(x) == IF x = Nil THEN 0 ELSE x

\* A tool-only event of the Claude adapter carries neither model nor tokens:
\* it is no API call.
IsTurn(e) == ~(e.model = None /\ e.input = 0 /\ e.output = 0)

TurnTotal(e) == e.input + Tokens(e.cw) + Tokens(e.cr) + e.output
ContextOf(e) == e.input + Tokens(e.cw) + Tokens(e.cr)

KeyOf(e) == <<e.vendor, e.session>>
RowOf(e) == <<e.vendor, e.session, e.request>>

Turns(es) == {e \in es : IsTurn(e)}
SumOver(es, F(_)) == SumFunctionOnSet([e \in es |-> F(e)], es)

\* S as a sequence: an element's place is the number of those before it.
SortedBy(S, R) ==
    LET Place(x) == 1 + Cardinality({y \in S : <<y, x>> \in R})
        at == {<<Place(x), x>> : x \in S}
    IN [i \in 1..Cardinality(S) |-> (CHOOSE p \in at : p[1] = i)[2]]

\* A set in the order Before, which is total on it.
Sorted(S, Before(_, _)) == SortedBy(S, {p \in S \X S : Before(p[1], p[2])})

\* sort.SliceStable by At; events of one instant keep the store's order,
\* which is that of their rows.
InOrder(es) ==
    Sorted(es, LAMBDA a, b : a.at < b.at \/ (a.at = b.at /\ a.row < b.row))

-----------------------------------------------------------------------------
(* RFC3339Nano drops a zero fraction: "10:00:00Z" sorts after every        *)
(* "10:00:00.5Z" as text, although it is the earlier instant.  The store   *)
(* compares and orders text.                                               *)
AsText(t) == 2 * (t \div 2) + 1 - (t % 2)

\* RFC3339, what the pages get: whole seconds.
AsSecond(t) == t \div 2

-----------------------------------------------------------------------------
\* Local days count from a Monday that is the first of a month.
LocalDay(t) == (AsSecond(t) + Zone) \div DayLen
UTCDay(t) == AsSecond(t) \div DayLen
StartOfDay(d) == Second * (d * DayLen - Zone)
WeekOf(d) == d \div 7
MonthOf(d) == d \div MonthDays
FirstOfWeek(w) == 7 * w
FirstOfMonth(m) == MonthDays * m

=============================================================================
