----------------------------- MODULE StoreReads -----------------------------
(***************************************************************************)
(* internal/store: the queries the views are built on, over a set of rows  *)
(* of the events table and a set of rows of tool_calls.  Every bound on at *)
(* is a comparison of text (AsText).                                       *)
(***************************************************************************)
EXTENDS Events

TextGE(at, from) == AsText(at) >= AsText(from)

\* ORDER BY at, the row breaking a tie.
StoreOrder(a, b) == AsText(a.at) < AsText(b.at) \/ (AsText(a.at) = AsText(b.at) /\ a.row < b.row)

FirstNonEmpty(ts, F(_)) ==
    LET has == {i \in DOMAIN ts : F(ts[i]) # None}
    IN IF has = {} THEN None ELSE F(ts[Min(has)])

\* The four token classes of a set of rows.
Classes(es) ==
    [fresh |-> SumOver(es, LAMBDA e : e.input), cw |-> SumOver(es, LAMBDA e : Tokens(e.cw)),
     cr |-> SumOver(es, LAMBDA e : Tokens(e.cr)), output |-> SumOver(es, LAMBDA e : e.output)]

EventsSince(es, from) == {e \in es : TextGE(e.at, from)}
EventsForSession(es, session) == {e \in es : e.session = session}

(* MUTANT: grouped by session alone, under the model of its first turn. *)
SessionTotalsOneModel(es, keys) ==
    LET rows == {e \in Turns(es) : KeyOf(e) \in keys}
        Group(k) == {e \in rows : KeyOf(e) = k}
    IN {[key |-> k, model |-> InOrder(Group(k))[1].model,
         input |-> SumOver(Group(k), LAMBDA e : e.input),
         cw |-> SumOver(Group(k), LAMBDA e : Tokens(e.cw)),
         cr |-> SumOver(Group(k), LAMBDA e : Tokens(e.cr)),
         output |-> SumOver(Group(k), LAMBDA e : e.output),
         count |-> Cardinality(Group(k)),
         minAt |-> AsText(Min({AsText(e.at) : e \in Group(k)}))] : k \in {KeyOf(e) : e \in rows}}

\* One row per vendor, session and model, whole life, tool-only rows left out.
\* AsText is its own inverse: the first turn is the one whose text is least.
SessionTotals(es, keys) ==
    LET rows == {e \in Turns(es) : KeyOf(e) \in keys}
        Group(g) == {e \in rows : KeyOf(e) = g.key /\ e.model = g.model}
    IN {[key |-> g.key, model |-> g.model,
         input |-> SumOver(Group(g), LAMBDA e : e.input),
         cw |-> SumOver(Group(g), LAMBDA e : Tokens(e.cw)),
         cr |-> SumOver(Group(g), LAMBDA e : Tokens(e.cr)),
         output |-> SumOver(Group(g), LAMBDA e : e.output),
         count |-> Cardinality(Group(g)),
         minAt |-> AsText(Min({AsText(e.at) : e \in Group(g)}))] :
            g \in {[key |-> KeyOf(e), model |-> e.model] : e \in rows}}

\* [day -> tokens] over the days that have a turn at or after from, before to
\* (0: no upper bound).  The bounds are compared in SQL, the day is cut in Go.
DailyTokenTotals(es, from, to) ==
    LET rows == {e \in Turns(es) :
                    TextGE(e.at, from) /\ (to # 0 => AsText(e.at) < AsText(to))}
    IN [d \in {LocalDay(e.at) : e \in rows} |->
            SumOver({e \in rows : LocalDay(e.at) = d}, TurnTotal)]

\* Tokens today, this week and this month, per agent.
VendorStripTotals(es, day, week, month) ==
    LET from == Min({day, week, month})
        rows == EventsSince(es, from)
        Since(a, t) == SumOver({e \in rows : e.agent = a /\ TextGE(e.at, t)}, TurnTotal)
    IN [a \in {e.agent : e \in rows} |->
            [today |-> Since(a, day), week |-> Since(a, week), month |-> Since(a, month)]]

-----------------------------------------------------------------------------
\* tool_calls.  A call's done is "its result has landed".

ToolCallsForTurn(cs, vendor, session, turn) ==
    {c \in cs : c.vendor = vendor /\ c.session = session /\ c.turn = turn}

\* By instant, not by text (julianday).
LatestToolCalls(cs, keys) ==
    LET Of(k) == {c \in cs : KeyOf(c) = k}
    IN [k \in {x \in keys : Of(x) # {}} |->
            CHOOSE c \in Of(k) : \A d \in Of(k) : d.at <= c.at]

ToolCallTotals(cs, since) ==
    LET rows == {c \in cs : TextGE(c.at, since)}
        Of(t) == {c \in rows : c.tool = t}
    IN [t \in {c.tool : c \in rows} |->
            [calls |-> Cardinality(Of(t)),
             sessions |-> Cardinality({c.session : c \in Of(t)}),
             bytes |-> SumOver(Of(t), LAMBDA c : Tokens(c.result))]]

-----------------------------------------------------------------------------
\* ReownEvents: every row gets what the rules of the moment say.
ReownEvents(es, OwnerOf(_), ClientOf(_)) ==
    {[e EXCEPT !.owner = OwnerOf(e.project), !.client = ClientOf(e.project)] : e \in es}

-----------------------------------------------------------------------------
\* The vendor strip and its boundaries.
StripBounds(now) ==
    LET d == LocalDay(now)
    IN [day |-> StartOfDay(d), week |-> StartOfDay(FirstOfWeek(WeekOf(d))),
        month |-> StartOfDay(FirstOfMonth(MonthOf(d)))]

VendorStrip(es, now) ==
    LET b == StripBounds(now)
        rows == VendorStripTotals(es, b.day, b.week, b.month)
        All(F(_)) == SumOver(DOMAIN rows, LAMBDA a : F(rows[a]))
    IN [rows |-> rows,
        total |-> [today |-> All(LAMBDA r : r.today), week |-> All(LAMBDA r : r.week),
                   month |-> All(LAMBDA r : r.month)]]

\* GitHub's allowance resets on the UTC calendar.
CreditMonth(es, now) ==
    EventsSince(es, Second * DayLen * FirstOfMonth(MonthOf(UTCDay(now))))

=============================================================================
