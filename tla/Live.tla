-------------------------------- MODULE Live --------------------------------
(***************************************************************************)
(* internal/live: the Now page's snapshot, the turn ticker, the chart and  *)
(* the turn drawer, from what the store returns.  Labels, models and       *)
(* projects that are only copied through are left out of the records.      *)
(***************************************************************************)
EXTENDS Insight, Stage, StoreReads

CONSTANT ChartWindow   \* seconds; the code's 30 minutes
ASSUME LiveAssumption == ChartWindow \in Nat \ {0}

ChartBack == ChartWindow * Second
TurnTickerCap == 50
Vendors == <<"anthropic", "github", "nous", "openai">>   \* in the order of their names
VendorRank(v) == CHOOSE i \in DOMAIN Vendors : Vendors[i] = v

TurnCost(cfg, e) == EventCost(cfg, e).sub
Sub(cfg, es) == SumOver(es, LAMBDA e : TurnCost(cfg, e))

TurnsOf(es, k) == InOrder({e \in Turns(es) : KeyOf(e) = k})
Elems(s) == {s[i] : i \in DOMAIN s}

-----------------------------------------------------------------------------
(* BuildSnapshot.                                                          *)

\* Sessions whose last turn is inside the running window.
RunningKeys(es, cfg, now) ==
    {k \in {KeyOf(e) : e \in Turns(es)} :
        LET ts == TurnsOf(es, k)
            last == ts[Len(ts)].at
        IN last # 0 /\ now - last <= cfg.running}

\* One vendor's events: its headline, the empty sequence without a book.
HeadlineOf(cfg, es) ==
    LET c == CostForEvents(cfg, es)
    IN IF c = <<>> THEN <<>> ELSE c[CHOOSE v \in DOMAIN c : TRUE]

LiveCard(k, ts, cfg, found) ==
    LET last == ts[Len(ts)]
        ctx == ContextTurn(ts)
    IN [key |-> k, agent |-> ts[1].agent, start |-> ts[1].at, lastTurn |-> last.at,
        turnCount |-> Len(ts), context |-> ContextOf(ctx),
        window |-> ContextWindow(cfg, ctx.model),
        tokens |-> SumOver(Elems(ts), TurnTotal),
        cost |-> Sub(cfg, Elems(ts)), business |-> HeadlineOf(cfg, Elems(ts)),
        hit |-> <<Tokens(last.cr), last.input + Tokens(last.cr)>>,
        client |-> FirstNonEmpty(ts, LAMBDA e : e.client),
        findings |-> found, runway |-> RunwayText(found), turns |-> ts]

LiveSession(es, k, cfg) ==
    LET ts == TurnsOf(es, k) IN LiveCard(k, ts, cfg, Analyze(Elems(ts), cfg))

\* Sessions are kept by bare id: of two vendors' sessions with one id, the
\* later vendor's stands for both.
ByID(ks, id) ==
    LET same == {k \in ks : k[2] = id}
    IN CHOOSE k \in same : \A j \in same : VendorRank(j[1]) <= VendorRank(k[1])

\* The parent an id is nested under: that of its first turn.
ParentOf(es, ks, id) ==
    LET named == {k \in ks : k[2] = id /\ TurnsOf(es, k)[1].parent # None}
    IN IF named = {} THEN None ELSE TurnsOf(es, ByID(named, id))[1].parent

\* The tree: one place per running key, what it shows and under whom.  A
\* parent that is not running leaves its subagent at the top.
Tree(es, cfg, now) ==
    LET ks == RunningKeys(es, cfg, now)
        ids == {k[2] : k \in ks}
    IN [k \in ks |->
          LET p == ParentOf(es, ks, k[2])
          IN [shows |-> ByID(ks, k[2]),
              under |-> IF p \in ids /\ p # k[2] THEN p ELSE None]]

\* The chart's right edge is the first slot border at or after now.
WindowStart(now, bs) ==
    LET w == bs * Second IN w * CeilDiv(now, w) - ChartBack

Charted(es, from, now) ==
    {e \in Turns(es) : e.at # 0 /\ e.at >= from /\ e.at <= now}

\* [slot -> its turns]; a turn beyond the last slot is dropped.
Chart(es, now, bs) ==
    LET from == WindowStart(now, bs)
        Slot(e) == (e.at - from) \div (bs * Second)
    IN [i \in 0..(ChartWindow \div bs - 1) |-> {e \in Charted(es, from, now) : Slot(e) = i}]

\* A slot's bars, by bare session id, and its cost.
SlotBars(cfg, es) ==
    [bars |-> [s \in {e.session : e \in es} |-> Classes({e \in es : e.session = s})],
     cost |-> Sub(cfg, es)]

\* The agent of every charted session, uncapped; the last event wins.
ChartAgents(es, now, bs) ==
    LET rows == Charted(es, WindowStart(now, bs), now)
    IN [s \in {e.session : e \in rows} |->
            (CHOOSE e \in rows : /\ e.session = s
                                 /\ \A d \in rows : d.session = s => ~StoreOrder(e, d)).agent]

ChartProjects(es, now, bs) == ChartAgents({e \in es : e.project # None}, now, bs)

-----------------------------------------------------------------------------
(* The ticker: every turn of the window, numbered inside the window, newest *)
(* second first, limit lines (0: all).                                      *)
TickerLine(cfg, ts, i) ==
    [key |-> KeyOf(ts[i]), turn |-> i, at |-> AsSecond(ts[i].at), agent |-> ts[i].agent,
     model |-> ts[i].model, counts |-> Classes({ts[i]}),
     finding |-> FirstAt(Analyze(Elems(ts), cfg), i)]

Capped(lines, limit) ==
    IF limit > 0 /\ Len(lines) > limit THEN SubSeq(lines, 1, limit) ELSE lines

BuildTurns(es, cfg, from, now, limit) ==
    LET rows == Charted(es, from, now)
        keys == {KeyOf(e) : e \in rows}
        FirstRow(k) == CHOOSE e \in rows :
            KeyOf(e) = k /\ \A d \in rows : KeyOf(d) = k => ~StoreOrder(d, e)
        lines == UNION {{TickerLine(cfg, TurnsOf(rows, k), i) : i \in DOMAIN TurnsOf(rows, k)} :
                            k \in keys}
        Before(a, b) ==
            \/ a.at > b.at
            \/ a.at = b.at /\ a.key # b.key /\ StoreOrder(FirstRow(a.key), FirstRow(b.key))
            \/ a.at = b.at /\ a.key = b.key /\ a.turn < b.turn
    IN Capped(Sorted(lines, Before), limit)

\* The running sessions that are kept.
Shown(ks) == {ByID(ks, k[2]) : k \in ks}

\* What bmLive returns.
BuildSnapshot(es, cfg, now, bs) ==
    [sessions |-> [k \in Shown(RunningKeys(es, cfg, now)) |-> LiveSession(es, k, cfg)],
     tree |-> Tree(es, cfg, now),
     chart |-> [i \in DOMAIN Chart(es, now, bs) |-> SlotBars(cfg, Chart(es, now, bs)[i])],
     turns |-> BuildTurns(es, cfg, WindowStart(now, bs), now, TurnTickerCap),
     agents |-> ChartAgents(es, now, bs)]

-----------------------------------------------------------------------------
(* The drawer, from the session's whole history, of any vendor.            *)
(* MUTANT: the drawer counts every stored row, tool-only ones too. *)
BuildTurnDetailAnyRow(es, cs, cfg, session, turn) ==
    LET ts == InOrder(EventsForSession(es, session))
        e == ts[turn]
    IN IF turn \notin 1..Len(ts) THEN <<>>
       ELSE <<[key |-> KeyOf(e), turn |-> turn, at |-> AsSecond(e.at), counts |-> Classes({e})]>>

BuildTurnDetail(es, cs, cfg, session, turn) ==
    LET ts == InOrder(Turns(EventsForSession(es, session)))
        e == ts[turn]
    IN IF turn \notin 1..Len(ts) THEN <<>>
       ELSE <<[key |-> KeyOf(e), turn |-> turn, at |-> AsSecond(e.at),
               counts |-> Classes({e}), cost |-> TurnCost(cfg, e),
               gap |-> IF turn > 1 THEN e.at - ts[turn - 1].at ELSE Nil,
               calls |-> ToolCallsForTurn(cs, e.vendor, session, e.request),
               findings |-> {f \in Analyze(Elems(ts), cfg) : f.turn = turn}]>>

BuildSessionInsight(es, cfg, session) == Analyze(EventsForSession(es, session), cfg)

-----------------------------------------------------------------------------
(* ApplySessionTotals: a running session's figures over its whole life,    *)
(* priced per model from the summed classes.                               *)
Synthetic(row) ==
    [vendor |-> row.key[1], model |-> row.model, input |-> row.input,
     cw |-> row.cw, cr |-> row.cr, output |-> row.output]

(* MUTANT: the start stays the first turn the window still has. *)
ApplySessionTotalsButStart(s, es, cfg) ==
    LET rows == SessionTotals(es, {s.key})
    IN [s EXCEPT !.tokens = SumOver(rows, LAMBDA r : r.input + r.cw + r.cr + r.output),
                 !.turnCount = SumOver(rows, LAMBDA r : r.count),
                 !.cost = Sub(cfg, {Synthetic(r) : r \in rows})]

ApplySessionTotals(s, es, cfg) ==
    LET rows == SessionTotals(es, {s.key})
    IN IF rows = {} THEN s
       ELSE [s EXCEPT !.tokens = SumOver(rows, LAMBDA r : r.input + r.cw + r.cr + r.output),
                      !.turnCount = SumOver(rows, LAMBDA r : r.count),
                      !.cost = Sub(cfg, {Synthetic(r) : r \in rows}),
                      !.business = HeadlineOf(cfg, {Synthetic(r) : r \in rows}),
                      !.start = Min({r.minAt : r \in rows})]

\* Copilot in VS Code and the Cowork cloud drop never record a tool call.
NoToolTrail(agent) == agent \in {CopilotVSCode, "cowork-cloud"}

\* A Codex call's key matches no turn: it belongs to the newest turn when it
\* is later than the turn before it.
InLatestTurn(ts, c, windowStart) ==
    LET n == Len(ts)
        prev == IF n > 1 THEN ts[n - 1].at ELSE windowStart
    IN IF n = 0 THEN FALSE
       ELSE IF c.turn # None /\ c.turn = ts[n].request THEN TRUE
       ELSE IF \E i \in 1..n : ts[i].request = c.turn THEN FALSE
       ELSE c.at > prev

StageOf(s, cs, now) ==
    LET latest == LatestToolCalls(cs, {s.key})
        has == s.key \in DOMAIN latest
        c == latest[s.key]
        compactions == {f.at : f \in {g \in s.findings : g.kind = "compaction"}}
    IN Classify([now |-> now,
                 start |-> Second * AsSecond(s.start),
                 lastTurn |-> s.turns[Len(s.turns)].at,
                 tool |-> IF has THEN c.tool ELSE None,
                 toolAt |-> IF has THEN c.at ELSE 0,
                 toolDone |-> has /\ c.result # Nil,
                 inLatestTurn |-> has /\ InLatestTurn(s.turns, c, now - ChartBack),
                 compactedAt |-> IF compactions = {} THEN 0 ELSE Max(compactions),
                 noToolTrail |-> NoToolTrail(s.agent)])

=============================================================================
