------------------------------- MODULE Insight ------------------------------
(***************************************************************************)
(* internal/insight: the findings about one session's turns.  A finding is *)
(* its kind, its turn, its instant and its cause; the evidence numbers are *)
(* left out but for the turns to 80% of the window, which the Now card     *)
(* shows as the runway.                                                    *)
(***************************************************************************)
EXTENDS Prices

CONSTANTS
    CopilotFloor,      \* copilotCompactionFloor: a helper's request is below it
    RunwayTurns,       \* runwayFitTurns
    ExpensivePercent   \* expensiveTurnPercentile, in percent

ASSUME InsightAssumption ==
    /\ CopilotFloor \in Nat
    /\ RunwayTurns \in Nat \ {0}
    /\ ExpensivePercent \in 1..100

CopilotVSCode == "copilot-vscode"

Finding(kind, turn, at, cause) ==
    [kind |-> kind, turn |-> turn, at |-> at, cause |-> cause, to80 |-> 0]

\* The context turn i is compared with; Nil when there is none.  Copilot in
\* VS Code interleaves a helper model's requests with the conversation.
Baseline(ts, i) ==
    LET same == {j \in 1..(i - 1) : ts[j].model = ts[i].model}
        last == ContextOf(ts[Max(same)])
    IN IF ts[i].agent # CopilotVSCode THEN ContextOf(ts[i - 1])
       ELSE IF same = {} THEN Nil
       ELSE IF last >= CopilotFloor THEN last ELSE Nil

\* The turn whose context stands for the session now.
ContextTurn(ts) ==
    LET n == Len(ts)
        own == {i \in 1..n : ContextOf(ts[i]) >= CopilotFloor}
    IN IF ts[n].agent # CopilotVSCode \/ own = {} THEN ts[n] ELSE ts[Max(own)]

\* A drop of more than 30% while the session goes on.
CompactedAt(ts) ==
    {i \in 2..Len(ts) :
        LET before == Baseline(ts, i)
            after == ContextOf(ts[i])
        IN before > 0 /\ after < before /\ 10 * (before - after) > 3 * before}

\* The first cause that fits, in the fixed order.
ReprefillCause(ts, i, ttl) ==
    CASE i = 1 -> "resume"
      [] i > 1 /\ {i - 1, i} \cap CompactedAt(ts) # {} -> "compaction"
      [] OTHER ->
            IF ts[i - 1].model # None /\ ts[i].model # None /\ ts[i - 1].model # ts[i].model
            THEN "model"
            ELSE IF ts[i - 1].at # 0 /\ ts[i].at # 0 /\ ts[i].at - ts[i - 1].at > ttl
            THEN "gap"
            ELSE "unknown"

-----------------------------------------------------------------------------
\* Least squares over 0..n-1: the slope is Num / Den, and the line's value at
\* the last turn Level / (n * Den).
Fit(y) ==
    LET n == Len(y)
        X == 0..(n - 1)
        sx == SumOver(X, LAMBDA x : x)
        sy == SumOver(X, LAMBDA x : y[x + 1])
        sxy == SumOver(X, LAMBDA x : x * y[x + 1])
        sxx == SumOver(X, LAMBDA x : x * x)
        num == n * sxy - sx * sy
        den == n * sxx - sx * sx
    IN [num |-> num, den |-> den, level |-> sy * den - num * sx + num * n * (n - 1)]

CeilDiv(a, b) == (a + b - 1) \div b

\* Turns past the last one until the line meets target / 5; none when it is
\* there already.
TurnsTo(target, n, f) ==
    LET short == target * n * f.den - 5 * f.level
    IN IF short <= 0 THEN 0 ELSE CeilDiv(short, 5 * n * f.num)

\* No finding when the window is unknown, there are fewer than two turns, or
\* the context does not grow.
Runway(ts, cfg) ==
    LET n == Len(ts)
        before == Max({0, n - RunwayTurns})   \* turns before the fitted ones
        Left(window, f) ==
            IF window <= 0 \/ f.num <= 0 THEN {}
            ELSE {[Finding("context-runway", n, ts[n].at, "runway")
                     EXCEPT !.to80 = TurnsTo(4 * window, n - before, f)]}
    IN IF n - before < 2 THEN {}
       ELSE Left(ContextWindow(cfg, ts[n].model),
                 Fit([i \in 1..(n - before) |-> ContextOf(ts[before + i])]))

\* Strictly above the nearest-rank percentile of the session's own turns.
ExpensiveTurns(ts) ==
    LET n == Len(ts)
        rank == CeilDiv(ExpensivePercent * n, 100)
        p == CHOOSE v \in {TurnTotal(ts[i]) : i \in 1..n} :
                /\ Cardinality({j \in 1..n : TurnTotal(ts[j]) <= v}) >= rank
                /\ Cardinality({j \in 1..n : TurnTotal(ts[j]) < v}) < rank
    IN IF n < 2 THEN {}
       ELSE {Finding("expensive-turn", i, ts[i].at, "above") :
                i \in {j \in 1..n : TurnTotal(ts[j]) > p}}

\* Analyze.  The findings come as a set: their order (turn, then kind) is one
\* the readers below do not depend on but for FirstAt.
Findings(ts, cfg) ==
    LET n == Len(ts)
    IN IF n = 0 THEN {}
       ELSE {Finding("compaction", i, ts[i].at, "drop") : i \in CompactedAt(ts)}
            \cup {Finding("re-prefill", i, ts[i].at, ReprefillCause(ts, i, cfg.ttl)) :
                    i \in {j \in 1..n : Tokens(ts[j].cw) > cfg.reprefill}}
            \cup Runway(ts, cfg) \cup ExpensiveTurns(ts)

Analyze(es, cfg) == Findings(InOrder(Turns(es)), cfg)

\* Findings of one turn are sorted by kind; a ticker line carries the first.
KindOrder == <<"compaction", "context-runway", "expensive-turn", "re-prefill">>
FirstAt(fs, turn) ==
    LET here == {f \in fs : f.turn = turn}
        Rank(f) == CHOOSE k \in 1..4 : KindOrder[k] = f.kind
    IN IF here = {} THEN None
       ELSE (CHOOSE f \in here : \A g \in here : Rank(f) <= Rank(g)).kind

\* The card's gauge: Nil is "runway unknown".
RunwayText(fs) ==
    LET r == {f \in fs : f.kind = "context-runway"}
    IN IF r = {} THEN Nil ELSE (CHOOSE f \in r : TRUE).to80

=============================================================================
