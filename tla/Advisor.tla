------------------------------- MODULE Advisor ------------------------------
(***************************************************************************)
(* internal/advisor: the rules that join turns with samples of the         *)
(* machine.  Turns are ticker lines (Live), th the thresholds:             *)
(*   heavy, pressure, runaway, runawaySamples, hitDrop, hitTurns,          *)
(*   windowPercent, faults, memPercent, selfCpu, selfMem, stale, cooldown. *)
(* A system sample has at, cpu, queue, cores, disk, memUsed, memTotal, gpu *)
(* and faults (Nil: the counter could not be read); a group sample has at, *)
(* harness, cpu and mem.                                                   *)
(***************************************************************************)
EXTENDS Live

Clamp(v) == IF v < 0 THEN 0 ELSE IF v > 100 THEN 100 ELSE v

\* sysmon.PressureScore: the weighted mean of the counters that were read,
\* rounded half up.
PressureScore(s) ==
    LET part(w, on, v) == IF on THEN <<w, w * Clamp(v)>> ELSE <<0, 0>>
        parts == <<part(30, TRUE, s.cpu),
                   part(20, s.queue >= 0 /\ s.cores > 0, (100 * s.queue) \div (2 * Max({1, s.cores}))),
                   part(20, s.disk >= 0, (100 * s.disk) \div 20),
                   part(20, s.memTotal > 0, (100 * s.memUsed) \div Max({1, s.memTotal})),
                   part(10, s.gpu >= 0, s.gpu)>>
        weight == SumOver(1..5, LAMBDA i : parts[i][1])
    IN (2 * SumOver(1..5, LAMBDA i : parts[i][2]) + weight) \div (2 * weight)

Diff(a, b) == IF a < b THEN b - a ELSE a - b

\* The sample closest to at (the earlier one of two), unless it is stale.
NearestSample(history, at, stale) ==
    LET near == {i \in DOMAIN history :
                    \A j \in DOMAIN history : Diff(history[i].at, at) <= Diff(history[j].at, at)}
    IN IF near = {} THEN <<>>
       ELSE IF Diff(history[Min(near)].at, at) > stale THEN <<>>
       ELSE <<history[Min(near)]>>

LineTokens(t) == t.counts.fresh + t.counts.cw + t.counts.cr + t.counts.output
\* Without the cache reads, which only replay what the model holds.
HeavyTurnWeight(t) == t.counts.fresh + t.counts.cw + t.counts.output

\* A line's time is a whole second.
LineAt(t) == Second * t.at

\* sort.SliceStable by time: lines of one second stay in ticker order.
SortedByTime(turns) ==
    LET idx == Sorted(DOMAIN turns, LAMBDA i, j :
                    turns[i].at < turns[j].at \/ (turns[i].at = turns[j].at /\ i < j))
    IN [n \in DOMAIN idx |-> turns[idx[n]]]

\* A turn reported is not within the cooldown of one of its session's.
PastCooldown(ts, fired, i, cooldown) ==
    \A j \in fired : ts[j].key = ts[i].key => LineAt(ts[i]) - LineAt(ts[j]) >= cooldown

\* The places a rule has reported after each line.
Fired(ts, fits, cooldown) ==
    LET fired[n \in 0..Len(ts)] ==
            IF n = 0 THEN {}
            ELSE fired[n - 1] \cup
                    {i \in {n} : ts[i] \in fits /\ PastCooldown(ts, fired[n - 1], i, cooldown)}
    IN fired

\* The turns a rule reports: those that fit, but none within the cooldown of
\* the last one it reported of the same session.
Episodes(turns, fits, cooldown) ==
    LET ts == SortedByTime(turns)
    IN {ts[i] : i \in Fired(ts, fits, cooldown)[Len(ts)]}

Advice(rule, at, who) == [rule |-> rule, at |-> at, who |-> who]

\* Rule 1.
UnderPressure(in, th, t) ==
    /\ HeavyTurnWeight(t) >= th.heavy
    /\ LET s == NearestSample(in.samples, LineAt(t), th.stale)
       IN s # <<>> /\ PressureScore(s[1]) >= th.pressure

(* MUTANT: the cooldown starts at a turn that was looked at, not reported. *)
HeavyTurnPressureLookedAt(in, th) ==
    LET ts == SortedByTime(in.turns)
        Quiet(i) == \A j \in 1..(i - 1) : ts[j].key = ts[i].key =>
                        LineAt(ts[i]) - LineAt(ts[j]) >= th.cooldown
    IN {Advice("heavy-turn-pressure", LineAt(ts[i]), ts[i].key) :
            i \in {j \in DOMAIN ts : UnderPressure(in, th, ts[j]) /\ Quiet(j)}}

HeavyTurnPressure(in, th) ==
    {Advice("heavy-turn-pressure", LineAt(t), t.key) :
        t \in Episodes(in.turns, {x \in Elems(in.turns) : UnderPressure(in, th, x)},
                           th.cooldown)}

\* Rule 2: a harness that works without a turn of its agent.
HarnessAgent == [claude |-> "claude-code", claude_desktop |-> "cowork", codex |-> "codex",
                 copilot_cli |-> "copilot-cli", copilot_vscode |-> "copilot-vscode",
                 hermes |-> "hermes"]

Mean(S, F(_)) == SumOver(S, F) \div Cardinality(S)

HarnessRunaway(in, th) ==
    LET Of(h) == {g \in in.groups : g.harness = h}
        Busy(h) == /\ Cardinality(Of(h)) >= th.runawaySamples
                   /\ ~\E t \in Elems(in.turns) : t.agent = HarnessAgent[h]
                   /\ SumOver(Of(h), LAMBDA g : g.cpu) >= th.runaway * Cardinality(Of(h))
    IN {Advice("harness-runaway", Max({g.at : g \in Of(h)}), h) :
            h \in {x \in DOMAIN HarnessAgent : Busy(x)}}

\* Rule 3: the mean hit rate of the first half against that of the second,
\* in percent, of the turns that have one.
Half(ts) == Len(ts) \div 2
HitMean(ts) ==
    LET rated == {i \in DOMAIN ts : ts[i].counts.fresh + ts[i].counts.cr > 0}
    IN IF rated = {} THEN Nil
       ELSE Mean(rated, LAMBDA i :
                (100 * ts[i].counts.cr) \div (ts[i].counts.fresh + ts[i].counts.cr))

HitDrops(ts, th) ==
    LET first == HitMean(SubSeq(ts, 1, Half(ts)))
        second == HitMean(SubSeq(ts, Half(ts) + 1, Len(ts)))
    IN Len(ts) >= th.hitTurns /\ first # Nil /\ second # Nil /\ first - second >= th.hitDrop

CacheHitDrop(in, th) ==
    LET Of(k) == SortedByTime(SelectSeq(in.turns, LAMBDA t : t.key = k))
    IN {Advice("cache-hit-drop", LineAt(Last(Of(k))), k) :
            k \in {x \in {t.key : t \in Elems(in.turns)} : HitDrops(Of(x), th)}}

\* Rule 4: the newest line of a session, the first in ticker order of its
\* second.
ContextWindowRule(in, cfg, th) ==
    LET Newest(k) == CHOOSE i \in DOMAIN in.turns :
            /\ in.turns[i].key = k
            /\ \A j \in DOMAIN in.turns : in.turns[j].key = k =>
                   \/ in.turns[j].at < in.turns[i].at
                   \/ in.turns[j].at = in.turns[i].at /\ i <= j
        Full(t) == LET w == ContextWindow(cfg, t.model)
                   IN w > 0 /\ 100 * (t.counts.fresh + t.counts.cw + t.counts.cr)
                                    >= th.windowPercent * w
    IN {Advice("context-window", LineAt(in.turns[Newest(k)]), k) :
            k \in {x \in {t.key : t \in Elems(in.turns)} : Full(in.turns[Newest(x)])}}

\* Rule 5.
MemoryShort(in, th, t) ==
    LET s == NearestSample(in.samples, LineAt(t), th.stale)
    IN /\ s # <<>>
       /\ \/ s[1].faults >= 0 /\ s[1].faults >= th.faults
          \/ s[1].memTotal > 0 /\ 100 * s[1].memUsed >= th.memPercent * s[1].memTotal

HardFaultsMemory(in, th) ==
    {Advice("hard-faults-memory", LineAt(t), t.key) :
        t \in Episodes(in.turns, {x \in Elems(in.turns) : MemoryShort(in, th, x)},
                           th.cooldown)}

\* Rule 6: the application's own two groups, added up per tick.
SelfOverhead(in, th) ==
    LET own == {g \in in.groups : g.harness \in {"self", "self_webview"}}
        ticks == {g.at : g \in own}
    IN IF Cardinality(ticks) < th.runawaySamples THEN {}
       ELSE IF /\ SumOver(own, LAMBDA g : g.cpu) < th.selfCpu * Cardinality(ticks)
               /\ SumOver(own, LAMBDA g : g.mem) < th.selfMem * Cardinality(ticks)
       THEN {}
       ELSE {Advice("self-overhead", Max(ticks), "self")}

Advise(in, cfg, th) ==
    HeavyTurnPressure(in, th) \cup HarnessRunaway(in, th) \cup CacheHitDrop(in, th)
        \cup ContextWindowRule(in, cfg, th) \cup HardFaultsMemory(in, th)
        \cup SelfOverhead(in, th)

=============================================================================
