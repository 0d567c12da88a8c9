------------------------------- MODULE MCDesk -------------------------------
(***************************************************************************)
(* A week's turn, half an hour around midnight and the Monday after, seen  *)
(* by each reader in turn.  Local time is an hour ahead of UTC and the     *)
(* month turns two days later.                                             *)
(***************************************************************************)
EXTENDS Views, Books, DevHistory, DevTotals, DevTodo

CONSTANTS l1, v1, v2

VARIABLE part   \* which of them this behaviour is about

Midnight == StartOfDay(28)             \* Sunday to Monday
S(n) == Midnight + Second * n
M(n) == S(60 * n)

\* The half second after the midnight stamp is in the catalog: it is the one
\* the store's text order misplaces.
Clocks == <<M(-9), S(2), M(4), M(21)>>
NextMonday == S(7 * DayLen) + 10 * Minute

User(at, text, results) ==
    [kind |-> "user", at |-> at, cwd |-> "p1", text |-> text, results |-> results,
     request |-> None, model |-> None, usage |-> <<>>, uses |-> {}]
Reply(at, request, model, usage, uses) ==
    [kind |-> "assistant", at |-> at, cwd |-> "p1", text |-> None, results |-> {},
     request |-> request, model |-> model, usage |-> usage, uses |-> uses]
U(in, cw, cr, out) == <<[input |-> in, cw |-> cw, cr |-> cr, output |-> out]>>
Use(call, tool) == [call |-> call, tool |-> tool]

Claude == <<
    User(M(-10), "task", {}),
    Reply(M(-10) + 4, "q1", "opus", U(2, 5, 0, 1), {}),
    Reply(M(-10) + 6, "q1", "opus", U(2, 5, 0, 4), {Use("k1", "read")}),
    User(M(-9) - 2, None, {[call |-> "k1", bytes |-> 3]}),
    Reply(S(0) + 1, "q2", "haiku", U(1, 1, 2, 3), {Use("k2", "bash")}),
    Reply(S(0) + 3, "q2", "haiku", U(1, 1, 2, 3), {}),
    User(S(1), None, {[call |-> "k2", bytes |-> 4]}),
    Reply(S(2), None, "haiku", U(3, 0, 0, 2), {}),
    Reply(S(4), "q3", "haiku", U(2, 0, 0, 3), {}),
    Reply(M(4), "q4", None, <<>>, {Use("k3", "grep")}),
    Reply(M(21), "q5", "opus", U(1, 0, 9, 2), {Use("k4", "read")})>>

Line(kind, at) ==
    [kind |-> kind, at |-> at, cwd |-> None, surface |-> "unknown", sub |-> FALSE,
     model |-> None, call |-> None, tool |-> None, turn |-> None, bytes |-> 0,
     ordinal |-> Nil, input |-> 0, cached |-> 0, output |-> 0, reasoning |-> 0]
Count(at, ordinal, input, cached, output) ==
    [Line("count", at) EXCEPT !.ordinal = ordinal, !.input = input, !.cached = cached,
                              !.output = output, !.reasoning = 1]
Codex == <<
    [Line("meta", M(-10)) EXCEPT !.cwd = "p2", !.surface = "cli"],
    [Line("context", M(-10)) EXCEPT !.cwd = "p2", !.model = "gpt"],
    [Line("call", M(-9) - 10) EXCEPT !.call = "x1", !.tool = "exec", !.turn = "t1"],
    Count(M(-9) - 8, 1, 6, 2, 3),
    [Line("output", M(-9) + 2) EXCEPT !.call = "x1", !.bytes = 2],
    Count(M(-9) + 4, Nil, 4, 4, 1),
    Count(M(21), Nil, 5, 4, 2)>>

Start(at, s) == [kind |-> "start", at |-> at, session |-> s, request |-> None, model |-> None,
                 input |-> 0, output |-> 0]
Infer(at, r, in, out) == [kind |-> "inference", at |-> at, session |-> None, request |-> r,
                          model |-> "gpt", input |-> in, output |-> out]
VSCode == <<Infer(0, "i0", 1, 1), Infer(0, None, 1, 1), Start(M(-10), "v1"), Infer(M(-10), "i1", 9, 2), Infer(M(-9) + 10, "i1", 9, 3),
            Infer(S(1), "i2", 3, 2), Start(M(4), "v2"), Infer(M(4), "i3", 2, 1)>>

Cloud == <<[session |-> "d1", request |-> "z1", at |-> M(-9), model |-> "opus", input |-> 3,
            cw |-> 0, cr |-> 1, output |-> 2],
           [session |-> "d1", request |-> "z2", at |-> S(2), model |-> "opus", input |-> 1,
            cw |-> 0, cr |-> 3, output |-> 1]>>

CLIRows == <<[at |-> M(-9), model |-> "gpt", cwd |-> "p1", input |-> 2, cw |-> 0, cr |-> 0,
              output |-> 1, reasoning |-> 0],
             [at |-> S(2), model |-> "gpt", cwd |-> "p1", input |-> 4, cw |-> 1, cr |-> 2,
              output |-> 3, reasoning |-> 1]>>

SourceKind == [claude |-> "claude", cloud |-> "cloud", codex |-> "codex", vscode |-> "vscode",
               hermes |-> "hermes", cli |-> "cli"]
SourceLines == [claude |-> Claude, cloud |-> Cloud, codex |-> Codex, vscode |-> VSCode,
                hermes |-> <<>>, cli |-> CLIRows]
\* A request, a call or a copied usage is cut in two by one of these.
SourceStops == [claude |-> {2, 4, 5, 10, 11}, codex |-> {4, 6, 7}, cloud |-> {1, 2}]

\* Codex and Hermes have a session of one id: ids are unique per vendor only.
SourceFile == [claude |-> [session |-> "c1", root |-> "projects", base |-> 0],
               cloud |-> [session |-> None, root |-> "cloud", base |-> 1000],
               codex |-> [session |-> "s1", root |-> "codex", base |-> 2000],
               vscode |-> [session |-> None, root |-> None, base |-> 3000],
               hermes |-> [session |-> "s1", root |-> None, base |-> 4000],
               cli |-> [session |-> "g1", root |-> None, base |-> 5000]]

Hermes(n, out, ended) ==
    [messages |-> n, source |-> "tui", parent |-> IF n > 2 THEN "c1" ELSE None, ended |-> ended,
     model |-> "nous-1", cwd |-> "p2", input |-> n, cw |-> 0, cr |-> 0, output |-> out, reasoning |-> n - 2]
HermesStates == <<Hermes(2, 1, 0), Hermes(2, 1, 0), Hermes(4, 3, 0), Hermes(5, 4, M(20)),
                  Hermes(5, 4, M(20))>>


R(in, cw, cr, out) == [in |-> in, cw |-> cw, cr |-> cr, out |-> out]
GPT == [m \in {"gpt"} |-> R(1, 0, 1, 2)]
Rule(owner, client, remotes, paths) ==
    [owner |-> owner, client |-> client, remotes |-> remotes, paths |-> paths]
Config(rs) ==
    [anthropic |-> [opus |-> R(1, 2, 1, 3), haiku |-> R(1, 1, 0, 2)], openai |-> GPT,
     copilot |-> GPT, openaiPrices |-> GPT, factor |-> 1, calibrated |-> TRUE,
     families |-> [opus |-> R(1, 2, 1, 3)], fallback |-> R(1, 1, 0, 2),
     windows |-> [opus |-> 20, gpt |-> 12], reprefill |-> 3, ttl |-> 5 * Minute,
     idle |-> 5 * Minute, running |-> 15 * Minute, plan |-> "pro", plans |-> [pro |-> 30], credit |-> 3,
     owners |-> rs]
Saves == <<Config(<<>>),
           Config(<<Rule("work", "acme", {"r1"}, {}), Rule("own", None, {}, {"p1", "p2"})>>)>>
Remotes == [p \in {"p1", "p2", None} |-> IF p = "p1" THEN "r1" ELSE None]

Desk(sources, instants, configs) ==
    [sources |-> sources, instants |-> instants, configs |-> configs]
Machines == {Desk({"claude"}, Append(Clocks, NextMonday), SubSeq(Saves, 2, 2)),
             Desk({"codex", "hermes"}, Clocks, SubSeq(Saves, 2, 2)),
             Desk({"vscode", "cloud"}, Clocks, SubSeq(Saves, 1, 1)),
             Desk({"cli", "hermes"}, Append(Clocks, NextMonday), Saves)}

\* One for every threshold of the Station.
Waits == <<0, 5 * Second, 20 * Second, 70 * Second, 4 * Minute, 11 * Minute>>

Reading(at, cpu, faults) ==
    [at |-> at, cpu |-> cpu, queue |-> -1, cores |-> 4, disk |-> -1, memUsed |-> 1,
     memTotal |-> 2, gpu |-> -1, faults |-> faults]
History0 == <<Reading(M(-10), 90, 0), Reading(M(-9), 95, -1), Reading(S(0), 100, 6),
              Reading(S(4), 100, 6), Reading(M(4), 10, 0)>>
GroupRows == {[at |-> M(m), harness |-> h, cpu |-> 30, mem |-> 1] :
                m \in {-9, 0, 4}, h \in {"claude", "hermes", "self", "self_webview"}}
Limits == [heavy |-> 4, pressure |-> 60, runaway |-> 20, runawaySamples |-> 2, hitDrop |-> 20,
           hitTurns |-> 2, windowPercent |-> 50, faults |-> 5, memPercent |-> 90,
           selfCpu |-> 50, selfMem |-> 100, stale |-> 30 * Second, cooldown |-> 3 * Second]

\* A turn of the week before and one of the week after the midnight; views
\* on the Sunday, the Monday and the Monday after.
Booked == {e \in ClaudeEvents(SourceFile.claude, Claude, 0) : e.at \in {M(-10) + 6, S(4)}}
Mondays == <<M(-5), M(5), NextMonday>>

-----------------------------------------------------------------------------
(* One run checks the views, the forecast's books and burnmon-dev's parts, *)
(* which share no state: a behaviour is about one, the others are at rest. *)
(* Of the totals, the header and the heatmap only read the same turns.     *)

NoViews == ViewsInit /\ on.sources = {"cli", "hermes"}

\* Minimized, at the last instant: nothing is left to do.
NoHistory ==
    /\ time = MaxTime /\ hidden = TRUE
    /\ hist = [b \in Buffers |-> <<>>] /\ asked = {}
    /\ view = [ring |-> hist, waited |-> 0, now |-> 0]
    /\ ghost = [taken |-> hist, hides |-> MaxHides, bad |-> MaxBad]

NoTodo == TodoInit /\ token = "none"

DeskInit ==
    /\ BooksInit /\ TotalsInit
    /\ \/ part = "views" /\ ViewsInit /\ NoHistory /\ NoTodo
       \/ part = "history" /\ NoViews /\ HistoryInit /\ NoTodo
       \/ part \in {"forecast", "header", "heatmap"} /\ NoViews /\ NoHistory /\ NoTodo
       \/ part = "todo" /\ NoViews /\ NoHistory /\ TodoInit

DeskNext ==
    /\ UNCHANGED part
    /\ \/ part = "views" /\ ViewsNext /\ UNCHANGED <<booksVars, historyVars, totalsVars, todoVars>>
       \/ part = "forecast" /\ BooksNext /\ UNCHANGED <<viewVars, historyVars, totalsVars, todoVars>>
       \/ part = "history" /\ HistoryNext /\ UNCHANGED <<viewVars, booksVars, totalsVars, todoVars>>
       \/ /\ \/ part = "header" /\ TotalsNext /\ UNCHANGED <<collected, heatmapVars>>
             \/ part = "heatmap" /\ TotalsNext /\ UNCHANGED headerVars
          /\ UNCHANGED <<viewVars, booksVars, historyVars, todoVars>>
       \/ part = "todo" /\ TodoNext /\ UNCHANGED <<viewVars, booksVars, historyVars, totalsVars>>

DeskSpec ==
    /\ DeskInit
    /\ [][DeskNext]_<<part, viewVars, booksVars, historyVars, totalsVars, todoVars>>
    /\ HistoryFairness
=============================================================================
