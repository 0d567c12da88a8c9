------------------------------ MODULE Readers -------------------------------
(***************************************************************************)
(* What each adapter makes of what its tool has written, and how the store *)
(* takes it.  A transcript is the sequence of its complete lines and an    *)
(* offset the number of lines before it (half-written lines: Ingest).      *)
(* A reader returns a set of events and a set of tool calls; a file's base *)
(* sets the rows of its events apart from other files'.                    *)
(***************************************************************************)
EXTENDS StoreReads, TLC

CONSTANTS
    HeaderLines,   \* headerScanLimit, in lines
    MaxLines       \* bound: lines of a transcript

ASSUME ReadersAssumption == HeaderLines \in Nat \ {0} /\ MaxLines \in Nat \ {0}

NoTools == [t \in {} |-> 0]
Synthetic0 == "synthetic"   \* the model of Claude Code's own messages

NewEvent(vendor, agent, surface, session, request, row) ==
    [vendor |-> vendor, agent |-> agent, surface |-> surface, session |-> session,
     request |-> request, row |-> row, parent |-> None, at |-> 0, model |-> None,
     project |-> None, title |-> None, input |-> 0, cw |-> Nil, cr |-> Nil, output |-> 0,
     reasoning |-> Nil, tools |-> NoTools, owner |-> None, client |-> None]

CallRow(vendor, session, call, turn, tool, at, result) ==
    [vendor |-> vendor, session |-> session, call |-> call, turn |-> turn, tool |-> tool,
     at |-> at, result |-> result]

NotZero(n) == IF n = 0 THEN Nil ELSE n

\* Lines upserted one after the other: of a key, the first of its largest output.
InTurn(P, Key(_), Output(_)) ==
    {i \in P : \A j \in P : Key(j) = Key(i) =>
        Output(j) < Output(i) \/ (Output(j) = Output(i) /\ i <= j)}

FirstOf(ls, P, F(_)) ==
    LET has == {i \in P : F(ls[i]) # None} IN IF has = {} THEN None ELSE F(ls[Min(has)])

\* A call and its results, of the lines P: the result after the call's last
\* line, or a result-only row when the call was read in an earlier pass.
PairCalls(vendor, session, ls, P, UsesAt(_), ResultsAt(_)) ==
    LET used == UNION {{<<i, u>> : u \in UsesAt(i)} : i \in P}
        got == UNION {{<<i, r>> : r \in ResultsAt(i)} : i \in P}
        Uses(c) == {x[1] : x \in {y \in used : y[2].call = c}}
        After(c, i) == {x \in got : x[2].call = c /\ x[1] > i}
        Bytes(c, i) == IF After(c, i) = {} THEN Nil
                       ELSE (CHOOSE x \in After(c, i) :
                                \A y \in After(c, i) : y[1] <= x[1])[2].bytes
    IN {CallRow(vendor, session, x[2].call, x[2].turn, x[2].tool, ls[x[1]].at,
                Bytes(x[2].call, x[1])) :
                x \in {y \in used : y[1] = Max(Uses(y[2].call))}}
       \cup {CallRow(vendor, session, x[2].call, None, None, 0, x[2].bytes) :
                x \in {y \in got : ~\E i \in Uses(y[2].call) : i < y[1]}}

-----------------------------------------------------------------------------
(* Claude transcripts.  A line is a user's (text, results) or an           *)
(* assistant's (request, model, usage, uses); usage is empty or one record.*)

ClaudeSurface(file, cwd) ==
    CASE file.root = "desktop" \/ cwd = "desktop" -> "desktop"
      [] file.root # "desktop" /\ cwd = "worktree" -> "code_agent"
      [] OTHER -> "cli"

ClaudeAgent(surface) == IF surface = "desktop" THEN "cowork" ELSE "claude-code"

Billed(ls, P) == {i \in P : /\ ls[i].kind = "assistant"
                            /\ ls[i].usage # <<>>
                            /\ ls[i].model \notin {None, Synthetic0}}

\* A billed line without an id gets the number of keys seen so far.
ClaudeKey(ls, P, i) ==
    LET before == {j \in Billed(ls, P) : j < i}
        named == {ls[j].request : j \in before} \ {None}
        unnamed == {j \in before : ls[j].request = None}
    IN IF ls[i].request # None THEN ls[i].request
       ELSE "row" \o ToString(Cardinality(named) + Cardinality(unnamed))

ToolKey(ls, from, i) ==
    IF ls[i].request # None THEN ls[i].request ELSE "toolrow" \o ToString(i - from)

\* The same key written again: the larger output, the later line of equals.
BestLine(ls, K) ==
    Max({i \in K : \A j \in K : ls[j].usage[1].output <= ls[i].usage[1].output})

\* Tool counts of a request: per tool the most any one of its lines has.
ToolsOf(ls, K) ==
    LET Count(i, t) == Cardinality({u \in ls[i].uses : u.tool = t})
    IN [t \in UNION {{u.tool : u \in ls[i].uses} : i \in K} |->
            Max({Count(i, t) : i \in K})]

ClaudeEvents(file, ls, from) ==
    LET P == (from + 1)..Len(ls)
        cwd == FirstOf(ls, P, LAMBDA l : l.cwd)
        surface == ClaudeSurface(file, cwd)
        users == {i \in P : ls[i].kind = "user"}
        tooled == {i \in P : ls[i].kind = "assistant" /\ ls[i].uses # {}}
        keys == {ClaudeKey(ls, P, i) : i \in Billed(ls, P)}
        KeyLines(k) == {i \in Billed(ls, P) : ClaudeKey(ls, P, i) = k}
        ToolLines(k) == {i \in tooled : ToolKey(ls, from, i) = k}
        \* a key of the read's own making is a row of its own
        Row(i, n) == file.base + i
                        + IF ls[i].request = None THEN MaxLines * (2 * from + n) ELSE 0
        Base(k, row) == [NewEvent("anthropic", ClaudeAgent(surface), surface, file.session,
                                  k, row) EXCEPT
                            !.project = cwd, !.title = FirstOf(ls, users, LAMBDA l : l.text),
                            !.tools = ToolsOf(ls, ToolLines(k))]
        Billing(k, i) == [Base(k, Row(i, 1)) EXCEPT
                            !.at = ls[i].at, !.model = ls[i].model,
                            !.input = ls[i].usage[1].input,
                            !.cw = NotZero(ls[i].usage[1].cw),
                            !.cr = NotZero(ls[i].usage[1].cr),
                            !.output = ls[i].usage[1].output]
    IN {Billing(k, BestLine(ls, KeyLines(k))) : k \in keys}
       \* tools whose request has no usage in this read
       \cup {Base(k, Row(Min(ToolLines(k)), 2)) :
                k \in {ToolKey(ls, from, i) : i \in tooled} \ keys}

ClaudeCalls(file, ls, from) ==
    PairCalls("anthropic", file.session, ls, (from + 1)..Len(ls),
              LAMBDA i : IF ls[i].kind # "assistant" THEN {}
                         ELSE {[call |-> u.call, tool |-> u.tool,
                                turn |-> ToolKey(ls, from, i)] : u \in ls[i].uses},
              LAMBDA i : IF ls[i].kind # "user" THEN {} ELSE ls[i].results)

\* A cloud drop is read whole every time; its rows name their session.
CloudEvents(file, ls) ==
    {[NewEvent("anthropic", "cowork-cloud", "cloud", ls[i].session, ls[i].request,
               file.base + i) EXCEPT
        !.at = ls[i].at, !.model = ls[i].model, !.input = ls[i].input,
        !.cw = NotZero(ls[i].cw), !.cr = NotZero(ls[i].cr), !.output = ls[i].output] :
            i \in InTurn({j \in DOMAIN ls : ls[j].session # None /\ ls[j].request # None},
                         LAMBDA j : <<ls[j].session, ls[j].request>>, LAMBDA j : ls[j].output)}

-----------------------------------------------------------------------------
(* Codex rollouts.  A line is a meta (cwd, surface, sub), a context (cwd,  *)
(* model), a call, an output or a count (ordinal, usage).                  *)

Kinds(ls, P, k) == {i \in P : ls[i].kind = k}

\* Whether line i is in a sub-run, by the session_meta lines of P before it.
SubRun(ls, P, i, dflt) ==
    LET metas == {j \in Kinds(ls, P, "meta") : j < i}
    IN IF metas = {} THEN dflt ELSE ls[Max(metas)].sub

\* The model in force at line i: of the last context line that was not a
\* sub-run's; a sub-run's context names the run and becomes the title.
ContextModel(ls, P, i, sub, dflt) ==
    LET of == {j \in Kinds(ls, P, "context") :
                  j < i /\ ls[j].model # None /\ ~SubRun(ls, P, j, sub)}
    IN IF of = {} THEN dflt ELSE ls[Max(of)].model

ContextTitle(ls, P, i, sub) ==
    LET of == {j \in Kinds(ls, P, "context") :
                  j < i /\ ls[j].model # None /\ SubRun(ls, P, j, sub)}
    IN IF of = {} THEN None ELSE ls[Max(of)].model

\* What a resumed read learns from the start of the file.
ScanHeaderMeta(ls, from) ==
    LET P == 1..Min({HeaderLines, Len(ls)})
        metas == Kinds(ls, P, "meta")
        last == ls[Max(metas)]
    IN IF from = 0 THEN [cwd |-> None, surface |-> "unknown", sub |-> FALSE, model |-> None]
       ELSE [cwd |-> IF metas = {} THEN None ELSE last.cwd,
             surface |-> IF metas = {} THEN "unknown" ELSE last.surface,
             sub |-> metas # {} /\ last.sub,
             model |-> ContextModel(ls, P, Len(ls) + 1, FALSE, None)]

(* MUTANT: the key an earlier build used: a counter of the read. *)
RequestIDCounts(ls, from, i) ==
    IF ls[i].ordinal # Nil THEN "o" \o ToString(ls[i].ordinal) ELSE "b" \o ToString(i - 1 - from)

\* A line without an ordinal is keyed by its offset, the same in every read.
RequestID(ls, from, i) ==
    IF ls[i].ordinal # Nil THEN "o" \o ToString(ls[i].ordinal) ELSE "b" \o ToString(i - 1)

CodexEvents(file, ls, from) ==
    LET P == (from + 1)..Len(ls)
        head == ScanHeaderMeta(ls, from)
        Before(i) == {j \in P : j < i /\ ls[j].kind \in {"meta", "context"}}
        Cwd(i) == IF head.cwd # None THEN head.cwd ELSE FirstOf(ls, Before(i), LAMBDA l : l.cwd)
        Surface(i) == LET m == {j \in Kinds(ls, P, "meta") : j < i}
                      IN IF m = {} THEN head.surface ELSE ls[Max(m)].surface
    IN {[NewEvent("openai", "codex", Surface(i), file.session, RequestID(ls, from, i),
                  file.base + i) EXCEPT
            !.at = ls[i].at, !.project = Cwd(i),
            !.model = ContextModel(ls, P, i, head.sub, head.model),
            !.title = ContextTitle(ls, P, i, head.sub),
            !.input = ls[i].input - ls[i].cached, !.cr = NotZero(ls[i].cached),
            !.output = ls[i].output, !.reasoning = NotZero(ls[i].reasoning)] :
                i \in InTurn(Kinds(ls, P, "count"), LAMBDA j : RequestID(ls, from, j),
                             LAMBDA j : ls[j].output)}

CodexCalls(file, ls, from) ==
    PairCalls("openai", file.session, ls, (from + 1)..Len(ls),
              LAMBDA i : IF ls[i].kind # "call" THEN {}
                         ELSE {[call |-> ls[i].call, tool |-> ls[i].tool, turn |-> ls[i].turn]},
              LAMBDA i : IF ls[i].kind # "output" THEN {}
                         ELSE {[call |-> ls[i].call, bytes |-> ls[i].bytes]})

-----------------------------------------------------------------------------
(* Copilot Chat in VS Code.  A line is a start (session) or an inference   *)
(* (request, model, usage); the tail keeps an offset and the session the   *)
(* next inference belongs to.                                              *)
NewTail == [offset |-> 0, session |-> None]

SessionAt(tail, ls, i) ==
    LET starts == {j \in (tail.offset + 1)..Len(ls) : j < i /\ ls[j].kind = "start"}
    IN IF starts = {} THEN tail.session ELSE ls[Max(starts)].session

\* The last line of a request stands for it within one poll; a line without an
\* id is skipped, one without a time (0) gets the time of the poll.
TailEvents(file, tail, ls, now) ==
    LET infer == {i \in (tail.offset + 1)..Len(ls) :
                    ls[i].kind = "inference" /\ ls[i].request # None}
    IN {[NewEvent("github", "copilot-vscode", "vscode", SessionAt(tail, ls, i),
                  ls[i].request, file.base + i) EXCEPT
            !.at = IF ls[i].at = 0 THEN now ELSE ls[i].at, !.model = ls[i].model,
            !.input = ls[i].input, !.output = ls[i].output] :
                i \in {j \in infer : ~\E k \in infer : k > j /\ ls[k].request = ls[j].request}}

TailPoll(tail, ls) == [offset |-> Len(ls), session |-> SessionAt(tail, ls, Len(ls) + 1)]

-----------------------------------------------------------------------------
(* The two SQLite stores that are polled whole: a Hermes session is one    *)
(* event, its running totals at the time of the poll; a Copilot CLI        *)
(* session is its newest usage row.                                        *)
HermesEvents(file, s, now) ==
    IF s.messages = 0 THEN {}
    ELSE {[NewEvent("nous", "hermes", IF s.source = "tui" THEN "cli" ELSE "unknown",
                    file.session, file.session, file.base) EXCEPT
            !.parent = s.parent, !.at = IF s.ended = 0 THEN now ELSE s.ended,
            !.model = s.model, !.project = s.cwd, !.input = s.input, !.cw = s.cw,
            !.cr = s.cr, !.output = s.output, !.reasoning = s.reasoning]}

CopilotCLIEvents(file, usage) ==
    IF usage = <<>> THEN {}
    ELSE LET u == usage[Len(usage)]
         IN {[NewEvent("github", "copilot-cli", "cli", file.session, file.session,
                       file.base) EXCEPT
                !.at = u.at, !.model = u.model, !.project = u.cwd, !.input = u.input,
                !.cw = u.cw, !.cr = u.cr, !.output = u.output, !.reasoning = u.reasoning]}

-----------------------------------------------------------------------------
(* The store: per row the largest output; a later row never wipes a result.*)
UpsertEvents(es, new) ==
    LET Old(e) == {x \in es : RowOf(x) = RowOf(e)}
        wins == {e \in new : \A x \in Old(e) : e.output > x.output}
    IN {x \in es : ~\E e \in wins : RowOf(e) = RowOf(x)} \cup wins

CallOf(c) == <<c.vendor, c.session, c.call>>

(* MUTANT: a result read in a later pass than its call finds no row to fill. *)
UpsertToolCallsOnce(cs, new) ==
    LET calls == {c \in new : c.tool # None}
    IN {x \in cs : ~\E c \in calls : CallOf(c) = CallOf(x)} \cup calls

UpsertToolCalls(cs, new) ==
    LET calls == {c \in new : c.tool # None}
        Old(c) == {x \in cs : CallOf(x) = CallOf(c)}
        Known(c) == IF c.result = Nil /\ Old(c) # {}
                    THEN (CHOOSE x \in Old(c) : TRUE).result ELSE c.result
        stored == {x \in cs : ~\E c \in calls : CallOf(c) = CallOf(x)}
                    \cup {[c EXCEPT !.result = Known(c)] : c \in calls}
        Late(x) == {c \in new : c.tool = None /\ CallOf(c) = CallOf(x)}
    IN {IF x.result = Nil /\ Late(x) # {}
        THEN [x EXCEPT !.result = (CHOOSE c \in Late(x) : TRUE).result] ELSE x : x \in stored}

=============================================================================
