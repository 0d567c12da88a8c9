-------------------------------- MODULE Views --------------------------------
(***************************************************************************)
(* What the pages show of one store, while the readers fill it: transcripts*)
(* read a few lines at a time or again from their start, the polled tools, *)
(* a tail that is restarted, an owner rule saved and applied, and time     *)
(* passing.  Reading and storing are one step here; their interleavings    *)
(* are Ingest's.                                                           *)
(***************************************************************************)
EXTENDS Readers, Live, History, Forecast, DevExport

CONSTANTS
    Desks,        \* the machines: their sources, the clock's readings and the
                  \* configuration before and after each save
    Kind,         \* [source -> "claude", "cloud", "codex", "vscode", "hermes", "cli"]
    File,         \* [source -> its session, root and first row]
    Lines,        \* [source -> what its tool writes]; empty for hermes
    Stops,        \* bound: [transcript -> the lines an ingest may find to be its last]
    HermesAt,     \* [clock -> the Hermes session's running totals]
    Remote,       \* [project -> its git remote]
    SlotLength,   \* seconds of one chart slot
    Delays,       \* how long a page is left open with nothing written
    Samples, Groups, Thresholds   \* the machine's history, for the advisor

-----------------------------------------------------------------------------
(* What the readers count on in what the tools write.                      *)

IsTranscript(f) == Kind[f] \in {"claude", "cloud", "codex"}
AllNat(S) == \A n \in S : n \in Nat

\* 0 is no time at all; 1, the instant inside that second, is nobody's.
IsStamp(t) == t \in Nat \ {1}

\* The projects a transcript or a table names.
ProjectsOf(f) ==
    CASE Kind[f] \in {"claude", "cli"} -> {l.cwd : l \in Elems(Lines[f])}
      [] Kind[f] = "codex" ->
            {Lines[f][i].cwd : i \in {j \in DOMAIN Lines[f] :
                                        Lines[f][j].kind \in {"meta", "context"}}}
      [] OTHER -> {}

\* A request's lines repeat its figures, only the output grows, and the ids of
\* a tool never look like the keys a read makes up for lines without one.
ClaudeWrites(ls) ==
    LET Made == {"row" \o ToString(n) : n \in 0..Len(ls)}
                  \cup {"toolrow" \o ToString(n) : n \in 0..Len(ls)}
        billed == Billed(ls, DOMAIN ls)
    IN /\ \A i \in DOMAIN ls : IsStamp(ls[i].at) /\ ls[i].request \notin Made
       /\ \A i \in billed :
            LET u == ls[i].usage[1]
            IN AllNat({u.input, u.cw, u.cr, u.output}) /\ u.output > 0
       /\ \A i, j \in billed :
            (/\ ls[i].request = ls[j].request /\ ls[i].request # None
             /\ ls[i].usage[1].output = ls[j].usage[1].output)
                => ls[i].usage[1] = ls[j].usage[1]

\* The cached input is part of the input, and a counted reply is not empty.
CodexWrites(ls) ==
    \A i \in Kinds(ls, DOMAIN ls, "count") :
        /\ IsStamp(ls[i].at)
        /\ AllNat({ls[i].input, ls[i].cached, ls[i].output, ls[i].reasoning})
        /\ ls[i].cached <= ls[i].input /\ ls[i].output > 0

CloudWrites(ls) ==
    \A i \in DOMAIN ls :
        IsStamp(ls[i].at) /\ AllNat({ls[i].input, ls[i].cw, ls[i].cr, ls[i].output})

CopilotCLIWrites(ls) == CloudWrites(ls) /\ \A i \in DOMAIN ls : ls[i].reasoning \in Nat

VSCodeWrites(ls) ==
    \A i \in DOMAIN ls :
        IsStamp(ls[i].at) /\ (ls[i].kind = "inference" => AllNat({ls[i].input, ls[i].output}))

\* The calls a line makes, by the readers' own conditions, and the results it
\* brings.
UsesAt(f, i) ==
    LET l == Lines[f][i]
    IN CASE Kind[f] = "claude" /\ l.kind = "assistant" ->
                {[call |-> u.call, tool |-> u.tool] : u \in l.uses}
         [] Kind[f] = "codex" /\ l.kind = "call" -> {[call |-> l.call, tool |-> l.tool]}
         [] OTHER -> {}
GotAt(f, i) ==
    LET l == Lines[f][i]
    IN CASE Kind[f] = "claude" /\ l.kind = "user" -> l.results
         [] Kind[f] = "codex" /\ l.kind = "output" -> {[call |-> l.call, bytes |-> l.bytes]}
         [] OTHER -> {}

\* A call has an id of its own and a name; its result comes after it and does
\* not change.
PairsUp(f) ==
    \A i \in DOMAIN Lines[f] :
        /\ IsFiniteSet(UsesAt(f, i)) /\ IsFiniteSet(GotAt(f, i))
        /\ \A u \in UsesAt(f, i) :
             /\ u.tool # None /\ IsStamp(Lines[f][i].at)
             /\ \A v \in UsesAt(f, i) : v.call = u.call => v = u
        /\ \A r \in GotAt(f, i) :
             /\ r.bytes \in Nat
             /\ \A j \in DOMAIN Lines[f] :
                  /\ \A s \in GotAt(f, j) : s.call = r.call => s.bytes = r.bytes
                  /\ \A u \in UsesAt(f, j) : u.call = r.call => j < i

Writes(f) ==
    /\ Lines[f] \in Seq(Elems(Lines[f])) /\ Len(Lines[f]) <= MaxLines
    /\ Kind[f] \in {"claude", "cloud", "codex", "vscode", "hermes", "cli"}
    /\ Kind[f] = "claude" => ClaudeWrites(Lines[f])
    /\ Kind[f] = "codex" => CodexWrites(Lines[f])
    /\ Kind[f] = "cloud" => CloudWrites(Lines[f])
    /\ Kind[f] = "cli" => CopilotCLIWrites(Lines[f])
    /\ Kind[f] = "vscode" => VSCodeWrites(Lines[f])
    /\ IsTranscript(f) => PairsUp(f)
    /\ ProjectsOf(f) \subseteq DOMAIN Remote
    /\ File[f].base \in Nat

\* The sessions a source writes, as the store names them.
SessionsOf(f) ==
    CASE Kind[f] = "claude" -> {<<"anthropic", File[f].session>>}
      [] Kind[f] = "cloud" -> {<<"anthropic", l.session>> : l \in Elems(Lines[f])}
      [] Kind[f] = "codex" -> {<<"openai", File[f].session>>}
      [] Kind[f] = "vscode" -> {<<"github", l.session>> : l \in Elems(Lines[f])}
                                 \cup {<<"github", None>>}
      [] Kind[f] = "hermes" -> {<<"nous", File[f].session>>}
      [] OTHER -> {<<"github", File[f].session>>}

\* The rows a source may take.
RowSpan == MaxLines * (2 * MaxLines + 3)

\* Two sources share no row and no session: a session's id is the name of its
\* one file, or the id its tool gave it.
Apart(f, g) ==
    /\ File[f].base + RowSpan < File[g].base \/ File[g].base + RowSpan < File[f].base
    /\ SessionsOf(f) \cap SessionsOf(g) = {}

\* A machine has one Copilot log at most, and its clock goes on.
IsDesk(d) ==
    /\ \A f \in d.sources : Writes(f) /\ (IsTranscript(f) => Stops[f] \subseteq Nat)
    /\ \A f, g \in d.sources : f # g => Apart(f, g) /\ ~(Kind[f] = "vscode" /\ Kind[g] = "vscode")
    /\ d.instants \in Seq(Nat \ {1}) /\ d.instants # <<>>
    /\ \A i, j \in DOMAIN d.instants : i <= j => d.instants[i] <= d.instants[j]
    /\ \A c \in DOMAIN d.instants :
        LET s == HermesAt[c]
        IN /\ IsStamp(s.ended) /\ AllNat({s.input, s.cw, s.cr, s.output, s.reasoning})
           /\ s.cwd \in DOMAIN Remote
    /\ d.configs \in Seq(Elems(d.configs)) /\ d.configs # <<>>

ASSUME ViewsAssumption == \A d \in Desks : IsDesk(d)
ASSUME RemoteAssumption == None \in DOMAIN Remote

\* Every name a row may carry: what a tool or the owner rules of a save say.
AllNames ==
    LET configs == UNION {Elems(d.configs) : d \in Desks}
    IN DOMAIN Remote \cup {None}
        \cup {OwnerFor(c, Remote[p], p) : c \in configs, p \in DOMAIN Remote}
        \cup {ClientFor(c, Remote[p], p) : c \in configs, p \in DOMAIN Remote}

\* The redaction counts on its hash to tell the names of a machine apart.
ASSUME HiddenAssumption ==
    \A kind \in {"project", "owner", "client"} : \A v, w \in AllNames :
        /\ (Hidden(kind, v) = Hidden(kind, w)) <=> v = w
        /\ v # None => Hidden(kind, v) # v
ASSUME ThresholdsAssumption == Thresholds.cooldown \in Nat \ {0}
\* The chart has whole slots: the pages ask for 60 or 10 seconds of 30 minutes.
ASSUME SlotAssumption == SlotLength \in Nat \ {0} /\ ChartWindow % SlotLength = 0

\* A rate is a number, of any sign and in any unit.
Rated(book) == \A m \in DOMAIN book : \A c \in {"in", "cw", "cr", "out"} : book[m][c] \in Int
ASSUME PricesAssumption ==
    \A d \in Desks : \A c \in Elems(d.configs) :
        Rated(c.anthropic) /\ Rated(c.openaiPrices) /\ Rated(c.copilot) /\ c.factor \in Int

VARIABLES
    on,       \* the machine of this behaviour
    read,     \* [source -> lines of it in the store], the ingest cursor
    tail,     \* the Copilot VS Code tail
    clock,    \* which of its instants it is
    rules,    \* which of its configurations is in force
    events, calls    \* the store's tables

viewVars == <<on, read, tail, clock, rules, events, calls>>

Now == on.instants[clock]
cfg == on.configs[rules]

\* What has been written by now.
Written(f) == Cardinality({i \in DOMAIN Lines[f] : Lines[f][i].at <= Now})
Text(f, n) == SubSeq(Lines[f], 1, n)
Of(kind) == {f \in on.sources : Kind[f] = kind}
Transcripts == {f \in on.sources : IsTranscript(f)}

Owner(e) == OwnerFor(cfg, Remote[e.project], e.project)
Client(e) == ClientFor(cfg, Remote[e.project], e.project)
Stamped(es) == {[e EXCEPT !.owner = Owner(e), !.client = Client(e)] : e \in es}
\* The Hermes and Copilot CLI pollers leave the client open.
Owned(es) == {[e EXCEPT !.owner = Owner(e)] : e \in es}

ParseEvents(f, ls, from) ==
    CASE Kind[f] = "claude" -> ClaudeEvents(File[f], ls, from)
      [] Kind[f] = "cloud" -> CloudEvents(File[f], ls)
      [] OTHER -> CodexEvents(File[f], ls, from)

ParseCalls(f, ls, from) ==
    CASE Kind[f] = "claude" -> ClaudeCalls(File[f], ls, from)
      [] Kind[f] = "cloud" -> {}
      [] OTHER -> CodexCalls(File[f], ls, from)

-----------------------------------------------------------------------------
ViewsInit ==
    /\ on \in Desks
    /\ read = [f \in on.sources |-> 0]
    /\ tail = NewTail
    /\ clock = 1 /\ rules = 1
    /\ events = {} /\ calls = {}

Take(f, from, n) ==
    /\ events' = UpsertEvents(events, Stamped(ParseEvents(f, Text(f, n), from)))
    /\ calls' = UpsertToolCalls(calls, ParseCalls(f, Text(f, n), from))
    /\ read' = [read EXCEPT ![f] = n]
    /\ UNCHANGED <<on, tail, clock, rules>>

\* An ingest that finds the file grown.
Read(f) == \E n \in Stops[f] : read[f] < n /\ n <= Written(f) /\ Take(f, read[f], n)

\* A backfill, or an ingest that has lost its cursor: from the start.
ReadAgain(f) == read[f] > 0 /\ Take(f, 0, read[f])

PollVSCode(f) ==
    LET ls == Text(f, Written(f))
    IN /\ events' = UpsertEvents(events, Stamped(TailEvents(File[f], tail, ls, Now)))
       /\ tail' = TailPoll(tail, ls)
       /\ UNCHANGED <<on, read, clock, rules, calls>>

\* A new process reads the file from its start.
RestartTail == tail' = NewTail /\ UNCHANGED <<on, read, clock, rules, events, calls>>

PollHermes(f) ==
    /\ events' = UpsertEvents(events, Owned(HermesEvents(File[f], HermesAt[clock], Now)))
    /\ UNCHANGED <<on, read, tail, clock, rules, calls>>

PollCopilotCLI(f) ==
    /\ events' = UpsertEvents(events, Owned(CopilotCLIEvents(File[f], Text(f, Written(f)))))
    /\ UNCHANGED <<on, read, tail, clock, rules, calls>>

TimePasses ==
    /\ clock < Len(on.instants) /\ clock' = clock + 1
    /\ UNCHANGED <<on, read, tail, rules, events, calls>>

\* A settings save changes what is stamped from now on; burnmon-cli reown
\* brings the stored rows along.
SaveRules ==
    /\ rules < Len(on.configs) /\ rules' = rules + 1
    /\ UNCHANGED <<on, read, tail, clock, events, calls>>

Reown ==
    /\ events' = ReownEvents(events, LAMBDA p : OwnerFor(cfg, Remote[p], p),
                                     LAMBDA p : ClientFor(cfg, Remote[p], p))
    /\ UNCHANGED <<on, read, tail, clock, rules, calls>>

ViewsNext ==
    \/ \E f \in Transcripts : Read(f) \/ ReadAgain(f)
    \/ \E f \in Of("vscode") : PollVSCode(f) \/ RestartTail
    \/ \E f \in Of("hermes") : PollHermes(f)
    \/ \E f \in Of("cli") : PollCopilotCLI(f)
    \/ TimePasses \/ SaveRules \/ Reown

-----------------------------------------------------------------------------
(* The pages, asked for at the instant t.                                  *)
RecentAt(t) == EventsSince(events, t - ChartBack)
Recent == RecentAt(Now)

\* bmLive and bdevSnapshotNow.
LiveViewAt(t) ==
    [BuildSnapshot(RecentAt(t), cfg, t, SlotLength) EXCEPT
        !.sessions = [k \in DOMAIN @ |-> ApplySessionTotals(@[k], events, cfg)]]
LiveView == LiveViewAt(Now)

Rooms(sessions, t) == [k \in DOMAIN sessions |-> StageOf(sessions[k], calls, t)]
StagesAt(t) == Rooms(LiveViewAt(t).sessions, t)

\* burnmon-dev's export of the same window.
Window == Now - ChartBack
Ticker == BuildTurns(Recent, cfg, Window, Now, 0)
Exported == RunExport(events, Samples, Groups, cfg, Thresholds, Window, Now, FALSE)[1]
\* The bundle of another window, its findings and samples left out.
Rows(since, until) == Assemble(EventsSince(events, since), cfg, <<>>, {}, since, until, {})
RowsOfDay(d) == Rows(ParseExportTime(d, FALSE), ParseExportTime(d, TRUE))

AnyPeriod(period) ==
    [period |-> period, from |-> Nil, to |-> Nil, vendor |-> None, owner |-> None,
     client |-> None]
Book == SessionsFromEvents(events, cfg)
Label == "this machine"
Export == BuildExport(events, cfg, Label)

-----------------------------------------------------------------------------
(* Properties.                                                             *)

\* Turns of the second after t that the order of text puts before t.
LostAt(t) == SumOver({e \in Turns(events) : e.at > t /\ ~TextGE(e.at, t)}, TurnTotal)

PagesByDay(book, days, daily, history) ==
    /\ DOMAIN days = DOMAIN daily
    /\ \A d \in DOMAIN days :
         /\ days[d].all.tokens = daily[d]
         /\ history.rows[d].totals.tokens = daily[d]
         /\ SumOver(DOMAIN history.rows[d].vendors,
                    LAMBDA v : history.rows[d].vendors[v].tokens) = daily[d]
    /\ SumOver(DOMAIN history.clients, LAMBDA c : history.clients[c].tokens)
         = SumOver({e \in events : e.client # None}, TurnTotal)
    /\ HeadlineUSD(cfg, events).usd = SumOver(book, LAMBDA s : s.all.sub)

\* The merge adds the reasoning to an output that has it already.
PagesByWeek(weeks, merged) ==
    \A w \in DOMAIN weeks :
        LET reasons == \E e \in Turns(events) : WeekOf(LocalDay(e.at)) = w /\ Tokens(e.reasoning) # 0
        IN /\ weeks[w].all.tokens = ActualTokensForWeek(events, w) + LostAt(WeekStart(w))
           /\ ~reasons => merged[w][Label] = weeks[w].all.tokens

PagesNow(book, days, months, strip, forecast) ==
    LET From(d) == SumOver({x \in DOMAIN days : x >= d}, LAMBDA x : days[x].all.tokens)
        b == StripBounds(Now)
        today == LocalDay(Now)
        left == CopilotCreditsLeft(cfg, CreditMonth(events, Now))
        spent == SumOver({s \in book : s.key[1] = "github"}, LAMBDA s : s.all.sub)
    IN /\ \A i \in DOMAIN left : left[i].left >= left[i].per * cfg.plans[cfg.plan] - spent
       /\ strip.today + LostAt(b.day) = From(today)
       /\ strip.week + LostAt(b.week) = From(FirstOfWeek(WeekOf(today)))
       /\ strip.month + LostAt(b.month) = AtDay([m \in DOMAIN months |-> months[m].all.tokens],
                                                MonthOf(today))
       /\ forecast.history[6] = From(today)
       /\ ~forecast.locked =>
            /\ forecast.live.endOfDay >= From(today)
            /\ forecast.live.endOfMonth >= strip.month

\* With a week scored the forecast is unlocked; its books are Books.tla.
Scored == {[week |-> 0, plan |-> 1, actual |-> <<1>>]}

PagesAgree(book) ==
    LET both == Merge(<<Export, [schema |-> ExportSchema, label |-> "b", rows |-> {}]>>)[1]
    IN /\ PagesByDay(book, AggDays(book, 0), DailyTokenTotals(events, 0, 0),
                     BuildHistory(events, cfg, AnyPeriod("day")))
       /\ PagesByWeek(AggWeeks(book, 0), both.weeks)
       /\ PagesNow(book, AggDays(book, 0), AggMonths(book, 0), VendorStrip(events, Now).total,
                   BuildForecast(events, Scored, cfg, Now))

\* Every page counts the same tokens and the same money: the sessions
\* (fromstore, agg), History, the forecast's days and scored weeks, and the
\* vendor strip, but for a turn in the first second after a boundary, which a
\* comparison of text puts before it.  The merge of exports counts the same
\* only in weeks without reasoning tokens, which it counts twice.  It is said
\* of the desks a run gives: a calibrated subscription, one OpenAI price in
\* both tables, and a time on every turn, without which the pages do differ.
TotalsAgree == events # {} => PagesAgree(Book)

Figure(e) == <<RowOf(e), e.input, e.cw, e.cr, e.output, e.reasoning>>
Whole(f) == ParseEvents(f, Text(f, read[f]), 0)
Ided(f) == {i \in DOMAIN Lines[f] : Kind[f] = "claude" => Lines[f][i].request # None}
FromIds(f, e) == Kind[f] = "claude" => \E i \in Ided(f) : Lines[f][i].request = e.request

\* However a transcript was cut into reads, and read again, the store has the
\* token figures one read of it gives, for every request that carries an id.
ReadsLoseNothing ==
    \A f \in Transcripts :
        {Figure(e) : e \in {x \in Turns(events) : /\ File[f].base < x.row
                                               /\ x.row <= File[f].base + Len(Lines[f])
                                               /\ FromIds(f, x)}}
          = {Figure(e) : e \in {x \in Turns(Whole(f)) : FromIds(f, x)}}

Trail(c) == <<CallOf(c), c.tool, c.at, c.result>>

\* The same for tool calls: a result read in a later pass than its call, or a
\* call read again, leaves what one read of the whole file gives.
CallsLoseNothing ==
    \A f \in Transcripts :
        LET whole == {c \in ParseCalls(f, Text(f, read[f]), 0) : c.tool # None}
            known == {c \in calls : KeyOf(c) \in SessionsOf(f)}
            totals == ToolCallTotals(known, 0)
        IN /\ \A c \in whole : \E d \in calls : Trail(d) = Trail(c)
           /\ SumOver(DOMAIN totals, LAMBDA t : totals[t].bytes)
                = SumOver(whole, LAMBDA c : Tokens(c.result))

\* The tokens of a set of sums by class.
ClassTokens(sums) ==
    SumOver(DOMAIN sums, LAMBDA k : sums[k].fresh + sums[k].cw + sums[k].cr + sums[k].output)

SessionsAddUp(live) ==
    \A k \in DOMAIN live.sessions : \E s \in Book :
        /\ s.key = k
        /\ s.all.tokens = live.sessions[k].tokens
        /\ s.all.calls = live.sessions[k].turnCount
        /\ s.all.sub = live.sessions[k].cost

TokensBefore(turns, t) ==
    SumOver({i \in DOMAIN turns : turns[i].at < AsSecond(t)}, LAMBDA i : LineTokens(turns[i]))

ChartAddsUp(live) ==
    LET from == WindowStart(Now, SlotLength)
        Bars == SumOver(DOMAIN live.chart, LAMBDA i : ClassTokens(live.chart[i].bars))
        edge == {e \in Charted(Recent, from, Now) :
                    AsSecond(e.at) = AsSecond(Now) /\ e.at < from + ChartBack}
    IN Len(live.turns) < TurnTickerCap =>
         Bars = TokensBefore(live.turns, Now) + SumOver(edge, TurnTotal)

PlacesStand(live) ==
    \A k \in DOMAIN live.tree :
        (\A j \in DOMAIN live.tree : j[2] = k[2] => j = k) => live.tree[k].shows = k

AddsUp(live) == SessionsAddUp(live) /\ ChartAddsUp(live) /\ PlacesStand(live)

\* The Now page adds up: a running session's figures are those of its
\* session page, the chart's bars hold the ticker's turns (of a ticker that
\* has them all, but for a turn at the chart's very edge) and every running
\* session has its place.
LiveAddsUp == Recent # {} => AddsUp(LiveView)

IsOf(l, d) == d # <<>> /\ d[1].key = l.key /\ d[1].at = l.at /\ d[1].counts = l.counts

\* The drawer opened from a ticker line shows that line's turn, and the
\* session's insight its finding, when the session began inside the window
\* and no other vendor has its id.
DrawerMatchesTicker ==
    \A l \in Elems(Ticker) :
        LET whole == \A e \in Turns(EventsForSession(events, l.key[2])) :
                        KeyOf(e) = l.key /\ e \in Charted(Recent, Window, Now)
        IN whole => /\ IsOf(l, BuildTurnDetail(events, calls, cfg, l.key[2], l.turn))
                    /\ FirstAt(BuildSessionInsight(events, cfg, l.key[2]), l.turn) = l.finding

\* How far a room is from its work.
Rest(room) ==
    CASE room.stage = "arriving" -> 0
      [] room.stage = "compacting" -> 1
      [] room.stage = "thinking" -> 3
      [] room.stage = "waiting" -> 4
      [] room.stage = "dormant" -> 5
      [] OTHER -> 2

Rests(stages) ==
    \A i \in 2..Len(stages) : \A k \in DOMAIN stages[i - 1] \cap DOMAIN stages[i] :
        /\ Rest(stages[i - 1][k]) <= Rest(stages[i][k])
        /\ stages[i][k].since <= Now + Delays[i]

\* Left alone a session only comes to rest: from arriving over its work and
\* thinking to waiting and dormant, never back, and no room has been entered
\* in the future, although its turns leave the window meanwhile.
StageComesToRest ==
    Recent # {} => Rests([i \in DOMAIN Delays |-> StagesAt(Now + Delays[i])])

Reports(in, found) ==
    LET Reported(rule, t) == \E a \in found :
            /\ a.rule = rule /\ a.who = t.key
            /\ a.at <= LineAt(t) /\ LineAt(t) - a.at < Thresholds.cooldown
    IN /\ \A t \in Elems(in.turns) :
            /\ UnderPressure(in, Thresholds, t) => Reported("heavy-turn-pressure", t)
            /\ MemoryShort(in, Thresholds, t) => Reported("hard-faults-memory", t)
       /\ \A a, b \in found :
            (a # b /\ a.rule = b.rule /\ a.who = b.who) =>
                Diff(a.at, b.at) >= Thresholds.cooldown

\* Every turn that fits an episode rule is reported, or follows a reported
\* one of its session within the cooldown; reports keep that distance.
EpisodesReported ==
    events # {} =>
        Reports(AdvisorInput(events, Samples, Groups, cfg, Window, Now), Exported.findings)

Names(t) == <<t.project, t.owner, t.client>>
SameRows(s, r) ==
    /\ DOMAIN s = DOMAIN r
    /\ \A i \in DOMAIN s : \A n \in 1..3 :
        /\ Names(s[i])[n] # None => Names(r[i])[n] # Names(s[i])[n]
        /\ \A j \in DOMAIN s : (Names(s[i])[n] = Names(s[j])[n])
                                    <=> (Names(r[i])[n] = Names(r[j])[n])

Redacts(open, closed) ==
    /\ SameRows(open.turns, closed.turns) /\ SameRows(open.top, closed.top)
    /\ closed.totals = open.totals

HasDay(b, d, tokens) ==
    /\ ClassTokens(b.totals) + LostAt(StartOfDay(d)) = tokens
    /\ ClassTokens(b.daily) = ClassTokens(b.totals)
    /\ \A k \in DOMAIN b.daily : k[1] = d
    /\ \A i \in DOMAIN b.turns : b.turns[i].at < b.until

\* burnmon-dev.exe export of one local day, --since and --until naming it,
\* carries that day of the forecast's daily totals, under that day's date, but
\* for the turns in the first second of the day that a comparison of text puts
\* before it (LostAt); its per-model totals add up to its turns.  A redacted
\* bundle has the same rows with every name replaced, the summary's too, and
\* still tells two names apart.
BundleAgrees ==
    LET open == Rows(Window, Now)
        HasDays(days) == \A d \in DOMAIN days : HasDay(RowsOfDay(d), d, days[d])
    IN events # {} => /\ HasDays(DailyTokenTotals(events, 0, 0))
                      /\ Redacts(open, Redact(open))

=============================================================================
