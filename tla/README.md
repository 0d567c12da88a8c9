# burnmon in TLA+

burnmon reads the transcripts that coding agents (Claude Code, Cowork, Codex,
Copilot, Hermes) write on a machine, keeps one row per API request in a SQLite
store, and shows tokens and cost from it: as a dashboard (`cmd/burnmon`), as a
live desk for developers (`cmd/burnmon-dev`), as tables (`cmd/burnmon-cli`).
This directory holds the TLA+ models of its core, the TLC configurations that
check them and the proofs of their main invariants. Paths are relative to the
repository.

## The system

| Part | State it keeps | Operations | Hard parts | Module |
| --- | --- | --- | --- | --- |
| Transcripts (external) | files of JSON lines, growing | create (again, too), append, half-written line, rewrite, delete, move | written at any time, by another process | Ingest |
| Store (`internal/store`) | tables `events`, `tool_calls`, `cursors`, `meta`, `forecast_scores` | upserts, `SetCursor`, prune, reads, reown, resets, migrations; each one transaction | shared by several goroutines and programs; a crash between two transactions; time compared as text | Ingest, Collect, StoreReads, Readers, Books |
| Ingest core (`dataset.Cache.ingest`) | locals of one call | cursor, stat, parse, upsert in batches, cursor | runs concurrently with itself on one path | Ingest |
| Collection (`dataset.Cache.Collect`) | `SlowFiles`, `RootsByAdapter` | full and fast pass, backfill, prune, payload | prune against live ingest; stale lists | Collect |
| Adapters (`internal/adapter/*`) | none per call; Copilot's tail keeps offsets | `Parse` from an offset, `Poll` | incremental reads must add up to one whole read | Readers |
| Live watcher (`internal/watch`) | tail set, WSL mtimes, watched directories, pending reads | notifications, tail tick, WSL poll, `AddRoot`, `Close` | lost notifications, races at directory creation and at shutdown | WinWatch, TreeWatch, PollWatch |
| Application (`cmd/burnmon`) | config, `building`, `dashboard.html`, page | startup, tickers, refresh, settings save, page serving | dropped rebuilds, order of startup, torn page | App |
| Aggregation (`dataset/fromstore.go`, `agg`, `history`, `live`, `insight`, `stage`, `vendorstrip`) | none | pure functions of the stored rows | one instant cut to days, weeks and windows in many places | Events, Sessions, History, Live, Stage, Insight |
| Pricing (`internal/pricing`) | none | cost, credits, owner rules | several price paths for one turn | Prices |
| Forecast (`internal/forecast`) | one row per ISO week | plan, score | recorded once, by whoever comes first, in separate store calls | Forecast, Books |
| Advisor (`internal/advisor`) | none | rules over turns and samples | cooldowns and episodes | Advisor |
| Exports (`internal/export`, `merge`, `devexport`) | none | bundle, merge, redaction | same rows, other cuts | History, DevExport |
| Desk (`cmd/burnmon-dev`) | sample buffers, page rings, headline and heatmap caches, To Do token | sampling, page calls, cache refreshes, sign-in | late and lost answers, midnight, stale caches | DevHistory, DevTotals, DevTodo |
| CLI (`cmd/burnmon-cli`) | none | one collection per command, reown, export, merge | shares the store with the application | Collect, History, Views |
| Cloud plugin (`tools/burnmon-cloud`) | cloud-drop file | extract, settle, write in place | check, then write | - |

How they interact: the watcher, the tail poller, the WSL poller and every
collection call `ingest`, without a common lock; only the store's transactions
order them. A collection ends by pruning what it did not list and reading every
event back. `rebuild` admits one collection at a time per program; the CLI and
burnmon-dev may run over the same store file. `ingest` reports a cursor that
moved to the tail (`SetOnAdvance`). The pages never call each other: they agree
only if each of them cuts and adds the same stored rows in the same way.

What makes each part correct:

- ingest: no line is skipped by a cursor; a request's count never goes down; a
  tool result is never wiped; nothing is stored that no line says.
- collection: every line is read in the end; what is deleted is forgotten; what
  is there is not forgotten.
- adapters: reading a file in pieces gives what reading it at once gives.
- watcher: every change of a watched file leads to an ingest after it, or to a
  line in the log; closing ends; no buffer is used while the kernel owns it.
- application: a saved setting is on disk, and on the page in the end; the page
  catches up with the agents; one writer of the page at a time.
- pages: all of them count the same tokens and the same money.
- forecast: a week is planned once and scored once.
- desk: the page's rings hold what was sampled, once each, in order; a total is
  of the day it is shown under; a sign-in is not undone by an older look.

`PROJECT.json` lists the components with their status, every hazard at its line,
and which definition models which lines.

## Modules

### The store and its writers

`Ingest.tla` models `Cache.ingest` (`internal/dataset/dataset.go`), the store
calls it makes and the transcripts it reads. One variable per table (`events`,
`toolCalls` and `toolResults`, `cursor`), `at` and `inode` for the file system,
`proc` for the locals of each goroutine's call. Every read or write of shared
state is one action: `ReadCursor`, `Stat`, `Parse`, `UpsertEvents` and
`UpsertToolCalls` (one per batch), `SetCursor`. `StoreError`, `ReadError` and
`Crash` are the failures; `Create`, `Recreate` (a path that was deleted gets a
transcript again), `Write`, `Tear`, `Rewrite`, `Delete` and `Move` are the
agents' side. A transcript is a sequence of lines plus perhaps half of one, and a
line is what the adapter takes from it. A path is of one session here; the
cloud-drop file, whose rows name their session each (`cloud.go:31`), is not, and
is only in `Readers`. The `ino` field of a
cursor is a ghost: which content its offset counts lines of.

`Replica.tla` is the abstract store: a copy that learns facts from a growing
truth and forgets none. `Ingest!GrowOnly` says that Ingest implements it under
the mapping `Written` and `Known`, where facts are downward closed ("this
request reached at least n output tokens"), so that lowering a count would be
forgetting.

`Collect.tla` extends Ingest with `Cache.Collect` and its callers: `Startup`,
`Refresh` and `FastPass` (what `rebuild` is called with; `reached` are the WSL
paths whose distribution answered the probe), `ExtendLiveWatch`, `SetMeta` for the
tool-call backfill, `ListStale` and `Prune` for the two halves of
`DeleteEventsForOtherPaths`, `Publish`, and the failures and the restart, which
leaves only the store. `Apps` are the collectors that are windowed programs:
they have the startup pass and the poller, which a CLI run has not. `cut` is a
ghost: the sessions pruned while somebody still counted on them.

### Watching

`Feed.tla` is the abstract promise of a watching mechanism: a change made under
a watched root is told after it was made, or declared lost, and nothing is told
once Close has returned. `NativeBackend.tla` has what the mechanisms share (the
tree, the files' versions, the operating system's half `kern`, the backend's
record `book`, its goroutine `run`, the caller of `Close`) and the mapping to
Feed; `KeepsPromise` is the refinement.

- `WinWatch.tla`, `watch_windows.go`: one overlapped read per root, owned by the kernel
  (`Complete`, `Abort`) until its completion is on the port; `run` takes completions
  (`Inspect`), decodes the buffer, re-arms and dispatches, or recovers from an error; if
  the port itself fails it (`TakeFails`) it logs and ends, and what it was to drain is
  never counted off; `AddRoot`, `CloseRoot` and `CloseEnds` are other threads.
  `draining` is the WaitGroup's counter.
- `TreeWatch.tla`, `watch_other.go`: New's walk and run's walks as stacks of
  visits, fsnotify's event queue, directories and files created and removed
  between a visit and its listing. A watch that cannot be added to a directory
  (`RefuseDir`) is logged and the walk goes on below it: that directory is left to
  the rescan, as the comment says (`watch_other.go:50`).
- `PollWatch.tla`, `watch.go` and `tail.go`: `Start`'s seeds, `Track`, the tail
  tick with its cap (`starved` is what the last tick left out), the WSL poll with
  its mtimes, `AddWSLRoots` before or after `Start`, `Stop`. Called before
  (`closer.early`), it starts a poller and `Start` a second one.

A behaviour of `MCFeed.tla` follows one of the three, which share no state.

### The application

`App.tla` models `cmd/burnmon`: `rebuild` with its `building` flag as `Start`,
`Snapshot` (the settings copy), `Collect`, `Truncate` and `Finish` (the page is
rewritten in place) and `Return`; `seat`, which a restart of the window reads from the
saved settings and one of the browser build from its flag; its callers startup, fast and
WSL ticker, Refresh now and settings save; `applySettings` (temporary file, rename, then
the running config); and the page, in a window or in a browser tab (`ServeRead` and
`ServeStamp` are separate: `servePage` reads the file before its stamp). What a
collection reads is one version per tier; `Collect.tla` says what it does to the store.

### The pages

These modules are operators over a set of stored rows, as the Go packages are
pure functions over a slice. `Events.tla` has the row, time as instants and the
local calendar; `StoreReads.tla` the store's queries, with the order of their
time stamps as text; `Readers.tla` what each adapter makes of a transcript and
how upserts merge it; `Prices.tla` the price paths and owner rules;
`Sessions.tla` the session rebuild and its aggregates; `History.tla` the History
page, the team export and its merge; `Live.tla` the Now page's snapshot, chart,
tree and turn drawer; `Insight.tla` the findings about a session's turns;
`Stage.tla` the room a session is in; `Forecast.tla` plan, score and live line
and the store calls on the table of scores;
`Advisor.tla` the rules over turns and samples; `DevExport.tla` the developer
bundle and its redaction.

`Views.tla` composes them. Its actions are the writers in short (`Read` some more
lines of a transcript, `ReadAgain` from its start, the three polls,
`RestartTail`, `SaveRules`, `Reown`, `TimePasses`); its
invariants ask several pages about the same store. Reading and storing are one
step here, since their interleavings are Ingest's. What the readers count on in
the files that the vendors' tools write is stated before the actions, as
`ViewsAssumption`.

`Books.tla` is the one part of the pages that writes: `forecast.EnsureScored`,
which each view of the forecast runs first, store call by store call (`ViewForecast`,
`ReadPlan`, `InsertPlan`, `ListWeeks`, `ReadActual`, `RecordActual`), by several
viewers at once, any of whom may fail or end between two of them (`LeaveForecast`),
while turns arrive late and weeks end.

### The desk

`DevHistory.tla` (samplers, buffers, the page's rings and its calls in flight),
`DevTotals.tla` (vendor strip, the header that each tick computes from it and
from the chart's window, and the heatmap's caches, over midnight) and
`DevTodo.tla` (token file, status loop, task loop, device-code sign-in) are the
three stateful parts of `cmd/burnmon-dev`. `MCDesk.tla` gives the data of
`Views` and `Books` and checks all of them in one run: a behaviour is about one
(of DevTotals, about the header or the heatmap), the others stand still.

### Proofs and instances

`IngestProofs.tla`, `CollectProofs.tla`, `WinWatchProofs.tla`,
`TreeWatchProofs.tla`, `PollWatchProofs.tla`, `AppProofs.tla`, `DeskProofs.tla`
(DevTodo, DevTotals, DevHistory and Books) and `ViewsProofs.tla` (Views, hence Events,
Readers and the pages it composes) hold the theorems. `MCIngest.tla`,
`MCCollect.tla`, `MCFeed.tla` and `MCDesk.tla` give the constants their values.

Operators marked MUTANT are plausible bugs of the definition after them; nothing
uses them, `PROJECT.json` ("mutants") says which property catches which.

## Runs

| Run | Instance | Shows |
| --- | --- | --- |
| `ingest_race` | one path, a watcher and a collection, two lines of one request (count 0 then 1, a tool call and its result), a torn line, a fault; nothing is rewritten or moved | `TypeOK`, `CursorCovers`, `InFlightSafe`, and `GrowOnly` (refinement of Replica) |
| `ingest_changes` | two paths of one session, one of them WSL, a collection alone; a rewrite, a move or a path created again, torn lines, a fault | `CursorCovers` against everything that may happen to a transcript while it is read |
| `collect_race` | one native and one WSL session, an app and its watcher, no faults | `CollectTypeOK`, and `OnlyCutLoses`: lines are lost only with sessions in `cut` |
| `collect_converge` | the same two sessions, one of which may move (or be rewritten) once, one fault; no watcher, hence no app (`startup` only decides what is polled) | `OnlyCutLoses`, `EventuallyAllCollected`, `EventuallyForgotten` |
| `change_feed` | two roots, two nested directories, three files; one failing system call (the port's among them), one refused watch, one removal; a tail of one file a tick with two seeded, `AddWSLRoots` before or after `Start` | Windows: `DrainCountsReads`, `BufferIsOurs`, `ClosedIsQuiet`, `NoSilentDeath`, `CloseReturns`; fsnotify: `SeenFromHereOn`; both: `KeepsPromise` (refinement of Feed), `ChangesSurface`; polls: `SeenIsSurfaced`, `OneWSLPoller`, `PollsSurface` |
| `app` | one version per tier, one save, one failure or restart; a window or a browser tab | `OneWriter`, `SavedIsDurable`, `FormNotOlder`; in the end the page has what was written natively (`PageCatchesUp`), under WSL (`WSLCatchesUp`) and in the settings (`SettingsReachThePage`) |
| `desk` | four machines of one or two sources each, half an hour around the midnight from Sunday to Monday, and the Monday after | `TotalsAgree` (seven pages, same tokens and money), `ReadsLoseNothing` and `CallsLoseNothing` (any cut into reads gives one whole read), `LiveAddsUp`, `DrawerMatchesTicker`, `StageComesToRest`, `EpisodesReported`, `BundleAgrees`; forecast, two viewers at once: `ScoresAreFinal`; desk: `PageRingIsWindow`, `PageKeepsUp`, `TotalsOfTheirDay`, `SignInStands` |

Five runs expect a violation, where the code does otherwise than its own
comments say:

- `collect_straddle`: `IngestFile` is "safe to call concurrently with a Collect"
  (`dataset.go:611`). It is not. A session's transcript appears after the collection has
  listed its files; the watcher ingests it once, so that it has a cursor, which is not
  in that listing; a second `IngestFile` reads the cursor, parses and commits the next
  lines; the collection's prune takes the path for a deleted one and removes the
  session's events and its cursor; the call then sets the cursor past the lines that are
  gone. `OnlyCutLoses` shows this and `collect_moved` are the only ways to lose a line.
- `collect_moved`: the prune is said to be "one-for-one with the events that file
  produced" (`store.go:908`). It deletes by session id, so a transcript that
  moved loses its events, under a cursor at its new path that is past them.
- `collect_slow`: the prune is for transcripts "that no longer exist"
  (`dataset.go:714`). A full pass whose WSL probe misses its deadline prunes every
  transcript of the distributions that did not answer; so does a fast pass with
  what the last full pass did not list. (With a watcher, the property also fails
  for a session that starts while a collection runs: its first lines are ingested
  live and pruned because they were not listed. A later pass reads it again.)
- `collect_orphan`: a deleted transcript "must not keep contributing"
  (`dataset.go:714`). If the program died after `UpsertEvents` and before
  `SetCursor`, there is no cursor to find the events by, and they stay.
- `feed_return`: files in a new folder "are seen from here on"
  (`watch_other.go:141`). Not if a folder of that path was removed before: its
  path is still in `watched`, so `addTree` adds no watch to the new one.
  `change_feed` checks the same property where no directory comes back.

Deadlock is not checked: a model whose files are used up and whose calls have
all returned really stops.

### Bounds

Ingest and Collect: `MaxLines`, `MaxMoves`, `MaxFaults`, `Inodes` and `Torn` bound
what the agents and the failures may do (`MaxMoves` counts rewrites, moves and
paths created again); `Batch` is 1 instead of 1000, so every
pass that has two rows is in two transactions. Two ingest calls on one path are
enough for every race of pairs of steps; two lines of one request are enough for
a count to be lowered and for a call and its result to come in different passes;
two sessions are enough for one to be pruned while the other is listed; one
content that moves and two paths of one session for the prune by session id. A
fault budget of one already reaches a crash at every step of every call.

Watching: `MaxWrites` (per file), `NotedCap` (one change between two reads, so
that a second one overflows the kernel's buffer), `MaxErrors`
(system calls that fail, the port's `GetQueuedCompletionStatus` included),
`MaxRemovals`, `MaxRefused` (watches that cannot be added), `MayReturn`, and for
the polls `TailCap` (one of the two seeded files a tick, so that the cap's branch
is taken), `MaxGrowth` (of all files together), `MaxHours` (idle for longer than
the tail's window) and `MaxFailures`. Two roots are enough for one root's completion
to meet another's `Close`; two nested directories for a directory created below
one that is being walked.

App: one version of each tier and of the settings and one trouble are enough for
every caller to be skipped, fail or be overtaken by every other.

Desk: `Stops` says where an ingest may find a transcript to end: the cuts inside
a request, between a call and its result, and behind the header. The clock
readings lie in the half second after a midnight, minutes after it, at the end
of the chart's window and in the next week. Token counts are small and all
different enough that a turn counted in the wrong place changes a sum. `Delays`
has one value for each threshold of the Station. `ChartTicks`, `HistTicks`,
`HiddenTicks` and `MaxTime` scale the ring windows to one and two sampling
intervals; `MaxHides`, `MaxBad` (a lost or failed answer), `MaxExpiries` bound the
page's calls and the sign-in. `DayTicks` and `MaxInstant` give DevTotals a day of two
seconds and the first instant of the next, `TickWindow` a window that is shorter
than the day, and `MaxTurns` one turn that the strip counts and one that it does
not. Books has two viewers, two turns and an instant in each of three weeks: enough
for one viewer to write what it read before the other wrote, and for a turn to
come after its week was scored.

### Fairness

`CollectFairness` assumes that a full pass is started again and again (strongly
fair: the WSL ticker fires for ever, and `rebuild` skips it while another pass
runs, which ends) and again and again reaches every distribution, and that a call
that has begun goes on (Go schedules runnable goroutines). Nothing is assumed of
the agents, the watcher, or the fast pass.

App's `Fairness`: goroutines that can run do, tickers tick, the page loads and
polls; a load is short against the collection before the next rewrite, so that
not every one meets the file torn (the two strong conditions). Nothing makes the
user press a button, a caller win against another, or startup's collection
succeed: a window that is left on its first-run page is `Stranded`, and the
properties say so.

`WinFairness`, `TreeFairness`, `PollFairness`: the backend's goroutines and the
caller of `Close` run, the kernel completes reads and the completions of
cancelled ones arrive, tickers tick. Nothing is assumed of writers and errors.

`HistoryFairness`: the sampler and the page's timer tick; some call in flight is
answered and some answer delivered, again and again, but any one answer may be
lost.

### What the properties exempt

A property that would be false of the code as it stands is stated with the
exception named in it. The exceptions are:

- `TotalsAgree`: a turn in the first second after a boundary, whose time with a
  fraction sorts as text before the boundary without one (`LostAt`). The merge adds
  reasoning tokens to an output that contains them (`merge.go:47`), so it is asked
  to agree only in weeks without any.
- `ReadsLoseNothing`: Claude lines that have neither request id nor uuid; they
  are numbered from zero in each read, so that a re-read counts them twice or
  replaces others. A row's tool counts and title are those of the read that won.
- `LiveAddsUp`: a turn at the chart's very edge, and a window of more turns than the
  ticker's 50 lines (`TurnTickerCap`), whose chart has them all. Sessions of two
  vendors that share an id: the snapshot keeps one of them for both, so only an id
  of one vendor has to have its own place. `DrawerMatchesTicker`: sessions
  that began before the window (the ticker numbers turns from the window's
  start, the drawer from the session's), and ids two vendors share.
- `OnlyCutLoses`: the two ways named under `collect_straddle` and `collect_moved`.
- `CursorCovers`: cursors that mix two contents of one path, which the code
  cannot notice.
- `SeenFromHereOn`: a directory whose watch was refused and logged, and what is
  below it.
- `CloseReturns`: a read that is still to be drained when the completion port itself
  has failed (`DrainAbandoned`): run has ended (`watch_windows.go:214`), and `Close`
  waits for ever.
- `OneWSLPoller`: `AddWSLRoots` called before `Start` (`closer.early`), which no
  program here does; then two goroutines walk the same roots.
- `PollsSurface`: a file that is beyond the tail's cap in tick after tick, for ever
  (`starved`); and a change whose ingest failed is lost until the file's next one
  or the next full pass (both polls record what they saw before `onChange` ran).
- `SavedIsDurable`, `SettingsReachThePage`: the seat, in the browser build, which
  starts from its flag and not from what was saved.
- `TotalsOfTheirDay`: the header has to show a turn only if the strip and the tick's
  window together reach back over the day (between a midnight and the strip's next
  refresh only the window counts, `headline.go:63`) and if the turn was not stored
  after the strip that covers its time; it may show twice a turn that the strip's
  query found later than the strip's stamp, which is read before it. A tick that
  straddles midnight may count turns of the day after its own. The heatmap has to
  hold of its cached closed days what was stored when the refresh began that cached
  them: rows that the backfill stored between that refresh's read and its look at
  the flag are missing until midnight, though `app.go:187` recomputes "rather than locking
  in a result built from a store that is still being backfilled".
- `SignInStands`: any answer to a refresh without an access token calls `Logout`
  whatever token is on disk by then (`todo.go:291`), so a sign-in that ended meanwhile
  is undone; and a look at the disk that saw such a logout's empty place before another
  refresh saved its token there (`back`).

## Proofs

Everything in the eight proof modules is proved by TLAPS, for any sets and any
bounds. What the constants are assumed to be is an ASSUME beside them, which
every run evaluates, and no more than the code gives:

- Ingest, Collect: a path is of one session (the adapters take a transcript's
  session from its name), lines are within their types, None is no identifier,
  `Apps` are collectors.
- NativeBackend: the tree is finite, its roots, directories and files are
  different things, each has one parent, and every path is under a root.
- App, WinWatch, TreeWatch, PollWatch, DevTodo: bounds are natural numbers.
- DevTotals: a day is a positive number of whole seconds. DevHistory: the chart's
  window is shorter than the history's (`live.ChartWindow`, `sysHistWindow`).
- Views: `ViewsAssumption`, which says what the adapters count on and do not
  check. Lines of one request repeat its usage and only its output grows
  (`claude.go` keeps the line of the largest output); a billed output is positive;
  Codex's cached input is part of its input; counts, instants and byte counts are
  natural numbers. A request id is none of the keys `row<n>` that a read makes up
  for lines without one. A call has an id of its own and a name (others are
  skipped), its result comes after it and does not change. Two sources share no
  session (a session is named by its one file, or by its tool) and no row key, and
  a machine has one VS Code log. The clock goes on. An advisor's
  cooldown is not zero (five minutes, `advisor.go:113`). The chart's slots divide its
  window (`SlotAssumption`: 60 or 10 seconds of 30 minutes, `live.go:176`,
  `cmd/burnmon-dev/main.go:323`), and the prices in a config are numbers
  (`PricesAssumption`). Nobody writes and no clock shows the instant inside the
  zero time's own second, which as text sorts before the zero time itself, and
  `Remote` knows every project the lines name (`RemoteAssumption`: and "none").
  The redaction's truncated hash (`devexport.go:392`) gives two of a machine's
  names two values, neither a name (`HiddenAssumption`). A transcript has at most
  `MaxLines` lines, any number: with it the numbers that stand for its row keys
  are kept apart from another's.

A proof has the same shape everywhere: an inductive invariant of named parts, a
lemma per action, and the run's property from the invariant.

`IngestProofs.tla`:

- `TypeCorrect`: `Spec => []TypeOK`. Not inductive alone: rows are named after
  the session of the content a path names, so `Owned` (a content that is named
  has a session, one that has none has no lines) and `InHand` (a call past
  "next" has a path) go with it, as `TypeInv`.
- `CursorAlwaysCovers` and `InFlightAlwaysSafe`: `CursorCovers` is not inductive
  either, since the cursor that is about to be set was computed several steps
  before. `InFlight` says what each call owes at each step: before Parse, the
  prefix is stored; after it, each line passed is stored or in the call's hands.
  `SessionSafe` says both of one session and `SkipInv` of all, because Collect
  keeps it of some only. The two facts that carry the proof are `LargestStays`
  (an upsert keeps, for each row, one with at least its output; by well-founded
  induction on the outputs, since the set of rows need not be finite) and `Grows`
  (no step of anybody removes a line or lowers what is stored), which makes each
  call's obligations stable under all the others.
- `StoreOnlyGrows`: Ingest implements Replica. `SaidInv` adds to the types that
  some line has said what the tables hold (`TablesSaid`) and what the calls have
  in hand (`HandsSaid`): without the second, an upsert could store what nobody
  wrote. Each step then is a `Learn` or a `Say` of Replica, or a stutter.

`CollectProofs.tla`:

- `CollectTyped`: `CollectTypeOK`, which says of the lists that fast passes and
  the poller take on trust that they are under WSL.
- `OnlyCutsLose`: `OnlyCutLoses`. `CollectInv` has `SessionSafe` for every session
  outside `cut`, and `OwnSession`: paths, cursors and calls count lines of content
  that is of their own session. The second is what makes a prune harmless to the
  others, since it deletes by session id; that one which is not cut has neither a
  cursor nor a call left once its paths are pruned is what makes it harmless to
  itself.

`WinWatchProofs.tla`. `WinInv` rests on `OnePlace`: a read is outstanding in the
kernel, queued on the port, or in run's hands, in one of them only, and
`rr.reading` says that it is in one. `Handles` and `Closing` say whose handles
are shut and how far Close is. From it:

- `DrainIsExact` (`DrainCountsReads`): the WaitGroup counts exactly what is still
  to come, for any number of roots. Counting needs the finite set lemmas, as one
  step takes one root out of a set.
- `BufferOwned` (`BufferIsOurs`), `ClosedForGood` (`ClosedIsQuiet`) and
  `WatchedOrLogged` (`NoSilentDeath`).
- `WinKeepsPromise`: every step is one of Feed or a stutter.

`TreeWatchProofs.tla`. `TreeInv`: the stacks and the queue hold paths of the
tree, a directory is there only with its parent (`Rooted`), a path in `watched`
is watched unless it was removed (`Known`), a directory that is not watched is
going to be visited, or its creation is queued, or its parent is about to be
listed, or its watch was refused, or its parent is not watched either
(`OnItsWay`). Hence

- `SeenUnlessItReturns`: `MayReturn = {} /\ TreeSpec => []SeenFromHereOn`. The
  hypothesis is needed: `feed_return` is the counterexample without it. What is
  not watched when all is quiet is at or below a directory whose failed `Add` the
  log named.
- `TreeKeepsPromise`: the refinement of Feed.

`PollWatchProofs.tla`. `PollInv`: what the tail recorded and has not announced is in its
hands (`Announced`), and the poller runs from the first roots it is given (`Started`);
nobody who calls `AddWSLRoots` only after `Start` gets a second, and who calls it before
gets two at most (`Pollers`). `OnePollerEver` (`OneWSLPoller`), `RecordedIsAnnounced`
(`SeenIsSurfaced`), `PollKeepsPromise`.

`AppProofs.tla`. `AppInv` is the conjunction of

- `TypeInv`, a type for every variable (`AppTyped`);
- `Alone`: who is past `Start` and before `Return` finds `building` set and
  everybody else idle. `OneWriter` follows (`AppOneWriter`);
- `OnDisk`: the file is one version ahead of the running settings between the
  rename and the assignment and equal to them otherwise, whatever failed or
  restarted. `SavedIsDurable` follows (`AppSavedIsDurable`);
- `Copies`: a caller's copy is not ahead of the settings, and a page's numbers,
  on disk or shown, are not ahead of its form. `FormNotOlder` follows
  (`AppFormNotOlder`).

`DeskProofs.tla`:

- `SignInHolds`: the action property `SignInStands`. `TodoInv` says what a look
  at the disk that is still current has found (`CheckHolds`); only a current one
  signs out.
- `TotalsStayOfTheirDay`: `TotalsOfTheirDay`. `TotalsInv` says of the strip, of the
  one being counted and of the copy a tick has taken, also if they are out of
  date, that they counted stored turns of the day of their stamp and later
  (`StripHolds`, `CountingHolds`, `CopyHolds`); of the cached closed days, that they
  hold what their refresh began with (`ClosedOfItsDay`); and of a heatmap being put
  together that it has what its refresh saw (`RefreshHolds`). With it the header's
  sum is a count of two sets of turns that share only those of `twice`, and the
  turns owed are in one of them. That a set of days can be put in order is by
  well-founded induction on its size.
- `PageKeepsTheWindow`: `PageRingIsWindow`. Of the samples taken, a buffer
  holds the newest, at least those of its window (`BuffersHold`); a ring holds
  exactly those of its window, up to its newest (`RingsHold`). A page has one
  latest call and at most one that it gave up on (`OneOfEach`), and they are
  answered in the order of their asking (`AnsweredInTurn`). An answer brings every
  sample behind its cursor, or the whole window; and a ring reaches at least up to
  the cursor of a call in flight, unless that is out of its window (`CallsHold`).
  The last is why an answer that was given up on and comes late leaves no gap.
  Samples rise (`SamplesRise`), so the code's filters are cuts of a sequence,
  which is how `Past`, `From` and `After` state them.
- `ScoresStayFinal`: `ScoresAreFinal`, for any viewers, turns and instants. What is
  on the books stays because both writes look first (`PlanKept`, `ActualKept`); what
  makes it say something of views that overlap is `BooksInv`: a week has one row
  (`RowPerWeek`), and each view, wherever it is, can count on the rows it has
  passed (`ViewHolds`: its week is known from its listing on, and each week it
  listed is scored once it is through with it, by whoever was faster). `BooksStay`
  says that no step of another takes that away.

`ViewsProofs.tla`, bottom up. What the rest needs of the operators comes first: a
function can be summed over a finite set in any order (`SumFunctionOnSet` is a
fold; that a set taken apart sums to its parts is shown by a smallest set for
which it would fail), sums regrouped by a key (`SumByGroup`), what `SetToSortSeq`
returns (`SortedHas`), what an upsert keeps of a row (`UpsertKeeps`, `StoreTakes`)
and what each adapter makes of the lines it reads (`ClaudeRead` and the like).
Then, of the store:

- `StoreIsSound`: `[]StoreInv`. `ReadTyped`, `TailTyped` and `ClockTyped` say how far
  the readers and the clock are; `StoreTyped`, `StoreMade` and `RowPerKey` that the
  rows are finite, of natural figures, each of one source and one per key;
  `ReadsStand` is the heart: of the lines read so far, the store has a row for
  every request, as its line of the largest output tells it (`HasRead`), and no
  other row of that session (`HasOnly`). The naive statement, that the store is
  what one read of the prefix gives, is not inductive: a read that starts in the
  middle of a request makes its row of the request's later lines alone, and only
  the merge with what is stored gives it back.
- `NothingIsLost` (`ReadsLoseNothing`): hence any cut of a transcript into reads,
  and any number of reads from its start, leave what one whole read leaves.
- `CallsAreSound`: `[]CallsInv`, the same for tool calls. A call and its result come
  from different lines, often in different reads: `CallsStand` says of the store
  that it has each call read so far, with its result if that was read too, and
  no other. A read that begins between the two stores a result without its call;
  `CallsUpserted` shows that the merge fills what is empty and keeps the rest,
  which is right because a result comes after its call and does not change.
- `NoCallIsLost` (`CallsLoseNothing`) follows.
- `DrawerIsTheLine` (`DrawerMatchesTicker`): a turn the ticker shows, asked for by
  the key the page has of it, opens as the same turn. It needs `RowPerKey`, and
  that the ticker's own order is that of the rows.
- `EpisodesAreReported` (`EpisodesReported`): what a rule reported after `n` lines is
  a function of what it reported after `n - 1` (`Fired`). `FiredWell` is what each
  line keeps: every line that fits is reported or within the cooldown of a reported
  one of its session, and reported ones are that far apart; the first line to break
  it would be one the rule takes or skips (`FiredHolds`). The other rules have at
  most one finding of each session or harness (`OnePerWho`).
- `LiveFiguresAddUp` (`LiveAddsUp`), in three parts. A running session's cost on the
  Now page is that of rows per model, on its own page that of its turns:
  `CostIsLinear` shows that turns of one vendor and model are priced linearly in
  their token classes, whichever of the vendors' tables is theirs, and
  `SessionAddsUp` regroups the sums. The chart cuts the window into
  slots and the slots by session (`ChartIs`: a turn is in one slot, unless it lies
  past the right edge); the ticker has a line for each turn and a turn for each
  line, found by its session and number (`LinesAddUp`). A session
  that shares its id with no other is in the snapshot itself and has its own place
  in the tree (`PlacesDo`).
- `BundlesAreWhole` (`BundleAgrees`). Text differs from time only at the instant
  inside a second (`TextIsTime`), so a day's turns are those of its bundle and those
  the query from its start misses, each once (`DaySplits`, `DailyIs`). A bundle has
  a row for each of its turns (`TurnRowsAre`), and its totals by model and by day
  are the same rows grouped (`GroupsAddUp`). Redaction tells names apart
  (`RedactionKeeps`) because every name in the store is one the settings or the
  tools know: `NamesInv`, kept by every stamp and by reown along with `StoreInv`.

Only model-checked, with the reason:

- `TotalsAgree` of Views, which is said of the run's desks and is not a theorem of
  every desk, since the code's pages do differ on some: without a calibrated
  subscription, or with another OpenAI price in the older table, a session's share is
  not the headline's cost (`EventCost`, `VendorBases`), and a turn without a time is
  counted on its session's first day by the sessions (`DayOf`) and on the zero day by
  the others. What holds of every desk is proved in parts: a session's figures are
  its turns' (`SessionAddsUp`), a day's total splits into its bundle and the turns
  text misplaces (`DailyIs`, `DaySplits`).
- `StageComesToRest` of Views. It is about every input at once, and for some it does
  not hold: if a session's newest turn left the chart window while a tool call of
  it, stamped later, stayed, `inLatestTurn` (`live.go:785`) would no longer find the
  call's turn and take the call for the open turn's, and a waiting session would
  show as at work for that moment. The tools stamp a call with the line that is its
  turn, so it takes an invariant on the stored instants of calls and turns, along
  every merge, which is not proved here; the desk's inputs have it.
- All liveness, which needs fairness and ENABLED: `EventuallyAllCollected`,
  `EventuallyForgotten`, `ChangesSurface`, `PollsSurface`, `CloseReturns`,
  `PageCatchesUp`, `WSLCatchesUp`, `SettingsReachThePage`, `PageKeepsUp`.

## Seen while modelling

Where two parts of the code, or a comment and the code, disagree, and no run is
about it:

- `devexport.go:144` says its cost "mirrors internal/live's own unexported
  turnCost", which has since changed (`live.go:183`): the export still prices
  Copilot turns, and Anthropic ones without a price of their own, otherwise.
- `cost.go:61` says "numbers agree everywhere"; OpenAI prices differ between
  `EventCost` and `CostForEvents`, and without a calibration a turn's share and the
  headline's list price differ.
- `devexport`'s findings see a turn exactly at `until`, which its turns exclude.
- The Hermes and Copilot CLI pollers stamp an owner and no client.
- A failed initial collection skips `extendLiveWatchWSL` (`app.go:266`), and a
  window on its first-run page stays there.
- `writeConfigKey` treats an unparsable `burnmon.json` as an empty one.
- The browser build starts with its `-seat` flag (`main_other.go:97`) and never
  reads the saved `YourSeat`, as the window does (`main.go:139`): a seat saved on its
  page is forgotten when it ends, against `pricing.go:86`.
- `AddWSLRoots` before `Start` starts a poller and `Start` a second one, over maps
  without a lock (`watch.go:134`); both programs call `Start` first.
- `Close` waits for ever if the completion port fails its reader
  (`watch_windows.go:214`).
- A closed day of the heatmap that is read before the backfill ends and cached
  after it (`app.go:187`) is short until the next midnight.

## Not modelled

- Rendering: HTML, CSS, charts' geometry, number formats, tables, report pages.
- Performance counters and process sampling (`internal/sysmon` on Windows):
  reads of the operating system. `DevHistory` takes the samples as given, and
  `Advisor` their values.
- The store's migrations; and `ResetCollapsedCodexSessions` and `PurgeAuditSessions`,
  which run at the start of every collection (`dataset.go:644`): each removes what an
  older version's readers stored, with the cursors, and finds none in a store that only
  this version writes. A store that is busy is waited for inside the one transaction.
- Source discovery: which directories an adapter names, mirrored copies in
  `FindJSONL`, `/etc/passwd`, shell files; the probe is the set of distributions
  that answered.
- Reading price files, git remotes and settings; the owner rules take a remote.
- HTTP routes and the token of the browser mode; To Do's task lists.
- `windowstate.go` (window placement), the loading page, the DPI and taskbar
  code; flags and printing of the three programs; files the exports are
  written to and the salt of the redaction (a name becomes another name,
  injectively).
- The cloud plugin (Python, run by another program), of which `Readers` has
  what burnmon takes from its drop file; the UI check and atlas tools.
- A fsnotify queue that overflows. A failed upsert after a Copilot poll, which
  loses its rows until the next start.

## What is left

Models of window placement (its saver reads a flag outside the lock), of the WSL
probe's deadline, and of the Codex reset.
