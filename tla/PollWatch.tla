----------------------------- MODULE PollWatch ------------------------------
(***************************************************************************)
(* The polls of watch.Watcher (internal/watch/watch.go, tail.go), for the  *)
(* writes no notification reports: a transcript its writer holds open      *)
(* (Codex, on NTFS) and a transcript under WSL.                            *)
(*                                                                         *)
(* The tail poll opens every tracked file and compares its size with the   *)
(* last one seen; the WSL poll walks its roots and compares mtimes.  Both  *)
(* record what they saw before they call onChange, and an onChange that    *)
(* fails logs the path and leaves it to the full rescan.                   *)
(*                                                                         *)
(* Files grow only, so a file's version stands for its size and its mtime. *)
(* Time is what tailWindow distinguishes: an entry is fresh or idle; which *)
(* entries are the most recently active ones is left open.                 *)
(***************************************************************************)
EXTENDS NativeBackend

CONSTANTS
    WslRoots,     \* the roots AddWSLRoots brings
    Seeded,       \* native files SetTailSeed's function returns
    TailCap,      \* tailCap: files one tick opens (50)
    Never,        \* size -1: the tail has not looked at the file yet
    MaxGrowth,    \* bound: appends, to all files together
    MaxHours,     \* bound: times tailWindow passes
    MaxFailures   \* bound: onChange calls that fail

ASSUME PollAssumption ==
    /\ WslRoots \subseteq Roots /\ Seeded \subseteq Files
    /\ TailCap \in Nat \ {0} /\ MaxGrowth \in Nat /\ MaxHours \in Nat /\ MaxFailures \in Nat

Native == {f \in Files : Top[f] \notin WslRoots}

PollInit ==
    /\ mechanism = "polls"
    /\ version = [f \in Files |-> 0]
    /\ told = version
    /\ lost = version
    /\ kern = [hours |-> 0, failures |-> 0]
    /\ \E given \in SUBSET WslRoots :             \* New's wslRoots
          book = [tail |-> [f \in {} |-> 0],      \* path -> [idle, size]
                  wslRoots |-> given,
                  wslMtime |-> [f \in {} |-> 0],  \* path -> last seen mtime
                  wslStarted |-> FALSE]
    \* early: AddWSLRoots was called before Start
    /\ closer = [at |-> "no", started |-> FALSE, early |-> FALSE]
    \* starved: what the last tick left out, the cap being reached
    /\ run = [tail |-> "off", cands |-> {}, changed |-> {}, starved |-> {},
              pollers |-> 0, walk |-> {}]

Polls == mechanism = "polls" /\ UNCHANGED mechanism

\* A write nobody is notified of; the others are their backend's business.
QuietAppend(f) ==
    /\ Polls
    /\ f \in Seeded \/ f \notin Native
    /\ FoldFunction(+, 0, version) < MaxGrowth
    /\ version' = [version EXCEPT ![f] = @ + 1]
    /\ UNCHANGED <<told, lost, kern, book, run, closer>>

\* onChange: the receiver ingests the file, or logs that it could not.
OnChange(f) ==
    \/ Told(f) /\ UNCHANGED <<lost, kern>>
    \/ /\ kern.failures < MaxFailures
       /\ kern' = [kern EXCEPT !.failures = @ + 1]
       /\ Lose({f})
       /\ UNCHANGED told

-----------------------------------------------------------------------------
\* Track: a tracked file is active again; a new one has not been looked at.
Tracked(tail, S) ==
    [f \in DOMAIN tail \cup (S \cap Native \cap Transcripts) |->
        IF f \notin DOMAIN tail THEN [idle |-> FALSE, size |-> Never]
        ELSE IF f \in S THEN [tail[f] EXCEPT !.idle = FALSE]
        ELSE tail[f]]

\* Track called from outside the tail goroutine: a notification, or a cursor
\* the store moved (Cache.OnAdvance).
Track(f) ==
    /\ Polls
    /\ closer.at = "no"
    /\ f \in Native
    /\ book' = [book EXCEPT !.tail = Tracked(@, {f})]
    /\ UNCHANGED <<version, told, lost, kern, run, closer>>

\* More than tailWindow goes by: every entry not active since is idle.  A
\* running tail goroutine has seeded (every minute) and polled meanwhile.
HourPasses ==
    /\ Polls
    /\ run.tail \in {"off", "sleep"}
    /\ kern.hours < MaxHours
    /\ kern' = [kern EXCEPT !.hours = @ + 1]
    /\ book' = [book EXCEPT !.tail =
          [f \in DOMAIN @ |-> [@[f] EXCEPT !.idle = (run.tail = "off" \/ f \notin Seeded)]]]
    /\ UNCHANGED <<version, told, lost, run, closer>>

\* Start: the tail goroutine seeds first; a WSL goroutine starts if there are
\* WSL roots, whether or not AddWSLRoots has started one already.
Start ==
    /\ Polls
    /\ ~closer.started
    /\ closer' = [closer EXCEPT !.started = TRUE]
    /\ book' = [book EXCEPT !.tail = Tracked(@, Seeded),
                            !.wslStarted = @ \/ book.wslRoots # {}]
    /\ run' = [run EXCEPT !.tail = "sleep",
                          !.pollers = IF book.wslRoots # {} THEN @ + 1 ELSE @]
    /\ UNCHANGED <<version, told, lost, kern>>

\* A call with no roots is a no-op.
HandedOver(S) ==
    /\ Polls
    /\ S # {} /\ closer.at = "no"
    /\ closer' = [closer EXCEPT !.early = @ \/ ~closer.started]
    /\ book' = [book EXCEPT !.wslRoots = @ \cup S, !.wslStarted = TRUE]
    /\ UNCHANGED <<version, told, lost, kern>>

(* MUTANT: a second hand-over starts a second poll loop.                   *)
AddWSLRootsAlwaysStarts(S) ==
    HandedOver(S) /\ run' = [run EXCEPT !.pollers = @ + 1]

AddWSLRoots(S) ==
    /\ HandedOver(S)
    /\ run' = [run EXCEPT !.pollers = IF book.wslStarted THEN @ ELSE @ + 1]

-----------------------------------------------------------------------------
\* pollTailOnce, on the tail goroutine.  Every minute the tick seeds first.
\* It drops the idle entries and remembers, with the size last seen, the
\* tailCap most recently active ones.
TailTick ==
    /\ Polls
    /\ run.tail = "sleep"
    /\ closer.at = "no"
    /\ \E tail \in {book.tail, Tracked(book.tail, Seeded)} :
          LET live == {f \in DOMAIN tail : ~tail[f].idle} IN
          /\ book' = [book EXCEPT !.tail = [f \in live |-> tail[f]]]
          /\ \E picked \in SUBSET live :
                /\ Cardinality(picked) = IF Cardinality(live) > TailCap
                                         THEN TailCap ELSE Cardinality(live)
                /\ run' = [run EXCEPT
                      !.tail = "look",
                      !.cands = {<<f, tail[f].size>> : f \in picked},
                      !.changed = {},
                      !.starved = live \ picked]
    /\ UNCHANGED <<version, told, lost, kern, closer>>

(* MUTANT: the first look only takes a baseline.                           *)
TailLookBaseline(f) ==
    /\ Polls
    /\ run.tail = "look"
    /\ \E seen \in {c[2] : c \in {x \in run.cands : x[1] = f}} :
          LET grown == version[f] # 0 /\ version[f] # seen IN
          /\ run' = [run EXCEPT !.cands = @ \ {<<f, seen>>},
                !.changed = IF grown /\ seen # Never THEN @ \cup {f} ELSE @]
          /\ book' = IF ~grown \/ f \notin DOMAIN book.tail THEN book
                     ELSE [book EXCEPT !.tail[f] = [idle |-> FALSE, size |-> version[f]]]
    /\ UNCHANGED <<version, told, lost, kern, closer>>

\* One candidate's size, read from an open handle.  What it is now is recorded
\* at once, before onChange; a file not written yet cannot be opened.
TailLook(f) ==
    /\ Polls
    /\ run.tail = "look"
    /\ \E seen \in {c[2] : c \in {x \in run.cands : x[1] = f}} :
          LET left == run.cands \ {<<f, seen>>} IN
          IF version[f] = 0 \/ version[f] = seen
          THEN /\ run' = [run EXCEPT !.cands = left]
               /\ UNCHANGED book
          ELSE /\ run' = [run EXCEPT !.cands = left, !.changed = @ \cup {f}]
               /\ book' = IF f \notin DOMAIN book.tail THEN book
                          ELSE [book EXCEPT !.tail[f] = [idle |-> FALSE, size |-> version[f]]]
    /\ UNCHANGED <<version, told, lost, kern, closer>>

TailFire ==
    /\ Polls
    /\ run.tail = "look" /\ run.cands = {}
    /\ \/ \E f \in run.changed : /\ OnChange(f)
                                 /\ run' = [run EXCEPT !.changed = @ \ {f}]
       \/ /\ run.changed = {}
          /\ run' = [run EXCEPT !.tail = "sleep"]
          /\ UNCHANGED <<told, lost, kern>>
    /\ UNCHANGED <<version, book, closer>>

-----------------------------------------------------------------------------
\* pollWSLOnce: one file of the walk.  Its mtime is recorded before onChange.
\* Two goroutines would write the map wslMtime at once, on which Go may end
\* the process: such a behaviour is not followed any further.
WalkWSL ==
    /\ Polls
    /\ run.pollers = 1 /\ run.walk = {} /\ closer.at = "no"
    /\ run' = [run EXCEPT !.walk =
          {f \in Transcripts : Top[f] \in book.wslRoots /\ version[f] > 0}]
    /\ run'.walk # {}
    /\ UNCHANGED <<version, told, lost, kern, book, closer>>

(* MUTANT: a file seen for the first time is taken as ingested.            *)
PollWSLFileKnowsNew(f) ==
    /\ Polls
    /\ f \in run.walk
    /\ run' = [run EXCEPT !.walk = @ \ {f}]
    /\ book' = [book EXCEPT !.wslMtime = [g \in DOMAIN @ \cup {f} |->
                   IF g = f THEN version[f] ELSE @[g]]]
    /\ IF f \in DOMAIN book.wslMtime /\ version[f] > book.wslMtime[f]
       THEN OnChange(f)
       ELSE UNCHANGED <<told, lost, kern>>
    /\ UNCHANGED <<version, closer>>

PollWSLFile(f) ==
    /\ Polls
    /\ f \in run.walk
    /\ run' = [run EXCEPT !.walk = @ \ {f}]
    /\ IF f \in DOMAIN book.wslMtime /\ version[f] <= book.wslMtime[f]
       THEN UNCHANGED <<book, told, lost, kern>>
       ELSE /\ book' = [book EXCEPT !.wslMtime = [g \in DOMAIN @ \cup {f} |->
                           IF g = f THEN version[f] ELSE @[g]]]
            /\ OnChange(f)
    /\ UNCHANGED <<version, closer>>

\* Stop: close(stop), then wait for both goroutines to finish their tick.
Stop ==
    /\ Polls
    /\ closer.started /\ closer.at = "no"
    /\ closer' = [closer EXCEPT !.at = "closing"]
    /\ UNCHANGED <<version, told, lost, kern, book, run>>

StopReturns ==
    /\ Polls
    /\ closer.at = "closing"
    /\ run.tail = "sleep" /\ run.walk = {}
    /\ closer' = [closer EXCEPT !.at = "done"]
    /\ UNCHANGED <<version, told, lost, kern, book, run>>

PollNext ==
    \/ \E f \in Files : QuietAppend(f) \/ Track(f) \/ TailLook(f) \/ PollWSLFile(f)
    \/ \E S \in SUBSET WslRoots : AddWSLRoots(S)
    \/ HourPasses \/ Start \/ TailTick \/ TailFire \/ WalkWSL \/ Stop \/ StopReturns

PollFairness ==
    /\ WF_backendVars(TailTick) /\ WF_backendVars(TailFire)
    /\ WF_backendVars(\E f \in Files : TailLook(f))
    /\ WF_backendVars(WalkWSL)
    /\ WF_backendVars(\E f \in Files : PollWSLFile(f))
    /\ WF_backendVars(StopReturns)

PollSpec == PollInit /\ [][PollNext]_backendVars

-----------------------------------------------------------------------------
\* Between two ticks the tail never believes it has seen more of a file than
\* onChange was told of (or lost, in the log): what it recorded early, it
\* announced.
SeenIsSurfaced ==
    mechanism = "polls" /\ run.tail = "sleep" =>
        \A f \in DOMAIN book.tail :
            book.tail[f].size # Never =>
                told[f] >= book.tail[f].size \/ lost[f] >= book.tail[f].size

\* Once the polls run, a change to a recent Codex rollout or to a transcript
\* under a WSL root that was handed over reaches onChange, or the log says it
\* was lost: however long the chat was idle before, and whatever was being
\* ingested when it grew.  The one exception is a rollout beyond tailCap in
\* tick after tick (the log only counts those); one that is not left out for
\* ever is reported, what it was left out of included.
Followed(f) == \/ closer.started /\ f \in Seeded
               \/ run.pollers = 1 /\ Top[f] \in book.wslRoots

TwoPollers == mechanism = "polls" /\ run.pollers > 1

BeyondTheCap(f) == mechanism = "polls" /\ f \in run.starved

PollsSurface ==
    \A f \in Transcripts :
        \/ (mechanism = "polls" /\ Unsurfaced(f) /\ Followed(f))
              ~> (~Unsurfaced(f) \/ closer.at # "no" \/ TwoPollers)
        \/ []<>BeyondTheCap(f)

\* wslMtime has no lock: one goroutine may walk the WSL roots.  "AddWSLRoots
\* extends an already-Started watcher" (watch.go:173): called that way, as the
\* apps do, however often and whether or not New was given WSL roots, the two
\* of them have started one goroutine exactly when there are roots to walk.
\* Called before Start it starts one, and Start another.
OneWSLPoller ==
    mechanism = "polls" /\ ~closer.early =>
        run.pollers = IF closer.started /\ book.wslRoots # {} THEN 1 ELSE 0

=============================================================================
