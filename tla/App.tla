-------------------------------- MODULE App ---------------------------------
(***************************************************************************)
(* cmd/burnmon: the one rebuild path and everybody who calls it (startup,  *)
(* the interval and WSL tickers, Refresh now, a settings save), the        *)
(* settings file, dashboard.html, and the page that shows it: the WebView2 *)
(* window (app.go, main.go) or a browser tab over the localhost bridge     *)
(* (browser.go, main_other.go).                                            *)
(*                                                                         *)
(* What a collection reads is a version per tier: data counts what the     *)
(* agents wrote, stored what the store holds of it (module Collect says    *)
(* what a collection does to the store).  A settings version stands for    *)
(* the subscription block of burnmon.json, the seat in it included; seat   *)
(* version 0 is the -seat flag's default (the flag itself, which would win *)
(* over a saved seat, is not passed).                                      *)
(***************************************************************************)
EXTENDS Naturals, FiniteSets

CONSTANTS
    MaxData,     \* bound: versions of each tier
    MaxSaves,    \* bound: settings saved
    MaxTroubles  \* bound: collections, writes and saves that fail, restarts

ASSUME AppAssumption == {MaxData, MaxSaves, MaxTroubles} \subseteq Nat

Tiers == {"native", "wsl"}
Callers == {"startup", "fast", "wsl", "refresh", "save"}
Tickers == {"fast", "wsl"}

VARIABLES
    mode,      \* "window" or "browser"
    data,      \* [Tiers -> Nat]: what the agents have written
    stored,    \* what the store holds of the WSL tier (every collection
               \* re-reads the native one before it looks at the store)
    extended,  \* AddWSLRoots was called: the WSL poll ingests live
    startup,   \* the startup goroutine: "due", "collecting", "failed", "over"
    cfg,       \* a.cfg: the settings in memory
    seat,      \* a.seat: the version whose "Your seat" is in force
    file,      \* burnmon.json: the settings on disk
    saver,     \* applySettings, which holds a.mu while it runs
    building,  \* a.building
    calls,     \* [Callers -> record]: where each caller's rebuild is
    disk,      \* dashboard.html
    page,      \* what the window or the tab shows
    spent      \* failures and restarts so far

vars == <<mode, data, stored, extended, startup, cfg, seat, file, saver,
          building, calls, disk, page, spent>>

NoData == [t \in Tiers |-> 0]
Idle == [at |-> "idle", cfg |-> 0, seat |-> 0, got |-> NoData]

\* is: "none", "torn" (created or truncated, not written yet) or "whole".
NoPage == [is |-> "none", cfg |-> 0, seat |-> 0, modal |-> 0, got |-> NoData]

\* A page on a file shows what the file held when it was read; the window's
\* first-run page is no file (SetHtml).  phase: "asked" (a navigation is under
\* way), "read" (servePage has the file's text, not yet its stamp), "shown".
\* current: the stamp the page carries is still the file's.
FirstRunPage == [shows |-> NoPage, onFile |-> FALSE, phase |-> "shown",
                 current |-> FALSE]

OpenPage(d, m) ==
    IF m = "window" /\ d.is = "none" THEN FirstRunPage
    ELSE [FirstRunPage EXCEPT !.onFile = TRUE, !.phase = "asked"]

Init ==
    /\ mode \in {"window", "browser"}
    /\ data = NoData /\ stored = 0
    /\ extended = FALSE
    /\ startup = "due"
    /\ cfg = 0 /\ seat = 0 /\ file = 0
    /\ saver = "idle"
    /\ building = FALSE
    /\ calls = [c \in Callers |-> Idle]
    /\ disk \in {NoPage, [NoPage EXCEPT !.is = "whole"]}
    /\ page = OpenPage(disk, mode)
    /\ spent = 0

Trouble == spent < MaxTroubles /\ spent' = spent + 1

Settings == <<cfg, seat, file, saver>>
Store == <<data, stored, extended>>
Screen == <<disk, page>>

-----------------------------------------------------------------------------
\* Agents write; the live watcher ingests WSL files once extendLiveWatchWSL
\* has run.
Write(t) ==
    /\ data[t] < MaxData
    /\ t = "wsl" => mode = "window"
    /\ data' = [data EXCEPT ![t] = @ + 1]
    /\ UNCHANGED <<mode, stored, extended, startup, Settings, building, calls, Screen, spent>>

LiveIngest ==
    /\ extended
    /\ stored # data["wsl"]
    /\ stored' = data["wsl"]
    /\ UNCHANGED <<mode, data, extended, startup, Settings, building, calls, Screen, spent>>

-----------------------------------------------------------------------------
\* rebuild.  Slow passes re-read WSL too.

Slow(c) == c # "fast"

(* MUTANT: every reload is a plain one, the first-run page included. *)
ReloadInPlace(c) ==
    IF (mode = "browser" /\ c \notin {"refresh", "save"}) \/ ~page.onFile THEN page
    ELSE [page EXCEPT !.phase = "asked"]

\* The reload a caller asks for when its rebuild succeeded.  The window's
\* first-run page is no file: only startup navigates away from it, a reload
\* shows it again.
Reload(c) ==
    IF mode = "browser" /\ c \notin {"refresh", "save"} THEN page
    ELSE IF page.onFile THEN [page EXCEPT !.phase = "asked"]
    ELSE IF c = "startup" THEN [page EXCEPT !.onFile = TRUE, !.phase = "asked"]
    ELSE page

\* What each caller does with an error, errRebuildBusy included: nobody tries
\* again, the tickers wait for their next tick.
Failed(c) == startup' = IF c = "startup" THEN "failed" ELSE startup

\* A tick may come at any time its loop can take it (one that finds the last
\* still unread is dropped).  Browser mode has the interval ticker only, made
\* after the first collection.
Ticks(t) == mode = "window" \/ (t = "fast" /\ startup \in {"failed", "over"})

\* Who calls, and when.
Calls(c) ==
    /\ CASE c = "startup" -> startup = "due"
         [] c \in Tickers -> calls[c] = Idle /\ Ticks(c)
         [] c = "refresh" -> page.shows.is = "whole" /\ calls[c] = Idle
         [] c = "save"    -> saver = "saved"

Consumed(c) == saver' = IF c = "save" THEN "idle" ELSE saver

Start(c) ==
    /\ Calls(c)
    /\ ~building
    /\ building' = TRUE
    /\ calls' = [calls EXCEPT ![c].at = "locked"]
    /\ Consumed(c)
    /\ startup' = IF c = "startup" THEN "collecting" ELSE startup
    /\ UNCHANGED <<mode, Store, cfg, seat, file, Screen, spent>>

Busy(c) ==
    /\ Calls(c)
    /\ building
    /\ Consumed(c)
    /\ Failed(c)
    /\ UNCHANGED <<mode, Store, cfg, seat, file, building, calls, Screen, spent>>

(* MUTANT: only a save and Refresh take the settings of the moment. *)
SnapshotAtLaunch(c) ==
    /\ calls[c].at = "locked"
    /\ saver \in {"idle", "saved"}
    /\ calls' = [calls EXCEPT ![c].at = "collect",
                             ![c].cfg = IF c \in {"save", "refresh"} THEN cfg ELSE 0,
                             ![c].seat = IF c \in {"save", "refresh"} THEN seat ELSE 0]
    /\ UNCHANGED <<mode, Store, startup, Settings, building, Screen, spent>>

\* The copies of a.cfg and a.seat, under a.mu.
Snapshot(c) ==
    /\ calls[c].at = "locked"
    /\ saver \in {"idle", "saved"}
    /\ calls' = [calls EXCEPT ![c].at = "collect", ![c].cfg = cfg, ![c].seat = seat]
    /\ UNCHANGED <<mode, Store, startup, Settings, building, Screen, spent>>

(* MUTANT: a fast pass shows only the tier it reads. *)
CollectOneTier(c) ==
    /\ calls[c].at = "collect"
    /\ stored' = IF Slow(c) THEN data["wsl"] ELSE stored
    /\ calls' = [calls EXCEPT ![c].at = "render",
                             ![c].got = IF Slow(c) THEN data ELSE [data EXCEPT !["wsl"] = 0]]
    /\ UNCHANGED <<mode, data, extended, startup, Settings, building, Screen, spent>>

\* Collect: the store catches up, and the payload is what it then holds.
Collect(c) ==
    /\ calls[c].at = "collect"
    /\ stored' = IF Slow(c) THEN data["wsl"] ELSE stored
    /\ calls' = [calls EXCEPT ![c].at = "render", ![c].got = [data EXCEPT !["wsl"] = stored']]
    /\ UNCHANGED <<mode, data, extended, startup, Settings, building, Screen, spent>>

\* The file as os.WriteFile has created it for caller c, with form version m.
Torn(c, m) ==
    [is |-> "torn", cfg |-> calls[c].cfg, seat |-> calls[c].seat, modal |-> m,
     got |-> calls[c].got]

(* MUTANT: a.building is released before the file is written. *)
TruncateReleased(c) ==
    /\ calls[c].at = "render"
    /\ saver \in {"idle", "saved"}
    /\ disk' = Torn(c, cfg)
    /\ page' = [page EXCEPT !.current = FALSE]
    /\ calls' = [calls EXCEPT ![c].at = "write"]
    /\ building' = FALSE
    /\ UNCHANGED <<mode, Store, startup, Settings, spent>>

(* MUTANT: the settings form is the one the app was launched with. *)
TruncateOldForm(c) ==
    /\ calls[c].at = "render"
    /\ saver \in {"idle", "saved"}
    /\ disk' = Torn(c, 0)
    /\ page' = [page EXCEPT !.current = FALSE]
    /\ calls' = [calls EXCEPT ![c].at = "write"]
    /\ UNCHANGED <<mode, Store, startup, Settings, building, spent>>

\* applyAppChrome under a.mu (the settings form shows a.cfg), then
\* os.WriteFile in place: the file is empty before it is whole.
Truncate(c) ==
    /\ calls[c].at = "render"
    /\ saver \in {"idle", "saved"}
    /\ disk' = Torn(c, cfg)
    /\ page' = [page EXCEPT !.current = FALSE]
    /\ calls' = [calls EXCEPT ![c].at = "write"]
    /\ UNCHANGED <<mode, Store, startup, Settings, building, spent>>

Finish(c) ==
    /\ calls[c].at = "write"
    /\ disk' = [disk EXCEPT !.is = "whole"]
    /\ page' = [page EXCEPT !.current = FALSE]
    /\ calls' = [calls EXCEPT ![c].at = "built"]
    /\ UNCHANGED <<mode, Store, startup, Settings, building, spent>>

\* The deferred building.Store(false), then the caller's own follow-up: a
\* reload, startup's extendLiveWatchWSL.  (Resetting the WSL ticker only moves
\* a tick, which may come at any time here.)
Return(c) ==
    /\ calls[c].at = "built"
    /\ building' = FALSE
    /\ calls' = [calls EXCEPT ![c] = Idle]
    /\ extended' = (extended \/ c = "startup")
    /\ startup' = IF c = "startup" THEN "over" ELSE startup
    /\ page' = Reload(c)
    /\ UNCHANGED <<mode, data, stored, Settings, disk, spent>>

\* A collection, a render or the write fails; a failed write leaves the file
\* torn.
Fault(c) ==
    /\ calls[c].at \in {"collect", "render", "write"}
    /\ Trouble
    /\ building' = FALSE
    /\ calls' = [calls EXCEPT ![c] = Idle]
    /\ Failed(c)
    /\ UNCHANGED <<mode, Store, Settings, Screen>>

-----------------------------------------------------------------------------
(* MUTANT: the settings change in memory before they are on disk. *)
SaveBeginsInMemory ==
    /\ saver = "idle"
    /\ page.shows.is = "whole"
    /\ cfg < MaxSaves
    /\ saver' = "tmp"
    /\ cfg' = cfg + 1 /\ seat' = cfg + 1
    /\ UNCHANGED <<mode, Store, startup, file, building, calls, Screen, spent>>

\* applySettings: the new block goes to burnmon.json.tmp, the rename makes it
\* burnmon.json, and only then do a.cfg and a.seat change; all under a.mu.
SaveBegins ==
    /\ saver = "idle"
    /\ page.shows.is = "whole"
    /\ cfg < MaxSaves
    /\ saver' = "tmp"
    /\ UNCHANGED <<mode, Store, startup, cfg, seat, file, building, calls, Screen, spent>>

SaveRenames ==
    /\ saver = "tmp"
    /\ file' = cfg + 1
    /\ saver' = "renamed"
    /\ UNCHANGED <<mode, Store, startup, cfg, seat, building, calls, Screen, spent>>

SaveEnds ==
    /\ saver = "renamed"
    /\ cfg' = file /\ seat' = file
    /\ saver' = "saved"
    /\ UNCHANGED <<mode, Store, startup, file, building, calls, Screen, spent>>

SaveFails ==
    /\ saver = "tmp"
    /\ Trouble
    /\ saver' = "idle"
    /\ UNCHANGED <<mode, Store, startup, cfg, seat, file, building, calls, Screen>>

-----------------------------------------------------------------------------
\* The page.  A window load reads the file as it is.
Load ==
    /\ mode = "window"
    /\ page.phase = "asked"
    /\ page' = [page EXCEPT !.phase = "shown", !.shows = disk]
    /\ UNCHANGED <<mode, Store, startup, Settings, building, calls, disk, spent>>

\* servePage: readDashboard, which reads again for a second while the file is
\* torn (longer than a live writer takes: what stays torn is what a dead one
\* left, and is served as it is), and only then builtStamp.
Writing == \E c \in Callers : calls[c].at = "write"

ServeRead ==
    /\ mode = "browser"
    /\ page.phase = "asked"
    /\ disk.is = "torn" => ~Writing
    /\ page' = [page EXCEPT !.phase = "read", !.shows = disk]
    /\ UNCHANGED <<mode, Store, startup, Settings, building, calls, disk, spent>>

ServeStamp ==
    /\ mode = "browser"
    /\ page.phase = "read"
    /\ page' = [page EXCEPT !.phase = "shown", !.current = (page.shows.is # "none")]
    /\ UNCHANGED <<mode, Store, startup, Settings, building, calls, disk, spent>>

\* bridgeScript and warmingPollScript: reload once the file's stamp is not
\* the page's, or a first file exists.
PollBuilt ==
    /\ mode = "browser"
    /\ page.phase = "shown"
    /\ ~page.current /\ disk.is # "none"
    /\ page' = [page EXCEPT !.phase = "asked"]
    /\ UNCHANGED <<mode, Store, startup, Settings, building, calls, disk, spent>>

\* The process ends and is started again: burnmon.json and dashboard.html are
\* what the disk has, a torn dashboard included.  The window app takes its seat
\* from the file; the browser build starts with the -seat flag's whatever the
\* file says (main_other.go:97).
Restart ==
    /\ Trouble
    /\ cfg' = file
    /\ seat' = IF mode = "window" THEN file ELSE 0
    /\ saver' = "idle"
    /\ building' = FALSE
    /\ calls' = [c \in Callers |-> Idle]
    /\ startup' = "due"
    /\ extended' = FALSE
    /\ page' = OpenPage(disk, mode)
    /\ UNCHANGED <<mode, data, stored, file, disk>>

Next ==
    \/ \E t \in Tiers : Write(t)
    \/ LiveIngest
    \/ \E c \in Callers : \/ Start(c) \/ Busy(c) \/ Snapshot(c) \/ Collect(c)
                          \/ Truncate(c) \/ Finish(c) \/ Return(c) \/ Fault(c)
    \/ SaveBegins \/ SaveRenames \/ SaveEnds \/ SaveFails
    \/ Load \/ ServeRead \/ ServeStamp \/ PollBuilt
    \/ Restart

\* Goroutines run, tickers tick, the watcher hears of writes and the page
\* loads and polls; nothing makes the user press a button, and nothing makes
\* a caller's rebuild win against the others'.  A page load is short against
\* the collection that goes before the next write of the file, so not every
\* load and poll meets the file torn (some may: the window does not try again).
Fairness ==
    /\ WF_vars(LiveIngest)
    /\ \A c \in Callers \ {"refresh"} : WF_vars(Start(c) \/ Busy(c))
    /\ \A c \in Callers :
          WF_vars(Snapshot(c) \/ Collect(c) \/ Truncate(c) \/ Finish(c) \/ Return(c))
    /\ WF_vars(SaveRenames \/ SaveEnds)
    /\ WF_vars(Load \/ ServeRead \/ ServeStamp) /\ WF_vars(PollBuilt)
    /\ SF_vars((Load \/ ServeRead) /\ disk.is = "whole")
    /\ SF_vars(PollBuilt /\ disk.is = "whole")

Spec == Init /\ [][Next]_vars /\ Fairness

-----------------------------------------------------------------------------
AppTypeOK ==
    /\ mode \in {"window", "browser"}
    /\ data \in [Tiers -> 0..MaxData] /\ stored \in 0..MaxData
    /\ extended \in BOOLEAN /\ building \in BOOLEAN
    /\ startup \in {"due", "collecting", "failed", "over"}
    /\ cfg \in 0..MaxSaves /\ seat \in 0..MaxSaves /\ file \in 0..MaxSaves
    /\ saver \in {"idle", "tmp", "renamed", "saved"}
    /\ \A c \in Callers : calls[c].at \in
          {"idle", "locked", "collect", "render", "write", "built"}
    /\ disk.is \in {"none", "torn", "whole"}

\* dashboard.html has at most one writer, whoever asked for the rebuild and
\* however it ended: two in-place writes at once would interleave.
OneWriter ==
    \A c, d \in Callers :
        calls[c].at = "write" /\ calls[d].at = "write" => c = d

\* The running config is never ahead of burnmon.json: what the page shows as
\* saved is what a restart reads, also when the write fails or the process
\* dies.  In the window app the seat in force is that config's in every state,
\* those after a restart included; the browser build forgets a saved seat when
\* it ends, though pricing.go:86-92 lets both binaries start from it.
SavedIsDurable ==
    /\ cfg <= file
    /\ mode = "window" => seat = cfg

\* The settings form a page shows is never older than the settings its
\* numbers were computed with: the chrome is applied after the collection.
FormNotOlder ==
    page.shows.is # "none" => page.shows.modal >= page.shows.cfg

\* A window that showed the first-run page when startup's collection failed
\* has no way to the dashboard but a restart (a reload of SetHtml's text).
Stranded == mode = "window" /\ ~page.onFile /\ startup = "failed"

\* Everything the agents wrote on the native side reaches the page, through
\* rebuilds that are skipped, fail or race each other, torn files, stamps
\* taken after the file was read, and a restart.
PageCatchesUp ==
    \A v \in 1..MaxData :
        data["native"] >= v
            ~> (Stranded \/ (page.shows.is = "whole" /\ page.shows.got["native"] >= v))

\* So does what was written under WSL, once the watcher knows its roots, even
\* if every WSL tick finds a rebuild running.
WSLCatchesUp ==
    \A v \in 1..MaxData :
        (data["wsl"] >= v /\ extended)
            ~> (\/ ~extended
                \/ page.shows.is = "whole" /\ page.shows.got["wsl"] >= v)

\* Saved settings reach the numbers, even if the save's own rebuild found
\* another one running and was skipped; in the window app so does the saved
\* seat (a restart of the browser build forgets it).
SettingsReachThePage ==
    \A v \in 1..MaxSaves :
        cfg >= v ~> \/ Stranded
                    \/ /\ page.shows.is = "whole" /\ page.shows.cfg >= v
                       /\ mode = "window" => page.shows.seat >= v

=============================================================================
