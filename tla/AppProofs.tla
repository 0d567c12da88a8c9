------------------------------ MODULE AppProofs ------------------------------
(***************************************************************************)
(* App's three safety invariants, for every number of versions, saves and  *)
(* troubles.  AppInv is inductive: whoever is past Start holds a.building, *)
(* so at most one caller is; burnmon.json is a.cfg but between the rename  *)
(* and the assignment after it; and settings only grow, so that a copy     *)
(* taken earlier (a caller's, a page's numbers) is never newer than one    *)
(* taken later (the form).                                                 *)
(***************************************************************************)
EXTENDS App, TLAPS

Versions == [Tiers -> Nat]
CallAt == {"idle", "locked", "collect", "render", "write", "built"}
CallStates == [at : CallAt, cfg : Nat, seat : Nat, got : Versions]
PageFiles ==
    [is : {"none", "torn", "whole"}, cfg : Nat, seat : Nat, modal : Nat, got : Versions]
PageStates == [shows : PageFiles, onFile : BOOLEAN, phase : {"asked", "read", "shown"},
               current : BOOLEAN]

TypeInv ==
    /\ mode \in {"window", "browser"}
    /\ data \in [Tiers -> 0..MaxData] /\ stored \in 0..MaxData
    /\ extended \in BOOLEAN /\ building \in BOOLEAN
    /\ startup \in {"due", "collecting", "failed", "over"}
    /\ cfg \in 0..MaxSaves /\ seat \in 0..MaxSaves /\ file \in 0..MaxSaves
    /\ saver \in {"idle", "tmp", "renamed", "saved"}
    /\ calls \in [Callers -> CallStates]
    /\ disk \in PageFiles /\ page \in PageStates

\* A caller between Start and Return holds a.building, alone.
Alone ==
    \A c \in Callers : calls[c].at # "idle" =>
        building /\ \A d \in Callers : calls[d].at # "idle" => c = d

\* burnmon.json against a.cfg, by how far a save is, and a.seat against both.
OnDisk ==
    /\ saver = "renamed" => file = cfg + 1
    /\ saver # "renamed" => file = cfg
    /\ saver = "tmp" => cfg < MaxSaves
    /\ mode = "window" => seat = cfg

\* Copies of the settings, the older one never ahead.
Copies ==
    /\ \A c \in Callers : calls[c].cfg <= cfg
    /\ disk.cfg <= disk.modal
    /\ page.shows.cfg <= page.shows.modal

AppInv == TypeInv /\ Alone /\ OnDisk /\ Copies

-----------------------------------------------------------------------------
LEMMA AppInitInv == Init => AppInv
<1> SUFFICES ASSUME Init PROVE AppInv
    OBVIOUS
<1>1. NoData \in Versions /\ NoData \in [Tiers -> 0..MaxData]
  BY AppAssumption DEF NoData, Versions, Tiers
<1>2. Idle \in CallStates /\ NoPage \in PageFiles
  BY <1>1 DEF Idle, NoPage, CallStates, CallAt, PageFiles
<1>3. [NoPage EXCEPT !.is = "whole"] \in PageFiles
  BY <1>1 DEF NoPage, PageFiles
<1>4. disk \in PageFiles /\ disk.cfg = 0 /\ disk.modal = 0
  BY <1>2, <1>3 DEF Init, NoPage
<1>5. page \in PageStates /\ page.shows.cfg = 0 /\ page.shows.modal = 0
  BY <1>2 DEF Init, OpenPage, FirstRunPage, PageStates, NoPage
<1>6. calls \in [Callers -> CallStates] /\ 0 \in 0..MaxData /\ 0 \in 0..MaxSaves
  BY <1>2, AppAssumption DEF Init
<1>7. TypeInv
  BY <1>1, <1>4, <1>5, <1>6 DEF Init, TypeInv
<1>8. Alone /\ OnDisk /\ Copies
  BY <1>4, <1>5 DEF Init, Alone, OnDisk, Copies, Idle
<1>. QED BY <1>7, <1>8 DEF AppInv

-----------------------------------------------------------------------------
\* A step that gives one caller the state r, the others being idle.
LEMMA CallMoves ==
    ASSUME calls \in [Callers -> CallStates], cfg \in Nat, cfg' = cfg,
           \A d \in Callers : calls[d].cfg <= cfg,
           NEW c \in Callers, \A d \in Callers : d # c => calls[d].at = "idle",
           NEW r \in CallStates, calls' = [calls EXCEPT ![c] = r],
           r.at # "idle" => building', r.cfg <= cfg
    PROVE  /\ calls' \in [Callers -> CallStates] /\ Alone'
           /\ \A d \in Callers : calls'[d].cfg <= cfg'
<1>1. calls' \in [Callers -> CallStates]
  OBVIOUS
<1>2. calls'[c] = r /\ \A d \in Callers : d # c => calls'[d] = calls[d]
  OBVIOUS
<1>3. Alone'
  BY <1>2 DEF Alone
<1>4. \A d \in Callers : calls'[d].cfg <= cfg'
  BY <1>2
<1>. QED BY <1>1, <1>3, <1>4

\* Who is past Start holds a.building, and is there alone.
LEMMA OthersIdle ==
    ASSUME Alone, NEW c \in Callers, calls[c].at # "idle"
    PROVE  building /\ \A d \in Callers : d # c => calls[d].at = "idle"
BY DEF Alone

-----------------------------------------------------------------------------
LEMMA AppNextInv == AppInv /\ [Next]_vars => AppInv'
<1> SUFFICES ASSUME AppInv, [Next]_vars PROVE AppInv'
    OBVIOUS
<1> USE DEF AppInv
<1>a. /\ cfg \in Nat /\ seat \in Nat /\ file \in Nat /\ stored \in 0..MaxData
      /\ data \in [Tiers -> 0..MaxData] /\ data["wsl"] \in 0..MaxData
      /\ data \in Versions /\ disk \in PageFiles /\ page \in PageStates
      /\ calls \in [Callers -> CallStates] /\ MaxData \in Nat /\ MaxSaves \in Nat
      /\ \A d \in Callers : calls[d].cfg <= cfg
  BY AppAssumption DEF TypeInv, Tiers, Versions, Copies
<1>b. NoData \in Versions /\ Idle \in CallStates /\ Idle.at = "idle" /\ Idle.cfg = 0
  BY DEF NoData, Versions, Tiers, Idle, CallStates, CallAt
<1>c. ASSUME NEW d \in PageFiles, d.cfg <= d.modal, NEW m
      PROVE  /\ OpenPage(d, m) \in PageStates
             /\ OpenPage(d, m).shows.cfg <= OpenPage(d, m).shows.modal
  <2>1. NoPage \in PageFiles /\ NoPage.cfg = 0 /\ NoPage.modal = 0
    BY <1>b DEF NoPage, PageFiles
  <2>2. FirstRunPage \in PageStates /\ FirstRunPage.shows = NoPage
    BY <2>1 DEF FirstRunPage, PageStates
  <2>3. \/ OpenPage(d, m) = FirstRunPage
        \/ OpenPage(d, m) = [FirstRunPage EXCEPT !.onFile = TRUE, !.phase = "asked"]
    BY DEF OpenPage
  <2>4. OpenPage(d, m) \in PageStates /\ OpenPage(d, m).shows = NoPage
    BY <2>2, <2>3 DEF PageStates
  <2>. QED BY <2>1, <2>4
<1>1. ASSUME NEW t \in Tiers, Write(t) PROVE AppInv'
  <2>1. data' \in [Tiers -> 0..MaxData]
    BY <1>a, <1>1 DEF Write
  <2>. QED BY <1>1, <2>1 DEF Write, TypeInv, Alone, OnDisk, Copies, Settings, Screen
<1>2. CASE LiveIngest
  BY <1>a, <1>2 DEF LiveIngest, TypeInv, Alone, OnDisk, Copies, Settings, Screen
<1>3. ASSUME NEW c \in Callers, Start(c) PROVE AppInv'
  <2>1. \A d \in Callers : calls[d].at = "idle"
    BY <1>3 DEF Start, Alone
  <2>2. saver' \in {"idle", "tmp", "renamed", "saved"} /\ OnDisk'
    BY <1>3 DEF Start, Calls, Consumed, Tickers, TypeInv, OnDisk
  <2> DEFINE r == [calls[c] EXCEPT !.at = "locked"]
  <2>3. r \in CallStates /\ r.cfg <= cfg
    BY <1>a DEF CallStates, CallAt
  <2>4. calls' = [calls EXCEPT ![c] = r] /\ building' /\ cfg' = cfg
    BY <1>3 DEF Start
  <2> HIDE DEF r
  <2>5. /\ calls' \in [Callers -> CallStates] /\ Alone'
        /\ \A d \in Callers : calls'[d].cfg <= cfg'
    BY <1>a, <2>1, <2>3, <2>4, CallMoves
  <2>6. TypeInv' /\ Copies'
    BY <1>3, <2>2, <2>5 DEF Start, TypeInv, Copies, Store, Screen
  <2>. QED BY <2>2, <2>5, <2>6
<1>4. ASSUME NEW c \in Callers, Busy(c) PROVE AppInv'
  <2>1. saver' \in {"idle", "tmp", "renamed", "saved"} /\ OnDisk'
    BY <1>4 DEF Busy, Calls, Consumed, Tickers, TypeInv, OnDisk
  <2>2. startup' \in {"due", "collecting", "failed", "over"}
    BY <1>4 DEF Busy, Failed, TypeInv
  <2>. QED BY <1>4, <2>1, <2>2 DEF Busy, TypeInv, Alone, Copies, Store, Screen
<1>5. ASSUME NEW c \in Callers, Snapshot(c) PROVE AppInv'
  <2> DEFINE r == [calls[c] EXCEPT !.at = "collect", !.cfg = cfg, !.seat = seat]
  <2>1. building /\ \A d \in Callers : d # c => calls[d].at = "idle"
    BY <1>5, OthersIdle DEF Snapshot
  <2>2. r \in CallStates /\ r.cfg <= cfg
    <3>1. calls[c] \in CallStates /\ cfg <= cfg
      BY <1>a
    <3>2. r \in CallStates /\ r.cfg = cfg
      BY <1>a, <3>1 DEF CallStates, CallAt
    <3>. QED BY <3>1, <3>2
  <2>3. calls' = [calls EXCEPT ![c] = r] /\ building' = building /\ cfg' = cfg
    BY <1>5 DEF Snapshot, Settings
  <2> HIDE DEF r
  <2>4. /\ calls' \in [Callers -> CallStates] /\ Alone'
        /\ \A d \in Callers : calls'[d].cfg <= cfg'
    BY <1>a, <2>1, <2>2, <2>3, CallMoves
  <2>. QED BY <1>5, <2>4 DEF Snapshot, TypeInv, OnDisk, Copies, Settings, Store, Screen
<1>6. ASSUME NEW c \in Callers, Collect(c) PROVE AppInv'
  <2>1. building /\ \A d \in Callers : d # c => calls[d].at = "idle"
    BY <1>6, OthersIdle DEF Collect
  <2>2. stored' \in 0..MaxData
    BY <1>6, <1>a DEF Collect
  <2> DEFINE got == [data EXCEPT !["wsl"] = stored']
  <2>3. got \in Versions
    <3>1. stored' \in Nat /\ data \in [Tiers -> Nat]
      BY <1>a, <2>2 DEF Versions
    <3>. QED BY <3>1 DEF Versions
  <2> HIDE DEF got
  <2> DEFINE r == [calls[c] EXCEPT !.at = "render", !.got = got]
  <2>4. r \in CallStates /\ r.cfg <= cfg
    BY <1>a, <2>3 DEF CallStates, CallAt
  <2>5. calls' = [calls EXCEPT ![c] = r] /\ building' = building /\ cfg' = cfg
    BY <1>6 DEF Collect, Settings, got
  <2> HIDE DEF r
  <2>6. /\ calls' \in [Callers -> CallStates] /\ Alone'
        /\ \A d \in Callers : calls'[d].cfg <= cfg'
    BY <1>a, <2>1, <2>4, <2>5, CallMoves
  <2>. QED BY <1>6, <2>2, <2>6 DEF Collect, TypeInv, OnDisk, Copies, Settings, Screen
<1>7. ASSUME NEW c \in Callers, Truncate(c) PROVE AppInv'
  <2> DEFINE r == [calls[c] EXCEPT !.at = "write"]
  <2>1. building /\ \A d \in Callers : d # c => calls[d].at = "idle"
    BY <1>7, OthersIdle DEF Truncate
  <2>2. r \in CallStates /\ r.cfg <= cfg /\ calls[c] \in CallStates /\ calls[c].cfg <= cfg
    BY <1>a DEF CallStates, CallAt, Copies
  <2>3. calls' = [calls EXCEPT ![c] = r] /\ building' = building /\ cfg' = cfg
    BY <1>7 DEF Truncate, Settings
  <2>4. disk' \in PageFiles /\ disk'.cfg <= disk'.modal
    BY <1>7, <1>a, <2>2 DEF Truncate, Torn, PageFiles, CallStates
  <2>5. page' \in PageStates /\ page'.shows = page.shows
    BY <1>7, <1>a DEF Truncate, PageStates
  <2> HIDE DEF r
  <2>6. /\ calls' \in [Callers -> CallStates] /\ Alone'
        /\ \A d \in Callers : calls'[d].cfg <= cfg'
    BY <1>a, <2>1, <2>2, <2>3, CallMoves
  <2>. QED BY <1>7, <2>4, <2>5, <2>6 DEF Truncate, TypeInv, OnDisk, Copies, Settings, Store
<1>8. ASSUME NEW c \in Callers, Finish(c) PROVE AppInv'
  <2> DEFINE r == [calls[c] EXCEPT !.at = "built"]
  <2>1. building /\ \A d \in Callers : d # c => calls[d].at = "idle"
    BY <1>8, OthersIdle DEF Finish
  <2>2. r \in CallStates /\ r.cfg <= cfg
    BY <1>a DEF CallStates, CallAt, Copies
  <2>3. calls' = [calls EXCEPT ![c] = r] /\ building' = building /\ cfg' = cfg
    BY <1>8 DEF Finish, Settings
  <2>4. disk' \in PageFiles /\ disk'.cfg = disk.cfg /\ disk'.modal = disk.modal
    BY <1>8, <1>a DEF Finish, PageFiles
  <2>5. page' \in PageStates /\ page'.shows = page.shows
    BY <1>8, <1>a DEF Finish, PageStates
  <2> HIDE DEF r
  <2>6. /\ calls' \in [Callers -> CallStates] /\ Alone'
        /\ \A d \in Callers : calls'[d].cfg <= cfg'
    BY <1>a, <2>1, <2>2, <2>3, CallMoves
  <2>. QED BY <1>8, <2>4, <2>5, <2>6 DEF Finish, TypeInv, OnDisk, Copies, Settings, Store
<1>9. ASSUME NEW c \in Callers, Return(c) PROVE AppInv'
  <2>1. \A d \in Callers : d # c => calls[d].at = "idle"
    BY <1>9, OthersIdle DEF Return
  <2>2. page' \in PageStates /\ page'.shows = page.shows
    BY <1>9, <1>a DEF Return, Reload, PageStates
  <2>3. /\ calls' \in [Callers -> CallStates] /\ Alone'
        /\ \A d \in Callers : calls'[d].cfg <= cfg'
    <3>1. calls' = [calls EXCEPT ![c] = Idle] /\ cfg' = cfg
      BY <1>9 DEF Return, Settings
    <3>2. Idle \in CallStates /\ Idle.at = "idle" /\ Idle.cfg <= cfg
      BY <1>a, <1>b
    <3>. QED BY <1>a, <2>1, <3>1, <3>2, CallMoves
  <2>. QED BY <1>9, <2>2, <2>3 DEF Return, TypeInv, OnDisk, Copies, Settings
<1>10. ASSUME NEW c \in Callers, Fault(c) PROVE AppInv'
  <2>1. \A d \in Callers : d # c => calls[d].at = "idle"
    BY <1>10, OthersIdle DEF Fault
  <2>2. /\ calls' \in [Callers -> CallStates] /\ Alone'
        /\ \A d \in Callers : calls'[d].cfg <= cfg'
    <3>1. calls' = [calls EXCEPT ![c] = Idle] /\ cfg' = cfg
      BY <1>10 DEF Fault, Settings
    <3>2. Idle \in CallStates /\ Idle.at = "idle" /\ Idle.cfg <= cfg
      BY <1>a, <1>b
    <3>. QED BY <1>a, <2>1, <3>1, <3>2, CallMoves
  <2>. QED BY <1>10, <2>2 DEF Fault, Failed, TypeInv, OnDisk, Copies, Settings, Store, Screen
<1>11. CASE SaveBegins
  BY <1>a, <1>11 DEF SaveBegins, TypeInv, Alone, OnDisk, Copies, Store, Screen
<1>12. CASE SaveRenames
  BY <1>a, <1>12 DEF SaveRenames, TypeInv, Alone, OnDisk, Copies, Store, Screen
<1>13. CASE SaveEnds
  <2>1. cfg' = cfg + 1 /\ file' = file /\ file = cfg + 1 /\ seat' = cfg'
    BY <1>13 DEF SaveEnds, OnDisk
  <2>2. \A c \in Callers : calls[c].cfg \in Nat
    BY <1>a DEF CallStates
  <2>3. Copies'
    BY <1>13, <1>a, <2>1, <2>2 DEF SaveEnds, Copies, Screen
  <2>. QED BY <1>13, <2>1, <2>3 DEF SaveEnds, TypeInv, Alone, OnDisk, Store, Screen
<1>14. CASE SaveFails
  BY <1>a, <1>14 DEF SaveFails, TypeInv, Alone, OnDisk, Copies, Store, Screen
<1>15. CASE Load \/ ServeRead \/ ServeStamp \/ PollBuilt
  <2>1. page' \in PageStates /\ page'.shows.cfg <= page'.shows.modal
    BY <1>15, <1>a DEF Load, ServeRead, ServeStamp, PollBuilt, PageStates, Copies
  <2>. QED BY <1>15, <2>1
       DEF Load, ServeRead, ServeStamp, PollBuilt, TypeInv, Alone, OnDisk, Copies, Settings, Store
<1>16. CASE Restart
  <2>1. page' \in PageStates /\ page'.shows.cfg <= page'.shows.modal
    BY <1>16, <1>a, <1>c DEF Restart, Copies
  <2>2. calls' \in [Callers -> CallStates] /\ \A c \in Callers : calls'[c] = Idle
    BY <1>16, <1>b DEF Restart
  <2>3. Alone' /\ OnDisk' /\ Copies'
    BY <1>16, <1>a, <1>b, <2>1, <2>2 DEF Restart, Alone, OnDisk, Copies
  <2>4. cfg' \in 0..MaxSaves /\ seat' \in 0..MaxSaves
    <3>1. file \in 0..MaxSaves /\ 0 \in 0..MaxSaves
      BY <1>a DEF TypeInv
    <3>. QED BY <1>16, <3>1 DEF Restart
  <2>. QED BY <1>16, <1>a, <2>1, <2>2, <2>3, <2>4 DEF Restart, TypeInv
<1>17. CASE UNCHANGED vars
  BY <1>17 DEF vars, TypeInv, Alone, OnDisk, Copies
<1>. QED
  BY <1>1, <1>2, <1>3, <1>4, <1>5, <1>6, <1>7, <1>8, <1>9, <1>10, <1>11, <1>12, <1>13, <1>14,
     <1>15, <1>16, <1>17 DEF Next

LEMMA AppAlwaysInv == Spec => []AppInv
<1>. QED BY AppInitInv, AppNextInv, PTL DEF Spec

-----------------------------------------------------------------------------
(* App's variables stay in their types. *)
THEOREM AppTyped == Spec => []AppTypeOK
<1>1. AppInv => AppTypeOK
  BY DEF AppInv, TypeInv, AppTypeOK, CallStates, CallAt, PageFiles
<1>. QED BY AppAlwaysInv, <1>1, PTL

(* Two rebuilds never write dashboard.html at once (rebuild, app.go),       *)
(* however many callers, failures and restarts there are.                  *)
THEOREM AppOneWriter == Spec => []OneWriter
<1>1. AppInv => OneWriter
  BY DEF AppInv, Alone, OneWriter
<1>. QED BY AppAlwaysInv, <1>1, PTL

(* The settings in force are on disk (applySettings, app.go), and the      *)
(* window app's seat is theirs through every save, crash and restart       *)
(* (main.go:139-142).                                                      *)
THEOREM AppSavedIsDurable == Spec => []SavedIsDurable
<1>1. AppInv => SavedIsDurable
  BY AppAssumption DEF AppInv, TypeInv, OnDisk, SavedIsDurable
<1>. QED BY AppAlwaysInv, <1>1, PTL

(* A page's settings form is never older than its numbers (rebuild and     *)
(* applyAppChrome, app.go).                                                *)
THEOREM AppFormNotOlder == Spec => []FormNotOlder
<1>1. AppInv => FormNotOlder
  BY DEF AppInv, TypeInv, Copies, FormNotOlder, PageStates, PageFiles
<1>. QED BY AppAlwaysInv, <1>1, PTL

=============================================================================
