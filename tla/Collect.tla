------------------------------ MODULE Collect ------------------------------
(***************************************************************************)
(* Cache.Collect (internal/dataset/dataset.go) around the ingest of        *)
(* Ingest.tla: list the transcripts, ingest them, drop from the store      *)
(* those that were not listed, read everything back and publish it.  One   *)
(* collector is one program's Cache: rebuild admits one collection at a    *)
(* time (app.building), while the program's watchers keep calling          *)
(* IngestFile, and other programs may share the store.                     *)
(*                                                                         *)
(* Two refresh cadences.  A full pass walks every root it can resolve and  *)
(* remembers the slow (WSL) files it saw; a fast pass walks the native     *)
(* roots only and lists the remembered slow files unseen.  Which slow roots*)
(* a full pass resolves is up to the WSL probe: a distribution that does   *)
(* not answer before the deadline is left out.                             *)
(*                                                                         *)
(* ResetCollapsedCodexSessions and PurgeAuditSessions, which a collection  *)
(* runs first, change nothing in a store of the rows this model writes.    *)
(***************************************************************************)
EXTENDS Ingest

CONSTANT Apps   (* the collectors that are windowed programs, not CLI runs   *)

ASSUME AppsAssumption == Apps \subseteq Collectors

VARIABLES
  pass,         (* collector -> its running collection                      *)
  slowRoots,    (* collector -> slow paths under its RootsByAdapter         *)
  slowFiles,    (* collector -> Cache.SlowFiles                             *)
  backfilled,   (* meta tool_calls_backfilled_v1                            *)
  startup,      (* collector -> how far the program's startup goroutine is  *)
  polled,       (* collector -> slow paths its WSL poller polls             *)
  cut           (* ghost: see Cut                                           *)

collectVars == <<pass, slowRoots, slowFiles, backfilled, startup, polled, cut>>
allVars     == <<vars, collectVars>>

(* Locals of one collection: what it listed, whether it is the backfill,   *)
(* the stale paths it found.                                               *)
NoPass == [pc |-> "idle", keep |-> {}, backfilling |-> FALSE, stale |-> {}]

Pass == [pc: {"idle", "ingest", "meta", "list", "prune", "publish"},
         keep: SUBSET Paths, backfilling: BOOLEAN, stale: SUBSET Paths]

(* An app's startup goroutine runs one full pass; only if that one succeeds*)
(* are the WSL roots handed to the poller.                                 *)
StartupStates == {"due", "running", "succeeded", "over"}

Launched == [c \in Collectors |-> IF c \in Apps THEN "due" ELSE "over"]

CollectTypeOK ==
  /\ TypeOK
  /\ pass \in [Collectors -> Pass]
  /\ slowRoots \in [Collectors -> SUBSET Slow]
  /\ slowFiles \in [Collectors -> SUBSET Slow]
  /\ backfilled \in BOOLEAN
  /\ startup \in [Collectors -> StartupStates]
  /\ polled \in [Collectors -> SUBSET Slow]
  /\ cut \subseteq Sessions

CollectInit ==
  /\ Init
  /\ pass = [c \in Collectors |-> NoPass]
  /\ slowRoots = [c \in Collectors |-> {}]
  /\ slowFiles = [c \in Collectors |-> {}]
  /\ backfilled = FALSE
  /\ startup = Launched
  /\ polled = [c \in Collectors |-> {}]
  /\ cut = {}

-----------------------------------------------------------------------------
InPass(c, pc) == pass[c].pc = pc

(* Lists and hands over to ingest.  With nothing listed Collect returns    *)
(* ErrNoFiles, before it prunes or publishes anything.                     *)
Start(c, files, trusted) ==
  /\ InPass(c, "idle")
  /\ IF files = {}
     THEN UNCHANGED <<proc, pass>>
     ELSE /\ Begin(c, files, trusted, ~ backfilled)
          /\ pass' = [pass EXCEPT ![c] = [pc |-> "ingest", keep |-> files,
                                          backfilling |-> ~ backfilled, stale |-> {}]]
  /\ UNCHANGED <<disk, tables, tailed, faults, backfilled, polled, cut>>

(* MUTANT: the remembered files are everything listed, native ones too.    *)
FullPassRemembersAll(c, reached) ==
  LET files == FindJSONL((Paths \ Slow) \cup reached) IN
    /\ Start(c, files, {})
    /\ slowRoots' = [slowRoots EXCEPT ![c] = reached]
    /\ slowFiles' = [slowFiles EXCEPT ![c] = files]

(* MUTANT: a full pass too takes the remembered slow files on trust.       *)
FullPassTrustsSlow(c, reached) ==
  LET files == FindJSONL((Paths \ Slow) \cup reached) IN
    /\ Start(c, files, slowFiles[c])
    /\ slowRoots' = [slowRoots EXCEPT ![c] = reached]
    /\ slowFiles' = [slowFiles EXCEPT ![c] = files \cap Slow]

FullPass(c, reached) ==
  LET files == FindJSONL((Paths \ Slow) \cup reached) IN
    /\ Start(c, files, {})
    /\ slowRoots' = [slowRoots EXCEPT ![c] = reached]
    /\ slowFiles' = [slowFiles EXCEPT ![c] = files \cap Slow]

FastPass(c) ==
  /\ Start(c, FindJSONL(Paths \ Slow) \cup slowFiles[c], slowFiles[c])
  /\ UNCHANGED <<slowRoots, slowFiles, startup>>

(* A full pass on the WSL ticker, on Refresh or after a settings save.     *)
Refresh(c, reached) == FullPass(c, reached) /\ UNCHANGED startup

(* The startup goroutine's: rebuild is busy when the user was faster, and  *)
(* is not tried again.                                                     *)
Startup(c, reached) ==
  /\ startup[c] = "due"
  /\ \/ /\ FullPass(c, reached)
        /\ startup' = [startup EXCEPT ![c] = IF pass' = pass THEN "over" ELSE "running"]
     \/ /\ ~ InPass(c, "idle")
        /\ startup' = [startup EXCEPT ![c] = "over"]
        /\ UNCHANGED <<vars, pass, slowRoots, slowFiles, backfilled, polled, cut>>

(* A collection ends, with or without an error.                            *)
End(c, ok) ==
  /\ pass' = [pass EXCEPT ![c] = NoPass]
  /\ startup' = IF startup[c] = "running"
                THEN [startup EXCEPT ![c] = IF ok THEN "succeeded" ELSE "over"] ELSE startup

(* A collector's ingest call returns when its last path is done.           *)
Returned(i) ==
  pass' = IF i \in Collectors /\ proc'[i] = Idle
          THEN [pass EXCEPT ![i].pc = IF pass[i].backfilling THEN "meta" ELSE "list"]
          ELSE pass

PassStep(i) ==
  /\ IngestStep(i)
  /\ Returned(i)
  /\ UNCHANGED <<slowRoots, slowFiles, backfilled, startup, polled, cut>>

SetMeta(c) ==
  /\ InPass(c, "meta")
  /\ backfilled' = TRUE
  /\ pass' = [pass EXCEPT ![c].pc = "list"]
  /\ UNCHANGED <<vars, slowRoots, slowFiles, startup, polled, cut>>

(* MUTANT: slow paths are never stale.                                     *)
ListStaleNativeOnly(c) ==
  /\ InPass(c, "list")
  /\ LET stale == {p \in Paths \ Slow : cursor[p] # None} \ pass[c].keep IN
       pass' = [pass EXCEPT ![c].stale = stale,
                            ![c].pc = IF stale = {} THEN "publish" ELSE "prune"]
  /\ UNCHANGED <<vars, slowRoots, slowFiles, backfilled, startup, polled, cut>>

(* DeleteEventsForOtherPaths reads the cursor table first ...              *)
ListStale(c) ==
  /\ InPass(c, "list")
  /\ LET stale == {p \in Paths : cursor[p] # None} \ pass[c].keep IN
       pass' = [pass EXCEPT ![c].stale = stale,
                            ![c].pc = IF stale = {} THEN "publish" ELSE "prune"]
  /\ UNCHANGED <<vars, slowRoots, slowFiles, backfilled, startup, polled, cut>>

(* The sessions whose events a prune takes away while somebody still       *)
(* counts on them: an ingest of the session is under way, or its transcript*)
(* also has a cursor under another path, one that this prune keeps.        *)
Cut(stale) ==
  {SessionOf[p] : p \in
     {q \in stale :
        \/ \E i \in Ingesters : proc[i].path # None /\ SessionOf[proc[i].path] = SessionOf[q]
        \/ \E r \in Paths \ stale : SessionOf[r] = SessionOf[q] /\ cursor[r] # None}}

(* ... and then, in one transaction, removes the stale paths' cursors and  *)
(* every event of their sessions.  Tool calls stay.                        *)
Pruned(stale) == {r \in events : \E p \in stale : SessionOf[p] = r.session}

(* MUTANT: the events go, the cursors stay.                                *)
PruneEventsOnly(c) ==
  /\ InPass(c, "prune")
  /\ events' = events \ Pruned(pass[c].stale)
  /\ cut' = cut \cup Cut(pass[c].stale)
  /\ pass' = [pass EXCEPT ![c].pc = "publish"]
  /\ UNCHANGED <<disk, toolCalls, toolResults, cursor, proc, tailed, faults,
                 slowRoots, slowFiles, backfilled, startup, polled>>

Prune(c) ==
  /\ InPass(c, "prune")
  /\ LET stale == pass[c].stale IN
       /\ events' = events \ Pruned(stale)
       /\ cursor' = [p \in Paths |-> IF p \in stale THEN None ELSE cursor[p]]
       /\ cut' = cut \cup Cut(stale)
  /\ pass' = [pass EXCEPT ![c].pc = "publish"]
  /\ UNCHANGED <<disk, toolCalls, toolResults, proc, tailed, faults,
                 slowRoots, slowFiles, backfilled, startup, polled>>

(* AllEvents and what is computed from it.  Collect fails when there is no *)
(* session to show.                                                        *)
Publish(c) ==
  /\ InPass(c, "publish")
  /\ End(c, events # {})
  /\ UNCHANGED <<vars, slowRoots, slowFiles, backfilled, polled, cut>>

(* extendLiveWatchWSL: the poller polls the slow roots known by now.       *)
ExtendLiveWatch(c) ==
  /\ startup[c] = "succeeded"
  /\ startup' = [startup EXCEPT ![c] = "over"]
  /\ polled' = [polled EXCEPT ![c] = slowRoots[c]]
  /\ UNCHANGED <<vars, pass, slowRoots, slowFiles, backfilled, cut>>

AfterIngest(c) == SetMeta(c) \/ ListStale(c) \/ Prune(c) \/ Publish(c)

(* The file-system watcher knows the native roots only; slow transcripts   *)
(* reach IngestFile through the poller, and are passed over when the last  *)
(* full pass did not resolve their root (adapterForPath).                  *)
Watch(w, p) ==
  /\ p \in Slow => \E c \in Collectors : p \in polled[c] \cap slowRoots[c]
  /\ IngestFile(w, p)
  /\ UNCHANGED collectVars

(* A store error ends the collection, in ingest or in the calls after it.  *)
StoreFails(i) ==
  \/ /\ StoreError(i)
     /\ IF i \in Collectors THEN End(i, FALSE) ELSE UNCHANGED <<pass, startup>>
     /\ UNCHANGED <<slowRoots, slowFiles, backfilled, polled, cut>>
  \/ /\ i \in Collectors
     /\ pass[i].pc \in {"meta", "list", "prune", "publish"}
     /\ faults < MaxFaults
     /\ faults' = faults + 1
     /\ End(i, FALSE)
     /\ UNCHANGED <<disk, tables, proc, tailed, slowRoots, slowFiles, backfilled, polled, cut>>

ReadFails(i) ==
  /\ ReadError(i)
  /\ Returned(i)
  /\ UNCHANGED <<slowRoots, slowFiles, backfilled, startup, polled, cut>>

(* SlowFiles lives in memory only, and the startup goroutine runs again.   *)
Restart ==
  /\ Crash
  /\ pass' = [c \in Collectors |-> NoPass]
  /\ slowRoots' = [c \in Collectors |-> {}]
  /\ slowFiles' = [c \in Collectors |-> {}]
  /\ startup' = Launched
  /\ polled' = [c \in Collectors |-> {}]
  /\ UNCHANGED <<backfilled, cut>>

CollectNext ==
  \/ Transcripts /\ UNCHANGED collectVars
  \/ \E w \in Watchers, p \in Paths : Watch(w, p)
  \/ \E c \in Collectors, reached \in SUBSET Slow : Startup(c, reached) \/ Refresh(c, reached)
  \/ \E c \in Collectors : FastPass(c) \/ ExtendLiveWatch(c)
  \/ \E i \in Ingesters : PassStep(i)
  \/ \E c \in Collectors : AfterIngest(c)
  \/ Restart \/ \E i \in Ingesters : StoreFails(i) \/ ReadFails(i)

CollectSpec == CollectInit /\ [][CollectNext]_allVars

(* The WSL ticker starts a full pass again and again, whatever other passes*)
(* come between, and again and again every distribution answers the probe; *)
(* a started call runs to its end.  (With wsl_scan off there is no such    *)
(* ticker, and no slow path: a fast pass then is a full one.)              *)
CollectFairness ==
  /\ \A c \in Collectors : SF_allVars(Refresh(c, Slow)) /\ WF_allVars(AfterIngest(c))
  /\ \A i \in Ingesters : WF_allVars(PassStep(i))

CollectFairSpec == CollectSpec /\ CollectFairness

-----------------------------------------------------------------------------
(***************************************************************************)
(* Properties.                                                             *)
(***************************************************************************)
(* The one way a collection loses lines for good is to prune a session     *)
(* somebody still counts on (Cut).  Apart from those, whatever the passes  *)
(* of both tiers, the watchers, errors and restarts do between each other's*)
(* steps, the cursor of a path vouches for every line before it.           *)
OnlyCutLoses == \A p \in Paths : SessionOf[p] \notin cut => Vouched(p)

(* What a prune drops is gone: no transcript stands at a path whose cursor *)
(* it removes (dataset.go: a transcript that no longer exists must not     *)
(* keep contributing its session).                                         *)
PruneDropsOnlyGone ==
  [][\A p \in Paths : (cursor[p] # None /\ cursor'[p] = None) => at[p] = None]_allVars

(* The prune is one-for-one: it takes no event of a session whose          *)
(* transcript the same collection listed and keeps.                        *)
PruneSparesKept ==
  [][\A c \in Collectors : Prune(c) =>
       \A p \in pass[c].keep : ~ \E r \in events \ events' : r.session = SessionOf[p]]_allVars

(* Every line of every native transcript on disk ends up in the store for  *)
(* good, whatever was missed by a failed call, a crash or a lost           *)
(* notification, and every line of a slow one is there again and again     *)
(* (between two full passes that reached it, others may prune it).  But for*)
(* sessions that were cut, and for rewrites and re-creations that went     *)
(* unnoticed (Rewritten is a guess from size and mtime).                   *)
Collected(p) ==
  \/ at[p] = None \/ SessionOf[p] \in cut
  \/ cursor[p] # None /\ cursor[p].ino = None
  \/ \A k \in 1..Len(inode[at[p]].lines) : LineStored(at[p], k)

EventuallyAllCollected ==
  /\ <>[](\A p \in Paths \ Slow : Collected(p))
  /\ []<>(\A p \in Paths : Collected(p))

(* A transcript deleted for good loses its cursor and, if no call failed   *)
(* and nothing crashed, its events, as long as something else is left to   *)
(* list.                                                                   *)
Deleted(p) ==
  /\ FindJSONL(Paths) # {}
  /\ \A q \in Paths : SessionOf[q] = SessionOf[p] => at[q] = None

NoEvents(p) == \A r \in events : r.session # SessionOf[p]

EventuallyForgotten ==
  <>[](\A p \in Paths : Deleted(p) => cursor[p] = None /\ (faults = 0 => NoEvents(p)))

(* The same for the events after a failed call or a crash: a deleted       *)
(* transcript stops contributing its session (dataset.go).                 *)
EventuallyNoEvents == <>[](\A p \in Paths : Deleted(p) => NoEvents(p))
=============================================================================
