----------------------------- MODULE TreeWatch ------------------------------
(***************************************************************************)
(* internal/watch/watch_other.go: one fsnotify watch per directory.  New's *)
(* goroutine walks the roots (addTree, notifyExisting false) while run     *)
(* takes events; run walks every directory it hears was created            *)
(* (notifyExisting true).  A walk is the stack of what WalkDir has still   *)
(* to visit: a directory is visited (watched) before it is listed.         *)
(* A full event queue of the operating system is not modelled.             *)
(***************************************************************************)
EXTENDS NativeBackend

CONSTANTS
    MayReturn,   \* directories that may be created again after a removal
    MaxRemovals, \* bound: directories removed
    MaxRefused   \* bound: directories fsw.Add has failed on, at a time

ASSUME TreeAssumption ==
    MayReturn \subseteq Subdirs /\ MaxRemovals \in Nat /\ MaxRefused \in Nat

TreeInit ==
    /\ mechanism = "fsnotify"
    /\ version = [f \in Files |-> 0]
    /\ told = version
    /\ lost = version
    /\ \E live \in SUBSET Dirs :
          /\ Roots \subseteq live
          /\ \A d \in live \ Roots : In[d] \in live
          /\ kern = [live |-> live, there |-> {}, gone |-> {}, removals |-> 0,
                     watches |-> {}, refused |-> {}, events |-> <<>>]
    /\ book = {}                                          \* watched
    /\ run = [at |-> "select",
              walk |-> [new |-> SetToSeq({[visit |-> r] : r \in Roots}), run |-> <<>>]]
    /\ closer = [at |-> "no"]

Fsnotify == mechanism = "fsnotify" /\ UNCHANGED mechanism

Walkers == {"new", "run"}

Notify(k, op, p) ==
    IF In[p] \in k.watches
    THEN [k EXCEPT !.events = Append(@, [op |-> op, name |-> p])]
    ELSE k

Exists(p) == p \in kern.live \cup kern.there

\* "watch: could not watch ...": the log named a directory the path is in, and
\* nothing watches the one it is directly in, so the rescan is left with it.
LeftToRescan(f) ==
    In[f] \notin kern.watches /\ \E d \in kern.refused : f \in Below[d]

-----------------------------------------------------------------------------
\* Programs that create directories, write files and remove directories.

Mkdir(d) ==
    /\ Fsnotify
    /\ d \notin kern.live /\ In[d] \in kern.live
    /\ d \in kern.gone => d \in MayReturn
    /\ kern' = Notify([kern EXCEPT !.live = @ \cup {d}], "create", d)
    /\ UNCHANGED <<version, told, lost, book, run, closer>>

Save(f) ==
    /\ Fsnotify
    /\ In[f] \in kern.live
    /\ version[f] < MaxWrites
    /\ version' = [version EXCEPT ![f] = @ + 1]
    /\ kern' = Notify([kern EXCEPT !.there = @ \cup {f}],
                      IF f \in kern.there THEN "write" ELSE "create", f)
    /\ lost' = IF LeftToRescan(f) THEN [lost EXCEPT ![f] = version'[f]] ELSE lost
    /\ UNCHANGED <<told, book, run, closer>>

\* A directory goes with everything in it, and the operating system drops
\* the watches on it; what its files held is nobody's to report any more.
RemoveDir(d) ==
    LET dead == kern.live \cap Below[d] IN
    /\ Fsnotify
    /\ d \in kern.live
    /\ kern.removals < MaxRemovals
    /\ kern' = [kern EXCEPT
          !.live = @ \ dead,
          !.there = @ \ Below[d],
          !.gone = @ \cup dead,
          !.removals = @ + 1,
          !.watches = @ \ dead,
          !.refused = @ \ dead]
    /\ Lose(kern.there \cap Below[d])
    /\ UNCHANGED <<version, told, book, run, closer>>

-----------------------------------------------------------------------------
\* addTree, one step of WalkDir at a time.

Goes(w, stack) == run' = [run EXCEPT !.walk[w] = stack]

\* A directory not yet in watched is added to fsnotify, then listed.
WatchDir(d) ==
    /\ kern' = [kern EXCEPT !.watches = @ \cup {d}, !.refused = @ \ {d}]
    /\ book' = book \cup {d}

\* fsw.Add fails on a directory that is there (the limit on watches, a
\* permission): it is logged, not put in watched, and listed all the same.
RefuseDir(d) ==
    /\ Cardinality(kern.refused) < MaxRefused
    /\ kern' = [kern EXCEPT !.refused = @ \cup {d}]
    /\ UNCHANGED book

\* It also fails, and is logged, on one that is gone and after fsw.Close.
Visit(w) ==
    LET todo == run.walk[w]
        d == Head(todo).visit
    IN
    /\ Fsnotify
    /\ todo # <<>> /\ "visit" \in DOMAIN Head(todo) /\ d \in Dirs
    /\ IF d \in book \/ d \notin kern.live \/ closer.at # "no"
       THEN UNCHANGED <<kern, book>>
       ELSE WatchDir(d) \/ RefuseDir(d)
    /\ Goes(w, <<[list |-> d]>> \o Tail(todo))
    /\ UNCHANGED <<version, told, lost, closer>>

List(w) ==
    LET todo == run.walk[w]
        d == Head(todo).list
        inside == {x \in (kern.live \cup kern.there) \ Roots : In[x] = d}
    IN
    /\ Fsnotify
    /\ todo # <<>> /\ "list" \in DOMAIN Head(todo)
    /\ Goes(w, SetToSeq({[visit |-> x] : x \in inside}) \o Tail(todo))
    /\ UNCHANGED <<version, told, lost, kern, book, closer>>

(* MUTANT: a walk never reports the files it finds (before F7).            *)
VisitFileSilently(w) ==
    LET todo == run.walk[w] IN
    /\ Fsnotify
    /\ todo # <<>> /\ "visit" \in DOMAIN Head(todo) /\ Head(todo).visit \in Files
    /\ IF w = "new" THEN Lose({Head(todo).visit}) ELSE UNCHANGED lost
    /\ Goes(w, Tail(todo))
    /\ UNCHANGED <<version, told, kern, book, closer>>

\* A file found on the way is reported if the walk is of a new directory; at
\* startup it is left to the backfill that follows New.
VisitFile(w) ==
    LET todo == run.walk[w]
        f == Head(todo).visit
    IN
    /\ Fsnotify
    /\ todo # <<>> /\ "visit" \in DOMAIN Head(todo) /\ f \in Files
    /\ IF w = "new" THEN Lose({f}) /\ UNCHANGED told
       ELSE /\ IF f \in Transcripts THEN Told(f) ELSE UNCHANGED told
            /\ UNCHANGED lost
    /\ Goes(w, Tail(todo))
    /\ UNCHANGED <<version, kern, book, closer>>

-----------------------------------------------------------------------------
(* MUTANT: only a file's event is handled; a new directory is not walked.  *)
HandleEventFilesOnly ==
    LET ev == Head(kern.events) IN
    /\ Fsnotify
    /\ run.at = "select" /\ run.walk["run"] = <<>>
    /\ kern.events # <<>>
    /\ kern' = [kern EXCEPT !.events = Tail(@)]
    /\ IF Exists(ev.name) /\ ev.name \in Transcripts
       THEN Told(ev.name)
       ELSE UNCHANGED told
    /\ UNCHANGED <<version, lost, book, run, closer>>

\* run: one event; what is gone by now is dropped, a created directory is
\* walked, a .jsonl file is reported.
HandleEvent ==
    LET ev == Head(kern.events) IN
    /\ Fsnotify
    /\ run.at = "select" /\ run.walk["run"] = <<>>
    /\ kern.events # <<>>
    /\ kern' = [kern EXCEPT !.events = Tail(@)]
    /\ IF Exists(ev.name) /\ ev.name \in Dirs /\ ev.op = "create"
       THEN Goes("run", <<[visit |-> ev.name]>>)
       ELSE UNCHANGED run
    /\ IF Exists(ev.name) /\ ev.name \in Transcripts
       THEN Told(ev.name)
       ELSE UNCHANGED told
    /\ UNCHANGED <<version, lost, book, closer>>

\* Close: fsw.Close ends every watch and closes the channel run reads from,
\* then wg.Wait.
CloseTree ==
    /\ Fsnotify
    /\ closer.at = "no" /\ run.walk["new"] = <<>>
    /\ closer' = [at |-> "closing"]
    /\ kern' = [kern EXCEPT !.watches = {}]
    /\ UNCHANGED <<version, told, lost, book, run>>

RunExits ==
    /\ Fsnotify
    /\ run.at = "select" /\ run.walk["run"] = <<>>
    /\ closer.at = "closing"
    /\ run' = [run EXCEPT !.at = "exited"]
    /\ UNCHANGED <<version, told, lost, kern, book, closer>>

CloseTreeEnds ==
    /\ Fsnotify
    /\ closer.at = "closing" /\ run.at = "exited"
    /\ closer' = [at |-> "done"]
    /\ UNCHANGED <<version, told, lost, kern, book, run>>

TreeNext ==
    \/ \E d \in Subdirs : Mkdir(d) \/ RemoveDir(d)
    \/ \E f \in Files : Save(f)
    \/ \E w \in Walkers : Visit(w) \/ List(w) \/ VisitFile(w)
    \/ HandleEvent \/ CloseTree \/ RunExits \/ CloseTreeEnds

\* Both goroutines run whenever they can.
TreeFairness ==
    /\ \A w \in Walkers : WF_backendVars(Visit(w) \/ List(w) \/ VisitFile(w))
    /\ WF_backendVars(HandleEvent \/ RunExits)
    /\ WF_backendVars(CloseTreeEnds)

TreeSpec == TreeInit /\ [][TreeNext]_backendVars

-----------------------------------------------------------------------------
\* watch_other.go:141-145: "A new project or session folder: watch it (and
\* anything under it) too, so files written inside it are seen from here on";
\* 50-54: a folder that cannot be watched is logged and left to the rescan.
\* With no event and no walk left, every directory there is is watched, or is
\* at or below one whose failed Add the log named since it was there.
Settled ==
    /\ closer.at = "no"
    /\ kern.events = <<>>
    /\ \A w \in Walkers : run.walk[w] = <<>>

SeenFromHereOn ==
    mechanism = "fsnotify" /\ Settled =>
        \A d \in kern.live \ kern.watches :
            \E e \in kern.refused : d \in Below[e]

=============================================================================
