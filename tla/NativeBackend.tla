--------------------------- MODULE NativeBackend ----------------------------
(***************************************************************************)
(* What the mechanisms that watch the transcripts have in common: the      *)
(* adapter roots and the tree under them, the files' history, and the      *)
(* promise (Feed) each of them keeps.  The two implementations of          *)
(* watch.nativeBackend (WinWatch, TreeWatch) are never in one build, and   *)
(* the polls of watch.Watcher (PollWatch) share no state with them, so a   *)
(* behaviour follows one mechanism.                                        *)
(***************************************************************************)
EXTENDS Naturals, FiniteSets, SequencesExt

CONSTANTS
    Roots,        \* native adapter roots
    Subdirs,      \* directories that may be created under them
    Files,        \* files that may be written under them
    In,           \* [Subdirs \cup Files -> Roots \cup Subdirs]: the parent
    Transcripts,  \* the files whose name ends in .jsonl
    MaxWrites     \* bound: changes to each file

ASSUME BackendAssumption ==
    /\ IsFiniteSet(Roots) /\ IsFiniteSet(Subdirs) /\ IsFiniteSet(Files)
    /\ Roots \cap Subdirs = {} /\ Roots \cap Files = {} /\ Subdirs \cap Files = {}
    /\ In \in [Subdirs \cup Files -> Roots \cup Subdirs]
    /\ Transcripts \subseteq Files
    /\ MaxWrites \in Nat

VARIABLES
    mechanism, \* "windows", "fsnotify" or "polls"
    version,   \* [Files -> Nat]: changes made to the file
    told,      \* [Files -> Nat]: the version the last onChange found
    lost,      \* [Files -> Nat]: the version last left to the full rescan
    kern,      \* the operating system's half: reads, watches, queued notices
    book,      \* the backend's own record of what it watches
    run,       \* the backend's goroutine
    closer     \* the caller of Close

backendVars ==
    <<mechanism, version, told, lost, kern, book, run, closer>>

Dirs == Roots \cup Subdirs

Paths == Dirs \cup Files

\* A directory and all that is under it: what every set of paths holds that
\* holds the directory and, with a directory, what is in it.
Below == [d \in Dirs |->
    {p \in Paths : \A S \in SUBSET Paths :
        (d \in S /\ \A x \in Subdirs \cup Files : In[x] \in S => x \in S) => p \in S}]

ASSUME PathsAssumption == \A p \in Paths : \E r \in Roots : p \in Below[r]

\* The root a path is under.
Top == [p \in Paths |-> CHOOSE r \in Roots : p \in Below[r]]

Under(r) == {f \in Files : Top[f] = r}

Told(f) == told' = [told EXCEPT ![f] = version[f]]

Lose(S) == lost' = [f \in Files |-> IF f \in S THEN version[f] ELSE lost[f]]

Promise == INSTANCE Feed WITH shut <- (closer.at = "done")

\* Feed's promise, step by step: onChange reports what the file holds when it
\* is called, a loss is declared, and nothing is reported once Close returned
\* (watch.go: "blocks until its own background goroutine(s) have exited").
KeepsPromise == Promise!Spec

\* The last change to the file is neither told nor declared lost.
Unsurfaced(f) == told[f] < version[f] /\ lost[f] < version[f]

\* Every change to a transcript is told or declared lost, unless the watcher
\* is being closed.  A change that is neither waits for the 15-minute rescan
\* with nothing in the log: the silent loss F7 and WS3 were about.
ChangesSurface ==
    \A f \in Transcripts :
        (mechanism # "polls" /\ Unsurfaced(f)) ~> (~Unsurfaced(f) \/ closer.at # "no")

\* Close returns: whatever the reader is doing and whatever read is
\* outstanding, it is neither stuck on the drain nor on the goroutine.  One
\* failure it does not survive: when GetQueuedCompletionStatus fails run is
\* gone, and a read that is still to be drained is never counted off.
DrainAbandoned ==
    mechanism = "windows" /\ run.at = "dead" /\ book.draining > 0

CloseReturns ==
    (closer.at # "no") ~> (closer.at \in {"done", "gaveUp"} \/ DrainAbandoned)

=============================================================================
