------------------------------ MODULE WinWatch ------------------------------
(***************************************************************************)
(* internal/watch/watch_windows.go: one recursive overlapped read per      *)
(* root, one completion port, one goroutine (run) that takes completions,  *)
(* decodes the root's buffer, re-arms the read and calls onChange; Close   *)
(* cancels the reads, waits until each has delivered its last completion   *)
(* (draining) and then posts the packet that ends run.                     *)
(*                                                                         *)
(* The kernel keeps the changes between two reads itself (kern.noted, at   *)
(* most NotedCap of them, then kern.spilled), and owns rr.buf while a read *)
(* is outstanding.                                                         *)
(***************************************************************************)
EXTENDS NativeBackend

CONSTANTS
    NotedCap,   \* bound: changes the kernel keeps for a root between reads
    MaxErrors   \* bound: system calls that fail

ASSUME WinAssumption == NotedCap \in Nat /\ MaxErrors \in Nat

ShutDown == [kind |-> "shutdown"]

WinInit ==
    /\ mechanism = "windows"
    /\ version = [f \in Files |-> 0]
    /\ told = version
    /\ lost = version
    /\ kern = [read    |-> [r \in Roots |-> "none"],   \* none, armed, cancelled
               noted   |-> [r \in Roots |-> {}],
               spilled |-> [r \in Roots |-> FALSE],
               buf     |-> [r \in Roots |-> {}],       \* recursiveRoot.buf
               port    |-> <<>>,
               errors  |-> 0]
    /\ book = [handle  |-> [r \in Roots |-> "unopened"], \* open, failed, shut
               reading |-> [r \in Roots |-> FALSE],
               closed  |-> [r \in Roots |-> FALSE],
               logged  |-> {},        \* roots whose watching is logged as over
               draining |-> 0]
    /\ run = [at |-> "wait", root |-> "", kind |-> "", paths |-> {}]
    /\ closer = [at |-> "no", todo |-> {}]

Windows == mechanism = "windows" /\ UNCHANGED mechanism

Fails == kern.errors < MaxErrors

\* issueReadLocked with the caller's bookkeeping: on success the kernel owns
\* the buffer again; a failure is logged and the root is no longer watched.
Issue(r) ==
    /\ kern' = [kern EXCEPT !.read[r] = "armed"]
    /\ book' = [book EXCEPT !.reading[r] = TRUE]
    /\ UNCHANGED lost

IssueFails(r) ==
    /\ Fails
    /\ kern' = [kern EXCEPT !.errors = @ + 1]
    /\ book' = [book EXCEPT !.logged = @ \cup {r}]
    /\ Lose(Under(r))

-----------------------------------------------------------------------------
\* The kernel and the programs that write under the roots.

Touch(f) ==
    LET r == Top[f] IN
    /\ Windows
    /\ version[f] < MaxWrites
    /\ version' = [version EXCEPT ![f] = @ + 1]
    /\ IF book.handle[r] # "open" \/ r \in book.logged
       THEN /\ lost' = [lost EXCEPT ![f] = version'[f]]
            /\ UNCHANGED kern
       ELSE /\ UNCHANGED lost
            /\ kern' = IF kern.spilled[r]
                          \/ Cardinality(kern.noted[r] \cup {f}) > NotedCap
                       THEN [kern EXCEPT !.noted[r] = {}, !.spilled[r] = TRUE]
                       ELSE [kern EXCEPT !.noted[r] = @ \cup {f}]
    /\ UNCHANGED <<told, book, run, closer>>

\* The outstanding read completes with what the kernel has noted; zero bytes
\* say that it has lost count.
Complete(r) ==
    /\ Windows
    /\ kern.read[r] = "armed"
    /\ kern.noted[r] # {} \/ kern.spilled[r]
    /\ kern' = [kern EXCEPT
          !.read[r] = "none",
          !.buf[r] = kern.noted[r],
          !.noted[r] = {},
          !.spilled[r] = FALSE,
          !.port = Append(@, [kind |-> IF kern.spilled[r] THEN "zero" ELSE "data",
                              root |-> r])]
    /\ UNCHANGED <<version, told, lost, book, run, closer>>

EndsWith(r, written, errors) ==
    kern' = [kern EXCEPT
        !.read[r] = "none",
        !.buf[r] = written,
        !.errors = errors,
        !.port = Append(@, [kind |-> "error", root |-> r])]

\* An outstanding read fails, or delivers what is left of it after Close
\* cancelled it; either way the kernel may have written into the buffer.
Abort(r) ==
    /\ Windows
    /\ \E written \in {kern.buf[r], kern.noted[r]} :
          \/ kern.read[r] = "cancelled" /\ EndsWith(r, written, kern.errors)
          \/ kern.read[r] = "armed" /\ Fails /\ EndsWith(r, written, kern.errors + 1)
    /\ UNCHANGED <<version, told, lost, book, run, closer>>

-----------------------------------------------------------------------------
\* AddRoot: called by New for every root, before anybody can call Close.
AddRoot(r) ==
    /\ Windows
    /\ closer.at = "no"
    /\ book.handle[r] = "unopened"
    /\ \/ /\ kern' = [kern EXCEPT !.read[r] = "armed"]
          /\ book' = [book EXCEPT !.handle[r] = "open", !.reading[r] = TRUE]
          /\ UNCHANGED lost
       \/ /\ Fails   \* CreateFile, the port association or the first read
          /\ kern' = [kern EXCEPT !.errors = @ + 1]
          /\ book' = [book EXCEPT !.handle[r] = "failed"]
          /\ Lose(Under(r))
    /\ UNCHANGED <<version, told, run, closer>>

-----------------------------------------------------------------------------
\* run: GetQueuedCompletionStatus.  The packet Close posts has no overlapped
\* and ends the goroutine.
TakeCompletion ==
    /\ Windows
    /\ run.at = "wait"
    /\ kern.port # <<>>
    /\ kern' = [kern EXCEPT !.port = Tail(@)]
    /\ run' = LET c == Head(kern.port)
              IN IF c = ShutDown
                 THEN [run EXCEPT !.at = "exited"]
                 ELSE [run EXCEPT !.at = "taken", !.root = c.root, !.kind = c.kind]
    /\ UNCHANGED <<version, told, lost, book, closer>>

\* GetQueuedCompletionStatus fails: run logs it and returns, and with it ends
\* the watching of every root.
TakeFails ==
    /\ Windows
    /\ run.at = "wait"
    /\ Fails
    /\ kern' = [kern EXCEPT !.errors = @ + 1]
    /\ book' = [book EXCEPT !.logged = Roots]
    /\ Lose(Files)
    /\ run' = [run EXCEPT !.at = "dead"]
    /\ UNCHANGED <<version, told, closer>>

(* MUTANT: the read is re-armed before its data is decoded.                *)
InspectRearmsFirst ==
    LET r == run.root IN
    /\ Windows
    /\ run.at = "taken"
    /\ book' = [book EXCEPT !.draining = IF book.closed[r] THEN @ - 1 ELSE @,
                            !.reading[r] = ~book.closed[r]]
    /\ kern' = IF book.closed[r] THEN kern ELSE [kern EXCEPT !.read[r] = "armed"]
    /\ run' = [run EXCEPT !.at = IF book.closed[r] THEN "wait" ELSE "decode"]
    /\ UNCHANGED <<version, told, lost, closer>>

(* MUTANT: run forgets to tell Close that a closed root has drained.       *)
InspectForgetsDone ==
    LET r == run.root IN
    /\ Windows
    /\ run.at = "taken"
    /\ book' = [book EXCEPT !.reading[r] = FALSE]
    /\ run' = [run EXCEPT !.at = IF book.closed[r] THEN "wait"
                                 ELSE IF run.kind = "error" THEN "recover"
                                 ELSE "decode"]
    /\ UNCHANGED <<version, told, lost, kern, closer>>

\* The completed read is no longer outstanding.  If Close has the root, this
\* completion is the one it waits for; an error re-arms; data is decoded.
Inspect ==
    LET r == run.root IN
    /\ Windows
    /\ run.at = "taken"
    /\ book' = [book EXCEPT
          !.reading[r] = FALSE,
          !.draining = IF book.closed[r] THEN @ - 1 ELSE @]
    /\ run' = [run EXCEPT !.at = IF book.closed[r] THEN "wait"
                                 ELSE IF run.kind = "error" THEN "recover"
                                 ELSE "decode"]
    /\ UNCHANGED <<version, told, lost, kern, closer>>

(* MUTANT: an error ends the root's watching without a word.               *)
RecoverGivesUp ==
    /\ Windows
    /\ run.at = "recover"
    /\ run' = [run EXCEPT !.at = "wait"]
    /\ UNCHANGED <<version, told, lost, kern, book, closer>>

Recover ==
    LET r == run.root IN
    /\ Windows
    /\ run.at = "recover"
    /\ \/ book.closed[r] /\ UNCHANGED <<kern, book, lost>>
       \/ ~book.closed[r] /\ (Issue(r) \/ IssueFails(r))
    /\ run' = [run EXCEPT !.at = "wait"]
    /\ UNCHANGED <<version, told, closer>>

\* decode: the .jsonl paths among the buffer's entries; zero bytes mean the
\* kernel dropped changes, which is logged.
Decode ==
    LET r == run.root IN
    /\ Windows
    /\ run.at = "decode"
    /\ run' = [run EXCEPT
          !.at = "rearm",
          !.paths = IF run.kind = "zero" THEN {} ELSE kern.buf[r] \cap Transcripts]
    /\ IF run.kind = "zero" THEN Lose(Under(r)) ELSE UNCHANGED lost
    /\ UNCHANGED <<version, told, kern, book, closer>>

Rearm ==
    LET r == run.root IN
    /\ Windows
    /\ run.at = "rearm"
    /\ \/ book.closed[r] /\ UNCHANGED <<kern, book, lost>>
       \/ ~book.closed[r] /\ (Issue(r) \/ IssueFails(r))
    /\ run' = [run EXCEPT !.at = "dispatch"]
    /\ UNCHANGED <<version, told, closer>>

Dispatch ==
    /\ Windows
    /\ run.at = "dispatch"
    /\ \/ \E p \in run.paths : /\ Told(p)
                               /\ run' = [run EXCEPT !.paths = @ \ {p}]
       \/ run.paths = {} /\ run' = [run EXCEPT !.at = "wait"] /\ UNCHANGED told
    /\ UNCHANGED <<version, lost, kern, book, closer>>

-----------------------------------------------------------------------------
\* Close, root by root under the root's lock, then the drain, the packet that
\* ends run, and the wait for run.
CloseBegins ==
    /\ Windows
    /\ closer.at = "no"
    /\ \A r \in Roots : book.handle[r] # "unopened"
    /\ closer' = [at |-> "roots", todo |-> {r \in Roots : book.handle[r] = "open"}]
    /\ UNCHANGED <<version, told, lost, kern, book, run>>

(* MUTANT: Close waits for a completion of every root, read or no read.    *)
CloseRootAlwaysAdds(r) ==
    /\ Windows
    /\ closer.at = "roots" /\ r \in closer.todo
    /\ book' = [book EXCEPT !.closed[r] = TRUE, !.handle[r] = "shut",
                            !.draining = @ + 1]
    /\ kern' = [kern EXCEPT !.read[r] = IF @ = "armed" THEN "cancelled" ELSE @]
    /\ closer' = [closer EXCEPT !.todo = @ \ {r}]
    /\ UNCHANGED <<version, told, lost, run>>

CloseRoot(r) ==
    /\ Windows
    /\ closer.at = "roots" /\ r \in closer.todo
    /\ book' = [book EXCEPT
          !.closed[r] = TRUE,
          !.handle[r] = "shut",
          !.draining = IF book.reading[r] THEN @ + 1 ELSE @]
    /\ kern' = [kern EXCEPT !.read[r] = IF @ = "armed" THEN "cancelled" ELSE @]
    /\ closer' = [closer EXCEPT !.todo = @ \ {r}]
    /\ UNCHANGED <<version, told, lost, run>>

(* MUTANT: the shutdown packet races the cancelled reads.                  *)
PostWithoutDrain ==
    /\ Windows
    /\ closer.at = "roots" /\ closer.todo = {}
    /\ kern' = [kern EXCEPT !.port = Append(@, ShutDown)]
    /\ closer' = [closer EXCEPT !.at = "posted"]
    /\ UNCHANGED <<version, told, lost, book, run>>

\* draining.Wait, then PostQueuedCompletionStatus; if the packet cannot be
\* posted Close returns without waiting for run.
Post ==
    /\ Windows
    /\ closer.at = "roots" /\ closer.todo = {}
    /\ book.draining = 0
    /\ \/ /\ kern' = [kern EXCEPT !.port = Append(@, ShutDown)]
          /\ closer' = [closer EXCEPT !.at = "posted"]
       \/ /\ Fails
          /\ kern' = [kern EXCEPT !.errors = @ + 1]
          /\ closer' = [closer EXCEPT !.at = "gaveUp"]
    /\ UNCHANGED <<version, told, lost, book, run>>

(* MUTANT: Close does not wait for run.                                    *)
CloseEndsEarly ==
    /\ Windows
    /\ closer.at = "posted"
    /\ closer' = [closer EXCEPT !.at = "done"]
    /\ UNCHANGED <<version, told, lost, kern, book, run>>

CloseEnds ==
    /\ Windows
    /\ closer.at = "posted"
    /\ run.at \in {"exited", "dead"}
    /\ closer' = [closer EXCEPT !.at = "done"]
    /\ UNCHANGED <<version, told, lost, kern, book, run>>

WinRun == TakeCompletion \/ Inspect \/ Recover \/ Decode \/ Rearm \/ Dispatch
WinClose == (\E r \in Roots : CloseRoot(r)) \/ Post \/ CloseEnds

WinNext ==
    \/ \E f \in Files : Touch(f)
    \/ \E r \in Roots : AddRoot(r) \/ Complete(r) \/ Abort(r) \/ CloseRoot(r)
    \/ TakeCompletion \/ TakeFails \/ Inspect \/ Recover \/ Decode \/ Rearm \/ Dispatch
    \/ CloseBegins \/ Post \/ CloseEnds

\* The goroutine and Close run whenever they can; the kernel finishes a read
\* that has something to report or was cancelled.
WinFairness ==
    /\ WF_backendVars(WinRun)
    /\ WF_backendVars(WinClose)
    /\ \A r \in Roots : WF_backendVars(Complete(r)) /\ WF_backendVars(Abort(r) /\ kern.read[r] = "cancelled")

WinSpec == WinInit /\ [][WinNext]_backendVars

-----------------------------------------------------------------------------
\* draining counts exactly the reads Close cancelled whose completion run has
\* not taken yet: one too many and Close never returns, one too few and the
\* WaitGroup goes negative (the alpha.7 panic) or Close returns while the
\* kernel still writes.
DrainCountsReads ==
    mechanism = "windows" =>
        book.draining = Cardinality({r \in Roots : book.closed[r] /\ book.reading[r]})

\* run only looks into a buffer the kernel has given back: no read is
\* outstanding on it, and no completion of it is queued.
BufferIsOurs ==
    mechanism = "windows" /\ run.at = "decode" =>
        /\ kern.read[run.root] = "none"
        /\ \A i \in DOMAIN kern.port : kern.port[i] # ShutDown => kern.port[i].root # run.root

\* When Close has returned the kernel is done with every buffer and has no
\* completion left to deliver, so the memory may go (the second review's
\* free-while-written finding).
ClosedIsQuiet ==
    mechanism = "windows" /\ closer.at \in {"done", "gaveUp"} =>
        /\ \A r \in Roots : kern.read[r] = "none"
        /\ \A i \in DOMAIN kern.port : kern.port[i] = ShutDown

\* A root that is open and not being handled has a read outstanding or on its
\* way, or the log says that its watching is over: no error path forgets to
\* re-arm.
NoSilentDeath ==
    mechanism = "windows" =>
        \A r \in Roots :
            \/ book.handle[r] # "open"
            \/ r \in book.logged
            \/ book.reading[r]
            \/ run.root = r /\ run.at \in {"decode", "rearm", "recover"}

=============================================================================
