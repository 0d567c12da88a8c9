--------------------------- MODULE WinWatchProofs ----------------------------
(***************************************************************************)
(* WinWatch's safety invariants and its refinement of Feed, for every set  *)
(* of roots, every tree under them and every bound.  A read is in exactly  *)
(* one place: outstanding in the kernel, queued on the completion port, or *)
(* in run's hands before Inspect; rr.reading says that it is in one of     *)
(* them.  What Close waits for, what run may look into and what is left    *)
(* when Close returns all follow from that.                                *)
(***************************************************************************)
EXTENDS WinWatch, SequenceTheorems, FiniteSetTheorems, TLAPS

Completions == [kind : {"data", "zero", "error"}, root : Roots]
Packets == Completions \cup {ShutDown}

Queued(port, r) ==
    \E i \in 1..Len(port) : port[i] # ShutDown /\ port[i].root = r

OneEach(port) ==
    \A i, j \in 1..Len(port) :
        port[i] # ShutDown /\ port[j] # ShutDown /\ port[i].root = port[j].root => i = j

Ends(port) == \E i \in 1..Len(port) : port[i] = ShutDown

KernStates ==
    [read : [Roots -> {"none", "armed", "cancelled"}],
     noted : [Roots -> SUBSET Files],
     spilled : [Roots -> BOOLEAN],
     buf : [Roots -> SUBSET Files],
     port : Seq(Packets),
     errors : Nat]

BookStates ==
    [handle : [Roots -> {"unopened", "open", "failed", "shut"}],
     reading : [Roots -> BOOLEAN],
     closed : [Roots -> BOOLEAN],
     logged : SUBSET Roots,
     draining : Int]

Busy == {"decode", "rearm", "recover"}
RunAt == Busy \cup {"wait", "taken", "dispatch", "exited", "dead"}

WinTypeOK ==
    /\ mechanism = "windows"
    /\ version \in [Files -> Nat] /\ told \in [Files -> Nat] /\ lost \in [Files -> Nat]
    /\ kern \in KernStates
    /\ book \in BookStates
    /\ run.at \in RunAt /\ run.paths \subseteq Files
    /\ run = [at |-> run.at, root |-> run.root, kind |-> run.kind, paths |-> run.paths]
    /\ closer \in [at : {"no", "roots", "posted", "gaveUp", "done"}, todo : SUBSET Roots]

\* A read is outstanding, queued or in hand, in one place only, and
\* rr.reading says so; a root's handle is shut exactly when Close had it.
InHand(r) == run.at = "taken" /\ run.root = r

OnePlace ==
    /\ OneEach(kern.port)
    /\ \A r \in Roots :
          /\ kern.read[r] # "none" => ~Queued(kern.port, r) /\ ~InHand(r)
          /\ Queued(kern.port, r) => ~InHand(r)
          /\ book.reading[r] <=> kern.read[r] # "none" \/ Queued(kern.port, r) \/ InHand(r)
          /\ kern.read[r] = "armed" => ~book.closed[r]
          /\ kern.read[r] = "cancelled" => book.closed[r]

Handles ==
    /\ \A r \in Roots :
          /\ book.closed[r] <=> book.handle[r] = "shut"
          /\ book.reading[r] => book.handle[r] \in {"open", "shut"}
    /\ run.at \in Busy \cup {"taken"} =>
          run.root \in Roots /\ book.handle[run.root] \in {"open", "shut"}
    /\ run.at \in Busy => ~book.reading[run.root]

\* How far Close is, against what is left of the reads and of run.
Closing ==
    /\ closer.at = "no" => \A r \in Roots : ~book.closed[r]
    /\ closer.at # "no" => \A r \in Roots :
          book.handle[r] # "unopened" /\ (book.handle[r] = "open" <=> r \in closer.todo)
    /\ closer.at \in {"posted", "gaveUp", "done"} =>
          closer.todo = {} /\ \A r \in Roots : ~book.reading[r]
    /\ closer.at \in {"no", "roots", "gaveUp"} => ~Ends(kern.port) /\ run.at # "exited"
    /\ closer.at = "posted" => run.at = "exited" \/ kern.port = <<ShutDown>>
    /\ closer.at = "done" => run.at \in {"exited", "dead"}
    /\ run.at = "exited" => kern.port = <<>>

WinInv ==
    /\ WinTypeOK
    /\ OnePlace
    /\ Handles
    /\ Closing
    /\ DrainCountsReads
    /\ NoSilentDeath

-----------------------------------------------------------------------------
\* A completion enters the port: its root is queued, once.
LEMMA Enqueue ==
    ASSUME NEW port \in Seq(Packets), NEW c \in Completions
    PROVE  /\ Append(port, c) \in Seq(Packets)
           /\ \A r \in Roots : Queued(Append(port, c), r) <=> Queued(port, r) \/ r = c.root
           /\ OneEach(port) /\ ~Queued(port, c.root) => OneEach(Append(port, c))
           /\ Ends(Append(port, c)) <=> Ends(port)
<1> DEFINE longer == Append(port, c)
<1>1. /\ longer \in Seq(Packets) /\ Len(longer) = Len(port) + 1 /\ Len(port) \in Nat
      /\ \A i \in 1..Len(port) : longer[i] = port[i]
      /\ longer[Len(port) + 1] = c
  BY DEF Packets
<1>2. c # ShutDown /\ c.root \in Roots
  BY DEF Completions, ShutDown
<1> HIDE DEF longer
<1>3. \A r \in Roots : Queued(longer, r) <=> Queued(port, r) \/ r = c.root
  <2> SUFFICES ASSUME NEW r \in Roots PROVE Queued(longer, r) <=> Queued(port, r) \/ r = c.root
    OBVIOUS
  <2>1. ASSUME Queued(longer, r) PROVE Queued(port, r) \/ r = c.root
    BY <1>1, <2>1 DEF Queued
  <2>2. ASSUME Queued(port, r) PROVE Queued(longer, r)
    BY <1>1, <2>2 DEF Queued
  <2>3. ASSUME r = c.root PROVE Queued(longer, r)
    BY <1>1, <1>2, <2>3 DEF Queued
  <2>. QED BY <2>1, <2>2, <2>3
<1>4. OneEach(port) /\ ~Queued(port, c.root) => OneEach(longer)
  BY <1>1, <1>2 DEF OneEach, Queued
<1>5. Ends(longer) <=> Ends(port)
  BY <1>1, <1>2 DEF Ends
<1>. QED BY <1>1, <1>3, <1>4, <1>5 DEF longer

\* run takes the first packet: what is queued behind it is everybody else's.
LEMMA Dequeue ==
    ASSUME NEW port \in Seq(Packets), port # <<>>, OneEach(port)
    PROVE  /\ Tail(port) \in Seq(Packets) /\ OneEach(Tail(port))
           /\ Head(port) \in Packets
           /\ Head(port) = ShutDown =>
                 \A r \in Roots : Queued(port, r) <=> Queued(Tail(port), r)
           /\ Head(port) # ShutDown =>
                 /\ Head(port) \in Completions
                 /\ ~Queued(Tail(port), Head(port).root)
                 /\ \A r \in Roots :
                       Queued(port, r) <=> Queued(Tail(port), r) \/ r = Head(port).root
           /\ Ends(port) <=> Head(port) = ShutDown \/ Ends(Tail(port))
<1> DEFINE rest == Tail(port)
           c == Head(port)
<1>1. /\ rest \in Seq(Packets) /\ Len(port) = Len(rest) + 1 /\ Len(rest) \in Nat
      /\ \A i \in 1..Len(rest) : rest[i] = port[i + 1]
      /\ c = port[1] /\ c \in Packets
  OBVIOUS
<1> HIDE DEF rest, c
<1>2. \A i \in 1..Len(port) : i = 1 \/ (i - 1 \in 1..Len(rest) /\ port[i] = rest[i - 1])
  BY <1>1
<1>3. \A i \in 1..Len(rest) : i + 1 \in 1..Len(port) /\ i + 1 # 1
  BY <1>1
<1>4. OneEach(rest)
  <2> SUFFICES ASSUME NEW i \in 1..Len(rest), NEW j \in 1..Len(rest),
                      rest[i] # ShutDown, rest[j] # ShutDown, rest[i].root = rest[j].root
               PROVE  i = j
    BY DEF OneEach
  <2>1. port[i + 1] = rest[i] /\ port[j + 1] = rest[j]
    BY <1>1
  <2>2. i + 1 = j + 1
    BY <1>3, <2>1 DEF OneEach
  <2>. QED BY <1>1, <2>2
<1>5. \A r \in Roots : Queued(port, r) <=> Queued(rest, r) \/ (c # ShutDown /\ r = c.root)
  <2> SUFFICES ASSUME NEW r \in Roots
               PROVE  Queued(port, r) <=> Queued(rest, r) \/ (c # ShutDown /\ r = c.root)
    OBVIOUS
  <2>1. ASSUME Queued(port, r) PROVE Queued(rest, r) \/ (c # ShutDown /\ r = c.root)
    BY <1>1, <1>2, <2>1 DEF Queued
  <2>2. ASSUME Queued(rest, r) PROVE Queued(port, r)
    BY <1>1, <1>3, <2>2 DEF Queued
  <2>3. ASSUME c # ShutDown, r = c.root PROVE Queued(port, r)
    BY <1>1, <2>3 DEF Queued
  <2>. QED BY <2>1, <2>2, <2>3
<1>6. c # ShutDown => c \in Completions /\ ~Queued(rest, c.root)
  BY <1>1, <1>3 DEF OneEach, Queued, Packets
<1>7. Ends(port) <=> c = ShutDown \/ Ends(rest)
  BY <1>1, <1>2, <1>3 DEF Ends
<1>. QED BY <1>1, <1>4, <1>5, <1>6, <1>7 DEF rest, c

\* Nothing queued, no end: the port is empty.
LEMMA NothingQueued ==
    ASSUME NEW port \in Seq(Packets), \A r \in Roots : ~Queued(port, r), ~Ends(port)
    PROVE  port = <<>>
<1>1. SUFFICES ASSUME port # <<>> PROVE FALSE
  OBVIOUS
<1>2. 1 \in 1..Len(port) /\ port[1] \in Packets
  BY <1>1
<1>3. port[1] # ShutDown
  BY <1>2 DEF Ends
<1>4. port[1].root \in Roots
  BY <1>2, <1>3 DEF Packets, Completions
<1>. QED BY <1>2, <1>3, <1>4 DEF Queued

\* The empty port, and the port that holds the end alone.
LEMMA ShortPorts ==
    /\ <<>> \in Seq(Packets) /\ OneEach(<<>>) /\ ~Ends(<<>>) /\ \A r \in Roots : ~Queued(<<>>, r)
    /\ <<ShutDown>> \in Seq(Packets) /\ Append(<<>>, ShutDown) = <<ShutDown>>
    /\ Head(<<ShutDown>>) = ShutDown /\ Tail(<<ShutDown>>) = <<>>
    /\ OneEach(<<ShutDown>>) /\ \A r \in Roots : ~Queued(<<ShutDown>>, r)
<1>1. <<>> \in Seq(Packets) /\ Len(<<>>) = 0
  OBVIOUS
<1>2. <<ShutDown>> \in Seq(Packets) /\ Len(<<ShutDown>>) = 1 /\ <<ShutDown>>[1] = ShutDown
  BY DEF Packets
<1>3. Append(<<>>, ShutDown) = <<ShutDown>> /\ Head(<<ShutDown>>) = ShutDown
      /\ Tail(<<ShutDown>>) = <<>>
  OBVIOUS
<1>4. OneEach(<<>>) /\ ~Ends(<<>>) /\ \A r \in Roots : ~Queued(<<>>, r)
  BY <1>1 DEF OneEach, Ends, Queued
<1>5. OneEach(<<ShutDown>>) /\ \A r \in Roots : ~Queued(<<ShutDown>>, r)
  BY <1>2 DEF OneEach, Queued
<1>. QED BY <1>1, <1>2, <1>3, <1>4, <1>5

-----------------------------------------------------------------------------
LEMMA WinInitInv == WinInit => WinInv
<1> SUFFICES ASSUME WinInit PROVE WinInv
    OBVIOUS
<1>1. WinTypeOK
  <2>1. kern \in KernStates
    BY ShortPorts DEF WinInit, KernStates
  <2>2. book \in BookStates
    <3>1. /\ [r \in Roots |-> "unopened"] \in [Roots -> {"unopened", "open", "failed", "shut"}]
          /\ [r \in Roots |-> FALSE] \in [Roots -> BOOLEAN]
          /\ {} \in SUBSET Roots /\ 0 \in Int
      OBVIOUS
    <3>. QED BY <3>1 DEF WinInit, BookStates
  <2>. QED BY <2>1, <2>2 DEF WinInit, WinTypeOK, RunAt, Busy
<1>2. kern.port = <<>> /\ run.at = "wait" /\ closer.at = "no"
      /\ \A r \in Roots : /\ kern.read[r] = "none" /\ book.handle[r] = "unopened"
                          /\ ~book.reading[r] /\ ~book.closed[r]
  BY DEF WinInit
<1>3. OnePlace /\ Handles /\ Closing
  BY <1>2, ShortPorts DEF OnePlace, Handles, Closing, InHand, Busy
<1>4. DrainCountsReads
  <2>1. {r \in Roots : book.closed[r] /\ book.reading[r]} = {}
    BY <1>2
  <2>. QED BY <2>1, FS_EmptySet DEF WinInit, DrainCountsReads
<1>5. NoSilentDeath
  BY <1>2 DEF NoSilentDeath
<1>. QED BY <1>1, <1>3, <1>4, <1>5 DEF WinInv

\* What draining counts is finite, and one read more or less is one more or
\* less to wait for.
Drained == {r \in Roots : book.closed[r] /\ book.reading[r]}

LEMMA DrainStays ==
    ASSUME WinTypeOK, DrainCountsReads, mechanism' = mechanism,
           book'.draining = book.draining,
           \A r \in Roots : (book'.closed[r] /\ book'.reading[r])
                                <=> (book.closed[r] /\ book.reading[r])
    PROVE  DrainCountsReads'
BY DEF WinTypeOK, DrainCountsReads

\* Nobody watches: what the inductive invariant says but the types and the
\* count, is about the places of the reads, the roots' books, run's place and
\* Close's.
LEMMA Elsewhere ==
    ASSUME WinInv, kern'.read = kern.read, kern'.port = kern.port, book' = book,
           closer' = closer, mechanism' = mechanism,
           run'.at = run.at \/ (run.at = "dispatch" /\ run'.at = "wait"),
           run'.root = run.root, WinTypeOK'
    PROVE  WinInv'
<1> USE DEF WinInv
<1>1. OnePlace'
  BY DEF OnePlace, OneEach, Queued, InHand
<1>2. Handles'
  BY DEF Handles, Busy
<1>3. Closing'
  BY DEF Closing, Ends
<1>4. DrainCountsReads' /\ NoSilentDeath'
  BY DrainStays DEF DrainCountsReads, NoSilentDeath
<1>. QED BY <1>1, <1>2, <1>3, <1>4

\* The kernel and the writers.
LEMMA TouchInv ==
    ASSUME WinInv, NEW f \in Files, Touch(f)
    PROVE  WinInv'
<1>1. kern' \in KernStates /\ kern'.read = kern.read /\ kern'.port = kern.port
  <2> DEFINE r == Top[f]
  <2>1. kern \in KernStates
    BY DEF WinInv, WinTypeOK
  <2>2. \/ kern' = kern
        \/ kern' = [kern EXCEPT !.noted[r] = {}, !.spilled[r] = TRUE]
        \/ kern' = [kern EXCEPT !.noted[r] = @ \cup {f}]
    BY DEF Touch
  <2> HIDE DEF r
  <2>3. CASE kern' = [kern EXCEPT !.noted[r] = {}, !.spilled[r] = TRUE]
    BY <2>1, <2>3 DEF KernStates
  <2>4. CASE kern' = [kern EXCEPT !.noted[r] = @ \cup {f}]
    BY <2>1, <2>4 DEF KernStates
  <2>. QED BY <2>1, <2>2, <2>3, <2>4
<1>2. version' \in [Files -> Nat] /\ lost' \in [Files -> Nat]
  <2>1. version \in [Files -> Nat] /\ version' = [version EXCEPT ![f] = @ + 1]
    BY DEF WinInv, WinTypeOK, Touch
  <2>2. version' \in [Files -> Nat]
    BY <2>1
  <2>3. lost' = lost \/ lost' = [lost EXCEPT ![f] = version'[f]]
    BY DEF Touch
  <2>. QED BY <2>2, <2>3 DEF WinInv, WinTypeOK
<1>3. WinTypeOK'
  BY <1>1, <1>2 DEF WinInv, WinTypeOK, Touch, Windows
<1>. QED BY <1>1, <1>3, Elsewhere DEF Touch, Windows

\* A read leaves the kernel for the port.
LEMMA ReadEnds ==
    ASSUME WinInv, NEW r \in Roots, kern.read[r] # "none", NEW c \in Completions, c.root = r,
           kern'.read = [kern.read EXCEPT ![r] = "none"],
           kern'.port = Append(kern.port, c), kern' \in KernStates,
           UNCHANGED <<mechanism, version, told, lost, book, run, closer>>
    PROVE  WinInv'
<1>0. /\ kern.read \in [Roots -> {"none", "armed", "cancelled"}]
      /\ kern.port \in Seq(Packets)
  BY DEF WinInv, WinTypeOK, KernStates
<1>1. WinTypeOK'
  BY DEF WinInv, WinTypeOK
<1>2. ~Queued(kern.port, r) /\ ~InHand(r) /\ book.reading[r]
  BY DEF WinInv, OnePlace
<1>3. /\ \A q \in Roots : Queued(kern'.port, q) <=> Queued(kern.port, q) \/ q = r
      /\ OneEach(kern'.port)
      /\ Ends(kern'.port) <=> Ends(kern.port)
  BY <1>0, <1>2, Enqueue DEF WinInv, OnePlace
<1>4. kern'.read[r] = "none" /\ \A q \in Roots : q # r => kern'.read[q] = kern.read[q]
  BY <1>0
<1>5. OnePlace'
  BY <1>2, <1>3, <1>4 DEF WinInv, OnePlace, InHand
<1>6. Handles' /\ DrainCountsReads' /\ NoSilentDeath'
  BY DEF WinInv, Handles, DrainCountsReads, NoSilentDeath
<1>7. closer.at \in {"no", "roots"} /\ run.at # "exited"
  <2>1. closer.at \notin {"posted", "gaveUp", "done"}
    BY <1>2 DEF WinInv, Closing
  <2>2. closer.at \in {"no", "roots"}
    BY <2>1 DEF WinInv, WinTypeOK
  <2>. QED BY <2>2 DEF WinInv, Closing
<1>8. Closing'
  BY <1>3, <1>7 DEF WinInv, Closing
<1>. QED BY <1>1, <1>5, <1>6, <1>8 DEF WinInv

LEMMA CompleteInv ==
    ASSUME WinInv, NEW r \in Roots, Complete(r)
    PROVE  WinInv'
<1> DEFINE c == [kind |-> IF kern.spilled[r] THEN "zero" ELSE "data", root |-> r]
<1>1. c \in Completions /\ c.root = r
  BY DEF Completions
<1>2. /\ kern.read[r] # "none"
      /\ kern' = [kern EXCEPT !.read[r] = "none", !.buf[r] = kern.noted[r], !.noted[r] = {},
                              !.spilled[r] = FALSE, !.port = Append(@, c)]
      /\ UNCHANGED <<mechanism, version, told, lost, book, run, closer>>
  BY DEF Complete, Windows
<1> HIDE DEF c
<1>3. kern \in KernStates
  BY DEF WinInv, WinTypeOK
<1>4. Append(kern.port, c) \in Seq(Packets)
  BY <1>1, <1>3 DEF KernStates, Packets
<1>5. /\ kern' \in KernStates /\ kern'.port = Append(kern.port, c)
      /\ kern'.read = [kern.read EXCEPT ![r] = "none"]
  BY <1>2, <1>3, <1>4 DEF KernStates
<1>. QED BY <1>1, <1>2, <1>5, ReadEnds

LEMMA AbortInv ==
    ASSUME WinInv, NEW r \in Roots, Abort(r)
    PROVE  WinInv'
<1> DEFINE c == [kind |-> "error", root |-> r]
<1>1. c \in Completions /\ c.root = r
  BY DEF Completions
<1>2. PICK written \in {kern.buf[r], kern.noted[r]} :
         \/ kern.read[r] = "cancelled" /\ EndsWith(r, written, kern.errors)
         \/ kern.read[r] = "armed" /\ EndsWith(r, written, kern.errors + 1)
  BY DEF Abort
<1>3. PICK n \in {kern.errors, kern.errors + 1} :
         kern' = [kern EXCEPT !.read[r] = "none", !.buf[r] = written, !.errors = n,
                              !.port = Append(@, c)]
  BY <1>2 DEF EndsWith
<1>4. kern.read[r] # "none" /\ UNCHANGED <<mechanism, version, told, lost, book, run, closer>>
  BY <1>2 DEF Abort, Windows
<1> HIDE DEF c
<1>5. kern \in KernStates /\ n \in Nat /\ written \in SUBSET Files
  BY DEF WinInv, WinTypeOK, KernStates
<1>6. Append(kern.port, c) \in Seq(Packets)
  BY <1>1, <1>5 DEF KernStates, Packets
<1>7. /\ kern' \in KernStates /\ kern'.port = Append(kern.port, c)
      /\ kern'.read = [kern.read EXCEPT ![r] = "none"]
  BY <1>3, <1>5, <1>6 DEF KernStates
<1>. QED BY <1>1, <1>4, <1>7, ReadEnds

\* A read is issued for a root of which none is anywhere: AddRoot's first, or
\* run's next one, when run is done with the last.
LEMMA ReadBegins ==
    ASSUME WinInv, NEW r \in Roots, ~book.reading[r], ~book.closed[r],
           book.handle[r] \in {"unopened", "open"},
           book.handle[r] = "unopened" => closer.at = "no",
           NEW place \in RunAt \ (Busy \cup {"taken", "exited"}),
           run'.at = run.at \/ (run.root = r /\ run.at \in Busy /\ run'.at = place),
           run.at \in Busy => (run.root = r <=> run'.at # run.at),
           run'.root = run.root,
           kern' = [kern EXCEPT !.read[r] = "armed"],
           book' = [book EXCEPT !.handle[r] = "open", !.reading[r] = TRUE],
           WinTypeOK', UNCHANGED <<mechanism, closer>>
    PROVE  WinInv'
<1>0. kern \in KernStates /\ book \in BookStates
  BY DEF WinInv, WinTypeOK
<1>1. /\ kern'.port = kern.port /\ kern'.read[r] = "armed"
      /\ \A q \in Roots : q # r => kern'.read[q] = kern.read[q]
  BY <1>0 DEF KernStates
<1>2. /\ book'.handle[r] = "open" /\ book'.reading[r] = TRUE /\ book'.closed = book.closed
      /\ book'.logged = book.logged /\ book'.draining = book.draining
      /\ \A q \in Roots : q # r => /\ book'.handle[q] = book.handle[q]
                                   /\ book'.reading[q] = book.reading[q]
  BY <1>0 DEF BookStates
<1>3. kern.read[r] = "none" /\ ~Queued(kern.port, r) /\ ~InHand(r)
  BY DEF WinInv, OnePlace
<1>4. \A q \in Roots : InHand(q)' <=> InHand(q)
  BY DEF InHand, Busy
<1>5. OnePlace'
  BY <1>1, <1>2, <1>3, <1>4 DEF WinInv, OnePlace
<1>6. Handles'
  <2>1. \A q \in Roots : /\ book'.closed[q] <=> book'.handle[q] = "shut"
                         /\ book'.reading[q] => book'.handle[q] \in {"open", "shut"}
    BY <1>2 DEF WinInv, Handles
  <2>2. run'.at \in Busy \cup {"taken"} => run'.at = run.at
    OBVIOUS
  <2>3. run'.at \in Busy => run'.root # r
    BY <2>2
  <2>. QED BY <1>2, <2>1, <2>2, <2>3 DEF WinInv, Handles
<1>7. Closing'
  <2>1. closer.at \notin {"posted", "gaveUp", "done"}
    BY DEF WinInv, Closing
  <2>2. closer.at \in {"no", "roots"}
    BY <2>1 DEF WinInv, WinTypeOK
  <2>3. run.at # "exited" /\ run'.at # "exited"
    BY <2>2 DEF WinInv, Closing
  <2>. QED BY <1>1, <1>2, <2>2, <2>3 DEF WinInv, Closing
<1>8. DrainCountsReads'
  <2>1. \A q \in Roots : (book'.closed[q] /\ book'.reading[q]) <=> (book.closed[q] /\ book.reading[q])
    BY <1>2
  <2>. QED BY <1>2, <2>1, DrainStays DEF WinInv
<1>9. NoSilentDeath'
  BY <1>2 DEF WinInv, WinTypeOK, NoSilentDeath, Busy
<1>. QED BY <1>5, <1>6, <1>7, <1>8, <1>9 DEF WinInv

\* One more system call failed; nothing else is the kernel's.
LEMMA Counting ==
    ASSUME kern \in KernStates, kern' = [kern EXCEPT !.errors = @ + 1]
    PROVE  kern' \in KernStates /\ kern'.read = kern.read /\ kern'.port = kern.port
<1>1. kern.errors + 1 \in Nat
  BY DEF KernStates
<1> DEFINE n == kern.errors + 1
<1>2. kern' = [kern EXCEPT !.errors = n] /\ n \in Nat
  BY <1>1
<1> HIDE DEF n
<1>. QED BY <1>2 DEF KernStates

LEMMA AddRootInv ==
    ASSUME WinInv, NEW r \in Roots, AddRoot(r)
    PROVE  WinInv'
<1>0. /\ kern \in KernStates /\ book \in BookStates /\ lost \in [Files -> Nat]
      /\ version \in [Files -> Nat]
  BY DEF WinInv, WinTypeOK
<1>1. /\ mechanism' = mechanism /\ UNCHANGED <<version, told, run, closer>>
      /\ closer.at = "no" /\ book.handle[r] = "unopened"
  BY DEF AddRoot, Windows
<1>2. ~book.reading[r] /\ ~book.closed[r]
  BY <1>1 DEF WinInv, Handles
<1>3. run.at \in Busy \cup {"taken"} => run.root # r
  BY <1>1 DEF WinInv, Handles
<1>4. CASE /\ kern' = [kern EXCEPT !.read[r] = "armed"]
           /\ book' = [book EXCEPT !.handle[r] = "open", !.reading[r] = TRUE]
           /\ UNCHANGED lost
  <2>1. kern' \in KernStates
    BY <1>0, <1>4 DEF KernStates
  <2>2. book' \in BookStates
    BY <1>0, <1>4 DEF BookStates
  <2>3. WinTypeOK'
    BY <1>1, <1>4, <2>1, <2>2 DEF WinInv, WinTypeOK
  <2>4. run'.at = run.at /\ run'.root = run.root /\ (run.at \in Busy => run.root # r)
    BY <1>1, <1>3
  <2>5. "wait" \in RunAt \ (Busy \cup {"taken", "exited"})
    BY DEF RunAt, Busy
  <2>. QED BY <1>1, <1>2, <1>4, <2>3, <2>4, <2>5, ReadBegins
<1>5. CASE /\ kern' = [kern EXCEPT !.errors = @ + 1]
           /\ book' = [book EXCEPT !.handle[r] = "failed"]
           /\ Lose(Under(r))
  <2>1. kern' \in KernStates /\ kern'.read = kern.read /\ kern'.port = kern.port
    BY <1>0, <1>5, Counting
  <2>2. /\ book' \in BookStates /\ book'.reading = book.reading /\ book'.closed = book.closed
        /\ book'.handle[r] = "failed" /\ book'.draining = book.draining
        /\ book'.logged = book.logged
        /\ \A q \in Roots : q # r => book'.handle[q] = book.handle[q]
    BY <1>0, <1>5 DEF BookStates
  <2>3. lost' \in [Files -> Nat]
    BY <1>0, <1>5 DEF Lose
  <2>4. WinTypeOK'
    BY <1>1, <2>1, <2>2, <2>3 DEF WinInv, WinTypeOK
  <2>5. OnePlace'
    BY <1>1, <2>1, <2>2 DEF WinInv, OnePlace, InHand
  <2>6. Handles'
    BY <1>1, <1>2, <1>3, <2>2 DEF WinInv, Handles
  <2>7. Closing'
    BY <1>1, <2>1, <2>2 DEF WinInv, Closing
  <2>8. DrainCountsReads'
    BY <1>1, <2>2, DrainStays DEF WinInv
  <2>9. NoSilentDeath'
    BY <1>1, <2>2 DEF WinInv, WinTypeOK, NoSilentDeath
  <2>. QED BY <2>4, <2>5, <2>6, <2>7, <2>8, <2>9 DEF WinInv
<1>. QED BY <1>4, <1>5 DEF AddRoot

-----------------------------------------------------------------------------
\* run: what it has in hand leaves the port, and leaves its hand in Inspect.
LEMMA TakeCompletionInv ==
    ASSUME WinInv, TakeCompletion
    PROVE  WinInv'
<1> DEFINE c == Head(kern.port)
<1>0. kern \in KernStates /\ kern.port \in Seq(Packets) /\ kern.port # <<>> /\ OneEach(kern.port)
  BY DEF WinInv, WinTypeOK, KernStates, OnePlace, TakeCompletion
<1>1. /\ run.at = "wait" /\ UNCHANGED <<mechanism, version, told, lost, book, closer>>
      /\ kern' = [kern EXCEPT !.port = Tail(@)]
      /\ c = ShutDown => run' = [run EXCEPT !.at = "exited"]
      /\ c # ShutDown => run' = [run EXCEPT !.at = "taken", !.root = c.root, !.kind = c.kind]
  BY DEF TakeCompletion, Windows
<1>2. /\ Tail(kern.port) \in Seq(Packets) /\ OneEach(Tail(kern.port)) /\ c \in Packets
      /\ Ends(kern.port) <=> c = ShutDown \/ Ends(Tail(kern.port))
      /\ c = ShutDown =>
            \A r \in Roots : Queued(kern.port, r) <=> Queued(Tail(kern.port), r)
      /\ c # ShutDown =>
            /\ c \in Completions /\ ~Queued(Tail(kern.port), c.root)
            /\ \A r \in Roots :
                  Queued(kern.port, r) <=> Queued(Tail(kern.port), r) \/ r = c.root
  BY <1>0, Dequeue
<1> HIDE DEF c
<1>3. kern' \in KernStates /\ kern'.read = kern.read /\ kern'.port = Tail(kern.port)
  BY <1>0, <1>1, <1>2 DEF KernStates
<1>4. WinTypeOK'
  BY <1>1, <1>3 DEF WinInv, WinTypeOK, RunAt
<1>5. DrainCountsReads' /\ NoSilentDeath'
  BY <1>1, DrainStays DEF WinInv, NoSilentDeath
<1>6. CASE c = ShutDown
  <2>1. run'.at = "exited" /\ run'.root = run.root
    BY <1>1, <1>6 DEF WinInv, WinTypeOK
  <2>2. closer.at = "posted" /\ kern.port = <<ShutDown>>
    <3>1. closer.at \notin {"no", "roots", "gaveUp"}
      BY <1>2, <1>6 DEF WinInv, Closing
    <3>2. closer.at # "done"
      BY <1>1 DEF WinInv, Closing
    <3>. QED BY <1>1, <3>1, <3>2 DEF WinInv, WinTypeOK, Closing
  <2>3. kern'.port = <<>>
    BY <1>3, <2>2, ShortPorts
  <2>4. OnePlace'
    BY <1>1, <1>2, <1>3, <1>6, <2>1 DEF WinInv, OnePlace, InHand
  <2>5. Handles'
    BY <1>1, <2>1 DEF WinInv, Handles, Busy
  <2>6. Closing'
    BY <1>1, <2>1, <2>2, <2>3 DEF WinInv, Closing
  <2>. QED BY <1>4, <1>5, <2>4, <2>5, <2>6 DEF WinInv
<1>7. CASE c # ShutDown
  <2>1. run'.at = "taken" /\ run'.root = c.root /\ c.root \in Roots
    BY <1>1, <1>2, <1>7 DEF WinInv, WinTypeOK, Completions
  <2>2. Queued(kern.port, c.root) /\ book.reading[c.root]
    BY <1>2, <1>7, <2>1 DEF WinInv, OnePlace
  <2>3. OnePlace'
    BY <1>1, <1>2, <1>3, <1>7, <2>1, <2>2 DEF WinInv, OnePlace, InHand
  <2>4. Handles'
    BY <1>1, <2>1, <2>2 DEF WinInv, Handles, Busy
  <2>5. closer.at \notin {"posted", "gaveUp", "done"}
    BY <2>1, <2>2 DEF WinInv, Closing
  <2>6. Closing'
    BY <1>1, <1>2, <1>3, <2>1, <2>5 DEF WinInv, Closing
  <2>. QED BY <1>4, <1>5, <2>3, <2>4, <2>6 DEF WinInv
<1>. QED BY <1>6, <1>7

\* The goroutine ends of itself: what is outstanding or queued stays there.
LEMMA TakeFailsInv ==
    ASSUME WinInv, TakeFails
    PROVE  WinInv'
<1>0. /\ kern \in KernStates /\ book \in BookStates /\ lost \in [Files -> Nat]
      /\ version \in [Files -> Nat]
  BY DEF WinInv, WinTypeOK
<1>1. /\ run.at = "wait" /\ UNCHANGED <<mechanism, version, told, closer>>
      /\ kern' = [kern EXCEPT !.errors = @ + 1]
      /\ book' = [book EXCEPT !.logged = Roots]
      /\ run' = [run EXCEPT !.at = "dead"] /\ Lose(Files)
  BY DEF TakeFails, Windows
<1>2. kern' \in KernStates /\ kern'.read = kern.read /\ kern'.port = kern.port
  BY <1>0, <1>1, Counting
<1>3. /\ book' \in BookStates /\ book'.logged = Roots /\ book'.handle = book.handle
      /\ book'.reading = book.reading /\ book'.closed = book.closed
      /\ book'.draining = book.draining
  BY <1>0, <1>1 DEF BookStates
<1>4. lost' \in [Files -> Nat]
  BY <1>0, <1>1 DEF Lose
<1>5. run'.at = "dead" /\ run'.root = run.root
  BY <1>1 DEF WinInv, WinTypeOK
<1>6. WinTypeOK'
  BY <1>1, <1>2, <1>3, <1>4 DEF WinInv, WinTypeOK, RunAt
<1>7. OnePlace'
  BY <1>1, <1>2, <1>3, <1>5 DEF WinInv, OnePlace, InHand
<1>8. Handles' /\ NoSilentDeath'
  BY <1>3, <1>5 DEF WinInv, Handles, NoSilentDeath, Busy
<1>9. Closing'
  BY <1>1, <1>2, <1>3, <1>5 DEF WinInv, Closing
<1>10. DrainCountsReads'
  BY <1>1, <1>3, DrainStays DEF WinInv
<1>. QED BY <1>6, <1>7, <1>8, <1>9, <1>10 DEF WinInv

LEMMA InspectInv ==
    ASSUME WinInv, Inspect
    PROVE  WinInv'
<1> DEFINE r == run.root
           n == IF book.closed[r] THEN book.draining - 1 ELSE book.draining
<1>0. kern \in KernStates /\ book \in BookStates /\ r \in Roots /\ run.at = "taken" /\ n \in Int
  BY DEF WinInv, WinTypeOK, Handles, Inspect, BookStates
<1>1. /\ book' = [book EXCEPT !.reading[r] = FALSE, !.draining = n]
      /\ UNCHANGED <<mechanism, version, told, lost, kern, closer>>
      /\ run'.at \in {"wait", "recover", "decode"} /\ run' = [run EXCEPT !.at = run'.at]
      /\ ~book.closed[r] => run'.at \in {"recover", "decode"}
  BY DEF Inspect, Windows, WinInv, WinTypeOK
<1> HIDE DEF n
<1>2. /\ book' \in BookStates /\ book'.closed = book.closed /\ book'.handle = book.handle
      /\ book'.logged = book.logged /\ book'.draining = n /\ book'.reading[r] = FALSE
      /\ \A q \in Roots : q # r => book'.reading[q] = book.reading[q]
  BY <1>0, <1>1 DEF BookStates
<1> HIDE DEF r
<1>3. /\ InHand(r) /\ \A q \in Roots : q # r => ~InHand(q)
      /\ run'.root = r
      /\ book.reading[r] /\ kern.read[r] = "none" /\ ~Queued(kern.port, r)
      /\ book.handle[r] \in {"open", "shut"}
  <2>1. run.root = r /\ run'.root = r
    BY <1>1 DEF r, WinInv, WinTypeOK
  <2>. QED BY <1>0, <2>1 DEF WinInv, OnePlace, InHand, Handles
<1>4. WinTypeOK'
  BY <1>1, <1>2 DEF WinInv, WinTypeOK, RunAt, Busy
<1>5. OnePlace'
  BY <1>1, <1>2, <1>3 DEF WinInv, OnePlace, InHand
<1>6. Handles'
  BY <1>0, <1>1, <1>2, <1>3 DEF WinInv, Handles, Busy
<1>7. Closing'
  BY <1>0, <1>1, <1>2, <1>3 DEF WinInv, Closing
<1>8. DrainCountsReads'
  <2> DEFINE before == {q \in Roots : book.closed[q] /\ book.reading[q]}
             after == {q \in Roots : book'.closed[q] /\ book'.reading[q]}
  <2>1. IsFiniteSet(before)
    BY BackendAssumption, FS_Subset
  <2>2. book.draining = Cardinality(before) /\ mechanism' = "windows"
    BY <1>1 DEF WinInv, DrainCountsReads, WinTypeOK
  <2>3. after = IF book.closed[r] THEN before \ {r} ELSE before
    BY <1>2
  <2>4. book.closed[r] => r \in before
    BY <1>0, <1>3
  <2>5. Cardinality(before \ {r}) = IF r \in before THEN Cardinality(before) - 1
                                   ELSE Cardinality(before)
    BY <2>1, FS_RemoveElement
  <2>6. n = IF book.closed[r] THEN book.draining - 1 ELSE book.draining
    BY DEF n, r
  <2> HIDE DEF before, after
  <2>7. book'.draining = Cardinality(after)
    BY <1>2, <2>2, <2>3, <2>4, <2>5, <2>6
  <2>. QED BY <2>2, <2>7 DEF DrainCountsReads, after
<1>9. NoSilentDeath'
  BY <1>1, <1>2, <1>3 DEF WinInv, WinTypeOK, NoSilentDeath, Handles, Busy
<1>. QED BY <1>4, <1>5, <1>6, <1>7, <1>8, <1>9 DEF WinInv

\* What Recover and Rearm have in common: Close has the root, the next read is
\* issued, or it cannot be and the log says so.
LEMMA NextRead ==
    ASSUME WinInv, run.at \in Busy, NEW place \in {"wait", "dispatch"},
           run' = [run EXCEPT !.at = place],
           \/ book.closed[run.root] /\ UNCHANGED <<kern, book, lost>>
           \/ ~book.closed[run.root] /\ (Issue(run.root) \/ IssueFails(run.root)),
           UNCHANGED <<mechanism, version, told, closer>>
    PROVE  WinInv'
<1> DEFINE r == run.root
<1>0. /\ kern \in KernStates /\ book \in BookStates /\ lost \in [Files -> Nat]
      /\ version \in [Files -> Nat] /\ r \in Roots /\ ~book.reading[r]
      /\ book.handle[r] \in {"open", "shut"} /\ (book.closed[r] <=> book.handle[r] = "shut")
  BY DEF WinInv, WinTypeOK, Handles
<1>1. run'.at = place /\ run'.root = r /\ run'.at # run.at /\ run.at # "taken"
  BY DEF WinInv, WinTypeOK, Busy
<1>2. /\ run'.paths = run.paths /\ run'.kind = run.kind /\ run'.at \in RunAt
      /\ run' = [at |-> run'.at, root |-> run'.root, kind |-> run'.kind, paths |-> run'.paths]
  BY DEF WinInv, WinTypeOK, RunAt
<1>3. CASE book.closed[r] /\ UNCHANGED <<kern, book, lost>>
  <2>1. WinTypeOK'
    BY <1>2, <1>3 DEF WinInv, WinTypeOK
  <2>2. OnePlace'
    BY <1>1, <1>3 DEF WinInv, OnePlace, InHand
  <2>3. Handles'
    BY <1>1, <1>3 DEF WinInv, Handles, Busy
  <2>4. Closing'
    BY <1>1, <1>3 DEF WinInv, Closing, Busy
  <2>5. DrainCountsReads'
    BY <1>3, DrainStays DEF WinInv
  <2>6. NoSilentDeath'
    BY <1>0, <1>1, <1>3 DEF WinInv, WinTypeOK, NoSilentDeath
  <2>. QED BY <2>1, <2>2, <2>3, <2>4, <2>5, <2>6 DEF WinInv
<1>4. CASE ~book.closed[r] /\ Issue(r)
  <2>1. /\ kern' = [kern EXCEPT !.read[r] = "armed"] /\ UNCHANGED lost
        /\ book' = [book EXCEPT !.reading[r] = TRUE]
    BY <1>4 DEF Issue
  <2>2. book.handle[r] = "open"
    BY <1>0, <1>4
  <2> HIDE DEF r
  <2>3. book' = [book EXCEPT !.handle[r] = "open", !.reading[r] = TRUE]
    BY <1>0, <2>1, <2>2 DEF BookStates
  <2>4. kern' \in KernStates /\ book' \in BookStates
    BY <1>0, <2>1 DEF KernStates, BookStates
  <2>5. WinTypeOK'
    BY <1>2, <2>1, <2>4 DEF WinInv, WinTypeOK
  <2>6. place \in RunAt \ (Busy \cup {"taken", "exited"})
    BY DEF RunAt, Busy
  <2>7. run.root = r /\ run'.root = run.root
    BY <1>1 DEF r
  <2>. QED BY <1>0, <1>1, <1>4, <2>1, <2>2, <2>3, <2>5, <2>6, <2>7, ReadBegins
<1>5. CASE ~book.closed[r] /\ IssueFails(r)
  <2>1. /\ kern' = [kern EXCEPT !.errors = @ + 1] /\ Lose(Under(r))
        /\ book' = [book EXCEPT !.logged = @ \cup {r}]
    BY <1>5 DEF IssueFails
  <2> HIDE DEF r
  <2>2. kern' \in KernStates /\ kern'.read = kern.read /\ kern'.port = kern.port
    BY <1>0, <2>1, Counting
  <2>3. /\ book' \in BookStates /\ book'.reading = book.reading /\ book'.closed = book.closed
        /\ book'.handle = book.handle /\ book'.draining = book.draining
        /\ book'.logged = book.logged \cup {r}
    BY <1>0, <2>1 DEF BookStates
  <2>4. lost' \in [Files -> Nat]
    BY <1>0, <2>1 DEF Lose
  <2>5. WinTypeOK'
    BY <1>2, <2>2, <2>3, <2>4 DEF WinInv, WinTypeOK
  <2>6. OnePlace'
    BY <1>1, <2>2, <2>3 DEF WinInv, OnePlace, InHand
  <2>7. Handles'
    BY <1>1, <2>3 DEF WinInv, Handles, Busy
  <2>8. Closing'
    BY <1>1, <2>2, <2>3 DEF WinInv, Closing, Busy
  <2>9. DrainCountsReads'
    BY <2>3, DrainStays DEF WinInv
  <2>10. NoSilentDeath'
    BY <1>1, <2>3 DEF WinInv, WinTypeOK, NoSilentDeath, r
  <2>. QED BY <2>5, <2>6, <2>7, <2>8, <2>9, <2>10 DEF WinInv
<1>. QED BY <1>3, <1>4, <1>5

LEMMA RecoverInv ==
    ASSUME WinInv, Recover
    PROVE  WinInv'
BY NextRead DEF Recover, Windows, Busy

LEMMA RearmInv ==
    ASSUME WinInv, Rearm
    PROVE  WinInv'
BY NextRead DEF Rearm, Windows, Busy

LEMMA DecodeInv ==
    ASSUME WinInv, Decode
    PROVE  WinInv'
<1> DEFINE p == IF run.kind = "zero" THEN {} ELSE kern.buf[run.root] \cap Transcripts
<1>0. p \subseteq Files
  BY BackendAssumption
<1>1. /\ run.at = "decode" /\ run' = [run EXCEPT !.at = "rearm", !.paths = p]
      /\ UNCHANGED <<mechanism, version, told, kern, book, closer>>
      /\ UNCHANGED lost \/ Lose(Under(run.root))
  BY DEF Decode, Windows
<1> HIDE DEF p
<1>2. /\ run'.at = "rearm" /\ run'.root = run.root /\ run'.paths = p
      /\ run' = [at |-> run'.at, root |-> run'.root, kind |-> run'.kind, paths |-> run'.paths]
  BY <1>1 DEF WinInv, WinTypeOK
<1>3. lost' \in [Files -> Nat]
  BY <1>1 DEF Lose, WinInv, WinTypeOK
<1>4. WinTypeOK'
  BY <1>0, <1>1, <1>2, <1>3 DEF WinInv, WinTypeOK, RunAt, Busy
<1>5. OnePlace'
  BY <1>1, <1>2 DEF WinInv, OnePlace, InHand
<1>6. Handles'
  BY <1>1, <1>2 DEF WinInv, Handles, Busy
<1>7. Closing'
  BY <1>1, <1>2 DEF WinInv, Closing
<1>8. DrainCountsReads'
  BY <1>1, DrainStays DEF WinInv
<1>9. NoSilentDeath'
  BY <1>1, <1>2 DEF WinInv, WinTypeOK, NoSilentDeath
<1>. QED BY <1>4, <1>5, <1>6, <1>7, <1>8, <1>9 DEF WinInv

LEMMA DispatchInv ==
    ASSUME WinInv, Dispatch
    PROVE  WinInv'
<1>1. /\ run.at = "dispatch" /\ UNCHANGED <<mechanism, version, lost, kern, book, closer>>
      /\ told' = told \/ \E p \in run.paths : Told(p)
      /\ \/ run' = [run EXCEPT !.at = "wait"]
         \/ \E p \in run.paths : run' = [run EXCEPT !.paths = @ \ {p}]
  BY DEF Dispatch, Windows
<1>2. told' \in [Files -> Nat]
  BY <1>1 DEF Told, WinInv, WinTypeOK
<1>3. /\ run'.at \in {"dispatch", "wait"} /\ run'.root = run.root /\ run'.paths \subseteq Files
      /\ run' = [at |-> run'.at, root |-> run'.root, kind |-> run'.kind, paths |-> run'.paths]
  BY <1>1 DEF WinInv, WinTypeOK
<1>4. WinTypeOK'
  BY <1>1, <1>2, <1>3 DEF WinInv, WinTypeOK, RunAt
<1>. QED BY <1>1, <1>3, <1>4, Elsewhere

-----------------------------------------------------------------------------
\* Close.
LEMMA CloseBeginsInv ==
    ASSUME WinInv, CloseBegins
    PROVE  WinInv'
<1>1. /\ closer.at = "no" /\ \A r \in Roots : book.handle[r] # "unopened"
      /\ closer' = [at |-> "roots", todo |-> {r \in Roots : book.handle[r] = "open"}]
      /\ UNCHANGED <<mechanism, version, told, lost, kern, book, run>>
  BY DEF CloseBegins, Windows
<1>2. WinTypeOK'
  BY <1>1 DEF WinInv, WinTypeOK
<1>3. OnePlace' /\ Handles' /\ NoSilentDeath'
  BY <1>1 DEF WinInv, OnePlace, InHand, Handles, NoSilentDeath
<1>4. Closing'
  BY <1>1 DEF WinInv, Closing
<1>5. DrainCountsReads'
  BY <1>1, DrainStays DEF WinInv
<1>. QED BY <1>2, <1>3, <1>4, <1>5 DEF WinInv

LEMMA CloseRootInv ==
    ASSUME WinInv, NEW r \in Roots, CloseRoot(r)
    PROVE  WinInv'
<1> DEFINE n == IF book.reading[r] THEN book.draining + 1 ELSE book.draining
           next == IF kern.read[r] = "armed" THEN "cancelled" ELSE kern.read[r]
<1>0. /\ kern \in KernStates /\ book \in BookStates /\ n \in Int
      /\ next \in {"none", "armed", "cancelled"}
  BY DEF WinInv, WinTypeOK, BookStates, KernStates
<1>1. /\ closer.at = "roots" /\ r \in closer.todo
      /\ closer' = [closer EXCEPT !.todo = @ \ {r}]
      /\ kern' = [kern EXCEPT !.read[r] = next]
      /\ book' = [book EXCEPT !.closed[r] = TRUE, !.handle[r] = "shut", !.draining = n]
      /\ UNCHANGED <<mechanism, version, told, lost, run>>
  BY DEF CloseRoot, Windows
<1>2. n = IF book.reading[r] THEN book.draining + 1 ELSE book.draining
  OBVIOUS
<1>3. next = IF kern.read[r] = "armed" THEN "cancelled" ELSE kern.read[r]
  OBVIOUS
<1> HIDE DEF n, next
<1>4. /\ kern' \in KernStates /\ kern'.port = kern.port /\ kern'.read[r] = next
      /\ \A q \in Roots : q # r => kern'.read[q] = kern.read[q]
  BY <1>0, <1>1 DEF KernStates
<1>5. /\ book' \in BookStates /\ book'.reading = book.reading /\ book'.logged = book.logged
      /\ book'.draining = n /\ book'.closed[r] /\ book'.handle[r] = "shut"
      /\ \A q \in Roots : q # r => /\ book'.closed[q] = book.closed[q]
                                   /\ book'.handle[q] = book.handle[q]
  BY <1>0, <1>1 DEF BookStates
<1>6. closer'.at = "roots" /\ closer'.todo = closer.todo \ {r}
      /\ closer' \in [at : {"no", "roots", "posted", "gaveUp", "done"}, todo : SUBSET Roots]
  BY <1>1 DEF WinInv, WinTypeOK
<1>7. book.handle[r] = "open" /\ ~book.closed[r]
  BY <1>1 DEF WinInv, Closing, Handles
<1>8. WinTypeOK'
  BY <1>1, <1>4, <1>5, <1>6 DEF WinInv, WinTypeOK
<1>9. OnePlace'
  BY <1>1, <1>3, <1>4, <1>5, <1>7 DEF WinInv, OnePlace, InHand
<1>10. Handles'
  BY <1>1, <1>5, <1>7 DEF WinInv, Handles
<1>11. Closing'
  BY <1>1, <1>4, <1>5, <1>6 DEF WinInv, Closing
<1>12. DrainCountsReads'
  <2> DEFINE before == {q \in Roots : book.closed[q] /\ book.reading[q]}
             after == {q \in Roots : book'.closed[q] /\ book'.reading[q]}
  <2>1. IsFiniteSet(before)
    BY BackendAssumption, FS_Subset
  <2>2. book.draining = Cardinality(before) /\ mechanism' = "windows"
    BY <1>1 DEF WinInv, DrainCountsReads, WinTypeOK
  <2>3. after = IF book.reading[r] THEN before \cup {r} ELSE before
    BY <1>5, <1>7
  <2>4. r \notin before
    BY <1>7
  <2>5. Cardinality(before \cup {r}) = IF r \in before THEN Cardinality(before)
                                       ELSE Cardinality(before) + 1
    BY <2>1, FS_AddElement
  <2> HIDE DEF before, after
  <2>6. book'.draining = Cardinality(after)
    BY <1>2, <1>5, <2>2, <2>3, <2>4, <2>5
  <2>. QED BY <2>2, <2>6 DEF DrainCountsReads, after
<1>13. NoSilentDeath'
  BY <1>1, <1>5 DEF WinInv, WinTypeOK, NoSilentDeath
<1>. QED BY <1>8, <1>9, <1>10, <1>11, <1>12, <1>13 DEF WinInv

\* With nothing left to drain no read is anywhere, so the end is alone in the
\* port.
LEMMA PostInv ==
    ASSUME WinInv, Post
    PROVE  WinInv'
<1>0. kern \in KernStates /\ kern.port \in Seq(Packets)
  BY DEF WinInv, WinTypeOK, KernStates
<1>1. /\ closer.at = "roots" /\ closer.todo = {} /\ book.draining = 0
      /\ \/ kern' = [kern EXCEPT !.port = Append(@, ShutDown)] /\ closer' = [closer EXCEPT !.at = "posted"]
         \/ kern' = [kern EXCEPT !.errors = @ + 1] /\ closer' = [closer EXCEPT !.at = "gaveUp"]
      /\ UNCHANGED <<mechanism, version, told, lost, book, run>>
  BY DEF Post, Windows
<1>2. \A r \in Roots : ~book.reading[r]
  <2> DEFINE before == {q \in Roots : book.closed[q] /\ book.reading[q]}
  <2>1. IsFiniteSet(before)
    BY BackendAssumption, FS_Subset
  <2>2. Cardinality(before) = 0
    BY <1>1 DEF WinInv, DrainCountsReads, WinTypeOK
  <2>3. before = {}
    BY <2>1, <2>2, FS_EmptySet
  <2>4. \A r \in Roots : book.reading[r] => book.closed[r]
    BY <1>1 DEF WinInv, Handles, Closing
  <2>. QED BY <2>3, <2>4
<1>3. kern.port = <<>>
  <2>1. \A r \in Roots : ~Queued(kern.port, r)
    BY <1>2 DEF WinInv, OnePlace
  <2>2. ~Ends(kern.port)
    BY <1>1 DEF WinInv, Closing
  <2>. QED BY <1>0, <2>1, <2>2, NothingQueued
<1>4. DrainCountsReads' /\ NoSilentDeath' /\ Handles'
  BY <1>1, DrainStays DEF WinInv, NoSilentDeath, Handles
<1>5. closer'.todo = {} /\ closer' \in [at : {"no", "roots", "posted", "gaveUp", "done"}, todo : SUBSET Roots]
  BY <1>1 DEF WinInv, WinTypeOK
<1>6. run.at # "exited"
  BY <1>1 DEF WinInv, Closing
<1>7. CASE kern' = [kern EXCEPT !.port = Append(@, ShutDown)] /\ closer' = [closer EXCEPT !.at = "posted"]
  <2>1. kern' \in KernStates /\ kern'.read = kern.read /\ kern'.port = <<ShutDown>>
    BY <1>0, <1>3, <1>7, ShortPorts DEF KernStates
  <2>2. closer'.at = "posted"
    BY <1>7 DEF WinInv, WinTypeOK
  <2>3. WinTypeOK'
    BY <1>1, <1>5, <2>1 DEF WinInv, WinTypeOK
  <2>4. OnePlace'
    BY <1>1, <1>3, <2>1, ShortPorts DEF WinInv, OnePlace, InHand
  <2>5. Closing'
    BY <1>1, <1>2, <1>5, <1>6, <2>1, <2>2 DEF WinInv, Closing
  <2>. QED BY <1>4, <2>3, <2>4, <2>5 DEF WinInv
<1>8. CASE kern' = [kern EXCEPT !.errors = @ + 1] /\ closer' = [closer EXCEPT !.at = "gaveUp"]
  <2>1. kern' \in KernStates /\ kern'.read = kern.read /\ kern'.port = kern.port
    BY <1>0, <1>8, Counting
  <2>2. closer'.at = "gaveUp"
    BY <1>8 DEF WinInv, WinTypeOK
  <2>3. WinTypeOK'
    BY <1>1, <1>5, <2>1 DEF WinInv, WinTypeOK
  <2>4. OnePlace'
    BY <1>1, <2>1 DEF WinInv, OnePlace, InHand
  <2>5. Closing'
    BY <1>1, <1>2, <1>5, <1>6, <2>1, <2>2 DEF WinInv, Closing
  <2>. QED BY <1>4, <2>3, <2>4, <2>5 DEF WinInv
<1>. QED BY <1>1, <1>7, <1>8

LEMMA CloseEndsInv ==
    ASSUME WinInv, CloseEnds
    PROVE  WinInv'
<1>1. /\ closer.at = "posted" /\ run.at \in {"exited", "dead"} /\ closer' = [closer EXCEPT !.at = "done"]
      /\ UNCHANGED <<mechanism, version, told, lost, kern, book, run>>
  BY DEF CloseEnds, Windows
<1>2. /\ closer'.at = "done" /\ closer'.todo = closer.todo
      /\ closer' \in [at : {"no", "roots", "posted", "gaveUp", "done"}, todo : SUBSET Roots]
  BY <1>1 DEF WinInv, WinTypeOK
<1>3. WinTypeOK'
  BY <1>1, <1>2 DEF WinInv, WinTypeOK
<1>4. OnePlace' /\ Handles' /\ NoSilentDeath'
  BY <1>1 DEF WinInv, OnePlace, InHand, Handles, NoSilentDeath
<1>5. Closing'
  BY <1>1, <1>2 DEF WinInv, Closing
<1>6. DrainCountsReads'
  BY <1>1, DrainStays DEF WinInv
<1>. QED BY <1>3, <1>4, <1>5, <1>6 DEF WinInv

-----------------------------------------------------------------------------
LEMMA WinNextInv == WinInv /\ [WinNext]_backendVars => WinInv'
<1> SUFFICES ASSUME WinInv, [WinNext]_backendVars PROVE WinInv'
    OBVIOUS
<1>1. CASE UNCHANGED backendVars
  <2>1. WinTypeOK'
    BY <1>1 DEF backendVars, WinInv, WinTypeOK
  <2>. QED BY <1>1, <2>1, Elsewhere DEF backendVars
<1>2. ASSUME NEW f \in Files, Touch(f) PROVE WinInv'
  BY <1>2, TouchInv
<1>3. ASSUME NEW r \in Roots, AddRoot(r) \/ Complete(r) \/ Abort(r) \/ CloseRoot(r) PROVE WinInv'
  BY <1>3, AddRootInv, CompleteInv, AbortInv, CloseRootInv
<1>4. CASE TakeCompletion \/ TakeFails \/ Inspect \/ Recover \/ Decode \/ Rearm \/ Dispatch
  BY <1>4, TakeCompletionInv, TakeFailsInv, InspectInv, RecoverInv, DecodeInv, RearmInv, DispatchInv
<1>5. CASE CloseBegins \/ Post \/ CloseEnds
  BY <1>5, CloseBeginsInv, PostInv, CloseEndsInv
<1>. QED BY <1>1, <1>2, <1>3, <1>4, <1>5 DEF WinNext

\* The inductive invariant holds in every state of every behaviour.
THEOREM WinTyped == WinSpec => []WinInv
BY WinInitInv, WinNextInv, PTL DEF WinSpec

\* Close waits for exactly the reads it cancelled and run has not taken: the
\* WaitGroup neither goes negative (the alpha.7 panic) nor stays above zero,
\* whatever the number of roots and whichever calls fail.
THEOREM DrainIsExact == WinSpec => []DrainCountsReads
<1>1. WinInv => DrainCountsReads
  BY DEF WinInv
<1>. QED BY <1>1, WinTyped, PTL

\* run decodes rr.buf only between two reads of that root: the kernel writes
\* into no buffer that run looks at.
THEOREM BufferOwned == WinSpec => []BufferIsOurs
<1>1. WinInv => BufferIsOurs
  <2> SUFFICES ASSUME WinInv, run.at = "decode" PROVE
                 /\ kern.read[run.root] = "none"
                 /\ \A i \in DOMAIN kern.port :
                       kern.port[i] # ShutDown => kern.port[i].root # run.root
    BY DEF BufferIsOurs
  <2>1. run.root \in Roots /\ ~book.reading[run.root]
    BY DEF WinInv, Handles, Busy
  <2>2. kern.read[run.root] = "none" /\ ~Queued(kern.port, run.root)
    BY <2>1 DEF WinInv, OnePlace
  <2>3. kern.port \in Seq(Packets)
    BY DEF WinInv, WinTypeOK, KernStates
  <2>4. DOMAIN kern.port = 1..Len(kern.port)
    BY <2>3, LenProperties
  <2>. QED BY <2>2, <2>4 DEF Queued
<1>. QED BY <1>1, WinTyped, PTL

\* When Close has returned no read is outstanding and no completion is left but
\* the packet that was to end run: the buffers may be freed (the second review's
\* free-while-written finding), also when run had ended of itself.
THEOREM ClosedForGood == WinSpec => []ClosedIsQuiet
<1>1. WinInv => ClosedIsQuiet
  <2> SUFFICES ASSUME WinInv, closer.at \in {"done", "gaveUp"}
               PROVE  /\ \A r \in Roots : kern.read[r] = "none"
                      /\ \A i \in DOMAIN kern.port : kern.port[i] = ShutDown
    BY DEF ClosedIsQuiet
  <2>1. \A r \in Roots : kern.read[r] = "none" /\ ~Queued(kern.port, r)
    BY DEF WinInv, OnePlace, Closing
  <2>2. kern.port \in Seq(Packets)
    BY DEF WinInv, WinTypeOK, KernStates
  <2>3. ASSUME NEW i \in 1..Len(kern.port), kern.port[i] # ShutDown PROVE FALSE
    <3>1. kern.port[i] \in Packets
      BY <2>2
    <3>2. kern.port[i].root \in Roots
      BY <2>3, <3>1 DEF Packets, Completions
    <3>. QED BY <2>1, <2>3, <3>2 DEF Queued
  <2>4. DOMAIN kern.port = 1..Len(kern.port)
    BY <2>2, LenProperties
  <2>. QED BY <2>1, <2>3, <2>4
<1>. QED BY <1>1, WinTyped, PTL

\* No error path forgets to re-arm: an open root is being read or handled, or
\* the log says that its watching is over.
THEOREM WatchedOrLogged == WinSpec => []NoSilentDeath
<1>1. WinInv => NoSilentDeath
  BY DEF WinInv
<1>. QED BY <1>1, WinTyped, PTL

-----------------------------------------------------------------------------
\* The refinement of Feed, in which shut stands for closer.at = "done".
LEMMA WinInitKeeps == WinInit => Promise!Init
<1> SUFFICES ASSUME WinInit PROVE Promise!Init
    OBVIOUS
<1>1. closer.at = "no"
  BY DEF WinInit
<1>2. (closer.at = "done") = FALSE
  BY <1>1
<1>. QED BY <1>2 DEF WinInit, Promise!Init

\* A step that tells nothing, or tells one file while the goroutine still runs.
LEMMA WinNextKeeps == WinInv /\ [WinNext]_backendVars => [Promise!Next]_(Promise!vars)
<1> SUFFICES ASSUME WinInv, [WinNext]_backendVars
             PROVE  [Promise!Next]_(Promise!vars)
    OBVIOUS
<1> USE DEF Promise!Next, Promise!vars
<1>0. version \in [Files -> Nat] /\ told \in [Files -> Nat] /\ lost \in [Files -> Nat]
  BY DEF WinInv, WinTypeOK
<1>1. CASE UNCHANGED backendVars
  BY <1>1 DEF backendVars
<1>2. ASSUME UNCHANGED <<version, told, closer>>, UNCHANGED lost \/ \E S \in SUBSET Files : Lose(S)
      PROVE  [Promise!Next]_(Promise!vars)
  <2>1. CASE UNCHANGED lost
    BY <1>2, <2>1
  <2>2. ASSUME NEW S \in SUBSET Files, Lose(S) PROVE Promise!Lose
    BY <1>2, <2>2 DEF Lose, Promise!Lose
  <2>. QED BY <1>2, <2>1, <2>2
<1>3. \A r : Under(r) \in SUBSET Files
  BY DEF Under
<1>4. ASSUME NEW f \in Files, Touch(f) PROVE Promise!Change
  <2>1. /\ version' = [version EXCEPT ![f] = @ + 1] /\ UNCHANGED <<told, closer>>
        /\ lost' = [lost EXCEPT ![f] = version'[f]] \/ UNCHANGED lost
    BY <1>4 DEF Touch
  <2>2. ASSUME lost' = [lost EXCEPT ![f] = version'[f]]
        PROVE  lost' = [g \in Files |-> IF g \in {f} THEN version'[g] ELSE lost[g]]
    BY <1>0, <2>2
  <2>3. ASSUME UNCHANGED lost
        PROVE  lost' = [g \in Files |-> IF g \in {} THEN version'[g] ELSE lost[g]]
    BY <1>0, <2>3
  <2>4. \E S \in SUBSET Files : lost' = [g \in Files |-> IF g \in S THEN version'[g] ELSE lost[g]]
    <3>1. {f} \in SUBSET Files /\ {} \in SUBSET Files
      OBVIOUS
    <3>2. CASE lost' = [lost EXCEPT ![f] = version'[f]]
      BY <2>2, <3>1, <3>2, Zenon
    <3>3. CASE UNCHANGED lost
      BY <2>3, <3>1, <3>3, Zenon
    <3>. QED BY <2>1, <3>2, <3>3
  <2>. QED BY <2>1, <2>4 DEF Promise!Change
<1>5. ASSUME NEW r \in Roots, AddRoot(r) \/ Complete(r) \/ Abort(r)
      PROVE  [Promise!Next]_(Promise!vars)
  <2>1. UNCHANGED <<version, told, closer>> /\ (UNCHANGED lost \/ Lose(Under(r)))
    BY <1>5 DEF AddRoot, Complete, Abort
  <2>. QED BY <1>2, <1>3, <2>1
<1>6. ASSUME NEW r \in Roots, CloseRoot(r) PROVE UNCHANGED Promise!vars
  <2>1. closer.at = "roots" /\ closer'.at = "roots" /\ UNCHANGED <<version, told, lost>>
    BY <1>6 DEF CloseRoot, WinInv, WinTypeOK
  <2>. QED BY <2>1
<1>7. CASE TakeCompletion \/ Inspect \/ Recover \/ Decode \/ Rearm
  <2>1. UNCHANGED <<version, told, closer>> /\ (UNCHANGED lost \/ Lose(Under(run.root)))
    BY <1>7 DEF TakeCompletion, Inspect, Recover, Decode, Rearm, Issue, IssueFails
  <2>. QED BY <1>2, <1>3, <2>1
<1>11. CASE TakeFails
  <2>1. UNCHANGED <<version, told, closer>> /\ Lose(Files) /\ Files \in SUBSET Files
    BY <1>11 DEF TakeFails
  <2>. QED BY <1>2, <2>1
<1>8. CASE Dispatch
  <2>1. /\ UNCHANGED <<version, lost, closer>> /\ closer.at # "done"
        /\ UNCHANGED told \/ \E p \in run.paths : Told(p)
    BY <1>8 DEF Dispatch, WinInv, Closing
  <2>2. run.paths \subseteq Files
    BY DEF WinInv, WinTypeOK
  <2>3. CASE UNCHANGED told
    BY <2>1, <2>3
  <2>4. ASSUME NEW p \in run.paths, Told(p) PROVE Promise!Tell
    BY <2>1, <2>2, <2>4 DEF Told, Promise!Tell
  <2>. QED BY <2>1, <2>3, <2>4
<1>9. CASE CloseBegins \/ Post
  <2>1. closer.at # "done" /\ closer'.at # "done" /\ UNCHANGED <<version, told, lost>>
    BY <1>9 DEF CloseBegins, Post, WinInv, WinTypeOK
  <2>. QED BY <2>1
<1>10. CASE CloseEnds
  <2>1. closer'.at = "done" /\ UNCHANGED <<version, told, lost>>
    BY <1>10 DEF CloseEnds, WinInv, WinTypeOK
  <2>. QED BY <2>1 DEF Promise!Shut
<1>. QED BY <1>1, <1>4, <1>5, <1>6, <1>7, <1>8, <1>9, <1>10, <1>11 DEF WinNext

\* The Windows backend implements Feed: every report is of what the file holds
\* then, and after Close has returned there is none.
THEOREM WinKeepsPromise == WinSpec => KeepsPromise
BY WinInitKeeps, WinNextKeeps, WinTyped, PTL DEF WinSpec, KeepsPromise, Promise!Spec

=============================================================================
