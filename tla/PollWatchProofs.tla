--------------------------- MODULE PollWatchProofs ---------------------------
(***************************************************************************)
(* PollWatch's safety invariants and its refinement of Feed, for every set *)
(* of files and roots and every bound.  PollInv is inductive: a size the   *)
(* tail recorded is covered by a report, by a declared loss, or by the     *)
(* list the running tick still has to announce; wslStarted says whether a  *)
(* WSL goroutine runs, of which there is one unless AddWSLRoots came       *)
(* before Start; and a watcher that has stopped is past its last tick.     *)
(***************************************************************************)
EXTENDS PollWatch, TLAPS

Sizes == Nat \cup {Never}
Entries == [idle : BOOLEAN, size : Sizes]
Tails == UNION {[D -> Entries] : D \in SUBSET Files}
Mtimes == UNION {[D -> Nat] : D \in SUBSET Files}

BookStates ==
    [tail : Tails, wslRoots : SUBSET WslRoots, wslMtime : Mtimes, wslStarted : BOOLEAN]

RunStates ==
    [tail : {"off", "sleep", "look"},
     cands : SUBSET (Files \X Sizes),
     changed : SUBSET Files,
     starved : SUBSET Files,
     pollers : 0..2,
     walk : SUBSET Files]

Closers == [at : {"no", "closing", "done"}, started : BOOLEAN, early : BOOLEAN]

PollTypeOK ==
    /\ mechanism = "polls"
    /\ version \in [Files -> Nat] /\ told \in [Files -> Nat] /\ lost \in [Files -> Nat]
    /\ book \in BookStates
    /\ run \in RunStates
    /\ closer \in Closers

\* No size is from the future, and every recorded one has been announced or
\* is in the list this tick announces.
Announced ==
    /\ \A f \in Files : told[f] <= version[f] /\ lost[f] <= version[f]
    /\ \A f \in DOMAIN book.tail :
          book.tail[f].size # Never =>
              /\ book.tail[f].size <= version[f]
              /\ \/ told[f] >= book.tail[f].size
                 \/ lost[f] >= book.tail[f].size
                 \/ run.tail = "look" /\ f \in run.changed

Pollers ==
    /\ ~book.wslStarted => run.pollers = 0
    /\ book.wslStarted => book.wslRoots # {}
    /\ closer.started /\ book.wslRoots # {} => book.wslStarted
    /\ ~closer.started => run.pollers <= 1
    /\ ~closer.early =>
          /\ ~closer.started => ~book.wslStarted
          /\ closer.started /\ book.wslRoots # {} => run.pollers = 1

Started ==
    /\ Pollers
    /\ ~closer.started => closer.at = "no" /\ run.tail = "off"
    /\ closer.at = "done" => run.tail = "sleep" /\ run.walk = {}

PollInv == PollTypeOK /\ Announced /\ Started

-----------------------------------------------------------------------------
\* The tail's map: Track adds entries that have not been looked at and keeps
\* the sizes of the others.
LEMMA TrackedKeeps ==
    ASSUME NEW tail \in Tails, NEW S
    PROVE  /\ Tracked(tail, S) \in Tails
           /\ \A f \in DOMAIN Tracked(tail, S) :
                 \/ Tracked(tail, S)[f].size = Never
                 \/ f \in DOMAIN tail /\ Tracked(tail, S)[f].size = tail[f].size
<1>0. PICK D \in SUBSET Files : tail \in [D -> Entries]
  BY DEF Tails
<1> DEFINE E == D \cup (S \cap Native \cap Transcripts)
           Entry(f) == IF f \notin D THEN [idle |-> FALSE, size |-> Never]
                       ELSE IF f \in S THEN [tail[f] EXCEPT !.idle = FALSE]
                       ELSE tail[f]
<1>1. E \in SUBSET Files
  BY BackendAssumption
<1>2. DOMAIN tail = D
  BY <1>0
<1>3. Tracked(tail, S) = [f \in E |-> Entry(f)]
  BY <1>2 DEF Tracked
<1>4. \A f \in E : /\ Entry(f) \in Entries
                   /\ Entry(f).size = Never \/ (f \in D /\ Entry(f).size = tail[f].size)
  BY <1>0 DEF Entries, Sizes
<1> HIDE DEF E, Entry
<1>5. /\ Tracked(tail, S) \in [E -> Entries] /\ DOMAIN Tracked(tail, S) = E
      /\ \A f \in E : Tracked(tail, S)[f] = Entry(f)
  BY <1>3, <1>4
<1>. QED BY <1>1, <1>2, <1>4, <1>5 DEF Tails

\* onChange: the file's version is told, or declared lost; nothing else moves.
LEMMA OnChangeSurfaces ==
    ASSUME PollTypeOK, Announced, NEW f \in Files, OnChange(f), UNCHANGED version
    PROVE  /\ told' \in [Files -> Nat] /\ lost' \in [Files -> Nat]
           /\ \A g \in Files : /\ told[g] <= told'[g] /\ told'[g] <= version[g]
                               /\ lost[g] <= lost'[g] /\ lost'[g] <= version[g]
           /\ told'[f] = version[f] \/ lost'[f] = version[f]
<1>0. version \in [Files -> Nat] /\ told \in [Files -> Nat] /\ lost \in [Files -> Nat]
  BY DEF PollTypeOK
<1>1. CASE Told(f) /\ UNCHANGED lost
  <2>1. told' = [told EXCEPT ![f] = version[f]] /\ lost' = lost
    BY <1>1 DEF Told
  <2>. QED BY <1>0, <2>1 DEF Announced
<1>2. CASE Lose({f}) /\ UNCHANGED told
  <2>1. lost' = [g \in Files |-> IF g \in {f} THEN version[g] ELSE lost[g]] /\ told' = told
    BY <1>2 DEF Lose
  <2>. QED BY <1>0, <2>1 DEF Announced
<1>. QED BY <1>1, <1>2 DEF OnChange

\* A step after which every recorded size was recorded before it.
LEMMA SizesKept ==
    ASSUME PollInv,
           \A f \in DOMAIN book'.tail :
               \/ book'.tail[f].size = Never
               \/ f \in DOMAIN book.tail /\ book'.tail[f].size = book.tail[f].size,
           UNCHANGED <<version, told, lost>>,
           \A f \in Files : run.tail = "look" /\ f \in run.changed
                               => run'.tail = "look" /\ f \in run'.changed
    PROVE  Announced'
<1>0. DOMAIN book.tail \subseteq Files
  BY DEF PollInv, PollTypeOK, BookStates, Tails
<1>1. ASSUME NEW f \in DOMAIN book'.tail, book'.tail[f].size # Never
      PROVE  /\ book'.tail[f].size <= version[f]
             /\ \/ told[f] >= book'.tail[f].size
                \/ lost[f] >= book'.tail[f].size
                \/ run'.tail = "look" /\ f \in run'.changed
  <2>1. f \in DOMAIN book.tail /\ book'.tail[f].size = book.tail[f].size
    BY <1>1
  <2>. QED BY <1>0, <1>1, <2>1 DEF PollInv, Announced
<1>. QED BY <1>1 DEF PollInv, Announced

LEMMA PollInitInv == PollInit => PollInv
<1> SUFFICES ASSUME PollInit PROVE PollInv
    OBVIOUS
<1>1. book.tail \in Tails /\ DOMAIN book.tail = {} /\ book.wslMtime \in Mtimes
  <2>1. book.tail = [f \in {} |-> 0] /\ book.wslMtime = [f \in {} |-> 0]
    BY DEF PollInit
  <2>2. [f \in {} |-> 0] \in [{} -> Entries] /\ [f \in {} |-> 0] \in [{} -> Nat]
    OBVIOUS
  <2>. QED BY <2>1, <2>2 DEF Tails, Mtimes
<1>2. PollTypeOK
  <2>1. book \in BookStates
    BY <1>1 DEF PollInit, BookStates
  <2>2. run \in RunStates
    BY DEF PollInit, RunStates
  <2>. QED BY <2>1, <2>2 DEF PollInit, PollTypeOK, Closers
<1>3. Announced
  BY <1>1 DEF PollInit, Announced
<1>. QED BY <1>2, <1>3 DEF PollInit, PollInv, Started, Pollers

-----------------------------------------------------------------------------
LEMMA QuietAppendInv ==
    ASSUME PollInv, NEW f \in Files, QuietAppend(f)
    PROVE  PollInv'
<1>0. /\ version \in [Files -> Nat] /\ told \in [Files -> Nat] /\ lost \in [Files -> Nat]
      /\ DOMAIN book.tail \subseteq Files /\ \A g \in DOMAIN book.tail : book.tail[g].size \in Sizes
  BY DEF PollInv, PollTypeOK, BookStates, Tails, Entries
<1>1. /\ version' = [version EXCEPT ![f] = @ + 1]
      /\ UNCHANGED <<mechanism, told, lost, kern, book, run, closer>>
  BY DEF QuietAppend, Polls
<1>2. version' \in [Files -> Nat] /\ \A g \in Files : version[g] <= version'[g]
  BY <1>0, <1>1
<1>3. PollTypeOK' /\ Started'
  BY <1>1, <1>2 DEF PollInv, PollTypeOK, Started, Pollers
<1>4. Announced'
  <2>1. \A g \in Files : told'[g] <= version'[g] /\ lost'[g] <= version'[g]
    BY <1>0, <1>1, <1>2 DEF PollInv, Announced
  <2>2. ASSUME NEW g \in DOMAIN book'.tail, book'.tail[g].size # Never
        PROVE  /\ book'.tail[g].size <= version'[g]
               /\ \/ told'[g] >= book'.tail[g].size
                  \/ lost'[g] >= book'.tail[g].size
                  \/ run'.tail = "look" /\ g \in run'.changed
    <3>1. book' = book /\ g \in Files /\ g \in DOMAIN book.tail /\ book.tail[g].size \in Nat
      BY <1>0, <1>1, <2>2 DEF Sizes
    <3>. QED BY <1>0, <1>1, <1>2, <2>2, <3>1 DEF PollInv, Announced
  <2>. QED BY <2>1, <2>2 DEF Announced
<1>. QED BY <1>3, <1>4 DEF PollInv

LEMMA TrackInv ==
    ASSUME PollInv, NEW f \in Files, Track(f)
    PROVE  PollInv'
<1> DEFINE tail == Tracked(book.tail, {f})
<1>1. /\ book' = [book EXCEPT !.tail = tail]
      /\ UNCHANGED <<mechanism, version, told, lost, kern, run, closer>>
  BY DEF Track, Polls
<1>2. book \in BookStates /\ book.tail \in Tails
  BY DEF PollInv, PollTypeOK, BookStates
<1>3. /\ tail \in Tails
      /\ \A g \in DOMAIN tail : \/ tail[g].size = Never
                                \/ g \in DOMAIN book.tail /\ tail[g].size = book.tail[g].size
  BY <1>2, TrackedKeeps
<1> HIDE DEF tail
<1>4. book' \in BookStates /\ book'.tail = tail /\ book'.wslStarted = book.wslStarted /\ book'.wslRoots = book.wslRoots
  BY <1>1, <1>2, <1>3 DEF BookStates
<1>5. PollTypeOK' /\ Started'
  BY <1>1, <1>4 DEF PollInv, PollTypeOK, Started, Pollers
<1>6. Announced'
  BY <1>1, <1>3, <1>4, SizesKept
<1>. QED BY <1>5, <1>6 DEF PollInv

LEMMA HourPassesInv ==
    ASSUME PollInv, HourPasses
    PROVE  PollInv'
<1> DEFINE D == DOMAIN book.tail
           tail == [f \in D |-> [book.tail[f] EXCEPT !.idle = (run.tail = "off" \/ f \notin Seeded)]]
<1>1. /\ book' = [book EXCEPT !.tail = tail]
      /\ UNCHANGED <<mechanism, version, told, lost, run, closer>>
  BY DEF HourPasses, Polls
<1>2. book \in BookStates /\ D \in SUBSET Files /\ book.tail \in [D -> Entries]
  BY DEF PollInv, PollTypeOK, BookStates, Tails
<1>3. tail \in [D -> Entries] /\ \A f \in D : tail[f].size = book.tail[f].size
  BY <1>2 DEF Entries
<1>4. DOMAIN tail = D /\ tail \in Tails
  BY <1>2, <1>3 DEF Tails
<1> HIDE DEF tail
<1>5. book' \in BookStates /\ book'.tail = tail /\ book'.wslStarted = book.wslStarted /\ book'.wslRoots = book.wslRoots
  BY <1>1, <1>2, <1>4 DEF BookStates
<1>6. PollTypeOK' /\ Started'
  BY <1>1, <1>5 DEF PollInv, PollTypeOK, Started, Pollers
<1>7. Announced'
  BY <1>1, <1>3, <1>4, <1>5, SizesKept
<1>. QED BY <1>6, <1>7 DEF PollInv

LEMMA StartInv ==
    ASSUME PollInv, Start
    PROVE  PollInv'
<1> DEFINE tail == Tracked(book.tail, Seeded)
           n == IF book.wslRoots # {} THEN run.pollers + 1 ELSE run.pollers
           s == book.wslStarted \/ book.wslRoots # {}
<1>1. /\ book' = [book EXCEPT !.tail = tail, !.wslStarted = s]
      /\ run' = [run EXCEPT !.tail = "sleep", !.pollers = n]
      /\ closer' = [closer EXCEPT !.started = TRUE] /\ ~closer.started
      /\ UNCHANGED <<mechanism, version, told, lost, kern>>
  BY DEF Start, Polls
<1>2. book \in BookStates /\ run \in RunStates /\ book.tail \in Tails /\ n \in 0..2 /\ s \in BOOLEAN
  BY <1>1 DEF PollInv, PollTypeOK, BookStates, RunStates, Started, Pollers
<1>3. /\ tail \in Tails
      /\ \A g \in DOMAIN tail : \/ tail[g].size = Never
                                \/ g \in DOMAIN book.tail /\ tail[g].size = book.tail[g].size
  BY <1>2, TrackedKeeps
<1>4. /\ s = (book.wslRoots # {})
      /\ ~s => n = 0
      /\ ~closer.early /\ s => n = 1
  BY <1>1, <1>2 DEF PollInv, Started, Pollers, RunStates
<1> HIDE DEF tail, n, s
<1>5. closer'.started = TRUE /\ closer'.at = closer.at /\ closer'.early = closer.early
      /\ closer' \in Closers
  BY <1>1 DEF PollInv, PollTypeOK, Closers
<1>6. book' \in BookStates /\ book'.tail = tail /\ book'.wslStarted = s /\ book'.wslRoots = book.wslRoots
  BY <1>1, <1>2, <1>3, <1>5 DEF BookStates
<1>7. run' \in RunStates /\ run'.tail = "sleep" /\ run'.pollers = n /\ run'.walk = run.walk
  BY <1>1, <1>2 DEF RunStates
<1>8. run.tail = "off" /\ closer.at = "no"
  BY <1>1 DEF PollInv, Started, Pollers
<1>9. PollTypeOK'
  BY <1>1, <1>5, <1>6, <1>7 DEF PollInv, PollTypeOK
<1>10. Started'
  BY <1>4, <1>5, <1>6, <1>7, <1>8 DEF Started, Pollers
<1>11. Announced'
  BY <1>1, <1>3, <1>6, <1>8, SizesKept
<1>. QED BY <1>9, <1>10, <1>11 DEF PollInv

LEMMA AddWSLRootsInv ==
    ASSUME PollInv, NEW S \in SUBSET WslRoots, AddWSLRoots(S)
    PROVE  PollInv'
<1> DEFINE n == IF book.wslStarted THEN run.pollers ELSE run.pollers + 1
           roots == book.wslRoots \cup S
           early == closer.early \/ ~closer.started
<1>1. /\ book' = [book EXCEPT !.wslRoots = roots, !.wslStarted = TRUE]
      /\ closer' = [closer EXCEPT !.early = early]
      /\ run' = [run EXCEPT !.pollers = n] /\ closer.at = "no"
      /\ UNCHANGED <<mechanism, version, told, lost, kern>>
  BY DEF AddWSLRoots, HandedOver, Polls
<1>2. book \in BookStates /\ run \in RunStates /\ closer \in Closers
      /\ roots \in SUBSET WslRoots /\ roots # {} /\ early \in BOOLEAN
  BY DEF PollInv, PollTypeOK, BookStates, AddWSLRoots, HandedOver
<1>3. /\ n \in 0..2
      /\ ~closer.started => n <= 1 /\ early
      /\ closer.started /\ ~closer.early => n = 1
      /\ ~early => ~closer.early /\ closer.started
  BY <1>2 DEF PollInv, Started, Pollers, RunStates, BookStates, Closers
<1> HIDE DEF n, roots, early
<1>4. /\ book' \in BookStates /\ book'.tail = book.tail
      /\ book'.wslStarted = TRUE /\ book'.wslRoots = roots
  BY <1>1, <1>2 DEF BookStates
<1>5. /\ run' \in RunStates /\ run'.tail = run.tail /\ run'.changed = run.changed
      /\ run'.walk = run.walk /\ run'.pollers = n
  BY <1>1, <1>2, <1>3 DEF RunStates
<1>6. /\ closer' \in Closers /\ closer'.at = closer.at
      /\ closer'.started = closer.started /\ closer'.early = early
  BY <1>1, <1>2 DEF Closers
<1>7. PollTypeOK'
  BY <1>1, <1>4, <1>5, <1>6 DEF PollInv, PollTypeOK
<1>8. Started'
  BY <1>1, <1>2, <1>3, <1>4, <1>5, <1>6 DEF PollInv, Started, Pollers
<1>9. Announced'
  BY <1>1, <1>4, <1>5, SizesKept
<1>. QED BY <1>7, <1>8, <1>9 DEF PollInv

\* A tick begins with nothing left to announce: what the last one recorded has
\* been reported before the goroutine went to sleep.
LEMMA TailTickInv ==
    ASSUME PollInv, TailTick
    PROVE  PollInv'
<1>0. PICK tail \in {book.tail, Tracked(book.tail, Seeded)} :
         \E picked \in SUBSET DOMAIN tail :
            /\ book' = [book EXCEPT !.tail = [f \in {g \in DOMAIN tail : ~tail[g].idle} |-> tail[f]]]
            /\ run' = [run EXCEPT !.tail = "look", !.cands = {<<f, tail[f].size>> : f \in picked},
                                  !.changed = {}, !.starved = {g \in DOMAIN tail : ~tail[g].idle} \ picked]
  BY DEF TailTick
<1>1. PICK picked \in SUBSET DOMAIN tail :
         /\ book' = [book EXCEPT !.tail = [f \in {g \in DOMAIN tail : ~tail[g].idle} |-> tail[f]]]
         /\ run' = [run EXCEPT !.tail = "look", !.cands = {<<f, tail[f].size>> : f \in picked},
                               !.changed = {}, !.starved = {g \in DOMAIN tail : ~tail[g].idle} \ picked]
  BY <1>0
<1>2. run.tail = "sleep" /\ closer.at = "no" /\ UNCHANGED <<mechanism, version, told, lost, closer>>
  BY DEF TailTick, Polls
<1>3. book \in BookStates /\ run \in RunStates /\ book.tail \in Tails
  BY DEF PollInv, PollTypeOK, BookStates
<1>4. /\ tail \in Tails
      /\ \A g \in DOMAIN tail : \/ tail[g].size = Never
                                \/ g \in DOMAIN book.tail /\ tail[g].size = book.tail[g].size
  BY <1>3, TrackedKeeps
<1> DEFINE live == {g \in DOMAIN tail : ~tail[g].idle}
           kept == [f \in live |-> tail[f]]
           cands == {<<f, tail[f].size>> : f \in picked}
<1>5. PICK D \in SUBSET Files : tail \in [D -> Entries]
  BY <1>4 DEF Tails
<1>6. /\ kept \in [live -> Entries] /\ live \in SUBSET Files /\ DOMAIN kept = live
      /\ \A f \in live : kept[f] = tail[f] /\ f \in DOMAIN tail
  BY <1>5
<1>7. kept \in Tails
  BY <1>6 DEF Tails
<1>8. cands \in SUBSET (Files \X Sizes)
  BY <1>5 DEF Entries
<1> DEFINE out == live \ picked
<1>16. out \in SUBSET Files
  BY <1>6
<1>17. run' = [run EXCEPT !.tail = "look", !.cands = cands, !.changed = {}, !.starved = out]
  BY <1>1
<1> HIDE DEF live, kept, cands, out
<1>9. book' \in BookStates /\ book'.tail = kept /\ book'.wslStarted = book.wslStarted /\ book'.wslRoots = book.wslRoots
  BY <1>1, <1>3, <1>7 DEF BookStates, kept, live
<1>10. /\ run' \in RunStates /\ run'.tail = "look"
       /\ run'.pollers = run.pollers /\ run'.walk = run.walk
  BY <1>3, <1>8, <1>16, <1>17 DEF RunStates
<1>11. PollTypeOK'
  BY <1>2, <1>9, <1>10 DEF PollInv, PollTypeOK
<1>12. Started'
  BY <1>2, <1>9, <1>10 DEF PollInv, Started, Pollers
<1>13. Announced'
  BY <1>2, <1>4, <1>6, <1>9, SizesKept
<1>. QED BY <1>11, <1>12, <1>13 DEF PollInv

\* A size is recorded together with the note to announce it.
LEMMA TailLookInv ==
    ASSUME PollInv, NEW f \in Files, TailLook(f)
    PROVE  PollInv'
<1>1. /\ run.tail = "look"
      /\ UNCHANGED <<mechanism, version, told, lost, closer>>
  BY DEF TailLook, Polls
<1>2. PICK left \in SUBSET run.cands :
         \/ run' = [run EXCEPT !.cands = left] /\ UNCHANGED book
         \/ /\ run' = [run EXCEPT !.cands = left, !.changed = @ \cup {f}]
            /\ book' = IF f \notin DOMAIN book.tail THEN book
                       ELSE [book EXCEPT !.tail[f] = [idle |-> FALSE, size |-> version[f]]]
  BY DEF TailLook
<1>3. /\ book \in BookStates /\ run \in RunStates /\ version \in [Files -> Nat]
      /\ told \in [Files -> Nat] /\ lost \in [Files -> Nat] /\ left \in SUBSET (Files \X Sizes)
  BY DEF PollInv, PollTypeOK, RunStates
<1>4. PICK D \in SUBSET Files : book.tail \in [D -> Entries] /\ D = DOMAIN book.tail
  BY <1>3 DEF BookStates, Tails
<1>5. /\ run' \in RunStates /\ run'.tail = run.tail /\ run'.pollers = run.pollers
      /\ run'.walk = run.walk
      /\ run'.changed \in {run.changed, run.changed \cup {f}}
      /\ \/ book' = book
         \/ /\ run'.changed = run.changed \cup {f} /\ f \in D
            /\ book' = [book EXCEPT !.tail[f] = [idle |-> FALSE, size |-> version[f]]]
  <2>1. CASE run' = [run EXCEPT !.cands = left] /\ UNCHANGED book
    BY <1>3, <2>1 DEF RunStates
  <2>2. CASE run' = [run EXCEPT !.cands = left, !.changed = @ \cup {f}]
    <3> DEFINE more == run.changed \cup {f}
    <3>1. more \in SUBSET Files
      BY <1>3 DEF RunStates
    <3>2. run' = [run EXCEPT !.cands = left, !.changed = more]
      BY <1>3, <2>2 DEF RunStates
    <3>3. more = run.changed \cup {f}
      OBVIOUS
    <3> HIDE DEF more
    <3>4. /\ run' \in RunStates /\ run'.tail = run.tail /\ run'.pollers = run.pollers
          /\ run'.walk = run.walk /\ run'.changed = more
      BY <1>3, <3>1, <3>2 DEF RunStates
    <3>5. \/ book' = book
          \/ f \in D /\ book' = [book EXCEPT !.tail[f] = [idle |-> FALSE, size |-> version[f]]]
      BY <1>2, <1>4
    <3>. QED BY <3>3, <3>4, <3>5
  <2>. QED BY <1>2, <2>1, <2>2
<1>6. CASE book' = book
  <2>1. PollTypeOK' /\ Started'
    BY <1>1, <1>5, <1>6 DEF PollInv, PollTypeOK, Started, Pollers
  <2>2. Announced'
    BY <1>1, <1>5, <1>6, SizesKept
  <2>. QED BY <2>1, <2>2 DEF PollInv
<1>7. CASE f \in D /\ book' = [book EXCEPT !.tail[f] = [idle |-> FALSE, size |-> version[f]]]
           /\ run'.changed = run.changed \cup {f}
  <2> DEFINE seen == [idle |-> FALSE, size |-> version[f]]
             tail == [book.tail EXCEPT ![f] = seen]
  <2>1. seen \in Entries /\ seen.size = version[f]
    BY <1>3 DEF Entries, Sizes
  <2> HIDE DEF seen
  <2>2. /\ tail \in [D -> Entries] /\ tail[f] = seen
        /\ \A g \in D : g # f => tail[g] = book.tail[g]
    BY <1>4, <1>7, <2>1
  <2>3. tail \in Tails /\ DOMAIN tail = D
    BY <2>2 DEF Tails
  <2>4. book' = [book EXCEPT !.tail = tail]
    BY <1>3, <1>7 DEF seen, BookStates
  <2> HIDE DEF tail
  <2>5. book' \in BookStates /\ book'.tail = tail /\ book'.wslStarted = book.wslStarted /\ book'.wslRoots = book.wslRoots
    BY <1>3, <2>3, <2>4 DEF BookStates
  <2>6. PollTypeOK' /\ Started'
    BY <1>1, <1>5, <2>5 DEF PollInv, PollTypeOK, Started, Pollers
  <2>7. ASSUME NEW g \in D, tail[g].size # Never
        PROVE  /\ tail[g].size <= version[g]
               /\ \/ told[g] >= tail[g].size
                  \/ lost[g] >= tail[g].size
                  \/ run'.tail = "look" /\ g \in run'.changed
    <3>1. CASE g = f
      BY <1>1, <1>3, <1>5, <1>7, <2>1, <2>2, <3>1
    <3>2. CASE g # f
      BY <1>1, <1>4, <1>5, <1>7, <2>2, <2>7, <3>2 DEF PollInv, Announced
    <3>. QED BY <3>1, <3>2
  <2>8. Announced'
    BY <1>1, <2>3, <2>5, <2>7 DEF PollInv, Announced
  <2>. QED BY <2>6, <2>8 DEF PollInv
<1>. QED BY <1>5, <1>6, <1>7

\* A report, or the loss it declares, covers what was recorded of the file.
LEMMA Surfaces ==
    ASSUME PollInv, NEW f \in Files, OnChange(f), UNCHANGED version,
           book'.tail = book.tail,
           \A g \in Files : run.tail = "look" /\ g \in run.changed
                               => g = f \/ (run'.tail = "look" /\ g \in run'.changed)
    PROVE  Announced'
<1>0. /\ version \in [Files -> Nat] /\ told \in [Files -> Nat] /\ lost \in [Files -> Nat]
      /\ DOMAIN book.tail \subseteq Files /\ \A g \in DOMAIN book.tail : book.tail[g].size \in Sizes
  BY DEF PollInv, PollTypeOK, BookStates, Tails, Entries
<1>1. /\ told' \in [Files -> Nat] /\ lost' \in [Files -> Nat]
      /\ \A g \in Files : /\ told[g] <= told'[g] /\ told'[g] <= version[g]
                          /\ lost[g] <= lost'[g] /\ lost'[g] <= version[g]
      /\ told'[f] = version[f] \/ lost'[f] = version[f]
  BY OnChangeSurfaces DEF PollInv
<1>2. ASSUME NEW g \in DOMAIN book.tail, book.tail[g].size # Never
      PROVE  /\ book.tail[g].size <= version[g]
             /\ \/ told'[g] >= book.tail[g].size
                \/ lost'[g] >= book.tail[g].size
                \/ run'.tail = "look" /\ g \in run'.changed
  <2>1. g \in Files /\ book.tail[g].size \in Nat
    BY <1>0, <1>2 DEF Sizes
  <2>2. /\ book.tail[g].size <= version[g]
        /\ \/ told[g] >= book.tail[g].size
           \/ lost[g] >= book.tail[g].size
           \/ run.tail = "look" /\ g \in run.changed
    BY <1>2 DEF PollInv, Announced
  <2>3. CASE g = f
    BY <1>0, <1>1, <2>1, <2>2, <2>3
  <2>4. CASE g # f
    BY <1>0, <1>1, <2>1, <2>2, <2>4
  <2>. QED BY <2>3, <2>4
<1>. QED BY <1>1, <1>2 DEF Announced

LEMMA TailFireInv ==
    ASSUME PollInv, TailFire
    PROVE  PollInv'
<1>1. run.tail = "look" /\ UNCHANGED <<mechanism, version, book, closer>>
  BY DEF TailFire, Polls
<1>2. run \in RunStates
  BY DEF PollInv, PollTypeOK
<1>3. ASSUME NEW f \in run.changed, OnChange(f), run' = [run EXCEPT !.changed = @ \ {f}]
      PROVE  PollInv'
  <2>1. f \in Files
    BY <1>2 DEF RunStates
  <2>2. told' \in [Files -> Nat] /\ lost' \in [Files -> Nat]
    BY <1>1, <1>3, <2>1, OnChangeSurfaces DEF PollInv
  <2>3. /\ run' \in RunStates /\ run'.tail = run.tail /\ run'.pollers = run.pollers
        /\ run'.walk = run.walk /\ run'.changed = run.changed \ {f}
    BY <1>2, <1>3 DEF RunStates
  <2>4. PollTypeOK' /\ Started'
    BY <1>1, <2>2, <2>3 DEF PollInv, PollTypeOK, Started, Pollers
  <2>5. Announced'
    BY <1>1, <1>3, <2>1, <2>3, Surfaces
  <2>. QED BY <2>4, <2>5 DEF PollInv
<1>4. CASE run.changed = {} /\ run' = [run EXCEPT !.tail = "sleep"] /\ UNCHANGED <<told, lost, kern>>
  <2>1. /\ run' \in RunStates /\ run'.tail = "sleep" /\ run'.pollers = run.pollers
        /\ run'.walk = run.walk
    BY <1>2, <1>4 DEF RunStates
  <2>2. PollTypeOK' /\ Started'
    BY <1>1, <1>4, <2>1 DEF PollInv, PollTypeOK, Started, Pollers
  <2>3. Announced'
    BY <1>1, <1>4, SizesKept
  <2>. QED BY <2>2, <2>3 DEF PollInv
<1>. QED BY <1>3, <1>4 DEF TailFire

LEMMA WalkWSLInv ==
    ASSUME PollInv, WalkWSL
    PROVE  PollInv'
<1> DEFINE found == {f \in Transcripts : Top[f] \in book.wslRoots /\ version[f] > 0}
<1>1. /\ run' = [run EXCEPT !.walk = found] /\ run.pollers = 1 /\ closer.at = "no"
      /\ UNCHANGED <<mechanism, version, told, lost, kern, book, closer>>
  BY DEF WalkWSL, Polls
<1>2. run \in RunStates /\ found \in SUBSET Files
  BY BackendAssumption DEF PollInv, PollTypeOK
<1> HIDE DEF found
<1>3. /\ run' \in RunStates /\ run'.tail = run.tail /\ run'.pollers = run.pollers
      /\ run'.changed = run.changed
  BY <1>1, <1>2 DEF RunStates
<1>4. PollTypeOK'
  BY <1>1, <1>3 DEF PollInv, PollTypeOK
<1>5. Started'
  BY <1>1, <1>2, <1>3 DEF PollInv, Started, Pollers, RunStates
<1>6. Announced'
  BY <1>1, <1>3, SizesKept
<1>. QED BY <1>4, <1>5, <1>6 DEF PollInv

LEMMA PollWSLFileInv ==
    ASSUME PollInv, NEW f \in Files, PollWSLFile(f)
    PROVE  PollInv'
<1> DEFINE M == [g \in DOMAIN book.wslMtime \cup {f} |-> IF g = f THEN version[f] ELSE book.wslMtime[g]]
<1>1. /\ f \in run.walk /\ run' = [run EXCEPT !.walk = @ \ {f}]
      /\ UNCHANGED <<mechanism, version, closer>>
      /\ \/ UNCHANGED <<book, told, lost, kern>>
         \/ book' = [book EXCEPT !.wslMtime = M] /\ OnChange(f)
  BY DEF PollWSLFile, Polls
<1>2. book \in BookStates /\ run \in RunStates /\ version[f] \in Nat
  BY DEF PollInv, PollTypeOK
<1>3. M \in Mtimes
  <2>1. PICK D \in SUBSET Files : book.wslMtime \in [D -> Nat] /\ DOMAIN book.wslMtime = D
    BY <1>2 DEF BookStates, Mtimes
  <2>2. M \in [D \cup {f} -> Nat] /\ D \cup {f} \in SUBSET Files
    BY <1>2, <2>1
  <2>. QED BY <2>2 DEF Mtimes
<1> HIDE DEF M
<1>4. /\ run' \in RunStates /\ run'.tail = run.tail /\ run'.pollers = run.pollers
      /\ run'.changed = run.changed /\ run'.walk = run.walk \ {f}
  BY <1>1, <1>2 DEF RunStates
<1>5. CASE UNCHANGED <<book, told, lost, kern>>
  <2>1. PollTypeOK' /\ Started'
    BY <1>1, <1>4, <1>5 DEF PollInv, PollTypeOK, Started, Pollers
  <2>2. Announced'
    BY <1>1, <1>4, <1>5, SizesKept
  <2>. QED BY <2>1, <2>2 DEF PollInv
<1>6. CASE book' = [book EXCEPT !.wslMtime = M] /\ OnChange(f)
  <2>1. book' \in BookStates /\ book'.tail = book.tail /\ book'.wslStarted = book.wslStarted /\ book'.wslRoots = book.wslRoots
    BY <1>2, <1>3, <1>6 DEF BookStates
  <2>2. told' \in [Files -> Nat] /\ lost' \in [Files -> Nat]
    BY <1>1, <1>6, OnChangeSurfaces DEF PollInv
  <2>3. PollTypeOK' /\ Started'
    BY <1>1, <1>4, <2>1, <2>2 DEF PollInv, PollTypeOK, Started, Pollers
  <2>4. Announced'
    BY <1>1, <1>4, <1>6, <2>1, Surfaces
  <2>. QED BY <2>3, <2>4 DEF PollInv
<1>. QED BY <1>1, <1>5, <1>6

LEMMA StopInv ==
    ASSUME PollInv, Stop \/ StopReturns
    PROVE  PollInv'
<1>1. /\ UNCHANGED <<mechanism, version, told, lost, kern, book, run>>
      /\ \/ closer.started /\ closer' = [closer EXCEPT !.at = "closing"]
         \/ /\ closer.at = "closing" /\ run.tail = "sleep" /\ run.walk = {}
            /\ closer' = [closer EXCEPT !.at = "done"]
  BY DEF Stop, StopReturns, Polls
<1>2. /\ closer' \in Closers
      /\ closer'.started = closer.started /\ closer'.early = closer.early
      /\ \/ closer.started /\ closer'.at = "closing"
         \/ closer.at = "closing" /\ closer'.at = "done" /\ run.tail = "sleep" /\ run.walk = {}
  BY <1>1 DEF PollInv, PollTypeOK, Closers
<1>3. PollTypeOK' /\ Started'
  BY <1>1, <1>2 DEF PollInv, PollTypeOK, Started, Pollers
<1>4. Announced'
  BY <1>1, SizesKept
<1>. QED BY <1>3, <1>4 DEF PollInv

-----------------------------------------------------------------------------
LEMMA PollNextInv == PollInv /\ [PollNext]_backendVars => PollInv'
<1> SUFFICES ASSUME PollInv, [PollNext]_backendVars PROVE PollInv'
    OBVIOUS
<1>1. CASE UNCHANGED backendVars
  BY <1>1 DEF backendVars, PollInv, PollTypeOK, Announced, Started, Pollers
<1>2. ASSUME NEW f \in Files, QuietAppend(f) \/ Track(f) \/ TailLook(f) \/ PollWSLFile(f)
      PROVE  PollInv'
  BY <1>2, QuietAppendInv, TrackInv, TailLookInv, PollWSLFileInv
<1>3. ASSUME NEW S \in SUBSET WslRoots, AddWSLRoots(S) PROVE PollInv'
  BY <1>3, AddWSLRootsInv
<1>4. CASE HourPasses \/ Start \/ TailTick \/ TailFire
  BY <1>4, HourPassesInv, StartInv, TailTickInv, TailFireInv
<1>5. CASE WalkWSL \/ Stop \/ StopReturns
  BY <1>5, WalkWSLInv, StopInv
<1>. QED BY <1>1, <1>2, <1>3, <1>4, <1>5 DEF PollNext

\* The inductive invariant holds in every state of every behaviour.
THEOREM PollTyped == PollSpec => []PollInv
BY PollInitInv, PollNextInv, PTL DEF PollSpec

\* In the order watch.go documents (AddWSLRoots "extends an already-Started
\* watcher"), however often it is called and whether or not New was given WSL
\* roots, one goroutine walks them: wslMtime, which has no lock, has one user.
\* The other order, in which there are two, is in the model and excepted.
THEOREM OnePollerEver == PollSpec => []OneWSLPoller
<1>1. PollInv => OneWSLPoller
  BY DEF PollInv, Started, Pollers, OneWSLPoller
<1>. QED BY <1>1, PollTyped, PTL

\* What pollTailOnce recorded of a file before it called onChange is told, or
\* declared lost, by the time the goroutine sleeps again.
THEOREM RecordedIsAnnounced == PollSpec => []SeenIsSurfaced
<1>1. PollInv => SeenIsSurfaced
  BY DEF PollInv, Announced, SeenIsSurfaced
<1>. QED BY <1>1, PollTyped, PTL

-----------------------------------------------------------------------------
\* The refinement of Feed, in which shut stands for closer.at = "done".
LEMMA PollInitKeeps == PollInit => Promise!Init
<1> SUFFICES ASSUME PollInit PROVE Promise!Init
    OBVIOUS
<1>1. closer.at = "no"
  BY DEF PollInit
<1>2. (closer.at = "done") = FALSE
  BY <1>1
<1>. QED BY <1>2 DEF PollInit, Promise!Init

LEMMA PollNextKeeps == PollInv /\ [PollNext]_backendVars => [Promise!Next]_(Promise!vars)
<1> SUFFICES ASSUME PollInv, [PollNext]_backendVars
             PROVE  [Promise!Next]_(Promise!vars)
    OBVIOUS
<1> USE DEF Promise!Next, Promise!vars
<1>0. version \in [Files -> Nat] /\ told \in [Files -> Nat] /\ lost \in [Files -> Nat]
  BY DEF PollInv, PollTypeOK
<1>1. ASSUME UNCHANGED <<version, told, lost>>, closer' = closer \/ closer.at = closer'.at
      PROVE  UNCHANGED Promise!vars
  BY <1>1
<1>2. CASE UNCHANGED backendVars
  BY <1>1, <1>2 DEF backendVars
<1>3. ASSUME NEW f \in Files, QuietAppend(f) PROVE Promise!Change
  <2>1. version' = [version EXCEPT ![f] = @ + 1] /\ UNCHANGED <<told, lost, closer>>
    BY <1>3 DEF QuietAppend
  <2>2. lost' = [g \in Files |-> IF g \in {} THEN version'[g] ELSE lost[g]]
    BY <1>0, <2>1
  <2>3. {} \in SUBSET Files
    OBVIOUS
  <2>4. \E S \in SUBSET Files : lost' = [g \in Files |-> IF g \in S THEN version'[g] ELSE lost[g]]
    BY <2>2, <2>3, Zenon
  <2>. QED BY <2>1, <2>4 DEF Promise!Change
<1>4. ASSUME NEW f \in Files, OnChange(f), UNCHANGED <<version, closer>>, closer.at # "done"
      PROVE  Promise!Tell \/ Promise!Lose
  <2>1. CASE Told(f) /\ UNCHANGED lost
    BY <1>4, <2>1 DEF Told, Promise!Tell
  <2>2. CASE Lose({f}) /\ UNCHANGED told
    <3>1. {f} \in SUBSET Files
      OBVIOUS
    <3>. QED BY <1>4, <2>2, <3>1 DEF Lose, Promise!Lose
  <2>. QED BY <1>4, <2>1, <2>2 DEF OnChange
<1>5. ASSUME NEW f \in Files, Track(f) \/ TailLook(f) PROVE UNCHANGED Promise!vars
  BY <1>1, <1>5 DEF Track, TailLook
<1>6. ASSUME NEW f \in Files, PollWSLFile(f) PROVE [Promise!Next]_(Promise!vars)
  <2>1. /\ UNCHANGED <<version, closer>> /\ f \in run.walk
        /\ UNCHANGED <<told, lost>> \/ OnChange(f)
    BY <1>6 DEF PollWSLFile
  <2>2. closer.at # "done"
    BY <2>1 DEF PollInv, Started, Pollers
  <2>. QED BY <1>1, <1>4, <2>1, <2>2
<1>7. ASSUME NEW S \in SUBSET WslRoots, AddWSLRoots(S) PROVE UNCHANGED Promise!vars
  <2>1. UNCHANGED <<version, told, lost>> /\ closer'.at = closer.at
    BY <1>7 DEF AddWSLRoots, HandedOver, PollInv, PollTypeOK, Closers
  <2>. QED BY <1>1, <2>1
<1>8. CASE HourPasses \/ Start \/ TailTick \/ WalkWSL
  <2>1. UNCHANGED <<version, told, lost>> /\ closer'.at = closer.at
    BY <1>8 DEF HourPasses, Start, TailTick, WalkWSL, PollInv, PollTypeOK, Closers
  <2>. QED BY <1>1, <2>1
<1>9. CASE TailFire
  <2>1. /\ UNCHANGED <<version, closer>> /\ run.tail = "look"
        /\ UNCHANGED <<told, lost>> \/ \E f \in run.changed : OnChange(f)
    BY <1>9 DEF TailFire
  <2>2. closer.at # "done" /\ run.changed \subseteq Files
    BY <2>1 DEF PollInv, Started, Pollers, PollTypeOK, RunStates
  <2>. QED BY <1>1, <1>4, <2>1, <2>2
<1>10. CASE Stop
  <2>1. closer.at = "no" /\ closer'.at = "closing" /\ UNCHANGED <<version, told, lost>>
    BY <1>10 DEF Stop, PollInv, PollTypeOK, Closers
  <2>. QED BY <2>1
<1>11. CASE StopReturns
  <2>1. closer'.at = "done" /\ UNCHANGED <<version, told, lost>>
    BY <1>11 DEF StopReturns, PollInv, PollTypeOK, Closers
  <2>. QED BY <2>1 DEF Promise!Shut
<1>. QED BY <1>2, <1>3, <1>5, <1>6, <1>7, <1>8, <1>9, <1>10, <1>11 DEF PollNext

\* The polls implement Feed: what onChange could not ingest is declared lost,
\* and after Stop has returned nothing is reported.
THEOREM PollKeepsPromise == PollSpec => KeepsPromise
BY PollInitKeeps, PollNextKeeps, PollTyped, PTL DEF PollSpec, KeepsPromise, Promise!Spec

=============================================================================
