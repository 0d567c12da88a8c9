--------------------------- MODULE TreeWatchProofs ---------------------------
(***************************************************************************)
(* TreeWatch's safety invariant and its refinement of Feed, for every      *)
(* finite tree and every bound.  TreeInv is inductive: a directory that is *)
(* there and not watched is about to be visited, or its creation is in the *)
(* queue, or its parent is about to be listed, or its own watch failed and *)
(* was logged, or its parent is not watched either; with nothing queued    *)
(* and nothing to visit the last two are left, and from the roots down     *)
(* they put the directory at or below one the log named.                   *)
(***************************************************************************)
EXTENDS TreeWatch, FunctionTheorems, SequenceTheorems, FiniteSetTheorems, TLAPS

Steps == [visit : Paths] \cup [list : Dirs]
Events == [op : {"create", "write"}, name : Paths]

Holds(seq, x) == \E i \in 1..Len(seq) : seq[i] = x

KernStates ==
    [live : SUBSET Dirs, there : SUBSET Files, gone : SUBSET Dirs, removals : Nat,
     watches : SUBSET Dirs, refused : SUBSET Dirs, events : Seq(Events)]

RunStates == [at : {"select", "exited"}, walk : [Walkers -> Seq(Steps)]]

TreeTypeOK ==
    /\ mechanism = "fsnotify"
    /\ version \in [Files -> Nat] /\ told \in [Files -> Nat] /\ lost \in [Files -> Nat]
    /\ kern \in KernStates
    /\ book \subseteq Dirs
    /\ run \in RunStates
    /\ closer \in [at : {"no", "closing", "done"}]

\* The tree on disk has no holes, and no root goes.
Rooted ==
    /\ Roots \subseteq kern.live
    /\ \A d \in kern.live \ Roots : In[d] \in kern.live

\* What was ever watched is watched while it is there: with no return from
\* removal, watched and the watches only differ in what is gone.
Known ==
    /\ book \subseteq kern.live \cup kern.gone
    /\ MayReturn = {} /\ closer.at = "no" => book \cap kern.live \subseteq kern.watches

\* What is there and not watched is on its way, or was named in the log, or is
\* in a directory that is not watched.
OnWalk(step) == \E w \in Walkers : Holds(run.walk[w], step)
Visiting(d) == OnWalk([visit |-> d])
Listing(d) == OnWalk([list |-> d])
Announced(d) == Holds(kern.events, [op |-> "create", name |-> d])

Awaited(d) ==
    \/ Visiting(d) \/ d \in kern.refused
    \/ d \notin Roots /\ (Announced(d) \/ Listing(In[d]) \/ In[d] \notin kern.watches)

OnItsWay ==
    MayReturn = {} /\ closer.at = "no" => \A d \in kern.live \ kern.watches : Awaited(d)

Exiting ==
    /\ run.at = "exited" => run.walk["run"] = <<>> /\ closer.at # "no"
    /\ closer.at = "done" => run.at = "exited"

TreeInv == TreeTypeOK /\ Rooted /\ Known /\ OnItsWay /\ Exiting

-----------------------------------------------------------------------------
\* Stacks and queues: what they hold after a push, a pop and an append.
LEMMA PopHolds ==
    ASSUME NEW S, NEW seq \in Seq(S), seq # <<>>
    PROVE  /\ Head(seq) \in S /\ Tail(seq) \in Seq(S)
           /\ \A x : Holds(seq, x) <=> x = Head(seq) \/ Holds(Tail(seq), x)
<1>1. /\ Head(seq) \in S /\ Tail(seq) \in Seq(S) /\ Len(seq) = Len(Tail(seq)) + 1
      /\ Len(Tail(seq)) \in Nat /\ Head(seq) = seq[1]
      /\ \A i \in 1..Len(Tail(seq)) : Tail(seq)[i] = seq[i + 1]
  OBVIOUS
<1> DEFINE rest == Tail(seq)
<1> HIDE DEF rest
<1>2. \A i \in 1..Len(seq) : i = 1 \/ (i - 1 \in 1..Len(rest) /\ seq[i] = rest[i - 1])
  BY <1>1 DEF rest
<1>3. \A i \in 1..Len(rest) : i + 1 \in 1..Len(seq) /\ rest[i] = seq[i + 1]
  BY <1>1 DEF rest
<1>4. 1 \in 1..Len(seq)
  BY <1>1
<1>5. ASSUME NEW x PROVE Holds(seq, x) <=> x = Head(seq) \/ Holds(rest, x)
  <2>1. ASSUME Holds(seq, x) PROVE x = Head(seq) \/ Holds(rest, x)
    BY <1>1, <1>2, <2>1 DEF Holds
  <2>2. ASSUME x = Head(seq) PROVE Holds(seq, x)
    BY <1>1, <1>4, <2>2 DEF Holds
  <2>3. ASSUME Holds(rest, x) PROVE Holds(seq, x)
    BY <1>3, <2>3 DEF Holds
  <2>. QED BY <2>1, <2>2, <2>3
<1>. QED BY <1>1, <1>5 DEF rest

LEMMA PushHolds ==
    ASSUME NEW S, NEW s \in Seq(S), NEW t \in Seq(S)
    PROVE  s \o t \in Seq(S) /\ \A x : Holds(s \o t, x) <=> Holds(s, x) \/ Holds(t, x)
<1> DEFINE both == s \o t
<1>1. /\ both \in Seq(S) /\ Len(both) = Len(s) + Len(t) /\ Len(s) \in Nat /\ Len(t) \in Nat
      /\ \A i \in 1..Len(s) + Len(t) :
            both[i] = IF i <= Len(s) THEN s[i] ELSE t[i - Len(s)]
  BY ConcatProperties, LenProperties
<1> HIDE DEF both
<1>2. ASSUME NEW x PROVE Holds(both, x) <=> Holds(s, x) \/ Holds(t, x)
  <2>1. ASSUME NEW i \in 1..Len(both), both[i] = x PROVE Holds(s, x) \/ Holds(t, x)
    <3>1. CASE i <= Len(s)
      BY <1>1, <2>1, <3>1 DEF Holds
    <3>2. CASE ~(i <= Len(s))
      <4>1. i - Len(s) \in 1..Len(t) /\ t[i - Len(s)] = x
        BY <1>1, <2>1, <3>2
      <4>. QED BY <4>1 DEF Holds
    <3>. QED BY <3>1, <3>2
  <2>2. ASSUME NEW i \in 1..Len(s), s[i] = x PROVE Holds(both, x)
    BY <1>1, <2>2 DEF Holds
  <2>3. ASSUME NEW i \in 1..Len(t), t[i] = x PROVE Holds(both, x)
    <3>1. i + Len(s) \in 1..Len(both) /\ ~(i + Len(s) <= Len(s)) /\ (i + Len(s)) - Len(s) = i
      BY <1>1
    <3>2. both[i + Len(s)] = x
      BY <1>1, <2>3, <3>1
    <3>. QED BY <3>1, <3>2 DEF Holds
  <2>. QED BY <2>1, <2>2, <2>3 DEF Holds
<1>. QED BY <1>1, <1>2 DEF both

LEMMA OneHolds ==
    ASSUME NEW S, NEW y \in S
    PROVE  /\ <<y>> \in Seq(S) /\ \A x : Holds(<<y>>, x) <=> x = y
           /\ <<>> \in Seq(S) /\ \A x : ~Holds(<<>>, x)
<1>1. <<y>> \in Seq(S) /\ Len(<<y>>) = 1 /\ <<y>>[1] = y /\ <<>> \in Seq(S) /\ Len(<<>>) = 0
  OBVIOUS
<1>2. \A x : ~Holds(<<>>, x)
  BY <1>1 DEF Holds
<1>3. \A x : Holds(<<y>>, x) <=> x = y
  BY <1>1 DEF Holds
<1>. QED BY <1>1, <1>2, <1>3

LEMMA AppendHolds ==
    ASSUME NEW S, NEW seq \in Seq(S), NEW y \in S
    PROVE  Append(seq, y) \in Seq(S) /\ \A x : Holds(Append(seq, y), x) <=> Holds(seq, x) \/ x = y
<1>1. Append(seq, y) = seq \o <<y>>
  OBVIOUS
<1>2. <<y>> \in Seq(S) /\ \A x : Holds(<<y>>, x) <=> x = y
  BY OneHolds
<1>3. /\ seq \o <<y>> \in Seq(S)
      /\ \A x : Holds(seq \o <<y>>, x) <=> Holds(seq, x) \/ Holds(<<y>>, x)
  BY <1>2, PushHolds
<1>. QED BY <1>1, <1>2, <1>3

\* SetToSeq lists the elements of a finite set.
LEMMA SetToSeqHolds ==
    ASSUME NEW S, IsFiniteSet(S)
    PROVE  SetToSeq(S) \in Seq(S) /\ \A x : Holds(SetToSeq(S), x) <=> x \in S
<1> DEFINE n == Cardinality(S)
           seq == SetToSeq(S)
<1>1. n \in Nat /\ ExistsBijection(1..n, S)
  BY FS_CardinalityType
<1>2. \E f \in [1..n -> S] : IsInjective(f)
  <2>1. PICK f : f \in Bijection(1..n, S)
    BY <1>1 DEF ExistsBijection
  <2>2. f \in [1..n -> S] /\ \A a, b \in 1..n : f[a] = f[b] => a = b
    BY <2>1, Fun_BijectionProperties
  <2>. QED BY <2>2 DEF IsInjective
<1>3. seq \in [1..n -> S] /\ IsInjective(seq)
  BY <1>2 DEF SetToSeq
<1>4. seq \in Injection(1..n, S)
  BY <1>3, Fun_IsInj DEF IsInjective
<1>5. IsFiniteSet(1..n) /\ Cardinality(1..n) = n
  BY <1>1, FS_Interval
<1>6. seq \in Surjection(1..n, S)
  BY <1>4, <1>5, FS_Injection
<1> HIDE DEF n, seq
<1>7. \A x \in S : \E i \in 1..n : seq[i] = x
  BY <1>6 DEF Surjection
<1>8. seq \in Seq(S) /\ Len(seq) = n
  BY <1>1, <1>3
<1>. QED BY <1>3, <1>7, <1>8 DEF Holds, seq

-----------------------------------------------------------------------------
\* The tree: a directory is below itself, what is in it is, and nothing else.
LEMMA BelowHolds ==
    ASSUME NEW d \in Dirs
    PROVE  /\ Below[d] \subseteq Paths /\ d \in Below[d]
           /\ \A x \in Subdirs \cup Files : In[x] \in Below[d] => x \in Below[d]
<1> DEFINE Closed(S) == d \in S /\ \A x \in Subdirs \cup Files : In[x] \in S => x \in S
<1>1. Below[d] = {p \in Paths : \A S \in SUBSET Paths : Closed(S) => p \in S}
  BY DEF Below
<1>2. d \in Paths /\ Subdirs \cup Files \subseteq Paths
  BY DEF Dirs, Paths
<1>3. d \in Below[d]
  BY <1>1, <1>2
<1>4. ASSUME NEW x \in Subdirs \cup Files, In[x] \in Below[d] PROVE x \in Below[d]
  <2>1. ASSUME NEW S \in SUBSET Paths, Closed(S) PROVE x \in S
    BY <1>1, <1>4, <2>1
  <2>. QED BY <1>1, <1>2, <2>1
<1>. QED BY <1>1, <1>3, <1>4

LEMMA BelowLeast ==
    ASSUME NEW d \in Dirs, NEW S \in SUBSET Paths, d \in S,
           \A x \in Subdirs \cup Files : In[x] \in S => x \in S
    PROVE  Below[d] \subseteq S
BY DEF Below

LEMMA TreeShape ==
    /\ \A x \in Subdirs \cup Files : In[x] \in Dirs
    /\ \A d \in Dirs \ Roots : d \in Subdirs
    /\ Roots \subseteq Dirs /\ Subdirs \subseteq Dirs /\ Dirs \subseteq Paths /\ Files \subseteq Paths
    /\ Dirs \cap Files = {} /\ Roots \cap Subdirs = {}
    /\ Transcripts \subseteq Files
    /\ Paths \ Roots = Subdirs \cup Files /\ Paths = Dirs \cup Files
BY BackendAssumption DEF Dirs, Paths

\* Removing a subdirectory takes no root, and leaves no directory without its
\* parent.
LEMMA BelowSubdir ==
    ASSUME NEW d \in Subdirs
    PROVE  /\ Roots \cap Below[d] = {}
           /\ \A x \in Dirs \ Roots : x \notin Below[d] => In[x] \notin Below[d]
<1>1. d \in Dirs
  BY TreeShape
<1> DEFINE S == Paths \ Roots
<1>2. S \in SUBSET Paths /\ d \in S /\ \A x \in Subdirs \cup Files : In[x] \in S => x \in S
  BY TreeShape
<1>3. Below[d] \subseteq S
  BY <1>1, <1>2, BelowLeast
<1>4. \A x \in Dirs \ Roots : x \notin Below[d] => In[x] \notin Below[d]
  BY <1>1, BelowHolds, TreeShape
<1>. QED BY <1>3, <1>4

\* Everything is below the roots: what holds of them, and of a directory's
\* entries when it holds of the directory, holds everywhere.
LEMMA FromTheRoots ==
    ASSUME NEW S \in SUBSET Paths, Roots \subseteq S,
           \A x \in Subdirs \cup Files : In[x] \in S => x \in S
    PROVE  S = Paths
<1> SUFFICES ASSUME NEW p \in Paths PROVE p \in S
    OBVIOUS
<1>1. PICK r \in Roots : p \in Below[r]
  BY PathsAssumption
<1>2. r \in Dirs /\ r \in S
  BY TreeShape
<1>. QED BY <1>1, <1>2, BelowLeast

LEMMA FinitePaths == IsFiniteSet(Dirs) /\ IsFiniteSet(Paths)
BY BackendAssumption, FS_Union DEF Dirs, Paths

\* A walk's next steps are a finite set.
LEMMA VisitsFinite ==
    ASSUME NEW P \in SUBSET Paths
    PROVE  IsFiniteSet({[visit |-> x] : x \in P}) /\ {[visit |-> x] : x \in P} \subseteq Steps
<1> DEFINE T == {[visit |-> x] : x \in P}
           f == [x \in P |-> [visit |-> x]]
<1>1. IsFiniteSet(P)
  BY FinitePaths, FS_Subset
<1>2. f \in [P -> T] /\ \A t \in T : \E x \in P : f[x] = t
  OBVIOUS
<1>3. f \in Surjection(P, T)
  BY <1>2, Fun_IsSurj
<1>4. IsFiniteSet(T)
  BY <1>1, <1>3, FS_Surjection
<1>5. T \subseteq Steps
  BY DEF Steps
<1>. QED BY <1>4, <1>5

-----------------------------------------------------------------------------
\* One walker's stack changes.
LEMMA WalkMoves ==
    ASSUME TreeTypeOK, NEW w \in Walkers, NEW stack \in Seq(Steps), Goes(w, stack)
    PROVE  /\ run' \in RunStates /\ run'.at = run.at /\ run'.walk[w] = stack
           /\ \A v \in Walkers : v # w => run'.walk[v] = run.walk[v]
           /\ \A x : Holds(stack, x) => OnWalk(x)'
           /\ \A x : OnWalk(x) => Holds(run.walk[w], x) \/ OnWalk(x)'
<1>1. run \in RunStates /\ run' = [run EXCEPT !.walk[w] = stack]
  BY DEF TreeTypeOK, Goes
<1>2. /\ run' \in RunStates /\ run'.at = run.at /\ run'.walk[w] = stack
      /\ \A v \in Walkers : v # w => run'.walk[v] = run.walk[v]
  BY <1>1 DEF RunStates
<1>. QED BY <1>2 DEF OnWalk

\* A walker takes the first step off its stack and puts others in its place.
LEMMA StepTaken ==
    ASSUME TreeTypeOK, NEW w \in Walkers, run.walk[w] # <<>>, NEW more \in Seq(Steps),
           Goes(w, more \o Tail(run.walk[w])) \/ (more = <<>> /\ Goes(w, Tail(run.walk[w])))
    PROVE  /\ Head(run.walk[w]) \in Steps
           /\ run' \in RunStates /\ run'.at = run.at
           /\ \A v \in Walkers : v # w => run'.walk[v] = run.walk[v]
           /\ \A x : Holds(more, x) => OnWalk(x)'
           /\ \A x : OnWalk(x) => x = Head(run.walk[w]) \/ OnWalk(x)'
<1>1. run.walk[w] \in Seq(Steps)
  BY DEF TreeTypeOK, RunStates
<1>2. /\ Head(run.walk[w]) \in Steps /\ Tail(run.walk[w]) \in Seq(Steps)
      /\ \A x : Holds(run.walk[w], x) <=> x = Head(run.walk[w]) \/ Holds(Tail(run.walk[w]), x)
  BY <1>1, PopHolds
<1>3. /\ more \o Tail(run.walk[w]) \in Seq(Steps)
      /\ \A x : Holds(more \o Tail(run.walk[w]), x) <=> Holds(more, x) \/ Holds(Tail(run.walk[w]), x)
  <2> DEFINE rest == Tail(run.walk[w])
  <2>1. rest \in Seq(Steps)
    BY <1>2
  <2> HIDE DEF rest
  <2>2. /\ more \o rest \in Seq(Steps)
        /\ \A x : Holds(more \o rest, x) <=> Holds(more, x) \/ Holds(rest, x)
    BY <2>1, PushHolds
  <2>. QED BY <2>2 DEF rest
<1>4. CASE Goes(w, more \o Tail(run.walk[w]))
  BY <1>2, <1>3, <1>4, WalkMoves
<1>5. CASE more = <<>> /\ Goes(w, Tail(run.walk[w]))
  <2>1. \A x : ~Holds(more, x)
    BY <1>5 DEF Holds
  <2>. QED BY <1>2, <1>5, <2>1, WalkMoves
<1>. QED BY <1>4, <1>5

\* A stack's top is a visit or a listing, and says of what.
LEMMA TopOfStack ==
    ASSUME NEW s \in Steps
    PROVE  /\ "visit" \in DOMAIN s => s = [visit |-> s.visit] /\ s.visit \in Paths
           /\ "list" \in DOMAIN s => s = [list |-> s.list] /\ s.list \in Dirs
           /\ \A a, b : [visit |-> a] # [list |-> b]
           /\ \A a, b : [visit |-> a] = [visit |-> b] => a = b
           /\ \A a, b : [list |-> a] = [list |-> b] => a = b
<1>1. \A a, b : [visit |-> a] # [list |-> b]
  <2> SUFFICES ASSUME NEW a, NEW b, [visit |-> a] = [list |-> b] PROVE FALSE
    OBVIOUS
  <2>1. DOMAIN [visit |-> a] = {"visit"} /\ DOMAIN [list |-> b] = {"list"}
    OBVIOUS
  <2>. QED BY <2>1
<1>2. \A a, b : /\ [visit |-> a] = [visit |-> b] => a = b
                /\ [list |-> a] = [list |-> b] => a = b
  <2> SUFFICES ASSUME NEW a, NEW b
               PROVE  /\ [visit |-> a] = [visit |-> b] => a = b
                      /\ [list |-> a] = [list |-> b] => a = b
    OBVIOUS
  <2>1. /\ [visit |-> a].visit = a /\ [visit |-> b].visit = b
        /\ [list |-> a].list = a /\ [list |-> b].list = b
    OBVIOUS
  <2>. QED BY <2>1
<1>3. /\ "visit" \in DOMAIN s => s = [visit |-> s.visit] /\ s.visit \in Paths
      /\ "list" \in DOMAIN s => s = [list |-> s.list] /\ s.list \in Dirs
  <2>1. CASE s \in [visit : Paths]
    BY <2>1
  <2>2. CASE s \in [list : Dirs]
    BY <2>2
  <2>. QED BY <2>1, <2>2 DEF Steps
<1>. QED BY <1>1, <1>2, <1>3

-----------------------------------------------------------------------------
LEMMA TreeInitInv == TreeInit => TreeInv
<1> SUFFICES ASSUME TreeInit PROVE TreeInv
    OBVIOUS
<1> DEFINE starts == {[visit |-> r] : r \in Roots}
<1>1. PICK live \in SUBSET Dirs :
         /\ Roots \subseteq live /\ \A d \in live \ Roots : In[d] \in live
         /\ kern = [live |-> live, there |-> {}, gone |-> {}, removals |-> 0,
                    watches |-> {}, refused |-> {}, events |-> <<>>]
  BY DEF TreeInit
<1>2. /\ mechanism = "fsnotify" /\ book = {} /\ closer = [at |-> "no"]
      /\ run = [at |-> "select", walk |-> [new |-> SetToSeq(starts), run |-> <<>>]]
      /\ version = [f \in Files |-> 0] /\ told = version /\ lost = version
  BY DEF TreeInit
<1>3. IsFiniteSet(starts) /\ starts \subseteq Steps
  BY VisitsFinite, TreeShape
<1> HIDE DEF starts
<1>4. SetToSeq(starts) \in Seq(starts) /\ \A x : Holds(SetToSeq(starts), x) <=> x \in starts
  BY <1>3, SetToSeqHolds
<1>5. SetToSeq(starts) \in Seq(Steps) /\ <<>> \in Seq(Steps) /\ <<>> \in Seq(Events)
  BY <1>3, <1>4, SeqMonotonic
<1>6. [new |-> SetToSeq(starts), run |-> <<>>] \in [Walkers -> Seq(Steps)]
  <2> DEFINE walk == [new |-> SetToSeq(starts), run |-> <<>>]
  <2>1. DOMAIN walk = Walkers
    BY DEF Walkers
  <2>2. walk["new"] = SetToSeq(starts) /\ walk["run"] = <<>>
    OBVIOUS
  <2>3. walk = [w \in Walkers |-> walk[w]]
    BY <2>1
  <2> HIDE DEF walk
  <2>4. \A w \in Walkers : walk[w] \in Seq(Steps)
    BY <1>5, <2>2 DEF Walkers
  <2>5. walk \in [Walkers -> Seq(Steps)]
    BY <2>3, <2>4
  <2>. QED BY <2>5 DEF walk
<1>7. kern \in KernStates
  BY <1>1, <1>5 DEF KernStates
<1>8. run \in RunStates
  BY <1>2, <1>6 DEF RunStates
<1>9. TreeTypeOK
  BY <1>2, <1>7, <1>8 DEF TreeTypeOK
<1>10. Rooted /\ Known
  BY <1>1, <1>2 DEF Rooted, Known
<1>11. OnItsWay
  <2> SUFFICES ASSUME NEW d \in kern.live PROVE Awaited(d)
    BY DEF OnItsWay
  <2>1. CASE d \in Roots
    <3>1. [visit |-> d] \in starts
      BY <2>1 DEF starts
    <3>2. Holds(run.walk["new"], [visit |-> d])
      BY <1>2, <1>4, <3>1
    <3>. QED BY <3>2 DEF Awaited, Visiting, OnWalk, Walkers
  <2>2. CASE d \notin Roots
    BY <1>1, <2>2 DEF Awaited
  <2>. QED BY <2>1, <2>2
<1>12. Exiting
  BY <1>2 DEF Exiting
<1>. QED BY <1>9, <1>10, <1>11, <1>12 DEF TreeInv

-----------------------------------------------------------------------------
\* What the disk and fsnotify do.
LEMMA NotifyQueues ==
    ASSUME NEW k \in KernStates, NEW op \in {"create", "write"}, NEW p \in Paths
    PROVE  /\ Notify(k, op, p) \in KernStates
           /\ Notify(k, op, p).live = k.live /\ Notify(k, op, p).gone = k.gone
           /\ Notify(k, op, p).watches = k.watches /\ Notify(k, op, p).refused = k.refused
           /\ \A x : Holds(k.events, x) => Holds(Notify(k, op, p).events, x)
           /\ In[p] \in k.watches => Holds(Notify(k, op, p).events, [op |-> op, name |-> p])
<1> DEFINE ev == [op |-> op, name |-> p]
           more == Append(k.events, ev)
<1>1. ev \in Events /\ k.events \in Seq(Events)
  BY DEF Events, KernStates
<1> HIDE DEF ev
<1>2. more \in Seq(Events) /\ \A x : Holds(more, x) <=> Holds(k.events, x) \/ x = ev
  BY <1>1, AppendHolds
<1> HIDE DEF more
<1>3. Notify(k, op, p) = IF In[p] \in k.watches THEN [k EXCEPT !.events = more] ELSE k
  BY DEF Notify, ev, more
<1>4. CASE In[p] \in k.watches
  <2>1. Notify(k, op, p) = [k EXCEPT !.events = more]
    BY <1>3, <1>4
  <2>2. /\ [k EXCEPT !.events = more] \in KernStates
        /\ [k EXCEPT !.events = more].live = k.live /\ [k EXCEPT !.events = more].gone = k.gone
        /\ [k EXCEPT !.events = more].watches = k.watches
        /\ [k EXCEPT !.events = more].refused = k.refused
        /\ [k EXCEPT !.events = more].events = more
    BY <1>2 DEF KernStates
  <2>. QED BY <1>2, <2>1, <2>2 DEF ev
<1>5. CASE In[p] \notin k.watches
  BY <1>3, <1>5
<1>. QED BY <1>4, <1>5

LEMMA MkdirInv ==
    ASSUME TreeInv, NEW d \in Subdirs, Mkdir(d)
    PROVE  TreeInv'
<1> DEFINE live == kern.live \cup {d}
           k == [kern EXCEPT !.live = live]
<1>1. /\ kern' = Notify(k, "create", d) /\ d \notin kern.live /\ In[d] \in kern.live
      /\ d \in kern.gone => d \in MayReturn
      /\ UNCHANGED <<mechanism, version, told, lost, book, run, closer>>
  BY DEF Mkdir, Fsnotify
<1>2. kern \in KernStates /\ live \in SUBSET Dirs /\ d \in Paths /\ d \notin Roots
  BY TreeShape DEF TreeInv, TreeTypeOK, KernStates
<1>3. live = kern.live \cup {d}
  OBVIOUS
<1> HIDE DEF live
<1>4. /\ k \in KernStates /\ k.live = live /\ k.gone = kern.gone /\ k.watches = kern.watches
      /\ k.events = kern.events /\ k.refused = kern.refused
  BY <1>2 DEF KernStates
<1> HIDE DEF k
<1>5. /\ kern' \in KernStates /\ kern'.live = live /\ kern'.gone = kern.gone
      /\ kern'.watches = kern.watches /\ kern'.refused = kern.refused
      /\ \A x : Holds(kern.events, x) => Holds(kern'.events, x)
      /\ In[d] \in kern.watches => Holds(kern'.events, [op |-> "create", name |-> d])
  BY <1>1, <1>2, <1>4, NotifyQueues
<1>6. TreeTypeOK'
  BY <1>1, <1>5 DEF TreeInv, TreeTypeOK
<1>7. Rooted'
  BY <1>1, <1>3, <1>5 DEF TreeInv, Rooted
<1>8. Known'
  BY <1>1, <1>3, <1>5 DEF TreeInv, Known
<1>9. OnItsWay'
  <2> SUFFICES ASSUME MayReturn = {}, closer.at = "no",
                      NEW x \in live, x \notin kern.watches
               PROVE  Awaited(x)'
    BY <1>1, <1>5 DEF OnItsWay
  <2>1. CASE x = d
    BY <1>2, <1>5, <2>1 DEF Awaited, Announced
  <2>2. CASE x # d
    <3>1. Awaited(x)
      BY <1>3, <2>2 DEF TreeInv, OnItsWay
    <3>. QED BY <1>1, <1>5, <3>1 DEF Awaited, Announced, Visiting, Listing, OnWalk
  <2>. QED BY <2>1, <2>2
<1>10. Exiting'
  BY <1>1 DEF TreeInv, Exiting
<1>. QED BY <1>6, <1>7, <1>8, <1>9, <1>10 DEF TreeInv

LEMMA SaveInv ==
    ASSUME TreeInv, NEW f \in Files, Save(f)
    PROVE  TreeInv'
<1> DEFINE there == kern.there \cup {f}
           k == [kern EXCEPT !.there = there]
           kind == IF f \in kern.there THEN "write" ELSE "create"
<1>1. /\ kern' = Notify(k, kind, f) /\ version' = [version EXCEPT ![f] = @ + 1]
      /\ lost' = IF LeftToRescan(f) THEN [lost EXCEPT ![f] = version'[f]] ELSE lost
      /\ UNCHANGED <<mechanism, told, book, run, closer>>
  BY DEF Save, Fsnotify
<1>2. kern \in KernStates /\ there \in SUBSET Files /\ f \in Paths /\ kind \in {"create", "write"}
  BY TreeShape DEF TreeInv, TreeTypeOK, KernStates
<1> HIDE DEF there, kind
<1>3. /\ k \in KernStates /\ k.live = kern.live /\ k.gone = kern.gone
      /\ k.watches = kern.watches /\ k.events = kern.events /\ k.refused = kern.refused
  BY <1>2 DEF KernStates
<1> HIDE DEF k
<1>4. /\ kern' \in KernStates /\ kern'.live = kern.live /\ kern'.gone = kern.gone
      /\ kern'.watches = kern.watches /\ kern'.refused = kern.refused
      /\ \A x : Holds(kern.events, x) => Holds(kern'.events, x)
  <2>1. /\ Notify(k, kind, f) \in KernStates /\ Notify(k, kind, f).live = k.live
        /\ Notify(k, kind, f).gone = k.gone /\ Notify(k, kind, f).watches = k.watches
        /\ Notify(k, kind, f).refused = k.refused
        /\ \A x : Holds(k.events, x) => Holds(Notify(k, kind, f).events, x)
        /\ In[f] \in k.watches =>
              Holds(Notify(k, kind, f).events, [op |-> kind, name |-> f])
    BY <1>2, <1>3, NotifyQueues
  <2>. QED BY <1>1, <1>3, <2>1
<1>5. version' \in [Files -> Nat] /\ lost' \in [Files -> Nat]
  <2>1. version' \in [Files -> Nat] /\ lost \in [Files -> Nat]
    BY <1>1 DEF TreeInv, TreeTypeOK
  <2>2. lost' = [lost EXCEPT ![f] = version'[f]] \/ lost' = lost
    BY <1>1
  <2>. QED BY <2>1, <2>2
<1>6. TreeTypeOK'
  BY <1>1, <1>4, <1>5 DEF TreeInv, TreeTypeOK
<1>7. Rooted' /\ Known' /\ Exiting'
  BY <1>1, <1>4 DEF TreeInv, Rooted, Known, Exiting
<1>8. OnItsWay'
  <2> SUFFICES ASSUME MayReturn = {}, closer.at = "no",
                      NEW x \in kern.live, x \notin kern.watches
               PROVE  Awaited(x)'
    BY <1>1, <1>4 DEF OnItsWay
  <2>1. Awaited(x)
    BY DEF TreeInv, OnItsWay
  <2>. QED BY <1>1, <1>4, <2>1 DEF Awaited, Announced, Visiting, Listing, OnWalk
<1>. QED BY <1>6, <1>7, <1>8 DEF TreeInv

LEMMA RemoveDirInv ==
    ASSUME TreeInv, NEW d \in Subdirs, RemoveDir(d)
    PROVE  TreeInv'
<1> DEFINE dead == kern.live \cap Below[d]
           there == kern.there \ Below[d]
           live == kern.live \ dead
           gone == kern.gone \cup dead
           watches == kern.watches \ dead
           refused == kern.refused \ dead
           n == kern.removals + 1
<1>1. /\ kern' = [kern EXCEPT !.live = live, !.there = there, !.gone = gone, !.removals = n,
                              !.watches = watches, !.refused = refused]
      /\ Lose(kern.there \cap Below[d])
      /\ UNCHANGED <<mechanism, version, told, book, run, closer>>
  BY DEF RemoveDir, Fsnotify
<1>2. /\ kern \in KernStates /\ live \in SUBSET Dirs /\ there \in SUBSET Files
      /\ gone \in SUBSET Dirs /\ n \in Nat /\ watches \in SUBSET Dirs
      /\ refused \in SUBSET Dirs
  BY DEF TreeInv, TreeTypeOK, KernStates
<1>3. live = kern.live \ dead /\ gone = kern.gone \cup dead /\ watches = kern.watches \ dead
      /\ refused = kern.refused \ dead
  OBVIOUS
<1> HIDE DEF live, there, gone, watches, refused, n
<1>4. /\ kern' \in KernStates /\ kern'.live = live /\ kern'.gone = gone
      /\ kern'.watches = watches /\ kern'.events = kern.events /\ kern'.refused = refused
  BY <1>1, <1>2 DEF KernStates
<1>5. lost' \in [Files -> Nat]
  BY <1>1 DEF Lose, TreeInv, TreeTypeOK
<1>6. TreeTypeOK'
  BY <1>1, <1>4, <1>5 DEF TreeInv, TreeTypeOK
<1>7. /\ Roots \cap Below[d] = {}
      /\ \A x \in Dirs \ Roots : x \notin Below[d] => In[x] \notin Below[d]
  BY BelowSubdir
<1>8. Rooted'
  <2>1. \A x \in live \ Roots : x \in Dirs \ Roots /\ x \notin Below[d] /\ In[x] \in kern.live
    BY <1>2, <1>3 DEF TreeInv, Rooted
  <2>2. \A x \in live \ Roots : In[x] \in live
    BY <1>3, <1>7, <2>1
  <2>3. Roots \subseteq live
    BY <1>3, <1>7 DEF TreeInv, Rooted
  <2>. QED BY <1>4, <2>2, <2>3 DEF Rooted
<1>9. Known'
  BY <1>1, <1>3, <1>4 DEF TreeInv, Known
<1>10. OnItsWay'
  <2> SUFFICES ASSUME MayReturn = {}, closer.at = "no", NEW x \in live, x \notin watches
               PROVE  Awaited(x)'
    BY <1>1, <1>4 DEF OnItsWay
  <2>1. x \in kern.live /\ x \notin kern.watches /\ x \notin dead
    BY <1>3
  <2>2. Awaited(x)
    BY <2>1 DEF TreeInv, OnItsWay
  <2>. QED BY <1>1, <1>3, <1>4, <2>2 DEF Awaited, Announced, Visiting, Listing, OnWalk
<1>11. Exiting'
  BY <1>1 DEF TreeInv, Exiting
<1>. QED BY <1>6, <1>8, <1>9, <1>10, <1>11 DEF TreeInv

-----------------------------------------------------------------------------
\* What the walkers do.
LEMMA VisitInv ==
    ASSUME TreeInv, NEW w \in Walkers, Visit(w)
    PROVE  TreeInv'
<1>0. PICK d \in Dirs : d = Head(run.walk[w]).visit
  BY DEF Visit
<1> DEFINE more == <<[list |-> d]>>
<1>1. /\ run.walk[w] # <<>> /\ "visit" \in DOMAIN Head(run.walk[w])
      /\ IF d \in book \/ d \notin kern.live \/ closer.at # "no"
         THEN UNCHANGED <<kern, book>>
         ELSE WatchDir(d) \/ RefuseDir(d)
      /\ Goes(w, more \o Tail(run.walk[w]))
      /\ UNCHANGED <<mechanism, version, told, lost, closer>>
  BY <1>0 DEF Visit, Fsnotify
<1>2. TreeTypeOK /\ run \in RunStates /\ kern \in KernStates /\ book \subseteq Dirs
  BY DEF TreeInv, TreeTypeOK
<1>3. [list |-> d] \in Steps
  BY DEF Steps
<1>4. more \in Seq(Steps) /\ \A x : Holds(more, x) <=> x = [list |-> d]
  BY <1>3, OneHolds
<1>5. run.walk[w] \in Seq(Steps)
  BY <1>2 DEF RunStates
<1>6. /\ Head(run.walk[w]) \in Steps /\ run' \in RunStates /\ run'.at = run.at
      /\ \A v \in Walkers : v # w => run'.walk[v] = run.walk[v]
      /\ OnWalk([list |-> d])'
      /\ \A x : OnWalk(x) => x = Head(run.walk[w]) \/ OnWalk(x)'
  <2>1. run.walk[w] # <<>> /\ Goes(w, more \o Tail(run.walk[w])) /\ Holds(more, [list |-> d])
    BY <1>1, <1>4
  <2> HIDE DEF more
  <2>2. /\ Head(run.walk[w]) \in Steps /\ run' \in RunStates /\ run'.at = run.at
        /\ \A v \in Walkers : v # w => run'.walk[v] = run.walk[v]
        /\ \A x : Holds(more, x) => OnWalk(x)'
        /\ \A x : OnWalk(x) => x = Head(run.walk[w]) \/ OnWalk(x)'
    BY <1>2, <1>4, <2>1, StepTaken
  <2>. QED BY <2>1, <2>2
<1>7. Head(run.walk[w]) = [visit |-> d]
  BY <1>0, <1>1, <1>6, TopOfStack
<1> HIDE DEF more
<1>9. /\ kern' \in KernStates /\ kern'.live = kern.live /\ kern'.gone = kern.gone
      /\ kern'.events = kern.events /\ book' \subseteq Dirs
      /\ kern.refused \ {d} \subseteq kern'.refused
      /\ \/ /\ kern'.watches = kern.watches /\ book' = book
            /\ d \in book \/ d \notin kern.live \/ closer.at # "no" \/ d \in kern'.refused
            /\ kern.refused \subseteq kern'.refused
         \/ kern'.watches = kern.watches \cup {d} /\ book' = book \cup {d} /\ d \in kern.live
  <2>1. CASE d \in book \/ d \notin kern.live \/ closer.at # "no"
    BY <1>1, <1>2, <2>1
  <2>2. CASE d \in kern.live /\ WatchDir(d)
    <3> DEFINE watches == kern.watches \cup {d}
               refused == kern.refused \ {d}
    <3>1. kern' = [kern EXCEPT !.watches = watches, !.refused = refused] /\ book' = book \cup {d}
      BY <2>2 DEF WatchDir
    <3>2. watches \in SUBSET Dirs /\ refused \in SUBSET Dirs
      BY <1>2 DEF KernStates
    <3> HIDE DEF watches, refused
    <3>3. /\ kern' \in KernStates /\ kern'.live = kern.live /\ kern'.gone = kern.gone
          /\ kern'.events = kern.events /\ kern'.watches = watches /\ kern'.refused = refused
      BY <1>2, <3>1, <3>2 DEF KernStates
    <3>. QED BY <1>2, <2>2, <3>1, <3>3 DEF watches, refused
  <2>3. CASE RefuseDir(d)
    <3> DEFINE refused == kern.refused \cup {d}
    <3>1. kern' = [kern EXCEPT !.refused = refused] /\ book' = book
      BY <2>3 DEF RefuseDir
    <3>2. refused \in SUBSET Dirs
      BY <1>2 DEF KernStates
    <3> HIDE DEF refused
    <3>3. /\ kern' \in KernStates /\ kern'.live = kern.live /\ kern'.gone = kern.gone
          /\ kern'.events = kern.events /\ kern'.watches = kern.watches
          /\ kern'.refused = refused
      BY <1>2, <3>1, <3>2 DEF KernStates
    <3>. QED BY <1>2, <3>1, <3>3 DEF refused
  <2>. QED BY <1>1, <2>1, <2>2, <2>3
<1>10. TreeTypeOK'
  BY <1>1, <1>6, <1>9 DEF TreeInv, TreeTypeOK
<1>11. Rooted'
  BY <1>9 DEF TreeInv, Rooted
<1>12. Known'
  BY <1>1, <1>9 DEF TreeInv, Known
<1>13. OnItsWay'
  <2> SUFFICES ASSUME MayReturn = {}, closer.at = "no",
                      NEW x \in kern.live, x \notin kern'.watches
               PROVE  Awaited(x)'
    BY <1>1, <1>9 DEF OnItsWay
  <2>1. x \notin kern.watches /\ Awaited(x)
    BY <1>9 DEF TreeInv, OnItsWay
  <2>2. CASE x = d
    BY <1>9, <2>1, <2>2 DEF TreeInv, Known, Awaited
  <2> SUFFICES ASSUME x # d PROVE Awaited(x)'
    BY <2>2
  <2>3. [visit |-> x] # Head(run.walk[w]) /\ \A y : [list |-> y] # Head(run.walk[w])
    BY <1>6, <1>7, TopOfStack
  <2>4. Visiting(x) => Visiting(x)'
    BY <1>6, <2>3 DEF Visiting
  <2>5. Listing(In[x]) => Listing(In[x])'
    BY <1>6, <2>3 DEF Listing
  <2>6. Announced(x) => Announced(x)'
    BY <1>9 DEF Announced
  <2>7. In[x] \notin kern.watches => In[x] \notin kern'.watches \/ Listing(In[x])'
    <3>1. CASE In[x] = d
      BY <1>6, <3>1 DEF Listing
    <3>2. CASE In[x] # d
      BY <1>9, <3>2
    <3>. QED BY <3>1, <3>2
  <2>8. x \in kern.refused => x \in kern'.refused
    BY <1>9
  <2>. QED BY <2>1, <2>4, <2>5, <2>6, <2>7, <2>8 DEF Awaited
<1>14. Exiting'
  BY <1>1, <1>2, <1>6 DEF TreeInv, Exiting, Walkers
<1>. QED BY <1>10, <1>11, <1>12, <1>13, <1>14 DEF TreeInv

LEMMA ListInv ==
    ASSUME TreeInv, NEW w \in Walkers, List(w)
    PROVE  TreeInv'
<1> DEFINE d == Head(run.walk[w]).list
           inside == {x \in (kern.live \cup kern.there) \ Roots : In[x] = d}
           visits == {[visit |-> x] : x \in inside}
           more == SetToSeq(visits)
<1>1. /\ run.walk[w] # <<>> /\ "list" \in DOMAIN Head(run.walk[w])
      /\ Goes(w, more \o Tail(run.walk[w]))
      /\ UNCHANGED <<mechanism, version, told, lost, kern, book, closer>>
  BY DEF List, Fsnotify
<1>2. TreeTypeOK /\ run \in RunStates /\ kern \in KernStates
  BY DEF TreeInv, TreeTypeOK
<1>3. inside \in SUBSET Paths
  BY <1>2, TreeShape DEF KernStates
<1>4. \A x \in kern.live \ Roots : In[x] = d => x \in inside
  OBVIOUS
<1> HIDE DEF inside
<1>5. IsFiniteSet(visits) /\ visits \subseteq Steps
  BY <1>3, VisitsFinite
<1>6. \A x \in inside : [visit |-> x] \in visits
  OBVIOUS
<1> HIDE DEF visits
<1>7. more \in Seq(visits) /\ \A x : Holds(more, x) <=> x \in visits
  BY <1>5, SetToSeqHolds
<1>8. more \in Seq(Steps)
  BY <1>5, <1>7, SeqMonotonic
<1> HIDE DEF more
<1>9. /\ Head(run.walk[w]) \in Steps /\ run' \in RunStates /\ run'.at = run.at
      /\ \A v \in Walkers : v # w => run'.walk[v] = run.walk[v]
      /\ \A x : Holds(more, x) => OnWalk(x)'
      /\ \A x : OnWalk(x) => x = Head(run.walk[w]) \/ OnWalk(x)'
  BY <1>1, <1>2, <1>8, StepTaken
<1>10. Head(run.walk[w]) = [list |-> d]
  BY <1>1, <1>9, TopOfStack
<1> HIDE DEF d
<1>11. TreeTypeOK' /\ Rooted' /\ Known'
  BY <1>1, <1>9 DEF TreeInv, TreeTypeOK, Rooted, Known
<1>12. OnItsWay'
  <2> SUFFICES ASSUME MayReturn = {}, closer.at = "no",
                      NEW x \in kern.live, x \notin kern.watches
               PROVE  Awaited(x)'
    BY <1>1 DEF OnItsWay
  <2>1. Awaited(x)
    BY DEF TreeInv, OnItsWay
  <2>2. \A y : [visit |-> y] # Head(run.walk[w])
    BY <1>9, <1>10, TopOfStack
  <2>3. Visiting(x) => Visiting(x)'
    BY <1>9, <2>2 DEF Visiting
  <2>4. x \notin Roots /\ Listing(In[x]) => Listing(In[x])' \/ Visiting(x)'
    <3>1. CASE In[x] = d
      BY <1>4, <1>6, <1>7, <1>9, <3>1 DEF Visiting
    <3>2. CASE In[x] # d
      <4>1. [list |-> In[x]] # Head(run.walk[w])
        BY <1>9, <1>10, <3>2, TopOfStack
      <4>. QED BY <1>9, <4>1 DEF Listing
    <3>. QED BY <3>1, <3>2
  <2>. QED BY <1>1, <2>1, <2>3, <2>4 DEF Awaited, Announced
<1>13. Exiting'
  BY <1>1, <1>2, <1>9 DEF TreeInv, Exiting, Walkers
<1>. QED BY <1>11, <1>12, <1>13 DEF TreeInv

LEMMA VisitFileInv ==
    ASSUME TreeInv, NEW w \in Walkers, VisitFile(w)
    PROVE  TreeInv'
<1> DEFINE f == Head(run.walk[w]).visit
           none == <<>>
<1>1. /\ run.walk[w] # <<>> /\ "visit" \in DOMAIN Head(run.walk[w]) /\ f \in Files
      /\ Goes(w, Tail(run.walk[w]))
      /\ lost' = lost \/ Lose({f})
      /\ told' = told \/ Told(f)
      /\ UNCHANGED <<mechanism, version, kern, book, closer>>
  BY DEF VisitFile, Fsnotify
<1>2. TreeTypeOK /\ run \in RunStates
  BY DEF TreeInv, TreeTypeOK
<1>3. none \in Seq(Steps) /\ none = <<>>
  OBVIOUS
<1> HIDE DEF none
<1>4. /\ Head(run.walk[w]) \in Steps /\ run' \in RunStates /\ run'.at = run.at
      /\ \A v \in Walkers : v # w => run'.walk[v] = run.walk[v]
      /\ \A x : OnWalk(x) => x = Head(run.walk[w]) \/ OnWalk(x)'
  BY <1>1, <1>2, <1>3, StepTaken
<1>5. Head(run.walk[w]) = [visit |-> f]
  BY <1>1, <1>4, TopOfStack
<1> HIDE DEF f
<1>6. told' \in [Files -> Nat] /\ lost' \in [Files -> Nat]
  BY <1>1, <1>2 DEF TreeTypeOK, Lose, Told
<1>7. TreeTypeOK' /\ Rooted' /\ Known'
  BY <1>1, <1>4, <1>6 DEF TreeInv, TreeTypeOK, Rooted, Known
<1>8. OnItsWay'
  <2> SUFFICES ASSUME MayReturn = {}, closer.at = "no",
                      NEW x \in kern.live, x \notin kern.watches
               PROVE  Awaited(x)'
    BY <1>1 DEF OnItsWay
  <2>1. Awaited(x)
    BY DEF TreeInv, OnItsWay
  <2>2. x # f
    BY <1>1, <1>2, TreeShape DEF TreeTypeOK, KernStates
  <2>3. [visit |-> x] # Head(run.walk[w]) /\ \A y : [list |-> y] # Head(run.walk[w])
    BY <1>4, <1>5, <2>2, TopOfStack
  <2>. QED BY <1>1, <1>4, <2>1, <2>3 DEF Awaited, Announced, Visiting, Listing
<1>9. Exiting'
  BY <1>1, <1>2, <1>4 DEF TreeInv, Exiting, Walkers
<1>. QED BY <1>7, <1>8, <1>9 DEF TreeInv

-----------------------------------------------------------------------------
\* What run and Close do.
LEMMA HandleEventInv ==
    ASSUME TreeInv, HandleEvent
    PROVE  TreeInv'
<1> DEFINE ev == Head(kern.events)
           events == Tail(kern.events)
<1>1. /\ run.at = "select" /\ run.walk["run"] = <<>> /\ kern.events # <<>>
      /\ kern' = [kern EXCEPT !.events = events]
      /\ IF Exists(ev.name) /\ ev.name \in Dirs /\ ev.op = "create"
         THEN Goes("run", <<[visit |-> ev.name]>>)
         ELSE run' = run
      /\ told' = told \/ (ev.name \in Files /\ Told(ev.name))
      /\ UNCHANGED <<mechanism, version, lost, book, closer>>
  BY TreeShape DEF HandleEvent, Fsnotify
<1>2. TreeTypeOK /\ run \in RunStates /\ kern \in KernStates /\ kern.events \in Seq(Events)
  BY DEF TreeInv, TreeTypeOK, KernStates
<1>3. /\ ev \in Events /\ events \in Seq(Events)
      /\ \A x : Holds(kern.events, x) <=> x = ev \/ Holds(events, x)
  BY <1>1, <1>2, PopHolds
<1> HIDE DEF ev, events
<1>4. /\ kern' \in KernStates /\ kern'.live = kern.live /\ kern'.gone = kern.gone
      /\ kern'.watches = kern.watches /\ kern'.refused = kern.refused /\ kern'.events = events
  BY <1>1, <1>2, <1>3 DEF KernStates
<1>5. told' \in [Files -> Nat]
  BY <1>1, <1>2 DEF TreeTypeOK, Told
<1>6. /\ run' \in RunStates /\ run'.at = run.at
      /\ \A x : OnWalk(x) => OnWalk(x)'
      /\ \A x \in kern.live : ev = [op |-> "create", name |-> x] => OnWalk([visit |-> x])'
  <2>1. CASE Exists(ev.name) /\ ev.name \in Dirs /\ ev.op = "create"
    <3> DEFINE stack == <<[visit |-> ev.name]>>
    <3>1. Goes("run", stack)
      BY <1>1, <2>1
    <3>2. [visit |-> ev.name] \in Steps
      BY <1>3 DEF Events, Steps
    <3>3. stack \in Seq(Steps) /\ \A x : Holds(stack, x) <=> x = [visit |-> ev.name]
      BY <3>2, OneHolds
    <3> HIDE DEF stack
    <3>4. "run" \in Walkers
      BY DEF Walkers
    <3>5. /\ run' \in RunStates /\ run'.at = run.at
          /\ \A x : Holds(stack, x) => OnWalk(x)'
          /\ \A x : OnWalk(x) => Holds(run.walk["run"], x) \/ OnWalk(x)'
      BY <1>2, <3>1, <3>3, <3>4, WalkMoves
    <3>6. \A x : ~Holds(run.walk["run"], x)
      BY <1>1 DEF Holds
    <3>7. \A x : ev = [op |-> "create", name |-> x] => x = ev.name
      BY <1>3 DEF Events
    <3>. QED BY <3>3, <3>5, <3>6, <3>7
  <2>2. CASE ~(Exists(ev.name) /\ ev.name \in Dirs /\ ev.op = "create")
    <3>1. run' = run
      BY <1>1, <2>2
    <3>2. \A x \in kern.live : ev # [op |-> "create", name |-> x]
      <4> SUFFICES ASSUME NEW x \in kern.live, ev = [op |-> "create", name |-> x] PROVE FALSE
        OBVIOUS
      <4>1. ev.name = x /\ ev.op = "create"
        OBVIOUS
      <4>2. x \in Dirs
        BY <1>2 DEF KernStates
      <4>. QED BY <2>2, <4>1, <4>2 DEF Exists
    <3>. QED BY <1>2, <3>1, <3>2 DEF OnWalk
  <2>. QED BY <2>1, <2>2
<1>7. TreeTypeOK' /\ Rooted' /\ Known'
  BY <1>1, <1>4, <1>5, <1>6 DEF TreeInv, TreeTypeOK, Rooted, Known
<1>8. OnItsWay'
  <2> SUFFICES ASSUME MayReturn = {}, closer.at = "no",
                      NEW x \in kern.live, x \notin kern.watches
               PROVE  Awaited(x)'
    BY <1>1, <1>4 DEF OnItsWay
  <2>1. Awaited(x)
    BY DEF TreeInv, OnItsWay
  <2>2. Announced(x) => Announced(x)' \/ Visiting(x)'
    BY <1>3, <1>4, <1>6 DEF Announced, Visiting
  <2>3. (Visiting(x) => Visiting(x)') /\ (Listing(In[x]) => Listing(In[x])')
    BY <1>6 DEF Visiting, Listing
  <2>. QED BY <1>4, <2>1, <2>2, <2>3 DEF Awaited
<1>9. Exiting'
  BY <1>1, <1>6 DEF TreeInv, Exiting
<1>. QED BY <1>7, <1>8, <1>9 DEF TreeInv

LEMMA CloseInv ==
    ASSUME TreeInv, CloseTree \/ RunExits \/ CloseTreeEnds
    PROVE  TreeInv'
<1>1. TreeTypeOK /\ run \in RunStates /\ kern \in KernStates
  BY DEF TreeInv, TreeTypeOK
<1>2. CASE CloseTree
  <2>1. /\ closer.at = "no" /\ closer' = [at |-> "closing"]
        /\ kern' = [kern EXCEPT !.watches = {}]
        /\ UNCHANGED <<mechanism, version, told, lost, book, run>>
    BY <1>2 DEF CloseTree, Fsnotify
  <2>2. kern' \in KernStates /\ kern'.live = kern.live /\ kern'.gone = kern.gone
    BY <1>1, <2>1 DEF KernStates
  <2>3. closer'.at = "closing" /\ closer' \in [at : {"no", "closing", "done"}]
    BY <2>1
  <2>4. TreeTypeOK' /\ Rooted' /\ Known' /\ OnItsWay'
    BY <2>1, <2>2, <2>3 DEF TreeInv, TreeTypeOK, Rooted, Known, OnItsWay
  <2>5. Exiting'
    BY <2>1, <2>3 DEF TreeInv, Exiting
  <2>. QED BY <2>4, <2>5 DEF TreeInv
<1>3. CASE RunExits
  <2>1. /\ run.walk["run"] = <<>> /\ closer.at = "closing"
        /\ run' = [run EXCEPT !.at = "exited"]
        /\ UNCHANGED <<mechanism, version, told, lost, kern, book, closer>>
    BY <1>3 DEF RunExits, Fsnotify
  <2>2. run' \in RunStates /\ run'.walk = run.walk /\ run'.at = "exited"
    BY <1>1, <2>1 DEF RunStates
  <2>3. TreeTypeOK' /\ Rooted' /\ Known'
    BY <2>1, <2>2 DEF TreeInv, TreeTypeOK, Rooted, Known
  <2>4. OnItsWay'
    BY <2>1 DEF OnItsWay
  <2>5. Exiting'
    BY <2>1, <2>2 DEF Exiting
  <2>. QED BY <2>3, <2>4, <2>5 DEF TreeInv
<1>4. CASE CloseTreeEnds
  <2>1. /\ closer.at = "closing" /\ run.at = "exited" /\ closer' = [at |-> "done"]
        /\ UNCHANGED <<mechanism, version, told, lost, kern, book, run>>
    BY <1>4 DEF CloseTreeEnds, Fsnotify
  <2>2. closer'.at = "done" /\ closer' \in [at : {"no", "closing", "done"}]
    BY <2>1
  <2>. QED BY <2>1, <2>2 DEF TreeInv, TreeTypeOK, Rooted, Known, OnItsWay, Exiting
<1>. QED BY <1>2, <1>3, <1>4

LEMMA TreeNextInv == TreeInv /\ [TreeNext]_backendVars => TreeInv'
<1> SUFFICES ASSUME TreeInv, [TreeNext]_backendVars PROVE TreeInv'
    OBVIOUS
<1>1. CASE \E d \in Subdirs : Mkdir(d) \/ RemoveDir(d)
  BY <1>1, MkdirInv, RemoveDirInv
<1>2. CASE \E f \in Files : Save(f)
  BY <1>2, SaveInv
<1>3. CASE \E w \in Walkers : Visit(w) \/ List(w) \/ VisitFile(w)
  BY <1>3, VisitInv, ListInv, VisitFileInv
<1>4. CASE HandleEvent
  BY <1>4, HandleEventInv
<1>5. CASE CloseTree \/ RunExits \/ CloseTreeEnds
  BY <1>5, CloseInv
<1>6. CASE UNCHANGED backendVars
  BY <1>6 DEF backendVars, TreeInv, TreeTypeOK, Rooted, Known, OnItsWay, Exiting, Awaited,
              Visiting, Listing, Announced, OnWalk
<1>. QED BY <1>1, <1>2, <1>3, <1>4, <1>5, <1>6 DEF TreeNext

-----------------------------------------------------------------------------
\* watch_other.go's goroutines keep TreeInv whatever the tree: the stacks and
\* the queue hold paths of the tree, no directory is there without its parent,
\* what is not watched is on its way, was named in the log or is in a directory
\* that is not watched, and run leaves only when Close asks.
THEOREM TreeTyped == TreeSpec => []TreeInv
<1>. QED BY TreeInitInv, TreeNextInv, PTL DEF TreeSpec

\* "so files written inside it are seen from here on" (watch_other.go): when a
\* removed directory is never created again, a directory that is there once the
\* queue is empty and no walk is under way is watched, or it is at or below one
\* on which fsw.Add failed and which the log named.  Without the hypothesis it
\* is false: watched is never told of a removal (feed_return).
THEOREM SeenUnlessItReturns == MayReturn = {} /\ TreeSpec => []SeenFromHereOn
<1> SUFFICES ASSUME MayReturn = {} PROVE TreeSpec => []SeenFromHereOn
    OBVIOUS
<1>1. TreeInv => SeenFromHereOn
  <2> DEFINE Named(d) == \E e \in kern.refused : d \in Below[e]
             S == {p \in Paths : p \in kern.live \ kern.watches => Named(p)}
  <2> SUFFICES ASSUME TreeInv, Settled PROVE \A d \in kern.live \ kern.watches : Named(d)
    BY DEF SeenFromHereOn
  <2>1. \A step : ~OnWalk(step)
    BY DEF Settled, OnWalk, Holds
  <2>2. \A d : ~Announced(d)
    BY DEF Settled, Announced, Holds
  <2>3. \A d \in kern.live \ kern.watches :
           d \in kern.refused \/ (d \notin Roots /\ In[d] \notin kern.watches)
    BY <2>1, <2>2 DEF Settled, TreeInv, OnItsWay, Awaited, Visiting, Listing
  <2>4. kern.live \subseteq Dirs /\ kern.refused \subseteq Dirs
    BY DEF TreeInv, TreeTypeOK, KernStates
  <2>5. \A d \in kern.refused : Named(d)
    BY <2>4, BelowHolds
  <2>6. Roots \subseteq S
    BY <2>3, <2>5, TreeShape
  <2>7. ASSUME NEW x \in Subdirs \cup Files, In[x] \in S PROVE x \in S
    <3> SUFFICES ASSUME x \in kern.live \ kern.watches, x \notin kern.refused PROVE Named(x)
      BY <2>5, TreeShape
    <3>1. x \notin Roots /\ In[x] \notin kern.watches
      BY <2>3
    <3>2. In[x] \in kern.live
      BY <3>1 DEF TreeInv, Rooted
    <3>3. PICK e \in kern.refused : In[x] \in Below[e]
      BY <2>7, <3>1, <3>2
    <3>4. x \in Below[e]
      BY <2>4, <3>3, BelowHolds
    <3>. QED BY <3>4
  <2>8. S \in SUBSET Paths
    OBVIOUS
  <2>9. S = Paths
    <3> HIDE DEF S
    <3>. QED BY <2>6, <2>7, <2>8, FromTheRoots
  <2>10. kern.live \subseteq Paths
    BY <2>4, TreeShape
  <2>. QED BY <2>9, <2>10
<1>. QED BY <1>1, TreeTyped, PTL

-----------------------------------------------------------------------------
\* Feed, step by step: a write is a Change; a removal and a file the startup
\* walk finds are a Lose; a report is a Tell, made while Close has not
\* returned, for run must have left first; CloseTreeEnds is Shut.
LEMMA TreePromiseInit == TreeInit => Promise!Init
<1> SUFFICES ASSUME TreeInit PROVE Promise!Init
    OBVIOUS
<1>1. closer.at = "no"
  BY DEF TreeInit
<1>2. (closer.at = "done") = FALSE
  BY <1>1
<1>. QED BY <1>2 DEF TreeInit, Promise!Init

LEMMA TreeNextKeeps == TreeInv /\ [TreeNext]_backendVars => [Promise!Next]_(Promise!vars)
<1> SUFFICES ASSUME TreeInv, [TreeNext]_backendVars
             PROVE  [Promise!Next]_(Promise!vars)
    OBVIOUS
<1> USE DEF Promise!Next, Promise!vars
<1>0. version \in [Files -> Nat] /\ told \in [Files -> Nat] /\ lost \in [Files -> Nat]
  BY DEF TreeInv, TreeTypeOK
<1>1. CASE UNCHANGED backendVars
  BY <1>1 DEF backendVars
<1>2. ASSUME NEW S \in SUBSET Files, Lose(S), UNCHANGED <<version, told, closer>>
      PROVE  Promise!Lose
  BY <1>2 DEF Lose, Promise!Lose
<1>3. ASSUME NEW f \in Files, Told(f), closer.at # "done", UNCHANGED <<version, lost, closer>>
      PROVE  Promise!Tell
  BY <1>3 DEF Told, Promise!Tell
<1>4. ASSUME UNCHANGED <<version, told, lost, closer>> PROVE UNCHANGED Promise!vars
  BY <1>4
<1>5. ASSUME NEW d \in Subdirs, Mkdir(d) PROVE [Promise!Next]_(Promise!vars)
  BY <1>4, <1>5 DEF Mkdir
<1>6. ASSUME NEW d \in Subdirs, RemoveDir(d) PROVE [Promise!Next]_(Promise!vars)
  <2>1. (kern.there \cap Below[d]) \in SUBSET Files
    BY DEF TreeInv, TreeTypeOK, KernStates
  <2>2. Lose(kern.there \cap Below[d]) /\ UNCHANGED <<version, told, closer>>
    BY <1>6 DEF RemoveDir
  <2>. QED BY <1>2, <2>1, <2>2
<1>7. ASSUME NEW f \in Files, Save(f) PROVE Promise!Change
  <2>1. /\ version' = [version EXCEPT ![f] = @ + 1] /\ UNCHANGED <<told, closer>>
        /\ lost' = IF LeftToRescan(f) THEN [lost EXCEPT ![f] = version'[f]] ELSE lost
    BY <1>7 DEF Save
  <2> DEFINE S0 == IF LeftToRescan(f) THEN {f} ELSE {}
  <2>2. /\ S0 \in SUBSET Files
        /\ lost' = [g \in Files |-> IF g \in S0 THEN version'[g] ELSE lost[g]]
    <3>1. CASE LeftToRescan(f)
      BY <1>0, <2>1, <3>1
    <3>2. CASE ~LeftToRescan(f)
      BY <1>0, <2>1, <3>2
    <3>. QED BY <3>1, <3>2
  <2> HIDE DEF S0
  <2>3. \E S \in SUBSET Files : lost' = [g \in Files |-> IF g \in S THEN version'[g] ELSE lost[g]]
    BY <2>2, Zenon
  <2>. QED BY <2>1, <2>3 DEF Promise!Change
<1>8. ASSUME NEW w \in Walkers, Visit(w) \/ List(w) PROVE UNCHANGED Promise!vars
  BY <1>8 DEF Visit, List
<1>9. ASSUME NEW w \in Walkers, VisitFile(w) PROVE [Promise!Next]_(Promise!vars)
  <2> DEFINE f == Head(run.walk[w]).visit
  <2>1. /\ run.walk[w] # <<>> /\ f \in Files /\ UNCHANGED <<version, closer>>
        /\ IF w = "new" THEN Lose({f}) /\ UNCHANGED told
           ELSE (IF f \in Transcripts THEN Told(f) ELSE UNCHANGED told) /\ UNCHANGED lost
    BY <1>9 DEF VisitFile
  <2> HIDE DEF f
  <2>2. CASE w = "new"
    <3>1. {f} \in SUBSET Files /\ Lose({f}) /\ UNCHANGED <<version, told, closer>>
      BY <2>1, <2>2
    <3>. QED BY <1>2, <3>1
  <2>3. CASE w = "run"
    <3>1. closer.at # "done"
      BY <2>1, <2>3 DEF TreeInv, Exiting
    <3>. QED BY <1>3, <1>4, <2>1, <2>3, <3>1
  <2>. QED BY <2>2, <2>3 DEF Walkers
<1>10. CASE HandleEvent
  <2> DEFINE p == Head(kern.events).name
  <2>1. /\ run.at = "select" /\ UNCHANGED <<version, lost, closer>>
        /\ (p \in Files /\ Told(p)) \/ UNCHANGED told
    BY <1>10, TreeShape DEF HandleEvent
  <2> HIDE DEF p
  <2>2. closer.at # "done"
    BY <2>1 DEF TreeInv, Exiting
  <2>. QED BY <1>3, <1>4, <2>1, <2>2
<1>11. CASE CloseTree \/ RunExits
  <2>1. closer.at # "done" /\ closer'.at # "done" /\ UNCHANGED <<version, told, lost>>
    BY <1>11 DEF CloseTree, RunExits
  <2>. QED BY <2>1
<1>12. CASE CloseTreeEnds
  <2>1. closer'.at = "done" /\ UNCHANGED <<version, told, lost>>
    BY <1>12 DEF CloseTreeEnds
  <2>. QED BY <2>1 DEF Promise!Shut
<1>. QED BY <1>1, <1>5, <1>6, <1>7, <1>8, <1>9, <1>10, <1>11, <1>12 DEF TreeNext

\* The fsnotify backend implements Feed (watch_other.go): a file is told of only
\* when it was changed since it was last told, with the version it has then, and
\* after Close has returned nothing is told.
THEOREM TreeKeepsPromise == TreeSpec => KeepsPromise
BY TreePromiseInit, TreeNextKeeps, TreeTyped, PTL DEF TreeSpec, KeepsPromise, Promise!Spec

=============================================================================
