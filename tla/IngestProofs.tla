---------------------------- MODULE IngestProofs ----------------------------
(***************************************************************************)
(* Theorems about Ingest.tla, for every set of paths, contents, lines,     *)
(* watchers and collectors and every bound.                                *)
(***************************************************************************)
EXTENDS Ingest, TLAPS, SequenceTheorems, WellFoundedInduction

(***************************************************************************)
(* Type correctness.  An ingest call names its rows after the session of   *)
(* the content it reads, so it is needed that a content a path names has   *)
(* one; and a content without one has no lines.                            *)
(***************************************************************************)
Owned ==
  /\ \A p \in Paths : at[p] # None => inode[at[p]].session # None
  /\ \A n \in Inodes : inode[n].session = None => inode[n].lines = <<>>

(* A call past "next" has a path in hand.                                  *)
HasPath(call) == call.pc \notin {"idle", "next"} => call.path \in Paths

InHand == \A i \in Ingesters : HasPath(proc[i])

TypeInv == TypeOK /\ Owned /\ InHand

(* Pairs of small facts the step proofs cite.                              *)
LEMMA IdleCall == Idle \in Call /\ HasPath(Idle)
BY DEF Idle, Call, HasPath

LEMMA CallNext ==
  ASSUME NEW call \in Call
  PROVE  NextPath(call) \in Call /\ HasPath(NextPath(call))
BY DEF NextPath, Idle, Call, HasPath

LEMMA RowsTyped ==
  ASSUME TypeInv, NEW p \in Paths, at[p] # None, NEW from \in Nat, NEW to \in Nat,
         to <= Len(inode[at[p]].lines) \/ to = from
  PROVE  /\ EventsIn(at[p], from, to) \subseteq EventRow
         /\ ToolsIn(at[p], from, to) \subseteq ToolRow
<1> DEFINE n == at[p]
<1>1. n \in Inodes /\ inode[n] \in Content /\ inode[n].session \in Sessions
  BY NoneAssumption DEF TypeInv, TypeOK, Owned, Content
<1>2. \A k \in (from + 1)..to : k \in 1..Len(inode[n].lines)
  BY <1>1 DEF Content
<1>3. \A k \in (from + 1)..to :
        inode[n].lines[k] \in [req: Reqs, out: 0..MaxOut, calls: SUBSET Calls, results: SUBSET Calls]
  BY <1>1, <1>2, LinesAssumption DEF Content
<1>4. EventsIn(n, from, to) \subseteq EventRow
  BY <1>1, <1>3 DEF EventsIn, EventRow
<1>5. ToolsIn(n, from, to) \subseteq ToolRow
  <2>1. CallsIn(n, from, to) \subseteq Calls /\ ResultsIn(n, from, to) \subseteq Calls
    BY <1>3 DEF CallsIn, ResultsIn
  <2>2. ASSUME NEW c \in Calls, NEW full \in BOOLEAN, NEW result \in BOOLEAN
        PROVE  [session |-> inode[n].session, call |-> c, full |-> full, result |-> result] \in ToolRow
    BY <1>1 DEF ToolRow
  <2>3. \A c : (c \in CallsIn(n, from, to)) \in BOOLEAN /\ (c \in ResultsIn(n, from, to)) \in BOOLEAN
    OBVIOUS
  <2>. HIDE DEF n
  <2>. QED BY <2>1, <2>2, <2>3, Zenon DEF ToolsIn
<1>. QED BY <1>4, <1>5

(* The agents' steps replace at most one content by a well-formed one.     *)
LEMMA OneContent ==
  ASSUME TypeInv, NEW n \in Inodes, NEW c \in Content, c.session # None,
         inode' = [inode EXCEPT ![n] = c], moves' \in Nat,
         at' \in [Paths -> Inodes \cup {None}], \A q \in Paths : at'[q] \in {at[q], n, None},
         UNCHANGED <<tables, proc, tailed, faults>>
  PROVE  TypeInv'
<1>1. inode' \in [Inodes -> Content] /\ \A m \in Inodes : inode'[m] = IF m = n THEN c ELSE inode[m]
  BY DEF TypeInv, TypeOK
<1>2. TypeOK'
  BY <1>1 DEF TypeInv, TypeOK, tables
<1>3. Owned'
  BY <1>1 DEF TypeInv, TypeOK, Owned
<1>4. InHand'
  BY DEF TypeInv, InHand
<1>. QED BY <1>2, <1>3, <1>4 DEF TypeInv

LEMMA TranscriptsTyped ==
  ASSUME TypeInv, Transcripts
  PROVE  TypeInv'
<1>1. ASSUME NEW p \in Paths, Create(p) PROVE TypeInv'
  <2>1. PICK n \in Inodes :
          /\ at' = [at EXCEPT ![p] = n]
          /\ inode' = [inode EXCEPT ![n].session = SessionOf[p]]
    BY <1>1 DEF Create
  <2>. DEFINE c == [inode[n] EXCEPT !.session = SessionOf[p]]
  <2>2. c \in Content /\ c.session # None
    <3>1. inode[n] \in Content /\ SessionOf[p] \in Sessions /\ SessionOf[p] # None
      BY PathsAssumption, NoneAssumption DEF TypeInv, TypeOK
    <3>. QED BY <3>1 DEF Content
  <2>3. inode' = [inode EXCEPT ![n] = c]
    BY <2>1
  <2>4. at' \in [Paths -> Inodes \cup {None}] /\ \A q \in Paths : at'[q] \in {at[q], n, None}
    BY <2>1 DEF TypeInv, TypeOK
  <2>5. moves' \in Nat /\ UNCHANGED <<tables, proc, tailed, faults>>
    BY <1>1 DEF Create, TypeInv, TypeOK
  <2>. HIDE DEF c
  <2>. QED BY <2>2, <2>3, <2>4, <2>5, OneContent
<1>2. ASSUME NEW p \in Paths, NEW l \in Lines, Write(p, l) PROVE TypeInv'
  <2>. DEFINE n == at[p]
              m == inode[n].mtime + 2 - inode[n].tail
              c == [inode[n] EXCEPT !.lines = Append(inode[n].lines, l), !.tail = 0,
                                    !.mtime = m]
  <2>1. n \in Inodes /\ inode[n] \in Content /\ inode[n].session # None
    BY <1>2 DEF Write, TypeInv, TypeOK, Owned
  <2>2. Append(inode[n].lines, l) \in Seq(Lines)
    BY <2>1, AppendProperties DEF Content
  <2>3. c \in Content /\ c.session # None
    <3>1. m \in Nat
      BY <2>1 DEF Content
    <3>. HIDE DEF n, m
    <3>. QED BY <2>1, <2>2, <3>1 DEF Content
  <2>4. inode' = [inode EXCEPT ![n] = c] /\ at' = at /\ UNCHANGED <<moves, tables, proc, tailed, faults>>
    BY <1>2 DEF Write
  <2>5. moves' \in Nat /\ at' \in [Paths -> Inodes \cup {None}]
    BY <2>4 DEF TypeInv, TypeOK
  <2>. HIDE DEF n, m, c
  <2>. QED BY <2>1, <2>3, <2>4, <2>5, OneContent
<1>3. ASSUME NEW p \in Paths, Tear(p) PROVE TypeInv'
  <2>. DEFINE n == at[p]
              m == inode[n].mtime + 1
              c == [inode[n] EXCEPT !.tail = 1, !.mtime = m]
  <2>1. n \in Inodes /\ inode[n] \in Content /\ inode[n].session # None
    BY <1>3 DEF Tear, TypeInv, TypeOK, Owned
  <2>2. c \in Content /\ c.session # None
    <3>1. m \in Nat
      BY <2>1 DEF Content
    <3>. HIDE DEF n, m
    <3>. QED BY <2>1, <3>1 DEF Content
  <2>3. inode' = [inode EXCEPT ![n] = c] /\ at' = at /\ UNCHANGED <<moves, tables, proc, tailed, faults>>
    BY <1>3 DEF Tear
  <2>4. moves' \in Nat /\ at' \in [Paths -> Inodes \cup {None}]
    BY <2>3 DEF TypeInv, TypeOK
  <2>. HIDE DEF n, m, c
  <2>. QED BY <2>1, <2>2, <2>3, <2>4, OneContent
<1>4. ASSUME NEW p \in Paths, Rewrite(p) PROVE TypeInv'
  <2>. DEFINE old == inode[at[p]]
  <2>1. old \in Content /\ old.session # None
    BY <1>4 DEF Rewrite, TypeInv, TypeOK, Owned
  <2>2. PICK n \in Inodes, k \in 1..Len(old.lines) :
          /\ at' = [at EXCEPT ![p] = n]
          /\ inode' = [inode EXCEPT ![n] =
               [session |-> old.session, lines |-> SubSeq(old.lines, k + 1, Len(old.lines)),
                tail |-> 0, mtime |-> old.mtime + 1]]
    BY <1>4 DEF Rewrite
  <2>. DEFINE c == [session |-> old.session, lines |-> SubSeq(old.lines, k + 1, Len(old.lines)),
                    tail |-> 0, mtime |-> old.mtime + 1]
  <2>3. SubSeq(old.lines, k + 1, Len(old.lines)) \in Seq(Lines)
    BY <2>1, SubSeqProperties DEF Content
  <2>4. c \in Content /\ c.session # None
    BY <2>1, <2>3 DEF Content
  <2>5. at' \in [Paths -> Inodes \cup {None}] /\ \A q \in Paths : at'[q] \in {at[q], n, None}
    BY <2>2 DEF TypeInv, TypeOK
  <2>6. moves' \in Nat /\ UNCHANGED <<tables, proc, tailed, faults>>
    BY <1>4 DEF Rewrite, TypeInv, TypeOK
  <2>7. inode' = [inode EXCEPT ![n] = c]
    BY <2>2
  <2>. HIDE DEF old, c
  <2>. QED BY <2>4, <2>5, <2>6, <2>7, OneContent
<1>4a. ASSUME NEW p \in Paths, Recreate(p) PROVE TypeInv'
  <2>1. PICK n \in Inodes, o \in Inodes :
          /\ at' = [at EXCEPT ![p] = n]
          /\ inode' = [inode EXCEPT ![n] =
               [session |-> SessionOf[p], lines |-> <<>>, tail |-> 0,
                mtime |-> inode[o].mtime + 1]]
    BY <1>4a DEF Recreate
  <2>. DEFINE m == inode[o].mtime + 1
              c == [session |-> SessionOf[p], lines |-> <<>>, tail |-> 0, mtime |-> m]
  <2>2. m \in Nat
    BY <2>1 DEF TypeInv, TypeOK, Content
  <2>3. inode' = [inode EXCEPT ![n] = c]
    BY <2>1
  <2>4. SessionOf[p] \in Sessions /\ SessionOf[p] # None /\ <<>> \in Seq(Lines)
    BY PathsAssumption, NoneAssumption
  <2>. HIDE DEF m
  <2>5. c \in Content /\ c.session # None
    BY <2>2, <2>4 DEF Content
  <2>6. at' \in [Paths -> Inodes \cup {None}] /\ \A q \in Paths : at'[q] \in {at[q], n, None}
    BY <2>1 DEF TypeInv, TypeOK
  <2>7. moves' \in Nat /\ UNCHANGED <<tables, proc, tailed, faults>>
    BY <1>4a DEF Recreate, TypeInv, TypeOK
  <2>. HIDE DEF c
  <2>. QED BY <2>3, <2>5, <2>6, <2>7, OneContent
<1>5. ASSUME NEW p \in Paths, Delete(p) PROVE TypeInv'
  BY <1>5 DEF Delete, TypeInv, TypeOK, Owned, InHand, tables
<1>6. ASSUME NEW p \in Paths, NEW q \in Paths, Move(p, q) PROVE TypeInv'
  BY <1>6 DEF Move, TypeInv, TypeOK, Owned, InHand, tables
<1>. QED BY <1>1, <1>2, <1>3, <1>4, <1>4a, <1>5, <1>6 DEF Transcripts

(* A step of one ingest call that leaves the disk alone.                   *)
LEMMA OneCall ==
  ASSUME TypeInv, NEW i \in Ingesters, NEW c \in Call, HasPath(c), proc' = [proc EXCEPT ![i] = c],
         UNCHANGED disk, faults' \in Nat, events' \subseteq EventRow, toolCalls' \subseteq ToolKey,
         toolResults' \subseteq ToolKey, cursor' \in [Paths -> CursorRow \cup {None}],
         tailed' \subseteq Paths
  PROVE  TypeInv'
BY DEF TypeInv, TypeOK, Owned, InHand, disk

(* Each step of an ingest call yields a call again.                        *)
LEMMA IngestStepTyped ==
  ASSUME TypeInv, NEW i \in Ingesters, IngestStep(i)
  PROVE  TypeInv'
<1>. DEFINE call == proc[i]
<1>0. call \in Call /\ HasPath(call)
  BY DEF TypeInv, TypeOK, InHand
<1>. USE DEF At
<1>1. CASE ReadCursor(i)
  <2>1. PICK p \in call.files :
          LET cur == IF call.force THEN None ELSE cursor[p] IN
            proc' = [proc EXCEPT ![i] =
                       IF cur # None /\ p \in call.trusted
                       THEN NextPath([call EXCEPT !.path = p])
                       ELSE [call EXCEPT !.pc = "stat", !.path = p, !.cur = cur]]
    BY <1>1 DEF ReadCursor
  <2>2. p \in Paths /\ cursor[p] \in CursorRow \cup {None}
    BY <1>0, <2>1 DEF TypeInv, TypeOK, Call
  <2>3. [call EXCEPT !.path = p] \in Call
    BY <1>0, <2>2 DEF Call
  <2>. DEFINE cur == IF call.force THEN None ELSE cursor[p]
              read == [call EXCEPT !.pc = "stat", !.path = p, !.cur = cur]
              c == IF cur # None /\ p \in call.trusted
                   THEN NextPath([call EXCEPT !.path = p]) ELSE read
  <2>4. cur \in CursorRow \cup {None}
    BY <2>2
  <2>5. read \in Call /\ HasPath(read)
    <3>. HIDE DEF cur
    <3>. QED BY <1>0, <2>2, <2>4 DEF Call, HasPath
  <2>6. c \in Call /\ HasPath(c)
    <3>. HIDE DEF cur, read
    <3>. QED BY <2>3, <2>5, CallNext
  <2>7. proc' = [proc EXCEPT ![i] = c]
    BY <2>1
  <2>. HIDE DEF c
  <2>. QED BY <1>1, <2>6, <2>7, OneCall DEF ReadCursor, TypeInv, TypeOK, tables
<1>2. CASE Stat(i)
  <2>. DEFINE n == at[call.path]
              ino == IF call.cur = None THEN None ELSE call.cur.ino
              start == StartOffset(call.cur, n)
              mtime == inode[n].mtime
              size == Size(n)
              read == [call EXCEPT !.pc = "parse", !.cur = None, !.mtime = mtime, !.size = size,
                                   !.start = start, !.ino = ino]
  <2>1. proc' = [proc EXCEPT ![i] = IF n = None \/ (n # None /\ FullyRead(call.cur, n))
                                    THEN NextPath(call) ELSE read]
    BY <1>2 DEF Stat
  <2>2. ASSUME n # None PROVE read \in Call /\ HasPath(read)
    <3>1. call.path \in Paths /\ n \in Inodes /\ inode[n] \in Content
      BY <1>0, <1>2, <2>2 DEF Stat, HasPath, TypeInv, TypeOK
    <3>2. mtime \in Nat /\ size \in Nat
      BY <3>1 DEF Size, Content
    <3>3. start \in Nat /\ ino \in Inodes \cup {None}
      BY <1>0 DEF StartOffset, Call, CursorRow
    <3>. HIDE DEF n, ino, start, mtime, size
    <3>. QED BY <1>0, <3>1, <3>2, <3>3 DEF Call, HasPath
  <2>. DEFINE c == IF n = None \/ (n # None /\ FullyRead(call.cur, n)) THEN NextPath(call) ELSE read
  <2>3. c \in Call /\ HasPath(c)
    <3>. HIDE DEF read
    <3>. QED BY <1>0, <2>2, CallNext
  <2>4. proc' = [proc EXCEPT ![i] = c]
    BY <2>1
  <2>. HIDE DEF c
  <2>. QED BY <1>2, <2>3, <2>4, OneCall DEF Stat, TypeInv, TypeOK, tables
<1>3. CASE Parse(i)
  <2>. DEFINE n == at[call.path]
              end == ParseEnd(n, call.start)
              rows == LargestOutputWins(EventsIn(n, call.start, end))
              tools == ToolsIn(n, call.start, end)
              ino == IF call.start = 0 \/ call.ino = n THEN n ELSE None
              pc == AfterRows(rows, tools)
              read == [call EXCEPT !.pc = pc, !.end = end, !.ino = ino, !.rows = rows,
                                   !.tools = tools]
  <2>1. proc' = [proc EXCEPT ![i] = IF n = None THEN NextPath(call) ELSE read]
    BY <1>3 DEF Parse
  <2>2. ASSUME n # None PROVE read \in Call /\ HasPath(read)
    <3>1. call.path \in Paths /\ n \in Inodes /\ inode[n] \in Content
      BY <1>0, <1>3, <2>2 DEF Parse, HasPath, TypeInv, TypeOK
    <3>2. end \in Nat /\ (end <= Len(inode[n].lines) \/ end = call.start) /\ call.start \in Nat
      BY <1>0, <3>1 DEF ParseEnd, Call, Content
    <3>3. EventsIn(n, call.start, end) \subseteq EventRow /\ tools \subseteq ToolRow
      BY <2>2, <3>1, <3>2, RowsTyped
    <3>4. rows \subseteq EventRow
      BY <3>3 DEF LargestOutputWins
    <3>5. ino \in Inodes \cup {None} /\ pc \in {"events", "tools", "cursor"}
      BY <3>1 DEF AfterRows
    <3>. HIDE DEF n, end, rows, tools, ino, pc
    <3>. QED BY <1>0, <3>1, <3>2, <3>3, <3>4, <3>5 DEF Call, HasPath
  <2>. DEFINE c == IF n = None THEN NextPath(call) ELSE read
  <2>3. c \in Call /\ HasPath(c)
    <3>. HIDE DEF read
    <3>. QED BY <1>0, <2>2, CallNext
  <2>4. proc' = [proc EXCEPT ![i] = c]
    BY <2>1
  <2>. HIDE DEF c
  <2>. QED BY <1>3, <2>3, <2>4, OneCall DEF Parse, TypeInv, TypeOK, tables
<1>4. CASE UpsertEvents(i)
  <2>1. PICK b \in SUBSET call.rows :
          /\ events' = Upserted(events, b)
          /\ proc' = [proc EXCEPT ![i].rows = call.rows \ b,
                                  ![i].pc = AfterRows(call.rows \ b, call.tools)]
    BY <1>4 DEF UpsertEvents
  <2>2. events' \subseteq EventRow
    BY <1>0, <2>1 DEF Upserted, LargestOutputWins, TypeInv, TypeOK, Call
  <2>. DEFINE rows == call.rows \ b
              pc == AfterRows(rows, call.tools)
              c == [call EXCEPT !.rows = rows, !.pc = pc]
  <2>3. rows \subseteq EventRow /\ pc \in {"events", "tools", "cursor"}
    BY <1>0 DEF AfterRows, Call
  <2>4. proc' = [proc EXCEPT ![i] = c]
    BY <2>1 DEF TypeInv, TypeOK
  <2>5. c \in Call /\ HasPath(c)
    <3>1. call.path \in Paths
      BY <1>0, <1>4 DEF UpsertEvents, HasPath
    <3>. HIDE DEF rows, pc
    <3>. QED BY <1>0, <2>3, <3>1 DEF Call, HasPath
  <2>. HIDE DEF c
  <2>. QED BY <1>4, <2>2, <2>4, <2>5, OneCall DEF UpsertEvents, TypeInv, TypeOK
<1>5. CASE UpsertToolCalls(i)
  <2>1. PICK b \in SUBSET call.tools :
          /\ toolCalls' = toolCalls \cup {KeyOf(t) : t \in {u \in b : u.full}}
          /\ toolResults' = toolResults
               \cup {KeyOf(t) : t \in {u \in b : u.result /\ (u.full \/ KeyOf(u) \in toolCalls)}}
          /\ proc' = [proc EXCEPT ![i].tools = call.tools \ b,
                                  ![i].pc = AfterRows({}, call.tools \ b)]
    BY <1>5 DEF UpsertToolCalls
  <2>2. \A t \in b : KeyOf(t) \in ToolKey
    BY <1>0 DEF Call, ToolRow, ToolKey, KeyOf
  <2>3. toolCalls' \subseteq ToolKey /\ toolResults' \subseteq ToolKey
    BY <2>1, <2>2 DEF TypeInv, TypeOK
  <2>. DEFINE tools == call.tools \ b
              pc == AfterRows({}, tools)
              c == [call EXCEPT !.tools = tools, !.pc = pc]
  <2>4. tools \subseteq ToolRow /\ pc \in {"events", "tools", "cursor"}
    BY <1>0 DEF AfterRows, Call
  <2>5. proc' = [proc EXCEPT ![i] = c]
    BY <2>1 DEF TypeInv, TypeOK
  <2>6. c \in Call /\ HasPath(c)
    <3>1. call.path \in Paths
      BY <1>0, <1>5 DEF UpsertToolCalls, HasPath
    <3>. HIDE DEF tools, pc
    <3>. QED BY <1>0, <2>4, <3>1 DEF Call, HasPath
  <2>. HIDE DEF c
  <2>. QED BY <1>5, <2>3, <2>5, <2>6, OneCall DEF UpsertToolCalls, TypeInv, TypeOK
<1>6. CASE SetCursor(i)
  <2>. DEFINE row == [off |-> call.end, mtime |-> call.mtime, size |-> call.size, ino |-> call.ino]
  <2>1. row \in CursorRow
    BY <1>0 DEF Call, CursorRow
  <2>2. call.path \in Paths
    BY <1>0, <1>6 DEF SetCursor, HasPath
  <2>3. cursor' \in [Paths -> CursorRow \cup {None}]
    BY <1>6, <2>1, <2>2 DEF SetCursor, TypeInv, TypeOK
  <2>4. tailed' \subseteq Paths
    BY <1>6, <2>2 DEF SetCursor, TypeInv, TypeOK
  <2>5. NextPath(call) \in Call /\ HasPath(NextPath(call)) /\ proc' = [proc EXCEPT ![i] = NextPath(call)]
    BY <1>0, <1>6, CallNext DEF SetCursor
  <2>. QED BY <1>6, <2>3, <2>4, <2>5, OneCall DEF SetCursor, TypeInv, TypeOK
<1>. QED BY <1>1, <1>2, <1>3, <1>4, <1>5, <1>6 DEF IngestStep

LEMMA TypeInit == Init => TypeInv
<1>. SUFFICES ASSUME Init PROVE TypeInv
  OBVIOUS
<1>1. Blank \in Content
  BY EmptySeq DEF Blank, Content
<1>2. TypeOK
  BY <1>1, IdleCall DEF Init, TypeOK
<1>3. Owned /\ InHand
  BY IdleCall DEF Init, Owned, InHand, Blank
<1>. QED BY <1>2, <1>3 DEF TypeInv

LEMMA BeginTyped ==
  ASSUME TypeInv, NEW i \in Ingesters, NEW files \in SUBSET Paths, NEW trusted \in SUBSET Paths,
         NEW force \in BOOLEAN, Begin(i, files, trusted, force),
         UNCHANGED <<disk, tables, tailed, faults>>
  PROVE  TypeInv'
<1>. DEFINE c == [Idle EXCEPT !.pc = "next", !.files = files, !.trusted = trusted, !.force = force]
<1>1. c \in Call /\ HasPath(c)
  BY DEF Idle, Call, HasPath
<1>2. proc' = [proc EXCEPT ![i] = c]
  BY DEF Begin
<1>. HIDE DEF c
<1>. QED BY <1>1, <1>2, OneCall DEF TypeInv, TypeOK, tables

LEMMA FaultsTyped ==
  ASSUME TypeInv, Crash \/ \E i \in Ingesters : StoreError(i) \/ ReadError(i)
  PROVE  TypeInv'
<1>1. ASSUME NEW i \in Ingesters, StoreError(i) \/ ReadError(i) PROVE TypeInv'
  <2>1. NextPath(proc[i]) \in Call /\ HasPath(NextPath(proc[i]))
    BY CallNext DEF TypeInv, TypeOK
  <2>2. faults' \in Nat
    BY <1>1 DEF StoreError, ReadError, TypeInv, TypeOK
  <2>3. CASE StoreError(i)
    BY <2>2, <2>3, IdleCall, OneCall DEF StoreError, TypeInv, TypeOK, tables
  <2>4. CASE ReadError(i)
    BY <2>1, <2>2, <2>4, OneCall DEF ReadError, TypeInv, TypeOK, tables
  <2>. QED BY <1>1, <2>3, <2>4
<1>2. CASE Crash
  BY <1>2, IdleCall DEF Crash, TypeInv, TypeOK, Owned, InHand, disk, tables
<1>. QED BY <1>1, <1>2

LEMMA TypeStep == TypeInv /\ [Next]_vars => TypeInv'
<1>. SUFFICES ASSUME TypeInv, [Next]_vars PROVE TypeInv'
  OBVIOUS
<1>1. CASE Transcripts
  BY <1>1, TranscriptsTyped
<1>3. ASSUME NEW w \in Watchers, NEW p \in Paths, IngestFile(w, p) PROVE TypeInv'
  BY <1>3, BeginTyped DEF IngestFile, Ingesters
<1>4. ASSUME NEW c \in Collectors, NEW trusted \in {{}, Slow}, NEW force \in BOOLEAN,
             IngestListed(c, trusted, force)
      PROVE  TypeInv'
  BY <1>4, BeginTyped, PathsAssumption DEF IngestListed, FindJSONL, Ingesters
<1>5. ASSUME NEW i \in Ingesters, IngestStep(i) PROVE TypeInv'
  BY <1>5, IngestStepTyped
<1>6. CASE Faults
  BY <1>6, FaultsTyped DEF Faults
<1>8. CASE UNCHANGED vars
  BY <1>8 DEF vars, TypeInv, TypeOK, Owned, InHand
<1>. QED BY <1>1, <1>3, <1>4, <1>5, <1>6, <1>8 DEF Next

(* Every state of the ingest model is well-typed: whatever calls overlap,  *)
(* no cursor gets a negative offset and no row a session that is none.     *)
THEOREM TypeCorrect == Spec => []TypeOK
<1>1. TypeInv => TypeOK
  BY DEF TypeInv
<1>. QED BY <1>1, TypeInit, TypeStep, PTL DEF Spec

-----------------------------------------------------------------------------
(***************************************************************************)
(* No line is skipped.  The invariant adds to CursorCovers what the calls  *)
(* under way hold in their hands (InFlightSafe): an offset alone says      *)
(* nothing of the rows between the last commit and the cursor.  It is kept *)
(* session by session, for a prune (Collect.tla) breaks it for those it    *)
(* takes and for no other.                                                 *)
(***************************************************************************)
Reads(i, s) == proc[i].path \in Paths /\ SessionOf[proc[i].path] = s

SessionSafe(s) ==
  /\ \A p \in Paths : SessionOf[p] = s => Vouched(p)
  /\ \A i \in Ingesters : Reads(i, s) => InFlight(i)

SkipInv == TypeInv /\ \A s \in Sessions : SessionSafe(s)

(* Every nonempty set of outputs has a largest one.                        *)
LEMMA LargestOutput ==
  ASSUME NEW B \in Nat, NEW S \in SUBSET (0..B), S # {}
  PROVE  \E m \in S : \A x \in S : x <= m
<1>. DEFINE T == {B - x : x \in S}
            R == {e \in Nat \X Nat : e[1] < e[2]}
<1>1. IsWellFoundedOn(R, Nat)
  <2>1. R = OpToRel(<, Nat)
    BY Zenon DEF OpToRel
  <2>. QED BY <2>1, NatLessThanWellFounded, Zenon
<1>2. T \subseteq Nat /\ T # {}
  <2>1. \A x \in S : B - x \in Nat
    OBVIOUS
  <2>. QED BY <2>1
<1>3. PICK t \in T : \A u \in T : ~ (u < t)
  <2>1. PICK t \in T : \A u \in T : ~ (<<u, t>> \in R)
    <3>. HIDE DEF T, R
    <3>. QED BY <1>1, <1>2, WFMin
  <2>2. \A u \in T : u \in Nat /\ t \in Nat
    BY <1>2
  <2>. QED BY <2>1, <2>2
<1>4. PICK m \in S : t = B - m
  OBVIOUS
<1>5. \A x \in S : ~ (B - x < B - m)
  BY <1>3, <1>4
<1>. QED BY <1>5

(* Merging rows loses no request's count: a row with at least its output   *)
(* stays.                                                                  *)
LEMMA LargestStays ==
  ASSUME NEW rows \in SUBSET EventRow, NEW r \in rows
  PROVE  \E q \in LargestOutputWins(rows) : q.session = r.session /\ q.req = r.req /\ q.out >= r.out
<1>. DEFINE same == {q \in rows : q.session = r.session /\ q.req = r.req}
            outs == {q.out : q \in same}
<1>1. outs \in SUBSET (0..MaxOut) /\ outs # {} /\ MaxOut \in Nat
  BY LinesAssumption DEF EventRow
<1>2. PICK m \in outs : \A x \in outs : x <= m
  <2>. HIDE DEF outs
  <2>. QED BY <1>1, LargestOutput
<1>3. PICK q \in same : q.out = m
  OBVIOUS
<1>4. q \in LargestOutputWins(rows)
  BY <1>2, <1>3 DEF LargestOutputWins
<1>5. r.out <= q.out /\ r.out \in Int /\ q.out \in Int
  BY <1>2, <1>3 DEF EventRow
<1>. QED BY <1>3, <1>4, <1>5

(* What a step may do to what is already stored: nothing but let it grow.  *)
Grows ==
  /\ \A r \in events :
       \E q \in events' : q.session = r.session /\ q.req = r.req /\ q.out >= r.out
  /\ toolCalls \subseteq toolCalls'
  /\ toolResults \subseteq toolResults'
  /\ \A n \in Inodes :
       /\ Len(inode[n].lines) <= Len(inode'[n].lines)
       /\ \A k \in 1..Len(inode[n].lines) :
            inode'[n].lines[k] = inode[n].lines[k] /\ inode'[n].session = inode[n].session

LEMMA EventGrows ==
  ASSUME TypeInv, TypeInv', Grows, NEW s, NEW l \in Lines, EventStored(s, l)
  PROVE  EventStored(s, l)'
<1>1. PICK r \in events : r.session = s /\ r.req = l.req /\ r.out >= l.out
  BY DEF EventStored
<1>2. PICK q \in events' : q.session = r.session /\ q.req = r.req /\ q.out >= r.out
  BY DEF Grows
<1>3. l.out \in Int /\ r.out \in Int /\ q.out \in Int
  BY LinesAssumption DEF TypeInv, TypeOK, EventRow
<1>. QED BY <1>1, <1>2, <1>3 DEF EventStored

LEMMA LineGrows ==
  ASSUME TypeInv, TypeInv', Grows, NEW n \in Inodes, NEW k \in 1..Len(inode[n].lines)
  PROVE  /\ inode'[n].session = inode[n].session
         /\ inode[n].lines[k] \in Lines
         /\ \A j \in 1..k : inode'[n].lines[j] = inode[n].lines[j]
<1>1. inode[n].lines \in Seq(Lines)
  BY DEF TypeInv, TypeOK, Content
<1>. QED BY <1>1 DEF Grows

LEMMA StoredGrows ==
  ASSUME TypeInv, TypeInv', Grows, NEW n \in Inodes, NEW end \in Nat, Stored(n, end)
  PROVE  Stored(n, end)'
<1>1. ASSUME NEW k \in 1..end PROVE LineStored(n, k)'
  <2>1. LineStored(n, k) /\ k \in 1..Len(inode[n].lines)
    <3>1. inode[n].lines \in Seq(Lines)
      BY DEF TypeInv, TypeOK, Content
    <3>. QED BY <3>1 DEF Stored
  <2>. QED BY <2>1, LineGrows, EventGrows DEF LineStored, CallStored, ResultStored, Grows
<1>2. (end <= Len(inode[n].lines))'
  <2>1. inode[n].lines \in Seq(Lines) /\ inode'[n].lines \in Seq(Lines)
    BY DEF TypeInv, TypeOK, Content
  <2>. QED BY <2>1 DEF Stored, Grows
<1>. QED BY <1>1, <1>2 DEF Stored

LEMMA LineSafeGrows ==
  ASSUME TypeInv, TypeInv', Grows, NEW i \in Ingesters, proc'[i] = proc[i],
         NEW n \in Inodes, NEW k \in 1..Len(inode[n].lines), LineSafe(i, n, k)
  PROVE  LineSafe(i, n, k)'
<1>. DEFINE s == inode[n].session
            l == inode[n].lines[k]
            key(x) == [session |-> s, call |-> x]
<1>1. /\ inode'[n].session = s
      /\ l \in Lines
      /\ \A j \in 1..k : inode'[n].lines[j] = inode[n].lines[j]
      /\ inode'[n].lines[k] = l
  BY LineGrows
<1>2. (\E r \in proc[i].rows : r.session = s /\ r.req = l.req /\ r.out >= l.out)
      \/ EventStored(s, l)'
  BY <1>1, EventGrows DEF LineSafe
<1>3. \A x \in l.calls : CallStored(s, x)' \/ \E t \in proc[i].tools : t.full /\ KeyOf(t) = key(x)
  BY DEF LineSafe, CallStored, Grows
<1>4. \A x \in l.results : (\E j \in 1..k : x \in inode[n].lines[j].calls) =>
        \/ ResultStored(s, x)'
        \/ \E t \in proc[i].tools : t.result /\ KeyOf(t) = key(x) /\ (t.full \/ CallStored(s, x)')
  BY DEF LineSafe, CallStored, ResultStored, Grows
<1>. QED BY <1>1, <1>2, <1>3, <1>4 DEF LineSafe, EventStored, CallStored, ResultStored

(* A call that does not move keeps what it holds.                          *)
LEMMA InFlightGrows ==
  ASSUME TypeInv, TypeInv', Grows, NEW i \in Ingesters, proc'[i] = proc[i], InFlight(i)
  PROVE  InFlight(i)'
<1>. DEFINE call == proc[i]
<1>1. call \in Call
  BY DEF TypeInv, TypeOK
<1>2. (call.pc = "stat" /\ call.cur # None /\ call.cur.ino # None)
        => Stored(call.cur.ino, call.cur.off)'
  BY <1>1, StoredGrows DEF InFlight, Call, CursorRow
<1>3. (call.pc = "parse" /\ call.ino # None) => Stored(call.ino, call.start)'
  BY <1>1, StoredGrows DEF InFlight, Call
<1>4. ASSUME call.pc \in {"events", "tools", "cursor"}, call.ino # None
      PROVE  /\ call.end <= Len(inode'[call.ino].lines)
             /\ \A k \in 1..call.end : LineSafe(i, call.ino, k)'
  <2>1. call.ino \in Inodes /\ call.end \in Nat
    BY <1>1, <1>4 DEF Call
  <2>2. /\ call.end <= Len(inode[call.ino].lines)
        /\ \A k \in 1..call.end : LineSafe(i, call.ino, k)
    BY <1>4 DEF InFlight
  <2>3. inode[call.ino].lines \in Seq(Lines) /\ inode'[call.ino].lines \in Seq(Lines)
    BY <2>1 DEF TypeInv, TypeOK, Content
  <2>4. call.end <= Len(inode'[call.ino].lines)
    BY <2>1, <2>2, <2>3 DEF Grows
  <2>5. \A k \in 1..call.end : k \in 1..Len(inode[call.ino].lines)
    BY <2>1, <2>2, <2>3
  <2>. QED BY <2>1, <2>2, <2>4, <2>5, LineSafeGrows
<1>. QED BY <1>2, <1>3, <1>4 DEF InFlight

(* What a cursor vouches for stays vouched for.                            *)
LEMMA VouchedGrows ==
  ASSUME TypeInv, TypeInv', Grows, NEW p \in Paths, cursor'[p] = cursor[p], Vouched(p)
  PROVE  Vouched(p)'
<1>1. cursor[p] # None => cursor[p] \in CursorRow
  BY DEF TypeInv, TypeOK
<1>. QED BY <1>1, StoredGrows DEF Vouched, CursorRow

(* The invariant after a step in which at most one call moves and no       *)
(* cursor is set.                                                          *)
LEMMA OneCallSkips ==
  ASSUME TypeInv, TypeInv', Grows, UNCHANGED cursor, NEW s, SessionSafe(s),
         NEW i \in Ingesters, Reads(i, s)' => InFlight(i)',
         \A j \in Ingesters \ {i} : proc'[j] = proc[j]
  PROVE  SessionSafe(s)'
<1>1. ASSUME NEW p \in Paths, SessionOf[p] = s PROVE Vouched(p)'
  BY <1>1, VouchedGrows DEF SessionSafe
<1>2. ASSUME NEW j \in Ingesters, Reads(j, s)' PROVE InFlight(j)'
  BY <1>2, InFlightGrows DEF SessionSafe, Reads
<1>. QED BY <1>1, <1>2 DEF SessionSafe

LEMMA NothingLost ==
  ASSUME TypeInv, UNCHANGED tables,
         \A n \in Inodes :
           /\ Len(inode[n].lines) <= Len(inode'[n].lines)
           /\ \A k \in 1..Len(inode[n].lines) :
                inode'[n].lines[k] = inode[n].lines[k] /\ inode'[n].session = inode[n].session
  PROVE  Grows
<1>1. \A r \in events : r.out \in Int
  BY LinesAssumption DEF TypeInv, TypeOK, EventRow
<1>. QED BY <1>1 DEF Grows, tables

(* A call without a path to read is trivially safe.                        *)
LEMMA RestingSafe ==
  ASSUME NEW i \in Ingesters, proc'[i].pc \in {"idle", "next"}
  PROVE  InFlight(i)'
BY DEF InFlight

LEMMA TranscriptsGrow ==
  ASSUME TypeInv, Transcripts
  PROVE  Grows /\ UNCHANGED <<tables, proc>>
<1>1. \A n \in Inodes : inode[n] \in Content /\ inode[n].lines \in Seq(Lines)
  BY DEF TypeInv, TypeOK, Content
<1>2. ASSUME NEW p \in Paths, Create(p) PROVE Grows /\ UNCHANGED <<tables, proc>>
  <2>1. PICK n \in Inodes :
          inode[n].session = None /\ inode' = [inode EXCEPT ![n].session = SessionOf[p]]
    BY <1>2 DEF Create
  <2>2. inode[n].lines = <<>> /\ inode'[n].lines = <<>>
    BY <1>1, <2>1 DEF TypeInv, TypeOK, Owned, Content
  <2>3. \A m \in Inodes : m # n => inode'[m] = inode[m]
    BY <2>1 DEF TypeInv, TypeOK
  <2>4. /\ Len(inode[n].lines) <= Len(inode'[n].lines)
        /\ \A k \in 1..Len(inode[n].lines) :
             inode'[n].lines[k] = inode[n].lines[k] /\ inode'[n].session = inode[n].session
    BY <2>2
  <2>5. UNCHANGED <<tables, proc>>
    BY <1>2 DEF Create
  <2>. QED BY <1>1, <2>3, <2>4, <2>5, NothingLost
<1>3. ASSUME NEW p \in Paths, NEW l \in Lines, Write(p, l) PROVE Grows /\ UNCHANGED <<tables, proc>>
  <2>. DEFINE n == at[p]
  <2>1. n \in Inodes
    BY <1>3 DEF Write, TypeInv, TypeOK
  <2>2. inode'[n].lines = Append(inode[n].lines, l) /\ inode'[n].session = inode[n].session
    BY <1>1, <1>3, <2>1 DEF Write, TypeInv, TypeOK, Content
  <2>3. \A m \in Inodes : m # n => inode'[m] = inode[m]
    BY <1>3 DEF Write, TypeInv, TypeOK
  <2>. HIDE DEF n
  <2>4. /\ Len(inode[n].lines) <= Len(inode'[n].lines)
        /\ \A k \in 1..Len(inode[n].lines) : inode'[n].lines[k] = inode[n].lines[k]
    BY <1>1, <2>1, <2>2
  <2>. QED BY <1>1, <1>3, <2>2, <2>3, <2>4, NothingLost DEF Write
<1>4. ASSUME NEW p \in Paths, Tear(p) PROVE Grows /\ UNCHANGED <<tables, proc>>
  <2>1. at[p] \in Inodes
    BY <1>4 DEF Tear, TypeInv, TypeOK
  <2>2. \A m \in Inodes : inode'[m].lines = inode[m].lines /\ inode'[m].session = inode[m].session
    BY <1>1, <1>4, <2>1 DEF Tear, TypeInv, TypeOK, Content
  <2>. QED BY <1>1, <1>4, <2>2, NothingLost DEF Tear
<1>5. ASSUME NEW p \in Paths, Rewrite(p) PROVE Grows /\ UNCHANGED <<tables, proc>>
  <2>. DEFINE old == inode[at[p]]
  <2>1. PICK n \in Inodes, k \in 1..Len(old.lines) :
          /\ inode[n].session = None
          /\ inode' = [inode EXCEPT ![n] =
               [session |-> old.session, lines |-> SubSeq(old.lines, k + 1, Len(old.lines)),
                tail |-> 0, mtime |-> old.mtime + 1]]
    BY <1>5 DEF Rewrite
  <2>2. inode[n].lines = <<>>
    BY <2>1 DEF TypeInv, Owned
  <2>3. inode'[n].lines \in Seq(Lines)
    BY <1>5, TranscriptsTyped DEF Transcripts, TypeInv, TypeOK, Content
  <2>4. \A m \in Inodes : m # n => inode'[m] = inode[m]
    BY <2>1 DEF TypeInv, TypeOK
  <2>5. /\ Len(inode[n].lines) <= Len(inode'[n].lines)
        /\ \A j \in 1..Len(inode[n].lines) :
             inode'[n].lines[j] = inode[n].lines[j] /\ inode'[n].session = inode[n].session
    BY <2>2, <2>3
  <2>6. UNCHANGED <<tables, proc>>
    BY <1>5 DEF Rewrite
  <2>. QED BY <1>1, <2>4, <2>5, <2>6, NothingLost
<1>5a. ASSUME NEW p \in Paths, Recreate(p) PROVE Grows /\ UNCHANGED <<tables, proc>>
  <2>1. PICK n \in Inodes, o \in Inodes :
          /\ inode[n].session = None
          /\ inode' = [inode EXCEPT ![n] =
               [session |-> SessionOf[p], lines |-> <<>>, tail |-> 0,
                mtime |-> inode[o].mtime + 1]]
    BY <1>5a DEF Recreate
  <2>2. inode[n].lines = <<>> /\ inode'[n].lines = <<>>
    BY <2>1 DEF TypeInv, TypeOK, Owned
  <2>3. \A m \in Inodes : m # n => inode'[m] = inode[m]
    BY <2>1 DEF TypeInv, TypeOK
  <2>4. /\ Len(inode[n].lines) <= Len(inode'[n].lines)
        /\ \A k \in 1..Len(inode[n].lines) :
             inode'[n].lines[k] = inode[n].lines[k] /\ inode'[n].session = inode[n].session
    BY <2>2
  <2>5. UNCHANGED <<tables, proc>>
    BY <1>5a DEF Recreate
  <2>. QED BY <1>1, <2>3, <2>4, <2>5, NothingLost
<1>6. ASSUME NEW p \in Paths, NEW q \in Paths, Delete(p) \/ Move(p, q)
      PROVE  Grows /\ UNCHANGED <<tables, proc>>
  BY <1>1, <1>6, NothingLost DEF Delete, Move
<1>. QED BY <1>2, <1>3, <1>4, <1>5, <1>5a, <1>6 DEF Transcripts

(* A step that leaves tables and contents alone keeps what is stored.      *)
LEMMA StoredSame ==
  ASSUME UNCHANGED <<inode, tables>>, NEW n, NEW end, Stored(n, end)
  PROVE  Stored(n, end)'
BY DEF tables, Stored, LineStored, EventStored, CallStored, ResultStored

(* os.Stat: the offset to read from is the cursor's, or 0.                 *)
LEMMA StatSafe ==
  ASSUME TypeInv, NEW i \in Ingesters, Stat(i), InFlight(i)
  PROVE  InFlight(i)'
<1>. DEFINE call == proc[i]
            n == at[call.path]
            start == StartOffset(call.cur, n)
            ino == IF call.cur = None THEN None ELSE call.cur.ino
            mtime == inode[n].mtime
            size == Size(n)
            read == [call EXCEPT !.pc = "parse", !.cur = None, !.mtime = mtime, !.size = size,
                                 !.start = start, !.ino = ino]
<1>1. call \in Call /\ proc' = [proc EXCEPT ![i] = proc'[i]]
  BY DEF TypeInv, TypeOK, Stat
<1>2. proc'[i] = IF n = None \/ (n # None /\ FullyRead(call.cur, n)) THEN NextPath(call) ELSE read
  BY DEF Stat, TypeInv, TypeOK
<1>3. CASE n = None \/ FullyRead(call.cur, n)
  <2>1. NextPath(call).pc \in {"idle", "next"}
    BY DEF NextPath, Idle
  <2>. QED BY <1>2, <1>3, <2>1, RestingSafe
<1>4. CASE ~ (n = None \/ FullyRead(call.cur, n))
  <2>1. proc'[i] = read
    BY <1>2, <1>4
  <2>2. /\ proc'[i].pc = "parse"
        /\ proc'[i].start = start
        /\ proc'[i].ino = ino
    <3>. HIDE DEF start, ino, mtime, size, n
    <3>. QED BY <1>1, <2>1 DEF Call
  <2>3. ASSUME NEW m, NEW e, m = proc'[i].ino, e = proc'[i].start, m # None
        PROVE  Stored(m, e)'
    <3>1. call.cur # None /\ call.cur.ino # None /\ call.cur.ino \in Inodes /\ m = call.cur.ino
      BY <1>1, <2>2, <2>3 DEF Call, CursorRow
    <3>2. Stored(m, call.cur.off)
      BY <3>1 DEF Stat, At, InFlight
    <3>3. Stored(m, 0)
      BY <3>1 DEF Stored, TypeInv, TypeOK, Content
    <3>4. e = 0 \/ e = call.cur.off
      BY <2>2, <2>3 DEF StartOffset
    <3>5. Stored(m, e)
      BY <3>2, <3>3, <3>4
    <3>. QED BY <3>5, StoredSame DEF Stat, disk, tables
  <2>. QED BY <2>2, <2>3 DEF InFlight
<1>. QED BY <1>3, <1>4
(* Parse: every line it passes is a row in hand, and what lies before its  *)
(* first line was stored.                                                  *)
LEMMA LinesInHand ==
  ASSUME TypeInv, NEW n \in Inodes, inode[n].session \in Sessions,
         NEW start \in Nat, NEW end \in Nat, end <= Len(inode[n].lines),
         start > 0 => Stored(n, start), EventsIn(n, start, end) \subseteq EventRow,
         NEW i \in Ingesters,
         proc'[i].rows = LargestOutputWins(EventsIn(n, start, end)),
         proc'[i].tools = ToolsIn(n, start, end),
         UNCHANGED <<inode, tables>>, NEW k \in 1..end
  PROVE  LineSafe(i, n, k)'
<1>. DEFINE s == inode[n].session
            ls == inode[n].lines
            rows == LargestOutputWins(EventsIn(n, start, end))
            tools == ToolsIn(n, start, end)
            key(x) == [session |-> s, call |-> x]
<1>1. ls \in Seq(Lines) /\ ls[k] \in Lines /\ k \in Nat
  BY DEF TypeInv, TypeOK, Content
<1>2. ASSUME k <= start PROVE LineStored(n, k)
  BY <1>1, <1>2 DEF Stored
<1>3. EventStored(s, ls[k]) \/ \E r \in rows : r.session = s /\ r.req = ls[k].req /\ r.out >= ls[k].out
  <2>1. CASE k <= start
    BY <1>2, <2>1 DEF LineStored
  <2>2. CASE k > start
    <3>. DEFINE r == [session |-> s, req |-> ls[k].req, out |-> ls[k].out]
    <3>1. r \in EventsIn(n, start, end)
      <4>1. k \in (start + 1)..end
        BY <1>1, <2>2
      <4>. QED BY <4>1 DEF EventsIn
    <3>2. \E q \in rows : q.session = r.session /\ q.req = r.req /\ q.out >= r.out
      <4>. HIDE DEF r
      <4>. QED BY <3>1, LargestStays
    <3>. QED BY <3>2
  <2>. QED BY <1>1, <2>1, <2>2
<1>4. \A x : x \in CallsIn(n, start, end) =>
        \E t \in tools : t.full /\ KeyOf(t) = key(x) /\ (x \in ResultsIn(n, start, end) => t.result)
  <2>1. ASSUME NEW x \in CallsIn(n, start, end)
        PROVE  \E t \in tools : t.full /\ KeyOf(t) = key(x) /\ (x \in ResultsIn(n, start, end) => t.result)
    <3>. DEFINE t == [session |-> s, call |-> x, full |-> x \in CallsIn(n, start, end),
                      result |-> x \in ResultsIn(n, start, end)]
    <3>1. t \in tools
      BY DEF ToolsIn
    <3>2. t.full /\ KeyOf(t) = key(x) /\ (x \in ResultsIn(n, start, end) => t.result)
      BY DEF KeyOf
    <3>. QED BY <3>1, <3>2
  <2>. QED BY <2>1
<1>5. \A x : x \in ResultsIn(n, start, end) => \E t \in tools : t.result /\ KeyOf(t) = key(x)
  <2>1. ASSUME NEW x \in ResultsIn(n, start, end)
        PROVE  \E t \in tools : t.result /\ KeyOf(t) = key(x)
    <3>. DEFINE t == [session |-> s, call |-> x, full |-> x \in CallsIn(n, start, end),
                      result |-> x \in ResultsIn(n, start, end)]
    <3>1. t \in tools
      BY DEF ToolsIn
    <3>2. t.result /\ KeyOf(t) = key(x)
      BY DEF KeyOf
    <3>. QED BY <3>1, <3>2
  <2>. QED BY <2>1
<1>6. ASSUME NEW j \in 1..k, NEW x \in ls[j].calls
      PROVE  CallStored(s, x) \/ x \in CallsIn(n, start, end)
  <2>1. CASE j <= start
    <3>1. LineStored(n, j)
      BY <1>1, <2>1 DEF Stored
    <3>. QED BY <3>1, <1>6 DEF LineStored
  <2>2. CASE j > start
    <3>1. j \in (start + 1)..end
      BY <1>1, <2>2
    <3>. QED BY <1>6, <3>1 DEF CallsIn
  <2>. QED BY <1>1, <2>1, <2>2
<1>7. \A x \in ls[k].calls : CallStored(s, x) \/ \E t \in tools : t.full /\ KeyOf(t) = key(x)
  <2>1. k \in 1..k
    BY <1>1
  <2>. HIDE DEF tools, key, s, ls
  <2>. QED BY <1>4, <1>6, <2>1
<1>8. ASSUME NEW x \in ls[k].results, NEW j \in 1..k, x \in ls[j].calls
      PROVE  \/ ResultStored(s, x)
             \/ \E t \in tools : t.result /\ KeyOf(t) = key(x) /\ (t.full \/ CallStored(s, x))
  <2>1. CASE k <= start
    BY <1>2, <1>8, <2>1 DEF LineStored
  <2>2. CASE k > start
    <3>1. k \in (start + 1)..end
      BY <1>1, <2>2
    <3>2. x \in ResultsIn(n, start, end)
      BY <1>8, <3>1 DEF ResultsIn
    <3>3. CallStored(s, x) \/ x \in CallsIn(n, start, end)
      BY <1>6, <1>8
    <3>. HIDE DEF tools, key, s, ls
    <3>. QED BY <1>4, <1>5, <3>2, <3>3
  <2>. QED BY <1>1, <2>1, <2>2
<1>. QED BY <1>3, <1>7, <1>8 DEF LineSafe, EventStored, CallStored, ResultStored, tables

LEMMA ParseSafe ==
  ASSUME TypeInv, NEW i \in Ingesters, Parse(i), InFlight(i)
  PROVE  InFlight(i)'
<1>. DEFINE call == proc[i]
            n == at[call.path]
            end == ParseEnd(n, call.start)
            rows == LargestOutputWins(EventsIn(n, call.start, end))
            tools == ToolsIn(n, call.start, end)
            ino == IF call.start = 0 \/ call.ino = n THEN n ELSE None
            pc == AfterRows(rows, tools)
            read == [call EXCEPT !.pc = pc, !.end = end, !.ino = ino, !.rows = rows, !.tools = tools]
<1>1. call \in Call /\ HasPath(call) /\ call.pc = "parse"
  BY DEF TypeInv, TypeOK, InHand, Parse, At
<1>2. proc'[i] = IF n = None THEN NextPath(call) ELSE read
  BY DEF Parse, TypeInv, TypeOK
<1>3. CASE n = None
  <2>1. NextPath(call).pc \in {"idle", "next"}
    BY DEF NextPath, Idle
  <2>. QED BY <1>2, <1>3, <2>1, RestingSafe
<1>4. CASE n # None
  <2>1. call.path \in Paths /\ n \in Inodes /\ inode[n] \in Content /\ inode[n].session \in Sessions
    BY <1>1, <1>4 DEF HasPath, TypeInv, TypeOK, Owned, Content
  <2>2. call.start \in Nat /\ end \in Nat /\ (end <= Len(inode[n].lines) \/ end = call.start)
    BY <1>1, <2>1 DEF ParseEnd, Call, Content
  <2>3. EventsIn(n, call.start, end) \subseteq EventRow
    BY <1>4, <2>1, <2>2, RowsTyped
  <2>4. /\ proc'[i].pc = pc /\ proc'[i].end = end /\ proc'[i].ino = ino
        /\ proc'[i].rows = rows /\ proc'[i].tools = tools
    <3>1. proc'[i] = read
      BY <1>2, <1>4
    <3>. HIDE DEF n, end, rows, tools, ino, pc
    <3>. QED BY <1>1, <3>1 DEF Call
  <2>5. pc \notin {"stat", "parse"} /\ (pc \in {"tools", "cursor"} => rows = {})
        /\ (pc = "cursor" => tools = {})
    BY DEF AfterRows
  <2>6. UNCHANGED <<inode, tables>>
    BY DEF Parse, disk
  <2>7. ASSUME ino # None
        PROVE  end <= Len(inode[n].lines) /\ ino = n /\ (call.start > 0 => Stored(n, call.start))
    <3>1. ino = n /\ (call.start = 0 \/ call.ino = n)
      BY <2>7
    <3>2. call.start > 0 => Stored(n, call.start)
      BY <1>1, <2>1, <3>1, <1>4 DEF InFlight
    <3>3. call.start <= Len(inode[n].lines)
      BY <2>1, <2>2, <3>2 DEF Stored, Content
    <3>. QED BY <2>1, <3>1, <3>2, <3>3 DEF ParseEnd, Content
  <2>8. ASSUME NEW m, NEW e, m = proc'[i].ino, e = proc'[i].end, m # None
        PROVE  e <= Len(inode'[m].lines) /\ \A k \in 1..e : LineSafe(i, m, k)'
    <3>1. m = n /\ e = end /\ ino # None
      BY <2>4, <2>7, <2>8
    <3>2. m \in Inodes /\ e \in Nat /\ inode[m].session \in Sessions /\ e <= Len(inode[m].lines)
      BY <2>1, <2>2, <2>7, <3>1
    <3>3. /\ call.start > 0 => Stored(m, call.start)
          /\ EventsIn(m, call.start, e) \subseteq EventRow
          /\ proc'[i].rows = LargestOutputWins(EventsIn(m, call.start, e))
          /\ proc'[i].tools = ToolsIn(m, call.start, e)
      BY <2>3, <2>4, <2>7, <3>1
    <3>4. ASSUME NEW start, start = call.start PROVE \A k \in 1..e : LineSafe(i, m, k)'
      <4>. HIDE DEF call, n, end, rows, tools, ino, pc
      <4>. QED BY <2>2, <2>6, <3>2, <3>3, <3>4, LinesInHand
    <3>. QED BY <2>6, <3>2, <3>4
  <2>. HIDE DEF call, n, end, rows, tools, ino, pc
  <2>. QED BY <2>4, <2>5, <2>8 DEF InFlight
<1>. QED BY <1>3, <1>4

(* A committed batch takes nothing out of the tables, and what it held is  *)
(* in the table of events now.                                             *)
LEMMA BatchStored ==
  ASSUME TypeInv, NEW i \in Ingesters, NEW b \in SUBSET proc[i].rows, events' = Upserted(events, b)
  PROVE  \A r \in events \cup b :
           \E q \in events' : q.session = r.session /\ q.req = r.req /\ q.out >= r.out
<1>1. events \cup b \in SUBSET EventRow
  BY DEF TypeInv, TypeOK, Call
<1>. QED BY <1>1, LargestStays DEF Upserted

LEMMA UpsertsGrow ==
  ASSUME TypeInv, NEW i \in Ingesters, UpsertEvents(i) \/ UpsertToolCalls(i)
  PROVE  Grows
<1>1. CASE UpsertEvents(i)
  <2>1. PICK b \in SUBSET proc[i].rows : events' = Upserted(events, b)
    BY <1>1 DEF UpsertEvents
  <2>2. UNCHANGED <<inode, toolCalls, toolResults>>
    BY <1>1 DEF UpsertEvents, disk
  <2>3. \A r \in events \cup b :
          \E q \in events' : q.session = r.session /\ q.req = r.req /\ q.out >= r.out
    BY <2>1, BatchStored
  <2>. QED BY <2>2, <2>3 DEF Grows, TypeInv, TypeOK, Content
<1>2. CASE UpsertToolCalls(i)
  <2>1. toolCalls \subseteq toolCalls' /\ toolResults \subseteq toolResults'
    BY <1>2 DEF UpsertToolCalls
  <2>2. UNCHANGED <<inode, events>>
    BY <1>2 DEF UpsertToolCalls, disk
  <2>3. \A r \in events : r.out \in Int
    BY LinesAssumption DEF TypeInv, TypeOK, EventRow
  <2>. QED BY <2>1, <2>2, <2>3 DEF Grows, TypeInv, TypeOK, Content
<1>. QED BY <1>1, <1>2

LEMMA SetCursorGrows ==
  ASSUME TypeInv, NEW i \in Ingesters, SetCursor(i)
  PROVE  Grows
<1>1. UNCHANGED <<inode, events, toolCalls, toolResults>>
  BY DEF SetCursor, disk
<1>2. \A r \in events : r.out \in Int
  BY LinesAssumption DEF TypeInv, TypeOK, EventRow
<1>. QED BY <1>1, <1>2 DEF Grows, TypeInv, TypeOK, Content

(* What a call holds it holds still, less the batch it has committed.      *)
LEMMA UpsertEventsSafe ==
  ASSUME TypeInv, TypeInv', NEW i \in Ingesters, UpsertEvents(i), InFlight(i)
  PROVE  InFlight(i)'
<1>. DEFINE call == proc[i]
<1>1. call \in Call /\ call.pc = "events"
  BY DEF TypeInv, TypeOK, UpsertEvents, At
<1>2. PICK b \in SUBSET call.rows :
        /\ events' = Upserted(events, b)
        /\ proc' = [proc EXCEPT ![i].rows = call.rows \ b,
                                ![i].pc = AfterRows(call.rows \ b, call.tools)]
  BY DEF UpsertEvents
<1>3. \A r \in events \cup b :
        \E q \in events' : q.session = r.session /\ q.req = r.req /\ q.out >= r.out
  BY <1>2, BatchStored
<1>4. UNCHANGED <<inode, toolCalls, toolResults>>
  BY DEF UpsertEvents, disk
<1>5. Grows
  BY UpsertsGrow
<1>6. /\ proc'[i].rows = call.rows \ b /\ proc'[i].pc = AfterRows(call.rows \ b, call.tools)
      /\ proc'[i].tools = call.tools /\ proc'[i].ino = call.ino /\ proc'[i].end = call.end
  BY <1>1, <1>2 DEF TypeInv, TypeOK, Call
<1>7. ASSUME call.ino # None
      PROVE  /\ call.end <= Len(inode[call.ino].lines)
             /\ call.ino \in Inodes /\ call.end \in Nat
             /\ \A k \in 1..call.end : LineSafe(i, call.ino, k)
  BY <1>1, <1>7 DEF InFlight, Call
<1>8. ASSUME NEW m, NEW e, m = call.ino, e = call.end, m # None, NEW k \in 1..e
      PROVE  LineSafe(i, m, k)'
  <2>1. LineSafe(i, m, k) /\ m \in Inodes /\ k \in 1..Len(inode[m].lines)
    BY <1>7, <1>8 DEF TypeInv, TypeOK, Content
  <2>2. inode[m].lines[k] \in Lines
    BY <2>1, LineGrows, <1>5
  <2>. DEFINE s == inode[m].session
              l == inode[m].lines[k]
  <2>3. EventStored(s, l) => EventStored(s, l)'
    BY <1>4, <1>5, <2>2, EventGrows
  <2>4. ASSUME NEW r \in b, r.session = s, r.req = l.req, r.out >= l.out
        PROVE  EventStored(s, l)'
    <3>1. PICK q \in events' : q.session = r.session /\ q.req = r.req /\ q.out >= r.out
      BY <1>3
    <3>2. q.out \in Int /\ r.out \in Int /\ l.out \in Int
      BY <1>1, <2>2, LinesAssumption DEF TypeInv, TypeOK, EventRow, Call
    <3>. QED BY <1>4, <2>4, <3>1, <3>2 DEF EventStored
  <2>5. EventStored(s, l)' \/ \E r \in call.rows \ b : r.session = s /\ r.req = l.req /\ r.out >= l.out
    BY <2>1, <2>3, <2>4 DEF LineSafe
  <2>. QED BY <1>4, <1>6, <2>1, <2>5 DEF LineSafe, EventStored, CallStored, ResultStored
<1>9. proc'[i].pc \in {"tools", "cursor"} => proc'[i].rows = {}
  BY <1>6 DEF AfterRows
<1>10. proc'[i].pc = "cursor" => proc'[i].tools = {}
  BY <1>6 DEF AfterRows
<1>11. proc'[i].pc \notin {"stat", "parse"}
  BY <1>6 DEF AfterRows
<1>12. ASSUME NEW m, NEW e, m = proc'[i].ino, e = proc'[i].end, m # None
       PROVE  e <= Len(inode'[m].lines) /\ \A k \in 1..e : LineSafe(i, m, k)'
  BY <1>4, <1>6, <1>7, <1>8, <1>12
<1>. QED BY <1>9, <1>10, <1>11, <1>12 DEF InFlight

LEMMA UpsertToolCallsSafe ==
  ASSUME TypeInv, TypeInv', NEW i \in Ingesters, UpsertToolCalls(i), InFlight(i)
  PROVE  InFlight(i)'
<1>. DEFINE call == proc[i]
<1>1. call \in Call /\ call.pc = "tools" /\ call.rows = {}
  BY DEF TypeInv, TypeOK, InFlight, UpsertToolCalls, At
<1>2. PICK b \in SUBSET call.tools :
        /\ toolCalls' = toolCalls \cup {KeyOf(t) : t \in {u \in b : u.full}}
        /\ toolResults' = toolResults
             \cup {KeyOf(t) : t \in {u \in b : u.result /\ (u.full \/ KeyOf(u) \in toolCalls)}}
        /\ proc' = [proc EXCEPT ![i].tools = call.tools \ b,
                                ![i].pc = AfterRows({}, call.tools \ b)]
  BY DEF UpsertToolCalls
<1>3. UNCHANGED <<inode, events>>
  BY DEF UpsertToolCalls, disk
<1>5. /\ proc'[i].rows = {} /\ proc'[i].pc = AfterRows({}, call.tools \ b)
      /\ proc'[i].tools = call.tools \ b /\ proc'[i].ino = call.ino /\ proc'[i].end = call.end
  BY <1>1, <1>2 DEF TypeInv, TypeOK, Call
<1>6. ASSUME call.ino # None
      PROVE  /\ call.end <= Len(inode[call.ino].lines)
             /\ \A k \in 1..call.end : LineSafe(i, call.ino, k)
  BY <1>1, <1>6 DEF InFlight
<1>7. ASSUME NEW m, NEW e, m = call.ino, e = call.end, m # None, NEW k \in 1..e
      PROVE  LineSafe(i, m, k)'
  <2>. DEFINE s == inode[m].session
              l == inode[m].lines[k]
              key(x) == [session |-> s, call |-> x]
  <2>1. LineSafe(i, m, k)
    BY <1>6, <1>7
  <2>2. EventStored(s, l)
    BY <1>1, <2>1 DEF LineSafe
  <2>3. ASSUME NEW x \in l.calls
        PROVE  key(x) \in toolCalls' \/ \E t \in call.tools \ b : t.full /\ KeyOf(t) = key(x)
    BY <1>2, <2>1, <2>3 DEF LineSafe, CallStored
  <2>4. ASSUME NEW x \in l.results, NEW j \in 1..k, x \in inode[m].lines[j].calls
        PROVE  \/ key(x) \in toolResults'
               \/ \E t \in call.tools \ b :
                    t.result /\ KeyOf(t) = key(x) /\ (t.full \/ key(x) \in toolCalls')
    BY <1>2, <2>1, <2>4 DEF LineSafe, CallStored, ResultStored
  <2>. QED BY <1>3, <1>5, <2>2, <2>3, <2>4 DEF LineSafe, EventStored, CallStored, ResultStored
<1>8. proc'[i].pc = "cursor" => proc'[i].tools = {}
  BY <1>5 DEF AfterRows
<1>9. proc'[i].pc \notin {"stat", "parse"}
  BY <1>5 DEF AfterRows
<1>10. ASSUME NEW m, NEW e, m = proc'[i].ino, e = proc'[i].end, m # None
       PROVE  e <= Len(inode'[m].lines) /\ \A k \in 1..e : LineSafe(i, m, k)'
  BY <1>3, <1>5, <1>6, <1>7, <1>10
<1>. QED BY <1>5, <1>8, <1>9, <1>10 DEF InFlight

(* With nothing left in hand, the cursor may be set.                       *)
LEMMA SetCursorSafe ==
  ASSUME TypeInv, TypeInv', NEW i \in Ingesters, SetCursor(i), InFlight(i)
  PROVE  \A p : p = proc[i].path => Vouched(p)'
<1>. DEFINE call == proc[i]
<1>1. call \in Call /\ call.path \in Paths /\ call.pc = "cursor" /\ call.rows = {} /\ call.tools = {}
  BY DEF TypeInv, TypeOK, InHand, HasPath, InFlight, SetCursor, At
<1>2. UNCHANGED <<inode, events, toolCalls, toolResults>>
  BY DEF SetCursor, disk
<1>3. Grows
  BY SetCursorGrows
<1>4. call.ino # None => call.ino \in Inodes /\ call.end \in Nat /\ Stored(call.ino, call.end)
  <2>1. ASSUME NEW k, LineSafe(i, call.ino, k) PROVE LineStored(call.ino, k)
    BY <1>1, <2>1 DEF LineSafe, LineStored
  <2>. QED BY <1>1, <2>1 DEF InFlight, Stored, Call
<1>5. ASSUME NEW q, q = call.path PROVE Vouched(q)'
  <2>1. cursor'[call.path]
          = [off |-> call.end, mtime |-> call.mtime, size |-> call.size, ino |-> call.ino]
    BY <1>1 DEF SetCursor, TypeInv, TypeOK
  <2>2. ASSUME NEW m, NEW e, m = call.ino, e = call.end, m # None PROVE Stored(m, e)'
    BY <1>3, <1>4, <2>2, StoredGrows
  <2>. QED BY <1>5, <2>1, <2>2 DEF Vouched
<1>. QED BY <1>5

LEMMA ReadCursorSafe ==
  ASSUME TypeInv, NEW i \in Ingesters, ReadCursor(i),
         \A p \in Paths : p = proc'[i].path => Vouched(p)
  PROVE  InFlight(i)'
<1>. DEFINE call == proc[i]
<1>1. PICK p \in call.files :
        LET cur == IF call.force THEN None ELSE cursor[p] IN
          proc' = [proc EXCEPT ![i] =
                     IF cur # None /\ p \in call.trusted
                     THEN NextPath([call EXCEPT !.path = p])
                     ELSE [call EXCEPT !.pc = "stat", !.path = p, !.cur = cur]]
  BY DEF ReadCursor
<1>. DEFINE cur == IF call.force THEN None ELSE cursor[p]
            read == [call EXCEPT !.pc = "stat", !.path = p, !.cur = cur]
<1>2. call \in Call /\ p \in Paths
  BY DEF TypeInv, TypeOK, Call
<1>3. proc'[i] = IF cur # None /\ p \in call.trusted THEN NextPath([call EXCEPT !.path = p]) ELSE read
  BY <1>1 DEF TypeInv, TypeOK
<1>4. NextPath([call EXCEPT !.path = p]).pc \in {"idle", "next"}
  BY DEF NextPath, Idle
<1>5. read.pc = "stat" /\ read.cur = cur /\ read.path = p
  <2>. HIDE DEF cur
  <2>. QED BY <1>2 DEF Call
<1>6. ASSUME NEW c, c = cur, c # None, c.ino # None, Vouched(p) PROVE Stored(c.ino, c.off)'
  <2>1. Stored(c.ino, c.off)
    BY <1>2, <1>6 DEF Vouched
  <2>. QED BY <2>1, StoredSame DEF ReadCursor, disk
<1>7. CASE proc'[i] = read
  <2>1. proc'[i].pc = "stat"
    BY <1>5, <1>7
  <2>2. ASSUME NEW c, c = proc'[i].cur, c # None, c.ino # None PROVE Stored(c.ino, c.off)'
    BY <1>2, <1>5, <1>6, <1>7, <2>2
  <2>. QED BY <2>1, <2>2 DEF InFlight
<1>8. CASE proc'[i].pc \in {"idle", "next"}
  BY <1>8, RestingSafe
<1>. QED BY <1>3, <1>4, <1>7, <1>8

(* A call keeps to its path until it is done with it.                      *)
LEMMA PathStays ==
  ASSUME TypeInv, NEW i \in Ingesters, proc'[i].path \in Paths,
         Stat(i) \/ Parse(i) \/ UpsertEvents(i) \/ UpsertToolCalls(i)
  PROVE  proc'[i].path = proc[i].path
<1>1. proc[i] \in Call /\ proc \in [Ingesters -> Call]
  BY DEF TypeInv, TypeOK
<1>2. \A call : NextPath(call).path = None
  BY DEF NextPath, Idle
<1>3. CASE Stat(i)
  BY <1>1, <1>2, <1>3, NoneAssumption DEF Stat, Call
<1>4. CASE Parse(i)
  BY <1>1, <1>2, <1>4, NoneAssumption DEF Parse, Call
<1>5. CASE UpsertEvents(i)
  <2>1. PICK rows, pc : proc' = [proc EXCEPT ![i].rows = rows, ![i].pc = pc]
    BY <1>5 DEF UpsertEvents
  <2>. QED BY <1>1, <2>1 DEF Call
<1>6. CASE UpsertToolCalls(i)
  <2>1. PICK tools, pc : proc' = [proc EXCEPT ![i].tools = tools, ![i].pc = pc]
    BY <1>6 DEF UpsertToolCalls
  <2>. QED BY <1>1, <2>1 DEF Call
<1>. QED BY <1>3, <1>4, <1>5, <1>6

(* Nothing is read or set, but calls may start and end.                    *)
LEMMA RestingSkips ==
  ASSUME TypeInv, TypeInv', NEW s, SessionSafe(s), UNCHANGED <<inode, tables>>,
         \A i \in Ingesters : proc'[i] = proc[i] \/ proc'[i].pc \in {"idle", "next"}
  PROVE  SessionSafe(s)'
<1>1. Grows /\ UNCHANGED cursor
  BY NothingLost DEF TypeInv, TypeOK, Content, tables
<1>2. ASSUME NEW p \in Paths, SessionOf[p] = s PROVE Vouched(p)'
  BY <1>1, <1>2, VouchedGrows DEF SessionSafe
<1>3. ASSUME NEW i \in Ingesters, Reads(i, s)' PROVE InFlight(i)'
  <2>1. CASE proc'[i] = proc[i]
    BY <1>1, <1>3, <2>1, InFlightGrows DEF SessionSafe, Reads
  <2>2. CASE proc'[i].pc \in {"idle", "next"}
    BY <2>2, RestingSafe
  <2>. QED BY <2>1, <2>2
<1>. QED BY <1>2, <1>3 DEF SessionSafe

LEMMA TranscriptsSkip ==
  ASSUME TypeInv, Transcripts, NEW s, SessionSafe(s)
  PROVE  SessionSafe(s)'
<1>1. TypeInv' /\ Grows /\ UNCHANGED <<cursor, proc>>
  BY TranscriptsTyped, TranscriptsGrow DEF tables
<1>2. ASSUME NEW p \in Paths, SessionOf[p] = s PROVE Vouched(p)'
  BY <1>1, <1>2, VouchedGrows DEF SessionSafe
<1>3. ASSUME NEW i \in Ingesters, Reads(i, s)' PROVE InFlight(i)'
  BY <1>1, <1>3, InFlightGrows DEF SessionSafe, Reads
<1>. QED BY <1>2, <1>3 DEF SessionSafe

LEMMA IngestStepSkips ==
  ASSUME TypeInv, NEW i \in Ingesters, IngestStep(i), NEW s, SessionSafe(s)
  PROVE  SessionSafe(s)'
<1>1. TypeInv'
  BY IngestStepTyped
<1>2. \A j \in Ingesters \ {i} : proc'[j] = proc[j]
  BY DEF IngestStep, ReadCursor, Stat, Parse, UpsertEvents, UpsertToolCalls, SetCursor,
         TypeInv, TypeOK
<1>3. ASSUME UNCHANGED <<inode, tables>> PROVE Grows /\ UNCHANGED cursor
  BY <1>3, NothingLost DEF TypeInv, TypeOK, Content, tables
<1>4. CASE ReadCursor(i)
  <2>1. Reads(i, s)' => InFlight(i)'
    BY <1>4, ReadCursorSafe DEF Reads, SessionSafe
  <2>2. Grows /\ UNCHANGED cursor
    BY <1>3, <1>4 DEF ReadCursor, disk
  <2>. QED BY <1>1, <1>2, <2>1, <2>2, OneCallSkips
<1>5. ASSUME Stat(i) \/ Parse(i) \/ UpsertEvents(i) \/ UpsertToolCalls(i), Reads(i, s)'
      PROVE  InFlight(i)
  BY <1>5, PathStays DEF Reads, SessionSafe
<1>6. CASE Stat(i) \/ Parse(i)
  <2>1. Reads(i, s)' => InFlight(i)'
    BY <1>5, <1>6, StatSafe, ParseSafe
  <2>2. Grows /\ UNCHANGED cursor
    BY <1>3, <1>6 DEF Stat, Parse, disk
  <2>. QED BY <1>1, <1>2, <2>1, <2>2, OneCallSkips
<1>7. CASE UpsertEvents(i) \/ UpsertToolCalls(i)
  <2>1. Grows
    BY <1>1, <1>7, UpsertsGrow
  <2>2. Reads(i, s)' => InFlight(i)'
    BY <1>1, <1>5, <1>7, UpsertEventsSafe, UpsertToolCallsSafe
  <2>3. UNCHANGED cursor
    BY <1>7 DEF UpsertEvents, UpsertToolCalls
  <2>. QED BY <1>1, <1>2, <2>1, <2>2, <2>3, OneCallSkips
<1>8. CASE SetCursor(i)
  <2>1. Grows
    BY <1>8, <1>1, SetCursorGrows
  <2>2. ASSUME NEW p \in Paths, SessionOf[p] = s PROVE Vouched(p)'
    <3>1. CASE p = proc[i].path
      <4>1. InFlight(i)
        BY <2>2, <3>1 DEF Reads, SessionSafe
      <4>. QED BY <1>1, <1>8, <3>1, <4>1, SetCursorSafe
    <3>2. CASE p # proc[i].path
      <4>1. cursor'[p] = cursor[p]
        BY <1>8, <3>2 DEF SetCursor, TypeInv, TypeOK
      <4>. QED BY <1>1, <2>1, <2>2, <4>1, VouchedGrows DEF SessionSafe
    <3>. QED BY <3>1, <3>2
  <2>3. ASSUME NEW j \in Ingesters, Reads(j, s)' PROVE InFlight(j)'
    <3>1. CASE j = i
      <4>1. proc'[i].pc \in {"idle", "next"}
        BY <1>8 DEF SetCursor, NextPath, Idle, TypeInv, TypeOK
      <4>. QED BY <3>1, <4>1, RestingSafe
    <3>2. CASE j # i
      BY <1>1, <1>2, <2>1, <2>3, <3>2, InFlightGrows DEF Reads, SessionSafe
    <3>. QED BY <3>1, <3>2
  <2>. QED BY <2>2, <2>3 DEF SessionSafe
<1>. QED BY <1>4, <1>6, <1>7, <1>8 DEF IngestStep

LEMMA FaultsSkip ==
  ASSUME TypeInv, TypeInv', NEW s, SessionSafe(s),
         Crash \/ \E i \in Ingesters : StoreError(i) \/ ReadError(i)
  PROVE  SessionSafe(s)'
<1>1. UNCHANGED <<inode, tables>>
  BY DEF Crash, StoreError, ReadError, disk
<1>2. \A call : NextPath(call).pc \in {"idle", "next"} /\ Idle.pc = "idle"
  BY DEF NextPath, Idle
<1>3. \A j \in Ingesters : proc'[j] = proc[j] \/ proc'[j].pc \in {"idle", "next"}
  BY <1>2 DEF Crash, StoreError, ReadError, TypeInv, TypeOK
<1>. QED BY <1>1, <1>3, RestingSkips

LEMMA BeginSkips ==
  ASSUME TypeInv, TypeInv', NEW s, SessionSafe(s), UNCHANGED <<disk, tables>>,
         NEW i \in Ingesters, NEW files, NEW trusted, NEW force, Begin(i, files, trusted, force)
  PROVE  SessionSafe(s)'
<1>1. UNCHANGED <<inode, tables>>
  BY DEF disk
<1>2. \A j \in Ingesters : proc'[j] = proc[j] \/ proc'[j].pc \in {"idle", "next"}
  BY DEF Begin, Idle, TypeInv, TypeOK
<1>. QED BY <1>1, <1>2, RestingSkips

LEMMA SkipInit == Init => SkipInv
<1>. SUFFICES ASSUME Init PROVE SkipInv
  OBVIOUS
<1>1. \A s \in Sessions : SessionSafe(s)
  BY DEF Init, Idle, SessionSafe, Vouched, InFlight
<1>. QED BY <1>1, TypeInit DEF SkipInv

LEMMA SkipStep == SkipInv /\ [Next]_vars => SkipInv'
<1>. SUFFICES ASSUME SkipInv, [Next]_vars PROVE SkipInv'
  OBVIOUS
<1>1. TypeInv /\ TypeInv'
  BY TypeStep DEF SkipInv
<1>2. SUFFICES ASSUME NEW s \in Sessions, SessionSafe(s) PROVE SessionSafe(s)'
  BY <1>1 DEF SkipInv
<1>3. CASE Transcripts
  BY <1>1, <1>2, <1>3, TranscriptsSkip
<1>4. ASSUME NEW w \in Watchers, NEW p \in Paths, IngestFile(w, p) PROVE SessionSafe(s)'
  BY <1>1, <1>2, <1>4, BeginSkips DEF IngestFile, Ingesters
<1>5. ASSUME NEW c \in Collectors, NEW trusted, NEW force, IngestListed(c, trusted, force)
      PROVE  SessionSafe(s)'
  BY <1>1, <1>2, <1>5, BeginSkips DEF IngestListed, Ingesters
<1>6. ASSUME NEW i \in Ingesters, IngestStep(i) PROVE SessionSafe(s)'
  BY <1>1, <1>2, <1>6, IngestStepSkips
<1>7. CASE Faults
  BY <1>1, <1>2, <1>7, FaultsSkip DEF Faults
<1>8. CASE UNCHANGED vars
  BY <1>1, <1>2, <1>8, RestingSkips DEF vars, tables
<1>. QED BY <1>3, <1>4, <1>5, <1>6, <1>7, <1>8 DEF Next

(* Session by session is for every path and every call.                    *)
LEMMA SafeEverywhere == SkipInv => CursorCovers /\ InFlightSafe
<1>. SUFFICES ASSUME SkipInv PROVE CursorCovers /\ InFlightSafe
  OBVIOUS
<1>1. \A p \in Paths : SessionOf[p] \in Sessions
  BY PathsAssumption
<1>2. ASSUME NEW i \in Ingesters PROVE InFlight(i)
  <2>1. CASE proc[i].pc \in {"idle", "next"}
    BY <2>1 DEF InFlight
  <2>2. CASE proc[i].pc \notin {"idle", "next"}
    BY <1>1, <2>2 DEF SkipInv, TypeInv, InHand, HasPath, SessionSafe, Reads
  <2>. QED BY <2>1, <2>2
<1>. QED BY <1>1, <1>2 DEF SkipInv, SessionSafe, CursorCovers, InFlightSafe

(* However many watchers and collections ingest the same paths at once,    *)
(* whatever the agents, failing calls and crashes do in between, a cursor  *)
(* never passes a line the store does not hold.                            *)
THEOREM CursorAlwaysCovers == Spec => []CursorCovers
BY SafeEverywhere, SkipInit, SkipStep, PTL DEF Spec

(* And a call under way holds every line between its last commit and the   *)
(* offset it is going to record.                                           *)
THEOREM InFlightAlwaysSafe == Spec => []InFlightSafe
BY SafeEverywhere, SkipInit, SkipStep, PTL DEF Spec

-----------------------------------------------------------------------------
(***************************************************************************)
(* Ingest implements Replica.  What is in the tables, and what the calls   *)
(* hold for them, some line has said.                                      *)
(***************************************************************************)
RowSaid(r) ==
  \E n \in Inodes : \E k \in 1..Len(inode[n].lines) :
    inode[n].session = r.session /\ inode[n].lines[k].req = r.req /\ r.out <= inode[n].lines[k].out

CallSaid(t) ==
  \E n \in Inodes : \E k \in 1..Len(inode[n].lines) :
    inode[n].session = t.session /\ t.call \in inode[n].lines[k].calls

ResultSaid(t) ==
  \E n \in Inodes : \E k \in 1..Len(inode[n].lines) :
    inode[n].session = t.session /\ t.call \in inode[n].lines[k].results

TablesSaid ==
  /\ \A r \in events : RowSaid(r)
  /\ \A t \in toolCalls : CallSaid(t)
  /\ \A t \in toolResults : ResultSaid(t)

HandsSaid ==
  \A i \in Ingesters :
    /\ \A r \in proc[i].rows : RowSaid(r)
    /\ \A t \in proc[i].tools : (t.full => CallSaid(t)) /\ (t.result => ResultSaid(t))

SaidInv == TypeInv /\ TablesSaid /\ HandsSaid

(* Content only grows.                                                     *)
LinesGrow ==
  \A n \in Inodes :
    /\ Len(inode[n].lines) <= Len(inode'[n].lines)
    /\ \A k \in 1..Len(inode[n].lines) :
         inode'[n].lines[k] = inode[n].lines[k] /\ inode'[n].session = inode[n].session

LEMMA SaidGrows ==
  ASSUME TypeInv, TypeInv', LinesGrow
  PROVE  \A r : /\ RowSaid(r) => RowSaid(r)'
                /\ CallSaid(r) => CallSaid(r)'
                /\ ResultSaid(r) => ResultSaid(r)'
<1>1. \A n \in Inodes : Len(inode[n].lines) \in Nat /\ Len(inode'[n].lines) \in Nat
  BY DEF TypeInv, TypeOK, Content
<1>2. \A n \in Inodes : \A k \in 1..Len(inode[n].lines) :
        /\ k \in 1..Len(inode'[n].lines)
        /\ inode'[n].lines[k] = inode[n].lines[k] /\ inode'[n].session = inode[n].session
  BY <1>1 DEF LinesGrow
<1>. QED BY <1>2 DEF RowSaid, CallSaid, ResultSaid

(* What Parse takes from a content's lines, they say.                      *)
LEMMA ParsedSaid ==
  ASSUME TypeInv, NEW n \in Inodes, NEW start \in Nat, NEW end \in Nat,
         end <= Len(inode[n].lines) \/ end = start
  PROVE  /\ \A r \in LargestOutputWins(EventsIn(n, start, end)) : RowSaid(r)
         /\ \A t \in ToolsIn(n, start, end) : (t.full => CallSaid(t)) /\ (t.result => ResultSaid(t))
<1>1. inode[n].lines \in Seq(Lines)
  BY DEF TypeInv, TypeOK, Content
<1>2. \A k \in (start + 1)..end : k \in 1..Len(inode[n].lines) /\ inode[n].lines[k] \in Lines
  BY <1>1
<1>3. ASSUME NEW r \in EventsIn(n, start, end) PROVE RowSaid(r)
  <2>1. PICK k \in (start + 1)..end :
          r = [session |-> inode[n].session, req |-> inode[n].lines[k].req,
               out |-> inode[n].lines[k].out]
    BY DEF EventsIn
  <2>2. inode[n].lines[k].out \in Int
    BY <1>2, LinesAssumption
  <2>. QED BY <1>2, <2>1, <2>2 DEF RowSaid
<1>4. ASSUME NEW t \in ToolsIn(n, start, end)
      PROVE  (t.full => CallSaid(t)) /\ (t.result => ResultSaid(t))
  <2>1. PICK c : t = [session |-> inode[n].session, call |-> c,
                      full |-> c \in CallsIn(n, start, end),
                      result |-> c \in ResultsIn(n, start, end)]
    BY DEF ToolsIn
  <2>2. t.session = inode[n].session /\ t.call = c
    BY <2>1
  <2>3. t.full => \E k \in (start + 1)..end : t.call \in inode[n].lines[k].calls
    BY <2>1 DEF CallsIn
  <2>4. t.result => \E k \in (start + 1)..end : t.call \in inode[n].lines[k].results
    BY <2>1 DEF ResultsIn
  <2>. QED BY <1>2, <2>2, <2>3, <2>4 DEF CallSaid, ResultSaid
<1>. QED BY <1>3, <1>4 DEF LargestOutputWins

LEMMA SaidInit == Init => SaidInv
<1>. SUFFICES ASSUME Init PROVE SaidInv
  OBVIOUS
<1>1. TablesSaid /\ HandsSaid
  BY DEF Init, Idle, TablesSaid, HandsSaid
<1>. QED BY <1>1, TypeInit DEF SaidInv

(* A step that leaves the contents alone, takes in hand nothing but what   *)
(* it parsed and puts nothing in the tables but what was in hand.          *)
EventsInHand == \A r \in events' : r \in events \/ \E i \in Ingesters : r \in proc[i].rows

CallsInHand ==
  \A t \in toolCalls' : t \in toolCalls
     \/ \E i \in Ingesters : \E u \in proc[i].tools : u.full /\ t = KeyOf(u)

ResultsInHand ==
  \A t \in toolResults' : t \in toolResults
     \/ \E i \in Ingesters : \E u \in proc[i].tools : u.result /\ t = KeyOf(u)

ReadFromLines ==
  \A i \in Ingesters :
     /\ \A r \in proc'[i].rows : r \in proc[i].rows \/ RowSaid(r)
     /\ \A t \in proc'[i].tools :
          t \in proc[i].tools \/ ((t.full => CallSaid(t)) /\ (t.result => ResultSaid(t)))

LEMMA SaidKept ==
  ASSUME SaidInv, TypeInv', UNCHANGED inode,
         EventsInHand, CallsInHand, ResultsInHand, ReadFromLines
  PROVE  SaidInv'
<1>1. \A u : KeyOf(u).session = u.session /\ KeyOf(u).call = u.call
  BY DEF KeyOf
<1>2. \A r : /\ RowSaid(r) => RowSaid(r)'
             /\ CallSaid(r) => CallSaid(r)'
             /\ ResultSaid(r) => ResultSaid(r)'
  BY DEF RowSaid, CallSaid, ResultSaid
<1>3. \A u : (CallSaid(u) => CallSaid(KeyOf(u))) /\ (ResultSaid(u) => ResultSaid(KeyOf(u)))
  BY <1>1 DEF CallSaid, ResultSaid
<1>4. TablesSaid'
  <2>1. \A r \in events' : RowSaid(r)
    BY DEF SaidInv, TablesSaid, HandsSaid, EventsInHand
  <2>2. \A t \in toolCalls' : CallSaid(t)
    BY <1>3 DEF SaidInv, TablesSaid, HandsSaid, CallsInHand
  <2>3. \A t \in toolResults' : ResultSaid(t)
    BY <1>3 DEF SaidInv, TablesSaid, HandsSaid, ResultsInHand
  <2>. QED BY <1>2, <2>1, <2>2, <2>3 DEF TablesSaid
<1>5. HandsSaid'
  <2>1. \A i \in Ingesters :
          /\ \A r \in proc'[i].rows : RowSaid(r)
          /\ \A t \in proc'[i].tools : (t.full => CallSaid(t)) /\ (t.result => ResultSaid(t))
    BY DEF SaidInv, HandsSaid, ReadFromLines
  <2>. QED BY <1>2, <2>1 DEF HandsSaid
<1>. QED BY <1>4, <1>5 DEF SaidInv

LEMMA NothingStored ==
  UNCHANGED <<events, toolCalls, toolResults>> => EventsInHand /\ CallsInHand /\ ResultsInHand
BY DEF EventsInHand, CallsInHand, ResultsInHand

LEMMA SaidStep == SaidInv /\ [Next]_vars => SaidInv'
<1>. SUFFICES ASSUME SaidInv, [Next]_vars PROVE SaidInv'
  OBVIOUS
<1>1. TypeInv /\ TypeInv'
  BY TypeStep DEF SaidInv
<1>2. \A call : NextPath(call).rows = {} /\ NextPath(call).tools = {} /\ Idle.rows = {} /\ Idle.tools = {}
  BY DEF NextPath, Idle
<1>3. CASE Transcripts
  <2>1. LinesGrow /\ UNCHANGED <<tables, proc>>
    BY <1>1, <1>3, TranscriptsGrow DEF Grows, LinesGrow
  <2>2. \A r : /\ RowSaid(r) => RowSaid(r)'
               /\ CallSaid(r) => CallSaid(r)'
               /\ ResultSaid(r) => ResultSaid(r)'
    BY <1>1, <2>1, SaidGrows
  <2>3. TablesSaid'
    BY <2>1, <2>2 DEF SaidInv, TablesSaid, tables
  <2>4. HandsSaid'
    BY <2>1, <2>2 DEF SaidInv, HandsSaid
  <2>. QED BY <1>1, <2>3, <2>4 DEF SaidInv
<1>4. ASSUME UNCHANGED <<inode, tables>>,
             \A i \in Ingesters : \/ proc'[i].rows = {} /\ proc'[i].tools = {}
                                  \/ proc'[i].rows = proc[i].rows /\ proc'[i].tools = proc[i].tools
      PROVE  SaidInv'
  <2>1. ReadFromLines
    BY <1>4 DEF ReadFromLines
  <2>. QED BY <1>1, <1>4, <2>1, NothingStored, SaidKept DEF tables
<1>5. ASSUME NEW i \in Ingesters, NEW files, NEW trusted, NEW force, Begin(i, files, trusted, force),
             UNCHANGED <<disk, tables>>
      PROVE  SaidInv'
  <2>1. \A j \in Ingesters : \/ proc'[j].rows = {} /\ proc'[j].tools = {}
                             \/ proc'[j] = proc[j]
    BY <1>1, <1>5 DEF Begin, Idle, TypeInv, TypeOK
  <2>2. UNCHANGED <<inode, tables>>
    BY <1>5 DEF disk
  <2>. QED BY <1>4, <2>1, <2>2
<1>6. ASSUME NEW w \in Watchers, NEW p \in Paths, IngestFile(w, p) PROVE SaidInv'
  BY <1>5, <1>6 DEF IngestFile, Ingesters
<1>7. ASSUME NEW c \in Collectors, NEW trusted, NEW force, IngestListed(c, trusted, force)
      PROVE  SaidInv'
  BY <1>5, <1>7 DEF IngestListed, Ingesters
<1>8. ASSUME NEW i \in Ingesters, IngestStep(i) PROVE SaidInv'
  <2>. DEFINE call == proc[i]
  <2>1. call \in Call /\ \A j \in Ingesters \ {i} : proc'[j] = proc[j]
    BY <1>1, <1>8 DEF IngestStep, ReadCursor, Stat, Parse, UpsertEvents, UpsertToolCalls, SetCursor,
         TypeInv, TypeOK
  <2>2. CASE ReadCursor(i)
    <3>1. \/ proc'[i].rows = {} /\ proc'[i].tools = {}
          \/ proc'[i].rows = call.rows /\ proc'[i].tools = call.tools
      BY <1>1, <1>2, <2>1, <2>2 DEF ReadCursor, TypeInv, TypeOK, Call
    <3>. QED BY <1>4, <2>1, <2>2, <3>1 DEF ReadCursor, disk
  <2>3. CASE Stat(i)
    <3>1. \/ proc'[i].rows = {} /\ proc'[i].tools = {}
          \/ proc'[i].rows = call.rows /\ proc'[i].tools = call.tools
      BY <1>1, <1>2, <2>1, <2>3 DEF Stat, TypeInv, TypeOK, Call
    <3>. QED BY <1>4, <2>1, <2>3, <3>1 DEF Stat, disk
  <2>4. CASE Parse(i)
    <3>. DEFINE n == at[call.path]
                end == ParseEnd(n, call.start)
                rows == LargestOutputWins(EventsIn(n, call.start, end))
                tools == ToolsIn(n, call.start, end)
    <3>1. \/ n = None /\ proc'[i] = NextPath(call)
          \/ n # None /\ proc'[i].rows = rows /\ proc'[i].tools = tools
      <4>. DEFINE ino == IF call.start = 0 \/ call.ino = n THEN n ELSE None
                  pc == AfterRows(rows, tools)
                  read == [call EXCEPT !.pc = pc, !.end = end, !.ino = ino,
                                       !.rows = rows, !.tools = tools]
      <4>1. proc'[i] = IF n = None THEN NextPath(call) ELSE read
        BY <1>1, <2>4 DEF Parse, TypeInv, TypeOK
      <4>2. read.rows = rows /\ read.tools = tools
        <5>. HIDE DEF n, end, rows, tools, ino, pc
        <5>. QED BY <2>1 DEF Call
      <4>. QED BY <4>1, <4>2
    <3>2. ASSUME n # None
          PROVE  /\ \A r \in rows : RowSaid(r)
                 /\ \A t \in tools : (t.full => CallSaid(t)) /\ (t.result => ResultSaid(t))
      <4>0. call.path \in Paths
        BY <1>1, <2>4 DEF Parse, At, TypeInv, InHand, HasPath
      <4>1. n \in Inodes /\ call.start \in Nat /\ inode[n].lines \in Seq(Lines)
        BY <1>1, <2>1, <3>2, <4>0 DEF TypeInv, TypeOK, Call, Content
      <4>2. end \in Nat /\ (end <= Len(inode[n].lines) \/ end = call.start)
        BY <4>1 DEF ParseEnd
      <4>. HIDE DEF end
      <4>. QED BY <1>1, <4>1, <4>2, ParsedSaid
    <3>3. UNCHANGED <<inode, events, toolCalls, toolResults>>
      BY <2>4 DEF Parse, disk, tables
    <3>. HIDE DEF n, rows, tools
    <3>4. /\ \A r \in proc'[i].rows : r \in proc[i].rows \/ RowSaid(r)
          /\ \A t \in proc'[i].tools :
               t \in proc[i].tools \/ ((t.full => CallSaid(t)) /\ (t.result => ResultSaid(t)))
      BY <1>2, <3>1, <3>2
    <3>5. ReadFromLines
      BY <2>1, <3>4 DEF ReadFromLines
    <3>. QED BY <1>1, <3>3, <3>5, NothingStored, SaidKept
  <2>5. CASE UpsertEvents(i)
    <3>1. PICK b \in SUBSET call.rows :
            /\ events' = Upserted(events, b)
            /\ proc' = [proc EXCEPT ![i].rows = call.rows \ b,
                                    ![i].pc = AfterRows(call.rows \ b, call.tools)]
      BY <2>5 DEF UpsertEvents
    <3>2. proc'[i].rows = call.rows \ b /\ proc'[i].tools = call.tools
      BY <1>1, <2>1, <3>1 DEF TypeInv, TypeOK, Call
    <3>3. EventsInHand
      BY <3>1 DEF Upserted, LargestOutputWins, EventsInHand
    <3>4. UNCHANGED inode /\ CallsInHand /\ ResultsInHand
      BY <2>5 DEF UpsertEvents, disk, CallsInHand, ResultsInHand
    <3>5. ReadFromLines
      BY <2>1, <3>2 DEF ReadFromLines
    <3>. QED BY <1>1, <3>3, <3>4, <3>5, SaidKept
  <2>6. CASE UpsertToolCalls(i)
    <3>1. PICK b \in SUBSET call.tools :
            /\ toolCalls' = toolCalls \cup {KeyOf(t) : t \in {u \in b : u.full}}
            /\ toolResults' = toolResults
                 \cup {KeyOf(t) : t \in {u \in b : u.result /\ (u.full \/ KeyOf(u) \in toolCalls)}}
            /\ proc' = [proc EXCEPT ![i].tools = call.tools \ b,
                                    ![i].pc = AfterRows({}, call.tools \ b)]
      BY <2>6 DEF UpsertToolCalls
    <3>2. proc'[i].rows = call.rows /\ proc'[i].tools = call.tools \ b
      BY <1>1, <2>1, <3>1 DEF TypeInv, TypeOK, Call
    <3>3. CallsInHand /\ ResultsInHand
      BY <3>1 DEF CallsInHand, ResultsInHand
    <3>4. UNCHANGED inode /\ EventsInHand
      BY <2>6 DEF UpsertToolCalls, disk, EventsInHand
    <3>5. ReadFromLines
      BY <2>1, <3>2 DEF ReadFromLines
    <3>. QED BY <1>1, <3>3, <3>4, <3>5, SaidKept
  <2>7. CASE SetCursor(i)
    <3>1. proc'[i].rows = {} /\ proc'[i].tools = {}
      BY <1>1, <1>2, <2>7 DEF SetCursor, TypeInv, TypeOK
    <3>2. UNCHANGED <<inode, events, toolCalls, toolResults>>
      BY <2>7 DEF SetCursor, disk
    <3>3. ReadFromLines
      BY <2>1, <3>1 DEF ReadFromLines
    <3>. QED BY <1>1, <3>2, <3>3, NothingStored, SaidKept
  <2>. QED BY <1>8, <2>2, <2>3, <2>4, <2>5, <2>6, <2>7 DEF IngestStep
<1>9. CASE Faults
  <2>1. \A j \in Ingesters : \/ proc'[j].rows = {} /\ proc'[j].tools = {}
                             \/ proc'[j] = proc[j]
    BY <1>1, <1>2, <1>9 DEF Faults, Crash, StoreError, ReadError, TypeInv, TypeOK
  <2>2. UNCHANGED <<inode, tables>>
    BY <1>9 DEF Faults, Crash, StoreError, ReadError, disk
  <2>. QED BY <1>4, <2>1, <2>2
<1>10. CASE UNCHANGED vars
  BY <1>4, <1>10 DEF vars, tables
<1>. QED BY <1>3, <1>6, <1>7, <1>8, <1>9, <1>10 DEF Next

(* The members of the two sides of the mapping, one fact at a time.        *)
OutFact(s, q, o)   == [session |-> s, req |-> q, out |-> o]
ToolFact(s, c, r)  == [session |-> s, call |-> c, result |-> r]

KnownFacts ==
  \A x : x \in Known <=>
    \/ \E r \in events : \E o \in 0..r.out : x = OutFact(r.session, r.req, o)
    \/ \E t \in toolCalls : x = ToolFact(t.session, t.call, FALSE)
    \/ \E t \in toolResults : x = ToolFact(t.session, t.call, TRUE)

LineFact(x, n, k) ==
  \/ \E o \in 0..inode[n].lines[k].out : x = OutFact(inode[n].session, inode[n].lines[k].req, o)
  \/ \E c \in inode[n].lines[k].calls : x = ToolFact(inode[n].session, c, FALSE)
  \/ \E c \in inode[n].lines[k].results : x = ToolFact(inode[n].session, c, TRUE)

WrittenFacts ==
  \A x : x \in Written <=> \E n \in Inodes : \E k \in 1..Len(inode[n].lines) : LineFact(x, n, k)

LEMMA KnownMembers == TypeInv => KnownFacts
<1>. SUFFICES ASSUME TypeInv PROVE KnownFacts
  OBVIOUS
<1>. DEFINE OfRow(r) == {[r EXCEPT !.out = o] : o \in 0..r.out}
            Rows == UNION {OfRow(r) : r \in events}
            Of(ts, b) == {[session |-> t.session, call |-> t.call, result |-> b] : t \in ts}
<1>1. \A r \in events : \A o : [r EXCEPT !.out = o] = OutFact(r.session, r.req, o)
  BY DEF TypeInv, TypeOK, EventRow, OutFact
<1>2. ASSUME NEW x
      PROVE  x \in Rows <=> \E r \in events : \E o \in 0..r.out : x = OutFact(r.session, r.req, o)
  <2>1. ASSUME NEW r \in events
        PROVE  x \in OfRow(r) <=> \E o \in 0..r.out : x = OutFact(r.session, r.req, o)
    <3>1. x \in OfRow(r) <=> \E o \in 0..r.out : x = [r EXCEPT !.out = o]
      BY Zenon
    <3>. HIDE DEF OfRow
    <3>. QED BY <1>1, <3>1
  <2>2. x \in Rows <=> \E r \in events : x \in OfRow(r)
    <3>. HIDE DEF OfRow
    <3>. QED BY Zenon
  <2>. HIDE DEF OfRow, Rows
  <2>. QED BY <2>1, <2>2, Zenon
<1>3. \A x, ts, b : x \in Of(ts, b) <=> \E t \in ts : x = ToolFact(t.session, t.call, b)
  BY Zenon DEF ToolFact
<1>4. Known = Rows \cup Of(toolCalls, FALSE) \cup Of(toolResults, TRUE)
  BY Zenon DEF Known
<1>. HIDE DEF Rows, Of
<1>. QED BY <1>2, <1>3, <1>4 DEF KnownFacts

LEMMA WrittenMembers == WrittenFacts
<1>. DEFINE Said(n, k) ==
              {[session |-> inode[n].session, req |-> inode[n].lines[k].req, out |-> o] :
                 o \in 0..inode[n].lines[k].out}
              \cup {[session |-> inode[n].session, call |-> x, result |-> FALSE] :
                     x \in inode[n].lines[k].calls}
              \cup {[session |-> inode[n].session, call |-> x, result |-> TRUE] :
                     x \in inode[n].lines[k].results}
            In(n) == UNION {Said(n, k) : k \in 1..Len(inode[n].lines)}
<1>1. \A x, n, k : x \in Said(n, k) <=> LineFact(x, n, k)
  BY Zenon DEF LineFact, OutFact, ToolFact
<1>2. Written = UNION {In(n) : n \in Inodes}
  BY DEF Written
<1>3. \A x, n : x \in In(n) <=> \E k \in 1..Len(inode[n].lines) : x \in Said(n, k)
  BY Zenon
<1>. HIDE DEF Said, In
<1>4. \A x : x \in Written <=> \E n \in Inodes : x \in In(n)
  BY <1>2, Zenon
<1>. QED BY <1>1, <1>3, <1>4, Zenon DEF WrittenFacts

(* What the store knows, some line has said.                               *)
SaidOnly == Known \subseteq Written

LEMMA KnownIsWritten == SaidInv => SaidOnly
<1>. SUFFICES ASSUME SaidInv, NEW x \in Known PROVE x \in Written
  BY DEF SaidOnly
<1>1. TypeInv /\ TablesSaid
  BY DEF SaidInv
<1>2. CASE \E r \in events : \E o \in 0..r.out : x = OutFact(r.session, r.req, o)
  <2>1. PICK r \in events : \E o \in 0..r.out : x = OutFact(r.session, r.req, o)
    BY <1>2
  <2>2. PICK o \in 0..r.out : x = OutFact(r.session, r.req, o)
    BY <2>1
  <2>3. PICK n \in Inodes : \E k \in 1..Len(inode[n].lines) :
          /\ inode[n].session = r.session
          /\ inode[n].lines[k].req = r.req
          /\ r.out <= inode[n].lines[k].out
    BY <1>1 DEF TablesSaid, RowSaid
  <2>4. PICK k \in 1..Len(inode[n].lines) :
          /\ inode[n].session = r.session
          /\ inode[n].lines[k].req = r.req
          /\ r.out <= inode[n].lines[k].out
    BY <2>3
  <2>5. r.out \in Int /\ inode[n].lines[k].out \in Int
    <3>1. inode[n].lines \in Seq(Lines)
      BY <1>1 DEF TypeInv, TypeOK, Content
    <3>2. inode[n].lines[k] \in Lines
      BY <3>1
    <3>. QED BY <1>1, <3>2, LinesAssumption DEF TypeInv, TypeOK, EventRow
  <2>6. o \in 0..inode[n].lines[k].out
    BY <2>2, <2>4, <2>5
  <2>7. LineFact(x, n, k)
    BY <2>2, <2>4, <2>6 DEF LineFact
  <2>. QED BY <2>7, WrittenMembers DEF WrittenFacts
<1>3. CASE \E t \in toolCalls : x = ToolFact(t.session, t.call, FALSE)
  BY <1>1, <1>3, WrittenMembers DEF TablesSaid, CallSaid, WrittenFacts, LineFact
<1>4. CASE \E t \in toolResults : x = ToolFact(t.session, t.call, TRUE)
  BY <1>1, <1>4, WrittenMembers DEF TablesSaid, ResultSaid, WrittenFacts, LineFact
<1>. QED BY <1>1, <1>2, <1>3, <1>4, KnownMembers DEF KnownFacts

LEMMA FactsGrow ==
  ASSUME TypeInv, TypeInv', Grows
  PROVE  Known \subseteq Known' /\ Written \subseteq Written'
<1>1. \A r \in events \cup events' : r.out \in Int
  BY LinesAssumption DEF TypeInv, TypeOK, EventRow
<1>2. ASSUME NEW x \in Known PROVE x \in Known'
  <2>1. \/ \E r \in events' : \E o \in 0..r.out : x = OutFact(r.session, r.req, o)
        \/ \E t \in toolCalls' : x = ToolFact(t.session, t.call, FALSE)
        \/ \E t \in toolResults' : x = ToolFact(t.session, t.call, TRUE)
    <3>1. CASE \E r \in events : \E o \in 0..r.out : x = OutFact(r.session, r.req, o)
      <4>1. PICK r \in events : \E o \in 0..r.out : x = OutFact(r.session, r.req, o)
        BY <3>1
      <4>2. PICK q \in events' : q.session = r.session /\ q.req = r.req /\ q.out >= r.out
        BY DEF Grows
      <4>3. \A o \in 0..r.out : o \in 0..q.out
        BY <1>1, <4>2
      <4>. QED BY <4>1, <4>2, <4>3
    <3>2. CASE \E t \in toolCalls : x = ToolFact(t.session, t.call, FALSE)
      BY <3>2 DEF Grows
    <3>3. CASE \E t \in toolResults : x = ToolFact(t.session, t.call, TRUE)
      BY <3>3 DEF Grows
    <3>. QED BY <1>2, <3>1, <3>2, <3>3, KnownMembers DEF KnownFacts
  <2>2. KnownFacts'
    BY KnownMembers, PTL
  <2>. QED BY <2>1, <2>2 DEF KnownFacts
<1>3. ASSUME NEW x \in Written PROVE x \in Written'
  <2>1. PICK n \in Inodes : \E k \in 1..Len(inode[n].lines) : LineFact(x, n, k)
    BY <1>3, WrittenMembers DEF WrittenFacts
  <2>2. PICK k \in 1..Len(inode[n].lines) : LineFact(x, n, k)
    BY <2>1
  <2>3. Len(inode[n].lines) \in Nat /\ Len(inode'[n].lines) \in Nat
    BY DEF TypeInv, TypeOK, Content
  <2>4. /\ k \in 1..Len(inode'[n].lines)
        /\ inode'[n].lines[k] = inode[n].lines[k] /\ inode'[n].session = inode[n].session
    BY <2>3 DEF Grows
  <2>5. LineFact(x, n, k)'
    BY <2>2, <2>4 DEF LineFact
  <2>6. WrittenFacts'
    BY WrittenMembers, PTL
  <2>. QED BY <2>4, <2>5, <2>6 DEF WrittenFacts
<1>. QED BY <1>2, <1>3

(* Every step is one of the replica's: an agent says more and the store    *)
(* knows the same, a transaction learns some of what was said, or neither  *)
(* changes.                                                                *)
LEMMA ReplicaInit == Init => Grown!Init
<1>. SUFFICES ASSUME Init PROVE Written = {} /\ Known = {}
  BY DEF Grown!Init
<1>1. \A n \in Inodes : inode[n].lines = <<>>
  BY DEF Init, Blank
<1>2. \A x : x \notin Written
  <2>1. \A n \in Inodes : 1..Len(inode[n].lines) = {}
    BY <1>1
  <2>. QED BY <2>1, WrittenMembers, Zenon DEF WrittenFacts
<1>3. \A x : x \notin Known
  BY TypeInit, KnownMembers DEF Init, KnownFacts
<1>. QED BY <1>2, <1>3

LEMMA ReplicaStep ==
  SaidInv /\ SaidInv' /\ [Next]_vars => [Grown!Next]_<<Written, Known>>
<1>. SUFFICES ASSUME SaidInv, SaidInv', [Next]_vars PROVE [Grown!Next]_<<Written, Known>>
  OBVIOUS
<1>1. TypeInv /\ TypeInv'
  BY DEF SaidInv
<1>2. CASE Transcripts
  <2>1. Grows /\ UNCHANGED tables
    BY <1>1, <1>2, TranscriptsGrow
  <2>2. Known' = Known
    BY <2>1 DEF Known, tables
  <2>. QED BY <1>1, <2>1, <2>2, FactsGrow DEF Grown!Next, Grown!Say
<1>3. ASSUME NEW i \in Ingesters, UpsertEvents(i) \/ UpsertToolCalls(i)
      PROVE  Grown!Next
  <2>1. Grows
    BY <1>1, <1>3, UpsertsGrow
  <2>2. UNCHANGED inode
    BY <1>3 DEF UpsertEvents, UpsertToolCalls, disk
  <2>3. Written' = Written
    BY <2>2 DEF Written
  <2>4. Known' \subseteq Written'
    <3>1. SaidOnly'
      BY KnownIsWritten, PTL
    <3>. QED BY <3>1 DEF SaidOnly
  <2>. QED BY <1>1, <2>1, <2>3, <2>4, FactsGrow DEF Grown!Next, Grown!Learn
<1>4. ASSUME UNCHANGED <<inode, events, toolCalls, toolResults>>
      PROVE  UNCHANGED <<Written, Known>>
  BY <1>4 DEF Written, Known
<1>5. ASSUME NEW w \in Watchers, NEW p \in Paths, IngestFile(w, p)
      PROVE  UNCHANGED <<Written, Known>>
  BY <1>4, <1>5 DEF IngestFile, disk, tables
<1>6. ASSUME NEW c \in Collectors, NEW trusted, NEW force, IngestListed(c, trusted, force)
      PROVE  UNCHANGED <<Written, Known>>
  BY <1>4, <1>6 DEF IngestListed, disk, tables
<1>7. ASSUME NEW i \in Ingesters, ReadCursor(i) \/ Stat(i) \/ Parse(i) \/ SetCursor(i)
      PROVE  UNCHANGED <<Written, Known>>
  BY <1>4, <1>7 DEF ReadCursor, Stat, Parse, SetCursor, disk, tables
<1>8. CASE Faults
  BY <1>4, <1>8 DEF Faults, Crash, StoreError, ReadError, disk, tables
<1>9. CASE UNCHANGED vars
  BY <1>4, <1>9 DEF vars, tables
<1>. QED BY <1>2, <1>3, <1>5, <1>6, <1>7, <1>8, <1>9 DEF Next, IngestStep

(* The store is a grow-only replica of what the transcripts ever said: a   *)
(* count once seen is never lowered, a tool result once recorded is never  *)
(* wiped, and nothing is stored that no line says, however calls interleave*)
(* and wherever they fail.                                                 *)
THEOREM StoreOnlyGrows == Spec => GrowOnly
BY SaidInit, SaidStep, ReplicaInit, ReplicaStep, PTL DEF Spec, GrowOnly, Grown!Spec
=============================================================================
