--------------------------- MODULE CollectProofs ---------------------------
(***************************************************************************)
(* Theorems about Collect.tla, for every set of paths, sessions, contents, *)
(* watchers and collectors and every bound.  Collections run the ingest    *)
(* steps of IngestProofs; what is new is the prune.                        *)
(***************************************************************************)
EXTENDS Collect, IngestProofs

CollectTypes ==
  /\ pass \in [Collectors -> Pass]
  /\ slowRoots \in [Collectors -> SUBSET Slow]
  /\ slowFiles \in [Collectors -> SUBSET Slow]
  /\ backfilled \in BOOLEAN
  /\ startup \in [Collectors -> StartupStates]
  /\ polled \in [Collectors -> SUBSET Slow]
  /\ cut \subseteq Sessions

TypesInv == TypeInv /\ CollectTypes

-----------------------------------------------------------------------------
(***************************************************************************)
(* Type correctness.                                                       *)
(***************************************************************************)
LEMMA CollectTypesInit == CollectInit => TypesInv
<1>. SUFFICES ASSUME CollectInit PROVE TypesInv
  OBVIOUS
<1>1. TypeInv
  BY TypeInit DEF CollectInit
<1>2. CollectTypes
  BY DEF CollectInit, CollectTypes, NoPass, Pass, Launched, StartupStates
<1>. QED BY <1>1, <1>2 DEF TypesInv

(* A collection that starts, whichever tier it is of.                      *)
LEMMA StartTyped ==
  ASSUME TypesInv, NEW c \in Collectors, NEW files \in SUBSET Paths, NEW trusted \in SUBSET Slow,
         Start(c, files, trusted)
  PROVE  /\ TypeInv' /\ pass' \in [Collectors -> Pass]
         /\ backfilled' \in BOOLEAN /\ polled' \in [Collectors -> SUBSET Slow]
         /\ cut' \subseteq Sessions
<1>1. TypeInv'
  <2>1. CASE files = {}
    BY <2>1 DEF Start, TypesInv, TypeInv, TypeOK, Owned, InHand, disk, tables
  <2>2. CASE files # {}
    <3>1. Begin(c, files, trusted, ~ backfilled) /\ UNCHANGED <<disk, tables, tailed, faults>>
      BY <2>2 DEF Start
    <3>2. (~ backfilled) \in BOOLEAN /\ trusted \in SUBSET Paths /\ c \in Ingesters
      BY PathsAssumption DEF Ingesters
    <3>. QED BY <3>1, <3>2, BeginTyped DEF TypesInv
  <2>. QED BY <2>1, <2>2
<1>2. pass' \in [Collectors -> Pass]
  <2>1. \A b \in BOOLEAN : [pc |-> "ingest", keep |-> files, backfilling |-> b, stale |-> {}] \in Pass
    BY DEF Pass
  <2>2. [pc |-> "ingest", keep |-> files, backfilling |-> ~ backfilled, stale |-> {}] \in Pass
    BY <2>1
  <2>. QED BY <2>2 DEF Start, TypesInv, CollectTypes
<1>. QED BY <1>1, <1>2 DEF Start, TypesInv, CollectTypes

LEMMA FullPassTyped ==
  ASSUME TypesInv, NEW c \in Collectors, NEW reached \in SUBSET Slow, FullPass(c, reached),
         startup' \in [Collectors -> StartupStates]
  PROVE  TypesInv'
<1>. DEFINE files == FindJSONL((Paths \ Slow) \cup reached)
<1>1. files \in SUBSET Paths
  BY PathsAssumption DEF FindJSONL
<1>2. Start(c, files, {})
  BY DEF FullPass
<1>3. slowRoots' \in [Collectors -> SUBSET Slow] /\ slowFiles' \in [Collectors -> SUBSET Slow]
  BY DEF FullPass, TypesInv, CollectTypes
<1>. HIDE DEF files
<1>. QED BY <1>1, <1>2, <1>3, StartTyped DEF TypesInv, CollectTypes

(* The ingest variables are left alone.                                    *)
LEMMA VarsStay == TypeInv /\ UNCHANGED vars => TypeInv'
BY DEF vars, TypeInv, TypeOK, Owned, InHand

LEMMA EndTyped ==
  ASSUME TypesInv, NEW c, NEW ok, End(c, ok)
  PROVE  pass' \in [Collectors -> Pass] /\ startup' \in [Collectors -> StartupStates]
BY DEF End, TypesInv, CollectTypes, NoPass, Pass, StartupStates

LEMMA ReturnedTyped ==
  ASSUME TypesInv, NEW i, Returned(i)
  PROVE  pass' \in [Collectors -> Pass]
BY DEF Returned, TypesInv, CollectTypes, Pass

LEMMA PruneTyped ==
  ASSUME TypesInv, NEW c \in Collectors, Prune(c)
  PROVE  TypesInv'
<1>1. TypeInv'
  BY DEF Prune, TypesInv, TypeInv, TypeOK, Owned, InHand, disk
<1>2. Cut(pass[c].stale) \subseteq Sessions
  BY PathsAssumption DEF Cut, TypesInv, CollectTypes, Pass
<1>3. pass' \in [Collectors -> Pass]
  BY DEF Prune, TypesInv, CollectTypes, Pass
<1>. QED BY <1>1, <1>2, <1>3 DEF Prune, TypesInv, CollectTypes

LEMMA AfterIngestTyped ==
  ASSUME TypesInv, NEW c \in Collectors, AfterIngest(c)
  PROVE  TypesInv'
<1>1. CASE SetMeta(c)
  BY <1>1, VarsStay DEF SetMeta, TypesInv, CollectTypes, Pass
<1>2. CASE ListStale(c)
  <2>. DEFINE stale == {p \in Paths : cursor[p] # None} \ pass[c].keep
  <2>1. pass' \in [Collectors -> Pass]
    <3>1. PICK pc \in {"publish", "prune"} :
            pass' = [pass EXCEPT ![c].stale = stale, ![c].pc = pc]
      BY <1>2 DEF ListStale
    <3>2. stale \subseteq Paths
      OBVIOUS
    <3>. HIDE DEF stale
    <3>. QED BY <3>1, <3>2 DEF TypesInv, CollectTypes, Pass
  <2>. QED BY <1>2, <2>1, VarsStay DEF ListStale, TypesInv, CollectTypes
<1>3. CASE Prune(c)
  BY <1>3, PruneTyped
<1>4. CASE Publish(c)
  BY <1>4, VarsStay, EndTyped DEF Publish, TypesInv, CollectTypes
<1>. QED BY <1>1, <1>2, <1>3, <1>4 DEF AfterIngest

LEMMA StoreFailsTyped ==
  ASSUME TypesInv, NEW i \in Ingesters, StoreFails(i)
  PROVE  TypesInv'
<1>1. TypeInv'
  <2>1. CASE StoreError(i)
    BY <2>1, FaultsTyped DEF TypesInv
  <2>2. CASE faults' = faults + 1 /\ UNCHANGED <<disk, tables, proc, tailed>>
    BY <2>2 DEF TypesInv, TypeInv, TypeOK, Owned, InHand, disk, tables
  <2>. QED BY <2>1, <2>2 DEF StoreFails
<1>2. pass' \in [Collectors -> Pass] /\ startup' \in [Collectors -> StartupStates]
  BY EndTyped DEF StoreFails, TypesInv, CollectTypes
<1>. QED BY <1>1, <1>2 DEF StoreFails, TypesInv, CollectTypes

LEMMA CollectTypesStep == TypesInv /\ [CollectNext]_allVars => TypesInv'
<1>. SUFFICES ASSUME TypesInv, [CollectNext]_allVars PROVE TypesInv'
  OBVIOUS
<1>1. CASE Transcripts /\ UNCHANGED collectVars
  BY <1>1, TranscriptsTyped DEF TypesInv, CollectTypes, collectVars
<1>2. ASSUME NEW w \in Watchers, NEW p \in Paths, Watch(w, p) PROVE TypesInv'
  <2>1. TypeInv'
    BY <1>2, BeginTyped DEF Watch, IngestFile, Ingesters, TypesInv
  <2>. QED BY <1>2, <2>1 DEF Watch, TypesInv, CollectTypes, collectVars
<1>3. ASSUME NEW c \in Collectors, NEW reached \in SUBSET Slow, Startup(c, reached)
      PROVE  TypesInv'
  <2>1. startup' \in [Collectors -> StartupStates]
    BY <1>3 DEF Startup, TypesInv, CollectTypes, StartupStates
  <2>2. CASE FullPass(c, reached)
    BY <2>1, <2>2, FullPassTyped
  <2>3. CASE UNCHANGED <<vars, pass, slowRoots, slowFiles, backfilled, polled, cut>>
    BY <2>1, <2>3, VarsStay DEF TypesInv, CollectTypes
  <2>. QED BY <1>3, <2>2, <2>3 DEF Startup
<1>4. ASSUME NEW c \in Collectors, NEW reached \in SUBSET Slow, Refresh(c, reached)
      PROVE  TypesInv'
  <2>1. startup' \in [Collectors -> StartupStates]
    BY <1>4 DEF Refresh, TypesInv, CollectTypes
  <2>. QED BY <1>4, <2>1, FullPassTyped DEF Refresh
<1>5. ASSUME NEW c \in Collectors, FastPass(c) PROVE TypesInv'
  <2>. DEFINE files == FindJSONL(Paths \ Slow) \cup slowFiles[c]
  <2>1. files \in SUBSET Paths /\ slowFiles[c] \in SUBSET Slow
    BY PathsAssumption DEF FindJSONL, TypesInv, CollectTypes
  <2>2. Start(c, files, slowFiles[c])
    BY <1>5 DEF FastPass
  <2>. HIDE DEF files
  <2>. QED BY <1>5, <2>1, <2>2, StartTyped DEF FastPass, TypesInv, CollectTypes
<1>6. ASSUME NEW c \in Collectors, ExtendLiveWatch(c) PROVE TypesInv'
  BY <1>6, VarsStay DEF ExtendLiveWatch, TypesInv, CollectTypes, StartupStates
<1>7. ASSUME NEW i \in Ingesters, PassStep(i) PROVE TypesInv'
  BY <1>7, IngestStepTyped, ReturnedTyped DEF PassStep, TypesInv, CollectTypes
<1>8. ASSUME NEW c \in Collectors, AfterIngest(c) PROVE TypesInv'
  BY <1>8, AfterIngestTyped
<1>9. CASE Restart
  <2>1. TypeInv'
    BY <1>9, FaultsTyped DEF Restart, TypesInv
  <2>. QED BY <1>9, <2>1 DEF Restart, TypesInv, CollectTypes, NoPass, Pass, Launched, StartupStates
<1>10. ASSUME NEW i \in Ingesters, StoreFails(i) PROVE TypesInv'
  BY <1>10, StoreFailsTyped
<1>11. ASSUME NEW i \in Ingesters, ReadFails(i) PROVE TypesInv'
  <2>1. TypeInv'
    BY <1>11, FaultsTyped DEF ReadFails, TypesInv
  <2>. QED BY <1>11, <2>1, ReturnedTyped DEF ReadFails, TypesInv, CollectTypes
<1>12. CASE UNCHANGED allVars
  BY <1>12, VarsStay DEF allVars, collectVars, TypesInv, CollectTypes
<1>. QED BY <1>1, <1>2, <1>3, <1>4, <1>5, <1>6, <1>7, <1>8, <1>9, <1>10, <1>11, <1>12
         DEF CollectNext

(* Every state of a collection, its watchers and its poller is well-typed: *)
(* what a fast pass takes on trust and the poller polls is under WSL, and  *)
(* what a prune is about to drop are paths.                                *)
THEOREM CollectTyped == CollectSpec => []CollectTypeOK
<1>1. TypesInv => CollectTypeOK
  BY DEF TypesInv, TypeInv, CollectTypes, CollectTypeOK
<1>. QED BY <1>1, CollectTypesInit, CollectTypesStep, PTL DEF CollectSpec

-----------------------------------------------------------------------------
(***************************************************************************)
(* Only cuts lose.  A prune takes the events of whole sessions, so what it *)
(* leaves the others needs that a cursor and a call count lines of their   *)
(* own session's content; and a session that is not cut has, once its      *)
(* paths are pruned, neither a cursor nor a call left.                     *)
(***************************************************************************)
Owns(call) ==
  /\ (call.pc = "stat" /\ call.cur # None /\ call.cur.ino # None)
       => inode[call.cur.ino].session = SessionOf[call.path]
  /\ (call.pc \in {"parse", "events", "tools", "cursor"} /\ call.ino # None)
       => inode[call.ino].session = SessionOf[call.path]

PathsOwn == \A p \in Paths : at[p] # None => inode[at[p]].session = SessionOf[p]

CursorsOwn ==
  \A p \in Paths : (cursor[p] # None /\ cursor[p].ino # None)
                     => inode[cursor[p].ino].session = SessionOf[p]

CallsOwn == \A i \in Ingesters : Owns(proc[i])

OwnSession == PathsOwn /\ CursorsOwn /\ CallsOwn

CollectInv == TypesInv /\ OwnSession /\ \A s \in Sessions \ cut : SessionSafe(s)

(* A content keeps its session.                                            *)
SessionsStay ==
  \A n \in Inodes : inode[n].session # None => inode'[n].session = inode[n].session

LEMMA OwnsStays ==
  ASSUME TypeInv, SessionsStay, NEW call \in Call, HasPath(call), Owns(call)
  PROVE  Owns(call)'
<1>1. \A p \in Paths : SessionOf[p] # None
  BY PathsAssumption, NoneAssumption
<1>2. call.ino # None => call.ino \in Inodes
  BY DEF Call
<1>3. call.cur # None /\ call.cur.ino # None => call.cur.ino \in Inodes
  BY DEF Call, CursorRow
<1>. QED BY <1>1, <1>2, <1>3 DEF SessionsStay, Owns, HasPath

LEMMA CursorsOwnStays ==
  ASSUME TypeInv, SessionsStay, CursorsOwn, \A p \in Paths : cursor'[p] \in {cursor[p], None}
  PROVE  CursorsOwn'
<1>1. ASSUME NEW p \in Paths, cursor'[p] # None, cursor'[p].ino # None
      PROVE  inode'[cursor'[p].ino].session = SessionOf[p]
  <2>1. cursor'[p] = cursor[p] /\ cursor[p].ino \in Inodes
    BY <1>1 DEF TypeInv, TypeOK, CursorRow
  <2>2. inode[cursor[p].ino].session = SessionOf[p] /\ SessionOf[p] # None
    BY <1>1, <2>1, PathsAssumption, NoneAssumption DEF CursorsOwn
  <2>. QED BY <2>1, <2>2 DEF SessionsStay
<1>. QED BY <1>1 DEF CursorsOwn

(* A step in which no call moves but to rest, and no cursor is set.        *)
LEMMA OwnStays ==
  ASSUME TypeInv, OwnSession, SessionsStay, PathsOwn',
         \A p \in Paths : cursor'[p] \in {cursor[p], None},
         \A i \in Ingesters : proc'[i] = proc[i] \/ proc'[i].pc \in {"idle", "next"}
  PROVE  OwnSession'
<1>1. CursorsOwn'
  BY CursorsOwnStays DEF OwnSession
<1>2. ASSUME NEW i \in Ingesters PROVE Owns(proc[i])'
  <2>1. CASE proc'[i] = proc[i]
    <3>1. proc[i] \in Call /\ HasPath(proc[i]) /\ Owns(proc[i])
      BY DEF TypeInv, TypeOK, InHand, OwnSession, CallsOwn
    <3>2. PICK call : call = proc[i]
      OBVIOUS
    <3>3. Owns(call)'
      BY <3>1, <3>2, OwnsStays
    <3>. QED BY <2>1, <3>2, <3>3 DEF Owns
  <2>2. CASE proc'[i].pc \in {"idle", "next"}
    BY <2>2 DEF Owns
  <2>. QED BY <2>1, <2>2
<1>. QED BY <1>1, <1>2 DEF OwnSession, CallsOwn

LEMMA NothingMoves ==
  ASSUME TypeInv, OwnSession, UNCHANGED <<at, inode>>,
         \A p \in Paths : cursor'[p] \in {cursor[p], None},
         \A i \in Ingesters : proc'[i] = proc[i] \/ proc'[i].pc \in {"idle", "next"}
  PROVE  OwnSession'
<1>1. SessionsStay /\ PathsOwn'
  BY DEF OwnSession, PathsOwn, SessionsStay
<1>. QED BY <1>1, OwnStays

LEMMA TranscriptsOwn ==
  ASSUME TypeInv, OwnSession, Transcripts
  PROVE  OwnSession'
<1>1. UNCHANGED <<cursor, proc>>
  BY TranscriptsGrow DEF tables
<1>2. SessionsStay /\ PathsOwn'
  <2>1. \A n \in Inodes : inode[n] \in Content
    BY DEF TypeInv, TypeOK
  <2>2. \A p \in Paths : at[p] # None => at[p] \in Inodes
    BY DEF TypeInv, TypeOK
  <2>3. inode \in [Inodes -> Content] /\ at \in [Paths -> Inodes \cup {None}] /\ PathsOwn
    BY DEF TypeInv, TypeOK, OwnSession
  <2>4. \A p \in Paths : SessionOf[p] # None
    BY PathsAssumption, NoneAssumption
  <2>5. ASSUME NEW p \in Paths, Create(p) PROVE SessionsStay /\ PathsOwn'
    <3>1. PICK n \in Inodes : /\ inode[n].session = None
                              /\ at' = [at EXCEPT ![p] = n]
                              /\ inode' = [inode EXCEPT ![n].session = SessionOf[p]]
      BY <2>5 DEF Create
    <3>2. inode'[n].session = SessionOf[p] /\ \A m \in Inodes \ {n} : inode'[m] = inode[m]
      BY <2>1, <2>3, <3>1 DEF Content
    <3>3. \A q \in Paths : at[q] # n
      BY <2>3, <2>4, <3>1, NoneAssumption DEF PathsOwn
    <3>. QED BY <2>2, <2>3, <3>1, <3>2, <3>3 DEF SessionsStay, PathsOwn
  <2>6. ASSUME NEW n \in Inodes, NEW c, inode' = [inode EXCEPT ![n] = c],
               c.session = inode[n].session, at' = at
        PROVE  SessionsStay /\ PathsOwn'
    BY <2>2, <2>3, <2>6 DEF SessionsStay, PathsOwn
  <2>7. ASSUME NEW p \in Paths, NEW l \in Lines, Write(p, l) PROVE SessionsStay /\ PathsOwn'
    <3>. DEFINE lines == Append(inode[at[p]].lines, l)
                mtime == inode[at[p]].mtime + 2 - inode[at[p]].tail
                c == [inode[at[p]] EXCEPT !.lines = lines, !.tail = 0, !.mtime = mtime]
    <3>1. at[p] \in Inodes /\ at' = at /\ inode' = [inode EXCEPT ![at[p]] = c]
      BY <2>2, <2>7 DEF Write
    <3>2. c.session = inode[at[p]].session
      <4>. HIDE DEF lines, mtime
      <4>. QED BY <2>1, <3>1 DEF Content
    <3>. HIDE DEF c
    <3>. QED BY <2>6, <3>1, <3>2
  <2>8. ASSUME NEW p \in Paths, Tear(p) PROVE SessionsStay /\ PathsOwn'
    <3>. DEFINE mtime == inode[at[p]].mtime + 1
                c == [inode[at[p]] EXCEPT !.tail = 1, !.mtime = mtime]
    <3>1. at[p] \in Inodes /\ at' = at /\ inode' = [inode EXCEPT ![at[p]] = c]
      BY <2>2, <2>8 DEF Tear
    <3>2. c.session = inode[at[p]].session
      <4>. HIDE DEF mtime
      <4>. QED BY <2>1, <3>1 DEF Content
    <3>. HIDE DEF c
    <3>. QED BY <2>6, <3>1, <3>2
  <2>9. ASSUME NEW p \in Paths, Rewrite(p) PROVE SessionsStay /\ PathsOwn'
    <3>1. PICK n \in Inodes : \E lines, mtime :
            /\ inode[n].session = None
            /\ at' = [at EXCEPT ![p] = n]
            /\ inode' = [inode EXCEPT ![n] = [session |-> inode[at[p]].session, lines |-> lines,
                                              tail |-> 0, mtime |-> mtime]]
      BY <2>9 DEF Rewrite
    <3>2. /\ inode'[n].session = SessionOf[p]
          /\ \A m \in Inodes \ {n} : inode'[m] = inode[m]
      BY <2>3, <2>9, <3>1 DEF Rewrite, PathsOwn
    <3>3. \A q \in Paths : at[q] # n
      BY <2>3, <2>4, <3>1, NoneAssumption DEF PathsOwn
    <3>. QED BY <2>2, <2>3, <3>1, <3>2, <3>3 DEF SessionsStay, PathsOwn
  <2>9a. ASSUME NEW p \in Paths, Recreate(p) PROVE SessionsStay /\ PathsOwn'
    <3>1. PICK n \in Inodes : \E mtime :
            /\ inode[n].session = None
            /\ at' = [at EXCEPT ![p] = n]
            /\ inode' = [inode EXCEPT ![n] = [session |-> SessionOf[p], lines |-> <<>>,
                                              tail |-> 0, mtime |-> mtime]]
      BY <2>9a DEF Recreate
    <3>2. /\ inode'[n].session = SessionOf[p]
          /\ \A m \in Inodes \ {n} : inode'[m] = inode[m]
      BY <2>3, <3>1
    <3>3. \A q \in Paths : at[q] # n
      BY <2>3, <2>4, <3>1, NoneAssumption DEF PathsOwn
    <3>. QED BY <2>2, <2>3, <3>1, <3>2, <3>3 DEF SessionsStay, PathsOwn
  <2>10. ASSUME NEW p \in Paths, Delete(p) PROVE SessionsStay /\ PathsOwn'
    BY <2>3, <2>10 DEF Delete, SessionsStay, PathsOwn
  <2>11. ASSUME NEW p \in Paths, NEW q \in Paths, Move(p, q) PROVE SessionsStay /\ PathsOwn'
    BY <2>3, <2>11 DEF Move, SessionsStay, PathsOwn
  <2>. QED BY <2>5, <2>7, <2>8, <2>9, <2>9a, <2>10, <2>11 DEF Transcripts
<1>. QED BY <1>1, <1>2, OwnStays

LEMMA IngestStepOwn ==
  ASSUME TypeInv, OwnSession, NEW i \in Ingesters, IngestStep(i)
  PROVE  OwnSession'
<1>. DEFINE call == proc[i]
<1>1. call \in Call /\ HasPath(call) /\ Owns(call) /\ proc \in [Ingesters -> Call]
  BY DEF TypeInv, TypeOK, InHand, OwnSession, CallsOwn
<1>2. /\ UNCHANGED <<at, inode>>
      /\ \A j \in Ingesters \ {i} : proc'[j] = proc[j]
  BY <1>1 DEF IngestStep, ReadCursor, Stat, Parse, UpsertEvents, UpsertToolCalls, SetCursor, disk
<1>3. SessionsStay /\ PathsOwn'
  BY <1>2 DEF OwnSession, PathsOwn, SessionsStay
<1>4. ASSUME NEW c, proc'[i] = c, Owns(c), CursorsOwn'
      PROVE  OwnSession'
  BY <1>2, <1>3, <1>4 DEF OwnSession, CallsOwn, Owns
<1>5. UNCHANGED cursor => CursorsOwn'
  BY <1>2 DEF OwnSession, CursorsOwn
<1>6. \A c : Owns(NextPath(c))
  BY DEF NextPath, Idle, Owns
<1>7. CASE ReadCursor(i)
  <2>1. PICK p \in proc[i].files :
          \/ \E c : proc'[i] = NextPath(c)
          \/ \E cur \in {None, cursor[p]} :
               proc'[i] = [call EXCEPT !.pc = "stat", !.path = p, !.cur = cur]
    BY <1>1, <1>7 DEF ReadCursor
  <2>2. p \in Paths
    BY <1>1 DEF Call
  <2>3. ASSUME NEW cur \in {None, cursor[p]}
        PROVE  Owns([call EXCEPT !.pc = "stat", !.path = p, !.cur = cur])
    BY <1>1, <2>2 DEF Owns, Call, OwnSession, CursorsOwn
  <2>4. UNCHANGED cursor
    BY <1>7 DEF ReadCursor, tables
  <2>. QED BY <1>4, <1>5, <1>6, <2>1, <2>3, <2>4
<1>8. CASE Stat(i)
  <2>1. \/ \E c : proc'[i] = NextPath(c)
        \/ \E mtime, size, start : \E ino \in {None} \cup (IF call.cur = None THEN {} ELSE {call.cur.ino}) :
             proc'[i] = [call EXCEPT !.pc = "parse", !.cur = None, !.mtime = mtime, !.size = size,
                                     !.start = start, !.ino = ino]
    BY <1>1, <1>8 DEF Stat
  <2>2. ASSUME NEW mtime, NEW size, NEW start,
               NEW ino \in {None} \cup (IF call.cur = None THEN {} ELSE {call.cur.ino})
        PROVE  Owns([call EXCEPT !.pc = "parse", !.cur = None, !.mtime = mtime, !.size = size,
                                 !.start = start, !.ino = ino])
    BY <1>1, <1>8 DEF Owns, Call, Stat, At
  <2>3. UNCHANGED cursor
    BY <1>8 DEF Stat, tables
  <2>. QED BY <1>4, <1>5, <1>6, <2>1, <2>2, <2>3
<1>9. CASE Parse(i)
  <2>. DEFINE n == at[call.path]
  <2>1. \/ \E c : proc'[i] = NextPath(c)
        \/ /\ n # None
           /\ \E pc \in {"events", "tools", "cursor"}, ino \in {n, None} : \E end, rows, tools :
                proc'[i] = [call EXCEPT !.pc = pc, !.end = end, !.ino = ino, !.rows = rows, !.tools = tools]
    BY <1>1, <1>9 DEF Parse, AfterRows
  <2>2. call.path \in Paths
    BY <1>1, <1>9 DEF Parse, At, HasPath
  <2>3. UNCHANGED cursor
    BY <1>9 DEF Parse, tables
  <2>4. Owns(proc'[i])
    <3>1. CASE \E c : proc'[i] = NextPath(c)
      BY <1>6, <3>1
    <3>2. CASE n # None /\ ~ \E c : proc'[i] = NextPath(c)
      <4>1. PICK pc \in {"events", "tools", "cursor"}, ino \in {n, None} : \E end, rows, tools :
              proc'[i] = [call EXCEPT !.pc = pc, !.end = end, !.ino = ino, !.rows = rows, !.tools = tools]
        BY <2>1, <3>2
      <4>2. PICK end, rows, tools :
              proc'[i] = [call EXCEPT !.pc = pc, !.end = end, !.ino = ino, !.rows = rows, !.tools = tools]
        BY <4>1
      <4>. QED BY <1>1, <2>2, <3>2, <4>2 DEF Owns, Call, OwnSession, PathsOwn
    <3>. QED BY <2>1, <3>1, <3>2
  <2>. QED BY <1>4, <1>5, <2>3, <2>4
<1>10. CASE UpsertEvents(i)
  <2>1. PICK rows, tools : proc' = [proc EXCEPT ![i].rows = rows, ![i].pc = AfterRows(rows, tools)]
    BY <1>10 DEF UpsertEvents
  <2>2. AfterRows(rows, tools) \in {"events", "tools", "cursor"}
    BY DEF AfterRows
  <2>3. Owns(proc'[i])
    BY <1>1, <1>10, <2>1, <2>2 DEF Owns, Call, UpsertEvents, At
  <2>. QED BY <1>4, <1>5, <1>10, <2>3 DEF UpsertEvents
<1>11. CASE UpsertToolCalls(i)
  <2>1. PICK tools : proc' = [proc EXCEPT ![i].tools = tools, ![i].pc = AfterRows({}, tools)]
    BY <1>11 DEF UpsertToolCalls
  <2>2. AfterRows({}, tools) \in {"tools", "cursor"}
    BY DEF AfterRows
  <2>3. Owns(proc'[i])
    BY <1>1, <1>11, <2>1, <2>2 DEF Owns, Call, UpsertToolCalls, At
  <2>. QED BY <1>4, <1>5, <1>11, <2>3 DEF UpsertToolCalls
<1>12. CASE SetCursor(i)
  <2>1. CursorsOwn'
    <3>1. ASSUME NEW p \in Paths, cursor'[p] # None, cursor'[p].ino # None
          PROVE  inode[cursor'[p].ino].session = SessionOf[p]
      <4>1. CASE p = call.path
        <5>1. cursor'[p].ino = call.ino
          BY <1>12, <3>1, <4>1 DEF SetCursor, TypeInv, TypeOK
        <5>. QED BY <1>1, <1>12, <3>1, <4>1, <5>1 DEF SetCursor, At, Owns
      <4>2. CASE p # call.path
        BY <1>12, <3>1, <4>2 DEF SetCursor, TypeInv, TypeOK, OwnSession, CursorsOwn
      <4>. QED BY <4>1, <4>2
    <3>. QED BY <1>2, <3>1 DEF CursorsOwn
  <2>2. proc'[i] = NextPath(call)
    BY <1>1, <1>12 DEF SetCursor
  <2>. QED BY <1>4, <1>6, <2>1, <2>2
<1>. QED BY <1>7, <1>8, <1>9, <1>10, <1>11, <1>12 DEF IngestStep

(* What a prune leaves: the events of the sessions it does not prune, and  *)
(* of those it prunes without a cut no cursor and no call.                 *)
LEMMA PruneSkips ==
  ASSUME CollectInv, TypesInv', NEW c \in Collectors, Prune(c), NEW s \in Sessions, s \notin cut'
  PROVE  SessionSafe(s)'
<1>. DEFINE stale == pass[c].stale
<1>1. stale \subseteq Paths
  BY DEF CollectInv, TypesInv, CollectTypes, Pass
<1>2. /\ UNCHANGED <<inode, proc, toolCalls, toolResults>>
      /\ events' = events \ Pruned(stale)
      /\ cursor' = [p \in Paths |-> IF p \in stale THEN None ELSE cursor[p]]
      /\ cut' = cut \cup Cut(stale)
  BY DEF Prune, disk
<1>3. SessionSafe(s) /\ TypeInv /\ OwnSession
  BY <1>2 DEF CollectInv, TypesInv
<1>4. CASE \E p \in stale : SessionOf[p] = s
  <2>1. PICK p \in stale : SessionOf[p] = s
    BY <1>4
  <2>2. s \notin Cut(stale)
    BY <1>2
  <2>3. \A q \in Paths \ stale : SessionOf[q] = s => cursor[q] = None
    BY <2>1, <2>2 DEF Cut
  <2>4. \A i \in Ingesters : proc[i].path # None => SessionOf[proc[i].path] # s
    BY <2>1, <2>2 DEF Cut
  <2>5. \A q \in Paths : SessionOf[q] = s => cursor'[q] = None
    BY <1>2, <2>3
  <2>. QED BY <1>2, <2>4, <2>5, NoneAssumption DEF SessionSafe, Reads, Vouched
<1>5. CASE ~ \E p \in stale : SessionOf[p] = s
  <2>1. ASSUME NEW l, EventStored(s, l) PROVE EventStored(s, l)'
    BY <1>2, <1>5, <2>1 DEF EventStored, Pruned
  <2>2. ASSUME NEW n \in Inodes, inode[n].session = s, NEW end \in Nat, Stored(n, end)
        PROVE  Stored(n, end)'
    BY <1>2, <2>1, <2>2 DEF Stored, LineStored, CallStored, ResultStored
  <2>3. ASSUME NEW p \in Paths, SessionOf[p] = s PROVE Vouched(p)'
    <3>1. cursor'[p] = cursor[p]
      BY <1>2, <1>5, <2>3
    <3>2. ASSUME cursor[p] # None, cursor[p].ino # None
          PROVE  Stored(cursor[p].ino, cursor[p].off)'
      <4>1. cursor[p].ino \in Inodes /\ cursor[p].off \in Nat
        BY <1>3, <3>2 DEF TypeInv, TypeOK, CursorRow
      <4>2. inode[cursor[p].ino].session = s
        BY <1>3, <2>3, <3>2 DEF OwnSession, CursorsOwn
      <4>3. Stored(cursor[p].ino, cursor[p].off)
        BY <1>3, <2>3, <3>2 DEF SessionSafe, Vouched
      <4>4. PICK n \in Inodes, end \in Nat : n = cursor[p].ino /\ end = cursor[p].off
        BY <4>1
      <4>5. Stored(n, end)'
        BY <2>2, <4>2, <4>3, <4>4
      <4>. QED BY <3>1, <4>4, <4>5
    <3>. QED BY <3>1, <3>2 DEF Vouched
  <2>4. ASSUME NEW i \in Ingesters, Reads(i, s)' PROVE InFlight(i)'
    <3>. DEFINE call == proc[i]
    <3>1. /\ Reads(i, s) /\ InFlight(i) /\ proc'[i] = call
          /\ call \in Call /\ Owns(call) /\ SessionOf[call.path] = s
      BY <1>2, <1>3, <2>4 DEF Reads, SessionSafe, TypeInv, TypeOK, OwnSession, CallsOwn
    <3>2. (call.pc = "stat" /\ call.cur # None /\ call.cur.ino # None)
            => Stored(call.cur.ino, call.cur.off)'
      BY <2>2, <3>1 DEF InFlight, Owns, Call, CursorRow
    <3>3. (call.pc = "parse" /\ call.ino # None) => Stored(call.ino, call.start)'
      BY <2>2, <3>1 DEF InFlight, Owns, Call
    <3>4. ASSUME call.pc \in {"events", "tools", "cursor"}, call.ino # None
          PROVE  /\ call.end <= Len(inode'[call.ino].lines)
                 /\ \A k \in 1..call.end : LineSafe(i, call.ino, k)'
      <4>1. /\ call.end <= Len(inode[call.ino].lines)
            /\ \A k \in 1..call.end : LineSafe(i, call.ino, k)
            /\ inode[call.ino].session = s
        BY <3>1, <3>4 DEF InFlight, Owns
      <4>2. ASSUME NEW n, NEW k, inode[n].session = s, LineSafe(i, n, k)
            PROVE  LineSafe(i, n, k)'
        BY <1>2, <2>1, <4>2 DEF LineSafe, CallStored, ResultStored
      <4>. QED BY <1>2, <4>1, <4>2
    <3>. QED BY <3>1, <3>2, <3>3, <3>4 DEF InFlight
  <2>. QED BY <2>3, <2>4 DEF SessionSafe
<1>. QED BY <1>4, <1>5

LEMMA CollectInvInit == CollectInit => CollectInv
<1>. SUFFICES ASSUME CollectInit PROVE CollectInv
  OBVIOUS
<1>1. Init /\ TypesInv
  BY CollectTypesInit DEF CollectInit
<1>2. OwnSession
  BY <1>1 DEF Init, Idle, OwnSession, PathsOwn, CursorsOwn, CallsOwn, Owns
<1>3. \A s \in Sessions : SessionSafe(s)
  BY <1>1, SkipInit DEF SkipInv
<1>. QED BY <1>1, <1>2, <1>3 DEF CollectInv

(* Every step but a prune is one of Ingest, or leaves its variables alone. *)
LEMMA CollectInvStep == CollectInv /\ [CollectNext]_allVars => CollectInv'
<1>. SUFFICES ASSUME CollectInv, [CollectNext]_allVars PROVE CollectInv'
  OBVIOUS
<1>1. TypesInv /\ TypesInv' /\ TypeInv /\ TypeInv' /\ OwnSession
  BY CollectTypesStep DEF CollectInv, TypesInv
<1>2. ASSUME OwnSession', UNCHANGED cut, \A s \in Sessions : SessionSafe(s) => SessionSafe(s)'
      PROVE  CollectInv'
  BY <1>1, <1>2 DEF CollectInv
<1>3. ASSUME UNCHANGED <<at, inode, tables, cut>>,
             \A i \in Ingesters : proc'[i] = proc[i] \/ proc'[i].pc \in {"idle", "next"}
      PROVE  CollectInv'
  <2>1. OwnSession'
    BY <1>1, <1>3, NothingMoves DEF tables
  <2>2. \A s \in Sessions : SessionSafe(s) => SessionSafe(s)'
    BY <1>1, <1>3, RestingSkips
  <2>. QED BY <1>2, <1>3, <2>1, <2>2
<1>4. \A call : NextPath(call).pc \in {"idle", "next"} /\ Idle.pc = "idle"
  BY DEF NextPath, Idle
<1>5. ASSUME NEW i \in Ingesters, NEW files, NEW trusted, NEW force, Begin(i, files, trusted, force),
             UNCHANGED <<disk, tables, cut>>
      PROVE  CollectInv'
  <2>1. \A j \in Ingesters : proc'[j] = proc[j] \/ proc'[j].pc \in {"idle", "next"}
    BY <1>1, <1>5 DEF Begin, Idle, TypeInv, TypeOK
  <2>. QED BY <1>3, <1>5, <2>1 DEF disk
<1>6. CASE UNCHANGED <<vars, cut>>
  BY <1>3, <1>6 DEF vars, tables
<1>7. ASSUME NEW c \in Collectors, NEW files, NEW trusted, Start(c, files, trusted)
      PROVE  CollectInv'
  <2>1. CASE files = {}
    BY <1>6, <1>7, <2>1 DEF Start, vars, disk, tables
  <2>2. CASE files # {}
    BY <1>5, <1>7, <2>2 DEF Start, Ingesters
  <2>. QED BY <2>1, <2>2
<1>8. CASE Transcripts /\ UNCHANGED collectVars
  BY <1>1, <1>2, <1>8, TranscriptsOwn, TranscriptsSkip DEF collectVars
<1>9. ASSUME NEW w \in Watchers, NEW p \in Paths, Watch(w, p) PROVE CollectInv'
  BY <1>5, <1>9 DEF Watch, IngestFile, collectVars, Ingesters
<1>10. ASSUME NEW c \in Collectors, NEW reached \in SUBSET Slow,
              Startup(c, reached) \/ Refresh(c, reached)
       PROVE  CollectInv'
  BY <1>6, <1>7, <1>10 DEF Startup, Refresh, FullPass
<1>11. ASSUME NEW c \in Collectors, FastPass(c) \/ ExtendLiveWatch(c) PROVE CollectInv'
  BY <1>6, <1>7, <1>11 DEF FastPass, ExtendLiveWatch
<1>12. ASSUME NEW i \in Ingesters, PassStep(i) PROVE CollectInv'
  BY <1>1, <1>2, <1>12, IngestStepOwn, IngestStepSkips DEF PassStep
<1>13. ASSUME NEW c \in Collectors, Prune(c) PROVE CollectInv'
  <2>1. \A s \in Sessions \ cut' : SessionSafe(s)'
    BY <1>1, <1>13, PruneSkips
  <2>2. UNCHANGED <<at, inode, proc>> /\ \A p \in Paths : cursor'[p] \in {cursor[p], None}
    BY <1>13 DEF Prune, disk
  <2>3. OwnSession'
    BY <1>1, <2>2, NothingMoves
  <2>. QED BY <1>1, <2>1, <2>3 DEF CollectInv
<1>14. ASSUME NEW c \in Collectors, SetMeta(c) \/ ListStale(c) \/ Publish(c) PROVE CollectInv'
  BY <1>6, <1>14 DEF SetMeta, ListStale, Publish
<1>15. ASSUME Crash \/ \E i \in Ingesters : StoreError(i) \/ ReadError(i), UNCHANGED cut
       PROVE  CollectInv'
  <2>1. \A j \in Ingesters : proc'[j] = proc[j] \/ proc'[j].pc \in {"idle", "next"}
    BY <1>1, <1>4, <1>15 DEF Crash, StoreError, ReadError, TypeInv, TypeOK
  <2>2. UNCHANGED <<at, inode, tables, cut>>
    BY <1>15 DEF Crash, StoreError, ReadError, disk
  <2>. QED BY <1>3, <2>1, <2>2
<1>16. CASE Restart
  BY <1>15, <1>16 DEF Restart
<1>17. ASSUME NEW i \in Ingesters, StoreFails(i) \/ ReadFails(i) PROVE CollectInv'
  <2>1. CASE (StoreError(i) \/ ReadError(i)) /\ UNCHANGED cut
    BY <1>15, <2>1
  <2>2. CASE UNCHANGED <<disk, tables, proc, cut>>
    BY <1>3, <2>2 DEF disk
  <2>. QED BY <1>17, <2>1, <2>2 DEF StoreFails, ReadFails
<1>18. CASE UNCHANGED allVars
  BY <1>6, <1>18 DEF allVars, collectVars
<1>. QED BY <1>8, <1>9, <1>10, <1>11, <1>12, <1>13, <1>14, <1>16, <1>17, <1>18
         DEF CollectNext, AfterIngest

(* A collection loses lines for good in one way only, by pruning a session *)
(* an ingest is reading or another kept path has a cursor for.  Of every   *)
(* other session, whatever both tiers, the watchers, errors and restarts do*)
(* between each other's steps, the cursor vouches for what is before it.   *)
THEOREM OnlyCutsLose == CollectSpec => []OnlyCutLoses
<1>1. CollectInv => OnlyCutLoses
  BY PathsAssumption DEF CollectInv, SessionSafe, OnlyCutLoses
<1>. QED BY <1>1, CollectInvInit, CollectInvStep, PTL DEF CollectSpec
=============================================================================
