------------------------------- MODULE Ingest -------------------------------
(***************************************************************************)
(* Transcripts, the store, and Cache.ingest (internal/dataset/dataset.go)  *)
(* run by several goroutines at once: the live watcher, the tail poller    *)
(* and the WSL poller each call IngestFile on one path, a collection calls *)
(* ingest on every path it listed, and a second program (burnmon-dev, the  *)
(* CLI) may be doing the same over the same store file.  Every store call  *)
(* is one transaction and one step; between two of them anybody may run,   *)
(* a transcript may grow or go away, a call may fail, or the whole program *)
(* may die and come back with nothing but the store.                       *)
(*                                                                         *)
(* Abstractions.  A transcript is the sequence of its complete lines plus  *)
(* what there is of a torn last one; a complete line weighs two units of   *)
(* size and a torn tail one, so a line offset o is a byte offset 2*o.  A   *)
(* line carries what the adapter takes from it: one request's running      *)
(* output count, the tool calls it makes and the tool results it brings.   *)
(* Event columns other than the key and the output are left out.           *)
(*                                                                         *)
(* Operators marked MUTANT are wrong on purpose and used nowhere: each is  *)
(* a plausible bug of the definition after it, which a property of the     *)
(* runs is known to catch (PROJECT.json, mutants).                         *)
(***************************************************************************)
EXTENDS Integers, Sequences, FiniteSets

CONSTANTS
  Paths,        (* transcript paths the adapters own                        *)
  Sessions,     (* session ids                                              *)
  SessionOf,    (* path -> session: the file's base name, extension cut     *)
  Slow,         (* the paths under WSL, the slow tier                       *)
  Torn,         (* bound: paths whose last line may be caught half-written  *)
  Inodes,       (* identities of file contents; bounds creations, rewrites  *)
  Lines,        (* the lines an agent may write                             *)
  Reqs, Calls,  (* request ids and tool-call ids, unique within a session   *)
  MaxOut,       (* largest output-token count                               *)
  Watchers,     (* goroutines that call IngestFile                          *)
  Collectors,   (* goroutines that run a whole collection                   *)
  Batch,        (* upsertBatch: rows per transaction (1000 in the code)     *)
  MaxLines,     (* bound: complete lines per content                        *)
  MaxMoves,     (* bound: moves, rewrites and re-creations                  *)
  MaxFaults,    (* bound: failed calls and crashes                          *)
  None          (* no content, no cursor, no path                           *)

Ingesters == Watchers \cup Collectors

(* A transcript is one session's.  A cloud-drop file (adapter/claude/      *)
(* cloud.go), whose rows name their sessions and which is read whole every *)
(* time, is left out.                                                      *)
ASSUME PathsAssumption == SessionOf \in [Paths -> Sessions] /\ Slow \cup Torn \subseteq Paths
ASSUME LinesAssumption ==
  /\ MaxOut \in Nat
  /\ Lines \subseteq [req: Reqs, out: 0..MaxOut, calls: SUBSET Calls, results: SUBSET Calls]
ASSUME BoundsAssumption == Batch \in Nat \ {0} /\ {MaxLines, MaxMoves, MaxFaults} \subseteq Nat
ASSUME NoneAssumption == None \notin Inodes /\ None \notin Sessions /\ None \notin Paths

VARIABLES
  at,           (* path -> the content it names now, or None                *)
  inode,        (* content -> its session, lines, torn tail and mtime       *)
  moves,        (* moves, rewrites and re-creations so far                  *)
  events,       (* table events: rows keyed by session and request          *)
  toolCalls,    (* table tool_calls: the keys that have a row               *)
  toolResults,  (* ... and those whose result_bytes is not NULL             *)
  cursor,       (* table cursors: path -> row or None                       *)
  proc,         (* the running ingest call of each goroutine                *)
  tailed,       (* paths reported through onAdvance to the tail             *)
  faults        (* failures so far                                          *)

disk   == <<at, inode, moves>>
tables == <<events, toolCalls, toolResults, cursor>>
vars   == <<at, inode, moves, events, toolCalls, toolResults, cursor, proc, tailed, faults>>

(***************************************************************************)
(* Types.                                                                  *)
(***************************************************************************)
EventRow == [session: Sessions, req: Reqs, out: 0..MaxOut]
ToolKey  == [session: Sessions, call: Calls]
ToolRow  == [session: Sessions, call: Calls, full: BOOLEAN, result: BOOLEAN]

(* A cursors row.  ino is a ghost no guard reads: the content the offset   *)
(* counts lines of, or None when it mixes two contents of the same path.   *)
CursorRow == [off: Nat, mtime: Nat, size: Nat, ino: Inodes \cup {None}]

Content == [session: Sessions \cup {None}, lines: Seq(Lines), tail: {0, 1}, mtime: Nat]
Blank   == [session |-> None, lines |-> <<>>, tail |-> 0, mtime |-> 0]

(* Locals of one ingest call.  files are the paths still to do, of which   *)
(* path is the one in hand; cur is its cursor row until os.Stat is done,   *)
(* mtime and size what os.Stat said, start the offset Parse was given, end *)
(* the offset it returned, rows and tools the rows not yet committed, ino  *)
(* the ghost of the cursor to be.                                          *)
Idle == [pc |-> "idle", files |-> {}, trusted |-> {}, force |-> FALSE, path |-> None,
         cur |-> None, mtime |-> 0, size |-> 0, start |-> 0, end |-> 0,
         ino |-> None, rows |-> {}, tools |-> {}]

Call == [pc: {"idle", "next", "stat", "parse", "events", "tools", "cursor"},
         files: SUBSET Paths, trusted: SUBSET Paths, force: BOOLEAN,
         path: Paths \cup {None}, cur: CursorRow \cup {None},
         mtime: Nat, size: Nat, start: Nat, end: Nat, ino: Inodes \cup {None},
         rows: SUBSET EventRow, tools: SUBSET ToolRow]

TypeOK ==
  /\ at \in [Paths -> Inodes \cup {None}]
  /\ inode \in [Inodes -> Content]
  /\ moves \in Nat
  /\ events \subseteq EventRow
  /\ toolCalls \subseteq ToolKey
  /\ toolResults \subseteq ToolKey
  /\ cursor \in [Paths -> CursorRow \cup {None}]
  /\ proc \in [Ingesters -> Call]
  /\ tailed \subseteq Paths
  /\ faults \in Nat

Init ==
  /\ at = [p \in Paths |-> None]
  /\ inode = [n \in Inodes |-> Blank]
  /\ moves = 0
  /\ events = {}
  /\ toolCalls = {}
  /\ toolResults = {}
  /\ cursor = [p \in Paths |-> None]
  /\ proc = [i \in Ingesters |-> Idle]
  /\ tailed = {}
  /\ faults = 0

-----------------------------------------------------------------------------
(***************************************************************************)
(* The agents' side: what happens to the transcripts.                      *)
(***************************************************************************)
Size(n) == 2 * Len(inode[n].lines) + inode[n].tail

CallsMade(ls) == UNION {ls[k].calls : k \in 1..Len(ls)}

(* A new session starts: its first, still empty transcript appears.        *)
Create(p) ==
  /\ at[p] = None
  /\ \A n \in Inodes : inode[n].session # SessionOf[p]
  /\ \E n \in Inodes :
       /\ inode[n].session = None
       /\ at' = [at EXCEPT ![p] = n]
       /\ inode' = [inode EXCEPT ![n].session = SessionOf[p]]
  /\ UNCHANGED <<moves, tables, proc, tailed, faults>>

(* The agent appends a complete line, or completes the torn one.  A tool   *)
(* call is made once, and its result comes on a later line.  Every change  *)
(* moves the mtime; advancing it by the size added keeps the states few.   *)
Write(p, l) ==
  /\ at[p] # None
  /\ LET c == inode[at[p]] IN
       /\ Len(c.lines) < MaxLines
       /\ l.calls \cap CallsMade(c.lines) = {}
       /\ l.results \subseteq CallsMade(c.lines)
       /\ inode' = [inode EXCEPT ![at[p]] =
                      [c EXCEPT !.lines = Append(c.lines, l), !.tail = 0,
                                !.mtime = c.mtime + 2 - c.tail]]
  /\ UNCHANGED <<at, moves, tables, proc, tailed, faults>>

(* Half a line reaches the disk.                                           *)
Tear(p) ==
  /\ p \in Torn
  /\ at[p] # None
  /\ LET c == inode[at[p]] IN
       /\ c.tail = 0
       /\ Len(c.lines) < MaxLines
       /\ inode' = [inode EXCEPT ![at[p]] = [c EXCEPT !.tail = 1, !.mtime = c.mtime + 1]]
  /\ UNCHANGED <<at, moves, tables, proc, tailed, faults>>

(* The file is replaced by a shorter version of itself: the first k lines  *)
(* are dropped.                                                            *)
Rewrite(p) ==
  /\ at[p] # None
  /\ moves < MaxMoves
  /\ moves' = moves + 1
  /\ LET c == inode[at[p]] IN
       \E n \in Inodes, k \in 1..Len(c.lines) :
         /\ inode[n].session = None
         /\ at' = [at EXCEPT ![p] = n]
         /\ inode' = [inode EXCEPT ![n] =
                        [session |-> c.session, lines |-> SubSeq(c.lines, k + 1, Len(c.lines)),
                         tail |-> 0, mtime |-> c.mtime + 1]]
  /\ UNCHANGED <<tables, proc, tailed, faults>>

(* The transcript is deleted, or moved to another folder with its name and *)
(* mtime kept.                                                             *)
Delete(p) ==
  /\ at[p] # None
  /\ at' = [at EXCEPT ![p] = None]
  /\ UNCHANGED <<inode, moves, tables, proc, tailed, faults>>

Move(p, q) ==
  /\ at[p] # None
  /\ at[q] = None
  /\ SessionOf[p] = SessionOf[q]
  /\ moves < MaxMoves
  /\ moves' = moves + 1
  /\ at' = [at EXCEPT ![p] = None, ![q] = at[p]]
  /\ UNCHANGED <<inode, tables, proc, tailed, faults>>

(* The transcript of a deleted session is created again, empty and newer   *)
(* than any before it: the agent resumes the session.                      *)
Recreate(p) ==
  /\ \A q \in Paths : SessionOf[q] = SessionOf[p] => at[q] = None
  /\ moves < MaxMoves
  /\ moves' = moves + 1
  /\ \E n, o \in Inodes :
       /\ inode[n].session = None
       /\ inode[o].session = SessionOf[p]
       /\ \A k \in Inodes : inode[k].session = SessionOf[p] => inode[k].mtime <= inode[o].mtime
       /\ at' = [at EXCEPT ![p] = n]
       /\ inode' = [inode EXCEPT ![n] =
                      [session |-> SessionOf[p], lines |-> <<>>, tail |-> 0,
                       mtime |-> inode[o].mtime + 1]]
  /\ UNCHANGED <<tables, proc, tailed, faults>>

-----------------------------------------------------------------------------
(***************************************************************************)
(* What Parse takes from lines from+1 .. to of content n.                  *)
(***************************************************************************)
EventsIn(n, from, to) ==
  {[session |-> inode[n].session, req |-> inode[n].lines[k].req, out |-> inode[n].lines[k].out] :
      k \in (from + 1)..to}

(* A call read in this pass is a full row, with its result when the result *)
(* was read in the same pass; a result whose call was read in an earlier   *)
(* pass is a result-only row.                                              *)
CallsIn(n, from, to)   == UNION {inode[n].lines[k].calls : k \in (from + 1)..to}
ResultsIn(n, from, to) == UNION {inode[n].lines[k].results : k \in (from + 1)..to}

(* MUTANT: a call and its result read in one pass are not paired.          *)
ToolsInUnpaired(n, from, to) ==
  {[session |-> inode[n].session, call |-> c,
    full |-> c \in CallsIn(n, from, to),
    result |-> c \in ResultsIn(n, from, to) \ CallsIn(n, from, to)] :
      c \in CallsIn(n, from, to) \cup ResultsIn(n, from, to)}

(* MUTANT: a result whose call was read in an earlier pass is dropped.      *)
ToolsInDropLate(n, from, to) ==
  {[session |-> inode[n].session, call |-> c,
    full |-> TRUE, result |-> c \in ResultsIn(n, from, to)] : c \in CallsIn(n, from, to)}

ToolsIn(n, from, to) ==
  {[session |-> inode[n].session, call |-> c,
    full |-> c \in CallsIn(n, from, to), result |-> c \in ResultsIn(n, from, to)] :
      c \in CallsIn(n, from, to) \cup ResultsIn(n, from, to)}

(* MUTANT: the row with the smallest output wins.                          *)
SmallestOutputWins(rows) ==
  {r \in rows : \A q \in rows : (q.session = r.session /\ q.req = r.req) => r.out <= q.out}

(* Per session and request the row with the largest output wins: within    *)
(* one Parse, and in UpsertEvents against the row already stored.          *)
LargestOutputWins(rows) ==
  {r \in rows : \A q \in rows : (q.session = r.session /\ q.req = r.req) => q.out <= r.out}

(* MUTANT: a row replaces the stored one, whatever its output.             *)
UpsertedLastWins(stored, b) ==
  b \cup {r \in stored : ~ \E q \in b : q.session = r.session /\ q.req = r.req}

Upserted(stored, b) == LargestOutputWins(stored \cup b)

KeyOf(t) == [session |-> t.session, call |-> t.call]

(* Up to Batch rows go into one transaction.                               *)
IsBatch(b, rows) ==
  /\ b # {}
  /\ b \subseteq rows
  /\ \/ Cardinality(b) = Batch
     \/ b = rows /\ Cardinality(b) < Batch

-----------------------------------------------------------------------------
(***************************************************************************)
(* Cache.ingest, one step per read or write of shared state.               *)
(***************************************************************************)
At(i, pc) == proc[i].pc = pc

Begin(i, files, trusted, force) ==
  /\ At(i, "idle")
  /\ files # {}
  /\ proc' = [proc EXCEPT ![i] =
                [Idle EXCEPT !.pc = "next", !.files = files, !.trusted = trusted, !.force = force]]

(* The loop moves on; after the last path the call returns.                *)
NextPath(call) ==
  LET rest == call.files \ {call.path} IN
    IF rest = {} THEN Idle
    ELSE [Idle EXCEPT !.pc = "next", !.files = rest, !.trusted = call.trusted, !.force = call.force]

(* MUTANT: the tool calls are forgotten when there are no events.          *)
AfterRowsNoTools(rows, tools) == IF rows # {} THEN "events" ELSE "cursor"

(* Rows in hand go to the store before the cursor: events, then tools.     *)
AfterRows(rows, tools) ==
  IF rows # {} THEN "events" ELSE IF tools # {} THEN "tools" ELSE "cursor"

ReadCursor(i) ==
  /\ At(i, "next")
  /\ \E p \in proc[i].files :
       LET cur == IF proc[i].force THEN None ELSE cursor[p] IN
         proc' = [proc EXCEPT ![i] =
                    IF cur # None /\ p \in proc[i].trusted
                    THEN NextPath([proc[i] EXCEPT !.path = p])
                    ELSE [proc[i] EXCEPT !.pc = "stat", !.path = p, !.cur = cur]]
  /\ UNCHANGED <<disk, tables, tailed, faults>>

(* os.Stat: gone, nothing new, or something to read and from where.        *)
FullyRead(cur, n) ==
  cur # None /\ cur.mtime = inode[n].mtime /\ cur.size = Size(n) /\ 2 * cur.off = Size(n)

Rewritten(cur, n) ==
  (cur.mtime # inode[n].mtime /\ Size(n) < cur.size) \/ 2 * cur.off > Size(n)

(* MUTANT: one back from the cursor, also from a cursor at 0.              *)
StartOffsetOneBack(cur, n) ==
  IF cur = None THEN 0 ELSE IF Rewritten(cur, n) THEN 0 ELSE cur.off - 1

StartOffset(cur, n) == IF cur = None THEN 0 ELSE IF Rewritten(cur, n) THEN 0 ELSE cur.off

Stat(i) ==
  /\ At(i, "stat")
  /\ LET call == proc[i]
         n == at[call.path]
     IN proc' = [proc EXCEPT ![i] =
                   IF n = None \/ (n # None /\ FullyRead(call.cur, n)) THEN NextPath(call)
                   ELSE [call EXCEPT !.pc = "parse", !.cur = None,
                                     !.mtime = inode[n].mtime, !.size = Size(n),
                                     !.start = StartOffset(call.cur, n),
                                     !.ino = IF call.cur = None THEN None ELSE call.cur.ino]]
  /\ UNCHANGED <<disk, tables, tailed, faults>>

(* Adapter.Parse reads from start to the last newline there is by now,     *)
(* which may lie beyond the size Stat saw.                                 *)
ParseEnd(n, start) ==
  IF start <= Len(inode[n].lines) THEN Len(inode[n].lines) ELSE start

Parse(i) ==
  /\ At(i, "parse")
  /\ LET call == proc[i]
         n == at[call.path]
         end == ParseEnd(n, call.start)
         rows == LargestOutputWins(EventsIn(n, call.start, end))
         tools == ToolsIn(n, call.start, end)
     IN proc' = [proc EXCEPT ![i] =
                   IF n = None THEN NextPath(call)
                   ELSE [call EXCEPT !.pc = AfterRows(rows, tools), !.end = end,
                                     !.ino = IF call.start = 0 \/ call.ino = n THEN n ELSE None,
                                     !.rows = rows, !.tools = tools]]
  /\ UNCHANGED <<disk, tables, tailed, faults>>

UpsertEvents(i) ==
  /\ At(i, "events")
  /\ \E b \in SUBSET proc[i].rows :
       /\ IsBatch(b, proc[i].rows)
       /\ events' = Upserted(events, b)
       /\ LET rest == proc[i].rows \ b IN
            proc' = [proc EXCEPT ![i].rows = rest, ![i].pc = AfterRows(rest, proc[i].tools)]
  /\ UNCHANGED <<disk, toolCalls, toolResults, cursor, tailed, faults>>

(* A full row inserts or updates, and never wipes a result already there;  *)
(* a result-only row fills a stored call and inserts nothing.              *)
UpsertToolCalls(i) ==
  /\ At(i, "tools")
  /\ \E b \in SUBSET proc[i].tools :
       /\ IsBatch(b, proc[i].tools)
       /\ toolCalls' = toolCalls \cup {KeyOf(t) : t \in {u \in b : u.full}}
       /\ toolResults' = toolResults
            \cup {KeyOf(t) : t \in {u \in b : u.result /\ (u.full \/ KeyOf(u) \in toolCalls)}}
       /\ LET rest == proc[i].tools \ b IN
            proc' = [proc EXCEPT ![i].tools = rest, ![i].pc = AfterRows({}, rest)]
  /\ UNCHANGED <<disk, events, cursor, tailed, faults>>

(* The cursor gets the offset Parse returned but the stat taken before it. *)
SetCursor(i) ==
  /\ At(i, "cursor")
  /\ LET call == proc[i] IN
       /\ cursor' = [cursor EXCEPT ![call.path] =
            [off |-> call.end, mtime |-> call.mtime, size |-> call.size, ino |-> call.ino]]
       /\ tailed' = IF call.start > 0 /\ call.end > call.start
                    THEN tailed \cup {call.path} ELSE tailed
       /\ proc' = [proc EXCEPT ![i] = NextPath(call)]
  /\ UNCHANGED <<disk, events, toolCalls, toolResults, faults>>

IngestStep(i) ==
  \/ ReadCursor(i) \/ Stat(i) \/ Parse(i)
  \/ UpsertEvents(i) \/ UpsertToolCalls(i) \/ SetCursor(i)

(* A store call returns an error: ingest returns it and leaves the rest of *)
(* its paths.                                                              *)
StoreError(i) ==
  /\ proc[i].pc \in {"next", "events", "tools", "cursor"}
  /\ faults < MaxFaults
  /\ faults' = faults + 1
  /\ proc' = [proc EXCEPT ![i] = Idle]
  /\ UNCHANGED <<disk, tables, tailed>>

(* Parse fails to read one file: that file is passed over.                 *)
ReadError(i) ==
  /\ At(i, "parse")
  /\ faults < MaxFaults
  /\ faults' = faults + 1
  /\ proc' = [proc EXCEPT ![i] = NextPath(proc[i])]
  /\ UNCHANGED <<disk, tables, tailed>>

(* The program ends, at whatever step its goroutines are, and is started   *)
(* again: the store is all that is left.                                   *)
Crash ==
  /\ faults < MaxFaults
  /\ faults' = faults + 1
  /\ proc' = [i \in Ingesters |-> Idle]
  /\ tailed' = {}
  /\ UNCHANGED <<disk, tables>>

-----------------------------------------------------------------------------
(***************************************************************************)
(* Callers.                                                                *)
(***************************************************************************)
(* scan.FindJSONL: the transcripts there are.  A session is in one place   *)
(* at a time here, so its choice among mirrored copies does not arise.     *)
FindJSONL(scope) == {p \in scope : at[p] # None}

IngestFile(w, p) ==
  /\ Begin(w, {p}, {}, FALSE)
  /\ UNCHANGED <<disk, tables, tailed, faults>>

(* The ingest call of a collection: over everything; on the fast tier,     *)
(* taking on trust the slow paths that already have a cursor; or re-reading*)
(* all from byte 0, the one-time tool-call backfill.                       *)
IngestListed(c, trusted, force) ==
  /\ Begin(c, FindJSONL(Paths), trusted, force)
  /\ UNCHANGED <<disk, tables, tailed, faults>>

Transcripts ==
  \/ \E p \in Paths : Create(p) \/ Recreate(p) \/ Tear(p) \/ Rewrite(p) \/ Delete(p)
  \/ \E p \in Paths, l \in Lines : Write(p, l)
  \/ \E p, q \in Paths : Move(p, q)

Faults == Crash \/ \E i \in Ingesters : StoreError(i) \/ ReadError(i)

Next ==
  \/ Transcripts
  \/ \E w \in Watchers, p \in Paths : IngestFile(w, p)
  \/ \E c \in Collectors, trusted \in {{}, Slow}, force \in BOOLEAN :
       IngestListed(c, trusted, force)
  \/ \E i \in Ingesters : IngestStep(i)
  \/ Faults

Spec == Init /\ [][Next]_vars

-----------------------------------------------------------------------------
(***************************************************************************)
(* Properties.                                                             *)
(***************************************************************************)
EventStored(s, l) == \E r \in events : r.session = s /\ r.req = l.req /\ r.out >= l.out

CallStored(s, x)   == [session |-> s, call |-> x] \in toolCalls
ResultStored(s, x) == [session |-> s, call |-> x] \in toolResults

(* Line k of content n is in the store: its output count or a larger one,  *)
(* its tool calls, and its tool results as far as their calls were written *)
(* in this content.                                                        *)
LineStored(n, k) ==
  LET s == inode[n].session
      ls == inode[n].lines
  IN  /\ EventStored(s, ls[k])
      /\ \A x \in ls[k].calls : CallStored(s, x)
      /\ \A x \in ls[k].results : (\E j \in 1..k : x \in ls[j].calls) => ResultStored(s, x)

Stored(n, end) ==
  /\ end <= Len(inode[n].lines)
  /\ \A k \in 1..end : LineStored(n, k)

(* What the cursor of p vouches for.  A cursor that mixes two contents is  *)
(* excluded.                                                               *)
Vouched(p) ==
  (cursor[p] # None /\ cursor[p].ino # None) => Stored(cursor[p].ino, cursor[p].off)

(* No line is skipped: whatever interleaving of watchers, collections,     *)
(* writers, errors and crashes, and whoever set it last, a cursor never    *)
(* passes a line whose usage, tool calls and tool results are not all in   *)
(* the store (dataset.go commits rows, then the cursor, and Parse never    *)
(* moves past a torn line).                                                *)
CursorCovers == \A p \in Paths : Vouched(p)

(* The same in the middle of a call: what the call has passed and not yet  *)
(* committed is still in its hands, and it never reads on from an offset   *)
(* whose prefix the store lacks.                                           *)
LineSafe(i, n, k) ==
  LET s == inode[n].session
      ls == inode[n].lines
      key(x) == [session |-> s, call |-> x]
  IN  /\ \/ EventStored(s, ls[k])
         \/ \E r \in proc[i].rows : r.session = s /\ r.req = ls[k].req /\ r.out >= ls[k].out
      /\ \A x \in ls[k].calls :
           CallStored(s, x) \/ \E t \in proc[i].tools : t.full /\ KeyOf(t) = key(x)
      /\ \A x \in ls[k].results : (\E j \in 1..k : x \in ls[j].calls) =>
           \/ ResultStored(s, x)
           \/ \E t \in proc[i].tools :
                t.result /\ KeyOf(t) = key(x) /\ (t.full \/ CallStored(s, x))

InFlight(i) ==
  LET call == proc[i] IN
    /\ (call.pc = "stat" /\ call.cur # None /\ call.cur.ino # None)
         => Stored(call.cur.ino, call.cur.off)
    /\ (call.pc = "parse" /\ call.ino # None) => Stored(call.ino, call.start)
    /\ (call.pc \in {"events", "tools", "cursor"} /\ call.ino # None)
         => /\ call.end <= Len(inode[call.ino].lines)
            /\ \A k \in 1..call.end : LineSafe(i, call.ino, k)
    /\ call.pc \in {"tools", "cursor"} => call.rows = {}
    /\ call.pc = "cursor" => call.tools = {}

InFlightSafe == \A i \in Ingesters : InFlight(i)

(* The store is a grow-only replica of what the transcripts ever said      *)
(* (Replica.tla): a count once seen is never lowered, a tool result once   *)
(* recorded is never wiped, and nothing is stored that no line says.       *)
Written ==
  LET said(n, k) ==
        LET l == inode[n].lines[k]
            s == inode[n].session
        IN  {[session |-> s, req |-> l.req, out |-> o] : o \in 0..l.out}
            \cup {[session |-> s, call |-> x, result |-> FALSE] : x \in l.calls}
            \cup {[session |-> s, call |-> x, result |-> TRUE] : x \in l.results}
  IN  UNION {UNION {said(n, k) : k \in 1..Len(inode[n].lines)} : n \in Inodes}

Known ==
  (UNION {{[r EXCEPT !.out = o] : o \in 0..r.out} : r \in events})
  \cup {[session |-> t.session, call |-> t.call, result |-> FALSE] : t \in toolCalls}
  \cup {[session |-> t.session, call |-> t.call, result |-> TRUE] : t \in toolResults}

Grown == INSTANCE Replica WITH truth <- Written, copy <- Known

GrowOnly == Grown!Spec
=============================================================================
