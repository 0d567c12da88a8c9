-------------------------------- MODULE Stage -------------------------------
(***************************************************************************)
(* internal/stage: the Station room a session is in, inferred from its     *)
(* newest turn, its newest tool call and the silence since.  An instant 0  *)
(* means "never seen"; a tool is named by the room it leads to.            *)
(***************************************************************************)
EXTENDS Events

IdleCutoff == 10 * Minute
ArrivalWindow == 15 * Second
CompactWindow == 60 * Second
ThinkAfter == 8 * Second
StuckToolAfter == 3 * Minute

\* ToolStage, on the families of tool names: everything unknown is "coding".
ToolStage(tool) ==
    CASE tool \in {"read", "grep"} -> "reading"
      [] tool \in {"webfetch", "mcp"} -> "fetching"
      [] tool \in {"todowrite", "update_plan"} -> "planning"
      [] tool \in {"bash", "exec"} -> "running"
      [] tool \in {"task", "spawn_agent"} -> "delegating"
      [] tool = "askuserquestion" -> "waiting"
      [] OTHER -> "coding"

Room(s, since) == [stage |-> s, since |-> since]

\* The newest turn called in.tool, and this is what that says after idle.
ToolRoom(in, idle, last) ==
    LET s == ToolStage(in.tool)
    IN CASE s = "waiting" -> Room("waiting", in.toolAt)
         [] s # "waiting" /\ in.toolDone ->
              IF idle >= StuckToolAfter THEN Room("waiting", last + StuckToolAfter)
              ELSE IF idle >= ThinkAfter THEN Room("thinking", last + ThinkAfter)
              ELSE Room(s, in.toolAt)
         [] OTHER ->
              \* an open call this long is a permission prompt, but for a shell
              \* or a subagent, which may simply take its time
              IF idle >= StuckToolAfter /\ s \notin {"running", "delegating"}
              THEN Room("waiting", last + StuckToolAfter)
              ELSE Room(s, in.toolAt)

Classify(in) ==
    LET newest == IF in.toolAt > in.lastTurn THEN in.toolAt ELSE in.lastTurn
        last == IF newest = 0 THEN in.start ELSE newest
        idle == in.now - last
    IN IF in.start # 0 /\ in.now - in.start < ArrivalWindow THEN Room("arriving", in.start)
       ELSE IF in.compactedAt # 0 /\ in.now - in.compactedAt < CompactWindow
       THEN Room("compacting", in.compactedAt)
       ELSE IF idle >= IdleCutoff THEN Room("dormant", last + IdleCutoff)
       ELSE IF in.noToolTrail
       THEN IF idle >= StuckToolAfter THEN Room("waiting", last + StuckToolAfter)
            ELSE Room("thinking", last)
       ELSE IF in.tool # None /\ in.inLatestTurn THEN ToolRoom(in, idle, last)
       ELSE Room("waiting", last)

=============================================================================
