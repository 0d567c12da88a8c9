----------------------------- MODULE DevHistory -----------------------------
(***************************************************************************)
(* cmd/burnmon-dev: the samplers, their in-memory history, and the page    *)
(* that keeps its own copy of it by asking, once per render tick, for what *)
(* it does not hold yet.  One unit of time is one sampling interval; the   *)
(* page's tick is not in step with it.                                     *)
(***************************************************************************)
EXTENDS Integers, Sequences, SequencesExt

CONSTANTS
    ChartTicks,   \* live.ChartWindow, what the system chart shows
    HistTicks,    \* sysHistWindow, what the buffers keep
    HiddenTicks,  \* hiddenSampleInterval
    MaxTime,      \* bound: the last instant
    MaxHides,     \* bound: times the window is minimized
    MaxBad        \* bound: samples, calls and answers that go wrong

ASSUME HistoryAssumption ==
    /\ {ChartTicks, HistTicks, HiddenTicks, MaxTime, MaxHides, MaxBad} \subseteq Nat
    /\ 0 < ChartTicks /\ ChartTicks < HistTicks /\ 0 < HiddenTicks

VARIABLES
    time,      \* now
    hidden,    \* document.hidden, and a.hidden which follows it
    hist,      \* sysHistBuf and groupsHistBuf: the times of their samples
    view,      \* the page: its two rings and the tick in flight
    asked,     \* its calls of bdevSnapshotNow without an answer yet
    ghost      \* every sample ever taken; windows hidden and troubles so far

historyVars == <<time, hidden, hist, view, asked, ghost>>

Buffers == {"system", "groups"}
Newest(samples) == IF samples = <<>> THEN 0 ELSE Last(samples)

\* Samples are in the order of their times: the buffers are cut at the first
\* that is not before t, and an answer goes back to the last that is not
\* after it.
Past(samples, t, n) ==
    (\A i \in 1..n : samples[i] < t) /\ (n < Len(samples) => t <= samples[n + 1])
From(samples, t) ==
    SubSeq(samples, 1 + CHOOSE n \in 0..Len(samples) : Past(samples, t, n), Len(samples))
After(samples, t) == From(samples, t + 1)

HistoryInit ==
    /\ time = 0 /\ hidden = FALSE
    /\ hist = [b \in Buffers |-> <<>>]
    /\ view = [ring |-> [b \in Buffers |-> <<>>], waited |-> 0, now |-> 0]
    /\ asked = {}
    /\ ghost = [taken |-> [b \in Buffers |-> <<>>], hides |-> 0, bad |-> 0]

Bad == ghost.bad < MaxBad /\ ghost' = [ghost EXCEPT !.bad = @ + 1]

\* One pass of startSampling's ticker.  The system sample may fail, or the
\* walk over the processes alone; both buffers are cut at the system sample's
\* own time.
Cut(bufs, took, t) ==
    [b \in Buffers |-> IF b \in took THEN From(Append(bufs[b], t), t - HistTicks)
                                     ELSE bufs[b]]
Sample ==
    /\ time < MaxTime /\ time' = time + 1
    /\ LET due == hidden => time' - Newest(hist["system"]) >= HiddenTicks
       IN \E took \in {Buffers, {"system"}, {}} :
            /\ took # {} => due
            /\ (took # Buffers /\ due) => ghost.bad < MaxBad
            /\ hist' = Cut(hist, took, time')
            /\ ghost' = [ghost EXCEPT
                 !.taken = [b \in Buffers |-> IF b \in took THEN Append(@[b], time') ELSE @[b]],
                 !.bad = IF took # Buffers /\ due THEN @ + 1 ELSE @]
    /\ UNCHANGED <<hidden, view, asked>>

-----------------------------------------------------------------------------
(* history_delta.go.                                                       *)

SysHistSince(buf, cursor, start) ==
    LET full == cursor <= 0 \/ buf = <<>> \/ cursor < start \/ cursor > Newest(buf)
    IN [delta |-> ~full, rows |-> IF full THEN From(buf, start) ELSE After(buf, cursor)]

GroupsHistSince(buf, cursor) ==
    LET full == cursor <= 0 \/ buf = <<>> \/ cursor < buf[1] \/ cursor > Newest(buf)
    IN [delta |-> ~full, rows |-> IF full THEN buf ELSE After(buf, cursor)]

\* bdevSnapshotNow takes its instant and reads the buffers at its start, the
\* slow store reads come after: a call sent more than two ticks earlier has
\* done so before this one.
Unanswered == [b \in Buffers |-> [delta |-> FALSE, rows |-> <<>>]]

\* What a call that will not be applied brings does not matter any more.
Stale(c) == [c EXCEPT !.stale = TRUE, !.rows = Unanswered, !.now = 0,
                      !.cursor = [b \in Buffers |-> 0]]

Turn(c) == c.latest => \A d \in asked : d.at = "sent" => d = c

Answer(c) ==
    /\ c.at = "sent" /\ Turn(c)
    /\ asked' = (asked \ {c}) \cup
          {[c EXCEPT !.at = "answered", !.now = time,
                     !.rows = [system |-> SysHistSince(hist["system"], c.cursor["system"],
                                                       time - ChartTicks),
                               groups |-> GroupsHistSince(hist["groups"], c.cursor["groups"])]]}
    /\ UNCHANGED <<time, hidden, hist, view, ghost>>

\* The answer never gets to the page: its dispatch is lost in a modal loop.
Lost(c) ==
    /\ Bad /\ c.at = "answered"
    /\ asked' = (asked \ {c}) \cup {[Stale(c) EXCEPT !.at = "lost"]}
    /\ UNCHANGED <<time, hidden, hist, view>>

-----------------------------------------------------------------------------
(* page.html.  seq, lastAppliedSeq and abandonedSeq are only compared with *)
(* each other: a call knows whether it is the latest, was given up on, and *)
(* whether a later one has been applied.                                   *)

InFlight == \E c \in asked : c.latest
GivenUp == \E c \in asked : c.abandoned

Send(calls) ==
    calls \cup {[at |-> "sent", latest |-> TRUE, abandoned |-> FALSE, stale |-> FALSE,
                 cursor |-> [b \in Buffers |-> Newest(view.ring[b])], now |-> 0,
                 rows |-> Unanswered]}

\* A call in flight for more than two ticks is given up, one at a time.
Tick ==
    /\ IF ~InFlight THEN asked' = Send(asked) /\ view' = [view EXCEPT !.waited = 0]
       ELSE IF view.waited < 2 THEN asked' = asked /\ view' = [view EXCEPT !.waited = @ + 1]
       ELSE /\ ~GivenUp
            /\ asked' = Send({[c EXCEPT !.abandoned = c.latest, !.latest = FALSE] : c \in asked})
            /\ view' = [view EXCEPT !.waited = 0]
    /\ UNCHANGED <<time, hidden, hist, ghost>>

PageTick == ~hidden /\ Tick

(* MUTANT: what a delta brings is taken as new. *)
MergeRingAppends(ring, answer) ==
    IF answer.delta THEN ring \o answer.rows ELSE answer.rows

MergeRing(ring, answer) ==
    IF answer.delta THEN ring \o After(answer.rows, Newest(ring)) ELSE answer.rows

Absorb(ring, c) ==
    [system |-> From(MergeRing(ring["system"], c.rows["system"]), c.now - ChartTicks),
     groups |-> From(MergeRing(ring["groups"], c.rows["groups"]), c.now - HistTicks)]

(* MUTANT: only the latest call's answer ends the wait. *)
StillAskedLatestOnly(c) ==
    IF c.latest THEN {Stale(d) : d \in asked \ {c}}
    ELSE (asked \ {c}) \cup {[c EXCEPT !.at = "lost"]}

\* An answer of a call that was given up settles it, applied or not.
StillAsked(c) ==
    IF c.latest /\ ~c.stale THEN {Stale(d) : d \in asked \ {c}}
    ELSE asked \ {c}

Deliver(c) ==
    /\ c.at = "answered"
    /\ asked' = StillAsked(c)
    /\ view' = IF c.stale THEN view
               ELSE [view EXCEPT !.ring = Absorb(@, c), !.now = IF c.now > @ THEN c.now ELSE @]
    /\ UNCHANGED <<time, hidden, hist, ghost>>

\* The store cannot be read: an error settles the call too.
Reject(c) ==
    /\ Bad /\ c.at = "sent"
    /\ asked' = asked \ {c}
    /\ UNCHANGED <<time, hidden, hist, view>>

\* The page stops its ticks while nobody looks, and tells the sampler
\* (bdevSetHidden); shown again it ticks at once.
Hide ==
    /\ ~hidden /\ ghost.hides < MaxHides
    /\ hidden' = TRUE
    /\ ghost' = [ghost EXCEPT !.hides = @ + 1]
    /\ UNCHANGED <<time, hist, view, asked>>

Show ==
    /\ hidden /\ hidden' = FALSE
    /\ UNCHANGED <<time, hist, view, asked, ghost>>

HistoryNext ==
    \/ Sample \/ PageTick \/ Hide \/ Show
    \/ \E c \in asked : Answer(c) \/ Lost(c) \/ Deliver(c) \/ Reject(c)

HistoryFairness ==
    /\ WF_historyVars(Sample) /\ WF_historyVars(PageTick)
    /\ WF_historyVars(\E c \in asked : Answer(c))
    /\ WF_historyVars(\E c \in asked : Deliver(c))

HistorySpec == HistoryInit /\ [][HistoryNext]_historyVars /\ HistoryFairness

-----------------------------------------------------------------------------
Later(a, b) == IF a > b THEN a ELSE b
Rising(samples) == \A i, j \in DOMAIN samples : i < j => samples[i] < samples[j]
WindowOf(b) ==
    IF b = "system" THEN view.now - ChartTicks
    ELSE Later(view.now, Newest(hist["system"])) - HistTicks

\* The page's copies hold every sample taken since their window's start, up
\* to their newest one, once each and in order, although answers are late,
\* overtake each other, are given up and overlap.
PageRingIsWindow ==
    \A b \in Buffers :
        LET ring == From(view.ring[b], WindowOf(b))
        IN /\ Rising(ring)
           /\ Range(ring) = {s \in Range(ghost.taken[b]) : WindowOf(b) <= s /\ s <= Newest(ring)}

\* A page that is looked at has, again and again, what the buffers have of
\* its windows, also after one answer that never came.
PageKeepsUp ==
    []<>(\/ hidden
         \/ \A b \in Buffers :
                Newest(From(view.ring[b], WindowOf(b))) = Newest(From(hist[b], WindowOf(b))))

=============================================================================
