------------------------------ MODULE Sessions ------------------------------
(***************************************************************************)
(* Sessions rebuilt from the stored events (internal/dataset/fromstore.go) *)
(* and rolled up into days, weeks and months (internal/agg), the data of   *)
(* the built dashboard.  e.tools is [tool group -> calls]; a label of the  *)
(* price book stands for its model.                                        *)
(***************************************************************************)
EXTENDS Prices, StoreReads

(* MUTANT: the day is cut in UTC, as the earlier builds did. *)
DayOfUTC(es, e) ==
    IF e.at # 0 THEN UTCDay(e.at) ELSE UTCDay(Min({d.at : d \in es} \ {0}))

\* The one place a session's days are not local: a turn without a time falls
\* on the UTC day of the session's first stamp.
DayOf(es, e) ==
    IF e.at # 0 THEN LocalDay(e.at) ELSE UTCDay(Min({d.at : d \in es} \ {0}))

Figures(cfg, es) ==
    [calls |-> Cardinality(es), tokens |-> SumOver(es, TurnTotal),
     cost |-> SumOver(es, LAMBDA e : EventCost(cfg, e).usd),
     sub |-> SumOver(es, LAMBDA e : EventCost(cfg, e).sub)]

\* Gaps between consecutive events, a gap over the cutoff counting nothing.
ActiveTime(es, cfg) ==
    LET ts == InOrder({e \in es : e.at # 0})
        Gap(i) == ts[i].at - ts[i - 1].at
    IN SumOver({i \in 2..Len(ts) : Gap(i) <= cfg.idle}, Gap)

ToolCounts(es) ==
    LET Used == UNION {DOMAIN e.tools : e \in es}
    IN [t \in Used |-> SumOver({e \in es : t \in DOMAIN e.tools}, LAMBDA e : e.tools[t])]

\* No session without a call or without a time.
BuildSession(es, cfg) ==
    LET rows == Sorted(es, StoreOrder)
        ts == Turns(es)
        times == {e.at : e \in es} \ {0}
        days == {DayOf(es, e) : e \in ts}
    IN IF ts = {} \/ times = {} THEN {}
       ELSE {[key |-> KeyOf(rows[1]), agent |-> FirstNonEmpty(rows, LAMBDA e : e.agent),
              surface |-> rows[1].surface,
              owner |-> FirstNonEmpty(rows, LAMBDA e : e.owner),
              client |-> FirstNonEmpty(rows, LAMBDA e : e.client),
              start |-> Min(times), end |-> Max(times),
              all |-> Figures(cfg, ts), classes |-> Classes(ts),
              unpriced |-> SumOver({e \in ts : EventCost(cfg, e).unpriced}, TurnTotal),
              models |-> [m \in {e.model : e \in ts} |->
                            Figures(cfg, {e \in ts : e.model = m})],
              daily |-> [d \in days |-> Figures(cfg, {e \in ts : DayOf(es, e) = d})],
              tools |-> ToolCounts(es), active |-> ActiveTime(es, cfg)]}

SessionsFromEvents(es, cfg) ==
    UNION {BuildSession({e \in es : KeyOf(e) = k}, cfg) : k \in {KeyOf(e) : e \in es}}

\* A session no rule has placed yet belongs to no client.
ActiveMinutesByClient(ss) ==
    [c \in {s.client : s \in ss} \ {None} |->
        SumOver({s \in ss : s.client = c}, LAMBDA s : s.active)]

-----------------------------------------------------------------------------
(* agg.Build.  Calls, tokens and cost go to the day a call ran; a session  *)
(* counts in every bucket it was active in; the model and tool splits go   *)
(* to its first day inside the window, whole.                              *)

InWindow(s, cutoff) == {d \in DOMAIN s.daily : d >= cutoff}
Kept(ss, cutoff) == {s \in ss : InWindow(s, cutoff) # {}}
FirstDay(s, cutoff) == Min(InWindow(s, cutoff))

\* The figures of a set of session days.
Added(cells) ==
    [calls |-> SumOver(cells, LAMBDA c : c[1].daily[c[2]].calls),
     tokens |-> SumOver(cells, LAMBDA c : c[1].daily[c[2]].tokens),
     cost |-> SumOver(cells, LAMBDA c : c[1].daily[c[2]].cost),
     sub |-> SumOver(cells, LAMBDA c : c[1].daily[c[2]].sub)]

Bucket(cells, firsts, composed) ==
    LET Of(x) == {c \in cells : c[1].surface = x}
        Sum(F(_)) == SumOver(firsts, F)
        models == UNION {DOMAIN s.models : s \in firsts}
        groups == UNION {DOMAIN s.tools : s \in firsts}
    IN [all |-> Added(cells), sessions |-> Cardinality({c[1] : c \in cells}),
        surfaces |-> [x \in {c[1].surface : c \in cells} |->
                        [all |-> Added(Of(x)), sessions |-> Cardinality({c[1] : c \in Of(x)})]],
        models |-> [m \in models |->
                        Sum(LAMBDA s : IF m \in DOMAIN s.models THEN s.models[m].tokens ELSE 0)],
        tools |-> [g \in groups |->
                        [calls |-> Sum(LAMBDA s : IF g \in DOMAIN s.tools THEN s.tools[g] ELSE 0),
                         sessions |-> Cardinality({s \in firsts : g \in DOMAIN s.tools})]],
        classes |-> IF ~composed THEN [fresh |-> 0, cw |-> 0, cr |-> 0, output |-> 0]
                    ELSE [fresh |-> Sum(LAMBDA s : s.classes.fresh),
                          cw |-> Sum(LAMBDA s : s.classes.cw),
                          cr |-> Sum(LAMBDA s : s.classes.cr),
                          output |-> Sum(LAMBDA s : s.classes.output)]]

\* The buckets of one period; a day bucket carries no token composition.
BuildAgg(ss, cutoff, Period(_), composed) ==
    LET kept == Kept(ss, cutoff)
        cells == UNION {{<<s, d>> : d \in InWindow(s, cutoff)} : s \in kept}
    IN [p \in {Period(c[2]) : c \in cells} |->
            Bucket({c \in cells : Period(c[2]) = p},
                   {s \in kept : Period(FirstDay(s, cutoff)) = p}, composed)]

AggDays(ss, cutoff) == BuildAgg(ss, cutoff, LAMBDA d : d, FALSE)
AggWeeks(ss, cutoff) == BuildAgg(ss, cutoff, WeekOf, TRUE)
AggMonths(ss, cutoff) == BuildAgg(ss, cutoff, MonthOf, TRUE)

=============================================================================
