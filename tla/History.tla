------------------------------- MODULE History ------------------------------
(***************************************************************************)
(* internal/history, the filtered totals of the History page, and the      *)
(* export file with its merge (internal/export, internal/merge).           *)
(* A filter field None is "any"; f.from and f.to are days, Nil for none.   *)
(***************************************************************************)
EXTENDS Sessions

BucketKey(period, day) ==
    CASE period = "month" -> MonthOf(day)
      [] period = "week" -> WeekOf(day)
      [] OTHER -> day

InRange(f, e) ==
    LET day == LocalDay(e.at)
    IN f.from = Nil \/ f.to = Nil \/ (day >= f.from /\ day <= f.to)

\* All but the client filter: the client table stays comparable under it.
Matches(f, e) ==
    /\ InRange(f, e)
    /\ f.vendor \in {None, e.agent}
    /\ f.owner \in {None, e.owner}

\* The figure as a page has it: absent when nothing is covered.
FigureOf(headline) == IF headline.covered THEN <<headline.usd>> ELSE <<>>

\* Tokens of every row, turns and cost of the real calls only.
HistoryTotals(es, cfg) ==
    [classes |-> Classes(es), tokens |-> SumOver(es, TurnTotal),
     turns |-> Cardinality(Turns(es)), sessions |-> Cardinality({KeyOf(e) : e \in es}),
     usd |-> FigureOf(HeadlineUSD(cfg, Turns(es)))]

HistoryRow(es, cfg) ==
    [totals |-> HistoryTotals(es, cfg),
     vendors |-> [a \in {e.agent : e \in es} \ {None} |->
        LET of == {e \in es : e.agent = a}
        IN [tokens |-> SumOver(of, TurnTotal),
            usd |-> FigureOf(HeadlineUSD(cfg, Turns(of)))]]]

ActiveOf(c, minutes) == IF c \in DOMAIN minutes THEN minutes[c] ELSE 0

BuildClientRow(c, es, cfg) ==
    LET ss == SessionsFromEvents(es, cfg)
    IN [tokens |-> SumOver(Turns(es), TurnTotal), usd |-> FigureOf(HeadlineUSD(cfg, Turns(es))),
        sessions |-> Cardinality(ss), active |-> ActiveOf(c, ActiveMinutesByClient(ss))]

BuildHistory(es, cfg, f) ==
    LET match == {e \in es : Matches(f, e)}
        rows == {e \in match : f.client \in {None, e.client}}
        clients == {e.client : e \in es} \ {None}
        Key(e) == BucketKey(f.period, LocalDay(e.at))
    IN [totals |-> HistoryTotals(rows, cfg),
        rows |-> [k \in {Key(e) : e \in rows} |->
                    HistoryRow({e \in rows : Key(e) = k}, cfg)],
        vendors |-> {e.agent : e \in es} \ {None},
        owners |-> {e.owner : e \in es} \ {None},
        clients |-> [c \in clients |->
                        BuildClientRow(c, {e \in match : e.client = c}, cfg)]]

-----------------------------------------------------------------------------
(* The export file: one row per day, owner, client, vendor and model, with *)
(* no session, path or project in it.                                      *)
ExportSchema == 1

RowKey(e) == [day |-> LocalDay(e.at), owner |-> e.owner, client |-> e.client,
              vendor |-> e.vendor, model |-> e.model]

ExportRow(k, es, cfg) ==
    [key |-> k, classes |-> Classes(es),
     reasoning |-> SumOver(es, LAMBDA e : Tokens(e.reasoning)),
     costs |-> VendorBases(cfg, k.vendor, es), active |-> ActiveTime(es, cfg)]

BuildExport(es, cfg, label) ==
    LET ts == Turns(es)
    IN [schema |-> ExportSchema, label |-> label,
        rows |-> {ExportRow(k, {e \in ts : RowKey(e) = k}, cfg) : k \in {RowKey(e) : e \in ts}}]

\* Reasoning tokens are counted beside the output they are part of.
RowTokens(r) ==
    r.classes.fresh + r.classes.cw + r.classes.cr + r.classes.output + r.reasoning

\* One merged table: per group, the tokens of each label.
MergedTable(docs, Group(_)) ==
    LET cells == UNION {{<<i, r>> : r \in docs[i].rows} : i \in DOMAIN docs}
        labels == {docs[i].label : i \in DOMAIN docs}
    IN [g \in {Group(c[2].key) : c \in cells} |->
            [l \in labels |->
                SumOver({c \in cells : Group(c[2].key) = g /\ docs[c[1]].label = l},
                        LAMBDA c : RowTokens(c[2]))]]

\* Files of different schemas, or none at all, are refused.
Merge(docs) ==
    IF docs = <<>> \/ \E i \in DOMAIN docs : docs[i].schema # docs[1].schema THEN <<>>
    ELSE <<[clients |-> MergedTable(docs, LAMBDA k :
                            IF k.client = None THEN "unassigned" ELSE k.client),
            vendors |-> MergedTable(docs, LAMBDA k : k.vendor),
            weeks |-> MergedTable(docs, LAMBDA k : WeekOf(k.day))]>>

=============================================================================
