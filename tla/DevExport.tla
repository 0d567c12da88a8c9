------------------------------ MODULE DevExport ------------------------------
(***************************************************************************)
(* internal/devexport and burnmon-dev's export: the bundle of one window,  *)
(* [since, until), built from the store and the machine's samples.         *)
(***************************************************************************)
EXTENDS Advisor

High == 70
TopTurnsCount == 10
FindingsCap == 25

\* By model family, of the older price table, every vendor but OpenAI.
FamilyRates(cfg, m) == IF Has(cfg.families, m) THEN cfg.families[m] ELSE cfg.fallback

TurnCostUSD(cfg, e) ==
    IF e.vendor = "openai" THEN OpenAICost(cfg.openaiPrices, e)
    ELSE LET r == FamilyRates(cfg, e.model)
         IN (e.output * r.out + e.input * r.in) * cfg.factor

TurnRow(cfg, e) ==
    [key |-> KeyOf(e), at |-> e.at, agent |-> e.agent, model |-> e.model,
     counts |-> Classes({e}), cost |-> TurnCostUSD(cfg, e),
     hit |-> <<Tokens(e.cr), e.input + Tokens(e.cr)>>,
     project |-> e.project, owner |-> e.owner, client |-> e.client]

\* The rows of a set of places in ts, added up.
RowSum(ts, idx) ==
    [fresh |-> SumOver(idx, LAMBDA i : ts[i].counts.fresh),
     cw |-> SumOver(idx, LAMBDA i : ts[i].counts.cw),
     cr |-> SumOver(idx, LAMBDA i : ts[i].counts.cr),
     output |-> SumOver(idx, LAMBDA i : ts[i].counts.output),
     cost |-> SumOver(idx, LAMBDA i : ts[i].cost)]

Grouped(ts, Group(_)) ==
    [k \in {Group(ts[i]) : i \in DOMAIN ts} |->
        RowSum(ts, {i \in DOMAIN ts : Group(ts[i]) = k})]

HarnessModelTotals(ts) == Grouped(ts, LAMBDA t : <<t.agent, t.model>>)

(* MUTANT: the day is cut from the UTC instant the row carries. *)
DailyRowsUTC(ts) == Grouped(ts, LAMBDA t : <<UTCDay(t.at), t.agent, t.model>>)

DailyRows(ts) == Grouped(ts, LAMBDA t : <<LocalDay(t.at), t.agent, t.model>>)

\* The n largest, the earliest first among equals.
TopTurns(ts, n) ==
    LET Ahead(i, j) == \/ LineTokens(ts[i]) > LineTokens(ts[j])
                       \/ LineTokens(ts[i]) = LineTokens(ts[j]) /\ i < j
        idx == Sorted(DOMAIN ts, Ahead)
    IN [i \in 1..Min({n, Len(idx)}) |-> ts[idx[i]]]

\* Runs of consecutive samples under high pressure.
PressureEpisodes(history) ==
    LET high == {i \in DOMAIN history : PressureScore(history[i]) >= High}
        End(i) == Max({j \in i..Len(history) : i..j \subseteq high})
        Scores(i) == {PressureScore(history[j]) : j \in i..End(i)}
    IN {[start |-> history[i].at, end |-> history[End(i)].at, peak |-> Max(Scores(i)),
         sum |-> SumOver(i..End(i), LAMBDA j : PressureScore(history[j])),
         n |-> End(i) - i + 1] : i \in {j \in high : j - 1 \notin high}}

\* A state for a report, not a rule's gate: up to five minutes away.
NearestSystemState(history, at) == NearestSample(history, at, 5 * Minute)

Assemble(es, cfg, samples, groups, since, until, findings) ==
    LET of == InOrder({e \in Turns(es) : since <= e.at /\ e.at < until})
        ts == [i \in DOMAIN of |-> TurnRow(cfg, of[i])]
    IN [since |-> since, until |-> until, redacted |-> FALSE,
        samples |-> samples, groups |-> groups, turns |-> ts, findings |-> findings,
        totals |-> HarnessModelTotals(ts), daily |-> DailyRows(ts),
        top |-> TopTurns(ts, TopTurnsCount), pressure |-> PressureEpisodes(samples)]

\* What summary.md shows of a bundle: the top turns with the machine's state,
\* and at most FindingsCap findings, the newest ones, with the number left out.
Summary(b) ==
    LET n == Cardinality(b.findings)
    IN [top |-> [i \in DOMAIN b.top |-> <<b.top[i], NearestSystemState(b.samples, b.top[i].at)>>],
        findings |-> CHOOSE F \in SUBSET b.findings :
            /\ Cardinality(F) = Min({n, FindingsCap})
            /\ \A f \in F, g \in b.findings \ F : f.at >= g.at,
        omitted |-> Max({0, n - FindingsCap})]

-----------------------------------------------------------------------------
(* Redaction.  The salted hash of a kind and a name is the pair itself,    *)
(* for a salt that outlives the export.                                    *)
Hidden(kind, v) == IF v = None THEN None ELSE kind \o "-" \o v

RedactedRow(t) ==
    [t EXCEPT !.project = Hidden("project", @), !.owner = Hidden("owner", @),
              !.client = Hidden("client", @)]

(* MUTANT: the ten turns of the summary keep their names. *)
RedactTurnsOnly(b) ==
    [b EXCEPT !.redacted = TRUE, !.turns = [i \in DOMAIN @ |-> RedactedRow(@[i])]]

Redact(b) ==
    [b EXCEPT !.redacted = TRUE,
              !.turns = [i \in DOMAIN @ |-> RedactedRow(@[i])],
              !.top = [i \in DOMAIN @ |-> RedactedRow(@[i])]]

-----------------------------------------------------------------------------
(* burnmon-dev.exe export and the EXPORT button.                           *)
SamplesIn(samples, since, until) ==
    SelectSeq(samples, LAMBDA s : since <= s.at /\ s.at < until)
GroupsIn(groups, since, until) == {g \in groups : since <= g.at /\ g.at < until}

\* What the advisor reads: a turn at until itself, which the bundle leaves
\* out, is still one of its turns.
AdvisorInput(es, samples, groups, cfg, since, until) ==
    [turns |-> BuildTurns(EventsSince(es, since), cfg, since, until, 0),
     samples |-> SamplesIn(samples, since, until), groups |-> GroupsIn(groups, since, until)]

BuildExportBundle(es, samples, groups, cfg, th, since, until) ==
    Assemble(EventsSince(es, since), cfg, SamplesIn(samples, since, until),
             GroupsIn(groups, since, until), since, until,
             Advise(AdvisorInput(es, samples, groups, cfg, since, until), cfg, th))

\* A flag that names a local day: --until means through the end of it.
ParseExportTime(day, endOfDay) == StartOfDay(IF endOfDay THEN day + 1 ELSE day)

Published(b, redact) == IF redact THEN Redact(b) ELSE b

\* No bundle when --since is not before --until.
RunExport(es, samples, groups, cfg, th, since, until, redact) ==
    IF since >= until THEN <<>>
    ELSE <<Published(BuildExportBundle(es, samples, groups, cfg, th, since, until), redact)>>

=============================================================================
