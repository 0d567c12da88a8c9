------------------------------- MODULE Prices -------------------------------
(***************************************************************************)
(* internal/pricing: what an event costs on each basis, the headline basis *)
(* of a vendor, and the owner and client rules.  A cost is tokens times    *)
(* rate: the division by a million and the rounding of the shown figure    *)
(* are left out.  cfg is pricing.Config:                                   *)
(*   anthropic, openai, copilot   the three books, [model -> rates]        *)
(*   openaiPrices                 the older table of the same vendor       *)
(*   factor, calibrated           the subscription                         *)
(*   windows                      [model -> context window]                *)
(*   reprefill, ttl, idle, running  thresholds                             *)
(*   plan, plans                  the Copilot plan and the plan table      *)
(*   credit                       what one Copilot credit costs, 0: unset  *)
(*   owners                       the rules, in order                      *)
(***************************************************************************)
EXTENDS Events

Has(book, m) == m \in DOMAIN book

Priced(e, r) ==
    e.input * r.in + Tokens(e.cw) * r.cw + Tokens(e.cr) * r.cr + e.output * r.out

AnthropicCost(cfg, e) ==
    IF Has(cfg.anthropic, e.model) THEN Priced(e, cfg.anthropic[e.model]) ELSE 0

\* Output-driven: cache traffic is not charged.
AnthropicShare(cfg, e) ==
    IF Has(cfg.anthropic, e.model)
    THEN (e.output * cfg.anthropic[e.model].out + e.input * cfg.anthropic[e.model].in)
            * cfg.factor
    ELSE 0

\* Cache writes of an OpenAI call have no price.
OpenAICost(book, e) ==
    IF Has(book, e.model) THEN Priced([e EXCEPT !.cw = Nil], book[e.model]) ELSE 0

CopilotCost(cfg, e) ==
    IF Has(cfg.copilot, e.model) THEN Priced(e, cfg.copilot[e.model]) ELSE 0

\* One event, for Sessions and the Now page.
EventCost(cfg, e) ==
    CASE e.vendor = "anthropic" ->
            [usd |-> AnthropicCost(cfg, e), sub |-> AnthropicShare(cfg, e),
             unpriced |-> ~Has(cfg.anthropic, e.model)]
      [] e.vendor = "openai" ->
            [usd |-> OpenAICost(cfg.openaiPrices, e), sub |-> OpenAICost(cfg.openaiPrices, e),
             unpriced |-> ~Has(cfg.openaiPrices, e.model)]
      [] e.vendor = "github" ->
            [usd |-> CopilotCost(cfg, e), sub |-> CopilotCost(cfg, e),
             unpriced |-> ~Has(cfg.copilot, e.model)]
      [] OTHER -> [usd |-> 0, sub |-> 0, unpriced |-> TRUE]

SubscriptionConfigured(cfg) == cfg.calibrated

\* Every basis a book covers for one vendor's events, in the book's order.
VendorBases(cfg, v, es) ==
    CASE v = "anthropic" ->
            <<[basis |-> "api_list", usd |-> SumOver(es, LAMBDA e : AnthropicCost(cfg, e))]>>
            \o IF SubscriptionConfigured(cfg)
               THEN <<[basis |-> "subscription",
                       usd |-> SumOver(es, LAMBDA e : AnthropicShare(cfg, e))]>>
               ELSE <<>>
      [] v = "openai" ->
            <<[basis |-> "api_list", usd |-> SumOver(es, LAMBDA e : OpenAICost(cfg.openai, e))]>>
      [] v = "github" ->
            <<[basis |-> "credits", usd |-> SumOver(es, LAMBDA e : CopilotCost(cfg, e))]>>
      [] OTHER -> <<>>

\* Credits for Copilot, else the subscription share, else the list price; no
\* basis at all is "tokens only", the empty sequence.
Headline(v, bases) ==
    LET Of(b) == SelectSeq(bases, LAMBDA x : x.basis = b)
    IN IF v = "github" /\ Of("credits") # <<>> THEN Of("credits")
       ELSE IF Of("subscription") # <<>> THEN Of("subscription")
       ELSE Of("api_list")

CostForEvents(cfg, es) ==
    [v \in {e.vendor : e \in es} |->
        Headline(v, VendorBases(cfg, v, {e \in es : e.vendor = v}))]

\* The headline figures of all vendors, for History and the forecast.
SumHeadline(costs) ==
    LET Covered == {v \in DOMAIN costs : costs[v] # <<>>}
    IN [covered |-> Covered # {}, usd |-> SumOver(Covered, LAMBDA v : costs[v][1].usd)]

HeadlineUSD(cfg, es) == SumHeadline(CostForEvents(cfg, es))

\* A cent, the unit of every cost here, is what a credit is worth by default.
CreditUSD(cfg) == IF cfg.credit > 0 THEN cfg.credit ELSE 1

\* The credits of the plan less the credits spent, as a fraction: a credit's
\* worth does not divide what was spent.  Empty unless the book has the plan.
CopilotCreditsLeft(cfg, monthEvents) ==
    LET usd == SumOver({e \in monthEvents : e.vendor = "github"}, LAMBDA e : CopilotCost(cfg, e))
        unit == CreditUSD(cfg)
    IN IF cfg.plan \notin DOMAIN cfg.plans THEN <<>>
       ELSE <<[left |-> cfg.plans[cfg.plan] * unit - usd, per |-> unit]>>

ContextWindow(cfg, m) == IF Has(cfg.windows, m) THEN cfg.windows[m] ELSE 0

-----------------------------------------------------------------------------
(* The client map.  A rule's remote and match are sets: the remotes it     *)
(* names as whole path segments, and the project paths it prefixes; a      *)
(* project's remote is what its .git says (None: no repository).           *)
RuleAt(rules, i) == [owner |-> rules[i].owner,
                     client |-> IF rules[i].client = None THEN "unassigned" ELSE rules[i].client]

FirstRule(rules, P(_)) ==
    LET hits == {i \in DOMAIN rules : P(rules[i])}
    IN IF hits = {} THEN 0 ELSE Min(hits)

MatchRule(rules, remote, project) ==
    LET byRemote == IF remote = None THEN 0
                    ELSE FirstRule(rules, LAMBDA r : remote \in r.remotes)
        byPath == FirstRule(rules, LAMBDA r : project \in r.paths)
    IN CASE byRemote # 0 -> RuleAt(rules, byRemote)
         [] byRemote = 0 /\ byPath # 0 -> RuleAt(rules, byPath)
         [] OTHER -> [owner |-> "personal", client |-> "unassigned"]

OwnerFor(cfg, remote, project) ==
    IF cfg.owners = <<>> THEN None ELSE MatchRule(cfg.owners, remote, project).owner
ClientFor(cfg, remote, project) ==
    IF cfg.owners = <<>> THEN "unassigned" ELSE MatchRule(cfg.owners, remote, project).client

=============================================================================
