-------------------------- MODULE StatutoryFigure --------------------------
(***************************************************************************)
(* What a report says of one programme's money, as two parts of the code    *)
(* work it out separately: calculation_status.py decides from the           *)
(* producer's figures whether the programme may carry an amount, and        *)
(* service.py converts the same figures to GBP and has                      *)
(* statutory_calculation.py compute the qualifying base.                    *)
(*                                                                          *)
(* A programme is a record [engine, status, declared, pct, cap]: its        *)
(* calculation engine ("" if none), its running status, the inputs declared *)
(* for it in programme_required_inputs ({} if none), a percentage limit and *)
(* an absolute cap (Unknown if not recorded). A scenario is the producer's  *)
(* entry for the territory:                                                 *)
(*   amount   the statutory figures, Unknown where absent or null           *)
(*   assumed  those marked as planning assumptions                          *)
(*   foreign  those in a currency other than the scenario's and GBP         *)
(*   spend, source, budget   expected spend here, its provenance, the budget *)
(*   rated    whether the scenario's currency has a rate to GBP             *)
(* Exchange rates are one: only whether a figure converts matters here.     *)
(***************************************************************************)
EXTENDS Integers, FiniteSetsExt

CONSTANT Unknown   \* null, or an absent key

Keys == {"eligible_local_spend", "qualified_labour", "qape", "qnzpe", "vfx_expenditure",
         "pdv_expenditure", "local_core_expenditure", "global_core_expenditure",
         "resident_labour", "vendor_spend"}
LOCAL_CORE  == "local_core_expenditure"
GLOBAL_CORE == "global_core_expenditure"

NON_SPEND_ENGINES == {"INVESTOR_TAX_SHELTER", "COMPETITIVE_GRANT", "NO_PROGRAMME"}
SPEND_SEEDABLE_ENGINES == {"ELIGIBLE_LOCAL_SPEND", "TIERED_SPEND"}
SINGLE_INPUT_ENGINES == SPEND_SEEDABLE_ENGINES \cup
    {"QUALIFIED_LABOUR", "QAPE", "QNZPE", "VFX_ONLY", "PDV_ONLY"}
Engines == SINGLE_INPUT_ENGINES \cup NON_SPEND_ENGINES \cup {"CORE_LOWER_OF", "MULTI_BUCKET", ""}

\* SINGLE_INPUT_KEY_BY_ENGINE.
InputOf == [QUALIFIED_LABOUR |-> "qualified_labour", QAPE |-> "qape", QNZPE |-> "qnzpe",
            VFX_ONLY |-> "vfx_expenditure", PDV_ONLY |-> "pdv_expenditure"]
SingleInput(e) ==
    IF e \in DOMAIN InputOf THEN InputOf[e] ELSE "eligible_local_spend"

\* ENGINE_REQUIRED_INPUTS.
OwnInputs(e) ==
    IF e \in SINGLE_INPUT_ENGINES THEN {SingleInput(e)}
    ELSE IF e = "CORE_LOWER_OF" THEN {LOCAL_CORE, GLOBAL_CORE} ELSE {}

Amounts == Nat \cup {Unknown}
Provenances == {"user_entered", "imported_budget", "unknown"}
Statuses == {"active", "suspended"}

Programmes == [engine : Engines, status : Statuses,
               declared : SUBSET Keys, pct : Amounts, cap : Amounts]
\* The request validator ties provenance to the presence of an amount.
Scenarios == {sc \in [amount : [Keys -> Amounts], assumed : SUBSET Keys, foreign : SUBSET Keys,
                      spend : Amounts, source : Provenances, budget : Nat, rated : BOOLEAN] :
                 \A k \in sc.assumed \cup sc.foreign : sc.amount[k] # Unknown}
-----------------------------------------------------------------------------
\* The declared inputs override the engine's own; no row declared means none.
Required(row) == IF row.declared = {} THEN OwnInputs(row.engine) ELSE row.declared

Missing(row, amount) == {k \in Required(row) : amount[k] = Unknown}

\* The keys an engine takes a figure in for, and the figure.
SeedKeys(e) ==
    IF e \in SPEND_SEEDABLE_ENGINES THEN {"eligible_local_spend"}
    ELSE IF e = "CORE_LOWER_OF" THEN {LOCAL_CORE, GLOBAL_CORE} ELSE {}
StandIn(k, sc) == IF k = GLOBAL_CORE THEN sc.budget ELSE sc.spend

Seeded_AnySource(e, sc, amount) ==
    {k \in SeedKeys(e) : StandIn(k, sc) # Unknown /\ amount[k] = Unknown}

Seeded_AllOrNothing(e, sc, amount) ==
    IF sc.source # "user_entered" \/ \E k \in SeedKeys(e) : amount[k] # Unknown THEN {}
    ELSE {k \in SeedKeys(e) : StandIn(k, sc) # Unknown}

\* seed_spend_from_scenario: only for a spend the producer typed, and only
\* where no figure is known.
Seeded(e, sc, amount) ==
    IF sc.source # "user_entered" THEN {}
    ELSE {k \in SeedKeys(e) : StandIn(k, sc) # Unknown /\ amount[k] = Unknown}

WithSeeds(e, sc, amount) ==
    [k \in Keys |-> IF k \in Seeded(e, sc, amount) THEN StandIn(k, sc) ELSE amount[k]]
-----------------------------------------------------------------------------
(***************************************************************************)
(* resolve_calculation_status. The verdict stands for the eligibility the   *)
(* report has settled before: "ineligible", "unresolved" or "confirmed".    *)
(***************************************************************************)
Verdicts == {"ineligible", "unresolved", "confirmed"}

Assumed(row, sc) == sc.assumed \cup Seeded(row.engine, sc, sc.amount)

Incomplete_Unseeded(row, sc) == row.engine # "" /\ Missing(row, sc.amount) # {}

Incomplete(row, sc) ==
    row.engine # "" /\ Missing(row, WithSeeds(row.engine, sc, sc.amount)) # {}

CalculationStatus(row, sc, verdict) ==
    IF row.engine = "NO_PROGRAMME" THEN "NO_PROGRAMME"
    ELSE IF row.status # "active" THEN "SUSPENDED"
    ELSE IF verdict = "ineligible" THEN "NOT_ELIGIBLE"
    ELSE IF row.engine \in NON_SPEND_ENGINES THEN "CONDITIONAL"
    ELSE IF Incomplete(row, sc) THEN "REQUIRES_COST_BREAKDOWN"
    ELSE IF Assumed(row, sc) # {} \/ verdict = "unresolved" \/ row.engine = "" THEN "CONDITIONAL"
    ELSE "ESTIMATED"

CarriesFigure(status) == status \in {"ESTIMATED", "CONDITIONAL"}
-----------------------------------------------------------------------------
(***************************************************************************)
(* _statutory_base_for and resolve_statutory_qualifying_spend.              *)
(***************************************************************************)
\* Conversion drops an amount in a third currency: it then reads as unknown.
Converted(sc) == [k \in Keys |-> IF k \in sc.foreign THEN Unknown ELSE sc.amount[k]]

\* The amounts the base is built from, stand-ins included.
Inputs(row, sc) == WithSeeds(row.engine, sc, Converted(sc))

\* The cases in which the resolver returns None.
HasBase(row, sc) ==
    /\ row.engine \notin NON_SPEND_ENGINES \cup {""}
    /\ sc.rated
    /\ Missing(row, Inputs(row, sc)) = {}
    /\ row.engine = "MULTI_BUCKET" => row.declared # {}
    /\ \A k \in OwnInputs(row.engine) : Inputs(row, sc)[k] # Unknown

Smaller(a, b) == IF a < b THEN a ELSE b
LimitApplies(row) == row.pct # Unknown /\ row.pct \in 1 .. 99
Share(a, pct) == (a * pct) \div 100

\* The base before the caps. CORE_LOWER_OF has the percentage in its formula.
Gross(row, in) ==
    IF row.engine = "CORE_LOWER_OF"
      THEN IF LimitApplies(row) THEN Smaller(in[LOCAL_CORE], Share(in[GLOBAL_CORE], row.pct))
                                ELSE in[LOCAL_CORE]
    ELSE IF row.engine = "MULTI_BUCKET"
      THEN FoldSet(LAMBDA k, sum : in[k] + sum, 0, row.declared)
    ELSE in[SingleInput(row.engine)]

Base(row, sc) ==
    LET gross   == Gross(row, Inputs(row, sc))
        limited == IF LimitApplies(row) /\ row.engine # "CORE_LOWER_OF"
                     THEN Share(gross, row.pct) ELSE gross
    IN  IF row.cap # Unknown /\ row.cap > 0 THEN Smaller(limited, row.cap) ELSE limited

\* Only programmes that run are costed at all.
ChartHasFigure(row, sc) == row.status = "active" /\ HasBase(row, sc)
-----------------------------------------------------------------------------
\* What keeps a promised figure out of the chart: the mechanism is no entitlement
\* or the row has no engine; its buckets were never declared; the scenario's
\* currency has no rate; the declared inputs leave out a figure its engine computes
\* from, and nothing stands in for it; or one that counts was dropped in conversion,
\* and nothing stands in for it.
PromiseFails(row, sc) ==
    \/ row.engine \in NON_SPEND_ENGINES \cup {""}
    \/ row.engine = "MULTI_BUCKET" /\ row.declared = {}
    \/ ~sc.rated
    \/ \E k \in OwnInputs(row.engine) \ Required(row) :
          sc.amount[k] = Unknown /\ k \notin Seeded(row.engine, sc, sc.amount)
    \/ \E k \in sc.foreign \cap (Required(row) \cup OwnInputs(row.engine)) :
          k \notin Seeded(row.engine, sc, Converted(sc))

\* A status that may carry a figure has one in the chart except in these five cases,
\* and in each of them it has none: the status is decided before anything is
\* converted.
PromiseKept(row, sc, verdict) ==
    CarriesFigure(CalculationStatus(row, sc, verdict)) =>
        (ChartHasFigure(row, sc) <=> ~PromiseFails(row, sc))

\* No figure stands in the chart where the status, for a production that is not
\* ineligible, says that none can be given.
FigureIsPromised(row, sc, verdict) ==
    ChartHasFigure(row, sc) /\ verdict # "ineligible" =>
        CarriesFigure(CalculationStatus(row, sc, verdict))

\* A producer who has stated neither a statutory figure nor a spend here gets no
\* figure, whatever the budget, the engine and the declared inputs.
BlankSpendNoFigure(row, sc) ==
    /\ \A k \in Keys : sc.amount[k] = Unknown
    /\ sc.spend = Unknown \/ sc.source # "user_entered"
    => ~ChartHasFigure(row, sc)

\* No planning figure takes the place of a statutory figure the producer entered
\* where the status, ESTIMATED, says that none was needed.
EstimatedIsSupplied(row, sc, verdict) ==
    CalculationStatus(row, sc, verdict) = "ESTIMATED" /\ ChartHasFigure(row, sc) =>
        Seeded(row.engine, sc, Converted(sc)) = {}

\* The same entry with further statutory figures in it.
Extends(sc, more) ==
    /\ more.spend = sc.spend /\ more.source = sc.source
    /\ more.budget = sc.budget /\ more.rated = sc.rated
    /\ \A k \in Keys : sc.amount[k] # Unknown =>
          more.amount[k] = sc.amount[k] /\ (k \in more.foreign <=> k \in sc.foreign)

\* A further figure takes no base away, and where none is above the planning figure
\* it replaces, the base does not rise: each key is seeded by itself, whatever the
\* engine compares or adds up and the limits do to it.
AnswersCount(row, sc, more) ==
    Extends(sc, more) /\ HasBase(row, sc) =>
        /\ HasBase(row, more)
        /\ (\A k \in Seeded(row.engine, sc, Converted(sc)) :
               Inputs(row, more)[k] <= Inputs(row, sc)[k])
           => Base(row, more) <= Base(row, sc)
=============================================================================
