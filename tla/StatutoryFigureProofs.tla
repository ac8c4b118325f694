----------------------- MODULE StatutoryFigureProofs -----------------------
(***************************************************************************)
(* What a report's status and its chart have to do with each other, for     *)
(* every programme and every producer's entry. The two are worked out from  *)
(* different figures, those entered and those converted, and agree because  *)
(* seeding looks at each key by itself.                                     *)
(***************************************************************************)
EXTENDS StatutoryFigure, FiniteSetTheorems, TLAPS

LEMMA OwnInputsAreKeys ==
    ASSUME NEW e PROVE OwnInputs(e) \subseteq Keys
BY DEF OwnInputs, SingleInput, InputOf, SINGLE_INPUT_ENGINES, SPEND_SEEDABLE_ENGINES,
       LOCAL_CORE, GLOBAL_CORE, Keys

LEMMA RequiredAreKeys ==
    ASSUME NEW row \in Programmes PROVE Required(row) \subseteq Keys
BY OwnInputsAreKeys DEF Required, Programmes

\* A key is known after seeding if it is known before, or seeded.
LEMMA KnownAfterSeeding ==
    ASSUME NEW e, NEW sc, NEW amount, NEW k \in Keys
    PROVE  WithSeeds(e, sc, amount)[k] # Unknown
             <=> amount[k] # Unknown \/ k \in Seeded(e, sc, amount)
BY DEF WithSeeds, Seeded

\* A figure that is converted is seeded and known exactly as the one entered.
LEMMA ConvertedAlike ==
    ASSUME NEW e, NEW sc, NEW k \in Keys, k \notin sc.foreign
    PROVE  WithSeeds(e, sc, Converted(sc))[k] # Unknown
             <=> WithSeeds(e, sc, sc.amount)[k] # Unknown
<1>1. Converted(sc)[k] = sc.amount[k]
  BY DEF Converted
<1>2. k \in Seeded(e, sc, Converted(sc)) <=> k \in Seeded(e, sc, sc.amount)
  BY <1>1 DEF Seeded
<1> QED
  BY <1>1, <1>2, KnownAfterSeeding

\* Where a status may carry a figure the chart has one except in the five cases of
\* PromiseFails, and has none in those: calculation_status.py decides on the figures
\* as entered, service.py converts them before the base is computed.
THEOREM PromiseKeptAlways ==
    ASSUME NEW row \in Programmes, NEW sc \in Scenarios, NEW verdict \in Verdicts
    PROVE  PromiseKept(row, sc, verdict)
<1> SUFFICES ASSUME CarriesFigure(CalculationStatus(row, sc, verdict))
             PROVE  ChartHasFigure(row, sc) <=> ~PromiseFails(row, sc)
  BY DEF PromiseKept
<1> DEFINE Used == Required(row) \cup OwnInputs(row.engine)
           Spends == /\ row.engine \notin NON_SPEND_ENGINES \cup {""}
                     /\ row.engine = "MULTI_BUCKET" => row.declared # {}
                     /\ sc.rated
<1>1. row.status = "active"
  BY DEF CarriesFigure, CalculationStatus
<1>2. Spends => \A k \in Required(row) : WithSeeds(row.engine, sc, sc.amount)[k] # Unknown
  BY DEF CarriesFigure, CalculationStatus, NON_SPEND_ENGINES, Incomplete, Missing
<1>3. ChartHasFigure(row, sc) <=> Spends /\ \A k \in Used : Inputs(row, sc)[k] # Unknown
  BY <1>1 DEF ChartHasFigure, HasBase, Missing
<1>4. ASSUME NEW k \in Used
      PROVE  Inputs(row, sc)[k] = Unknown <=>
               \/ k \in sc.foreign /\ k \notin Seeded(row.engine, sc, Converted(sc))
               \/ k \notin sc.foreign /\ WithSeeds(row.engine, sc, sc.amount)[k] = Unknown
  <2>1. k \in Keys
    BY RequiredAreKeys, OwnInputsAreKeys
  <2>2. k \in sc.foreign => Converted(sc)[k] = Unknown
    BY <2>1 DEF Converted
  <2> QED
    BY <2>1, <2>2, KnownAfterSeeding, ConvertedAlike DEF Inputs
<1>5. ASSUME NEW k \in Used
      PROVE  k \notin sc.foreign /\ WithSeeds(row.engine, sc, sc.amount)[k] = Unknown
               <=> sc.amount[k] = Unknown /\ k \notin Seeded(row.engine, sc, sc.amount)
  <2>1. k \in Keys
    BY RequiredAreKeys, OwnInputsAreKeys
  <2>2. k \in sc.foreign => sc.amount[k] # Unknown
    BY DEF Scenarios
  <2> QED
    BY <2>1, <2>2, KnownAfterSeeding
<1>6. Spends => ((\E k \in Used : Inputs(row, sc)[k] = Unknown) <=>
        \/ \E k \in OwnInputs(row.engine) \ Required(row) :
              sc.amount[k] = Unknown /\ k \notin Seeded(row.engine, sc, sc.amount)
        \/ \E k \in sc.foreign \cap Used : k \notin Seeded(row.engine, sc, Converted(sc)))
  BY <1>2, <1>4, <1>5
<1> QED
  BY <1>3, <1>6 DEF PromiseFails

\* The chart shows no figure where the status says that a cost breakdown is
\* missing or that the programme is suspended.
THEOREM FigureIsPromisedAlways ==
    ASSUME NEW row \in Programmes, NEW sc \in Scenarios, NEW verdict \in Verdicts
    PROVE  FigureIsPromised(row, sc, verdict)
<1> SUFFICES ASSUME ChartHasFigure(row, sc), verdict # "ineligible"
             PROVE  CarriesFigure(CalculationStatus(row, sc, verdict))
  BY DEF FigureIsPromised
<1>1. row.status = "active" /\ row.engine \notin NON_SPEND_ENGINES
  BY DEF ChartHasFigure, HasBase
<1>2. \A k \in Required(row) : Inputs(row, sc)[k] # Unknown
  BY DEF ChartHasFigure, HasBase, Missing
<1>3. ASSUME NEW k \in Required(row)
      PROVE  WithSeeds(row.engine, sc, sc.amount)[k] # Unknown
  <2>1. k \in Keys
    BY RequiredAreKeys
  <2>2. CASE k \in sc.foreign
    <3>1. sc.amount[k] # Unknown
      BY <2>2 DEF Scenarios
    <3> QED
      BY <2>1, <3>1, KnownAfterSeeding
  <2>3. CASE k \notin sc.foreign
    BY <1>2, <2>1, <2>3, ConvertedAlike DEF Inputs
  <2> QED
    BY <2>2, <2>3
<1>4. ~Incomplete(row, sc)
  BY <1>3 DEF Incomplete, Missing
<1> QED
  BY <1>1, <1>4 DEF CarriesFigure, CalculationStatus, NON_SPEND_ENGINES

\* Silence gives no figure: neither the budget alone, nor a spend that the
\* producer did not type, makes a base.
THEOREM BlankSpendNoFigureAlways ==
    ASSUME NEW row \in Programmes, NEW sc \in Scenarios
    PROVE  BlankSpendNoFigure(row, sc)
<1> SUFFICES ASSUME \A k \in Keys : sc.amount[k] = Unknown,
                    sc.spend = Unknown \/ sc.source # "user_entered",
                    HasBase(row, sc)
             PROVE  FALSE
  BY DEF BlankSpendNoFigure, ChartHasFigure
<1>1. \A k \in Keys : Converted(sc)[k] = Unknown
  BY DEF Converted
<1>2. \A k \in Keys : Inputs(row, sc)[k] # Unknown =>
          k \in Seeded(row.engine, sc, Converted(sc))
  BY <1>1, KnownAfterSeeding DEF Inputs
<1>3. Seeded(row.engine, sc, Converted(sc)) \subseteq SeedKeys(row.engine) \cap {GLOBAL_CORE}
  BY DEF Seeded, StandIn
<1>4. SeedKeys(row.engine) \cap {GLOBAL_CORE} # {} => row.engine = "CORE_LOWER_OF"
  BY DEF SeedKeys, GLOBAL_CORE
<1>5. LOCAL_CORE # GLOBAL_CORE
  BY DEF LOCAL_CORE, GLOBAL_CORE
<1>6. \A k \in OwnInputs(row.engine) \cup Required(row) : Inputs(row, sc)[k] # Unknown
  BY DEF HasBase, Missing
<1>7. row.engine # "CORE_LOWER_OF"
  <2> SUFFICES ASSUME row.engine = "CORE_LOWER_OF" PROVE FALSE
    OBVIOUS
  <2>1. LOCAL_CORE \in OwnInputs(row.engine)
    BY DEF OwnInputs, SINGLE_INPUT_ENGINES, SPEND_SEEDABLE_ENGINES
  <2> QED
    BY <2>1, <1>2, <1>3, <1>5, <1>6, OwnInputsAreKeys
<1>8. OwnInputs(row.engine) = {} /\ Required(row) = {}
  BY <1>2, <1>3, <1>4, <1>6, <1>7, OwnInputsAreKeys, RequiredAreKeys
<1>9. row.engine = "MULTI_BUCKET" /\ row.declared = {}
  BY <1>8 DEF OwnInputs, Required, HasBase, Programmes, Engines, SINGLE_INPUT_ENGINES
<1> QED
  BY <1>9 DEF HasBase
-----------------------------------------------------------------------------
(***************************************************************************)
(* A MULTI_BUCKET base is a sum over the inputs declared for the programme, *)
(* as many as there are. That it is a number takes an induction over sets:  *)
(* the library's induction theorems are about operators, so the induction   *)
(* goes by least counterexamples, which are elements of sets.               *)
(***************************************************************************)
LEMMA LeastNumber ==
    ASSUME NEW S \in SUBSET Nat, S # {}
    PROVE  \E m \in S : \A k \in S : m <= k
<1> DEFINE R == OpToRel(<, Nat)
<1>1. IsWellFoundedOn(R, Nat)
  BY NatLessThanWellFounded
<1>2. \A x, y \in Nat : <<y, x>> \in R <=> y < x
  BY DEF OpToRel
<1> HIDE DEF R
<1>3. PICK m \in S : \A k \in S : ~ (<<k, m>> \in R)
  BY <1>1, WFMin
<1>4. ASSUME NEW k \in S PROVE m <= k
  <2>1. m \in Nat /\ k \in Nat
    OBVIOUS
  <2>2. ~ (k < m)
    BY <1>2, <1>3, <2>1
  <2> QED
    BY <2>1, <2>2
<1> QED
  BY <1>4

LEMMA NumbersByInduction ==
    ASSUME NEW S \in SUBSET Nat, 0 \in S, \A n \in S : n + 1 \in S
    PROVE  S = Nat
<1> SUFFICES ASSUME Nat \ S # {} PROVE FALSE
  OBVIOUS
<1>1. PICK m \in Nat \ S : \A k \in Nat \ S : m <= k
  BY LeastNumber
<1>2. m - 1 \in Nat /\ m - 1 \notin Nat \ S
  BY <1>1
<1> QED
  BY <1>1, <1>2

\* One element of a set is taken at a time, as FoldSet does.
First(s) == CHOOSE x \in s : TRUE
SumEq(g, in, s) == g[s] = IF s = {} THEN 0 ELSE in[First(s)] + g[s \ {First(s)}]
Total(in, D) ==
    CHOOSE g : g = [s \in SUBSET D |-> IF s = {} THEN 0 ELSE in[First(s)] + g[s \ {First(s)}]]

\* A function that adds up as the fold does: level by level of cardinality.
LEMMA TotalExists ==
    ASSUME NEW D, IsFiniteSet(D), NEW in, \A k \in D : in[k] \in Nat
    PROVE  \E g \in [SUBSET D -> Nat] : \A s \in SUBSET D : SumEq(g, in, s)
<1> DEFINE Level(n) == {s \in SUBSET D : Cardinality(s) <= n}
           Good == {n \in Nat : \E g \in [SUBSET D -> Nat] : \A s \in Level(n) : SumEq(g, in, s)}
<1>1. \A s \in SUBSET D : /\ Cardinality(s) \in Nat /\ Cardinality(s) <= Cardinality(D)
                          /\ s # {} => First(s) \in D /\ s \ {First(s)} \in SUBSET D
                                       /\ Cardinality(s \ {First(s)}) = Cardinality(s) - 1
  BY FS_Subset, FS_CardinalityType, FS_RemoveElement DEF First
<1>2. \A s \in SUBSET D : Cardinality(s) = 0 => s = {}
  BY FS_EmptySet, FS_Subset
<1>3. 0 \in Good
  <2> DEFINE g == [s \in SUBSET D |-> 0]
  <2>1. g \in [SUBSET D -> Nat]
    OBVIOUS
  <2>2. ASSUME NEW s \in Level(0) PROVE s = {}
    <3>1. Cardinality(s) \in Nat /\ Cardinality(s) <= 0
      BY <1>1
    <3> QED
      BY <1>2, <3>1
  <2>3. \A s \in Level(0) : SumEq(g, in, s)
    BY <2>2 DEF SumEq
  <2> HIDE DEF g
  <2> QED
    BY <2>1, <2>3
<1>4. ASSUME NEW n \in Good PROVE n + 1 \in Good
  <2>1. n \in Nat
    OBVIOUS
  <2>2. PICK g \in [SUBSET D -> Nat] : \A s \in Level(n) : SumEq(g, in, s)
    OBVIOUS
  <2> DEFINE h == [s \in SUBSET D |-> IF s = {} THEN 0 ELSE in[First(s)] + g[s \ {First(s)}]]
  <2>3. h \in [SUBSET D -> Nat]
    <3>1. ASSUME NEW s \in SUBSET D, s # {} PROVE in[First(s)] + g[s \ {First(s)}] \in Nat
      <4>1. First(s) \in D /\ s \ {First(s)} \in SUBSET D
        BY <1>1, <3>1
      <4>2. in[First(s)] \in Nat /\ g[s \ {First(s)}] \in Nat
        BY <4>1
      <4> QED
        BY <4>2
    <3> QED
      BY <3>1
  <2>4. ASSUME NEW s \in Level(n) PROVE h[s] = g[s]
    <3>1. SumEq(g, in, s) /\ s \in SUBSET D
      BY <2>2
    <3>2. h[s] = IF s = {} THEN 0 ELSE in[First(s)] + g[s \ {First(s)}]
      BY <3>1
    <3> QED
      BY <3>1, <3>2 DEF SumEq
  <2>5. ASSUME NEW s \in Level(n + 1) PROVE SumEq(h, in, s)
    <3>1. CASE s = {}
      BY <3>1 DEF SumEq
    <3>2. CASE s # {}
      <4>1. s \ {First(s)} \in Level(n)
        BY <1>1, <2>1, <3>2
      <4>2. h[s] = in[First(s)] + g[s \ {First(s)}]
        BY <3>2
      <4> QED
        BY <2>4, <3>2, <4>1, <4>2 DEF SumEq
    <3> QED
      BY <3>1, <3>2
  <2> HIDE DEF h
  <2> QED
    BY <2>1, <2>3, <2>5
<1>5. Good = Nat
  <2> HIDE DEF Good
  <2>1. Good \in SUBSET Nat
    BY DEF Good
  <2> QED
    BY <1>3, <1>4, <2>1, NumbersByInduction
<1>6. Cardinality(D) \in Nat /\ SUBSET D \subseteq Level(Cardinality(D))
  BY <1>1, FS_CardinalityType
<1> QED
  BY <1>5, <1>6

\* Sums of the same figures are the same: a smallest set on which two of them differ
\* would be empty.
LEMMA SumsAgree ==
    ASSUME NEW D, IsFiniteSet(D), NEW in, NEW also, \A k \in D : in[k] = also[k],
           NEW t, \A s \in SUBSET D : SumEq(t, in, s),
           NEW g, \A s \in SUBSET D : SumEq(g, also, s)
    PROVE  \A s \in SUBSET D : t[s] = g[s]
<1> SUFFICES ASSUME \E s \in SUBSET D : t[s] # g[s] PROVE FALSE
  OBVIOUS
<1> DEFINE R == StrictSubsetOrdering(D)
           Bad == {s \in SUBSET D : t[s] # g[s]}
<1>1. IsWellFoundedOn(R, SUBSET D)
  BY FS_StrictSubsetOrderingWellFounded, FS_FiniteSubsetsOfFinite
<1>2. Bad \subseteq SUBSET D /\ Bad # {}
  OBVIOUS
<1>3. PICK s \in Bad : \A u \in Bad : ~ (<<u, s>> \in R)
  <2> HIDE DEF R, Bad
  <2> QED
    BY <1>1, <1>2, WFMin
<1>4. s # {}
  BY <1>3 DEF SumEq
<1>5. First(s) \in s /\ s \ {First(s)} \in SUBSET D
  BY <1>3, <1>4 DEF First
<1>6. <<s \ {First(s)}, s>> \in R
  BY <1>3, <1>5 DEF StrictSubsetOrdering
<1>7. t[s \ {First(s)}] = g[s \ {First(s)}] /\ in[First(s)] = also[First(s)]
  BY <1>3, <1>5, <1>6
<1> QED
  BY <1>3, <1>4, <1>7 DEF SumEq

\* The function the fold chooses adds up, to numbers if its figures are numbers.
LEMMA TotalValues ==
    ASSUME NEW D, IsFiniteSet(D), NEW in, \A k \in D : in[k] \in Nat
    PROVE  \A s \in SUBSET D : Total(in, D)[s] \in Nat /\ SumEq(Total(in, D), in, s)
<1> DEFINE Is(g) == g = [s \in SUBSET D |-> IF s = {} THEN 0 ELSE in[First(s)] + g[s \ {First(s)}]]
           t == Total(in, D)
<1>1. PICK g \in [SUBSET D -> Nat] : \A s \in SUBSET D : SumEq(g, in, s)
  BY TotalExists
<1>2. Is(g)
  BY <1>1 DEF SumEq
<1>3. Is(t)
  BY <1>2 DEF Total
<1>4. \A s \in SUBSET D : SumEq(t, in, s)
  BY <1>3 DEF SumEq
<1>5. \A s \in SUBSET D : t[s] = g[s]
  <2> HIDE DEF t
  <2> QED
    BY <1>1, <1>4, SumsAgree
<1> QED
  BY <1>1, <1>4, <1>5

LEMMA KeysFinite == IsFiniteSet(Keys)
<1> DEFINE A == {"eligible_local_spend"}
           B == A \cup {"qualified_labour"}
           C == B \cup {"qape"}
           D == C \cup {"qnzpe"}
           E == D \cup {"vfx_expenditure"}
           F == E \cup {"pdv_expenditure"}
           G == F \cup {"local_core_expenditure"}
           H == G \cup {"global_core_expenditure"}
           I == H \cup {"resident_labour"}
           J == I \cup {"vendor_spend"}
<1>1. IsFiniteSet(A)
  BY FS_Singleton
<1>2. IsFiniteSet(J)
  <2> HIDE DEF A
  <2> QED
  BY <1>1, FS_AddElement
<1>3. J = Keys
  BY DEF Keys
<1> QED
  BY <1>2, <1>3

\* What a resolver that has a base computes from.
LEMMA Amounted ==
    ASSUME NEW row \in Programmes, NEW sc \in Scenarios, NEW k \in Keys,
           Inputs(row, sc)[k] # Unknown
    PROVE  Inputs(row, sc)[k] \in Nat
<1>1. sc.amount[k] \in Amounts /\ sc.spend \in Amounts /\ sc.budget \in Nat
  BY DEF Scenarios
<1>2. StandIn(k, sc) \in Amounts /\ Converted(sc)[k] \in Amounts
  BY <1>1 DEF StandIn, Converted, Amounts
<1> QED
  BY <1>2 DEF Inputs, WithSeeds, Amounts

LEMMA ShareType ==
    ASSUME NEW a \in Nat, NEW pct \in 1 .. 99 PROVE Share(a, pct) \in Nat
BY DEF Share

LEMMA ShareGrows ==
    ASSUME NEW a \in Nat, NEW b \in Nat, a <= b, NEW pct \in 1 .. 99
    PROVE  Share(a, pct) <= Share(b, pct)
<1>1. a * pct \in Nat /\ b * pct \in Nat /\ a * pct <= b * pct
  OBVIOUS
<1> QED
  BY <1>1 DEF Share

\* Whatever the engine computes a base from, the base is an amount.
LEMMA GrossIsAmount ==
    ASSUME NEW row \in Programmes, NEW sc \in Scenarios, HasBase(row, sc)
    PROVE  Gross(row, Inputs(row, sc)) \in Nat
<1> DEFINE in == Inputs(row, sc)
<1>1. \A k \in Required(row) \cup OwnInputs(row.engine) : in[k] \in Nat
  BY Amounted, RequiredAreKeys, OwnInputsAreKeys DEF HasBase, Missing
<1> HIDE DEF in
<1>2. CASE row.engine = "MULTI_BUCKET"
  <2>1. row.declared = Required(row)
    BY <1>2 DEF HasBase, Required
  <2>2. IsFiniteSet(row.declared)
    BY KeysFinite, FS_Subset DEF Programmes
  <2>3. Gross(row, in) = Total(in, row.declared)[row.declared]
    BY <1>2 DEF Gross, FoldSet, MapThenFoldSet, Total, First
  <2>4. Total(in, row.declared)[row.declared] \in Nat
    BY <1>1, <2>1, <2>2, TotalValues
  <2> QED
    BY <2>3, <2>4 DEF in
<1>3. CASE row.engine = "CORE_LOWER_OF"
  <2>1. in[LOCAL_CORE] \in Nat /\ in[GLOBAL_CORE] \in Nat
    BY <1>1, <1>3 DEF OwnInputs, SINGLE_INPUT_ENGINES, SPEND_SEEDABLE_ENGINES
  <2> QED
    BY <1>3, <2>1, ShareType DEF Gross, LimitApplies, Smaller, in
<1>4. CASE row.engine \notin {"MULTI_BUCKET", "CORE_LOWER_OF"}
  <2>1. row.engine \in SINGLE_INPUT_ENGINES
    BY <1>4 DEF HasBase, Programmes, Engines
  <2>2. in[SingleInput(row.engine)] \in Nat
    BY <1>1, <2>1 DEF OwnInputs
  <2> QED
    BY <1>4, <2>2 DEF Gross, in
<1> QED
  BY <1>2, <1>3, <1>4

-----------------------------------------------------------------------------
\* A further figure takes no input away and changes none that was not a stand-in.
LEMMA AnsweredInputs ==
    ASSUME NEW row, NEW sc, NEW more \in Scenarios, Extends(sc, more),
           NEW k \in Keys, Inputs(row, sc)[k] # Unknown
    PROVE  /\ Inputs(row, more)[k] # Unknown
           /\ k \notin Seeded(row.engine, sc, Converted(sc)) =>
                Inputs(row, more)[k] = Inputs(row, sc)[k]
<1>1. StandIn(k, more) = StandIn(k, sc) /\ more.source = sc.source
  BY DEF StandIn, Extends
<1>2. Converted(sc)[k] # Unknown \/ k \in Seeded(row.engine, sc, Converted(sc))
  BY KnownAfterSeeding DEF Inputs
<1>3. CASE Converted(sc)[k] # Unknown
  <2>1. Converted(more)[k] = Converted(sc)[k]
    BY <1>3 DEF Converted, Extends
  <2>2. /\ k \notin Seeded(row.engine, sc, Converted(sc))
        /\ k \notin Seeded(row.engine, more, Converted(more))
    BY <1>3, <2>1 DEF Seeded
  <2> QED
    BY <1>3, <2>1, <2>2 DEF Inputs, WithSeeds
<1>4. CASE k \in Seeded(row.engine, sc, Converted(sc))
  <2>1. Converted(more)[k] # Unknown \/ k \in Seeded(row.engine, more, Converted(more))
    BY <1>1, <1>4 DEF Seeded
  <2> QED
    BY <1>4, <2>1, KnownAfterSeeding DEF Inputs
<1> QED
  BY <1>2, <1>3, <1>4

\* The gross base grows with what it is computed from; the buckets of MULTI_BUCKET
\* are never seeded, so their sum stays.
LEMMA GrossGrows ==
    ASSUME NEW row \in Programmes, NEW sc \in Scenarios, NEW more \in Scenarios,
           HasBase(row, sc), HasBase(row, more),
           \A k \in Required(row) \cup OwnInputs(row.engine) :
              /\ Inputs(row, more)[k] <= Inputs(row, sc)[k]
              /\ row.engine = "MULTI_BUCKET" => Inputs(row, more)[k] = Inputs(row, sc)[k]
    PROVE  Gross(row, Inputs(row, more)) <= Gross(row, Inputs(row, sc))
<1> DEFINE in == Inputs(row, sc)
           also == Inputs(row, more)
<1>1. \A k \in Required(row) \cup OwnInputs(row.engine) : in[k] \in Nat /\ also[k] \in Nat
  BY Amounted, RequiredAreKeys, OwnInputsAreKeys DEF HasBase, Missing
<1>2. \A k \in Required(row) \cup OwnInputs(row.engine) :
          also[k] <= in[k] /\ (row.engine = "MULTI_BUCKET" => also[k] = in[k])
  OBVIOUS
<1>3. SUFFICES Gross(row, also) <= Gross(row, in)
  OBVIOUS
<1>4. Gross(row, in) \in Nat /\ Gross(row, also) \in Nat
  BY GrossIsAmount
<1> HIDE DEF in, also
<1>5. CASE row.engine = "MULTI_BUCKET"
  <2> DEFINE D == row.declared
  <2>1. D = Required(row)
    BY <1>5 DEF HasBase, Required
  <2>2. IsFiniteSet(D)
    BY KeysFinite, FS_Subset DEF Programmes
  <2>3. Gross(row, in) = Total(in, D)[D] /\ Gross(row, also) = Total(also, D)[D]
    BY <1>5 DEF Gross, FoldSet, MapThenFoldSet, Total, First
  <2>4. \A k \in D : in[k] = also[k] /\ in[k] \in Nat /\ also[k] \in Nat
    BY <1>1, <1>2, <1>5, <2>1
  <2> HIDE DEF D
  <2>5. /\ \A s \in SUBSET D : SumEq(Total(in, D), in, s)
        /\ \A s \in SUBSET D : SumEq(Total(also, D), also, s)
    BY <2>2, <2>4, TotalValues
  <2>6. Total(in, D)[D] = Total(also, D)[D]
    BY <2>2, <2>4, <2>5, SumsAgree
  <2> QED
    BY <1>4, <2>3, <2>6
<1>6. CASE row.engine = "CORE_LOWER_OF"
  <2>1. {LOCAL_CORE, GLOBAL_CORE} \subseteq OwnInputs(row.engine)
    BY <1>6 DEF OwnInputs, SINGLE_INPUT_ENGINES, SPEND_SEEDABLE_ENGINES
  <2>2. /\ in[LOCAL_CORE] \in Nat /\ in[GLOBAL_CORE] \in Nat
        /\ also[LOCAL_CORE] \in Nat /\ also[GLOBAL_CORE] \in Nat
        /\ also[LOCAL_CORE] <= in[LOCAL_CORE] /\ also[GLOBAL_CORE] <= in[GLOBAL_CORE]
    BY <1>1, <1>2, <2>1
  <2>3. CASE LimitApplies(row)
    <3>1. row.pct \in 1 .. 99
      BY <2>3 DEF LimitApplies
    <3>2. /\ Gross(row, in) = Smaller(in[LOCAL_CORE], Share(in[GLOBAL_CORE], row.pct))
          /\ Gross(row, also) = Smaller(also[LOCAL_CORE], Share(also[GLOBAL_CORE], row.pct))
      BY <1>6, <2>3 DEF Gross
    <3>3. /\ Share(in[GLOBAL_CORE], row.pct) \in Nat /\ Share(also[GLOBAL_CORE], row.pct) \in Nat
          /\ Share(also[GLOBAL_CORE], row.pct) <= Share(in[GLOBAL_CORE], row.pct)
      BY <2>2, <3>1, ShareType, ShareGrows
    <3> QED
      BY <2>2, <3>2, <3>3 DEF Smaller
  <2>4. CASE ~LimitApplies(row)
    BY <1>6, <2>2, <2>4 DEF Gross
  <2> QED
    BY <2>3, <2>4
<1>7. CASE row.engine \notin {"MULTI_BUCKET", "CORE_LOWER_OF"}
  <2>1. row.engine \in SINGLE_INPUT_ENGINES
    BY <1>7 DEF HasBase, Programmes, Engines
  <2>2. SingleInput(row.engine) \in OwnInputs(row.engine)
    BY <2>1 DEF OwnInputs
  <2>3. Gross(row, in) = in[SingleInput(row.engine)] /\ Gross(row, also) = also[SingleInput(row.engine)]
    BY <1>7 DEF Gross
  <2> QED
    BY <1>2, <2>2, <2>3
<1> QED
  BY <1>5, <1>6, <1>7

\* Nor do the limits turn a smaller gross base into a larger one.
LEMMA LimitsGrow ==
    ASSUME NEW row \in Programmes, Unknown \notin Nat, NEW sc, NEW more,
           Gross(row, Inputs(row, sc)) \in Nat, Gross(row, Inputs(row, more)) \in Nat,
           Gross(row, Inputs(row, more)) <= Gross(row, Inputs(row, sc))
    PROVE  Base(row, more) <= Base(row, sc)
<1> DEFINE Limited(gross) == IF LimitApplies(row) /\ row.engine # "CORE_LOWER_OF"
                               THEN Share(gross, row.pct) ELSE gross
           Capped(a) == IF row.cap # Unknown /\ row.cap > 0 THEN Smaller(a, row.cap) ELSE a
<1> DEFINE a == Gross(row, Inputs(row, more))
           b == Gross(row, Inputs(row, sc))
<1>1. Base(row, more) = Capped(Limited(a)) /\ Base(row, sc) = Capped(Limited(b))
  BY DEF Base
<1>2. a \in Nat /\ b \in Nat /\ a <= b
  OBVIOUS
<1> HIDE DEF a, b
<1>3. LimitApplies(row) => row.pct \in 1 .. 99
  BY DEF LimitApplies
<1>4. Limited(a) \in Nat /\ Limited(b) \in Nat /\ Limited(a) <= Limited(b)
  BY <1>2, <1>3, ShareType, ShareGrows
<1>5. row.cap # Unknown => row.cap \in Nat
  BY DEF Programmes, Amounts
<1> HIDE DEF Limited
<1>6. Capped(Limited(a)) <= Capped(Limited(b))
  BY <1>4, <1>5 DEF Smaller
<1> QED
  BY <1>1, <1>6

\* Filling in one more statutory figure never costs a producer the base, and never
\* raises it where the figure is no more than what stood in for it: for every
\* programme, entry, amount, percentage and cap, and any number of buckets.
THEOREM AnswersCountAlways ==
    ASSUME NEW row \in Programmes, NEW sc \in Scenarios, NEW more \in Scenarios,
           Unknown \notin Nat
    PROVE  AnswersCount(row, sc, more)
<1> SUFFICES ASSUME Extends(sc, more), HasBase(row, sc)
             PROVE  /\ HasBase(row, more)
                    /\ (\A k \in Seeded(row.engine, sc, Converted(sc)) :
                           Inputs(row, more)[k] <= Inputs(row, sc)[k])
                       => Base(row, more) <= Base(row, sc)
  BY DEF AnswersCount
<1> DEFINE Used == Required(row) \cup OwnInputs(row.engine)
<1>1. Used \subseteq Keys
  BY RequiredAreKeys, OwnInputsAreKeys
<1>2. \A k \in Used : Inputs(row, sc)[k] # Unknown
  BY DEF HasBase, Missing
<1>3. \A k \in Used : /\ Inputs(row, more)[k] # Unknown
                      /\ k \notin Seeded(row.engine, sc, Converted(sc)) =>
                           Inputs(row, more)[k] = Inputs(row, sc)[k]
  BY <1>1, <1>2, AnsweredInputs
<1>4. HasBase(row, more)
  BY <1>3 DEF HasBase, Missing, Extends
<1>5. ASSUME \A k \in Seeded(row.engine, sc, Converted(sc)) :
                Inputs(row, more)[k] <= Inputs(row, sc)[k]
      PROVE  Base(row, more) <= Base(row, sc)
  <2>1. \A k \in Used : Inputs(row, sc)[k] \in Nat
    BY <1>1, <1>2, Amounted
  <2>2. \A k \in Used : Inputs(row, more)[k] <= Inputs(row, sc)[k]
    BY <1>3, <1>5, <2>1
  <2>3. row.engine = "MULTI_BUCKET" => Seeded(row.engine, sc, Converted(sc)) = {}
    BY DEF Seeded, SeedKeys, SPEND_SEEDABLE_ENGINES
  <2>4. Gross(row, Inputs(row, more)) <= Gross(row, Inputs(row, sc))
    BY <1>3, <1>4, <2>2, <2>3, GrossGrows
  <2> QED
    BY <1>4, <2>4, GrossIsAmount, LimitsGrow
<1> QED
  BY <1>4, <1>5
=============================================================================
