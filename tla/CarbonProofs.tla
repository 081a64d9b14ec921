---------------------------- MODULE CarbonProofs ----------------------------
(***************************************************************************)
(* What holds of Carbon for every set of calculations: at each point the   *)
(* variables hold what the steps so far calculate (Stepwise), and the rest *)
(* is what the sums and the lookups of one calculation come to.            *)
(***************************************************************************)
EXTENDS Carbon, SumTheorems

\* The intensity, the energies' footprints and the materials' footprints of the
\* calculation.
Chosen ==
  IF input.flow = "mes" THEN MesIntensity(input.cfg) ELSE AasIntensity(input.cfg, input.grid)

Billed ==
  IF input.flow = "mes" THEN [p \in {1} |-> Footprint(input.energies, intensity)] ELSE AasBill

AllCharged == Breakdown(Aggregated, FootprintMap(input.sigreen, DOMAIN Aggregated))
Charged ==
  IF ~WithBom THEN None0
  ELSE IF input.flow = "mes" THEN StoredBreakdown(AllCharged) ELSE AllCharged

\* The inductive invariant: what has been calculated when.
Stepwise ==
  /\ input \in Inputs
  /\ pc \in {"intensity", "energy", "refused", "materials", "report", "done"}
  /\ intensity = IF pc = "intensity" THEN 0 ELSE Chosen
  /\ bill = IF pc \in {"intensity", "energy"} THEN None0 ELSE Billed
  /\ materials = IF pc \in {"report", "done"} THEN Charged ELSE None0
  /\ report = IF pc = "done"
              THEN [total |-> Total(bill, materials, input.idle),
                    lines |-> Lines(bill, materials, input.idle)]
              ELSE Unwritten
  /\ pc = "refused" => input.flow = "aas" /\ SumFunction(AasBill) <= 0

\* Nothing has been calculated at the start.
LEMMA InitStepwise == Init => Stepwise
  BY DEF Init, Stepwise

\* A step calculates one thing more, from what it finds.
LEMMA NextStepwise == Stepwise /\ [Next]_vars => Stepwise'
  <1> SUFFICES ASSUME Stepwise, [Next]_vars PROVE Stepwise'
    OBVIOUS
  <1>1. CASE Intensity
    BY <1>1 DEF Intensity, Stepwise, Chosen
  <1>2. CASE EnergyMes
    BY <1>2 DEF EnergyMes, Stepwise, Chosen, Billed
  <1>3. CASE EnergyAas
    <2>1. AasBill' = AasBill /\ Chosen' = Chosen
      BY <1>3 DEF EnergyAas, AasBill, Chosen
    <2>2. Billed' = AasBill
      BY <1>3, <2>1 DEF EnergyAas, Billed, CarbonAssumption
    <2> QED
      BY <1>3, <2>1, <2>2 DEF EnergyAas, Stepwise
  <1>4. CASE Materials
    <2>1. Chosen' = Chosen /\ Billed' = Billed /\ Charged' = Charged
      BY <1>4 DEF Materials, Chosen, Billed, AasBill, Charged, AllCharged, Aggregated, Entries, WithBom
    <2>2. materials' = Charged
      BY <1>4 DEF Materials, Charged, AllCharged
    <2> QED
      BY <1>4, <2>1, <2>2 DEF Materials, Stepwise
  <1>5. CASE Build
    <2>1. Chosen' = Chosen /\ Billed' = Billed /\ Charged' = Charged
      BY <1>5 DEF Build, Chosen, Billed, AasBill, Charged, AllCharged, Aggregated, Entries, WithBom
    <2> QED
      BY <1>5, <2>1 DEF Build, Stepwise
  <1>6. CASE UNCHANGED vars
    <2>1. Chosen' = Chosen /\ Billed' = Billed /\ Charged' = Charged /\ AasBill' = AasBill
      BY <1>6 DEF vars, Chosen, Billed, AasBill, Charged, AllCharged, Aggregated, Entries, WithBom
    <2> QED
      BY <1>6, <2>1 DEF vars, Stepwise
  <1> QED
    BY <1>1, <1>2, <1>3, <1>4, <1>5, <1>6 DEF Next

\* So it is in every reachable state.
LEMMA AlwaysStepwise == Spec => []Stepwise
  BY InitStepwise, NextStepwise, PTL DEF Spec

-----------------------------------------------------------------------------
(* One calculation's numbers *)

\* The positions of a sequence are a finite set of numbers.
LEMMA Positions ==
  ASSUME NEW R, NEW q \in Seq(R)
  PROVE  /\ Len(q) \in Nat /\ DOMAIN q = 1 .. Len(q) /\ IsFiniteSet(DOMAIN q)
         /\ \A i \in DOMAIN q : q[i] \in R
  <1>1. Len(q) \in Nat /\ DOMAIN q = 1 .. Len(q) /\ \A i \in DOMAIN q : q[i] \in R
    OBVIOUS
  <1> QED BY <1>1, IntervalTo

\* The intensity is a natural number.
LEMMA ChosenIsNat == input \in Inputs => Chosen \in Nat
  <1> SUFFICES ASSUME input \in Inputs PROVE Chosen \in Nat
    OBVIOUS
  <1>1. IsInput(input) /\ Default \in Nat
    BY CarbonAssumption
  <1>2. input.cfg.constant \in {None} \cup Nat
    BY <1>1 DEF IsInput
  <1>3. input.grid # None => Average(input.grid) \in Nat
    <2> SUFFICES ASSUME input.grid # None PROVE Average(input.grid) \in Nat
      OBVIOUS
    <2>1. input.grid \in Seq(Nat)
      BY <1>1 DEF IsInput
    <2>2. IsFiniteSet(DOMAIN input.grid) /\ \A i \in DOMAIN input.grid : input.grid[i] \in Nat
      BY <2>1, Positions
    <2>3. Summable(input.grid) /\ \A i \in DOMAIN input.grid : input.grid[i] >= 0
      BY <2>2 DEF Summable
    <2>4. SumFunction(input.grid) \in Nat
      BY <2>3, SumNat
    <2>5. CASE input.grid = <<>>
      BY <2>5 DEF Average
    <2>6. CASE input.grid # <<>>
      <3>1. Len(input.grid) \in Nat \ {0}
        BY <2>1, <2>6
      <3>2. SumFunction(input.grid) \div Len(input.grid) \in Nat
        BY <2>4, <3>1
      <3> QED BY <2>6, <3>2 DEF Average
    <2> QED BY <2>5, <2>6
  <1> QED
    BY <1>1, <1>2, <1>3 DEF Chosen, MesIntensity, AasIntensity, Zeroish

\* What is read of the energies of a shell is an integer.
LEMMA KwhIsInt == ASSUME NEW e \in Energy PROVE Kwh(e) \in Int
  <1>1. e.amount \in {None} \cup Int /\ e.series \in Seq(Int)
    BY DEF Energy
  <1>2. Summable(e.series)
    BY <1>1, Positions DEF Summable
  <1>3. SumFunction(e.series) \in Int
    BY <1>2, SumInt
  <1> QED BY <1>1, <1>3 DEF Kwh

\* The energies of a calculation.
LEMMA EnergiesAre ==
  ASSUME input \in Inputs
  PROVE  /\ IsFiniteSet(DOMAIN input.energies)
         /\ \A i \in DOMAIN input.energies : input.energies[i] \in Energy
         /\ input.flow = "mes" => \A i \in DOMAIN input.energies : input.energies[i].amount \in Int
  <1>1. /\ input.energies \in Seq(Energy)
        /\ input.flow = "mes" => \A k \in DOMAIN input.energies : input.energies[k].amount # None
    BY CarbonAssumption DEF IsInput
  <1>2. \A e \in Energy : e.amount \in {None} \cup Int
    BY DEF Energy
  <1> QED BY <1>1, <1>2, Positions

\* The footprints of the energies of an operation can be added up.
Footprints(es, g) == [i \in DOMAIN es |-> es[i].amount * Factor(es[i]) * g]

\* They are integers.
LEMMA FootprintsAreSummable ==
  ASSUME input \in Inputs, input.flow = "mes", NEW g \in Nat
  PROVE  Summable(Footprints(input.energies, g))
  <1>1. \A e : Factor(e) \in Int
    BY DEF Factor
  <1> QED BY <1>1, EnergiesAre DEF Summable, Footprints

\* The bill is of integers, natural numbers for a shell.
LEMMA BilledIsInt ==
  ASSUME input \in Inputs, intensity \in Nat
  PROVE  /\ Summable(Billed)
         /\ input.flow = "aas" => Summable(AasBill) /\ \A p \in DOMAIN AasBill : AasBill[p] >= 0
  <1>1. CASE input.flow = "mes"
    <2>1. SumFunction(Footprints(input.energies, intensity)) \in Int
      BY <1>1, FootprintsAreSummable, SumInt
    <2>2. Footprint(input.energies, intensity) \in Int
      BY <2>1 DEF Footprint, Footprints
    <2>3. IsFiniteSet({1})
      BY FS_Singleton
    <2> QED BY <1>1, <2>2, <2>3 DEF Billed, Summable
  <1>2. CASE input.flow # "mes"
    <2>1. IsFiniteSet(DOMAIN AasBill)
      BY EnergiesAre DEF AasBill
    <2>2. ASSUME NEW p \in DOMAIN AasBill PROVE AasBill[p] \in Nat
      <3>1. Kwh(input.energies[p]) \in Int
        BY EnergiesAre, KwhIsInt DEF AasBill
      <3>2. Positive(Kwh(input.energies[p])) \in Nat
        BY <3>1 DEF Positive
      <3>3. \A k \in Nat : 100 * k * intensity \in Nat
        OBVIOUS
      <3> QED BY <3>2, <3>3 DEF AasBill
    <2> QED BY <1>2, <2>1, <2>2 DEF Billed, Summable
  <1> QED BY <1>1, <1>2
\* The materials are finitely many identifiers, each with a quantity.
LEMMA AggregatedIsInt ==
  ASSUME input \in Inputs
  PROVE  /\ Aggregated = [x \in DOMAIN Aggregated |-> Aggregated[x]]
         /\ DOMAIN Aggregated \subseteq Ident /\ Summable(Aggregated)
  <1> DEFINE E == input.entries
             f == [i \in DOMAIN E |-> E[i].name]
             I == {f[i] : i \in DOMAIN E}
  <1>2. /\ IsFiniteSet(DOMAIN E)
        /\ \A i \in DOMAIN E : E[i].name \in Ident /\ E[i].quantity \in Int
    <2> DEFINE R == [name : Ident, quantity : Int]
    <2>1. E \in Seq(R)
      BY CarbonAssumption DEF IsInput
    <2>2. \A r \in R : r.name \in Ident /\ r.quantity \in Int
      OBVIOUS
    <2> HIDE DEF R
    <2> QED BY <2>1, <2>2, Positions
  <1>3. IsFiniteSet(I)
    <2> HIDE DEF f
    <2> QED BY <1>2, ImageIsFinite
  <1>4. DOMAIN Aggregated \subseteq I /\ DOMAIN Aggregated \subseteq Ident
    BY DEF Aggregated, Entries
  <1>5. IsFiniteSet(DOMAIN Aggregated)
    <2> HIDE DEF I
    <2> QED BY <1>3, <1>4, FS_Subset
  <1>6. ASSUME NEW x \in DOMAIN Aggregated PROVE Aggregated[x] \in Int
    <2> DEFINE q == [i \in Entries(x) |-> E[i].quantity]
    <2>1. Entries(x) \subseteq DOMAIN E
      BY DEF Entries
    <2>2. IsFiniteSet(Entries(x)) /\ \A i \in Entries(x) : E[i].quantity \in Int
      BY <1>2, <2>1, FS_Subset
    <2>3. Summable(q)
      BY <2>2 DEF Summable
    <2>4. SumFunction(q) \in Int
      BY <2>3, SumInt
    <2>5. Aggregated[x] = SumFunction(q)
      BY <1>6 DEF Aggregated
    <2> QED BY <2>4, <2>5
  <1>7. Aggregated = [x \in DOMAIN Aggregated |-> Aggregated[x]]
    BY DEF Aggregated
  <1> QED BY <1>4, <1>5, <1>6, <1>7 DEF Summable

-----------------------------------------------------------------------------
(* SiGREEN's answers *)

\* A non-empty set of positions has a first.
LEMMA FirstIs ==
  ASSUME NEW n \in Nat, NEW S \in SUBSET (1 .. n), S # {}
  PROVE  Least(S) \in S /\ \A j \in S : Least(S) <= j
  <1>1. S \in SUBSET (0 .. n)
    OBVIOUS
  <1>2. \E m \in S : \A k \in S : m <= k
    BY <1>1, LeastNumber
  <1> QED BY <1>2 DEF Least

\* Of finitely many integers one is highest.
LEMMA HighestExists ==
  ASSUME NEW S, IsFiniteSet(S), S # {}, NEW f, \A i \in S : f[i] \in Int
  PROVE  \E i \in S : \A j \in S : f[i] >= f[j]
  <1> DEFINE T == {s \in SUBSET S : s = {} \/ \E i \in s : \A j \in s : f[i] >= f[j]}
  <1>1. {} \in T
    OBVIOUS
  <1>2. ASSUME NEW s \in SUBSET S, NEW x \in S, x \notin s, s \in T
        PROVE  With(s, x) \in T
    <2>1. With(s, x) \in SUBSET S /\ With(s, x) = s \cup {x}
      BY DEF With
    <2>2. \E i \in s \cup {x} : \A j \in s \cup {x} : f[i] >= f[j]
      <3>1. CASE s = {}
        BY <3>1
      <3>2. CASE s # {}
        <4>1. PICK i \in s : \A j \in s : f[i] >= f[j]
          BY <1>2, <3>2
        <4>2. CASE f[i] >= f[x]
          BY <4>1, <4>2
        <4>3. CASE ~(f[i] >= f[x])
          <5>1. f[i] \in Int /\ f[x] \in Int /\ \A j \in s : f[j] \in Int
            OBVIOUS
          <5>2. \A j \in s \cup {x} : f[x] >= f[j]
            BY <4>1, <4>3, <5>1
          <5> QED BY <5>2
        <4> QED BY <4>2, <4>3
      <3> QED BY <3>1, <3>2
    <2> QED BY <2>1, <2>2
  <1>3. S \in T
    <2> HIDE DEF T
    <2> QED BY <1>1, <1>2, FiniteInduction
  <1> QED BY <1>3

\* An item with a stage has a footprint per unit.
LEMMA PerUnitIsInt ==
  ASSUME NEW i, i.production \in Stage, i.distribution \in Stage, i.quantity \in {None} \cup Nat
  PROVE  PerUnit(i) \in Int
  <1>1. ASSUME NEW t \in Stage PROVE Value(t) \in Int
    BY DEF Value, Stage
  <1>2. Quantity(i) \in Nat \ {0}
    BY DEF Quantity
  <1>3. Value(i.production) + Value(i.distribution) \in Int
    BY <1>1
  <1>4. \A a \in Int : \A b \in Nat \ {0} : a \div b \in Int
    OBVIOUS
  <1> QED BY <1>2, <1>3, <1>4 DEF PerUnit

\* A component that is found carries the identifier; none is found only if none
\* carries it, or if the list of all components could not be read.
LEMMA ComponentIs ==
  ASSUME NEW s, IsSiGREEN(s), NEW x
  PROVE  \/ \E i \in Named(s, x) : /\ Component(s, x) = s.components[i].id
                                   /\ Component(s, x) \in DOMAIN s.secondary
         \/ Component(s, x) = None /\ ("all" \in s.failing \/ Named(s, x) = {})
  <1> DEFINE found == {k \in DOMAIN IdTypes : Hits(s, IdTypes[k], x) # {}}
  <1>1. /\ Len(s.components) \in Nat /\ DOMAIN s.components = 1 .. Len(s.components)
        /\ \A i \in DOMAIN s.components : s.components[i].id \in DOMAIN s.secondary
    <2> DEFINE R == [id : DOMAIN s.secondary, names : SUBSET (STRING \X Ident)]
    <2>1. s.components \in Seq(R)
      BY DEF IsSiGREEN
    <2>2. \A r \in R : r.id \in DOMAIN s.secondary
      OBVIOUS
    <2> HIDE DEF R
    <2> QED BY <2>1, <2>2, Positions
  <1>2. Named(s, x) \in SUBSET (1 .. Len(s.components))
    BY <1>1 DEF Named
  <1>3. CASE found # {}
    <2>1. Len(IdTypes) \in Nat /\ DOMAIN IdTypes = 1 .. Len(IdTypes)
      BY LookupAssumption
    <2>2. Least(found) \in found
      <3>1. found \in SUBSET (1 .. Len(IdTypes))
        BY <2>1
      <3> HIDE DEF found
      <3> QED BY <1>3, <2>1, <3>1, FirstIs
    <2> DEFINE H == Hits(s, IdTypes[Least(found)], x)
    <2>3. H # {} /\ H \subseteq Named(s, x)
      BY <2>2 DEF Hits
    <2>4. H \in SUBSET (1 .. Len(s.components))
      BY <1>2, <2>3
    <2>5. Component(s, x) = s.components[Least(H)].id
      BY <1>3 DEF Component
    <2>6. Least(H) \in H
      <3> HIDE DEF H
      <3> QED BY <1>1, <2>3, <2>4, FirstIs
    <2> HIDE DEF H
    <2> QED BY <1>1, <1>2, <2>3, <2>5, <2>6
  <1>4. CASE found = {} /\ ("all" \in s.failing \/ Named(s, x) = {})
    BY <1>4 DEF Component
  <1>5. CASE found = {} /\ ~("all" \in s.failing \/ Named(s, x) = {})
    <2>1. Component(s, x) = s.components[Least(Named(s, x))].id
      BY <1>5 DEF Component
    <2>2. Least(Named(s, x)) \in Named(s, x)
      BY <1>1, <1>2, <1>5, FirstIs
    <2> QED BY <1>1, <1>2, <2>1, <2>2
  <1> QED BY <1>3, <1>4, <1>5

\* The secondary data of a component, and the shared data.
LEMMA ItemsAre ==
  ASSUME NEW s, IsSiGREEN(s)
  PROVE  /\ \A c \in DOMAIN s.secondary :
              /\ IsFiniteSet(DOMAIN s.secondary[c])
              /\ \A i \in DOMAIN s.secondary[c] : PerUnit(s.secondary[c][i]) \in Int
         /\ Len(s.pcfData) \in Nat /\ DOMAIN s.pcfData = 1 .. Len(s.pcfData)
         /\ \A i \in DOMAIN s.pcfData : /\ PerUnit(s.pcfData[i]) \in Int
                                        /\ s.pcfData[i].top \in {None, Broken} \cup Int
  <1>1. ASSUME NEW c \in DOMAIN s.secondary
        PROVE  /\ IsFiniteSet(DOMAIN s.secondary[c])
               /\ \A i \in DOMAIN s.secondary[c] : PerUnit(s.secondary[c][i]) \in Int
    <2> DEFINE R == [production : Stage, distribution : Stage, quantity : {None} \cup Nat]
    <2>1. s.secondary[c] \in Seq(R)
      BY DEF IsSiGREEN
    <2>2. \A i \in R : PerUnit(i) \in Int
      BY PerUnitIsInt
    <2> HIDE DEF R
    <2> QED BY <2>1, <2>2, Positions
  <1>2. /\ Len(s.pcfData) \in Nat /\ DOMAIN s.pcfData = 1 .. Len(s.pcfData)
        /\ \A i \in DOMAIN s.pcfData : /\ PerUnit(s.pcfData[i]) \in Int
                                       /\ s.pcfData[i].top \in {None, Broken} \cup Int
    <2> DEFINE R == [component : DOMAIN s.secondary \cup {Broken}, production : Stage,
                     distribution : Stage, quantity : {None} \cup Nat,
                     top : {None, Broken} \cup Int]
    <2>1. s.pcfData \in Seq(R)
      BY DEF IsSiGREEN
    <2>2. \A i \in R : PerUnit(i) \in Int
      BY PerUnitIsInt
    <2>3. \A i \in R : i.top \in {None, Broken} \cup Int
      OBVIOUS
    <2> HIDE DEF R
    <2> QED BY <2>1, <2>2, <2>3, Positions
  <1> QED BY <1>1, <1>2

\* The best secondary item has the highest footprint of those with a stage.
LEMMA BestIs ==
  ASSUME NEW s, IsSiGREEN(s), NEW c \in DOMAIN s.secondary
  PROVE  \/ Best(s.secondary[c]) = None /\ Known(s, c) = {}
         \/ /\ Best(s.secondary[c]) \in Known(s, c) /\ Best(s.secondary[c]) \in Int
            /\ \A v \in Known(s, c) : Best(s.secondary[c]) >= v
  <1> DEFINE items == s.secondary[c]
             staged == {i \in DOMAIN items : Staged(items[i])}
             f == [i \in staged |-> PerUnit(items[i])]
  <1>1. IsFiniteSet(staged) /\ \A i \in staged : PerUnit(items[i]) \in Int
    BY ItemsAre, FS_Subset
  <1>2. Known(s, c) = {PerUnit(items[i]) : i \in staged}
    BY DEF Known
  <1>3. CASE staged = {}
    BY <1>2, <1>3 DEF Best
  <1>4. CASE staged # {}
    <2>1. \E i \in staged : \A j \in staged : f[i] >= f[j]
      <3>1. \A i \in staged : f[i] \in Int
        BY <1>1
      <3> HIDE DEF f, staged
      <3> QED BY <1>1, <1>4, <3>1, HighestExists
    <2>2. \E i \in staged : \A j \in staged : PerUnit(items[i]) >= PerUnit(items[j])
      BY <2>1
    <2> DEFINE b == CHOOSE i \in staged : \A j \in staged : PerUnit(items[i]) >= PerUnit(items[j])
    <2>3. b \in staged /\ \A j \in staged : PerUnit(items[b]) >= PerUnit(items[j])
      BY <2>2
    <2>4. Best(items) = PerUnit(items[b])
      BY <1>4 DEF Best
    <2> HIDE DEF b, staged
    <2> QED BY <1>1, <1>2, <2>3, <2>4
  <1> QED BY <1>3, <1>4

\* The shared data gives one of the footprints that it offers for the component,
\* or says nothing that can be read of it.
LEMMA SharedIs ==
  ASSUME NEW s, IsSiGREEN(s), NEW c
  PROVE  \/ Shared(s, c) \in Offered(s, c) /\ Shared(s, c) \in Int
         \/ /\ Shared(s, c) = None
            /\ \/ "pcfData" \in s.failing
               \/ Offered(s, c) \subseteq {None} \/ Unreadable(s, c)
  <1> DEFINE D == s.pcfData
             deciding == {i \in DOMAIN D : Decides(D[i], c)}
             first == D[Least(deciding)]
  <1>1. CASE "pcfData" \in s.failing
    BY <1>1 DEF Shared
  <1>2. CASE "pcfData" \notin s.failing /\ deciding = {}
    <2>1. Shared(s, c) = None
      BY <1>2 DEF Shared
    <2>2. Offered(s, c) \subseteq {None}
      BY <1>2 DEF Offered, Decides
    <2> QED BY <2>1, <2>2
  <1>3. CASE "pcfData" \notin s.failing /\ deciding # {}
    <2>1. Least(deciding) \in deciding
      <3>1. Len(D) \in Nat /\ deciding \in SUBSET (1 .. Len(D))
        BY ItemsAre
      <3> HIDE DEF deciding
      <3> QED BY <1>3, <3>1, FirstIs
    <2>2. Shared(s, c) = IF first.component = Broken THEN None
                         ELSE IF Staged(first) THEN PerUnit(first)
                         ELSE IF first.top = Broken THEN None ELSE first.top
      BY <1>3 DEF Shared
    <2> DEFINE n == Least(deciding)
    <2>3. /\ n \in DOMAIN D /\ Decides(D[n], c)
          /\ Shared(s, c) = IF D[n].component = Broken THEN None
                            ELSE IF Staged(D[n]) THEN PerUnit(D[n])
                            ELSE IF D[n].top = Broken THEN None ELSE D[n].top
      BY <2>1, <2>2
    <2> HIDE DEF n
    <2>4. PerUnit(D[n]) \in Int /\ D[n].top \in {None, Broken} \cup Int
      BY <2>3, ItemsAre
    <2>7. CASE D[n].component = Broken
      BY <2>3, <2>7 DEF Unreadable
    <2>8. ASSUME D[n].component # Broken PROVE D[n].component = c /\ (Staged(D[n]) \/ D[n].top # None)
      BY <2>3, <2>8 DEF Decides
    <2>5. CASE D[n].component # Broken /\ Staged(D[n])
      <3>1. PerUnit(D[n]) \in Offered(s, c)
        BY <2>3, <2>5, <2>8 DEF Offered
      <3> QED BY <2>3, <2>4, <2>5, <3>1
    <2>6. CASE D[n].component # Broken /\ ~Staged(D[n])
      <3>1. D[n].top \in Offered(s, c)
        BY <2>3, <2>6, <2>8 DEF Offered
      <3>2. CASE D[n].top = Broken
        BY <2>3, <2>6, <2>8, <3>2 DEF Unreadable
      <3>3. CASE D[n].top # Broken
        BY <2>3, <2>4, <2>6, <2>8, <3>1, <3>3
      <3> QED BY <3>2, <3>3
    <2> QED BY <2>5, <2>6, <2>7
  <1> QED BY <1>1, <1>2, <1>3

\* What a lookup gives, and why it gives nothing.
LEMMA UnitFootprintIs ==
  ASSUME NEW s, IsSiGREEN(s), NEW x
  PROVE  \/ /\ UnitFootprint(s, x) \in Int
            /\ \E i \in Named(s, x) : UnitFootprint(s, x) \in Values(s, s.components[i].id)
         \/ /\ UnitFootprint(s, x) = None
            /\ \/ {"all", "secondary", "pcfData"} \cap s.failing # {}
               \/ Named(s, x) = {}
               \/ \E i \in Named(s, x) : Silent(s, s.components[i].id)
  <1> DEFINE id == Component(s, x)
  <1>0. None \notin Int /\ Broken \notin Int /\ None \notin DOMAIN s.secondary
    BY LookupAssumption DEF IsSiGREEN
  <1>1. CASE id = None
    <2>1. UnitFootprint(s, x) = None
      BY <1>1 DEF UnitFootprint
    <2>2. "all" \in s.failing \/ Named(s, x) = {}
      BY <1>0, <1>1, ComponentIs
    <2> QED BY <2>1, <2>2
  <1>2. CASE id # None
    <2>1. PICK i \in Named(s, x) : id = s.components[i].id /\ id \in DOMAIN s.secondary
      BY <1>2, ComponentIs
    <2>2. CASE "secondary" \in s.failing
      BY <1>2, <2>2 DEF UnitFootprint
    <2>3. CASE "secondary" \notin s.failing /\ s.secondary[id] = <<>>
      <3>1. UnitFootprint(s, x) = Shared(s, id)
        BY <1>2, <2>3 DEF UnitFootprint
      <3>2. /\ Values(s, id) = Offered(s, id) \ {None, Broken}
            /\ Silent(s, id) <=> Offered(s, id) \subseteq {None} \/ Unreadable(s, id)
        BY <2>3 DEF Values, Silent
      <3> HIDE DEF id
      <3>3. \/ Shared(s, id) \in Offered(s, id) /\ Shared(s, id) \in Int
            \/ /\ Shared(s, id) = None
               /\ \/ "pcfData" \in s.failing
                  \/ Offered(s, id) \subseteq {None} \/ Unreadable(s, id)
        BY SharedIs
      <3>4. CASE Shared(s, id) \in Offered(s, id) /\ Shared(s, id) \in Int
        <4>1. UnitFootprint(s, x) \in Values(s, id)
          BY <1>0, <3>1, <3>2, <3>4
        <4> QED BY <2>1, <3>1, <3>4, <4>1
      <3>5. CASE Shared(s, id) = None /\ "pcfData" \in s.failing
        BY <3>1, <3>5
      <3>6. CASE /\ Shared(s, id) = None
                 /\ \/ Offered(s, id) \subseteq {None}
                    \/ Unreadable(s, id)
        BY <2>1, <3>1, <3>2, <3>6
      <3> QED BY <3>3, <3>4, <3>5, <3>6
    <2>4. CASE "secondary" \notin s.failing /\ s.secondary[id] # <<>>
      <3>1. UnitFootprint(s, x) = Best(s.secondary[id])
        BY <1>2, <2>4 DEF UnitFootprint
      <3>2. /\ Values(s, id) = {u \in Known(s, id) : \A v \in Known(s, id) : u >= v} \ {None, Broken}
            /\ Silent(s, id) <=> Known(s, id) = {}
        BY <2>4 DEF Values, Silent
      <3> HIDE DEF id
      <3>3. CASE Best(s.secondary[id]) = None /\ Known(s, id) = {}
        BY <2>1, <3>1, <3>2, <3>3
      <3>4. CASE /\ Best(s.secondary[id]) \in Known(s, id) /\ Best(s.secondary[id]) \in Int
                 /\ \A v \in Known(s, id) : Best(s.secondary[id]) >= v
        <4>1. UnitFootprint(s, x) \in Values(s, id)
          BY <1>0, <3>1, <3>2, <3>4
        <4> QED BY <2>1, <3>1, <3>4, <4>1
      <3> QED BY <2>1, <3>3, <3>4, BestIs
    <2> QED BY <2>2, <2>3, <2>4
  <1> QED BY <1>1, <1>2
-----------------------------------------------------------------------------
(* Why a shell is refused *)

\* An intensity of 0 was configured, or is what the grid's service came to.
LEMMA ZeroIntensity ==
  ASSUME input \in Inputs, input.flow = "aas", Chosen = 0
  PROVE  \/ input.cfg.source = "constant" /\ input.cfg.constant = 0
         \/ /\ input.cfg.source = "grid"
            /\ input.grid = None \/ \A i \in DOMAIN input.grid : input.grid[i] = 0
  <1>1. IsInput(input) /\ Default # 0
    BY CarbonAssumption
  <1>2. CASE input.cfg.source # "grid"
    BY <1>1, <1>2 DEF IsInput, Chosen, AasIntensity
  <1>3. CASE input.cfg.source = "grid" /\ input.grid # None
    <2>1. Average(input.grid) = 0
      BY <1>3 DEF Chosen, AasIntensity
    <2>2. /\ input.grid \in Seq(Nat)
          /\ SumFunction(input.grid) = Len(input.grid) * Average(input.grid)
      BY <1>1, <1>3 DEF IsInput
    <2>3. SumFunction(input.grid) = 0
      <3>1. Len(input.grid) \in Nat
        BY <2>2
      <3> QED BY <2>1, <2>2, <3>1
    <2>4. IsFiniteSet(DOMAIN input.grid) /\ \A i \in DOMAIN input.grid : input.grid[i] \in Nat
      BY <2>2, Positions
    <2>5. Summable(input.grid) /\ \A i \in DOMAIN input.grid : input.grid[i] >= 0
      BY <2>4 DEF Summable
    <2>6. \A i \in DOMAIN input.grid : input.grid[i] <= 0
      BY <2>3, <2>5, SumNat
    <2>7. \A i \in DOMAIN input.grid : input.grid[i] = 0
      BY <2>4, <2>6
    <2> QED BY <1>3, <2>7
  <1>4. CASE input.cfg.source = "grid" /\ input.grid = None
    BY <1>4
  <1> QED BY <1>2, <1>3, <1>4

\* A refused shell has a reason.
LEMMA RefusalHasAReason == Stepwise => RefusedForAReason
  <1> SUFFICES ASSUME Stepwise, pc = "refused", intensity # 0,
                      NEW p \in DOMAIN input.energies
               PROVE  Kwh(input.energies[p]) <= 0
    BY ZeroIntensity DEF Stepwise, RefusedForAReason, GridSilent
  <1>1. input \in Inputs /\ input.flow = "aas" /\ intensity = Chosen /\ SumFunction(AasBill) <= 0
    BY DEF Stepwise
  <1>2. intensity \in Nat \ {0}
    BY <1>1, ChosenIsNat
  <1>3. Summable(AasBill) /\ \A q \in DOMAIN AasBill : AasBill[q] >= 0
    BY <1>1, <1>2, BilledIsInt
  <1>4. SumFunction(AasBill) \in Nat /\ \A q \in DOMAIN AasBill : AasBill[q] <= SumFunction(AasBill)
    BY <1>3, SumNat
  <1>5. p \in DOMAIN AasBill /\ AasBill[p] = 100 * Positive(Kwh(input.energies[p])) * intensity
    BY DEF AasBill
  <1>6. AasBill[p] \in Int
    BY <1>3, <1>5 DEF Summable
  <1>7. AasBill[p] <= 0
    BY <1>1, <1>4, <1>5, <1>6
  <1>8. Kwh(input.energies[p]) \in Int
    BY <1>1, EnergiesAre, KwhIsInt
  <1>9. ASSUME Kwh(input.energies[p]) > 0 PROVE FALSE
    <2>1. Positive(Kwh(input.energies[p])) \in Nat \ {0}
      BY <1>8, <1>9 DEF Positive
    <2>2. \A k, g \in Nat \ {0} : 100 * k * g > 0
      OBVIOUS
    <2>3. AasBill[p] > 0
      BY <1>2, <1>5, <2>1, <2>2
    <2> QED BY <1>6, <1>7, <2>3
  <1> QED BY <1>8, <1>9

\* Where the grid's service answers, a shell is refused only if no positive energy
\* was read, or if the intensity is 0: because 0 is configured, or because all the
\* values of the grid are 0.
THEOREM ShellsAreRefusedForAReason == Spec => []RefusedForAReason
  BY AlwaysStepwise, RefusalHasAReason, PTL

-----------------------------------------------------------------------------
(* The materials *)

\* What SiGREEN knows of the identifier a material is looked up by.
UnitOf(x) == UnitFootprint(input.sigreen, Mapping[x])

\* It is a value SiGREEN has for it, or there is a reason why there is none.
LEMMA UnitOfIs ==
  ASSUME input \in Inputs, NEW x \in Ident
  PROVE  \/ /\ UnitOf(x) \in Int /\ UnitOf(x) # None
            /\ UnitOf(x) \in ValuesFor(input.sigreen, x)
         \/ /\ UnitOf(x) = None
            /\ \/ {"all", "secondary", "pcfData"} \cap input.sigreen.failing # {}
               \/ Named(input.sigreen, Mapping[x]) = {}
               \/ \E i \in Named(input.sigreen, Mapping[x]) :
                    Silent(input.sigreen, input.sigreen.components[i].id)
  <1>1. IsSiGREEN(input.sigreen) /\ None \notin Int
    BY CarbonAssumption, LookupAssumption DEF IsInput
  <1>2. CASE UnitOf(x) \in Int
    <2>1. \E i \in Named(input.sigreen, Mapping[x]) :
            UnitOf(x) \in Values(input.sigreen, input.sigreen.components[i].id)
      BY <1>1, <1>2, UnitFootprintIs DEF UnitOf
    <2> QED BY <1>1, <1>2, <2>1 DEF ValuesFor
  <1>3. CASE UnitOf(x) \notin Int
    BY <1>1, <1>3, UnitFootprintIs DEF UnitOf
  <1> QED BY <1>2, <1>3

\* The footprint of a material is its quantity's times that of its unit.
LEMMA AllChargedIs ==
  ASSUME input \in Inputs
  PROVE  /\ DOMAIN AllCharged = {x \in DOMAIN Aggregated : UnitOf(x) # None}
         /\ \A x \in DOMAIN AllCharged : AllCharged[x] = Aggregated[x] * UnitOf(x)
         /\ Summable(AllCharged)
  <1> DEFINE K == {x \in DOMAIN Aggregated : UnitOf(x) # None}
  <1>1. FootprintMap(input.sigreen, DOMAIN Aggregated) = [x \in K |-> UnitOf(x)]
    BY DEF FootprintMap, UnitOf
  <1>2. AllCharged = [x \in K |-> Aggregated[x] * UnitOf(x)]
    <2>1. DOMAIN Aggregated \cap K = K
      OBVIOUS
    <2> DEFINE f == [x \in K |-> UnitOf(x)]
    <2>2. DOMAIN f = K /\ \A x \in K : f[x] = UnitOf(x)
      OBVIOUS
    <2>3. AllCharged = [x \in DOMAIN Aggregated \cap DOMAIN f |-> Aggregated[x] * f[x]]
      BY <1>1 DEF AllCharged, Breakdown
    <2> HIDE DEF f, K
    <2>4. \A x \in K : Aggregated[x] * f[x] = Aggregated[x] * UnitOf(x)
      BY <2>2
    <2> QED BY <2>1, <2>2, <2>3, <2>4
  <1>3. /\ IsFiniteSet(K)
        /\ \A x \in K : Aggregated[x] \in Int /\ UnitOf(x) \in Int
    <2>1. /\ IsFiniteSet(DOMAIN Aggregated) /\ DOMAIN Aggregated \subseteq Ident
          /\ \A x \in DOMAIN Aggregated : Aggregated[x] \in Int
      BY AggregatedIsInt DEF Summable
    <2> QED BY <2>1, UnitOfIs, FS_Subset
  <1> HIDE DEF K
  <1>4. Summable(AllCharged)
    BY <1>2, <1>3 DEF Summable
  <1> QED BY <1>2, <1>4 DEF K

\* The materials that are charged are some of these; of a product, the positive ones.
LEMMA ChargedIs ==
  ASSUME input \in Inputs
  PROVE  /\ Summable(Charged) /\ Charged = [x \in DOMAIN Charged |-> Charged[x]]
         /\ DOMAIN Charged \subseteq Ident /\ DOMAIN Charged \subseteq DOMAIN AllCharged
         /\ \A x \in DOMAIN Charged : Charged[x] = AllCharged[x]
         /\ input.flow = "mes" => \A x \in DOMAIN Charged : Charged[x] > 0
         /\ WithBom => DOMAIN Charged = {x \in DOMAIN AllCharged : input.flow # "mes" \/ AllCharged[x] > 0}
  <1>1. /\ Summable(AllCharged) /\ DOMAIN AllCharged \subseteq Ident
        /\ AllCharged = [x \in DOMAIN AllCharged |-> AllCharged[x]]
    BY AllChargedIs, AggregatedIsInt DEF AllCharged, Breakdown
  <1>2. CASE ~WithBom
    BY <1>2, FS_EmptySet DEF Charged, None0, Summable
  <1>3. CASE WithBom /\ input.flow # "mes"
    BY <1>1, <1>3 DEF Charged
  <1>4. CASE WithBom /\ input.flow = "mes"
    <2>1. Charged = [x \in {y \in DOMAIN AllCharged : AllCharged[y] > 0} |-> AllCharged[x]]
      BY <1>4 DEF Charged, StoredBreakdown
    <2>2. IsFiniteSet(DOMAIN Charged)
      BY <1>1, <2>1, FS_Subset DEF Summable
    <2> QED BY <1>1, <1>4, <2>1, <2>2 DEF Summable
  <1> QED BY <1>2, <1>3, <1>4

\* What is charged is a quantity times such a value.
LEMMA ChargesAreFootprints == Stepwise => FootprintsAreTheMaterials
  <1> SUFFICES ASSUME Stepwise, NEW x \in DOMAIN materials
               PROVE  \E u \in ValuesFor(input.sigreen, x) : materials[x] = Aggregated[x] * u
    BY DEF FootprintsAreTheMaterials
  <1>1. input \in Inputs /\ (materials = Charged \/ materials = None0)
    BY DEF Stepwise
  <1>2. materials = Charged
    BY <1>1 DEF None0
  <1>3. x \in DOMAIN AllCharged /\ x \in Ident /\ materials[x] = AllCharged[x]
    BY <1>1, <1>2, ChargedIs
  <1>4. UnitOf(x) # None /\ materials[x] = Aggregated[x] * UnitOf(x)
    BY <1>1, <1>3, AllChargedIs
  <1>5. UnitOf(x) \in ValuesFor(input.sigreen, x)
    BY <1>1, <1>3, <1>4, UnitOfIs
  <1> QED BY <1>4, <1>5

\* A material is charged by a component that carries exactly its identifier, by
\* the highest value of its secondary data, or by its shared data without any.
THEOREM MaterialsAreCharged == Spec => []FootprintsAreTheMaterials
  BY AlwaysStepwise, ChargesAreFootprints, PTL

\* What is not charged has a reason.
LEMMA MissingMaterials == Stepwise => MissingHasAReason
  <1> DEFINE s == input.sigreen
  <1> SUFFICES ASSUME Stepwise, pc = "report", WithBom, NEW x \in DOMAIN Aggregated \ DOMAIN materials
               PROVE  \/ input.flow = "mes" /\ \E u \in ValuesFor(s, x) : Aggregated[x] * u <= 0
                      \/ {"all", "secondary", "pcfData"} \cap s.failing # {}
                      \/ \A i \in Named(s, Mapping[x]) : Silent(s, s.components[i].id)
                      \/ \E i, j \in Named(s, Mapping[x]) : i # j
    BY DEF MissingHasAReason
  <1>1. input \in Inputs /\ materials = Charged
    BY DEF Stepwise
  <1>2. x \in Ident /\ Aggregated[x] \in Int
    BY <1>1, AggregatedIsInt DEF Summable
  <1>3. CASE UnitOf(x) # None
    <2>1. UnitOf(x) \in ValuesFor(s, x) /\ UnitOf(x) \in Int
      BY <1>1, <1>2, <1>3, UnitOfIs
    <2>2. x \in DOMAIN AllCharged /\ AllCharged[x] = Aggregated[x] * UnitOf(x)
      BY <1>1, <1>3, AllChargedIs
    <2>3. input.flow = "mes" /\ ~(AllCharged[x] > 0)
      BY <1>1, <2>2, ChargedIs
    <2>4. Aggregated[x] * UnitOf(x) \in Int
      BY <1>2, <2>1
    <2>5. Aggregated[x] * UnitOf(x) <= 0
      BY <2>2, <2>3, <2>4
    <2> QED BY <2>1, <2>3, <2>5
  <1>4. CASE UnitOf(x) = None
    BY <1>1, <1>2, <1>4, UnitOfIs, LookupAssumption
  <1> QED BY <1>3, <1>4

\* A material has no footprint in the report only if SiGREEN knows none of it, if
\* a request failed, if several components carry its identifier, or if a work
\* order leaves it out as it is not positive.
THEOREM MaterialsAreMissingForAReason == Spec => []MissingHasAReason
  BY AlwaysStepwise, MissingMaterials, PTL
-----------------------------------------------------------------------------
(* The breakdown of an operation's energies *)

\* The labels part the energies, and within a label the factor may come out of the sum.
LEMMA StoredAddsUp == Stepwise => BreakdownAddsUp
  <1> DEFINE es == input.energies
             g == intensity
             stored == Stored(es, g)
             Of(l) == {es[i] : i \in {j \in DOMAIN es : EnergyLabel(es[j]) = l}}
             f == Footprints(es, g)
             lab == [i \in DOMAIN es |-> EnergyLabel(es[i])]
             L == {lab[i] : i \in DOMAIN es}
             h == [l \in L |-> stored[l].footprint]
             here(l) == {i \in DOMAIN es : EnergyLabel(es[i]) = l}
             charges(l) == [i \in here(l) |-> es[i].amount * Factor(es[i]) * g]
             amounts(l) == [i \in here(l) |-> es[i].amount]
  <1> SUFFICES ASSUME Stepwise, pc = "materials", input.flow = "mes"
               PROVE  /\ bill[1] = SumFunction([l \in DOMAIN stored |-> stored[l].footprint])
                      /\ \A l \in DOMAIN stored :
                           (\A e, k \in Of(l) : IsAir(e) <=> IsAir(k)) =>
                             \A e \in Of(l) :
                               stored[l].footprint = stored[l].consumption * Factor(e) * g
    BY DEF BreakdownAddsUp
  <1>1. input \in Inputs /\ g \in Nat /\ bill = Billed
    <2>1. input \in Inputs /\ g = Chosen /\ bill = Billed
      BY DEF Stepwise
    <2> QED BY <2>1, ChosenIsNat
  <1>2. bill[1] = SumFunction(f)
    BY <1>1 DEF Billed, Footprint, Footprints
  <1>3. Summable(f) /\ DOMAIN f = DOMAIN es /\ IsFiniteSet(DOMAIN es)
    BY <1>1, FootprintsAreSummable, EnergiesAre DEF Footprints
  <1>4. DOMAIN stored = L
    BY DEF Stored
  <1>5. ASSUME NEW l \in L
        PROVE  /\ stored[l].footprint = SumFunction(charges(l))
               /\ stored[l].consumption = SumFunction(amounts(l))
    <2>1. l \in {EnergyLabel(es[i]) : i \in DOMAIN es}
      OBVIOUS
    <2>2. stored[l] = [consumption |-> SumFunction(amounts(l)), footprint |-> SumFunction(charges(l))]
      BY <2>1 DEF Stored
    <2> HIDE DEF amounts, charges, stored
    <2> QED BY <2>2
  <1>6. IsFiniteSet(L) /\ \A i \in DOMAIN es : lab[i] \in L
    <2>1. \A i \in DOMAIN es : lab[i] \in L
      OBVIOUS
    <2> HIDE DEF lab
    <2> QED BY <1>3, <2>1, ImageIsFinite
  <1>7. ASSUME NEW l \in L
        PROVE  h[l] = SumFunction(Restrict(f, Fibre(lab, DOMAIN f, l)))
    <2>1. Fibre(lab, DOMAIN f, l) = here(l)
      BY DEF Fibre, Footprints
    <2>2. Restrict(f, here(l)) = charges(l)
      BY DEF Restrict, Footprints
    <2>3. h[l] = stored[l].footprint
      OBVIOUS
    <2> HIDE DEF h, lab, here, charges, f, L
    <2> QED BY <1>5, <2>1, <2>2, <2>3
  <1>8. SumFunction(h) = SumFunction(f)
    <2>1. DOMAIN h = L
      OBVIOUS
    <2> HIDE DEF h, lab, f, L
    <2> QED BY <1>3, <1>6, <1>7, <2>1, SumFibres
  <1>9. [l \in DOMAIN stored |-> stored[l].footprint] = h
    <2> HIDE DEF stored, L
    <2> QED BY <1>4
  <1>10. ASSUME NEW l \in L, \A e, k \in Of(l) : IsAir(e) <=> IsAir(k), NEW e \in Of(l)
         PROVE  stored[l].footprint = stored[l].consumption * Factor(e) * g
    <2>1. here(l) \subseteq DOMAIN es /\ IsFiniteSet(here(l))
      BY <1>3, FS_Subset
    <2>2. ASSUME NEW i \in here(l)
          PROVE  Factor(es[i]) = Factor(e) /\ es[i].amount \in Int
      <3>1. es[i] \in Of(l) /\ i \in DOMAIN es
        OBVIOUS
      <3>2. IsAir(es[i]) <=> IsAir(e)
        BY <1>10, <3>1
      <3>3. Factor(es[i]) = Factor(e)
        BY <3>2 DEF Factor
      <3> QED BY <1>1, <3>1, <3>3, EnergiesAre
    <2> DEFINE k == Factor(e) * g
    <2>3. Factor(e) \in Int /\ k \in Int
      <3>1. Factor(e) \in Int
        BY DEF Factor
      <3> QED BY <1>1, <3>1
    <2>4. \A a, b \in Int : a * b * g = (b * g) * a
      BY <1>1
    <2>5. ASSUME NEW i \in here(l)
          PROVE  charges(l)[i] = k * amounts(l)[i] /\ charges(l)[i] \in Int /\ amounts(l)[i] \in Int
      <3>1. charges(l)[i] = es[i].amount * Factor(e) * g /\ amounts(l)[i] = es[i].amount
        BY <2>2
      <3>2. charges(l)[i] = k * amounts(l)[i]
        BY <2>2, <2>3, <2>4, <3>1
      <3>3. \A a \in Int : k * a \in Int
        BY <2>3
      <3> QED BY <2>2, <3>1, <3>2, <3>3
    <2>6. DOMAIN charges(l) = here(l) /\ DOMAIN amounts(l) = here(l)
      OBVIOUS
    <2> HIDE DEF charges, amounts, here, k
    <2>7. Summable(charges(l)) /\ Summable(amounts(l))
      BY <2>1, <2>5, <2>6 DEF Summable
    <2>8. SumFunction(charges(l)) = k * SumFunction(amounts(l))
      BY <2>3, <2>5, <2>6, <2>7, SumTimes
    <2>9. SumFunction(amounts(l)) \in Int
      BY <2>7, SumInt
    <2>10. stored[l].footprint = SumFunction(charges(l)) /\ stored[l].consumption = SumFunction(amounts(l))
      BY <1>5
    <2> HIDE DEF stored
    <2> QED BY <2>3, <2>4, <2>8, <2>9, <2>10 DEF k
  <1> HIDE DEF h, f, stored, Of, L
  <1> QED BY <1>2, <1>4, <1>8, <1>9, <1>10

\* What is stored of the energies of an operation adds up to the footprint that
\* is reported for it, and each stored consumption explains its footprint, save
\* where one label covers both volumes and energies.
THEOREM StoredEnergiesAddUp == Spec => []BreakdownAddsUp
  BY AlwaysStepwise, StoredAddsUp, PTL

-----------------------------------------------------------------------------
(* The report *)

\* What is 0 may be left out of a sum.
LEMMA SumWithoutZeros ==
  ASSUME NEW f, Summable(f), NEW D \in SUBSET DOMAIN f, \A x \in DOMAIN f \ D : f[x] = 0
  PROVE  SumFunction(f) = SumFunction(Restrict(f, D)) /\ Summable(Restrict(f, D))
  <1> DEFINE Z == DOMAIN f \ D
             r == Restrict(f, Z)
  <1>1. Z \in SUBSET DOMAIN f /\ D \cup Z = DOMAIN f /\ D \cap Z = {}
    OBVIOUS
  <1>2. SumFunction(f) = SumFunction(Restrict(f, D)) + SumFunction(Restrict(f, Z))
    <2> HIDE DEF Z
    <2> QED BY <1>1, SumSplit
  <1>3. Summable(r) /\ \A x \in DOMAIN r : r[x] = 0
    <2>1. DOMAIN r = Z /\ \A x \in Z : r[x] = f[x]
      BY DEF Restrict
    <2> QED BY <2>1, RestrictSummable
  <1>4. SumFunction(r) = 0
    <2> HIDE DEF r
    <2> QED BY <1>3, SumZero
  <1>5. Summable(Restrict(f, D))
    BY RestrictSummable
  <1>6. SumFunction(Restrict(f, D)) \in Int
    BY <1>5, SumInt
  <1> QED BY <1>2, <1>4, <1>5, <1>6

\* The lines of one kind.
Part(kind, f, D) == {<<kind, x, f[x]>> : x \in D}
Amounts(lines) == [l \in lines |-> l[3]]

\* They add up to what they are of.
LEMMA PartSum ==
  ASSUME NEW kind, NEW f, Summable(f), NEW D \in SUBSET DOMAIN f
  PROVE  /\ Summable(Amounts(Part(kind, f, D)))
         /\ SumFunction(Amounts(Part(kind, f, D))) = SumFunction(Restrict(f, D))
  <1> DEFINE P == Part(kind, f, D)
             F == Amounts(P)
             r == Restrict(f, D)
             b == [x \in D |-> <<kind, x, f[x]>>]
  <1>1. DOMAIN F = P /\ DOMAIN r = D
    BY DEF Amounts, Restrict
  <1>2. P = {b[x] : x \in D}
    BY DEF Part
  <1>3. IsFiniteSet(D) /\ \A x \in D : f[x] \in Int
    BY FS_Subset DEF Summable
  <1>4. IsFiniteSet(P)
    <2> HIDE DEF P, b
    <2> QED BY <1>2, <1>3, ImageIsFinite
  <1>5. \A x \in D : b[x] \in P /\ F[b[x]] = f[x] /\ r[x] = f[x]
    BY DEF Part, Amounts, Restrict
  <1>6. \A l \in P : \E x \in D : b[x] = l
    BY <1>2
  <1>7. \A x, y \in D : b[x] = b[y] => x = y
    OBVIOUS
  <1> HIDE DEF P, F, r, b
  <1>8. Summable(F) /\ Summable(r)
    BY <1>1, <1>3, <1>4, <1>5, <1>6 DEF Summable
  <1>9. SumFunction(r) = SumFunction(F)
    <2>1. \A x \in DOMAIN r : b[x] \in DOMAIN F /\ r[x] = F[b[x]]
      BY <1>1, <1>5
    <2>2. \A z \in DOMAIN F : \E x \in DOMAIN r : b[x] = z
      BY <1>1, <1>6
    <2>3. \A x, y \in DOMAIN r : b[x] = b[y] => x = y
      BY <1>1, <1>7
    <2> QED BY <1>8, <2>1, <2>2, <2>3, SumReindex
  <1> QED BY <1>8, <1>9 DEF F, P, r

\* Lines of different kinds are different lines.
LEMMA PartsAdd ==
  ASSUME NEW P, NEW Q, Summable(Amounts(P)), Summable(Amounts(Q)), P \cap Q = {}
  PROVE  /\ Summable(Amounts(P \cup Q))
         /\ SumFunction(Amounts(P \cup Q)) = SumFunction(Amounts(P)) + SumFunction(Amounts(Q))
  <1> DEFINE F == Amounts(P \cup Q)
  <1>1. DOMAIN F = P \cup Q /\ DOMAIN Amounts(P) = P /\ DOMAIN Amounts(Q) = Q
    BY DEF Amounts
  <1>2. Restrict(F, P) = Amounts(P) /\ Restrict(F, Q) = Amounts(Q)
    BY DEF Amounts, Restrict
  <1>3. \A l \in P \cup Q : F[l] = l[3]
    BY DEF Amounts
  <1>4. (\A l \in P : Amounts(P)[l] = l[3]) /\ (\A l \in Q : Amounts(Q)[l] = l[3])
    BY DEF Amounts
  <1>5. IsFiniteSet(P \cup Q)
    BY <1>1, FS_Union DEF Summable
  <1>6. Summable(F)
    <2> HIDE DEF F
    <2> QED BY <1>1, <1>3, <1>4, <1>5 DEF Summable
  <1>7. P \in SUBSET DOMAIN F /\ Q \in SUBSET DOMAIN F
    BY <1>1
  <1>8. SumFunction(F) = SumFunction(Restrict(F, P)) + SumFunction(Restrict(F, Q))
    <2> HIDE DEF F
    <2> QED BY <1>1, <1>6, <1>7, SumSplit
  <1> QED BY <1>2, <1>6, <1>8

\* The lines of a report, and the total beside them.
LEMMA LinesSum ==
  ASSUME NEW b, NEW m, NEW idle, Summable(b), Summable(m), Summable(idle),
         \A l \in DOMAIN idle : idle[l] >= 0
  PROVE  Total(b, m, idle) = SumFunction(Amounts(Lines(b, m, idle)))
                               + SumFunction([x \in Negative(m) |-> m[x]])
  <1> DEFINE Pos(f) == {y \in DOMAIN f : f[y] > 0}
             B == Part("BOP", b, DOMAIN b)
             M == Part("BOM", m, Pos(m))
             I == Part("Idle", idle, Pos(idle))
             rest == DOMAIN m \ Pos(m)
  <1>1. Lines(b, m, idle) = (B \cup M) \cup I
    BY DEF Lines, Part
  <1>2. B \cap M = {} /\ (B \cup M) \cap I = {}
    BY DEF Part
  <1>3. /\ Summable(Amounts(B)) /\ SumFunction(Amounts(B)) = SumFunction(Restrict(b, DOMAIN b))
        /\ Summable(Amounts(M)) /\ SumFunction(Amounts(M)) = SumFunction(Restrict(m, Pos(m)))
        /\ Summable(Amounts(I)) /\ SumFunction(Amounts(I)) = SumFunction(Restrict(idle, Pos(idle)))
    <2>1. DOMAIN b \in SUBSET DOMAIN b /\ Pos(m) \in SUBSET DOMAIN m /\ Pos(idle) \in SUBSET DOMAIN idle
      OBVIOUS
    <2> HIDE DEF Pos
    <2> QED BY <2>1, PartSum
  <1>4. SumFunction(Amounts(Lines(b, m, idle)))
          = SumFunction(Amounts(B)) + SumFunction(Amounts(M)) + SumFunction(Amounts(I))
    <2> HIDE DEF B, M, I
    <2>1. /\ Summable(Amounts(B \cup M))
          /\ SumFunction(Amounts(B \cup M)) = SumFunction(Amounts(B)) + SumFunction(Amounts(M))
      BY <1>2, <1>3, PartsAdd
    <2>2. SumFunction(Amounts((B \cup M) \cup I))
            = SumFunction(Amounts(B \cup M)) + SumFunction(Amounts(I))
      BY <1>2, <1>3, <2>1, PartsAdd
    <2> QED BY <1>1, <2>1, <2>2
  <1>5. SumFunction(Restrict(b, DOMAIN b)) = SumFunction(b)
    BY RestrictAll
  <1>6. SumFunction(idle) = SumFunction(Restrict(idle, Pos(idle)))
    <2>1. Pos(idle) \in SUBSET DOMAIN idle /\ \A l \in DOMAIN idle \ Pos(idle) : idle[l] = 0
      BY DEF Summable
    <2> HIDE DEF Pos
    <2> QED BY <2>1, SumWithoutZeros
  <1>7. SumFunction(m) = SumFunction(Restrict(m, Pos(m))) + SumFunction(Restrict(m, rest))
    <2>1. /\ Pos(m) \in SUBSET DOMAIN m /\ rest \in SUBSET DOMAIN m
          /\ Pos(m) \cup rest = DOMAIN m /\ Pos(m) \cap rest = {}
      OBVIOUS
    <2> HIDE DEF Pos, rest
    <2> QED BY <2>1, SumSplit
  <1>8. SumFunction(Restrict(m, rest)) = SumFunction([x \in Negative(m) |-> m[x]])
    <2> DEFINE r == Restrict(m, rest)
               n == Negative(m)
    <2>1. Summable(r) /\ DOMAIN r = rest /\ \A x \in rest : r[x] = m[x]
      BY RestrictSummable DEF Restrict
    <2>2. n \in SUBSET DOMAIN r /\ \A x \in DOMAIN r \ n : r[x] = 0
      BY <2>1 DEF Negative, Summable
    <2>3. SumFunction(r) = SumFunction(Restrict(r, n))
      <3> HIDE DEF r, n
      <3> QED BY <2>1, <2>2, SumWithoutZeros
    <2>4. Restrict(r, n) = [x \in n |-> m[x]]
      <3>1. n \subseteq rest
        BY <2>1, <2>2
      <3> HIDE DEF r, n, rest
      <3> QED BY <2>1, <3>1 DEF Restrict
    <2> QED BY <2>3, <2>4
  <1>9. /\ SumFunction(Amounts(B)) \in Int /\ SumFunction(Amounts(M)) \in Int
        /\ SumFunction(Amounts(I)) \in Int
    BY <1>3, SumInt
  <1>10. SumFunction(Restrict(m, rest)) \in Int
    <2>1. rest \in SUBSET DOMAIN m
      OBVIOUS
    <2> HIDE DEF rest
    <2> QED BY <2>1, RestrictSummable, SumInt
  <1> HIDE DEF B, M, I, Pos, rest
  <1> QED BY <1>3, <1>4, <1>5, <1>6, <1>7, <1>8, <1>9, <1>10 DEF Total

\* The report is made of such parts.
LEMMA ReportAddsUp == Stepwise => TotalIsTheSumOfItsLines
  <1> SUFFICES ASSUME Stepwise, pc = "done" PROVE TotalIsTheSumOfItsLines
    BY DEF TotalIsTheSumOfItsLines
  <1>1. /\ input \in Inputs /\ bill = Billed /\ intensity = Chosen /\ materials = Charged
        /\ report.total = Total(bill, materials, input.idle)
        /\ report.lines = Lines(bill, materials, input.idle)
    BY DEF Stepwise
  <1>2. IsFiniteSet(DOMAIN input.idle) /\ input.idle \in [DOMAIN input.idle -> Nat]
    BY <1>1, CarbonAssumption DEF IsInput
  <1>3. Summable(input.idle) /\ \A l \in DOMAIN input.idle : input.idle[l] >= 0
    BY <1>2 DEF Summable
  <1>4. Summable(bill)
    BY <1>1, ChosenIsNat, BilledIsInt
  <1>5. Summable(materials) /\ (input.flow = "mes" => \A x \in DOMAIN materials : materials[x] > 0)
    BY <1>1, ChargedIs
  <1>6. report.total = SumFunction(Amounts(report.lines))
                         + SumFunction([x \in Negative(materials) |-> materials[x]])
    BY <1>1, <1>3, <1>4, <1>5, LinesSum
  <1>7. input.flow = "mes" => Negative(materials) = {}
    BY <1>5 DEF Negative, Summable
  <1> QED BY <1>6, <1>7 DEF TotalIsTheSumOfItsLines, Amounts

\* The footprint of a product is the sum of the lines SiGREEN shows beside it;
\* that of a shell also counts the materials with a negative footprint.
THEOREM TotalsAddUp == Spec => []TotalIsTheSumOfItsLines
  BY AlwaysStepwise, ReportAddsUp, PTL

-----------------------------------------------------------------------------

\* What is calculated has its type.
LEMMA StepwiseTypes == Stepwise => TypeOK
  <1> SUFFICES ASSUME Stepwise PROVE TypeOK
    OBVIOUS
  <1>1. input \in Inputs /\ intensity \in Nat
    BY ChosenIsNat DEF Stepwise
  <1>2. bill \in [DOMAIN bill -> Int]
    <2>1. CASE bill = None0
      BY <2>1 DEF None0
    <2>2. CASE bill = Billed
      <3>1. bill = [p \in DOMAIN bill |-> bill[p]]
        BY <2>2 DEF Billed, AasBill
      <3>2. \A p \in DOMAIN bill : bill[p] \in Int
        BY <1>1, <2>2, BilledIsInt DEF Summable
      <3> QED BY <3>1, <3>2
    <2> QED BY <2>1, <2>2 DEF Stepwise
  <1>3. materials \in [DOMAIN materials -> Int] /\ DOMAIN materials \subseteq Ident
    <2>1. CASE materials = None0
      BY <2>1 DEF None0
    <2>2. CASE materials = Charged
      BY <1>1, <2>2, ChargedIs DEF Summable
    <2> QED BY <2>1, <2>2 DEF Stepwise
  <1>4. \A l \in report.lines : l[1] = "BOP" \/ l[3] > 0
    <2>1. CASE pc = "done"
      <3>1. report.lines = Lines(bill, materials, input.idle)
        BY <2>1 DEF Stepwise
      <3> QED BY <3>1 DEF Lines
    <2>2. CASE pc # "done"
      BY <2>2 DEF Stepwise, Unwritten
    <2> QED BY <2>1, <2>2
  <1> QED BY <1>1, <1>2, <1>3, <1>4 DEF Stepwise, TypeOK

\* The variables have their types, and a line that is no process is positive.
THEOREM CarbonTypes == Spec => []TypeOK
  BY AlwaysStepwise, StepwiseTypes, PTL
=============================================================================
