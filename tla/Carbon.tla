------------------------------- MODULE Carbon -------------------------------
(***************************************************************************)
(* How a footprint is calculated: the intensity of the grid                *)
(* (services/carbon_service.py, application/pipelines/carbon_intensity.py, *)
(* integrations/grid.py), the energies of a work order (calculate_energy_cf*)
(* for the MES flow, _aggregate_processes_data for the AAS flow), the      *)
(* materials (material_breakdown_for) and the report (build_pcf_report).   *)
(* One calculation runs in one thread; its inputs, and which of its        *)
(* requests fail, are chosen at its start.                                 *)
(*                                                                         *)
(* A footprint is a number of 10 mg: a kWh at 1 g/kWh makes 100, a cubic   *)
(* metre of compressed air (0.12 kWh) 12.  Rounding to 6 decimals is left  *)
(* out.                                                                    *)
(***************************************************************************)
EXTENDS MaterialLookup, Functions

CONSTANTS
  Inputs,     \* the calculations considered
  Default     \* the intensity where none is configured

Average(values) ==
  IF values = <<>> THEN 0 ELSE SumFunction(values) \div Len(values)

Energy == [type : STRING, uom : STRING, amount : {None} \cup Int, series : Seq(Int)]

\* A configured intensity is not negative (update_app_config, and the check in
\* ConstantCarbonIntensity).  g CO2 per kWh are counted in a unit in which the
\* average of the grid's values is whole.
IsInput(i) ==
  /\ i.flow \in {"mes", "aas"}
  /\ i.cfg.source \in {"constant", "grid"} /\ i.cfg.constant \in {None} \cup Nat
  /\ i.grid # None => /\ i.grid \in Seq(Nat)
                      /\ SumFunction(i.grid) = Len(i.grid) * Average(i.grid)
  /\ i.energies \in Seq(Energy) \ {<<>>}
  /\ i.flow = "mes" => \A k \in DOMAIN i.energies : i.energies[k].amount # None
  /\ i.entries \in Seq([name : Ident, quantity : Int])
  /\ IsSiGREEN(i.sigreen)
  /\ IsFiniteSet(DOMAIN i.idle) /\ i.idle \in [DOMAIN i.idle -> Nat]

ASSUME CarbonAssumption == Default \in Nat \ {0} /\ \A i \in Inputs : IsInput(i)

VARIABLES
  input,      \* the calculation
  pc,
  intensity,  \* g CO2 per kWh
  bill,       \* bill[p]: footprint of the energy of process p
  materials,  \* materials[x]: footprint of the material x
  report      \* [total, lines]; a line is <<kind, name, footprint>>

vars == <<input, pc, intensity, bill, materials, report>>

None0     == [x \in {} |-> 0]
Unwritten == [total |-> 0, lines |-> {}]

Init ==
  /\ input \in Inputs
  /\ pc = "intensity" /\ intensity = 0
  /\ bill = None0 /\ materials = None0
  /\ report = Unwritten

-----------------------------------------------------------------------------
(* The intensity *)

Zeroish == {None, 0}

\* float(... or 350): a configured 0 counts as none.
MesIntensity(cfg) == IF cfg.constant \in Zeroish THEN Default ELSE cfg.constant

\* Mutant of AasIntensity: no default where nothing is configured.
AasIntensityNoDefault(cfg, grid) ==
  IF cfg.source = "grid" THEN (IF grid = None THEN 0 ELSE Average(grid))
  ELSE IF cfg.constant = None THEN 0 ELSE cfg.constant

\* A query that fails or has no values gives 0; a configured 0 is one.
AasIntensity(cfg, grid) ==
  IF cfg.source = "grid" THEN (IF grid = None THEN 0 ELSE Average(grid))
  ELSE IF cfg.constant = None THEN Default ELSE cfg.constant

Intensity ==
  /\ pc = "intensity"
  /\ intensity' = IF input.flow = "mes" THEN MesIntensity(input.cfg)
                  ELSE AasIntensity(input.cfg, input.grid)
  /\ pc' = "energy"
  /\ UNCHANGED <<input, bill, materials, report>>

-----------------------------------------------------------------------------
(* The energies *)

IsAir(e)  == e.type = "CompressedAir" \/ e.uom = "M3"
Factor(e) == IF IsAir(e) THEN 12 ELSE 100

\* The label under which an energy is stored.
EnergyLabel(e) ==
  IF e.type # "" THEN e.type ELSE IF e.uom = "M3" THEN "CompressedAir" ELSE "Electricity"

\* calculate_energy_cf: consumption and footprint by label.
Stored(es, g) ==
  [l \in {EnergyLabel(es[i]) : i \in DOMAIN es} |->
     LET here == {i \in DOMAIN es : EnergyLabel(es[i]) = l} IN
     [consumption |-> SumFunction([i \in here |-> es[i].amount]),
      footprint   |-> SumFunction([i \in here |-> es[i].amount * Factor(es[i]) * g])]]

\* Mutant of Footprint: a cubic metre counts as a kWh.
FootprintOfKwh(es, g) == SumFunction([i \in DOMAIN es |-> es[i].amount * 100 * g])

Footprint(es, g) == SumFunction([i \in DOMAIN es |-> es[i].amount * Factor(es[i]) * g])

\* _get_process_energy_kwh: the total, or the series where the total is 0 or
\* missing; what cannot be read is 0.
Kwh(e) ==
  IF e.amount = None THEN 0 ELSE IF e.amount # 0 THEN e.amount ELSE SumFunction(e.series)

\* Each energy of an AAS shell is a process of its own.
EnergyMes ==
  /\ pc = "energy" /\ input.flow = "mes"
  /\ bill' = [p \in {1} |-> Footprint(input.energies, intensity)]
  /\ pc' = "materials"
  /\ UNCHANGED <<input, intensity, materials, report>>

Positive(n) == IF n > 0 THEN n ELSE 0
AasBill == [p \in DOMAIN input.energies |-> 100 * Positive(Kwh(input.energies[p])) * intensity]

\* A shell without any footprint is refused: "no consumption data".
EnergyAas ==
  /\ pc = "energy" /\ input.flow = "aas"
  /\ bill' = AasBill
  /\ pc' = IF SumFunction(AasBill) <= 0 THEN "refused" ELSE "materials"
  /\ UNCHANGED <<input, intensity, materials, report>>

-----------------------------------------------------------------------------
(* The materials *)

\* The entries of all processes, or of all consumptions, summed by name.  A
\* shell's entries without a quantity are left out.
Entries(x) ==
  {i \in DOMAIN input.entries : /\ input.entries[i].name = x
                                /\ input.flow = "aas" => input.entries[i].quantity > 0}
Aggregated ==
  [x \in {y \in Ident : Entries(y) # {}} |->
     SumFunction([i \in Entries(x) |-> input.entries[i].quantity])]

WithBom == input.cfg.bom /\ input.cfg.tool = "sigreen"

\* material_breakdown_for: a material without a footprint has no entry.
Breakdown(quantities, perUnit) ==
  [x \in DOMAIN quantities \cap DOMAIN perUnit |-> quantities[x] * perUnit[x]]

\* get_materials_cf_breakdown: what is stored without a positive footprint is
\* no part of the report.
StoredBreakdown(m) == [x \in {y \in DOMAIN m : m[y] > 0} |-> m[x]]

Materials ==
  /\ pc = "materials"
  /\ LET all == Breakdown(Aggregated, FootprintMap(input.sigreen, DOMAIN Aggregated))
     IN  materials' = IF ~WithBom THEN None0
                      ELSE IF input.flow = "mes" THEN StoredBreakdown(all) ELSE all
  /\ pc' = "report"
  /\ UNCHANGED <<input, intensity, bill, report>>

-----------------------------------------------------------------------------
(* The report *)

\* Mutant of Lines: materials without a footprint are listed too.
LinesOfAll(b, m, idle) ==
  {<<"BOP", p, b[p]>> : p \in DOMAIN b} \cup {<<"BOM", x, m[x]>> : x \in DOMAIN m}
    \cup {<<"Idle", l, idle[l]>> : l \in {k \in DOMAIN idle : idle[k] > 0}}

\* create_process_bill, for every process and for what has a footprint.
Lines(b, m, idle) ==
  {<<"BOP", p, b[p]>> : p \in DOMAIN b}
    \cup {<<"BOM", x, m[x]>> : x \in {y \in DOMAIN m : m[y] > 0}}
    \cup {<<"Idle", l, idle[l]>> : l \in {k \in DOMAIN idle : idle[k] > 0}}

\* Mutant of Total: the idle energy is listed but not counted.
TotalWithoutIdle(b, m, idle) == SumFunction(b) + SumFunction(m)

Total(b, m, idle) == SumFunction(b) + SumFunction(m) + SumFunction(idle)

Build ==
  /\ pc = "report"
  /\ report' = [total |-> Total(bill, materials, input.idle),
                lines |-> Lines(bill, materials, input.idle)]
  /\ pc' = "done"
  /\ UNCHANGED <<input, intensity, bill, materials>>

Next == Intensity \/ EnergyMes \/ EnergyAas \/ Materials \/ Build

Spec == Init /\ [][Next]_vars

-----------------------------------------------------------------------------

\* A report has lines for processes, materials and idle energy, and the lines
\* of materials and of idle energy are positive.
TypeOK ==
  /\ pc \in {"intensity", "energy", "refused", "materials", "report", "done"}
  /\ intensity \in Nat
  /\ bill \in [DOMAIN bill -> Int]
  /\ materials \in [DOMAIN materials -> Int] /\ DOMAIN materials \subseteq Ident
  /\ pc # "done" => report = Unwritten
  /\ \A l \in report.lines : l[1] = "BOP" \/ l[3] > 0

Negative(m) == {x \in DOMAIN m : m[x] < 0}

\* The footprint of a product is the sum of the lines SiGREEN shows beside it;
\* that of a shell also counts the materials whose footprint is negative, which
\* have no line (build_pcf_report, get_materials_cf_breakdown).
TotalIsTheSumOfItsLines ==
  pc = "done" =>
    /\ report.total = SumFunction([l \in report.lines |-> l[3]])
                       + SumFunction([x \in Negative(materials) |-> materials[x]])
    /\ input.flow = "mes" => Negative(materials) = {}

\* What is stored of the energies of an operation adds up to the footprint that
\* is reported for it, and each stored consumption explains its footprint, save
\* where one label covers both volumes and energies.
BreakdownAddsUp ==
  pc = "materials" /\ input.flow = "mes" =>
    LET stored == Stored(input.energies, intensity)
        Of(l) == {input.energies[i] : i \in {j \in DOMAIN input.energies : EnergyLabel(input.energies[j]) = l}}
    IN  /\ bill[1] = SumFunction([l \in DOMAIN stored |-> stored[l].footprint])
        /\ \A l \in DOMAIN stored :
             (\A e, f \in Of(l) : IsAir(e) <=> IsAir(f)) =>
               \A e \in Of(l) : stored[l].footprint = stored[l].consumption * Factor(e) * intensity

\* The footprints any data of a component may stand for.
Known(s, c) ==
  {PerUnit(s.secondary[c][i]) : i \in {j \in DOMAIN s.secondary[c] : Staged(s.secondary[c][j])}}
Offered(s, c) ==
  LET useful == {i \in DOMAIN s.pcfData : s.pcfData[i].component = c} IN
  {PerUnit(s.pcfData[i]) : i \in {j \in useful : Staged(s.pcfData[j])}}
    \cup {s.pcfData[i].top : i \in {j \in useful : ~Staged(s.pcfData[j])}}

\* The highest of its secondary data, or its shared data when it has none.
Values(s, c) ==
  (IF s.secondary[c] = <<>> THEN Offered(s, c)
   ELSE {u \in Known(s, c) : \A v \in Known(s, c) : u >= v}) \ {None, Broken}
ValuesFor(s, x) == UNION {Values(s, s.components[i].id) : i \in Named(s, Mapping[x])}

\* A material is charged by a component that carries exactly its identifier,
\* mapped where a mapping is configured: by the highest value of its secondary
\* data, or by its shared data when it has none.  No similar identifier, failed
\* request or incomplete item puts another number there.
FootprintsAreTheMaterials ==
  \A x \in DOMAIN materials :
    \E u \in ValuesFor(input.sigreen, x) : materials[x] = Aggregated[x] * u

\* A shared item that ends the search for c with an exception.
Unreadable(s, c) ==
  \E i \in DOMAIN s.pcfData :
    s.pcfData[i].component = Broken \/ (s.pcfData[i].component = c /\ s.pcfData[i].top = Broken)

Silent(s, c) ==
  IF s.secondary[c] = <<>> THEN Offered(s, c) \subseteq {None} \/ Unreadable(s, c)
  ELSE Known(s, c) = {}

\* A material has no footprint in the report only if SiGREEN has no component
\* of its identifier, no data of it or a shared item that cannot be read (or
\* several components, of which one is asked), or if the list of all components or a request for the data failed, or if work
\* orders leave it out as it is not positive: neither a failed query by type nor
\* a component listed under a type nobody asks for loses a material.
MissingHasAReason ==
  pc = "report" /\ WithBom =>
    LET s == input.sigreen IN
    \A x \in DOMAIN Aggregated \ DOMAIN materials :
      \/ input.flow = "mes" /\ \E u \in ValuesFor(s, x) : Aggregated[x] * u <= 0
      \/ {"all", "secondary", "pcfData"} \cap s.failing # {}
      \/ \A i \in Named(s, Mapping[x]) : Silent(s, s.components[i].id)
      \/ \E i, j \in Named(s, Mapping[x]) : i # j

\* The grid's service failed, or had no values for the time.
GridSilent == input.cfg.source = "grid" /\ input.grid \in {None, <<>>}

\* A shell is refused only if no positive energy was read, or if the intensity is 0:
\* because 0 is configured, or because all the values of the grid are.  A silent grid
\* is excepted: there the code refuses what carbon_intensity.py:50 says it reports.
RefusedForAReason ==
  pc = "refused" /\ ~GridSilent =>
    \/ \A p \in DOMAIN input.energies : Kwh(input.energies[p]) <= 0
    \/ input.cfg.source = "constant" /\ input.cfg.constant = 0
    \/ input.cfg.source = "grid" /\ \A i \in DOMAIN input.grid : input.grid[i] = 0
=============================================================================
