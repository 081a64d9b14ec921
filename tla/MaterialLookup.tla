--------------------------- MODULE MaterialLookup ---------------------------
(***************************************************************************)
(* The footprint of one unit of a purchased material, as SiGREEN's         *)
(* procurement API knows it: get_component_by_identifier and               *)
(* get_material_pcf_per_unit_kg in app/integrations/sigreen.py, and        *)
(* fetch_material_pcf_map in app/services/material_pcf.py.                 *)
(*                                                                         *)
(* SiGREEN is a record s: its components in the order of its lists, the    *)
(* secondary data of each, the shared PCF data, and the requests that      *)
(* fail.  Footprints are integers, and quantities divide them; biogenic    *)
(* carbon makes some of them negative.                                     *)
(***************************************************************************)
EXTENDS Integers, Sequences, FiniteSets

CONSTANTS
  Ident,      \* identifiers of materials
  IdTypes,    \* the identifier types tried, the configured one first
  Similar,    \* pairs <<x, y>>: SiGREEN lists y's component when asked for x
  Mapping,    \* material_identifier_mapping: the identifier to look up
  None,
  Broken      \* a component that is null, a footprint that is no number

ASSUME LookupAssumption ==
  /\ Mapping \in [Ident -> Ident]
  /\ \A x \in Ident : <<x, x>> \in Similar
  /\ IdTypes \in Seq(STRING)
  /\ None \notin Int /\ Broken \notin Int /\ Broken # None

\* A stage is <<pcfIncludingBiogenic, pcfExcludingBiogenic>>, 0 where missing.
Stage == {None} \cup (Int \X Int)

\* What SiGREEN answers: components with their identifiers as <<type, value>>,
\* and items with the quantity their stages stand for.
IsSiGREEN(s) ==
  /\ {None, Broken} \cap DOMAIN s.secondary = {}
  /\ s.components \in Seq([id : DOMAIN s.secondary, names : SUBSET (STRING \X Ident)])
  /\ \A c \in DOMAIN s.secondary :
       s.secondary[c] \in Seq([production : Stage, distribution : Stage, quantity : {None} \cup Nat])
  /\ s.pcfData \in Seq([component : DOMAIN s.secondary \cup {Broken}, production : Stage,
                         distribution : Stage, quantity : {None} \cup Nat,
                         top : {None, Broken} \cup Int])

Staged(i)     == i.production # None \/ i.distribution # None
Value(stage)  == IF stage = None THEN 0 ELSE IF stage[1] # 0 THEN stage[1] ELSE stage[2]
Quantity(i)   == IF i.quantity \in {None, 0} THEN 1 ELSE i.quantity
PerUnit(i)    == (Value(i.production) + Value(i.distribution)) \div Quantity(i)

Least(S) == CHOOSE i \in S : \A j \in S : i <= j

-----------------------------------------------------------------------------
(* The component *)

\* Positions of the components that carry the identifier x, of whatever type.
Named(s, x) == {i \in DOMAIN s.components : \E n \in s.components[i].names : n[2] = x}

\* GET /components?idValue=x&idType=t.
Listed(s, t, x) ==
  {i \in DOMAIN s.components : \E n \in s.components[i].names : n[1] = t /\ <<x, n[2]>> \in Similar}

\* A failed request counts as an empty list.
Hits(s, t, x) == IF t \in s.failing THEN {} ELSE Listed(s, t, x) \cap Named(s, x)

\* Mutant of Component: the types are the only way to find a component.
ComponentByTypes(s, x) ==
  LET found == {k \in DOMAIN IdTypes : Hits(s, IdTypes[k], x) # {}} IN
  IF found # {} THEN s.components[Least(Hits(s, IdTypes[Least(found)], x))].id ELSE None

\* By each type in turn, then in the list of all components.
Component(s, x) ==
  LET found == {k \in DOMAIN IdTypes : Hits(s, IdTypes[k], x) # {}} IN
  IF found # {} THEN s.components[Least(Hits(s, IdTypes[Least(found)], x))].id
  ELSE IF "all" \in s.failing \/ Named(s, x) = {} THEN None
  ELSE s.components[Least(Named(s, x))].id

-----------------------------------------------------------------------------
(* Its footprint *)

\* Mutant of Best: the last item replaces the ones before it.
BestIsLast(items) ==
  LET staged == {i \in DOMAIN items : Staged(items[i])} IN
  IF staged = {} THEN None
  ELSE PerUnit(items[CHOOSE i \in staged : \A j \in staged : i >= j])

\* The staged item with the highest footprint.
Best(items) ==
  LET staged == {i \in DOMAIN items : Staged(items[i])} IN
  IF staged = {} THEN None
  ELSE PerUnit(items[CHOOSE i \in staged : \A j \in staged : PerUnit(items[i]) >= PerUnit(items[j])])

\* Where the search of the shared items ends: at one without a component, which
\* raises an exception, or at one of this component that says anything.
Decides(i, id) ==
  \/ i.component = Broken
  \/ i.component = id /\ (Staged(i) \/ i.top # None)

\* The first of them; an exception on the way leaves nothing.
Shared(s, id) ==
  LET deciding == {i \in DOMAIN s.pcfData : Decides(s.pcfData[i], id)}
      first    == s.pcfData[Least(deciding)]
  IN  IF deciding = {} \/ "pcfData" \in s.failing \/ first.component = Broken THEN None
      ELSE IF Staged(first) THEN PerUnit(first)
      ELSE IF first.top = Broken THEN None ELSE first.top

\* get_material_pcf_per_unit_kg.  The shared data is for components without
\* secondary data only.
UnitFootprint(s, x) ==
  LET id == Component(s, x) IN
  IF id = None \/ "secondary" \in s.failing THEN None
  ELSE IF s.secondary[id] = <<>> THEN Shared(s, id) ELSE Best(s.secondary[id])

\* fetch_material_pcf_map, keyed by the identifiers as they were asked for.
FootprintMap(s, xs) ==
  LET known == {x \in xs : UnitFootprint(s, Mapping[x]) # None} IN
  [x \in known |-> UnitFootprint(s, Mapping[x])]
=============================================================================
