------------------------------ MODULE MCCarbon ------------------------------
(* Calculations for TLC: every combination of a few configurations, energies, *)
(* materials and states of SiGREEN.  x is A's identifier, and like the         *)
(* identifier xx of B; y is C's, of a type nobody asks for; w is mapped to x.  *)
EXTENDS Carbon

CONSTANTS x, xx, y, z, w, A, B, C

MCIdTypes == <<"configured", "Material No.">>
MCSimilar == {<<i, i>> : i \in Ident} \cup {<<x, xx>>}
MCMapping == [i \in Ident |-> IF i = w THEN x ELSE i]

Config(s, c, b, t) == [source |-> s, constant |-> c, bom |-> b, tool |-> t]
Configs ==
  {Config(s, c, TRUE, "sigreen") : s \in {"constant", "grid"}, c \in {None, 0, 2}}
    \cup {Config("constant", 2, FALSE, "sigreen"), Config("constant", 2, TRUE, "other")}

Grids == {None, <<>>, <<0, 0>>, <<0, 4>>}

AnEnergy(t, u, a, s) == [type |-> t, uom |-> u, amount |-> a, series |-> s]
MesEnergies ==
  {<<AnEnergy(t, u, 1, <<>>), AnEnergy(v, r, 2, <<>>)>> :
     t \in {"", "Electricity", "CompressedAir"}, v \in {"", "Electricity"}, u, r \in {"kWh", "M3"}}
AasEnergies ==
  {<<AnEnergy("", "", a, s), AnEnergy("", "", b, <<1>>)>> :
     a \in {None, 0, 2}, b \in {None, 0, -1, 1}, s \in {<<>>, <<1, 1>>}}

Entry(n, q) == [name |-> n, quantity |-> q]
EntryLists == {<<Entry(x, 1), Entry(y, 2), Entry(x, 2)>>, <<Entry(w, 1), Entry(z, 1), Entry(xx, 0)>>}

Item(p, d, q) == [production |-> p, distribution |-> d, quantity |-> q]
SharedItem(c, p, q, t) ==
  [component |-> c, production |-> p, distribution |-> None, quantity |-> q, top |-> t]

Secondaries(forA) ==
  [c \in {A, B, C} |-> IF c = A THEN forA
                       ELSE IF c = B THEN <<Item(<<20, 0>>, None, None)>>
                       ELSE <<Item(<<0, 8>>, None, 0)>>]
ItemsOfA ==
  {<<>>, <<Item(None, None, 2)>>, <<Item(<<-6, 0>>, <<2, 0>>, 2)>>,
   <<Item(<<4, 9>>, <<2, 0>>, 1), Item(<<4, 0>>, None, 2)>>}
SharedLists ==
  {<<>>,
   <<SharedItem(B, <<6, 0>>, 1, None), SharedItem(A, None, 1, 3), SharedItem(A, <<4, 0>>, 2, None)>>,
   <<SharedItem(A, None, 1, Broken), SharedItem(A, None, 1, 3)>>,
   <<SharedItem(A, None, 1, None), SharedItem(Broken, None, 1, 5), SharedItem(A, None, 1, 3)>>}

Components ==
  <<[id |-> B, names |-> {<<"Material No.", xx>>}], [id |-> A, names |-> {<<"configured", x>>}],
    [id |-> C, names |-> {<<"Other", y>>}]>>

SiGREEN ==
  {[components |-> Components, secondary |-> Secondaries(a), pcfData |-> d, failing |-> f] :
     a \in ItemsOfA, d \in SharedLists, f \in SUBSET {"configured", "all", "secondary", "pcfData"}}

Idles == {[l \in {} |-> 0], [l \in {"k", "m"} |-> IF l = "k" THEN 5 ELSE 0]}

Calculation(f, c, g, e, n, s, i) ==
  [flow |-> f, cfg |-> c, grid |-> g, energies |-> e, entries |-> n, sigreen |-> s, idle |-> i]

SomeSiGREEN == CHOOSE s \in SiGREEN : s.failing = {}
SomeEnergy  == <<AnEnergy("Electricity", "kWh", 1, <<>>)>>

\* Energies with every configuration, and materials with every SiGREEN.
MCInputs ==
  {Calculation("mes", c, None, e, n, SomeSiGREEN, i) :
     c \in Configs, e \in MesEnergies, n \in EntryLists, i \in Idles}
  \cup {Calculation("aas", c, g, e, n, SomeSiGREEN, i) :
     c \in Configs, g \in Grids, e \in AasEnergies, n \in EntryLists, i \in Idles}
  \cup {Calculation(f, Config("constant", 2, TRUE, "sigreen"), None, SomeEnergy, n, s, i) :
     f \in {"mes", "aas"}, n \in EntryLists, s \in SiGREEN, i \in Idles}
=============================================================================
