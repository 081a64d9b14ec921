----------------------------- MODULE IdleShares -----------------------------
(***************************************************************************)
(* The idle energy a PCF report charges to its work order:                 *)
(* collect_idle_cf_by_machine_for_work_order in                            *)
(* factory_consumption_service.py and allocate_kwh in                      *)
(* application/pipelines/idle_allocation.py, evaluated on every document   *)
(* that FactoryStore lets a report read.                                   *)
(*                                                                         *)
(* Energies are kept as fractions <<numerator, denominator>>; a line of    *)
(* the report is the set of rows summed in it.                             *)
(***************************************************************************)
EXTENDS FactoryStore, Sequences

CONSTANTS
  Places,  \* the <<building, machine>> pairs of Row, sorted
  Join     \* Join[<<b, m>>]: the text "b/m", an id like any other

ASSUME PlacesAssumption ==
  /\ Places \in Seq(Text \X Text)
  /\ \A r \in Row : \E i \in DOMAIN Places : Places[i] = <<r[1], r[2]>>
  /\ \A i, j \in DOMAIN Places : Places[i] = Places[j] => i = j

ASSUME WorkOrdersAssumption == IsFiniteSet(WorkOrder)

\* The work order's own key or else one that is the same but for blanks.
Minutes(n, w) ==
  LET same == {v \in WorkOrder : Trim[v] = Trim[w] /\ n.minutes[v] > 0} IN
  IF Trim[w] \in same THEN n.minutes[Trim[w]]
  ELSE IF same = {} THEN 0 ELSE n.minutes[CHOOSE v \in same : TRUE]

Production(n) == n.time - n.idleTime

\* Mutant of Allocated: the share is of the whole window's energy and time.
AllocatedOfIdleTime(n, w) ==
  IF Minutes(n, w) = 0 \/ n.idle = 0 \/ n.idleTime = 0 THEN <<0, 1>>
  ELSE <<Minutes(n, w) * n.idle, n.idleTime>>

\* allocate_kwh: idle energy by minutes of production.
Allocated(n, w) ==
  IF Minutes(n, w) = 0 \/ n.idle = 0 \/ Production(n) <= 0 THEN <<0, 1>>
  ELSE <<Minutes(n, w) * n.idle, Production(n)>>

\* Rows with an energy for w, by machine.
Charged(d, w)     == {r \in DOMAIN d : Allocated(d[r], w)[1] > 0}
ChargedAt(d, w, p) == {r \in Charged(d, w) : <<r[1], r[2]>> = p}

\* The name of the machine's first row in the document, whichever it is.
Displays(d, w) ==
  {f \in [{<<r[1], r[2]>> : r \in Charged(d, w)} -> {n.name : n \in Range(d)}] :
     \A p \in DOMAIN f : \E r \in ChargedAt(d, w, p) : f[p] = d[r].name}

\* Mutant of LineLabel: a building's second machine of a name is not told apart.
LineLabelPlain(labels, name, p) == <<name, p[1], 0>>

\* _idle_activity_label: "name (b)", "name (b/m)", "name (b/m) #i".
LineLabel(labels, name, p) ==
  IF <<name, p[1], 0>> \notin labels THEN <<name, p[1], 0>>
  ELSE IF <<name, Join[p], 0>> \notin labels THEN <<name, Join[p], 0>>
  ELSE <<name, Join[p], CHOOSE i \in 1 .. Len(Places) :
                          /\ <<name, Join[p], i>> \notin labels
                          /\ \A j \in 1 .. i - 1 : <<name, Join[p], j>> \in labels>>

\* The lines done, and one for a machine if it has rows.
WithLine(done, rows, line) ==
  IF rows = {} THEN done
  ELSE [l \in DOMAIN done \cup {line} |-> IF l = line THEN rows ELSE done[l]]

\* The lines of the report for w, machine by machine in order.
Lines(d, w, display) ==
  LET upto[i \in 0 .. Len(Places)] ==
        IF i = 0 THEN Empty
        ELSE WithLine(upto[i - 1], ChargedAt(d, w, Places[i]),
                      LineLabel(DOMAIN upto[i - 1], display[Places[i]], Places[i]))
  IN  upto[Len(Places)]

-----------------------------------------------------------------------------

\* What reports have just loaded.
ReportsRead == {thr[c].data : c \in {t \in Client : At(t, "apply") /\ thr[t].op = "read"}}

Spent(n) == SumFunction(n.minutes)

\* A window whose work orders ran while the machine was not idle.
Fair(n) == Spent(n) + n.idleTime <= n.time

\* Every payload is such a window, and so are the rows stored at first.
Plausible ==
  /\ \A i \in Id : Fair(Payload[i])
  /\ \A d \in InitialDocs \ {None} : \A r \in DOMAIN d : Fair(d[r])

Whole(w) == Trim[w] = w

\* If no payload, and no row stored at first, claims more production than its
\* window had, the work orders of a row are never charged more idle energy
\* together than was measured there, whatever document a report meets.
IdleIsNotOverallocated ==
  Plausible =>
    \A d \in ReportsRead : \A r \in DOMAIN d :
      LET charged == {w \in WorkOrder : Whole(w) /\ Allocated(d[r], w)[1] > 0} IN
      \A v \in charged :
        SumFunction([w \in charged |-> Allocated(d[r], w)[1]])
          <= Allocated(d[r], v)[2] * d[r].idle

\* Every row with a share for a work order is in exactly one line of its
\* report, whatever the machines are called: no line takes another's label.
SharesReachTheReport ==
  \A d \in ReportsRead, w \in WorkOrder : \A display \in Displays(d, w) :
    LET lines == Lines(d, w, display) IN
    \A r \in Charged(d, w) : Cardinality({l \in DOMAIN lines : r \in lines[l]}) = 1
=============================================================================
