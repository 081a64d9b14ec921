----------------------------- MODULE WorkOrders -----------------------------
(***************************************************************************)
(* The MES flow: POST /consumptionData, POST /productionResults and the    *)
(* deletion of a record, each a request thread that loads the whole work   *)
(* order document, changes one record and saves the whole document, beside *)
(* the AAS flow's update_from_aas.  Nothing serialises the threads: their  *)
(* steps interleave in any order.  A load and a save are atomic here;      *)
(* module JsonStore takes them apart.                                      *)
(*                                                                         *)
(* The footprint of an operation is a number, or None when there is no     *)
(* such operation.  A material is reduced to its total quantity and to the *)
(* quantity its stored footprint was last computed for (0: it has none).   *)
(***************************************************************************)
EXTENDS Naturals, FiniteSets

CONSTANTS
  WO, Op, Mat,   \* work orders, operations, materials
  Thread,        \* request threads
  None,          \* no record, no operation, no report
  Energy,        \* footprints of one operation; 0 when no energy was consumed
  Qty,           \* quantities of a material in one payload; 0 when not listed
  Legacy,        \* work orders that may start with a record in the old format
  OldBop,        \* the operations such a record may have
  MaxRequests,   \* bound on the requests that arrive
  MaxPosts       \* bound on those of them that bring consumption

Footprints == [Op -> {None} \cup Energy]
Quantities == [Mat -> Nat]
Report     == [ops : Footprints, mats : Quantities]
Record     == [ops : Footprints, qty : Quantities, priced : Quantities,
               bop : Footprints, pcf : {None} \cup Report]
Documents  == [WO -> {None} \cup Record]
Owed       == [ops : Footprints, qty : Quantities, mats : SUBSET Mat]

\* One /consumptionData payload, and those of its materials SiGREEN has a PCF for.
Payload == {p \in [op : Op, energy : Energy, qty : [Mat -> Qty], found : SUBSET Mat] :
              \A m \in p.found : p.qty[m] > 0}

ASSUME WorkOrdersAssumption ==
  /\ Energy \subseteq Nat /\ Qty \subseteq Nat
  /\ Legacy \subseteq WO /\ OldBop \subseteq Footprints
  /\ MaxRequests \in Nat /\ MaxPosts \in Nat

ASSUME ThreadAssumption == IsFiniteSet(Thread)

ASSUME NoneAssumption ==
  /\ None \notin Energy /\ None \notin Payload
  /\ None \notin Record /\ None \notin Report /\ None \notin Owed

VARIABLES
  db,        \* the work order document
  thr,       \* thr[t]: the request t serves and what it holds
  sent,      \* pairs of a work order and a report that reached SiGREEN
  requests,  \* requests that arrived, at most MaxRequests
  posts,     \* those of them that brought consumption, at most MaxPosts
  \* What clients posted and were told, kept to state the properties:
  posted,    \* posted[w]: every footprint and the sum of quantities posted
  acked,     \* acked[w]: what the acknowledged requests for w amount to
  stale,     \* some save overwrote a document its thread had not loaded
  refused    \* work orders refused though a client was owed an operation

told == <<posted, acked, stale, refused>>
vars == <<db, thr, sent, requests, posts, told>>

Nothing   == [o \in Op |-> None]
Zero      == [m \in Mat |-> 0]
NewRecord == [ops |-> Nothing, qty |-> Zero, priced |-> Zero, bop |-> Nothing, pcf |-> None]
NoDocument == [w \in WO |-> None]  \* nothing loaded yet
Free      == [kind |-> "free", pc |-> "idle"]
NoPromise == [ops |-> Nothing, qty |-> Zero, mats |-> {}]

\* owed and mats are history fields: the operations of wo, and its materials
\* with a footprint, that were acknowledged before the request began and not
\* removed since.  form: whether the report is one with materials.
Request == [kind : {"consume", "produce", "delete", "aas"},
            pc : {"load", "save", "bop", "mats", "send"},
            wo : WO, payload : {None} \cup Payload, report : Report,
            form : {"plain", "bom"}, base : Documents, owed : SUBSET Op, mats : SUBSET Mat]

Posts == [ops : [Op -> SUBSET Energy], qty : Quantities]

Ops(f)         == {o \in Op : f[o] # None}
Priced(f)      == {m \in Mat : f[m] > 0}
Promise(w)     == IF acked[w] = None THEN NoPromise ELSE acked[w]
Plus(f, g)     == [m \in Mat |-> f[m] + g[m]]
AtMost(f, g)   == \A m \in Mat : f[m] \leq g[m]
At(t, k, l)    == thr[t].kind = k /\ thr[t].pc = l
Goto(t, l)     == thr' = [thr EXCEPT ![t].pc = l]

Init ==
  /\ \E old \in SUBSET Legacy, f \in OldBop :
       /\ Ops(f) # {}
       /\ db = [w \in WO |-> IF w \in old THEN [NewRecord EXCEPT !.bop = f] ELSE None]
       /\ posted = [w \in WO |->
                      [ops |-> [o \in Op |-> IF w \in old THEN {f[o]} \ {None} ELSE {}],
                       qty |-> Zero]]
       /\ acked = [w \in WO |-> IF w \in old THEN NoPromise ELSE None]
  /\ thr = [t \in Thread |-> Free]
  /\ sent = {} /\ requests = 0 /\ posts = 0 /\ stale = FALSE /\ refused = {}

-----------------------------------------------------------------------------
(* Requests arrive *)

Arrive(t, w, k, l, p, r) ==
  /\ thr[t] = Free /\ requests < MaxRequests
  /\ requests' = requests + 1
  /\ thr' = [thr EXCEPT ![t] =
               [kind |-> k, pc |-> l, wo |-> w, payload |-> p, report |-> r, form |-> "plain",
                base |-> NoDocument, owed |-> Ops(Promise(w).ops), mats |-> Promise(w).mats]]
  /\ UNCHANGED <<db, acked, stale, refused>>

Posted(w, p) ==
  /\ posts < MaxPosts
  /\ posts' = posts + 1
  /\ posted' = [posted EXCEPT ![w].ops[p.op] = @ \cup {p.energy}, ![w].qty = Plus(@, p.qty)]

NoReport == [ops |-> Nothing, mats |-> Zero]

\* The footprint is computed and the materials are looked up before the
\* document is loaded.
Consume(t, w, p) ==
  /\ Arrive(t, w, "consume", "load", p, NoReport)
  /\ Posted(w, p)
  /\ UNCHANGED sent

Produce(t, w) ==
  /\ Arrive(t, w, "produce", "bop", None, NoReport)
  /\ UNCHANGED <<sent, posts, posted>>

Delete(t, w) ==
  /\ Arrive(t, w, "delete", "load", None, NoReport)
  /\ UNCHANGED <<sent, posts, posted>>

\* The AAS service has computed p for its shell w and its report has reached
\* SiGREEN (module AasPipeline).
AasSubmitted(t, w, p) ==
  LET r == [ops  |-> [Nothing EXCEPT ![p.op] = p.energy],
            mats |-> [m \in Mat |-> IF m \in p.found THEN p.qty[m] ELSE 0]]
  IN  /\ Arrive(t, w, "aas", "load", p, r)
      /\ sent' = sent \cup {<<w, r>>}
      /\ Posted(w, p)

-----------------------------------------------------------------------------
(* Production, before its report is stored *)

\* Mutant of Bop: the loop over the operations returns in its first turn.
BopOfOne(rec) ==
  LET f == IF Ops(rec.bop) # {} THEN rec.bop ELSE rec.ops
  IN  [o \in Op |-> IF o = CHOOSE x \in Op : Ops(f) # {} => x \in Ops(f) THEN f[o] ELSE None]

\* get_bop_for_work_order: a footprint in the old format hides the operations.
Bop(rec) == IF Ops(rec.bop) # {} THEN rec.bop ELSE rec.ops

\* get_materials_cf_breakdown: only materials with a footprint.
Breakdown(rec) == rec.priced

\* No record, or one without operations: the client is answered 400.
Refuse(t) ==
  LET w == thr[t].wo IN
  /\ At(t, "produce", "bop")
  /\ db[w] # None => Ops(Bop(db[w])) = {}
  /\ thr' = [thr EXCEPT ![t] = Free]
  /\ refused' = IF thr[t].owed = {} THEN refused ELSE refused \cup {w}
  /\ UNCHANGED <<db, sent, requests, posts, posted, acked, stale>>

ReadBop(t) ==
  LET w == thr[t].wo IN
  /\ At(t, "produce", "bop")
  /\ db[w] # None /\ Ops(Bop(db[w])) # {}
  /\ \E f \in {"plain", "bom"} :  \* pcf_include_bom
       thr' = [thr EXCEPT ![t].report.ops = Bop(db[w]), ![t].form = f,
                          ![t].pc = IF f = "bom" THEN "mats" ELSE "send"]
  /\ UNCHANGED <<db, sent, requests, posts, told>>

\* A load of its own: the record may have changed, or be gone, by now.
ReadMaterials(t) ==
  LET w == thr[t].wo IN
  /\ At(t, "produce", "mats")
  /\ thr' = [thr EXCEPT ![t].report.mats = IF db[w] = None THEN Zero ELSE Breakdown(db[w]),
                        ![t].pc = "send"]
  /\ UNCHANGED <<db, sent, requests, posts, told>>

\* Mutant of Send: the report is stored though its upload failed.
SendUnconfirmed(t) ==
  /\ At(t, "produce", "send")
  /\ Goto(t, "load")
  /\ UNCHANGED <<db, sent, requests, posts, told>>

Send(t) ==
  /\ At(t, "produce", "send")
  /\ sent' = sent \cup {<<thr[t].wo, thr[t].report>>}
  /\ Goto(t, "load")
  /\ UNCHANGED <<db, requests, posts, told>>

\* An error of the product lookup or of the upload, which SiGREEN may have
\* accepted all the same: nothing is stored, the client is answered 500.
SendFails(t) ==
  /\ At(t, "produce", "send")
  /\ sent' \in {sent, sent \cup {<<thr[t].wo, thr[t].report>>}}
  /\ thr' = [thr EXCEPT ![t] = Free]
  /\ UNCHANGED <<db, requests, posts, told>>

-----------------------------------------------------------------------------
(* The change of the document *)

Missing(t) == thr[t].kind = "delete" /\ db[thr[t].wo] = None

Load(t) ==
  /\ thr[t].pc = "load" /\ ~Missing(t)
  /\ thr' = [thr EXCEPT ![t].base = db, ![t].pc = "save"]
  /\ UNCHANGED <<db, sent, requests, posts, told>>

\* Deleting a record that is not there is answered 404.
NotFound(t) ==
  /\ thr[t].pc = "load" /\ Missing(t)
  /\ thr' = [thr EXCEPT ![t] = Free]
  /\ UNCHANGED <<db, sent, requests, posts, told>>

\* _ensure_work_order
Ensured(rec) == IF rec = None THEN NewRecord ELSE rec

\* Mutants of Consumed: the footprint is added to the one there; the quantity
\* is added twice; a payload replaces the quantities there.
ConsumedAddsEnergy(rec, p) ==
  [rec EXCEPT !.ops[p.op] = IF @ = None THEN p.energy ELSE @ + p.energy,
              !.qty = Plus(@, p.qty)]
ConsumedTwice(rec, p) ==
  [rec EXCEPT !.ops[p.op] = p.energy, !.qty = Plus(Plus(@, p.qty), p.qty)]
ConsumedReplaces(rec, p) ==
  [rec EXCEPT !.ops[p.op] = p.energy, !.qty = [m \in Mat |-> p.qty[m]]]

\* The footprint replaces the operation's, quantities add up, and a listed
\* material whose lookup failed keeps the footprint it had.
Consumed(rec, p) ==
  [rec EXCEPT !.ops[p.op] = p.energy,
              !.qty = Plus(@, p.qty),
              !.priced = [m \in Mat |-> IF m \in p.found
                                        THEN rec.qty[m] + p.qty[m] ELSE @[m]]]

\* update_from_aas
Replaced(rec, p, r) ==
  [rec EXCEPT !.ops = r.ops, !.qty = [m \in Mat |-> p.qty[m]], !.priced = r.mats, !.pcf = r]

\* The record saved for the request of t; delete_work_order saves none.
Updated(t) ==
  LET q == thr[t]
      rec == Ensured(q.base[q.wo])
  IN  CASE q.kind = "consume" -> Consumed(rec, q.payload)
        [] q.kind = "produce" -> [rec EXCEPT !.pcf = q.report]
        [] q.kind = "aas"     -> Replaced(rec, q.payload, q.report)
        [] q.kind = "delete"  -> None

\* What the client may now rely on.
Acknowledged(t) ==
  LET q == thr[t]
      a == Promise(q.wo)
      last(f) == [f EXCEPT ![q.payload.op] = q.payload.energy]
  IN  CASE q.kind = "consume" -> [ops |-> last(a.ops), qty |-> Plus(a.qty, q.payload.qty),
                                  mats |-> a.mats \cup q.payload.found]
        [] q.kind = "produce" -> a
        [] q.kind = "aas"     -> [ops |-> last(Nothing), qty |-> [m \in Mat |-> q.payload.qty[m]],
                                  mats |-> q.payload.found]
        [] q.kind = "delete"  -> None

\* A request is owed no more than what is left of the promises.
StillOwed(q, left) == [q EXCEPT !.owed = @ \cap Ops(left.ops), !.mats = @ \cap left.mats]

Save(t) ==
  LET q == thr[t]
      left == IF Acknowledged(t) = None THEN NoPromise ELSE Acknowledged(t)
  IN
  /\ q.pc = "save"
  /\ db' = [q.base EXCEPT ![q.wo] = Updated(t)]
  /\ acked' = [acked EXCEPT ![q.wo] = Acknowledged(t)]
  /\ stale' = (stale \/ db # q.base)
  /\ thr' = [u \in Thread |->
               IF u = t THEN Free
               ELSE IF thr[u] # Free /\ thr[u].wo = q.wo THEN StillOwed(thr[u], left)
               ELSE thr[u]]
  /\ UNCHANGED <<sent, requests, posts, posted, refused>>

\* The instance restarts: requests in flight vanish.
Crash ==
  /\ \E t \in Thread : thr[t] # Free
  /\ thr' = [t \in Thread |-> Free]
  /\ UNCHANGED <<db, sent, requests, posts, told>>

Next ==
  \/ \E t \in Thread, w \in WO :
       \/ \E p \in Payload : Consume(t, w, p) \/ AasSubmitted(t, w, p)
       \/ Produce(t, w) \/ Delete(t, w)
  \/ \E t \in Thread :
       \/ Refuse(t) \/ ReadBop(t) \/ ReadMaterials(t) \/ Send(t) \/ SendFails(t)
       \/ Load(t) \/ NotFound(t) \/ Save(t)
  \/ Crash

Spec == Init /\ [][Next]_vars

-----------------------------------------------------------------------------

TypeOK ==
  /\ db \in Documents
  /\ thr \in [Thread -> {Free} \cup Request]
  /\ sent \subseteq WO \X Report
  /\ requests \in 0 .. MaxRequests /\ posts \in 0 .. MaxPosts
  /\ posted \in [WO -> Posts]
  /\ acked \in [WO -> {None} \cup Owed]
  /\ stale \in BOOLEAN
  /\ refused \subseteq WO

(***************************************************************************)
(* Safe under every interleaving, lost updates and crashes included.       *)
(***************************************************************************)

\* A report stored in a record has reached SiGREEN for that work order: no
\* order of production requests, deletions, AAS updates, failed uploads and
\* restarts makes a record show a report that was not submitted.
PcfWasSubmitted ==
  \A w \in WO : db[w] # None /\ db[w].pcf # None => <<w, db[w].pcf>> \in sent

\* Nothing is counted twice: every footprint in a record or in a submitted
\* report is one that was posted for its operation, and every quantity, and
\* every quantity a footprint was computed for, at most what was posted in
\* all, even when a save overwrites others or brings a deleted record back.
MadeOfPosts(w, ops, mats) ==
  /\ \A o \in Ops(ops) : ops[o] \in posted[w].ops[o]
  /\ AtMost(mats, posted[w].qty)

NothingCountedTwice ==
  /\ \A w \in WO : db[w] # None =>
       MadeOfPosts(w, db[w].ops, db[w].qty) /\ MadeOfPosts(w, db[w].bop, db[w].priced)
  /\ \A s \in sent : MadeOfPosts(s[1], s[2].ops, s[2].mats)

(***************************************************************************)
(* Safe while no save overwrites a change its thread has not seen.         *)
(***************************************************************************)

\* The document is what the acknowledged requests amount to: per operation
\* the last footprint, per material the sum and a footprint once there was
\* one, no record after a deletion.
RecordsAreExact ==
  ~stale => \A w \in WO :
    /\ (db[w] = None) = (acked[w] = None)
    /\ db[w] # None =>
         /\ db[w].ops = acked[w].ops /\ db[w].qty = acked[w].qty
         /\ Priced(db[w].priced) = acked[w].mats

\* A report about to be uploaded covers every operation, and if it is one
\* with materials every material with a footprint, that was acknowledged
\* before its request began and not removed since; and no request that is
\* owed an operation is refused, whatever consumptions, deletions and AAS
\* updates run between the two loads the report is made of.  Work orders that
\* began in the old format are excepted: what is left of it hides operations.
ReportsAreComplete ==
  ~stale =>
    /\ refused = {}
    /\ \A t \in Thread : At(t, "produce", "send") =>
         /\ thr[t].wo \notin Legacy => thr[t].owed \subseteq Ops(thr[t].report.ops)
         /\ thr[t].form = "bom" => thr[t].mats \subseteq Priced(thr[t].report.mats)

\* docs/API_References_PCF_Calculation_Hub.md:365: 400 is the answer "when no
\* prior ingestion exists", so never for a work order with an operation that
\* was acknowledged before the request began and not removed since.
RefusedOnlyWithoutIngestion == refused = {}
=============================================================================
