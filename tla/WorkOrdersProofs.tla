-------------------------- MODULE WorkOrdersProofs --------------------------
(***************************************************************************)
(* What holds of WorkOrders for every set of work orders, operations,      *)
(* materials and threads, every payload and every number of requests.      *)
(***************************************************************************)
EXTENDS WorkOrders, SumTheorems, TLAPS

\* What a request brings: consumption and AAS updates a payload, an AAS update
\* the report of its payload; and only production reads before it loads.
Serves(q) ==
  /\ q.kind \in {"consume", "aas"} => q.payload \in Payload
  /\ q.kind # "produce" => q.pc \in {"load", "save"}
  /\ q.kind = "aas" =>
       /\ q.report.ops = [Nothing EXCEPT ![q.payload.op] = q.payload.energy]
       /\ Priced(q.report.mats) = q.payload.found

Serving == {q \in Request : Serves(q)}
Threads == [Thread -> {Free} \cup Serving]
TypeInv == TypeOK /\ thr \in Threads

-----------------------------------------------------------------------------

\* The empty values have the types of the full ones.
LEMMA EmptyTypes ==
  /\ Nothing \in Footprints /\ Zero \in Quantities
  /\ NewRecord \in Record /\ NoReport \in Report /\ NoDocument \in Documents
  /\ NoPromise \in Owed
  <1>1. Nothing \in Footprints /\ Zero \in Quantities
    BY DEF Nothing, Zero, Footprints, Quantities
  <1> QED BY <1>1 DEF NewRecord, NoReport, NoDocument, NoPromise, Record, Report, Documents, Owed

\* The parts of a payload, and what they change.
LEMMA PayloadTypes ==
  ASSUME NEW p \in Payload
  PROVE  /\ p.op \in Op /\ p.energy \in Energy /\ p.found \in SUBSET Mat
         /\ p.qty \in Quantities /\ [m \in Mat |-> p.qty[m]] \in Quantities
         /\ \A f \in Footprints : [f EXCEPT ![p.op] = p.energy] \in Footprints
         /\ \A g \in Quantities : Plus(g, p.qty) \in Quantities
  <1>1. p.op \in Op /\ p.energy \in Energy /\ p.found \in SUBSET Mat /\ p.qty \in [Mat -> Qty]
    BY DEF Payload
  <1>2. p.qty \in Quantities
    BY <1>1, WorkOrdersAssumption DEF Quantities
  <1>3. [m \in Mat |-> p.qty[m]] \in Quantities
    BY <1>2 DEF Quantities
  <1>4. \A f \in Footprints : [f EXCEPT ![p.op] = p.energy] \in Footprints
    BY <1>1 DEF Footprints
  <1>5. \A g \in Quantities : Plus(g, p.qty) \in Quantities
    BY <1>2 DEF Quantities, Plus
  <1> QED BY <1>1, <1>2, <1>3, <1>4, <1>5

\* Consumed yields a record that differs in nothing but what was consumed.
LEMMA ConsumedType ==
  ASSUME NEW rec \in Record, NEW p \in Payload
  PROVE  /\ Consumed(rec, p) \in Record
         /\ Consumed(rec, p).ops = [rec.ops EXCEPT ![p.op] = p.energy]
         /\ Consumed(rec, p).qty = Plus(rec.qty, p.qty)
         /\ Priced(Consumed(rec, p).priced) = Priced(rec.priced) \cup p.found
         /\ Consumed(rec, p).pcf = rec.pcf /\ Consumed(rec, p).bop = rec.bop
  <1> DEFINE priced == [m \in Mat |-> IF m \in p.found THEN rec.qty[m] + p.qty[m]
                                      ELSE rec.priced[m]]
  <1>1. /\ rec.ops \in Footprints /\ rec.qty \in Quantities /\ rec.priced \in Quantities
        /\ DOMAIN rec = {"ops", "qty", "priced", "bop", "pcf"}
    BY DEF Record
  <1>2. priced \in Quantities
    BY <1>1, PayloadTypes DEF Quantities
  <1>3. Consumed(rec, p) = [rec EXCEPT !.ops = [rec.ops EXCEPT ![p.op] = p.energy],
                                       !.qty = Plus(rec.qty, p.qty), !.priced = priced]
    BY <1>1 DEF Consumed
  <1>5. Priced(priced) = Priced(rec.priced) \cup p.found
    <2>1. \A m \in p.found : m \in Mat /\ p.qty[m] > 0 /\ rec.qty[m] \in Nat /\ p.qty[m] \in Nat
      BY <1>1, PayloadTypes DEF Payload, Quantities
    <2>2. ASSUME NEW m \in Mat PROVE priced[m] > 0 <=> rec.priced[m] > 0 \/ m \in p.found
      <3>1. CASE m \in p.found
        <4>1. priced[m] = rec.qty[m] + p.qty[m] /\ p.qty[m] > 0
              /\ rec.qty[m] \in Nat /\ p.qty[m] \in Nat
          BY <2>1, <3>1
        <4> QED BY <3>1, <4>1
      <3>2. CASE m \notin p.found
        BY <3>2
      <3> QED BY <3>1, <3>2
    <2> HIDE DEF priced
    <2> QED BY <2>2, PayloadTypes DEF Priced
  <1> HIDE DEF priced
  <1>4. /\ [rec.ops EXCEPT ![p.op] = p.energy] \in Footprints
        /\ Plus(rec.qty, p.qty) \in Quantities
    BY <1>1, PayloadTypes
  <1> QED BY <1>1, <1>2, <1>3, <1>4, <1>5 DEF Record

\* Replaced yields a record of the payload and its report.
LEMMA ReplacedType ==
  ASSUME NEW rec \in Record, NEW p \in Payload, NEW r \in Report
  PROVE  /\ Replaced(rec, p, r) \in Record
         /\ Replaced(rec, p, r).ops = r.ops
         /\ Replaced(rec, p, r).qty = [m \in Mat |-> p.qty[m]] /\ Replaced(rec, p, r).priced = r.mats
         /\ Replaced(rec, p, r).pcf = r /\ Replaced(rec, p, r).bop = rec.bop
  <1>1. r.ops \in Footprints /\ r.mats \in Quantities
    BY DEF Report
  <1>2. [m \in Mat |-> p.qty[m]] \in Quantities
    BY PayloadTypes
  <1> QED BY <1>1, <1>2 DEF Replaced, Record

\* What the request of t saves is no record for a deletion, a record for any
\* other request, made from the one it loaded.
LEMMA UpdatedType ==
  ASSUME NEW t \in Thread, thr[t] \in Serving
  PROVE  LET q == thr[t]
             rec == Ensured(q.base[q.wo])
         IN  /\ rec \in Record
             /\ q.kind = "delete"  => Updated(t) = None
             /\ q.kind = "consume" => Updated(t) = Consumed(rec, q.payload)
             /\ q.kind = "produce" => Updated(t) = [rec EXCEPT !.pcf = q.report]
             /\ q.kind = "aas"     => Updated(t) = Replaced(rec, q.payload, q.report)
             /\ q.kind # "delete"  => Updated(t) \in Record
             /\ Updated(t) \in {None} \cup Record
  <1> DEFINE q == thr[t]
             rec == Ensured(q.base[q.wo])
  <1>1. /\ q.kind \in {"consume", "produce", "delete", "aas"}
        /\ q.wo \in WO /\ q.base \in Documents /\ q.report \in Report
    BY DEF Serving, Request
  <1>2. rec \in Record
    BY <1>1, EmptyTypes DEF Ensured, Documents
  <1>3. CASE q.kind = "consume"
    <2>1. Updated(t) = Consumed(rec, q.payload) /\ q.payload \in Payload
      BY <1>3 DEF Updated, Serving, Serves
    <2> QED BY <1>2, <1>3, <2>1, ConsumedType
  <1>4. CASE q.kind = "produce"
    <2>1. Updated(t) = [rec EXCEPT !.pcf = q.report]
      BY <1>4 DEF Updated
    <2> QED BY <1>1, <1>2, <1>4, <2>1 DEF Record
  <1>5. CASE q.kind = "aas"
    <2>1. Updated(t) = Replaced(rec, q.payload, q.report) /\ q.payload \in Payload
      BY <1>5 DEF Updated, Serving, Serves
    <2> QED BY <1>1, <1>2, <1>5, <2>1, ReplacedType
  <1>6. CASE q.kind = "delete"
    BY <1>2, <1>6 DEF Updated
  <1> QED BY <1>1, <1>3, <1>4, <1>5, <1>6

\* What a client may rely on after the request of t.
LEMMA AcknowledgedType ==
  ASSUME TypeInv, NEW t \in Thread, thr[t] \in Serving
  PROVE  LET q == thr[t]
             a == Promise(q.wo)
         IN  /\ a \in Owed
             /\ q.kind = "delete"  => Acknowledged(t) = None
             /\ q.kind = "consume" =>
                  Acknowledged(t) = [ops |-> [a.ops EXCEPT ![q.payload.op] = q.payload.energy],
                                     qty |-> Plus(a.qty, q.payload.qty),
                                     mats |-> a.mats \cup q.payload.found]
             /\ q.kind = "produce" => Acknowledged(t) = a
             /\ q.kind = "aas" =>
                  Acknowledged(t) = [ops |-> [Nothing EXCEPT ![q.payload.op] = q.payload.energy],
                                     qty |-> [m \in Mat |-> q.payload.qty[m]],
                                     mats |-> q.payload.found]
             /\ q.kind # "delete" => Acknowledged(t) \in Owed
             /\ Acknowledged(t) \in {None} \cup Owed
  <1> DEFINE q == thr[t]
             a == Promise(q.wo)
  <1>1. q.kind \in {"consume", "produce", "delete", "aas"} /\ q.wo \in WO
    BY DEF Serving, Request
  <1>2. a \in Owed
    BY <1>1, EmptyTypes DEF TypeInv, TypeOK, Promise
  <1>3. a.ops \in Footprints /\ a.qty \in Quantities /\ a.mats \in SUBSET Mat
    BY <1>2 DEF Owed
  <1>4. CASE q.kind = "consume"
    <2>1. q.payload \in Payload
      BY <1>4 DEF Serving, Serves
    <2>2. Acknowledged(t) = [ops |-> [a.ops EXCEPT ![q.payload.op] = q.payload.energy],
                             qty |-> Plus(a.qty, q.payload.qty),
                             mats |-> a.mats \cup q.payload.found]
      BY <1>4 DEF Acknowledged
    <2>3. [a.ops EXCEPT ![q.payload.op] = q.payload.energy] \in Footprints
      BY <1>3, <2>1, PayloadTypes
    <2>4. Plus(a.qty, q.payload.qty) \in Quantities
      BY <1>3, <2>1, PayloadTypes
    <2>m. a.mats \cup q.payload.found \in SUBSET Mat
      BY <1>3, <2>1, PayloadTypes
    <2>5. Acknowledged(t) \in Owed
      BY <2>2, <2>3, <2>4, <2>m DEF Owed
    <2> QED BY <1>2, <1>4, <2>2, <2>5
  <1>5. CASE q.kind = "produce"
    <2>1. Acknowledged(t) = a
      BY <1>5 DEF Acknowledged
    <2> QED BY <1>2, <1>5, <2>1
  <1>6. CASE q.kind = "aas"
    <2>1. q.payload \in Payload
      BY <1>6 DEF Serving, Serves
    <2>2. Acknowledged(t) = [ops |-> [Nothing EXCEPT ![q.payload.op] = q.payload.energy],
                             qty |-> [m \in Mat |-> q.payload.qty[m]],
                             mats |-> q.payload.found]
      BY <1>6 DEF Acknowledged
    <2>3. [Nothing EXCEPT ![q.payload.op] = q.payload.energy] \in Footprints
      BY <2>1, PayloadTypes, EmptyTypes
    <2>4. [m \in Mat |-> q.payload.qty[m]] \in Quantities
      BY <2>1, PayloadTypes
    <2>5. Acknowledged(t) \in Owed
      BY <1>3, <2>1, <2>2, <2>3, <2>4, PayloadTypes DEF Owed
    <2> QED BY <1>2, <1>6, <2>2, <2>5
  <1>7. CASE q.kind = "delete"
    BY <1>2, <1>7 DEF Acknowledged
  <1> QED BY <1>1, <1>4, <1>5, <1>6, <1>7

-----------------------------------------------------------------------------
(* Type correctness *)

\* TypeInv holds of the initial states.
LEMMA InitTypeInv == Init => TypeInv
  <1> SUFFICES ASSUME Init PROVE TypeInv
    OBVIOUS
  <1>1. PICK old \in SUBSET Legacy, f \in Footprints :
          /\ db = [w \in WO |-> IF w \in old THEN [NewRecord EXCEPT !.bop = f] ELSE None]
          /\ posted = [w \in WO |->
                         [ops |-> [o \in Op |-> IF w \in old THEN {f[o]} \ {None} ELSE {}],
                          qty |-> Zero]]
          /\ acked = [w \in WO |-> IF w \in old THEN NoPromise ELSE None]
    BY WorkOrdersAssumption DEF Init
  <1>2. db \in Documents
    <2>1. [NewRecord EXCEPT !.bop = f] \in Record
      BY EmptyTypes DEF Record
    <2> QED BY <1>1, <2>1 DEF Documents
  <1>3. posted \in [WO -> Posts]
    <2>1. \A w \in WO : [o \in Op |-> IF w \in old THEN {f[o]} \ {None} ELSE {}] \in [Op -> SUBSET Energy]
      BY DEF Footprints
    <2> QED BY <1>1, <2>1, EmptyTypes DEF Posts
  <1>4. acked \in [WO -> {None} \cup Owed]
    BY <1>1, EmptyTypes
  <1>5. thr \in Threads /\ thr \in [Thread -> {Free} \cup Request]
    BY DEF Init, Threads
  <1>6. requests \in 0 .. MaxRequests /\ posts \in 0 .. MaxPosts
    BY WorkOrdersAssumption DEF Init
  <1>7. sent \subseteq WO \X Report /\ stale \in BOOLEAN /\ refused \subseteq WO
    BY DEF Init
  <1> QED BY <1>2, <1>3, <1>4, <1>5, <1>6, <1>7 DEF TypeInv, TypeOK

\* A request arrives: nothing but its thread and the count of requests changes.
LEMMA ArriveTypes ==
  ASSUME TypeInv, NEW t \in Thread, NEW w \in WO,
         NEW k \in {"consume", "produce", "delete", "aas"}, NEW l \in {"load", "bop"},
         NEW p \in {None} \cup Payload, NEW r \in Report,
         k \in {"consume", "aas"} => p \in Payload,
         k # "produce" => l = "load",
         k = "aas" => r.ops = [Nothing EXCEPT ![p.op] = p.energy] /\ Priced(r.mats) = p.found,
         Arrive(t, w, k, l, p, r)
  PROVE  thr' \in Threads /\ requests' \in 0 .. MaxRequests
  <1> DEFINE new == [kind |-> k, pc |-> l, wo |-> w, payload |-> p, report |-> r, form |-> "plain",
                     base |-> NoDocument, owed |-> Ops(Promise(w).ops), mats |-> Promise(w).mats]
  <1>0. Promise(w) \in Owed
    BY EmptyTypes DEF Promise, TypeInv, TypeOK
  <1>1. new \in Request
    BY <1>0, EmptyTypes DEF Request, Ops, Owed
  <1>2. new \in Serving
    BY <1>1 DEF Serving, Serves
  <1>3. thr' \in Threads
    BY <1>2 DEF Arrive, TypeInv, Threads
  <1>4. requests' \in 0 .. MaxRequests
    BY WorkOrdersAssumption DEF Arrive, TypeInv, TypeOK
  <1> QED BY <1>3, <1>4

\* A payload that arrives is added to what was posted.
LEMMA PostedTypes ==
  ASSUME TypeInv, NEW w \in WO, NEW p \in Payload, Posted(w, p)
  PROVE  posted' \in [WO -> Posts] /\ posts' \in 0 .. MaxPosts
  <1> DEFINE ops == [posted[w].ops EXCEPT ![p.op] = @ \cup {p.energy}]
             qty == Plus(posted[w].qty, p.qty)
  <1>1. posted[w] \in Posts /\ posted[w].ops \in [Op -> SUBSET Energy]
        /\ posted[w].qty \in Quantities
    BY DEF TypeInv, TypeOK, Posts
  <1>2. ops \in [Op -> SUBSET Energy] /\ qty \in Quantities
    BY <1>1, PayloadTypes
  <1>3. posted' = [posted EXCEPT ![w] = [posted[w] EXCEPT !.ops = ops, !.qty = qty]]
    BY DEF Posted, TypeInv, TypeOK
  <1>4. posted' \in [WO -> Posts]
    <2> HIDE DEF ops, qty
    <2>1. [posted[w] EXCEPT !.ops = ops, !.qty = qty] \in Posts
      BY <1>1, <1>2 DEF Posts
    <2> QED BY <1>3, <2>1 DEF TypeInv, TypeOK
  <1>5. posts' \in 0 .. MaxPosts
    BY WorkOrdersAssumption DEF Posted, TypeInv, TypeOK
  <1> QED BY <1>4, <1>5

\* The report of an AAS update.
AasReport(p) ==
  [ops  |-> [Nothing EXCEPT ![p.op] = p.energy],
   mats |-> [m \in Mat |-> IF m \in p.found THEN p.qty[m] ELSE 0]]

\* The report of an AAS payload is a report, of the materials found.
LEMMA AasReportType ==
  ASSUME NEW p \in Payload
  PROVE  AasReport(p) \in Report /\ Priced(AasReport(p).mats) = p.found
  <1>1. [m \in Mat |-> IF m \in p.found THEN p.qty[m] ELSE 0] \in Quantities
    BY PayloadTypes DEF Quantities
  <1>2. \A m \in p.found : p.qty[m] > 0
    BY DEF Payload
  <1>3. Priced(AasReport(p).mats) = p.found
    <2>1. p.found \subseteq Mat
      BY PayloadTypes
    <2>2. \A m \in Mat : AasReport(p).mats[m] = IF m \in p.found THEN p.qty[m] ELSE 0
      BY DEF AasReport
    <2>3. \A m \in Mat : AasReport(p).mats[m] > 0 <=> m \in p.found
      BY <1>2, <2>2
    <2> QED BY <2>1, <2>3 DEF Priced
  <1> QED BY <1>1, <1>3, PayloadTypes, EmptyTypes DEF AasReport, Report

\* A thread whose request goes on with one of a request's values, or ends.
LEMMA ThreadMoves ==
  ASSUME thr \in Threads, NEW t \in Thread, NEW q \in {Free} \cup Serving,
         thr' = [thr EXCEPT ![t] = q]
  PROVE  thr' \in Threads
  BY DEF Threads

\* Steps of a request before it loads.
LEMMA ReadTypeInv ==
  ASSUME TypeInv, NEW t \in Thread,
         Refuse(t) \/ ReadBop(t) \/ ReadMaterials(t) \/ Send(t) \/ SendFails(t)
  PROVE  TypeInv'
  <1> DEFINE q == thr[t]
  <1>t. thr \in Threads /\ db \in Documents
    BY DEF TypeInv, TypeOK
  <1>q. q \in Serving /\ q.kind = "produce" /\ q \in Request /\ q.wo \in WO
        /\ q.report \in Report /\ thr[t] # Free
    <2>1. q.kind = "produce"
      BY DEF Refuse, ReadBop, ReadMaterials, Send, SendFails, At
    <2>2. q # Free
      BY <2>1 DEF Free
    <2> QED BY <2>1, <2>2, <1>t DEF Threads, Serving, Request
  <1>s. <<q.wo, q.report>> \in WO \X Report
    BY <1>q
  <1>1. CASE Refuse(t)
    <2>1. thr' \in Threads
      BY <1>1, <1>t, ThreadMoves DEF Refuse
    <2> QED BY <1>1, <1>q, <2>1 DEF Refuse, TypeInv, TypeOK, Threads, Serving
  <1>2. CASE ReadBop(t)
    <2>1. PICK f \in {"plain", "bom"} :
            thr' = [thr EXCEPT ![t].report.ops = Bop(db[q.wo]), ![t].form = f,
                               ![t].pc = IF f = "bom" THEN "mats" ELSE "send"]
      BY <1>2 DEF ReadBop
    <2>2. db[q.wo] \in Record
      BY <1>2, <1>t, <1>q DEF ReadBop, Documents
    <2>3. Bop(db[q.wo]) \in Footprints
      BY <2>2 DEF Bop, Record
    <2> DEFINE l == IF f = "bom" THEN "mats" ELSE "send"
               new == [q EXCEPT !.report.ops = Bop(db[q.wo]), !.form = f, !.pc = l]
               rep == [q.report EXCEPT !.ops = Bop(db[q.wo])]
    <2>4. rep \in Report
      BY <1>q, <2>3 DEF Report
    <2>5. new = [q EXCEPT !.report = rep, !.form = f, !.pc = l]
      BY <1>q DEF Request
    <2>6. new \in Request /\ new.kind = "produce"
      BY <1>q, <2>4, <2>5 DEF Request
    <2>7. new \in Serving
      BY <2>6 DEF Serving, Serves
    <2>8. thr' = [thr EXCEPT ![t] = new]
      BY <1>t, <2>1 DEF Threads
    <2>9. thr' \in Threads
      BY <1>t, <2>7, <2>8, ThreadMoves
    <2> QED BY <1>2, <2>9 DEF ReadBop, TypeInv, TypeOK, Threads, Serving, told
  <1>3. CASE ReadMaterials(t)
    <2> DEFINE mats == IF db[q.wo] = None THEN Zero ELSE Breakdown(db[q.wo])
               rep == [q.report EXCEPT !.mats = mats]
               new == [q EXCEPT !.report.mats = mats, !.pc = "send"]
    <2>1. mats \in Quantities
      BY <1>t, <1>q, EmptyTypes DEF Documents, Record, Breakdown
    <2> HIDE DEF mats
    <2>2. rep \in Report
      BY <1>q, <2>1 DEF Report
    <2>3. new = [q EXCEPT !.report = rep, !.pc = "send"]
      BY <1>q DEF Request
    <2>4. new \in Request /\ new.kind = "produce"
      BY <1>q, <2>2, <2>3 DEF Request
    <2>5. new \in Serving
      BY <2>4 DEF Serving, Serves
    <2>6. thr' = [thr EXCEPT ![t] = new]
      BY <1>3, <1>t DEF ReadMaterials, Threads, mats
    <2>7. thr' \in Threads
      BY <1>t, <2>5, <2>6, ThreadMoves
    <2> QED BY <1>3, <2>7 DEF ReadMaterials, TypeInv, TypeOK, Threads, Serving, told
  <1>4. CASE Send(t)
    <2> DEFINE new == [q EXCEPT !.pc = "load"]
    <2>1. new \in Serving
      BY <1>q DEF Request, Serving, Serves
    <2>2. thr' = [thr EXCEPT ![t] = new]
      BY <1>4, <1>t DEF Send, Goto, Threads
    <2>3. thr' \in Threads
      BY <1>t, <2>1, <2>2, ThreadMoves
    <2> QED BY <1>4, <1>s, <2>3 DEF Send, TypeInv, TypeOK, Threads, Serving, told
  <1>5. CASE SendFails(t)
    <2>1. thr' \in Threads
      BY <1>5, <1>t, ThreadMoves DEF SendFails
    <2> QED BY <1>5, <1>s, <2>1 DEF SendFails, TypeInv, TypeOK, Threads, Serving, told
  <1> QED BY <1>1, <1>2, <1>3, <1>4, <1>5
\* A request that is owed less is the same request.
LEMMA StillOwedKeeps ==
  ASSUME NEW q \in Request, NEW left
  PROVE  LET x == StillOwed(q, left)
         IN  /\ x \in Request /\ x.kind = q.kind /\ x.pc = q.pc /\ x.wo = q.wo
             /\ x.payload = q.payload /\ x.report = q.report /\ x.form = q.form
             /\ x.base = q.base
             /\ x.owed = q.owed \cap Ops(left.ops) /\ x.mats = q.mats \cap left.mats
  <1> DEFINE S == q.owed \cap Ops(left.ops)
             M == q.mats \cap left.mats
             x == [q EXCEPT !.owed = S, !.mats = M]
  <1>1. S \in SUBSET Op /\ M \in SUBSET Mat /\ StillOwed(q, left) = x
    BY DEF Request, StillOwed
  <1> HIDE DEF S, M
  <1>2. x \in Request /\ x.kind = q.kind /\ x.pc = q.pc /\ x.wo = q.wo
        /\ x.payload = q.payload /\ x.report = q.report /\ x.form = q.form
        /\ x.base = q.base /\ x.owed = S /\ x.mats = M
    BY <1>1 DEF Request
  <1> QED BY <1>1, <1>2 DEF S, M

\* Steps of a request from its load on.
LEMMA ChangeTypeInv ==
  ASSUME TypeInv, NEW t \in Thread, Load(t) \/ NotFound(t) \/ Save(t)
  PROVE  TypeInv'
  <1> DEFINE q == thr[t]
  <1>t. thr \in Threads /\ db \in Documents
    BY DEF TypeInv, TypeOK
  <1>q. q \in Serving /\ q \in Request /\ q.wo \in WO /\ q.base \in Documents
    <2>1. q # Free
      BY DEF Load, NotFound, Save, Free
    <2> QED BY <2>1, <1>t DEF Threads, Serving, Request
  <1>1. CASE Load(t)
    <2> DEFINE new == [q EXCEPT !.base = db, !.pc = "save"]
    <2>1. new \in Request /\ Serves(new)
      BY <1>q, <1>t DEF Request, Serving, Serves
    <2>2. thr' = [thr EXCEPT ![t] = new]
      BY <1>1, <1>t DEF Load, Threads
    <2>3. thr' \in Threads
      BY <1>t, <2>1, <2>2, ThreadMoves DEF Serving
    <2> QED BY <1>1, <2>3 DEF Load, TypeInv, TypeOK, Threads, Serving, told
  <1>2. CASE NotFound(t)
    <2>1. thr' \in Threads
      BY <1>2, <1>t, ThreadMoves DEF NotFound
    <2> QED BY <1>2, <2>1 DEF NotFound, TypeInv, TypeOK, Threads, Serving, told
  <1>3. CASE Save(t)
    <2> DEFINE left == IF Acknowledged(t) = None THEN NoPromise ELSE Acknowledged(t)
    <2>1. db' \in Documents
      <3>1. db' = [q.base EXCEPT ![q.wo] = Updated(t)]
        BY <1>3 DEF Save
      <3> QED BY <1>q, <3>1, UpdatedType DEF Documents
    <2>2. acked' \in [WO -> {None} \cup Owed]
      BY <1>3, <1>q, AcknowledgedType DEF Save, TypeInv, TypeOK
    <2>3. thr' = [u \in Thread |->
                    IF u = t THEN Free
                    ELSE IF thr[u] # Free /\ thr[u].wo = q.wo
                         THEN StillOwed(thr[u], left)
                         ELSE thr[u]]
      BY <1>3 DEF Save
    <2>4. ASSUME NEW x \in Serving PROVE StillOwed(x, left) \in Serving
      <3> HIDE DEF left
      <3>1. x \in Request /\ Serves(x)
        BY DEF Serving
      <3>2. StillOwed(x, left) \in Request
        BY <3>1, StillOwedKeeps
      <3>3. Serves(StillOwed(x, left))
        BY <3>1, StillOwedKeeps DEF Serves
      <3> QED BY <3>2, <3>3 DEF Serving
    <2>5. thr' \in Threads
      <3> HIDE DEF left
      <3> QED BY <1>t, <2>3, <2>4 DEF Threads
    <2>6. stale' \in BOOLEAN
      BY <1>3 DEF Save, TypeInv, TypeOK
    <2> QED BY <1>3, <2>1, <2>2, <2>5, <2>6 DEF Save, TypeInv, TypeOK, Threads, Serving
  <1> QED BY <1>1, <1>2, <1>3

\* What a save leaves of another request: everything but what it is owed of the
\* saved work order.
LEMMA SaveKeepsOthers ==
  ASSUME NEW t \in Thread, NEW u \in Thread, u # t, Save(t), thr[u] # Free, thr[u] \in Request
  PROVE  LET left == IF Acknowledged(t) = None THEN NoPromise ELSE Acknowledged(t)
             mine == thr[u].wo = thr[t].wo
         IN  /\ thr'[u].kind = thr[u].kind /\ thr'[u].pc = thr[u].pc /\ thr'[u].wo = thr[u].wo
             /\ thr'[u].report = thr[u].report /\ thr'[u].base = thr[u].base
             /\ thr'[u].form = thr[u].form
             /\ thr'[u].owed = IF mine THEN thr[u].owed \cap Ops(left.ops) ELSE thr[u].owed
             /\ thr'[u].mats = IF mine THEN thr[u].mats \cap left.mats ELSE thr[u].mats
  <1> DEFINE left == IF Acknowledged(t) = None THEN NoPromise ELSE Acknowledged(t)
  <1>1. thr'[u] = IF thr[u].wo = thr[t].wo THEN StillOwed(thr[u], left) ELSE thr[u]
    BY DEF Save
  <1> HIDE DEF left
  <1>2. CASE thr[u].wo = thr[t].wo
    <2> DEFINE x == StillOwed(thr[u], left)
    <2>1. /\ x.kind = thr[u].kind /\ x.pc = thr[u].pc /\ x.wo = thr[u].wo
          /\ x.report = thr[u].report /\ x.base = thr[u].base /\ x.form = thr[u].form
          /\ x.owed = thr[u].owed \cap Ops(left.ops) /\ x.mats = thr[u].mats \cap left.mats
      BY StillOwedKeeps
    <2>2. thr'[u] = x
      BY <1>1, <1>2
    <2> HIDE DEF x
    <2>3. /\ thr'[u].kind = thr[u].kind /\ thr'[u].pc = thr[u].pc /\ thr'[u].wo = thr[u].wo
          /\ thr'[u].report = thr[u].report /\ thr'[u].base = thr[u].base
          /\ thr'[u].form = thr[u].form
          /\ thr'[u].owed = thr[u].owed \cap Ops(left.ops)
          /\ thr'[u].mats = thr[u].mats \cap left.mats
      BY <2>1, <2>2
    <2> QED BY <2>3, <1>2 DEF left
  <1>3. CASE thr[u].wo # thr[t].wo
    BY <1>1, <1>3
  <1> QED BY <1>2, <1>3

\* TypeInv is inductive.
LEMMA NextTypeInv == TypeInv /\ [Next]_vars => TypeInv'
  <1> SUFFICES ASSUME TypeInv, [Next]_vars PROVE TypeInv'
    OBVIOUS
  <1>1. ASSUME NEW t \in Thread, NEW w \in WO, NEW p \in Payload, Consume(t, w, p)
        PROVE  TypeInv'
    <2>1. thr' \in Threads /\ requests' \in 0 .. MaxRequests
      BY <1>1, EmptyTypes, ArriveTypes DEF Consume
    <2>2. posted' \in [WO -> Posts] /\ posts' \in 0 .. MaxPosts
      BY <1>1, PostedTypes DEF Consume
    <2> QED BY <1>1, <2>1, <2>2 DEF Consume, Arrive, TypeInv, TypeOK, Threads, Serving
  <1>2. ASSUME NEW t \in Thread, NEW w \in WO, NEW p \in Payload, AasSubmitted(t, w, p)
        PROVE  TypeInv'
    <2>1. /\ Arrive(t, w, "aas", "load", p, AasReport(p))
          /\ sent' = sent \cup {<<w, AasReport(p)>>}
          /\ Posted(w, p)
      BY <1>2 DEF AasSubmitted, AasReport
    <2>2. AasReport(p).ops = [Nothing EXCEPT ![p.op] = p.energy]
      BY DEF AasReport
    <2>3. thr' \in Threads /\ requests' \in 0 .. MaxRequests
      BY <2>1, <2>2, AasReportType, ArriveTypes
    <2>4. posted' \in [WO -> Posts] /\ posts' \in 0 .. MaxPosts
      BY <2>1, PostedTypes
    <2> QED BY <2>1, <2>3, <2>4, AasReportType DEF Arrive, TypeInv, TypeOK, Threads, Serving
  <1>3. ASSUME NEW t \in Thread, NEW w \in WO, Produce(t, w) \/ Delete(t, w)
        PROVE  TypeInv'
    <2>1. thr' \in Threads /\ requests' \in 0 .. MaxRequests
      BY <1>3, EmptyTypes, ArriveTypes DEF Produce, Delete
    <2> QED BY <1>3, <2>1 DEF Produce, Delete, Arrive, TypeInv, TypeOK, Threads, Serving
  <1>4. CASE Crash
    <2>1. thr' \in Threads
      BY <1>4 DEF Crash, Threads
    <2> QED BY <1>4, <2>1 DEF Crash, TypeInv, TypeOK, Threads, Serving, told
  <1>5. CASE UNCHANGED vars
    BY <1>5 DEF vars, told, TypeInv, TypeOK, Threads
  <1> QED BY <1>1, <1>2, <1>3, <1>4, <1>5, ReadTypeInv, ChangeTypeInv DEF Next

\* The document, the requests and what clients were told keep their types
\* through every interleaving of requests and restarts.
THEOREM TypeCorrect == Spec => []TypeOK
  <1>1. TypeInv => TypeOK
    BY DEF TypeInv
  <1> QED BY <1>1, InitTypeInv, NextTypeInv, PTL DEF Spec
-----------------------------------------------------------------------------
(* Reports that reached SiGREEN *)

\* The reports in document d are among those in S.
AllIn(d, S) == \A w \in WO : d[w] # None /\ d[w].pcf # None => <<w, d[w].pcf>> \in S

\* So are those of the document a request has loaded, and the one a request
\* is about to store.
HoldsIn(q, S) ==
  /\ AllIn(q.base, S)
  /\ q.kind \in {"produce", "aas"} /\ q.pc \in {"load", "save"} => <<q.wo, q.report>> \in S

SubmittedInv ==
  /\ AllIn(db, sent)
  /\ \A t \in Thread : thr[t] # Free => HoldsIn(thr[t], sent)

\* SubmittedInv holds of the initial states.
LEMMA InitSubmitted == Init => SubmittedInv
  <1> SUFFICES ASSUME Init PROVE SubmittedInv
    OBVIOUS
  <1>1. PICK old \in SUBSET Legacy, f \in Footprints :
          db = [w \in WO |-> IF w \in old THEN [NewRecord EXCEPT !.bop = f] ELSE None]
    BY WorkOrdersAssumption DEF Init
  <1>2. \A w \in WO : db[w] # None => db[w].pcf = None
    BY <1>1 DEF NewRecord
  <1> QED BY <1>2 DEF Init, SubmittedInv, AllIn

\* One thread moves on, or ends, while the document stays as it is.
LEMMA MoveSubmitted ==
  ASSUME SubmittedInv, NEW t \in Thread, db' = db, sent \subseteq sent',
         \A u \in Thread \ {t} : thr'[u] = thr[u],
         thr'[t] # Free => HoldsIn(thr'[t], sent')
  PROVE  SubmittedInv'
  <1>1. AllIn(db', sent')
    BY DEF SubmittedInv, AllIn
  <1>2. ASSUME NEW u \in Thread, thr'[u] # Free PROVE HoldsIn(thr'[u], sent')
    <2>1. CASE u = t
      BY <1>2, <2>1
    <2>2. CASE u # t
      <3>1. thr'[u] = thr[u] /\ HoldsIn(thr[u], sent)
        BY <1>2, <2>2 DEF SubmittedInv
      <3> QED BY <3>1 DEF HoldsIn, AllIn
    <2> QED BY <2>1, <2>2
  <1> QED BY <1>1, <1>2 DEF SubmittedInv

\* A request arrives, with a report that was submitted if it is to be stored.
LEMMA ArriveSubmitted ==
  ASSUME TypeInv, SubmittedInv, NEW t \in Thread, NEW w \in WO, NEW k, NEW l, NEW p, NEW r,
         Arrive(t, w, k, l, p, r), sent \subseteq sent',
         k \in {"produce", "aas"} /\ l \in {"load", "save"} => <<w, r>> \in sent'
  PROVE  SubmittedInv'
  <1>1. /\ \A u \in Thread \ {t} : thr'[u] = thr[u]
        /\ thr'[t].kind = k /\ thr'[t].pc = l /\ thr'[t].wo = w /\ thr'[t].report = r
        /\ thr'[t].base = NoDocument
        /\ db' = db
    BY DEF Arrive, TypeInv, TypeOK
  <1>2. HoldsIn(thr'[t], sent')
    BY <1>1 DEF HoldsIn, AllIn, NoDocument
  <1> QED BY <1>1, <1>2, MoveSubmitted

\* The record a request saves has the report it loaded, or its own, or none.
LEMMA SaveSubmitted ==
  ASSUME TypeInv, SubmittedInv, NEW t \in Thread, Save(t)
  PROVE  SubmittedInv'
  <1> DEFINE q == thr[t]
             rec == Ensured(q.base[q.wo])
  <1>t. thr \in Threads
    BY DEF TypeInv
  <1>q. q \in Serving /\ q \in Request /\ q.wo \in WO /\ q.base \in Documents
        /\ q.report \in Report /\ HoldsIn(q, sent) /\ sent' = sent /\ q.pc = "save"
    <2>1. q # Free /\ q.pc = "save" /\ sent' = sent
      BY DEF Save, Free
    <2> QED BY <2>1, <1>t DEF Threads, Serving, Request, SubmittedInv
  <1>1. db' = [q.base EXCEPT ![q.wo] = Updated(t)]
    BY DEF Save
  <1>2. rec \in Record /\ (rec.pcf # None => <<q.wo, rec.pcf>> \in sent)
    <2>1. CASE q.base[q.wo] = None
      BY <2>1, EmptyTypes DEF Ensured, NewRecord
    <2>2. CASE q.base[q.wo] # None
      BY <2>2, <1>q DEF Ensured, Documents, HoldsIn, AllIn
    <2> QED BY <2>1, <2>2
  <1>3. Updated(t) # None /\ Updated(t).pcf # None => <<q.wo, Updated(t).pcf>> \in sent
    <2>1. CASE q.kind = "consume"
      <3>1. Updated(t).pcf = rec.pcf
        BY <2>1, <1>q, <1>2, UpdatedType, ConsumedType DEF Serving, Serves
      <3> QED BY <3>1, <1>2
    <2>2. CASE q.kind = "produce"
      <3>1. Updated(t).pcf = q.report
        BY <2>2, <1>q, <1>2, UpdatedType DEF Record
      <3> QED BY <3>1, <2>2, <1>q DEF HoldsIn
    <2>3. CASE q.kind = "aas"
      <3>1. q.payload \in Payload /\ q.report \in Report
        BY <2>3, <1>q DEF Serving, Serves
      <3>2. Updated(t) = Replaced(rec, q.payload, q.report)
        BY <2>3, <1>q, UpdatedType
      <3>3. Replaced(rec, q.payload, q.report).pcf = q.report
        BY <3>1, <1>2, ReplacedType
      <3> QED BY <3>2, <3>3, <2>3, <1>q DEF HoldsIn
    <2>4. CASE q.kind = "delete"
      BY <2>4, <1>q, UpdatedType
    <2> QED BY <2>1, <2>2, <2>3, <2>4, <1>q DEF Request
  <1>4. AllIn(db', sent')
    <2>1. \A w \in WO : w # q.wo => db'[w] = q.base[w]
      BY <1>1, <1>q DEF Documents
    <2>2. db'[q.wo] = Updated(t)
      BY <1>1, <1>q DEF Documents
    <2> QED BY <2>1, <2>2, <1>3, <1>q DEF AllIn, HoldsIn
  <1>5. ASSUME NEW u \in Thread, thr'[u] # Free PROVE HoldsIn(thr'[u], sent')
    <2>1. u # t /\ thr[u] # Free
      BY <1>5 DEF Save
    <2>2. thr[u] \in Request /\ HoldsIn(thr[u], sent)
      BY <2>1, <1>t DEF Threads, Serving, SubmittedInv
    <2>3. /\ thr'[u].kind = thr[u].kind /\ thr'[u].pc = thr[u].pc /\ thr'[u].wo = thr[u].wo
          /\ thr'[u].report = thr[u].report /\ thr'[u].base = thr[u].base
      BY <2>1, <2>2, SaveKeepsOthers
    <2> QED BY <2>2, <2>3, <1>q DEF HoldsIn
  <1> QED BY <1>4, <1>5 DEF SubmittedInv

\* SubmittedInv is inductive, given the types.
LEMMA NextSubmitted == TypeInv /\ SubmittedInv /\ [Next]_vars => SubmittedInv'
  <1> SUFFICES ASSUME TypeInv, SubmittedInv, [Next]_vars PROVE SubmittedInv'
    OBVIOUS
  <1>1. ASSUME NEW t \in Thread, NEW w \in WO, NEW p \in Payload, Consume(t, w, p)
        PROVE  SubmittedInv'
    BY <1>1, ArriveSubmitted DEF Consume
  <1>2. ASSUME NEW t \in Thread, NEW w \in WO, NEW p \in Payload, AasSubmitted(t, w, p)
        PROVE  SubmittedInv'
    <2>1. Arrive(t, w, "aas", "load", p, AasReport(p)) /\ sent' = sent \cup {<<w, AasReport(p)>>}
      BY <1>2 DEF AasSubmitted, AasReport
    <2> QED BY <2>1, ArriveSubmitted
  <1>3. ASSUME NEW t \in Thread, NEW w \in WO, Produce(t, w) PROVE SubmittedInv'
    BY <1>3, ArriveSubmitted DEF Produce
  <1>4. ASSUME NEW t \in Thread, NEW w \in WO, Delete(t, w) PROVE SubmittedInv'
    BY <1>4, ArriveSubmitted DEF Delete
  <1>5. ASSUME NEW t \in Thread, Refuse(t) \/ SendFails(t) \/ NotFound(t) PROVE SubmittedInv'
    <2>1. /\ db' = db /\ sent \subseteq sent' /\ thr'[t] = Free
          /\ \A u \in Thread \ {t} : thr'[u] = thr[u]
      BY <1>5 DEF Refuse, SendFails, NotFound, TypeInv, TypeOK
    <2> QED BY <2>1, MoveSubmitted
  <1>6. ASSUME NEW t \in Thread, ReadBop(t) \/ ReadMaterials(t) PROVE SubmittedInv'
    <2>1. /\ db' = db /\ sent' = sent /\ thr[t] # Free
          /\ \A u \in Thread \ {t} : thr'[u] = thr[u]
      BY <1>6 DEF ReadBop, ReadMaterials, At, Free, TypeInv, TypeOK
    <2>2. thr'[t].base = thr[t].base /\ thr'[t].pc \in {"mats", "send"}
      BY <1>6, <2>1 DEF ReadBop, ReadMaterials, TypeInv, TypeOK, Request
    <2>3. HoldsIn(thr'[t], sent')
      BY <2>1, <2>2 DEF SubmittedInv, HoldsIn
    <2> QED BY <2>1, <2>3, MoveSubmitted
  <1>7. ASSUME NEW t \in Thread, Send(t) PROVE SubmittedInv'
    <2>1. /\ db' = db /\ sent' = sent \cup {<<thr[t].wo, thr[t].report>>} /\ thr[t] # Free
          /\ \A u \in Thread \ {t} : thr'[u] = thr[u]
      BY <1>7 DEF Send, Goto, At, Free, TypeInv, TypeOK
    <2>2. thr'[t].base = thr[t].base /\ thr'[t].wo = thr[t].wo /\ thr'[t].report = thr[t].report
      BY <1>7, <2>1 DEF Send, Goto, TypeInv, TypeOK, Request
    <2>3. HoldsIn(thr'[t], sent')
      BY <2>1, <2>2 DEF SubmittedInv, HoldsIn, AllIn
    <2> QED BY <2>1, <2>3, MoveSubmitted
  <1>8. ASSUME NEW t \in Thread, Load(t) PROVE SubmittedInv'
    <2>1. /\ db' = db /\ sent' = sent /\ thr[t] # Free /\ thr[t].pc = "load"
          /\ \A u \in Thread \ {t} : thr'[u] = thr[u]
      BY <1>8 DEF Load, Free, TypeInv, TypeOK
    <2>2. /\ thr'[t].base = db /\ thr'[t].wo = thr[t].wo /\ thr'[t].report = thr[t].report
          /\ thr'[t].kind = thr[t].kind
      BY <1>8, <2>1 DEF Load, TypeInv, TypeOK, Request
    <2>3. HoldsIn(thr'[t], sent')
      BY <2>1, <2>2 DEF SubmittedInv, HoldsIn
    <2> QED BY <2>1, <2>3, MoveSubmitted
  <1>9. CASE Crash
    BY <1>9 DEF Crash, SubmittedInv, AllIn
  <1>10. CASE UNCHANGED vars
    BY <1>10 DEF vars, SubmittedInv, AllIn, HoldsIn
  <1> QED
    BY <1>1, <1>2, <1>3, <1>4, <1>5, <1>6, <1>7, <1>8, <1>9, <1>10, SaveSubmitted DEF Next

\* No interleaving of productions, deletions, consumptions, AAS updates,
\* failed uploads and restarts stores a report that did not reach SiGREEN.
THEOREM StoredReportsWereSubmitted == Spec => []PcfWasSubmitted
  <1>1. SubmittedInv => PcfWasSubmitted
    BY DEF SubmittedInv, AllIn, PcfWasSubmitted
  <1> QED BY <1>1, InitTypeInv, NextTypeInv, InitSubmitted, NextSubmitted, PTL DEF Spec
-----------------------------------------------------------------------------
(* Records that no stale save touched *)

\* A record is what the acknowledged requests amount to.
Matches(rec, a) ==
  /\ (rec = None) = (a = None)
  /\ rec # None => rec.ops = a.ops /\ rec.qty = a.qty /\ Priced(rec.priced) = a.mats

\* A request that saves over the document it loaded keeps its record exact.
LEMMA SaveExact ==
  ASSUME TypeInv, RecordsAreExact, NEW t \in Thread, Save(t)
  PROVE  RecordsAreExact'
  <1> DEFINE q == thr[t]
             rec == Ensured(q.base[q.wo])
             a == Promise(q.wo)
  <1> SUFFICES ASSUME ~stale', NEW w \in WO PROVE Matches(db'[w], acked'[w])
    BY DEF RecordsAreExact, Matches
  <1>t. thr \in Threads /\ db \in Documents /\ acked \in [WO -> {None} \cup Owed]
    BY DEF TypeInv, TypeOK
  <1>q. q \in Serving /\ q.wo \in WO
    <2>1. q # Free
      BY DEF Save, Free
    <2> QED BY <2>1, <1>t DEF Threads, Serving, Request
  <1>1. ~stale /\ db = q.base
    BY DEF Save
  <1>2. /\ db' = [db EXCEPT ![q.wo] = Updated(t)]
        /\ acked' = [acked EXCEPT ![q.wo] = Acknowledged(t)]
    BY <1>1 DEF Save
  <1>3. \A v \in WO : Matches(db[v], acked[v])
    BY <1>1 DEF RecordsAreExact, Matches
  <1>4. rec \in Record /\ rec.ops = a.ops /\ rec.qty = a.qty /\ Priced(rec.priced) = a.mats
    <2>1. rec \in Record
      BY <1>q, UpdatedType
    <2>2. Matches(db[q.wo], acked[q.wo])
      BY <1>3, <1>q
    <2>3. CASE db[q.wo] = None
      <3>1. rec = NewRecord
        BY <2>3, <1>1 DEF Ensured
      <3>2. acked[q.wo] = None
        BY <2>2, <2>3 DEF Matches
      <3>3. Priced(Zero) = {}
        BY DEF Priced, Zero
      <3> QED BY <2>1, <3>1, <3>2, <3>3 DEF NewRecord, NoPromise, Promise
    <2>4. CASE db[q.wo] # None
      <3>1. rec = db[q.wo]
        BY <2>4, <1>1 DEF Ensured
      <3>2. /\ acked[q.wo] # None /\ db[q.wo].ops = acked[q.wo].ops
            /\ db[q.wo].qty = acked[q.wo].qty /\ Priced(db[q.wo].priced) = acked[q.wo].mats
        BY <2>2, <2>4 DEF Matches
      <3> QED BY <2>1, <3>1, <3>2 DEF Promise
    <2> QED BY <2>1, <2>3, <2>4
  <1>5. Matches(Updated(t), Acknowledged(t))
    <2>n. None \notin Record /\ None \notin Owed
      BY NoneAssumption
    <2>1. CASE q.kind = "delete"
      BY <2>1, <1>q, UpdatedType, AcknowledgedType DEF Matches
    <2>2. CASE q.kind = "produce"
      <3>1. Updated(t) = [rec EXCEPT !.pcf = q.report] /\ Updated(t) \in Record
        BY <2>2, <1>q, UpdatedType
      <3>2. Acknowledged(t) = a /\ a \in Owed
        BY <2>2, <1>q, AcknowledgedType
      <3>3. Updated(t).ops = rec.ops /\ Updated(t).qty = rec.qty /\ Updated(t).priced = rec.priced
        BY <3>1, <1>4 DEF Record
      <3> QED BY <3>1, <3>2, <3>3, <1>4, <2>n DEF Matches
    <2>3. CASE q.kind = "consume"
      <3>p. q.payload \in Payload
        BY <2>3, <1>q DEF Serving, Serves
      <3>1. Updated(t) = Consumed(rec, q.payload) /\ Updated(t) \in Record
        BY <2>3, <1>q, UpdatedType
      <3>2. Acknowledged(t) = [ops |-> [a.ops EXCEPT ![q.payload.op] = q.payload.energy],
                               qty |-> Plus(a.qty, q.payload.qty),
                               mats |-> a.mats \cup q.payload.found]
            /\ Acknowledged(t) \in Owed
        BY <2>3, <1>q, AcknowledgedType
      <3>3. /\ Updated(t).ops = [rec.ops EXCEPT ![q.payload.op] = q.payload.energy]
            /\ Updated(t).qty = Plus(rec.qty, q.payload.qty)
            /\ Priced(Updated(t).priced) = Priced(rec.priced) \cup q.payload.found
        BY <3>p, <3>1, <1>4, ConsumedType
      <3>4. /\ Updated(t).ops = Acknowledged(t).ops /\ Updated(t).qty = Acknowledged(t).qty
            /\ Priced(Updated(t).priced) = Acknowledged(t).mats
        BY <3>2, <3>3, <1>4
      <3> QED BY <3>1, <3>2, <3>4, <2>n DEF Matches
    <2>4. CASE q.kind = "aas"
      <3>p. q.payload \in Payload /\ q.report \in Report
            /\ q.report.ops = [Nothing EXCEPT ![q.payload.op] = q.payload.energy]
            /\ Priced(q.report.mats) = q.payload.found
        BY <2>4, <1>q DEF Serving, Serves, Request
      <3>1. Updated(t) = Replaced(rec, q.payload, q.report) /\ Updated(t) \in Record
        BY <2>4, <1>q, UpdatedType
      <3>2. Acknowledged(t) = [ops |-> [Nothing EXCEPT ![q.payload.op] = q.payload.energy],
                               qty |-> [m \in Mat |-> q.payload.qty[m]],
                               mats |-> q.payload.found]
            /\ Acknowledged(t) \in Owed
        BY <2>4, <1>q, AcknowledgedType
      <3>3. /\ Updated(t).ops = q.report.ops /\ Updated(t).qty = [m \in Mat |-> q.payload.qty[m]]
            /\ Updated(t).priced = q.report.mats
        BY <3>p, <3>1, <1>4, ReplacedType
      <3>4. /\ Updated(t).ops = Acknowledged(t).ops /\ Updated(t).qty = Acknowledged(t).qty
            /\ Priced(Updated(t).priced) = Acknowledged(t).mats
        BY <3>p, <3>2, <3>3
      <3> QED BY <3>1, <3>2, <3>4, <2>n DEF Matches
    <2> QED BY <2>1, <2>2, <2>3, <2>4, <1>q DEF Serving, Request
  <1> QED BY <1>2, <1>3, <1>5, <1>t DEF Documents

\* RecordsAreExact holds of the initial states and is inductive, given the
\* types: no other step changes the document, the promises or stale.
LEMMA ExactIsInductive ==
  /\ Init => RecordsAreExact
  /\ TypeInv /\ RecordsAreExact /\ [Next]_vars => RecordsAreExact'
  <1>1. ASSUME Init PROVE RecordsAreExact
    <2>1. PICK old \in SUBSET Legacy, f \in Footprints :
            /\ db = [w \in WO |-> IF w \in old THEN [NewRecord EXCEPT !.bop = f] ELSE None]
            /\ acked = [w \in WO |-> IF w \in old THEN NoPromise ELSE None]
      BY <1>1, WorkOrdersAssumption DEF Init
    <2>2. LET r == [NewRecord EXCEPT !.bop = f] IN
          r \in Record /\ r.ops = Nothing /\ r.qty = Zero /\ Priced(r.priced) = {}
      BY EmptyTypes DEF NewRecord, Record, Priced, Zero
    <2>3. /\ NoPromise \in Owed /\ NoPromise.ops = Nothing /\ NoPromise.qty = Zero
          /\ NoPromise.mats = {}
      BY EmptyTypes DEF NoPromise
    <2>4. None \notin Record /\ None \notin Owed
      BY NoneAssumption
    <2> QED BY <2>1, <2>2, <2>3, <2>4 DEF RecordsAreExact
  <1>2. ASSUME TypeInv, RecordsAreExact, [Next]_vars PROVE RecordsAreExact'
    <2>1. CASE UNCHANGED <<db, acked, stale>>
      BY <1>2, <2>1 DEF RecordsAreExact
    <2>2. CASE \E t \in Thread : Save(t)
      BY <1>2, <2>2, SaveExact
    <2>3. UNCHANGED <<db, acked, stale>> \/ \E t \in Thread : Save(t)
      <3>1. ASSUME NEW t \in Thread, NEW w \in WO, NEW k, NEW l, NEW p, NEW r,
                   Arrive(t, w, k, l, p, r)
            PROVE  UNCHANGED <<db, acked, stale>>
        BY <3>1 DEF Arrive
      <3>2. ASSUME NEW t \in Thread, NEW w \in WO, NEW p \in Payload,
                   Consume(t, w, p) \/ AasSubmitted(t, w, p)
            PROVE  UNCHANGED <<db, acked, stale>>
        BY <3>1, <3>2 DEF Consume, AasSubmitted
      <3>3. ASSUME NEW t \in Thread, NEW w \in WO, Produce(t, w) \/ Delete(t, w)
            PROVE  UNCHANGED <<db, acked, stale>>
        BY <3>1, <3>3 DEF Produce, Delete
      <3>4. ASSUME NEW t \in Thread,
                   \/ Refuse(t) \/ ReadBop(t) \/ ReadMaterials(t) \/ Send(t) \/ SendFails(t)
                   \/ Load(t) \/ NotFound(t)
            PROVE  UNCHANGED <<db, acked, stale>>
        BY <3>4 DEF Refuse, ReadBop, ReadMaterials, Send, SendFails, Load, NotFound, told
      <3>5. CASE Crash
        BY <3>5 DEF Crash, told
      <3>6. CASE UNCHANGED vars
        BY <3>6 DEF vars, told
      <3> QED BY <1>2, <3>2, <3>3, <3>4, <3>5, <3>6 DEF Next
    <2> QED BY <2>1, <2>2, <2>3
  <1> QED BY <1>1, <1>2

\* While every save is of the document it loaded, each record is what the
\* acknowledged requests amount to.
THEOREM UnracedRecordsAreExact == Spec => []RecordsAreExact
  BY InitTypeInv, NextTypeInv, ExactIsInductive, PTL DEF Spec
-----------------------------------------------------------------------------
(* Reports of production *)

\* Only a work order that started in the old format has footprints in it.
NoOldFormat(d) == \A w \in WO \ Legacy : d[w] # None => Ops(d[w].bop) = {}

\* A client is owed nothing that is not acknowledged, and what has been read
\* of a report covers what its client is owed.
Covers(q) ==
  /\ NoOldFormat(q.base)
  /\ q.owed \subseteq Ops(Promise(q.wo).ops) /\ q.mats \subseteq Promise(q.wo).mats
  /\ (q.pc \in {"mats", "send"} /\ q.wo \notin Legacy /\ ~stale) =>
       q.owed \subseteq Ops(q.report.ops)
  /\ (q.pc = "send" /\ q.form = "bom" /\ ~stale) => q.mats \subseteq Priced(q.report.mats)

CoverInv ==
  /\ ~stale => refused = {}
  /\ NoOldFormat(db)
  /\ \A t \in Thread : thr[t] # Free => Covers(thr[t])

\* CoverInv holds of the initial states.
LEMMA InitCover == Init => CoverInv
  <1> SUFFICES ASSUME Init PROVE CoverInv
    OBVIOUS
  <1>1. PICK old \in SUBSET Legacy, f \in Footprints :
          db = [w \in WO |-> IF w \in old THEN [NewRecord EXCEPT !.bop = f] ELSE None]
    BY WorkOrdersAssumption DEF Init
  <1>2. NoOldFormat(db)
    BY <1>1 DEF NoOldFormat
  <1> QED BY <1>2 DEF Init, CoverInv

\* One thread moves on while the document and the promises stay as they are.
LEMMA MoveCovers ==
  ASSUME CoverInv, NEW t \in Thread, UNCHANGED <<db, acked, stale>>,
         \A u \in Thread \ {t} : thr'[u] = thr[u],
         thr'[t] # Free => Covers(thr[t])',
         ~stale => refused' = {}
  PROVE  CoverInv'
  <1>1. ASSUME NEW u \in Thread, thr'[u] # Free PROVE Covers(thr[u])'
    <2>1. CASE u = t
      BY <1>1, <2>1
    <2>2. CASE u # t
      <3>1. thr'[u] = thr[u] /\ Covers(thr[u])
        BY <1>1, <2>2 DEF CoverInv
      <3> QED BY <3>1 DEF Covers, Promise
    <2> QED BY <2>1, <2>2
  <1> QED BY <1>1 DEF CoverInv, NoOldFormat

\* A request arrives.
LEMMA ArriveCovers ==
  ASSUME TypeInv, CoverInv, NEW t \in Thread, NEW w \in WO, NEW k, NEW l \in {"load", "bop"},
         NEW p, NEW r, Arrive(t, w, k, l, p, r)
  PROVE  CoverInv'
  <1>1. /\ \A u \in Thread \ {t} : thr'[u] = thr[u]
        /\ thr'[t].pc = l /\ thr'[t].wo = w /\ thr'[t].base = NoDocument
        /\ thr'[t].owed = Ops(Promise(w).ops) /\ thr'[t].mats = Promise(w).mats
        /\ UNCHANGED <<db, acked, stale, refused>>
    BY DEF Arrive, TypeInv, TypeOK
  <1>2. Covers(thr[t])'
    BY <1>1 DEF Covers, NoOldFormat, NoDocument, Promise
  <1> QED BY <1>1, <1>2, MoveCovers DEF CoverInv

\* Nobody who is owed an operation is refused: without a stale save the record
\* still has it.
LEMMA RefuseCovers ==
  ASSUME TypeInv, CoverInv, RecordsAreExact, NEW t \in Thread, Refuse(t)
  PROVE  CoverInv'
  <1> DEFINE q == thr[t]
  <1>q. q # Free /\ q \in Request /\ q.wo \in WO
    <2>1. q # Free
      BY DEF Refuse, At, Free
    <2> QED BY <2>1 DEF TypeInv, TypeOK, Request
  <1>1. ~stale => q.owed = {}
    <2> SUFFICES ASSUME ~stale PROVE q.owed = {}
      OBVIOUS
    <2>1. q.owed \subseteq Ops(Promise(q.wo).ops)
      BY <1>q DEF CoverInv, Covers
    <2>2. CASE db[q.wo] = None
      <3>1. acked[q.wo] = None
        BY <2>2, <1>q DEF RecordsAreExact
      <3>2. Ops(NoPromise.ops) = {}
        BY DEF NoPromise, Nothing, Ops
      <3> QED BY <2>1, <3>1, <3>2 DEF Promise
    <2>3. CASE db[q.wo] # None
      <3>1. acked[q.wo] # None /\ db[q.wo].ops = acked[q.wo].ops
        BY <2>3, <1>q DEF RecordsAreExact
      <3>2. Ops(Bop(db[q.wo])) = {}
        BY <2>3 DEF Refuse
      <3>3. Ops(db[q.wo].ops) = {}
        BY <3>2 DEF Bop
      <3> QED BY <2>1, <3>1, <3>3 DEF Promise
    <2> QED BY <2>2, <2>3
  <1>2. ~stale => refused' = {}
    BY <1>1 DEF Refuse, CoverInv
  <1>3. /\ UNCHANGED <<db, acked, stale>> /\ thr'[t] = Free
        /\ \A u \in Thread \ {t} : thr'[u] = thr[u]
    BY DEF Refuse, TypeInv, TypeOK
  <1> QED BY <1>2, <1>3, MoveCovers

\* The report read from a record has every operation its client is owed.
LEMMA ReadBopCovers ==
  ASSUME TypeInv, CoverInv, RecordsAreExact, NEW t \in Thread, ReadBop(t)
  PROVE  CoverInv'
  <1> DEFINE q == thr[t]
  <1>q. q # Free /\ q \in Request /\ q.wo \in WO
    <2>1. q # Free
      BY DEF ReadBop, At, Free
    <2> QED BY <2>1 DEF TypeInv, TypeOK, Request
  <1>1. /\ UNCHANGED <<db, acked, stale, refused>>
        /\ \A u \in Thread \ {t} : thr'[u] = thr[u]
        /\ thr'[t].base = q.base /\ thr'[t].owed = q.owed /\ thr'[t].wo = q.wo
        /\ thr'[t].mats = q.mats /\ (thr'[t].pc = "send" => thr'[t].form # "bom")
        /\ thr'[t].report.ops = Bop(db[q.wo])
    BY <1>q DEF ReadBop, told, TypeInv, TypeOK, Request, Report
  <1>2. (q.wo \notin Legacy /\ ~stale) => q.owed \subseteq Ops(Bop(db[q.wo]))
    <2> SUFFICES ASSUME q.wo \notin Legacy, ~stale PROVE q.owed \subseteq Ops(Bop(db[q.wo]))
      OBVIOUS
    <2>1. q.owed \subseteq Ops(Promise(q.wo).ops)
      BY <1>q DEF CoverInv, Covers
    <2>2. db[q.wo] # None
      BY DEF ReadBop
    <2>3. db[q.wo].ops = acked[q.wo].ops /\ acked[q.wo] # None
      BY <1>q, <2>2 DEF RecordsAreExact
    <2>4. Bop(db[q.wo]) = db[q.wo].ops
      BY <1>q, <2>2 DEF CoverInv, NoOldFormat, Bop
    <2> QED BY <2>1, <2>3, <2>4 DEF Promise
  <1>3. Covers(thr[t])'
    BY <1>1, <1>2, <1>q DEF CoverInv, Covers, Promise
  <1> QED BY <1>1, <1>3, MoveCovers DEF CoverInv

\* The materials read have every one with a footprint its client is owed,
\* whatever happened to the record since its operations were read.
LEMMA ReadMaterialsCovers ==
  ASSUME TypeInv, CoverInv, RecordsAreExact, NEW t \in Thread, ReadMaterials(t)
  PROVE  CoverInv'
  <1> DEFINE q == thr[t]
             mats == IF db[q.wo] = None THEN Zero ELSE Breakdown(db[q.wo])
  <1>q. q # Free /\ q \in Request /\ q.wo \in WO
    <2>1. q # Free
      BY DEF ReadMaterials, At, Free
    <2> QED BY <2>1 DEF TypeInv, TypeOK, Request
  <1>1. /\ UNCHANGED <<db, acked, stale, refused>>
        /\ \A u \in Thread \ {t} : thr'[u] = thr[u]
        /\ thr'[t].base = q.base /\ thr'[t].owed = q.owed /\ thr'[t].wo = q.wo
        /\ thr'[t].mats = q.mats /\ thr'[t].report.mats = mats
        /\ thr'[t].report.ops = q.report.ops /\ q.pc = "mats"
    BY <1>q DEF ReadMaterials, At, told, TypeInv, TypeOK, Request, Report
  <1>2. ~stale => q.mats \subseteq Priced(mats)
    <2> SUFFICES ASSUME ~stale PROVE q.mats \subseteq Priced(mats)
      OBVIOUS
    <2>1. q.mats \subseteq Promise(q.wo).mats
      BY <1>q DEF CoverInv, Covers
    <2>2. CASE db[q.wo] = None
      BY <2>1, <2>2, <1>q DEF RecordsAreExact, Promise, NoPromise
    <2>3. CASE db[q.wo] # None
      BY <2>1, <2>3, <1>q DEF RecordsAreExact, Promise, Breakdown
    <2> QED BY <2>2, <2>3
  <1>3. Covers(thr[t])'
    <2> HIDE DEF mats
    <2> QED BY <1>1, <1>2, <1>q DEF CoverInv, Covers, Promise
  <1> QED BY <1>1, <1>3, MoveCovers DEF CoverInv

\* The other steps before the load change nothing a report must cover.
LEMMA QuietCovers ==
  ASSUME TypeInv, CoverInv, NEW t \in Thread,
         Send(t) \/ SendFails(t) \/ Load(t) \/ NotFound(t)
  PROVE  CoverInv'
  <1> DEFINE q == thr[t]
  <1>q. q # Free /\ q \in Request
    <2>1. q # Free
      BY DEF Send, SendFails, Load, NotFound, At, Free
    <2> QED BY <2>1 DEF TypeInv, TypeOK
  <1>1. /\ UNCHANGED <<db, acked, stale, refused>>
        /\ \A u \in Thread \ {t} : thr'[u] = thr[u]
    BY DEF Send, SendFails, Load, NotFound, Goto, told, TypeInv, TypeOK
  <1>2. thr'[t] # Free => Covers(thr[t])'
    <2>1. CASE Send(t)
      <3>1. /\ thr'[t].base = q.base /\ thr'[t].owed = q.owed /\ thr'[t].wo = q.wo
            /\ thr'[t].mats = q.mats
            /\ thr'[t].pc = "load"
        BY <1>q, <2>1 DEF Send, Goto, TypeInv, TypeOK, Request
      <3> QED BY <1>1, <1>q, <3>1 DEF CoverInv, Covers, Promise
    <2>2. CASE Load(t)
      <3>1. /\ thr'[t].base = db /\ thr'[t].owed = q.owed /\ thr'[t].wo = q.wo
            /\ thr'[t].mats = q.mats
            /\ thr'[t].pc = "save"
        BY <1>q, <2>2 DEF Load, TypeInv, TypeOK, Request
      <3> QED BY <1>1, <1>q, <3>1 DEF CoverInv, Covers, Promise, NoOldFormat
    <2>3. CASE SendFails(t) \/ NotFound(t)
      BY <2>3 DEF SendFails, NotFound, TypeInv, TypeOK
    <2> QED BY <2>1, <2>2, <2>3
  <1> QED BY <1>1, <1>2, MoveCovers DEF CoverInv

\* A save takes from what clients are owed what it removes, and brings no
\* footprint in the old format.
LEMMA SaveCovers ==
  ASSUME TypeInv, CoverInv, NEW t \in Thread, Save(t)
  PROVE  CoverInv'
  <1> DEFINE q == thr[t]
             rec == Ensured(q.base[q.wo])
             left == IF Acknowledged(t) = None THEN NoPromise ELSE Acknowledged(t)
  <1>t. thr \in Threads
    BY DEF TypeInv
  <1>q. q \in Serving /\ q \in Request /\ q.wo \in WO /\ q.base \in Documents
        /\ q.report \in Report /\ NoOldFormat(q.base)
    <2>1. q # Free
      BY DEF Save, Free
    <2> QED BY <2>1, <1>t DEF Threads, Serving, Request, CoverInv, Covers
  <1>1. /\ db' = [q.base EXCEPT ![q.wo] = Updated(t)]
        /\ acked' = [acked EXCEPT ![q.wo] = Acknowledged(t)]
        /\ refused' = refused /\ (~stale' => ~stale)
    BY DEF Save
  <1>2. NoOldFormat(db')
    <2>1. rec \in Record /\ (q.wo \notin Legacy => Ops(rec.bop) = {})
      <3>1. CASE q.base[q.wo] = None
        BY <3>1, EmptyTypes DEF Ensured, NewRecord, Nothing, Ops
      <3>2. CASE q.base[q.wo] # None
        BY <3>2, <1>q DEF Ensured, Documents, NoOldFormat
      <3> QED BY <3>1, <3>2
    <2>2. Updated(t) # None => Updated(t).bop = rec.bop
      <3>1. CASE q.kind = "consume"
        <4>1. Updated(t) = Consumed(rec, q.payload) /\ q.payload \in Payload
          BY <3>1, <1>q, UpdatedType DEF Serving, Serves
        <4>2. Consumed(rec, q.payload).bop = rec.bop
          BY <4>1, <2>1, ConsumedType
        <4> QED BY <4>1, <4>2
      <3>2. CASE q.kind = "produce"
        <4>1. Updated(t) = [rec EXCEPT !.pcf = q.report]
          BY <3>2, <1>q, UpdatedType
        <4> QED BY <4>1, <2>1 DEF Record
      <3>3. CASE q.kind = "aas"
        <4>1. Updated(t) = Replaced(rec, q.payload, q.report) /\ q.payload \in Payload
          BY <3>3, <1>q, UpdatedType DEF Serving, Serves
        <4>2. Replaced(rec, q.payload, q.report).bop = rec.bop
          BY <4>1, <2>1, <1>q, ReplacedType
        <4> QED BY <4>1, <4>2
      <3>4. CASE q.kind = "delete"
        BY <3>4, <1>q, UpdatedType
      <3> QED BY <3>1, <3>2, <3>3, <3>4, <1>q DEF Request
    <2>3. \A w \in WO : db'[w] = IF w = q.wo THEN Updated(t) ELSE q.base[w]
      BY <1>1, <1>q DEF Documents
    <2> QED BY <2>1, <2>2, <2>3, <1>q DEF NoOldFormat
  <1>3. ASSUME NEW u \in Thread, thr'[u] # Free PROVE Covers(thr[u])'
    <2>1. u # t /\ thr[u] # Free
      BY <1>3 DEF Save
    <2>2. thr[u] \in Request /\ thr[u].wo \in WO /\ Covers(thr[u])
      BY <2>1, <1>t DEF Threads, Serving, Request, CoverInv
    <2>3. /\ thr'[u].pc = thr[u].pc /\ thr'[u].wo = thr[u].wo
          /\ thr'[u].report = thr[u].report /\ thr'[u].base = thr[u].base
          /\ thr'[u].form = thr[u].form
          /\ thr'[u].owed = IF thr[u].wo = q.wo THEN thr[u].owed \cap Ops(left.ops) ELSE thr[u].owed
          /\ thr'[u].mats = IF thr[u].wo = q.wo THEN thr[u].mats \cap left.mats ELSE thr[u].mats
      BY <2>1, <2>2, SaveKeepsOthers
    <2>4. thr'[u].owed \subseteq thr[u].owed /\ thr'[u].mats \subseteq thr[u].mats
      BY <2>3
    <2>5. /\ thr'[u].owed \subseteq Ops(Promise(thr[u].wo)'.ops)
          /\ thr'[u].mats \subseteq Promise(thr[u].wo)'.mats
      <3>1. CASE thr[u].wo = q.wo
        <4>1. Promise(thr[u].wo)' = left
          BY <1>1, <1>q, <2>3, <3>1 DEF TypeInv, TypeOK, Promise
        <4> QED BY <2>3, <3>1, <4>1
      <3>2. CASE thr[u].wo # q.wo
        <4>1. Promise(thr[u].wo)' = Promise(thr[u].wo)
          BY <1>1, <2>2, <2>3, <3>2 DEF TypeInv, TypeOK, Promise
        <4> QED BY <2>2, <2>3, <3>2, <4>1 DEF Covers
      <3> QED BY <3>1, <3>2
    <2>6. NoOldFormat(thr'[u].base)
      BY <2>2, <2>3 DEF Covers
    <2> QED BY <1>1, <2>2, <2>3, <2>4, <2>5, <2>6 DEF Covers
  <1> QED BY <1>1, <1>2, <1>3 DEF CoverInv

\* CoverInv is inductive, given the types and exact records.
LEMMA NextCover == TypeInv /\ RecordsAreExact /\ CoverInv /\ [Next]_vars => CoverInv'
  <1> SUFFICES ASSUME TypeInv, RecordsAreExact, CoverInv, [Next]_vars PROVE CoverInv'
    OBVIOUS
  <1>1. ASSUME NEW t \in Thread, NEW w \in WO, NEW p \in Payload,
               Consume(t, w, p) \/ AasSubmitted(t, w, p)
        PROVE  CoverInv'
    BY <1>1, ArriveCovers DEF Consume, AasSubmitted
  <1>2. ASSUME NEW t \in Thread, NEW w \in WO, Produce(t, w) \/ Delete(t, w) PROVE CoverInv'
    BY <1>2, ArriveCovers DEF Produce, Delete
  <1>3. CASE Crash
    BY <1>3 DEF Crash, told, CoverInv, NoOldFormat
  <1>4. CASE UNCHANGED vars
    BY <1>4 DEF vars, told, CoverInv, Covers, Promise, NoOldFormat
  <1> QED BY <1>1, <1>2, <1>3, <1>4, RefuseCovers, ReadBopCovers, ReadMaterialsCovers,
     QuietCovers, SaveCovers DEF Next

\* While every save is of the document it loaded, a report covers every
\* operation and every material its client was owed, though it is made of two
\* loads, and no client that is owed an operation is refused.
THEOREM UnracedReportsAreComplete == Spec => []ReportsAreComplete
  <1>1. TypeInv /\ CoverInv => ReportsAreComplete
    <2> SUFFICES ASSUME TypeInv, CoverInv, ~stale, NEW t \in Thread, At(t, "produce", "send")
                 PROVE  /\ thr[t].wo \notin Legacy => thr[t].owed \subseteq Ops(thr[t].report.ops)
                        /\ thr[t].form = "bom" => thr[t].mats \subseteq Priced(thr[t].report.mats)
      BY DEF ReportsAreComplete, CoverInv
    <2>1. thr[t] # Free
      BY DEF At, Free
    <2> QED BY <2>1 DEF At, CoverInv, Covers
  <1> QED
    BY <1>1, InitTypeInv, NextTypeInv, ExactIsInductive, InitCover, NextCover, PTL DEF Spec
-----------------------------------------------------------------------------
(* Nothing is counted twice *)

\* What the payload of request q is still to add to material m of w.
Adds(q, w, m) == IF q # Free /\ q.wo = w /\ q.payload # None THEN q.payload.qty[m] ELSE 0

\* What the requests T are still to add, by work order and material.
ComingOf(T) == [w \in WO |-> [m \in Mat |-> SumFunction([t \in Thread |-> Adds(T[t], w, m)])]]

\* Footprints and quantities that were posted, in P, for their work order.
Made(P, ops, mats) == (\A o \in Ops(ops) : ops[o] \in P.ops[o]) /\ AtMost(mats, P.qty)

\* A record whose quantities leave room, in what was posted, for what is coming.
Counted(rec, P, C) ==
  /\ \A o \in Ops(rec.ops) : rec.ops[o] \in P.ops[o]
  /\ \A o \in Ops(rec.bop) : rec.bop[o] \in P.ops[o]
  /\ AtMost(rec.priced, rec.qty)
  /\ \A m \in Mat : rec.qty[m] + C[m] <= P.qty[m]

AllCounted(d, P, C) == \A w \in WO : d[w] # None => Counted(d[w], P[w], C[w])

\* A request brings what was posted, and has loaded a document with room for it.
RequestCounted(q, P, C) ==
  /\ q.payload # None => q.payload.energy \in P[q.wo].ops[q.payload.op]
  /\ Made(P[q.wo], q.report.ops, q.report.mats)
  /\ q.kind = "aas" => AtMost(q.report.mats, q.payload.qty)
  /\ AllCounted(q.base, P, C)

CountedInv ==
  /\ AllCounted(db, posted, ComingOf(thr))
  /\ \A w \in WO, m \in Mat : ComingOf(thr)[w][m] <= posted[w].qty[m]
  /\ \A t \in Thread : thr[t] # Free => RequestCounted(thr[t], posted, ComingOf(thr))
  /\ \A s \in sent : Made(posted[s[1]], s[2].ops, s[2].mats)

\* What a request is still to add is a natural number.
LEMMA AddsType ==
  ASSUME NEW q \in {Free} \cup Serving, NEW w, NEW m \in Mat
  PROVE  Adds(q, w, m) \in Nat
  <1>1. CASE q = Free
    BY <1>1 DEF Adds
  <1>2. CASE q \in Serving
    <2>1. q.payload \in {None} \cup Payload
      BY <1>2 DEF Serving, Request
    <2>2. q.payload \in Payload => q.payload.qty[m] \in Nat
      BY PayloadTypes DEF Quantities
    <2> QED BY <2>1, <2>2 DEF Adds
  <1> QED BY <1>1, <1>2

\* The sums over all requests are sums of numbers.
LEMMA ComingType ==
  ASSUME NEW T \in Threads, NEW w \in WO, NEW m \in Mat
  PROVE  LET f == [t \in Thread |-> Adds(T[t], w, m)]
         IN  /\ Summable(f) /\ DOMAIN f = Thread
             /\ ComingOf(T)[w][m] = SumFunction(f) /\ ComingOf(T)[w][m] \in Nat
             /\ \A t \in Thread : Adds(T[t], w, m) <= ComingOf(T)[w][m]
  <1> DEFINE f == [t \in Thread |-> Adds(T[t], w, m)]
  <1>1. \A t \in Thread : f[t] \in Nat
    BY AddsType DEF Threads
  <1>2. DOMAIN f = Thread
    OBVIOUS
  <1>3. ComingOf(T)[w][m] = SumFunction(f)
    BY DEF ComingOf
  <1>4. \A t \in Thread : f[t] = Adds(T[t], w, m)
    OBVIOUS
  <1> HIDE DEF f
  <1>5. Summable(f)
    BY <1>1, <1>2, ThreadAssumption DEF Summable
  <1>6. \A t \in DOMAIN f : f[t] >= 0
    BY <1>1, <1>2
  <1>7. SumFunction(f) \in Nat /\ \A t \in DOMAIN f : f[t] <= SumFunction(f)
    BY <1>5, <1>6, SumNat
  <1> QED BY <1>2, <1>3, <1>4, <1>5, <1>7 DEF f

\* When no request adds more than before, no more is coming.
LEMMA ComingShrinks ==
  ASSUME NEW T \in Threads, NEW U \in Threads,
         \A t \in Thread, w \in WO, m \in Mat : Adds(U[t], w, m) <= Adds(T[t], w, m)
  PROVE  \A w \in WO, m \in Mat : ComingOf(U)[w][m] <= ComingOf(T)[w][m]
  <1> TAKE w \in WO, m \in Mat
  <1> DEFINE f == [t \in Thread |-> Adds(T[t], w, m)]
             g == [t \in Thread |-> Adds(U[t], w, m)]
  <1>1. /\ Summable(f) /\ DOMAIN f = Thread /\ ComingOf(T)[w][m] = SumFunction(f)
        /\ Summable(g) /\ DOMAIN g = Thread /\ ComingOf(U)[w][m] = SumFunction(g)
    BY ComingType
  <1>2. \A t \in DOMAIN g : g[t] <= f[t]
    OBVIOUS
  <1> HIDE DEF f, g
  <1> QED BY <1>1, <1>2, SumAtMost

\* When one request changes, so does what is coming.
LEMMA ComingChanges ==
  ASSUME NEW T \in Threads, NEW U \in Threads, NEW t \in Thread, NEW w \in WO, NEW m \in Mat,
         \A u \in Thread : u # t => Adds(U[u], w, m) = Adds(T[u], w, m)
  PROVE  ComingOf(U)[w][m] = ComingOf(T)[w][m] - Adds(T[t], w, m) + Adds(U[t], w, m)
  <1> DEFINE f == [u \in Thread |-> Adds(T[u], w, m)]
             g == [u \in Thread |-> Adds(U[u], w, m)]
  <1>1. /\ Summable(f) /\ DOMAIN f = Thread /\ ComingOf(T)[w][m] = SumFunction(f)
        /\ Summable(g) /\ DOMAIN g = Thread /\ ComingOf(U)[w][m] = SumFunction(g)
    BY ComingType
  <1>2. (\A u \in DOMAIN f : u # t => f[u] = g[u])
        /\ f[t] = Adds(T[t], w, m) /\ g[t] = Adds(U[t], w, m)
    OBVIOUS
  <1> HIDE DEF f, g
  <1> QED BY <1>1, <1>2, SumChange

\* What is posted grows, and what is coming by no more.
Grows(P, C, Q, D) ==
  \A w \in WO :
    /\ \A o \in Op : P[w].ops[o] \subseteq Q[w].ops[o]
    /\ \A m \in Mat : P[w].qty[m] <= Q[w].qty[m] /\ D[w][m] + P[w].qty[m] <= C[w][m] + Q[w].qty[m]

Sums == [WO -> [Mat -> Nat]]

\* What is still to come is a number for each operation and material.
LEMMA ComingIsSums ==
  ASSUME NEW T \in Threads
  PROVE  ComingOf(T) \in Sums
  <1>1. \A w \in WO, m \in Mat : ComingOf(T)[w][m] \in Nat
    BY ComingType
  <1> QED BY <1>1 DEF ComingOf, Sums

\* What was made of posts still is, and what left room still does.
LEMMA GrowthKeeps ==
  ASSUME NEW P \in [WO -> Posts], NEW Q \in [WO -> Posts], NEW C \in Sums, NEW D \in Sums,
         Grows(P, C, Q, D)
  PROVE  /\ \A w \in WO, r \in Report :
              Made(P[w], r.ops, r.mats) => Made(Q[w], r.ops, r.mats)
         /\ \A d \in Documents : AllCounted(d, P, C) => AllCounted(d, Q, D)
         /\ \A q \in Serving : RequestCounted(q, P, C) => RequestCounted(q, Q, D)
  <1>1. \A w \in WO : P[w].qty \in [Mat -> Nat] /\ Q[w].qty \in [Mat -> Nat]
    BY DEF Posts, Quantities
  <1>2. ASSUME NEW w \in WO, NEW f \in Quantities, AtMost(f, P[w].qty)
        PROVE  AtMost(f, Q[w].qty)
    BY <1>1, <1>2 DEF AtMost, Grows, Quantities
  <1>3. ASSUME NEW w \in WO, NEW f \in Footprints, \A o \in Ops(f) : f[o] \in P[w].ops[o]
        PROVE  \A o \in Ops(f) : f[o] \in Q[w].ops[o]
    BY <1>3 DEF Ops, Grows
  <1>4. ASSUME NEW w \in WO, NEW r \in Report, Made(P[w], r.ops, r.mats)
        PROVE  Made(Q[w], r.ops, r.mats)
    BY <1>2, <1>3, <1>4 DEF Made, Report
  <1>5. ASSUME NEW w \in WO, NEW rec \in Record, Counted(rec, P[w], C[w])
        PROVE  Counted(rec, Q[w], D[w])
    <2>1. rec.ops \in Footprints /\ rec.bop \in Footprints /\ rec.qty \in [Mat -> Nat]
      BY DEF Record, Quantities
    <2>2. \A o \in Ops(rec.ops) : rec.ops[o] \in Q[w].ops[o]
      BY <1>3, <1>5, <2>1 DEF Counted
    <2>3. \A o \in Ops(rec.bop) : rec.bop[o] \in Q[w].ops[o]
      BY <1>3, <1>5, <2>1 DEF Counted
    <2>4. ASSUME NEW m \in Mat PROVE rec.qty[m] + D[w][m] <= Q[w].qty[m]
      <3>1. rec.qty[m] + C[w][m] <= P[w].qty[m]
        BY <1>5 DEF Counted
      <3>2. D[w][m] + P[w].qty[m] <= C[w][m] + Q[w].qty[m]
        BY DEF Grows
      <3>3. /\ rec.qty[m] \in Nat /\ C[w][m] \in Nat /\ D[w][m] \in Nat
            /\ P[w].qty[m] \in Nat /\ Q[w].qty[m] \in Nat
        BY <1>1, <2>1 DEF Sums
      <3> QED BY <3>1, <3>2, <3>3
    <2> QED BY <1>5, <2>2, <2>3, <2>4 DEF Counted
  <1>6. ASSUME NEW d \in Documents, AllCounted(d, P, C)
        PROVE  AllCounted(d, Q, D)
    BY <1>5, <1>6 DEF AllCounted, Documents
  <1>7. ASSUME NEW q \in Serving, RequestCounted(q, P, C)
        PROVE  RequestCounted(q, Q, D)
    <2>1. q.wo \in WO /\ q.base \in Documents /\ q.report \in Report /\ q.payload \in {None} \cup Payload
      BY DEF Serving, Request
    <2>2. q.payload # None => q.payload.energy \in Q[q.wo].ops[q.payload.op]
      <3>1. q.payload # None => q.payload.op \in Op
        BY <2>1, PayloadTypes
      <3> QED BY <1>7, <2>1, <3>1 DEF RequestCounted, Grows
    <2> QED BY <1>4, <1>6, <1>7, <2>1, <2>2 DEF RequestCounted
  <1> QED BY <1>4, <1>6, <1>7

\* What a step that only adds to the posts has to show.
LEMMA CountedKeeps ==
  ASSUME TypeInv, CountedInv, thr' \in Threads, posted' \in [WO -> Posts],
         Grows(posted, ComingOf(thr), posted', ComingOf(thr')),
         AllCounted(db', posted', ComingOf(thr')),
         \A t \in Thread : thr'[t] # Free =>
           thr'[t] = thr[t] \/ RequestCounted(thr'[t], posted', ComingOf(thr')),
         \A s \in sent' : s \in sent \/ Made(posted'[s[1]], s[2].ops, s[2].mats)
  PROVE  CountedInv'
  <1>1. thr \in Threads /\ posted \in [WO -> Posts] /\ sent \subseteq WO \X Report
    BY DEF TypeInv, TypeOK
  <1>2. ComingOf(thr) \in Sums /\ ComingOf(thr') \in Sums
    BY <1>1, ComingIsSums
  <1> DEFINE C == ComingOf(thr)
             D == ComingOf(thr')
  <1>3. ASSUME NEW w \in WO, NEW m \in Mat PROVE D[w][m] <= posted'[w].qty[m]
    <2>1. C[w][m] <= posted[w].qty[m] /\ D[w][m] + posted[w].qty[m] <= C[w][m] + posted'[w].qty[m]
      BY DEF CountedInv, Grows
    <2>2. C[w][m] \in Nat /\ D[w][m] \in Nat
      BY <1>2 DEF Sums
    <2>3. posted[w].qty[m] \in Nat /\ posted'[w].qty[m] \in Nat
      BY <1>1 DEF Posts, Quantities
    <2> HIDE DEF C, D
    <2> QED BY <2>1, <2>2, <2>3
  <1>4. ASSUME NEW t \in Thread, thr'[t] # Free PROVE RequestCounted(thr'[t], posted', D)
    <2>1. CASE thr'[t] = thr[t]
      <3>1. thr[t] \in Serving /\ RequestCounted(thr[t], posted, C)
        BY <1>1, <1>4, <2>1 DEF Threads, CountedInv
      <3> QED BY <1>1, <1>2, <2>1, <3>1, GrowthKeeps
    <2> QED BY <1>4, <2>1
  <1>5. ASSUME NEW s \in sent' PROVE Made(posted'[s[1]], s[2].ops, s[2].mats)
    <2>1. CASE s \in sent
      <3>1. s[1] \in WO /\ s[2] \in Report /\ Made(posted[s[1]], s[2].ops, s[2].mats)
        BY <1>1, <2>1 DEF CountedInv
      <3> QED BY <1>1, <1>2, <3>1, GrowthKeeps
    <2> QED BY <2>1
  <1> QED BY <1>3, <1>4, <1>5 DEF CountedInv

\* CountedInv holds of the initial states.
LEMMA InitCounted == Init => CountedInv
  <1> SUFFICES ASSUME Init PROVE CountedInv
    OBVIOUS
  <1>1. PICK old \in SUBSET Legacy, f \in Footprints :
          /\ db = [w \in WO |-> IF w \in old THEN [NewRecord EXCEPT !.bop = f] ELSE None]
          /\ posted = [w \in WO |->
                         [ops |-> [o \in Op |-> IF w \in old THEN {f[o]} \ {None} ELSE {}],
                          qty |-> Zero]]
    BY WorkOrdersAssumption DEF Init
  <1>2. thr = [t \in Thread |-> Free] /\ sent = {}
    BY DEF Init
  <1>3. thr \in Threads
    BY InitTypeInv DEF TypeInv
  <1>4. ASSUME NEW w \in WO, NEW m \in Mat PROVE ComingOf(thr)[w][m] = 0
    <2> DEFINE g == [t \in Thread |-> Adds(thr[t], w, m)]
    <2>1. Summable(g) /\ ComingOf(thr)[w][m] = SumFunction(g)
      BY <1>3, ComingType
    <2>2. \A t \in DOMAIN g : g[t] = 0
      BY <1>2 DEF Adds
    <2> HIDE DEF g
    <2> QED BY <2>1, <2>2, SumZero
  <1>5. ASSUME NEW w \in WO, db[w] # None PROVE Counted(db[w], posted[w], ComingOf(thr)[w])
    <2>1. /\ db[w] = [NewRecord EXCEPT !.bop = f] /\ posted[w].qty = Zero
          /\ posted[w].ops = [o \in Op |-> {f[o]} \ {None}]
      BY <1>1, <1>5
    <2>2. db[w].ops = Nothing /\ db[w].bop = f /\ db[w].qty = Zero /\ db[w].priced = Zero
      BY <2>1 DEF NewRecord
    <2>3. Ops(Nothing) = {} /\ \A o \in Ops(f) : f[o] \in posted[w].ops[o]
      BY <2>1 DEF Ops, Nothing
    <2>4. AtMost(Zero, Zero) /\ \A m \in Mat : Zero[m] + ComingOf(thr)[w][m] <= Zero[m]
      BY <1>4 DEF AtMost, Zero
    <2> QED BY <2>1, <2>2, <2>3, <2>4 DEF Counted
  <1>6. \A w \in WO, m \in Mat : ComingOf(thr)[w][m] <= posted[w].qty[m]
    BY <1>1, <1>4 DEF Zero
  <1> QED BY <1>2, <1>5, <1>6 DEF CountedInv, AllCounted

\* A payload arrives with its request: as much more is coming as was posted.
LEMMA PayloadCounted ==
  ASSUME TypeInv, CountedInv, thr' \in Threads, posted' \in [WO -> Posts],
         NEW t \in Thread, NEW w \in WO, NEW k, NEW p \in Payload, NEW r \in Report,
         Arrive(t, w, k, "load", p, r), Posted(w, p),
         \A o \in Ops(r.ops) : o = p.op /\ r.ops[o] = p.energy,
         AtMost(r.mats, p.qty),
         \A s \in sent' : s \in sent \/ s = <<w, r>>
  PROVE  CountedInv'
  <1> DEFINE C == ComingOf(thr)
             D == ComingOf(thr')
             q == thr'[t]
  <1>1. thr \in Threads /\ posted \in [WO -> Posts] /\ db \in Documents
    BY DEF TypeInv, TypeOK
  <1>2. thr[t] = Free /\ q # Free /\ q.wo = w /\ q.payload = p /\ q.report = r
        /\ q.base = NoDocument /\ db' = db /\ \A u \in Thread : u # t => thr'[u] = thr[u]
    <2>1. thr[t] = Free /\ db' = db /\ \A u \in Thread : u # t => thr'[u] = thr[u]
      BY <1>1 DEF Arrive, Threads
    <2>2. q = [kind |-> k, pc |-> "load", wo |-> w, payload |-> p, report |-> r, form |-> "plain",
               base |-> NoDocument, owed |-> Ops(Promise(w).ops), mats |-> Promise(w).mats]
      BY <1>1 DEF Arrive, Threads
    <2>3. q.pc # Free.pc
      BY <2>2 DEF Free
    <2> QED BY <2>1, <2>2, <2>3
  <1>3. p.op \in Op /\ p.energy \in Energy /\ p.qty \in Quantities
    BY PayloadTypes
  <1>4. /\ posted'[w].ops = [posted[w].ops EXCEPT ![p.op] = @ \cup {p.energy}]
        /\ posted'[w].qty = Plus(posted[w].qty, p.qty)
        /\ \A v \in WO : v # w => posted'[v] = posted[v]
    BY <1>1 DEF Posted, Posts
  <1>5. \A v \in WO : posted[v].ops \in [Op -> SUBSET Energy] /\ posted[v].qty \in Quantities
    BY <1>1 DEF Posts
  <1>6. ASSUME NEW v \in WO, NEW m \in Mat
        PROVE  D[v][m] = C[v][m] + (IF v = w THEN p.qty[m] ELSE 0)
    <2>1. Adds(thr[t], v, m) = 0 /\ Adds(thr'[t], v, m) = IF v = w THEN p.qty[m] ELSE 0
      BY <1>2, NoneAssumption DEF Adds
    <2>2. D[v][m] = C[v][m] - Adds(thr[t], v, m) + Adds(thr'[t], v, m)
      BY <1>1, <1>2, ComingChanges
    <2>3. C[v][m] \in Nat /\ (IF v = w THEN p.qty[m] ELSE 0) \in Nat
      BY <1>1, <1>3, ComingType DEF Quantities
    <2> HIDE DEF C, D
    <2> QED BY <2>1, <2>2, <2>3
  <1>7. Grows(posted, C, posted', D)
    <2>1. ASSUME NEW v \in WO, NEW m \in Mat
          PROVE  /\ posted[v].qty[m] <= posted'[v].qty[m]
                 /\ D[v][m] + posted[v].qty[m] <= C[v][m] + posted'[v].qty[m]
      <3>1. posted'[v].qty[m] = posted[v].qty[m] + (IF v = w THEN p.qty[m] ELSE 0)
        BY <1>3, <1>4, <1>5 DEF Plus, Quantities
      <3>2. C[v][m] \in Nat /\ (IF v = w THEN p.qty[m] ELSE 0) \in Nat /\ posted[v].qty[m] \in Nat
        BY <1>1, <1>3, <1>5, ComingType DEF Quantities
      <3> HIDE DEF C, D
      <3> QED BY <1>6, <3>1, <3>2
    <2>2. ASSUME NEW v \in WO, NEW o \in Op PROVE posted[v].ops[o] \subseteq posted'[v].ops[o]
      BY <1>4, <1>5
    <2> HIDE DEF C, D
    <2> QED BY <2>1, <2>2 DEF Grows
  <1>8. AllCounted(db', posted', D)
    <2>1. C \in Sums /\ D \in Sums
      BY <1>1, ComingIsSums
    <2>2. AllCounted(db, posted, C)
      BY DEF CountedInv
    <2> HIDE DEF C, D
    <2> QED BY <1>1, <1>2, <1>7, <2>1, <2>2, GrowthKeeps
  <1>9. Made(posted'[w], r.ops, r.mats)
    <2>1. \A o \in Ops(r.ops) : r.ops[o] \in posted'[w].ops[o]
      BY <1>3, <1>4, <1>5
    <2>2. ASSUME NEW m \in Mat PROVE r.mats[m] <= posted'[w].qty[m]
      <3>1. r.mats[m] <= p.qty[m] /\ posted'[w].qty[m] = posted[w].qty[m] + p.qty[m]
        BY <1>4, <1>5 DEF Plus, AtMost
      <3>2. r.mats[m] \in Nat /\ p.qty[m] \in Nat /\ posted[w].qty[m] \in Nat
        BY <1>3, <1>5 DEF Report, Quantities
      <3> QED BY <3>1, <3>2
    <2> QED BY <2>1, <2>2 DEF Made, AtMost
  <1>10. RequestCounted(q, posted', D)
    <2>1. p.energy \in posted'[w].ops[p.op]
      BY <1>3, <1>4, <1>5
    <2>2. AllCounted(NoDocument, posted', D)
      BY DEF AllCounted, NoDocument
    <2> HIDE DEF q, D
    <2> QED BY <1>2, <1>9, <2>1, <2>2 DEF RequestCounted
  <1>11. \A s \in sent' : s \in sent \/ Made(posted'[s[1]], s[2].ops, s[2].mats)
    BY <1>9
  <1> HIDE DEF C
  <1>12. \A u \in Thread : thr'[u] # Free => thr'[u] = thr[u] \/ RequestCounted(thr'[u], posted', D)
    BY <1>2, <1>10
  <1> QED BY <1>7, <1>8, <1>11, <1>12, CountedKeeps DEF C, D

\* Requests go on, end or vanish, and nothing is posted.
LEMMA QuietCounted ==
  ASSUME TypeInv, CountedInv, thr' \in Threads, posted' = posted,
         \A t \in Thread, w \in WO, m \in Mat : Adds(thr'[t], w, m) <= Adds(thr[t], w, m),
         AllCounted(db', posted, ComingOf(thr')),
         \A t \in Thread : thr'[t] # Free =>
           thr'[t] = thr[t] \/ RequestCounted(thr'[t], posted, ComingOf(thr)),
         \A s \in sent' : s \in sent \/ Made(posted[s[1]], s[2].ops, s[2].mats)
  PROVE  CountedInv'
  <1> DEFINE C == ComingOf(thr)
             D == ComingOf(thr')
  <1>1. thr \in Threads /\ posted \in [WO -> Posts]
    BY DEF TypeInv, TypeOK
  <1>2. C \in Sums /\ D \in Sums
    BY <1>1, ComingIsSums
  <1>3. \A w \in WO, m \in Mat : D[w][m] <= C[w][m]
    BY <1>1, ComingShrinks
  <1>4. Grows(posted, C, posted', D)
    <2>1. ASSUME NEW w \in WO, NEW m \in Mat
          PROVE  /\ posted[w].qty[m] <= posted[w].qty[m]
                 /\ D[w][m] + posted[w].qty[m] <= C[w][m] + posted[w].qty[m]
      <3>1. posted[w].qty[m] \in Nat /\ C[w][m] \in Nat /\ D[w][m] \in Nat
        BY <1>1, <1>2 DEF Posts, Quantities, Sums
      <3> HIDE DEF C, D
      <3> QED BY <1>3, <3>1
    <2> HIDE DEF C, D
    <2> QED BY <2>1 DEF Grows
  <1>5. ASSUME NEW t \in Thread, thr'[t] # Free
        PROVE  thr'[t] = thr[t] \/ RequestCounted(thr'[t], posted', D)
    <2>1. CASE RequestCounted(thr'[t], posted, C)
      <3>1. thr'[t] \in Serving
        BY <1>5 DEF Threads
      <3> HIDE DEF C, D
      <3>2. RequestCounted(thr'[t], posted', D)
        BY <1>1, <1>2, <1>4, <2>1, <3>1, GrowthKeeps
      <3> QED BY <3>2
    <2> QED BY <1>5, <2>1
  <1> QED BY <1>1, <1>4, <1>5, CountedKeeps

\* The record a request starts from leaves room for what is coming.
LEMMA EnsuredCounted ==
  ASSUME NEW rec \in {None} \cup Record, NEW P \in Posts, NEW C \in [Mat -> Nat],
         rec # None => Counted(rec, P, C), \A m \in Mat : C[m] <= P.qty[m]
  PROVE  Ensured(rec) \in Record /\ Counted(Ensured(rec), P, C)
  <1>1. CASE rec = None
    <2>1. /\ NewRecord.ops = Nothing /\ NewRecord.bop = Nothing
          /\ NewRecord.qty = Zero /\ NewRecord.priced = Zero
      BY DEF NewRecord
    <2>2. Ops(Nothing) = {} /\ AtMost(Zero, Zero)
      BY DEF Ops, Nothing, AtMost, Zero
    <2>3. \A m \in Mat : Zero[m] + C[m] <= P.qty[m]
      BY DEF Zero
    <2>4. Counted(NewRecord, P, C)
      BY <2>1, <2>2, <2>3 DEF Counted
    <2> QED BY <1>1, <2>4, EmptyTypes DEF Ensured
  <1>2. CASE rec # None
    BY <1>2 DEF Ensured
  <1> QED BY <1>1, <1>2

\* Consuming a payload takes the room that was left for it.
LEMMA ConsumedCounted ==
  ASSUME NEW rec \in Record, NEW p \in Payload, NEW P \in Posts,
         NEW C \in [Mat -> Nat], NEW D \in [Mat -> Nat],
         Counted(rec, P, C), p.energy \in P.ops[p.op],
         \A m \in Mat : D[m] + p.qty[m] = C[m]
  PROVE  Counted(Consumed(rec, p), P, D)
  <1> DEFINE new == Consumed(rec, p)
  <1>1. /\ new.ops = [rec.ops EXCEPT ![p.op] = p.energy] /\ new.bop = rec.bop
        /\ new.qty = Plus(rec.qty, p.qty)
    BY ConsumedType
  <1>2. new.priced = [m \in Mat |-> IF m \in p.found THEN rec.qty[m] + p.qty[m] ELSE rec.priced[m]]
    BY DEF Consumed, Record
  <1> HIDE DEF new
  <1>3. /\ rec.ops \in Footprints /\ rec.qty \in [Mat -> Nat] /\ rec.priced \in [Mat -> Nat]
        /\ p.qty \in [Mat -> Nat] /\ p.op \in Op
    BY PayloadTypes DEF Record, Quantities
  <1>4. \A o \in Ops(new.ops) : new.ops[o] \in P.ops[o]
    BY <1>1, <1>3 DEF Counted, Ops, Footprints
  <1>5. ASSUME NEW m \in Mat
        PROVE  new.priced[m] <= new.qty[m] /\ new.qty[m] + D[m] <= P.qty[m]
    <2>1. new.qty[m] = rec.qty[m] + p.qty[m]
      BY <1>1 DEF Plus
    <2>2. rec.priced[m] <= rec.qty[m] /\ rec.qty[m] + C[m] <= P.qty[m] /\ D[m] + p.qty[m] = C[m]
      BY DEF Counted, AtMost
    <2>3. /\ rec.qty[m] \in Nat /\ rec.priced[m] \in Nat /\ p.qty[m] \in Nat
          /\ C[m] \in Nat /\ D[m] \in Nat /\ P.qty[m] \in Nat
      BY <1>3 DEF Posts, Quantities
    <2>4. new.priced[m] = IF m \in p.found THEN rec.qty[m] + p.qty[m] ELSE rec.priced[m]
      BY <1>2
    <2> QED BY <2>1, <2>2, <2>3, <2>4
  <1>6. Counted(new, P, D)
    BY <1>1, <1>4, <1>5 DEF Counted, AtMost
  <1> QED BY <1>6 DEF new

\* An AAS update replaces what was there by its own payload.
LEMMA ReplacedCounted ==
  ASSUME NEW rec \in Record, NEW p \in Payload, NEW r \in Report, NEW P \in Posts,
         NEW C \in [Mat -> Nat], NEW D \in [Mat -> Nat],
         Counted(rec, P, C), Made(P, r.ops, r.mats), AtMost(r.mats, p.qty),
         \A m \in Mat : C[m] <= P.qty[m], \A m \in Mat : D[m] + p.qty[m] = C[m]
  PROVE  Counted(Replaced(rec, p, r), P, D)
  <1> DEFINE new == Replaced(rec, p, r)
  <1>1. new.ops = r.ops /\ new.bop = rec.bop /\ new.qty = [m \in Mat |-> p.qty[m]]
    BY ReplacedType
  <1>2. new.priced = r.mats
    BY DEF Replaced, Record
  <1> HIDE DEF new
  <1>3. p.qty \in [Mat -> Nat] /\ P.qty \in [Mat -> Nat]
    BY PayloadTypes DEF Quantities, Posts
  <1>4. ASSUME NEW m \in Mat
        PROVE  new.priced[m] <= new.qty[m] /\ new.qty[m] + D[m] <= P.qty[m]
    <2>1. r.mats[m] <= p.qty[m] /\ D[m] + p.qty[m] = C[m] /\ C[m] <= P.qty[m]
      BY DEF AtMost
    <2>2. p.qty[m] \in Nat /\ C[m] \in Nat /\ D[m] \in Nat /\ P.qty[m] \in Nat
      BY <1>3
    <2> QED BY <1>1, <1>2, <2>1, <2>2
  <1>5. Counted(new, P, D)
    BY <1>1, <1>4 DEF Counted, AtMost, Made
  <1> QED BY <1>5 DEF new

\* A save that overwrites others counts nothing twice.
LEMMA SaveCounted ==
  ASSUME TypeInv, CountedInv, thr' \in Threads, NEW t \in Thread, Save(t)
  PROVE  CountedInv'
  <1> DEFINE q == thr[t]
             w == q.wo
             C == ComingOf(thr)
             D == ComingOf(thr')
             rec == Ensured(q.base[w])
  <1>1. /\ thr \in Threads /\ posted \in [WO -> Posts]
        /\ C \in Sums /\ D \in Sums
    <2>1. thr \in Threads /\ posted \in [WO -> Posts]
      BY DEF TypeInv, TypeOK
    <2> QED BY <2>1, ComingIsSums
  <1>q. /\ q # Free /\ q \in Serving /\ q.wo \in WO /\ q.base \in Documents /\ q.report \in Report
        /\ q.payload \in {None} \cup Payload /\ q.kind \in {"consume", "produce", "delete", "aas"}
        /\ RequestCounted(q, posted, C)
    <2>1. q # Free
      BY DEF Save, Free
    <2>2. q \in Serving /\ RequestCounted(q, posted, C)
      BY <1>1, <2>1 DEF Threads, CountedInv
    <2> HIDE DEF C
    <2> QED BY <2>1, <2>2 DEF Serving, Request
  <1>2. /\ thr'[t] = Free
        /\ \A u \in Thread : u # t /\ thr[u] = Free => thr'[u] = Free
        /\ \A u \in Thread : u # t /\ thr[u] # Free =>
             /\ thr'[u].wo = thr[u].wo /\ thr'[u].payload = thr[u].payload
             /\ thr'[u].report = thr[u].report /\ thr'[u].kind = thr[u].kind
             /\ thr'[u].base = thr[u].base
    <2> DEFINE left == IF Acknowledged(t) = None THEN NoPromise ELSE Acknowledged(t)
    <2>1. thr' = [u \in Thread |->
                    IF u = t THEN Free
                    ELSE IF thr[u] # Free /\ thr[u].wo = q.wo
                         THEN StillOwed(thr[u], left)
                         ELSE thr[u]]
      BY DEF Save
    <2> HIDE DEF left
    <2>2. \A u \in Thread : thr[u] # Free => thr[u] \in Request
      BY <1>1 DEF Threads, Serving
    <2>3. \A x \in Request :
            LET y == StillOwed(x, left)
            IN  /\ y.wo = x.wo /\ y.payload = x.payload /\ y.report = x.report
                /\ y.kind = x.kind /\ y.base = x.base
      BY StillOwedKeeps
    <2> QED BY <2>1, <2>2, <2>3
  <1>3. /\ posted' = posted /\ sent' = sent
        /\ db' = [q.base EXCEPT ![q.wo] = Updated(t)]
    BY DEF Save
  <1>4. ASSUME NEW u \in Thread, u # t, NEW v \in WO, NEW m \in Mat
        PROVE  Adds(thr'[u], v, m) = Adds(thr[u], v, m)
    <2>1. CASE thr[u] = Free
      BY <1>2, <1>4, <2>1
    <2>2. CASE thr[u] # Free
      <3>1. thr'[u] # Free
        <4>1. thr'[u] = Free => thr'[u].kind = "free"
          BY DEF Free
        <4>2. thr[u].kind # "free" /\ thr'[u].kind = thr[u].kind
          BY <1>1, <1>2, <1>4, <2>2 DEF Threads, Serving, Request
        <4> QED BY <4>1, <4>2
      <3> QED BY <1>2, <1>4, <2>2, <3>1 DEF Adds
    <2> QED BY <2>1, <2>2
  <1>5. ASSUME NEW v \in WO, NEW m \in Mat
        PROVE  /\ Adds(thr'[t], v, m) = 0 /\ Adds(q, v, m) \in Nat
               /\ D[v][m] + Adds(q, v, m) = C[v][m] /\ D[v][m] \in Nat /\ C[v][m] \in Nat
    <2>1. Adds(thr'[t], v, m) = 0
      BY <1>2 DEF Adds
    <2>2. Adds(q, v, m) \in Nat
      BY <1>q, AddsType
    <2>3. D[v][m] = C[v][m] - Adds(q, v, m) + Adds(thr'[t], v, m)
      BY <1>1, <1>4, ComingChanges
    <2>4. C[v][m] \in Nat /\ D[v][m] \in Nat
      BY <1>1 DEF Sums
    <2> HIDE DEF C, D, q
    <2> QED BY <2>1, <2>2, <2>3, <2>4
  <1>6. \A u \in Thread, v \in WO, m \in Mat : Adds(thr'[u], v, m) <= Adds(thr[u], v, m)
    <2> TAKE u \in Thread, v \in WO, m \in Mat
    <2>1. Adds(thr[u], v, m) \in Nat
      BY <1>1, AddsType DEF Threads
    <2>2. CASE u = t
      BY <1>5, <2>1, <2>2
    <2>3. CASE u # t
      BY <1>4, <2>1, <2>3
    <2> QED BY <2>2, <2>3
  <1>7. Grows(posted, C, posted, D)
    <2>1. ASSUME NEW v \in WO, NEW m \in Mat
          PROVE  /\ posted[v].qty[m] <= posted[v].qty[m]
                 /\ D[v][m] + posted[v].qty[m] <= C[v][m] + posted[v].qty[m]
      <3>1. posted[v].qty[m] \in Nat
        BY <1>1 DEF Posts, Quantities
      <3> HIDE DEF C, D, q
      <3> QED BY <1>5, <3>1
    <2> HIDE DEF C, D, q
    <2> QED BY <2>1 DEF Grows
  <1>8. AllCounted(q.base, posted, D) /\ AllCounted(q.base, posted, C)
    <2> HIDE DEF C, D, q
    <2>1. AllCounted(q.base, posted, C)
      BY <1>q DEF RequestCounted
    <2> QED BY <1>1, <1>q, <1>7, <2>1, GrowthKeeps
  <1>9. /\ C[w] \in [Mat -> Nat] /\ D[w] \in [Mat -> Nat] /\ posted[w] \in Posts
        /\ \A m \in Mat : C[w][m] <= posted[w].qty[m]
    BY <1>1, <1>q DEF Sums, CountedInv
  <1>10. rec \in Record /\ Counted(rec, posted[w], C[w]) /\ Counted(rec, posted[w], D[w])
    <2>1. q.base[w] \in {None} \cup Record
      BY <1>q DEF Documents
    <2>2. /\ q.base[w] # None => Counted(q.base[w], posted[w], C[w])
          /\ q.base[w] # None => Counted(q.base[w], posted[w], D[w])
      BY <1>q, <1>8 DEF AllCounted
    <2>3. \A m \in Mat : D[w][m] <= posted[w].qty[m]
      <3>1. \A m \in Mat : D[w][m] <= C[w][m]
        BY <1>5, <1>q
      <3>2. \A m \in Mat : D[w][m] \in Nat /\ C[w][m] \in Nat /\ posted[w].qty[m] \in Nat
        BY <1>9 DEF Posts, Quantities
      <3> HIDE DEF C, D, q, w
      <3> QED BY <1>9, <3>1, <3>2
    <2> HIDE DEF C, D, q, w
    <2> QED BY <1>9, <2>1, <2>2, <2>3, EnsuredCounted
  <1>11. ASSUME NEW p \in Payload, q.payload = p
         PROVE  /\ p.energy \in posted[w].ops[p.op]
                /\ \A m \in Mat : D[w][m] + p.qty[m] = C[w][m]
    <2>1. p # None
      BY NoneAssumption
    <2>2. \A m \in Mat : Adds(q, w, m) = p.qty[m]
      BY <1>q, <1>11, <2>1 DEF Adds
    <2> HIDE DEF C, D
    <2> QED BY <1>5, <1>q, <1>11, <2>1, <2>2 DEF RequestCounted
  <1>12. Updated(t) # None => Counted(Updated(t), posted[w], D[w])
    <2>1. CASE q.kind = "consume"
      <3>1. q.payload \in Payload /\ Updated(t) = Consumed(rec, q.payload)
        BY <1>q, <2>1, UpdatedType DEF Serving, Serves
      <3> HIDE DEF C, D, q, w, rec
      <3> QED BY <1>9, <1>10, <1>11, <3>1, ConsumedCounted
    <2>2. CASE q.kind = "produce"
      <3>1. Updated(t) = [rec EXCEPT !.pcf = q.report]
        BY <1>q, <2>2, UpdatedType
      <3>2. /\ Updated(t).ops = rec.ops /\ Updated(t).bop = rec.bop
            /\ Updated(t).qty = rec.qty /\ Updated(t).priced = rec.priced
        BY <1>10, <3>1 DEF Record
      <3> HIDE DEF C, D, q, w, rec
      <3> QED BY <1>10, <3>2 DEF Counted
    <2>3. CASE q.kind = "aas"
      <3>1. q.payload \in Payload /\ Updated(t) = Replaced(rec, q.payload, q.report)
        BY <1>q, <2>3, UpdatedType DEF Serving, Serves
      <3>2. Made(posted[w], q.report.ops, q.report.mats) /\ AtMost(q.report.mats, q.payload.qty)
        BY <1>q, <2>3 DEF RequestCounted
      <3>3. q.report \in Report
        BY <1>q
      <3> HIDE DEF C, D, q, w, rec
      <3> QED BY <1>9, <1>10, <1>11, <3>1, <3>2, <3>3, ReplacedCounted
    <2>4. CASE q.kind = "delete"
      BY <1>q, <2>4, UpdatedType
    <2> QED BY <1>q, <2>1, <2>2, <2>3, <2>4
  <1>13. AllCounted(db', posted, D)
    <2>1. db'[w] = Updated(t) /\ \A v \in WO : v # w => db'[v] = q.base[v]
      BY <1>3, <1>q DEF Documents
    <2> HIDE DEF C, D, q, w
    <2> QED BY <1>8, <1>12, <2>1 DEF AllCounted
  <1>14. ASSUME NEW u \in Thread, thr'[u] # Free
         PROVE  RequestCounted(thr'[u], posted, C)
    <2>1. u # t /\ thr[u] # Free
      BY <1>2, <1>14
    <2>2. RequestCounted(thr[u], posted, C)
      BY <2>1 DEF CountedInv
    <2> HIDE DEF C
    <2> QED BY <1>2, <2>1, <2>2 DEF RequestCounted
  <1> QED BY <1>3, <1>6, <1>13, <1>14, QuietCounted

\* A document left room for what was coming; it leaves room for less.
LEMMA FewerCounted ==
  ASSUME TypeInv, CountedInv, thr' \in Threads,
         \A t \in Thread, w \in WO, m \in Mat : Adds(thr'[t], w, m) <= Adds(thr[t], w, m)
  PROVE  AllCounted(db, posted, ComingOf(thr'))
  <1>1. thr \in Threads /\ posted \in [WO -> Posts] /\ db \in Documents
    BY DEF TypeInv, TypeOK
  <1>3. \A w \in WO, m \in Mat : ComingOf(thr')[w][m] <= ComingOf(thr)[w][m]
    BY <1>1, ComingShrinks
  <1>4. ComingOf(thr) \in Sums /\ ComingOf(thr') \in Sums
    BY <1>1, ComingIsSums
  <1>5. Grows(posted, ComingOf(thr), posted, ComingOf(thr'))
    <2>1. ASSUME NEW w \in WO, NEW m \in Mat
          PROVE  /\ posted[w].qty[m] <= posted[w].qty[m]
                 /\ ComingOf(thr')[w][m] + posted[w].qty[m] <= ComingOf(thr)[w][m] + posted[w].qty[m]
      <3>1. /\ posted[w].qty[m] \in Nat
            /\ ComingOf(thr)[w][m] \in Nat /\ ComingOf(thr')[w][m] \in Nat
        BY <1>1, <1>4 DEF Posts, Quantities, Sums
      <3> QED BY <1>3, <3>1
    <2> QED BY <2>1 DEF Grows
  <1>6. AllCounted(db, posted, ComingOf(thr))
    BY DEF CountedInv
  <1> QED BY <1>1, <1>4, <1>5, <1>6, GrowthKeeps

\* One request goes on, or ends, while the document stays as it is.
LEMMA MoveCounted ==
  ASSUME TypeInv, CountedInv, thr' \in Threads, posted' = posted, db' = db,
         NEW t \in Thread, thr[t] # Free, \A u \in Thread : u # t => thr'[u] = thr[u],
         thr'[t] # Free =>
           /\ thr'[t].wo = thr[t].wo /\ thr'[t].payload = thr[t].payload
           /\ RequestCounted(thr'[t], posted, ComingOf(thr)),
         \A s \in sent' : s \in sent \/ s = <<thr[t].wo, thr[t].report>>
  PROVE  CountedInv'
  <1>1. thr \in Threads /\ posted \in [WO -> Posts] /\ db \in Documents
    BY DEF TypeInv, TypeOK
  <1>2. \A u \in Thread, w \in WO, m \in Mat : Adds(thr'[u], w, m) <= Adds(thr[u], w, m)
    <2> TAKE u \in Thread, w \in WO, m \in Mat
    <2>1. Adds(thr[u], w, m) \in Nat
      BY <1>1, AddsType DEF Threads
    <2>2. Adds(thr'[u], w, m) = Adds(thr[u], w, m) \/ Adds(thr'[u], w, m) = 0
      BY DEF Adds
    <2> QED BY <2>1, <2>2
  <1>6. AllCounted(db', posted, ComingOf(thr'))
    BY <1>2, FewerCounted
  <1>7. \A s \in sent' : s \in sent \/ Made(posted[s[1]], s[2].ops, s[2].mats)
    <2>1. Made(posted[thr[t].wo], thr[t].report.ops, thr[t].report.mats)
      BY DEF CountedInv, RequestCounted
    <2> QED BY <2>1
  <1>8. \A u \in Thread : thr'[u] # Free =>
          thr'[u] = thr[u] \/ RequestCounted(thr'[u], posted, ComingOf(thr))
    OBVIOUS
  <1> QED BY <1>2, <1>6, <1>7, <1>8, QuietCounted

\* A production or a deletion brings no consumption.
LEMMA ArriveCounted ==
  ASSUME TypeInv, CountedInv, thr' \in Threads, NEW t \in Thread, NEW w \in WO, NEW k, NEW l,
         k \in {"produce", "delete"}, Arrive(t, w, k, l, None, NoReport),
         posted' = posted, sent' = sent
  PROVE  CountedInv'
  <1> DEFINE new == [kind |-> k, pc |-> l, wo |-> w, payload |-> None, report |-> NoReport,
                     form |-> "plain", base |-> NoDocument, owed |-> Ops(Promise(w).ops),
                     mats |-> Promise(w).mats]
  <1>1. thr \in Threads /\ posted \in [WO -> Posts] /\ db \in Documents
    BY DEF TypeInv, TypeOK
  <1>2. thr'[t] = new /\ (\A u \in Thread : u # t => thr'[u] = thr[u]) /\ db' = db
    BY <1>1 DEF Arrive, Threads
  <1>3. /\ new.payload = None /\ new.wo = w /\ new.report = NoReport
        /\ new.base = NoDocument /\ new.kind # "aas"
    OBVIOUS
  <1> HIDE DEF new
  <1>4. \A u \in Thread, v \in WO, m \in Mat : Adds(thr'[u], v, m) <= Adds(thr[u], v, m)
    <2> TAKE u \in Thread, v \in WO, m \in Mat
    <2>1. Adds(thr[u], v, m) \in Nat
      BY <1>1, AddsType DEF Threads
    <2>2. Adds(new, v, m) = 0
      BY <1>3 DEF Adds
    <2> QED BY <1>2, <2>1, <2>2
  <1>5. RequestCounted(new, posted, ComingOf(thr))
    <2>1. Made(posted[w], NoReport.ops, NoReport.mats)
      <3>1. NoReport.ops = Nothing /\ NoReport.mats = Zero /\ Ops(Nothing) = {}
        BY DEF NoReport, Ops, Nothing
      <3>2. AtMost(Zero, posted[w].qty)
        BY <1>1 DEF AtMost, Zero, Posts, Quantities
      <3> QED BY <3>1, <3>2 DEF Made
    <2>2. AllCounted(NoDocument, posted, ComingOf(thr))
      BY DEF AllCounted, NoDocument
    <2> QED BY <1>3, <2>1, <2>2 DEF RequestCounted
  <1>6. AllCounted(db', posted, ComingOf(thr'))
    BY <1>2, <1>4, FewerCounted
  <1>7. \A u \in Thread : thr'[u] # Free =>
          thr'[u] = thr[u] \/ RequestCounted(thr'[u], posted, ComingOf(thr))
    BY <1>2, <1>5
  <1> QED BY <1>4, <1>6, <1>7, QuietCounted

\* A production reads its operations and its materials out of one record each.
LEMMA ReadCounted ==
  ASSUME TypeInv, CountedInv, thr' \in Threads, NEW t \in Thread, ReadBop(t) \/ ReadMaterials(t)
  PROVE  CountedInv'
  <1> DEFINE q == thr[t]
             C == ComingOf(thr)
  <1>1. thr \in Threads /\ posted \in [WO -> Posts] /\ db \in Documents
    BY DEF TypeInv, TypeOK
  <1>2. q # Free /\ q.kind = "produce" /\ posted' = posted /\ db' = db /\ sent' = sent
    BY DEF ReadBop, ReadMaterials, At, Free, told
  <1>3. q \in Request /\ q.wo \in WO /\ q.report \in Report /\ RequestCounted(q, posted, C)
    BY <1>1, <1>2 DEF Threads, Serving, Request, CountedInv
  <1>4. db[q.wo] # None => db[q.wo] \in Record /\ Counted(db[q.wo], posted[q.wo], C[q.wo])
    BY <1>1, <1>3 DEF CountedInv, AllCounted, Documents
  <1>5. C[q.wo] \in [Mat -> Nat] /\ posted[q.wo].qty \in [Mat -> Nat]
    <2>1. C \in Sums
      BY <1>1, ComingIsSums
    <2> HIDE DEF C
    <2> QED BY <1>1, <1>3, <2>1 DEF Sums, Posts, Quantities
  <1> HIDE DEF C
  <1>6. /\ \A u \in Thread : u # t => thr'[u] = thr[u]
        /\ thr'[t].wo = q.wo /\ thr'[t].payload = q.payload /\ thr'[t].kind = q.kind
        /\ thr'[t].base = q.base
        /\ Made(posted[q.wo], thr'[t].report.ops, thr'[t].report.mats)
    <2>1. CASE ReadBop(t)
      <3>1. PICK f \in {"plain", "bom"} :
              thr' = [thr EXCEPT ![t].report.ops = Bop(db[q.wo]), ![t].form = f,
                                 ![t].pc = IF f = "bom" THEN "mats" ELSE "send"]
        BY <2>1 DEF ReadBop
      <3>2. /\ \A u \in Thread : u # t => thr'[u] = thr[u]
            /\ thr'[t].wo = q.wo /\ thr'[t].payload = q.payload /\ thr'[t].kind = q.kind
            /\ thr'[t].base = q.base
            /\ thr'[t].report.ops = Bop(db[q.wo]) /\ thr'[t].report.mats = q.report.mats
        BY <1>1, <1>3, <3>1 DEF Threads, Request, Report
      <3>3. db[q.wo] # None
        BY <2>1 DEF ReadBop
      <3>4. \A o \in Ops(Bop(db[q.wo])) : Bop(db[q.wo])[o] \in posted[q.wo].ops[o]
        BY <1>4, <3>3 DEF Bop, Counted
      <3> QED BY <1>3, <3>2, <3>4 DEF Made, RequestCounted
    <2>2. CASE ReadMaterials(t)
      <3> DEFINE mats == IF db[q.wo] = None THEN Zero ELSE Breakdown(db[q.wo])
      <3>1. thr' = [thr EXCEPT ![t].report.mats = mats, ![t].pc = "send"]
        BY <2>2 DEF ReadMaterials
      <3>2. AtMost(mats, posted[q.wo].qty)
        <4>1. CASE db[q.wo] = None
          BY <1>5, <4>1 DEF AtMost, Zero
        <4>2. CASE db[q.wo] # None
          <5>1. mats = db[q.wo].priced
            BY <4>2 DEF Breakdown
          <5>2. db[q.wo].priced \in [Mat -> Nat] /\ db[q.wo].qty \in [Mat -> Nat]
            BY <1>4, <4>2 DEF Record, Quantities
          <5>3. ASSUME NEW m \in Mat PROVE db[q.wo].priced[m] <= posted[q.wo].qty[m]
            <6>1. /\ db[q.wo].priced[m] <= db[q.wo].qty[m]
                  /\ db[q.wo].qty[m] + C[q.wo][m] <= posted[q.wo].qty[m]
              BY <1>4, <4>2 DEF Counted, AtMost
            <6>2. /\ db[q.wo].priced[m] \in Nat /\ db[q.wo].qty[m] \in Nat
                  /\ C[q.wo][m] \in Nat /\ posted[q.wo].qty[m] \in Nat
              BY <1>5, <5>2
            <6> QED BY <6>1, <6>2
          <5> QED BY <5>1, <5>3 DEF AtMost
        <4> QED BY <4>1, <4>2
      <3> HIDE DEF mats
      <3>3. /\ \A u \in Thread : u # t => thr'[u] = thr[u]
            /\ thr'[t].wo = q.wo /\ thr'[t].payload = q.payload /\ thr'[t].kind = q.kind
            /\ thr'[t].base = q.base
            /\ thr'[t].report.ops = q.report.ops /\ thr'[t].report.mats = mats
        BY <1>1, <1>3, <3>1 DEF Threads, Request, Report
      <3> QED BY <1>3, <3>2, <3>3 DEF Made, RequestCounted
    <2> QED BY <2>1, <2>2
  <1>7. RequestCounted(thr'[t], posted, C)
    BY <1>2, <1>3, <1>6 DEF RequestCounted
  <1> QED BY <1>2, <1>6, <1>7, MoveCounted DEF C

\* CountedInv is inductive, given the types.
LEMMA NextCounted == TypeInv /\ CountedInv /\ [Next]_vars => CountedInv'
  <1> SUFFICES ASSUME TypeInv, CountedInv, [Next]_vars PROVE CountedInv'
    OBVIOUS
  <1>t. /\ thr' \in Threads /\ posted' \in [WO -> Posts]
        /\ thr \in Threads /\ posted \in [WO -> Posts] /\ db \in Documents
    <2>1. TypeInv'
      BY NextTypeInv
    <2> QED BY <2>1 DEF TypeInv, TypeOK
  <1>1. ASSUME NEW t \in Thread, NEW w \in WO, NEW p \in Payload, Consume(t, w, p)
        PROVE  CountedInv'
    <2>1. Ops(NoReport.ops) = {} /\ NoReport.mats = Zero
      BY DEF Ops, NoReport, Nothing
    <2>2. AtMost(Zero, p.qty)
      BY PayloadTypes DEF AtMost, Zero, Quantities
    <2>3. Arrive(t, w, "consume", "load", p, NoReport) /\ Posted(w, p) /\ sent' = sent
      BY <1>1 DEF Consume
    <2>4. NoReport \in Report /\ \A o \in Ops(NoReport.ops) : o = p.op /\ NoReport.ops[o] = p.energy
      BY <2>1, EmptyTypes
    <2> QED BY <1>t, <2>1, <2>2, <2>3, <2>4, PayloadCounted
  <1>2. ASSUME NEW t \in Thread, NEW w \in WO, NEW p \in Payload, AasSubmitted(t, w, p)
        PROVE  CountedInv'
    <2>1. /\ Arrive(t, w, "aas", "load", p, AasReport(p)) /\ Posted(w, p)
          /\ sent' = sent \cup {<<w, AasReport(p)>>}
      BY <1>2 DEF AasSubmitted, AasReport
    <2>2. \A o \in Ops(AasReport(p).ops) : o = p.op /\ AasReport(p).ops[o] = p.energy
      BY DEF AasReport, Ops, Nothing
    <2>3. AtMost(AasReport(p).mats, p.qty)
      BY PayloadTypes DEF AasReport, AtMost, Quantities
    <2>4. AasReport(p) \in Report
      BY AasReportType
    <2> QED BY <1>t, <2>1, <2>2, <2>3, <2>4, PayloadCounted
  <1>3. ASSUME NEW t \in Thread, NEW w \in WO, Produce(t, w) PROVE CountedInv'
    BY <1>3, <1>t, ArriveCounted DEF Produce
  <1>4. ASSUME NEW t \in Thread, NEW w \in WO, Delete(t, w) PROVE CountedInv'
    BY <1>4, <1>t, ArriveCounted DEF Delete
  <1>5. ASSUME NEW t \in Thread, Refuse(t) \/ SendFails(t) \/ NotFound(t) PROVE CountedInv'
    <2>1. /\ db' = db /\ posted' = posted /\ thr'[t] = Free /\ thr[t] # Free
          /\ \A u \in Thread : u # t => thr'[u] = thr[u]
      BY <1>5, <1>t DEF Refuse, SendFails, NotFound, At, Free, told, Threads
    <2>2. \A s \in sent' : s \in sent \/ s = <<thr[t].wo, thr[t].report>>
      BY <1>5 DEF Refuse, SendFails, NotFound
    <2> QED BY <1>t, <2>1, <2>2, MoveCounted
  <1>6. ASSUME NEW t \in Thread, ReadBop(t) \/ ReadMaterials(t) PROVE CountedInv'
    BY <1>6, <1>t, ReadCounted
  <1>7. ASSUME NEW t \in Thread, Send(t) PROVE CountedInv'
    <2>1. /\ db' = db /\ posted' = posted /\ sent' = sent \cup {<<thr[t].wo, thr[t].report>>}
          /\ thr[t] # Free /\ thr' = [thr EXCEPT ![t].pc = "load"]
      BY <1>7 DEF Send, Goto, At, Free, told
    <2>2. thr[t] \in Request /\ RequestCounted(thr[t], posted, ComingOf(thr))
      BY <1>t, <2>1 DEF Threads, Serving, CountedInv
    <2>3. /\ \A u \in Thread : u # t => thr'[u] = thr[u]
          /\ thr'[t].wo = thr[t].wo /\ thr'[t].payload = thr[t].payload
          /\ thr'[t].report = thr[t].report /\ thr'[t].kind = thr[t].kind
          /\ thr'[t].base = thr[t].base
      BY <1>t, <2>1, <2>2 DEF Threads, Request
    <2>4. RequestCounted(thr'[t], posted, ComingOf(thr))
      BY <2>2, <2>3 DEF RequestCounted
    <2> QED BY <1>t, <2>1, <2>3, <2>4, MoveCounted
  <1>8. ASSUME NEW t \in Thread, Load(t) PROVE CountedInv'
    <2>1. /\ db' = db /\ posted' = posted /\ sent' = sent
          /\ thr[t] # Free /\ thr' = [thr EXCEPT ![t].base = db, ![t].pc = "save"]
      BY <1>8 DEF Load, Free, told
    <2>2. thr[t] \in Request /\ RequestCounted(thr[t], posted, ComingOf(thr))
      BY <1>t, <2>1 DEF Threads, Serving, CountedInv
    <2>3. /\ \A u \in Thread : u # t => thr'[u] = thr[u]
          /\ thr'[t].wo = thr[t].wo /\ thr'[t].payload = thr[t].payload
          /\ thr'[t].report = thr[t].report /\ thr'[t].kind = thr[t].kind
          /\ thr'[t].base = db
      BY <1>t, <2>1, <2>2 DEF Threads, Request
    <2>4. AllCounted(db, posted, ComingOf(thr))
      BY DEF CountedInv
    <2>5. RequestCounted(thr'[t], posted, ComingOf(thr))
      BY <2>2, <2>3, <2>4 DEF RequestCounted
    <2> QED BY <1>t, <2>1, <2>3, <2>5, MoveCounted
  <1>9. CASE Crash
    <2>1. /\ db' = db /\ posted' = posted /\ sent' = sent
          /\ \A u \in Thread : thr'[u] = Free
      BY <1>9 DEF Crash, told
    <2>2. \A u \in Thread, v \in WO, m \in Mat : Adds(thr'[u], v, m) <= Adds(thr[u], v, m)
      <3> TAKE u \in Thread, v \in WO, m \in Mat
      <3>1. Adds(thr[u], v, m) \in Nat
        BY <1>t, AddsType DEF Threads
      <3>2. Adds(Free, v, m) = 0
        BY DEF Adds
      <3> QED BY <2>1, <3>1, <3>2
    <2>3. AllCounted(db', posted, ComingOf(thr'))
      BY <1>t, <2>1, <2>2, FewerCounted
    <2> QED BY <1>t, <2>1, <2>2, <2>3, QuietCounted
  <1>10. CASE UNCHANGED vars
    <2>1. db' = db /\ thr' = thr /\ sent' = sent /\ posted' = posted
      BY <1>10 DEF vars, told
    <2>2. ComingOf(thr') = ComingOf(thr)
      BY <2>1
    <2> QED BY <2>1, <2>2 DEF CountedInv
  <1> QED
    BY <1>t, <1>1, <1>2, <1>3, <1>4, <1>5, <1>6, <1>7, <1>8, <1>9, <1>10, SaveCounted DEF Next

\* No order of requests, no overwriting save, deletion or restart lets a record
\* or a submitted report hold more than was posted, or a footprint nobody posted.
THEOREM NothingIsCountedTwice == Spec => []NothingCountedTwice
  <1>1. TypeInv /\ CountedInv => NothingCountedTwice
    <2> SUFFICES ASSUME TypeInv, CountedInv PROVE NothingCountedTwice
      OBVIOUS
    <2>1. thr \in Threads /\ posted \in [WO -> Posts] /\ db \in Documents
      BY DEF TypeInv, TypeOK
    <2>2. ComingOf(thr) \in Sums
      BY <2>1, ComingIsSums
    <2>3. ASSUME NEW w \in WO, db[w] # None
          PROVE  MadeOfPosts(w, db[w].ops, db[w].qty) /\ MadeOfPosts(w, db[w].bop, db[w].priced)
      <3>1. db[w] \in Record /\ Counted(db[w], posted[w], ComingOf(thr)[w])
        BY <2>1, <2>3 DEF CountedInv, AllCounted, Documents
      <3>2. ASSUME NEW m \in Mat
            PROVE  db[w].qty[m] <= posted[w].qty[m] /\ db[w].priced[m] <= posted[w].qty[m]
        <4>1. /\ db[w].priced[m] <= db[w].qty[m]
              /\ db[w].qty[m] + ComingOf(thr)[w][m] <= posted[w].qty[m]
          BY <3>1 DEF Counted, AtMost
        <4>2. /\ db[w].priced[m] \in Nat /\ db[w].qty[m] \in Nat
              /\ ComingOf(thr)[w][m] \in Nat /\ posted[w].qty[m] \in Nat
          BY <2>1, <2>2, <3>1 DEF Record, Quantities, Sums, Posts
        <4> QED BY <4>1, <4>2
      <3> QED BY <3>1, <3>2 DEF MadeOfPosts, Counted, AtMost
    <2>4. \A s \in sent : MadeOfPosts(s[1], s[2].ops, s[2].mats)
      BY DEF CountedInv, Made, MadeOfPosts
    <2> QED BY <2>3, <2>4 DEF NothingCountedTwice
  <1> QED BY <1>1, InitTypeInv, NextTypeInv, InitCounted, NextCounted, PTL DEF Spec
=============================================================================
