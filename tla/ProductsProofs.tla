--------------------------- MODULE ProductsProofs ---------------------------
(***************************************************************************)
(* What holds of Products for every set of threads, names and tasks, every *)
(* catalog SiGREEN may start with, and every number of calls and faults.   *)
(***************************************************************************)
EXTENDS Products, WellFoundedInduction, TLAPS

ThreadState == [pc : Pcs, n : 0 .. MaxCalls, ident : Name \cup {Blank}, factory : BOOLEAN,
                attempt : 0 .. Attempts, uuid : Nat \cup {None}, created : BOOLEAN]

\* The places of a call that looks for a product, and so has a name for it.
Looking == {"query", "list", "create", "wait", "sleep"}

\* A place in a call needs a name, an attempt to count, or a product.
Ready(t) ==
  /\ thr[t].pc # "idle" => thr[t].n \in 1 .. MaxCalls
  /\ thr[t].pc \in Looking => thr[t].ident \in Name
  /\ thr[t].pc = "create" => thr[t].attempt < Attempts
  /\ thr[t].pc \in {"wait", "sleep"} => thr[t].attempt > 0
  /\ thr[t].pc = "send" => thr[t].uuid \in Nat

ServerInv ==
  /\ catalog \in Seq(Product)
  /\ posted \subseteq [by : CallId, attempt : 1 .. Attempts, ident : Name]
  /\ filed \subseteq CallId \X (Name \cup {Blank}) \X Nat

ThreadsInv == thr \in [Caller -> ThreadState] /\ \A t \in Caller : Ready(t)

NotesInv ==
  /\ result \in [CallId -> Result \cup {None}]
  /\ faults \in 0 .. MaxFaults
  /\ blind \subseteq CallId
  /\ base \in [CallId -> Nat]

TypeInv == ServerInv /\ ThreadsInv /\ NotesInv

\* The type invariant gives TypeOK.
LEMMA TypeInvImpliesTypeOK == TypeInv => TypeOK
  BY DEF TypeInv, ServerInv, ThreadsInv, NotesInv, ThreadState, TypeOK

-----------------------------------------------------------------------------

\* A thread in a call has a number for it.
LEMMA CallIsCall ==
  ASSUME TypeInv, NEW t \in Caller, thr[t].pc # "idle"
  PROVE  Call(t) \in CallId
  BY DEF TypeInv, ThreadsInv, Ready, Call, CallId

\* A thread with another value in one field is well typed.
LEMMA FieldTypes ==
  ASSUME NEW s \in ThreadState
  PROVE  /\ \A l \in Pcs : [s EXCEPT !.pc = l] \in ThreadState
         /\ \A i \in Nat \cup {None} : [s EXCEPT !.uuid = i] \in ThreadState
         /\ \A b \in BOOLEAN : [s EXCEPT !.created = b] \in ThreadState
         /\ \A k \in 0 .. Attempts : [s EXCEPT !.attempt = k] \in ThreadState
  BY DEF ThreadState

\* A thread without a call is well typed.
LEMMA IdleIsThread ==
  ASSUME NEW n \in 0 .. MaxCalls
  PROVE  Idle(n) \in ThreadState /\ Idle(n).pc = "idle"
  BY DEF Idle, ThreadState, Pcs, Attempts

\* A thread goes to s.
LEMMA ThreadMoves ==
  ASSUME TypeInv, NEW t \in Caller, NEW s \in ThreadState, thr' = [thr EXCEPT ![t] = s],
         s.pc # "idle" => s.n \in 1 .. MaxCalls,
         s.pc \in Looking => s.ident \in Name,
         s.pc = "create" => s.attempt < Attempts,
         s.pc \in {"wait", "sleep"} => s.attempt > 0,
         s.pc = "send" => s.uuid \in Nat
  PROVE  ThreadsInv'
  BY DEF TypeInv, ThreadsInv, Ready

\* Finish keeps the types.
LEMMA FinishTypes ==
  ASSUME TypeInv, NEW t \in Caller, thr[t].pc # "idle", NEW o \in Result, Finish(t, o)
  PROVE  ThreadsInv' /\ result' \in [CallId -> Result \cup {None}]
<1>1. thr[t].n \in 0 .. MaxCalls
  BY DEF TypeInv, ThreadsInv, ThreadState
<1>2. ThreadsInv'
  BY <1>1, IdleIsThread, ThreadMoves DEF Finish, Looking
<1>3. Call(t) \in CallId
  BY CallIsCall
<1> QED
  BY <1>2, <1>3 DEF Finish, TypeInv, NotesInv

\* Raise keeps the types.
LEMMA RaiseTypes ==
  ASSUME TypeInv, NEW t \in Caller, thr[t].pc # "idle", Raise(t)
  PROVE  ThreadsInv' /\ result' \in [CallId -> Result \cup {None}]
<1>1. Failed \in Result
  BY DEF Failed, Result
<1> QED
  BY <1>1, FinishTypes DEF Raise

\* Goto keeps the types.
LEMMA GotoTypes ==
  ASSUME TypeInv, NEW t \in Caller, NEW l \in Looking, Goto(t, l), thr[t].pc \in Looking,
         l = "create" => thr[t].attempt < Attempts,
         l \in {"wait", "sleep"} => thr[t].attempt > 0
  PROVE  ThreadsInv'
  BY DEF TypeInv, ThreadsInv, ThreadState, Ready, Goto, Looking, Pcs

\* A product was found or made.
LEMMA SendTypes ==
  ASSUME TypeInv, NEW t \in Caller, NEW i \in Nat, NEW b \in BOOLEAN, thr[t].pc # "idle",
         thr' = [thr EXCEPT ![t].pc = "send", ![t].uuid = i, ![t].created = b]
  PROVE  /\ ThreadsInv'
         /\ thr'[t].pc = "send" /\ thr'[t].n = thr[t].n /\ thr'[t].ident = thr[t].ident
         /\ thr'[t].uuid = i /\ thr'[t].created = b
         /\ \A u \in Caller \ {t} : thr'[u] = thr[u]
<1>1. thr \in [Caller -> ThreadState] /\ \A u \in Caller : Ready(u)
  BY DEF TypeInv, ThreadsInv
<1>2. thr' \in [Caller -> ThreadState]
  <2>1. [[[thr[t] EXCEPT !.pc = "send"] EXCEPT !.uuid = i] EXCEPT !.created = b] \in ThreadState
    BY <1>1, FieldTypes DEF Pcs
  <2> QED
    BY <1>1, <2>1
<1>3. \A u \in Caller \ {t} : thr'[u] = thr[u]
  BY <1>1
<1>4. /\ thr'[t].pc = "send" /\ thr'[t].n = thr[t].n /\ thr'[t].ident = thr[t].ident
      /\ thr'[t].uuid = i /\ thr'[t].created = b
  BY <1>1 DEF ThreadState
<1>5. Ready(t)'
  BY <1>1, <1>4 DEF Ready, Looking
<1>6. \A u \in Caller \ {t} : Ready(u)'
  BY <1>1, <1>3 DEF Ready
<1> QED
  BY <1>2, <1>3, <1>4, <1>5, <1>6 DEF ThreadsInv

\* "Oldest" chooses an index.
LEMMA OldestIsIn ==
  ASSUME NEW S \in SUBSET Nat, S # {}
  PROVE  Oldest(S) \in S
<1> DEFINE Less == {ss \in Nat \X Nat : ss[1] < ss[2]}
<1>1. IsWellFoundedOn(Less, Nat)
  BY NatLessThanWellFounded DEF OpToRel
<1>2. PICK i \in S : \A j \in S : <<j, i>> \notin Less
  BY <1>1, WFMin
<1>3. ASSUME NEW j \in S PROVE i <= j
  <2>1. <<j, i>> \in Nat \X Nat /\ <<j, i>>[1] = j /\ <<j, i>>[2] = i
    OBVIOUS
  <2>2. ~(j < i)
    BY <1>2, <2>1
  <2> QED
    BY <2>2
<1> QED
  BY <1>3 DEF Oldest

\* The catalog is a numbered list of products,
LEMMA CatalogTypes ==
  ASSUME TypeInv
  PROVE  Len(catalog) \in Nat /\ DOMAIN catalog = 1 .. Len(catalog)
         /\ \A i \in DOMAIN catalog : catalog[i] \in Product
  BY DEF TypeInv, ServerInv

\* and the oldest product found is one of them.
LEMMA FoundIsProduct ==
  ASSUME TypeInv, NEW n
  PROVE  /\ Identified(n) # {} => Oldest(Identified(n)) \in Identified(n)
         /\ Matching(n) # {} => Oldest(Matching(n)) \in Matching(n)
<1>1. Identified(n) \in SUBSET Nat /\ Matching(n) \in SUBSET Nat
  BY CatalogTypes DEF Identified, Matching
<1> QED
  BY <1>1, OldestIsIn

\* A request to create is well typed.
LEMMA RequestTypes ==
  ASSUME TypeInv, NEW t \in Caller, thr[t].pc = "wait"
  PROVE  Request(t) \in [by : CallId, attempt : 1 .. Attempts, ident : Name]
<1>1. Call(t) \in CallId
  BY CallIsCall
<1>2. thr[t].attempt \in 1 .. Attempts /\ thr[t].ident \in Name
  BY DEF TypeInv, ThreadsInv, ThreadState, Ready, Looking, Attempts
<1> QED
  BY <1>1, <1>2 DEF Request

\* SiGREEN adds a product.
LEMMA MadeTypes ==
  ASSUME TypeInv, NEW r \in [by : CallId, attempt : 1 .. Attempts, ident : Name], NEW b \in BOOLEAN,
         Made(r, b)
  PROVE  /\ catalog' \in Seq(Product) /\ Len(catalog') = Len(catalog) + 1
         /\ \A i \in 1 .. Len(catalog) : catalog'[i] = catalog[i]
         /\ catalog'[Len(catalog) + 1].ident = r.ident
         /\ catalog'[Len(catalog) + 1].maker = r.by
         /\ catalog'[Len(catalog) + 1].late = b
<1> DEFINE p == [ident |-> r.ident, name |-> r.ident, maker |-> r.by, late |-> b]
<1>1. p \in Product
  BY DEF Product
<1>2. catalog' = Append(catalog, p) /\ catalog \in Seq(Product)
  BY DEF Made, TypeInv, ServerInv
<1> HIDE DEF p
<1>3. /\ catalog' \in Seq(Product) /\ Len(catalog') = Len(catalog) + 1
      /\ \A i \in 1 .. Len(catalog) : catalog'[i] = catalog[i]
      /\ catalog'[Len(catalog) + 1] = p
  BY <1>1, <1>2
<1> QED
  BY <1>3 DEF p

-----------------------------------------------------------------------------
(* Type correctness *)

\* The initial states satisfy TypeInv.
LEMMA InitTypes == Init => TypeInv
<1> SUFFICES ASSUME Init PROVE TypeInv
  OBVIOUS
<1>1. ServerInv
  BY InitialAssumption DEF Init, ServerInv
<1>2. ThreadsInv
  BY ProductsAssumption, IdleIsThread DEF Init, ThreadsInv, Ready, Looking
<1>3. NotesInv
  BY ProductsAssumption DEF Init, NotesInv
<1> QED
  BY <1>1, <1>2, <1>3 DEF TypeInv

\* Begin keeps the types.
LEMMA BeginTypes ==
  ASSUME TypeInv, NEW t \in Caller, Begin(t)
  PROVE  TypeInv'
<1> DEFINE S(k, f) == [pc |-> IF k.component # 0 THEN "send" ELSE "query",
                       n |-> thr[t].n + 1,
                       ident |-> IF k.component # 0 THEN Blank ELSE Identifier(k),
                       factory |-> f,
                       attempt |-> 0,
                       uuid |-> IF k.component # 0 THEN k.component ELSE None,
                       created |-> FALSE]
<1>1. PICK k \in Task, f \in BOOLEAN : thr' = [thr EXCEPT ![t] = S(k, f)]
  BY DEF Begin
<1>2. thr[t].n \in 0 .. MaxCalls /\ thr[t].n < MaxCalls /\ MaxCalls \in Nat
  BY ProductsAssumption DEF Begin, TypeInv, ThreadsInv, ThreadState
<1>3. k.component \in Nat /\ Identifier(k) \in Name
  BY ProductsAssumption DEF Identifier, First
<1> DEFINE s == S(k, f)
<1>4. thr' = [thr EXCEPT ![t] = s]
  BY <1>1
<1>5. s \in ThreadState /\ s.n \in 1 .. MaxCalls
  BY <1>2, <1>3 DEF ThreadState, Pcs, Attempts
<1>6. ThreadsInv'
  BY <1>3, <1>4, <1>5, ThreadMoves DEF Looking
<1>7. base' \in [CallId -> Nat]
  BY <1>2, CatalogTypes DEF Begin, TypeInv, NotesInv, CallId
<1> QED
  BY <1>6, <1>7 DEF Begin, TypeInv, ServerInv, NotesInv, server

\* Faults are counted up to their bound.
LEMMA FaultTypes == ASSUME TypeInv, Fault PROVE faults' \in 0 .. MaxFaults
  BY ProductsAssumption DEF TypeInv, NotesInv, Fault

\* A step that leaves the server alone.
LEMMA ServerKept == ASSUME TypeInv, UNCHANGED server PROVE ServerInv'
  BY DEF TypeInv, ServerInv, server

\* NotFound keeps the types.
LEMMA NotFoundTypes ==
  ASSUME TypeInv, NEW t \in Caller, thr[t].pc \in {"query", "list"}, NotFound(t)
  PROVE  ThreadsInv' /\ result' \in [CallId -> Result \cup {None}]
<1>1. CASE Raise(t)
  BY <1>1, RaiseTypes
<1>2. CASE Goto(t, "create") /\ UNCHANGED result /\ ~Exhausted(t)
  <2>1. thr[t].attempt < Attempts
    BY <1>2 DEF TypeInv, ThreadsInv, ThreadState, Exhausted, Attempts
  <2> QED
    BY <1>2, <2>1, GotoTypes DEF Looking, TypeInv, NotesInv
<1> QED
  BY <1>1, <1>2 DEF NotFound

\* Query keeps the types.
LEMMA QueryTypes ==
  ASSUME TypeInv, NEW t \in Caller, Query(t)
  PROVE  TypeInv'
<1>1. ASSUME Identified(thr[t].ident) # {}, Found(t, Oldest(Identified(thr[t].ident)))
      PROVE  ThreadsInv'
  <2>1. Oldest(Identified(thr[t].ident)) \in Nat
    BY <1>1, FoundIsProduct, CatalogTypes DEF Identified
  <2> QED
    BY <1>1, <2>1, SendTypes DEF Found, Query, At
<1>2. ASSUME Goto(t, "list")
      PROVE  ThreadsInv'
  BY <1>2, GotoTypes DEF Query, At, Looking
<1>3. ThreadsInv'
  BY <1>1, <1>2 DEF Query
<1> QED
  BY <1>3, ServerKept DEF Query, TypeInv, NotesInv

\* QueryIs404 keeps the types.
LEMMA QueryIs404Types ==
  ASSUME TypeInv, NEW t \in Caller, QueryIs404(t)
  PROVE  TypeInv'
  BY NotFoundTypes, ServerKept DEF QueryIs404, At, TypeInv, NotesInv

\* QueryFails keeps the types.
LEMMA QueryFailsTypes ==
  ASSUME TypeInv, NEW t \in Caller, QueryFails(t)
  PROVE  TypeInv'
<1>1. ThreadsInv' /\ result' \in [CallId -> Result \cup {None}]
  BY NotFoundTypes, RaiseTypes DEF QueryFails, At
<1>2. Call(t) \in CallId
  BY CallIsCall DEF QueryFails, At
<1> QED
  BY <1>1, <1>2, ServerKept, FaultTypes DEF QueryFails, TypeInv, NotesInv

\* List keeps the types.
LEMMA ListTypes ==
  ASSUME TypeInv, NEW t \in Caller, List(t)
  PROVE  TypeInv'
<1>1. ASSUME Matching(thr[t].ident) # {}, Found(t, Oldest(Matching(thr[t].ident))), UNCHANGED result
      PROVE  ThreadsInv' /\ result' \in [CallId -> Result \cup {None}]
  <2>1. Oldest(Matching(thr[t].ident)) \in Nat
    <3>1. Oldest(Matching(thr[t].ident)) \in Matching(thr[t].ident)
      BY <1>1, FoundIsProduct
    <3> QED
      BY <3>1, CatalogTypes DEF Matching
  <2> QED
    BY <1>1, <2>1, SendTypes DEF Found, List, At, TypeInv, NotesInv
<1>2. ThreadsInv' /\ result' \in [CallId -> Result \cup {None}]
  BY <1>1, NotFoundTypes DEF List, At
<1> QED
  BY <1>2, ServerKept DEF List, TypeInv, NotesInv

\* ListFails keeps the types.
LEMMA ListFailsTypes ==
  ASSUME TypeInv, NEW t \in Caller, ListFails(t)
  PROVE  TypeInv'
  BY NotFoundTypes, ServerKept, FaultTypes DEF ListFails, At, TypeInv, NotesInv

\* The next attempt is under way.
LEMMA CreateTypes ==
  ASSUME TypeInv, NEW t \in Caller, Create(t)
  PROVE  /\ TypeInv'
         /\ thr'[t].pc = "wait" /\ thr'[t].n = thr[t].n /\ thr'[t].ident = thr[t].ident
         /\ thr'[t].created = thr[t].created
         /\ \A u \in Caller \ {t} : thr'[u] = thr[u]
         /\ Request(t)' = [by |-> Call(t), attempt |-> thr[t].attempt + 1, ident |-> thr[t].ident]
         /\ posted' = posted \cup {Request(t)'}
<1>1. /\ thr \in [Caller -> ThreadState] /\ \A u \in Caller : Ready(u)
      /\ thr' = [thr EXCEPT ![t].pc = "wait", ![t].attempt = thr[t].attempt + 1]
  BY DEF TypeInv, ThreadsInv, Create
<1>2. thr[t].attempt \in 0 .. Attempts /\ thr[t].attempt < Attempts /\ thr[t].ident \in Name
  BY <1>1 DEF Create, At, ThreadState, Ready, Looking
<1>3. thr' \in [Caller -> ThreadState] /\ \A u \in Caller \ {t} : thr'[u] = thr[u]
  <2>1. [[thr[t] EXCEPT !.pc = "wait"] EXCEPT !.attempt = thr[t].attempt + 1] \in ThreadState
    <3>1. thr[t] \in ThreadState /\ thr[t].attempt + 1 \in 0 .. Attempts
      BY <1>1, <1>2 DEF Attempts
    <3>2. [thr[t] EXCEPT !.pc = "wait"] \in ThreadState
      BY <3>1, FieldTypes DEF Pcs
    <3> QED
      BY <3>1, <3>2, FieldTypes
  <2> QED
    BY <1>1, <2>1
<1>4. /\ thr'[t].pc = "wait" /\ thr'[t].n = thr[t].n /\ thr'[t].ident = thr[t].ident
      /\ thr'[t].attempt = thr[t].attempt + 1 /\ thr'[t].created = thr[t].created
  BY <1>1 DEF ThreadState
<1>5. Ready(t)'
  BY <1>1, <1>2, <1>4 DEF Ready, Looking, Create, At, Attempts
<1>6. \A u \in Caller \ {t} : Ready(u)'
  BY <1>1, <1>3 DEF Ready
<1>7. Call(t) \in CallId
  BY CallIsCall DEF Create, At
<1>8. Request(t)' = [by |-> Call(t), attempt |-> thr[t].attempt + 1, ident |-> thr[t].ident]
  BY <1>4 DEF Request, Call
<1>9. posted' = posted \cup {[by |-> Call(t), attempt |-> thr[t].attempt + 1, ident |-> thr[t].ident]}
  BY DEF Create, Request
<1>10. ServerInv'
  BY <1>2, <1>7, <1>9 DEF TypeInv, ServerInv, Create, Attempts
<1> QED
  BY <1>3, <1>4, <1>5, <1>6, <1>8, <1>9, <1>10 DEF Create, TypeInv, ThreadsInv, NotesInv

\* Created keeps the types.
LEMMA CreatedTypes ==
  ASSUME TypeInv, NEW t \in Caller, Created(t)
  PROVE  TypeInv'
<1>1. Request(t) \in [by : CallId, attempt : 1 .. Attempts, ident : Name]
  BY RequestTypes DEF Created, At
<1>2. catalog' \in Seq(Product)
  BY <1>1, MadeTypes DEF Created
<1>3. ThreadsInv'
  <2>1. Len(catalog) + 1 \in Nat
    BY CatalogTypes
  <2>2. thr[t].pc # "idle" /\ TRUE \in BOOLEAN
    BY DEF Created, At
  <2>3. thr' = [thr EXCEPT ![t].pc = "send", ![t].uuid = Len(catalog) + 1, ![t].created = TRUE]
    BY DEF Created
  <2> QED
    BY <2>1, <2>2, <2>3, SendTypes
<1> QED
  BY <1>2, <1>3 DEF Created, TypeInv, ServerInv, NotesInv

\* A create that ends without an answer that helps keeps the types.
LEMMA CreateEndsTypes ==
  ASSUME TypeInv, NEW t \in Caller, CreatedUnnoticed(t) \/ CreateRefused(t) \/ CreateTimesOut(t)
  PROVE  TypeInv'
<1>1. ThreadsInv'
  <2>1. thr[t].attempt > 0
    BY DEF TypeInv, ThreadsInv, Ready, CreatedUnnoticed, CreateRefused, CreateTimesOut, At
  <2> QED
    BY <2>1, GotoTypes DEF CreatedUnnoticed, CreateRefused, CreateTimesOut, At, Looking
<1>2. CASE CreatedUnnoticed(t)
  <2>1. Request(t) \in [by : CallId, attempt : 1 .. Attempts, ident : Name]
    BY <1>2, RequestTypes DEF CreatedUnnoticed, At
  <2>2. catalog' \in Seq(Product)
    BY <1>2, <2>1, MadeTypes DEF CreatedUnnoticed
  <2> QED
    BY <1>1, <1>2, <2>2, FaultTypes DEF CreatedUnnoticed, TypeInv, ServerInv, NotesInv
<1>3. CASE CreateRefused(t)
  BY <1>1, <1>3, FaultTypes DEF CreateRefused, TypeInv, ServerInv, NotesInv
<1>4. CASE CreateTimesOut(t)
  BY <1>1, <1>4, FaultTypes, ServerKept DEF CreateTimesOut, TypeInv, NotesInv
<1> QED
  BY <1>2, <1>3, <1>4

\* CreatedLate keeps the types.
LEMMA CreatedLateTypes ==
  ASSUME TypeInv, CreatedLate
  PROVE  TypeInv'
<1>1. PICK r \in posted :
        /\ posted' = posted \ {r}
        /\ Made(r, TRUE) \/ UNCHANGED catalog
        /\ UNCHANGED <<filed, thr, result, faults, blind, base>>
  BY DEF CreatedLate
<1>2. r \in [by : CallId, attempt : 1 .. Attempts, ident : Name]
  BY DEF TypeInv, ServerInv
<1>3. catalog' \in Seq(Product)
  BY <1>1, <1>2, MadeTypes DEF TypeInv, ServerInv
<1> QED
  BY <1>1, <1>3 DEF TypeInv, ServerInv, ThreadsInv, Ready, NotesInv

\* LookAgain keeps the types.
LEMMA LookAgainTypes ==
  ASSUME TypeInv, NEW t \in Caller, LookAgain(t)
  PROVE  TypeInv'
  BY GotoTypes, ServerKept DEF LookAgain, At, Looking, TypeInv, NotesInv

\* A report that is sent is well typed, and so is the result of its call.
LEMMA ReportTypes ==
  ASSUME TypeInv, NEW t \in Caller, thr[t].pc = "send"
  PROVE  /\ Report(t) \in CallId \X (Name \cup {Blank}) \X Nat
         /\ [sent |-> TRUE, uuid |-> thr[t].uuid, created |-> thr[t].created] \in Result
<1>1. Call(t) \in CallId
  BY CallIsCall
<1>2. thr[t].ident \in Name \cup {Blank} /\ thr[t].uuid \in Nat /\ thr[t].created \in BOOLEAN
  BY DEF TypeInv, ThreadsInv, ThreadState, Ready
<1> QED
  BY <1>1, <1>2 DEF Report, Result

\* A send, failed or not, keeps the types.
LEMMA SendStepTypes ==
  ASSUME TypeInv, NEW t \in Caller, Send(t) \/ SendFails(t)
  PROVE  TypeInv'
<1>1. thr[t].pc = "send"
  BY DEF Send, SendFails, At
<1>2. ThreadsInv' /\ result' \in [CallId -> Result \cup {None}]
  BY <1>1, ReportTypes, FinishTypes, RaiseTypes DEF Send, SendFails
<1>3. ServerInv'
  BY <1>1, ReportTypes DEF Send, SendFails, TypeInv, ServerInv
<1>4. faults' \in 0 .. MaxFaults
  BY FaultTypes DEF Send, SendFails, TypeInv, NotesInv
<1> QED
  BY <1>2, <1>3, <1>4 DEF Send, SendFails, TypeInv, NotesInv

\* Every step keeps TypeInv.
LEMMA NextTypes == TypeInv /\ [Next]_vars => TypeInv'
<1> SUFFICES ASSUME TypeInv, [Next]_vars PROVE TypeInv'
  OBVIOUS
<1>1. CASE UNCHANGED vars
  BY <1>1 DEF vars, TypeInv, ServerInv, ThreadsInv, Ready, NotesInv
<1>2. CASE \E t \in Caller : Begin(t)
  BY <1>2, BeginTypes
<1>3. ASSUME NEW t \in Caller, Step(t) PROVE TypeInv'
  BY <1>3, QueryTypes, QueryIs404Types, QueryFailsTypes, ListTypes, ListFailsTypes, CreateTypes,
     CreatedTypes, CreateEndsTypes, LookAgainTypes, SendStepTypes DEF Step
<1>4. CASE CreatedLate
  BY <1>4, CreatedLateTypes
<1> QED
  BY <1>1, <1>2, <1>3, <1>4 DEF Next

\* The type invariant of a call and of SiGREEN's catalog.
THEOREM TypeCorrect == Spec => []TypeOK
  BY InitTypes, NextTypes, TypeInvImpliesTypeOK, PTL DEF Spec

-----------------------------------------------------------------------------
(* What one step changes *)

\* The threads that do not step stay as they are; a call keeps its number.
LEMMA OthersStay ==
  ASSUME TypeInv, NEW t \in Caller, Begin(t) \/ Step(t), NEW u \in Caller \ {t}
  PROVE  thr'[u] = thr[u]
<1>1. thr \in [Caller -> ThreadState]
  BY DEF TypeInv, ThreadsInv
<1>2. CASE Begin(t)
  BY <1>1, <1>2 DEF Begin
<1>3. CASE Query(t) \/ QueryIs404(t) \/ QueryFails(t) \/ List(t) \/ ListFails(t)
  BY <1>1, <1>3 DEF Query, QueryIs404, QueryFails, List, ListFails, NotFound, Found, Raise, Finish, Goto
<1>4. CASE Create(t) \/ Created(t) \/ CreatedUnnoticed(t) \/ CreateRefused(t) \/ CreateTimesOut(t)
  BY <1>1, <1>4 DEF Create, Created, CreatedUnnoticed, CreateRefused, CreateTimesOut, Goto
<1>5. CASE LookAgain(t) \/ Send(t) \/ SendFails(t)
  BY <1>1, <1>5 DEF LookAgain, Send, SendFails, Raise, Finish, Goto
<1> QED
  BY <1>2, <1>3, <1>4, <1>5 DEF Step

\* A thread that goes on stays in its call, with its name.
LEMMA GotoStays ==
  ASSUME TypeInv, NEW t \in Caller, NEW l \in Pcs, Goto(t, l)
  PROVE  thr'[t] = [thr[t] EXCEPT !.pc = l] /\ thr'[t].pc = l /\ thr'[t].n = thr[t].n
         /\ thr'[t].ident = thr[t].ident
<1>1. thr \in [Caller -> ThreadState] /\ thr[t] \in ThreadState
  BY DEF TypeInv, ThreadsInv
<1> QED
  BY <1>1 DEF Goto, ThreadState

\* A call that ends leaves its thread idle.
LEMMA FinishIsIdle ==
  ASSUME TypeInv, NEW t \in Caller, NEW o, Finish(t, o)
  PROVE  thr'[t].pc = "idle" /\ thr'[t].n = thr[t].n
  BY DEF Finish, Idle, TypeInv, ThreadsInv

\* Where nothing was found the call ends or goes on to create.
LEMMA NotFoundStays ==
  ASSUME TypeInv, NEW t \in Caller, NotFound(t)
  PROVE  /\ thr'[t].n = thr[t].n
         /\ thr'[t].pc = "idle" \/ (thr'[t].pc = "create" /\ thr'[t].ident = thr[t].ident)
  BY GotoStays, FinishIsIdle DEF NotFound, Raise, Pcs

\* A call that found a product goes on to send, and did not create it.
LEMMA FoundIsSend ==
  ASSUME TypeInv, NEW t \in Caller, NEW i \in Nat, thr[t].pc # "idle", Found(t, i)
  PROVE  /\ thr'[t].pc = "send" /\ thr'[t].n = thr[t].n /\ thr'[t].ident = thr[t].ident
         /\ thr'[t].uuid = i /\ thr'[t].created = FALSE
  BY SendTypes DEF Found

\* A call whose create was answered goes on to send to the newest product.
LEMMA CreatedIsSend ==
  ASSUME TypeInv, NEW t \in Caller, Created(t)
  PROVE  /\ thr'[t].pc = "send" /\ thr'[t].n = thr[t].n /\ thr'[t].ident = thr[t].ident
         /\ thr'[t].uuid = Len(catalog) + 1 /\ thr'[t].created = TRUE
<1>1. Len(catalog) + 1 \in Nat /\ thr[t].pc # "idle" /\ TRUE \in BOOLEAN
  BY CatalogTypes DEF Created, At
<1>2. thr' = [thr EXCEPT ![t].pc = "send", ![t].uuid = Len(catalog) + 1, ![t].created = TRUE]
  BY DEF Created
<1> QED
  BY <1>1, <1>2, SendTypes

\* The catalog only grows, at its end.
Grown == /\ Len(catalog) <= Len(catalog')
         /\ \A i \in DOMAIN catalog : i \in DOMAIN catalog' /\ catalog'[i] = catalog[i]

\* A catalog that stays is a grown one.
LEMMA SameIsGrown == ASSUME TypeInv, UNCHANGED catalog PROVE Grown
  BY CatalogTypes DEF Grown

\* A new product is put at the end.
LEMMA MadeGrows ==
  ASSUME TypeInv, NEW r \in [by : CallId, attempt : 1 .. Attempts, ident : Name], NEW b \in BOOLEAN,
         Made(r, b)
  PROVE  /\ Grown
         /\ \A i \in DOMAIN catalog' : i \in DOMAIN catalog \/ i = Len(catalog) + 1
         /\ Len(catalog) + 1 \in DOMAIN catalog' /\ Len(catalog) + 1 \in Nat
         /\ catalog'[Len(catalog) + 1].ident = r.ident
         /\ catalog'[Len(catalog) + 1].name = r.ident
         /\ catalog'[Len(catalog) + 1].maker = r.by
         /\ catalog'[Len(catalog) + 1].late = b
<1>1. /\ catalog' \in Seq(Product) /\ Len(catalog') = Len(catalog) + 1
      /\ \A i \in 1 .. Len(catalog) : catalog'[i] = catalog[i]
      /\ catalog'[Len(catalog) + 1].ident = r.ident
      /\ catalog'[Len(catalog) + 1].maker = r.by
      /\ catalog'[Len(catalog) + 1].late = b
  BY MadeTypes
<1>2. DOMAIN catalog' = 1 .. Len(catalog) + 1 /\ DOMAIN catalog = 1 .. Len(catalog) /\ Len(catalog) \in Nat
  BY <1>1, CatalogTypes
<1>3. catalog'[Len(catalog) + 1].name = r.ident
  BY DEF Made, TypeInv, ServerInv
<1> QED
  BY <1>1, <1>2, <1>3 DEF Grown

\* A create that SiGREEN carries out while its caller waits.
Carried(t) == Created(t) \/ CreatedUnnoticed(t)

\* A request that is carried out makes a product of its own name.
LEMMA CarriedGrows ==
  ASSUME TypeInv, NEW t \in Caller, Carried(t)
  PROVE  /\ Request(t) \in [by : CallId, attempt : 1 .. Attempts, ident : Name]
         /\ Made(Request(t), FALSE) /\ Request(t).by = Call(t) /\ Request(t).ident = thr[t].ident
         /\ thr[t].pc = "wait" /\ FALSE \in BOOLEAN
  BY RequestTypes DEF Carried, Created, CreatedUnnoticed, At, Request

\* No step takes a product away or changes one.
LEMMA CatalogGrows == ASSUME TypeInv, [Next]_vars PROVE Grown
<1>1. ASSUME NEW t \in Caller, Carried(t) PROVE Grown
  BY <1>1, CarriedGrows, MadeGrows
<1>2. ASSUME NEW t \in Caller, Begin(t) \/ Step(t), ~Carried(t) PROVE UNCHANGED catalog
  BY <1>2 DEF Begin, Step, Carried, Query, QueryIs404, QueryFails, List, ListFails, Create,
     CreateRefused, CreateTimesOut, LookAgain, Send, SendFails, server
<1>3. CASE CreatedLate
  <2>1. PICK r \in posted : Made(r, TRUE) \/ UNCHANGED catalog
    BY <1>3 DEF CreatedLate
  <2>2. r \in [by : CallId, attempt : 1 .. Attempts, ident : Name] /\ TRUE \in BOOLEAN
    BY DEF TypeInv, ServerInv
  <2> QED
    BY <2>1, <2>2, MadeGrows, SameIsGrown
<1>4. CASE UNCHANGED vars
  BY <1>4, SameIsGrown DEF vars
<1> QED
  BY <1>1, <1>2, <1>3, <1>4, SameIsGrown DEF Next

-----------------------------------------------------------------------------
(* What a call that is about to send knows of its product *)

\* "Created" is this call's product, and a name is one of the product's.
Knows(c, n, i, made) ==
  /\ made => i \in DOMAIN catalog /\ catalog[i].maker = c
  /\ n \in Name => i \in DOMAIN catalog /\ n \in {catalog[i].ident, catalog[i].name}

SenderInv == \A t \in Caller : At(t, "send") =>
  Knows(Call(t), thr[t].ident, thr[t].uuid, thr[t].created)

ResultInv == \A c \in CallId : result[c] # None =>
  /\ result[c].created => result[c].uuid \in DOMAIN catalog /\ catalog[result[c].uuid].maker = c
  /\ result[c].sent => \E n \in Name \cup {Blank} : <<c, n, result[c].uuid>> \in filed

FiledInv == \A c \in CallId, n \in Name \cup {Blank}, i \in Nat : <<c, n, i>> \in filed =>
  i \in DOMAIN catalog /\ Knows(c, n, i, FALSE)

CallInv == SenderInv /\ ResultInv /\ FiledInv

\* CallInv gives the three promises to callers.
LEMMA CallInvIsEnough ==
  ASSUME TypeInv, CallInv
  PROVE  CreatedFlagIsTrue /\ ReportsFitTheirProduct /\ SentMeansFiled
<1>1. CreatedFlagIsTrue
  BY DEF CallInv, SenderInv, ResultInv, Knows, CreatedFlagIsTrue
<1>2. ReportsFitTheirProduct
  BY CatalogTypes DEF CallInv, FiledInv, Knows, ReportsFitTheirProduct
<1>3. SentMeansFiled
  BY DEF CallInv, ResultInv, SentMeansFiled
<1> QED
  BY <1>1, <1>2, <1>3

\* What is known of a product stays so.
LEMMA KnownStays ==
  ASSUME Grown, NEW c, NEW n, NEW i, NEW made, Knows(c, n, i, made)
  PROVE  Knows(c, n, i, made)'
  BY DEF Grown, Knows

\* A product that was found has the name, and is not said to be created.
LEMMA FoundKnows ==
  ASSUME TypeInv, NEW t \in Caller, NEW i \in Matching(thr[t].ident), thr[t].pc # "idle",
         Found(t, i), UNCHANGED catalog
  PROVE  Knows(Call(t), thr[t].ident, thr[t].uuid, thr[t].created)'
<1>1. i \in Nat /\ i \in DOMAIN catalog /\ thr[t].ident \in {catalog[i].ident, catalog[i].name}
  BY CatalogTypes DEF Matching
<1>2. thr'[t].ident = thr[t].ident /\ thr'[t].uuid = i /\ thr'[t].created = FALSE
  BY <1>1, FoundIsSend
<1> QED
  BY <1>1, <1>2 DEF Knows

\* A call that created knows the product it sends to,
LEMMA CreatedKnows ==
  ASSUME TypeInv, NEW t \in Caller, Created(t)
  PROVE  Knows(Call(t), thr[t].ident, thr[t].uuid, thr[t].created)'
<1>1. /\ Len(catalog) + 1 \in DOMAIN catalog'
      /\ catalog'[Len(catalog) + 1].ident = thr[t].ident
      /\ catalog'[Len(catalog) + 1].maker = Call(t)
  BY CarriedGrows, MadeGrows DEF Carried
<1>2. /\ thr'[t].n = thr[t].n /\ thr'[t].ident = thr[t].ident
      /\ thr'[t].uuid = Len(catalog) + 1
  BY CreatedIsSend
<1> QED
  BY <1>1, <1>2 DEF Knows, Call

\* and so does one that is given it.
LEMMA BeginKnows ==
  ASSUME TypeInv, NEW t \in Caller, Begin(t), thr'[t].pc = "send"
  PROVE  Knows(Call(t), thr[t].ident, thr[t].uuid, thr[t].created)'
<1>1. thr \in [Caller -> ThreadState]
  BY DEF TypeInv, ThreadsInv
<1>2. thr'[t].ident = Blank /\ thr'[t].created = FALSE
  BY <1>1 DEF Begin
<1> QED
  BY <1>2, ProductsAssumption DEF Knows

\* Where a thread arrives at "send".
LEMMA Arrives ==
  ASSUME TypeInv, NEW t \in Caller, Step(t), thr'[t].pc = "send"
  PROVE  \/ Created(t)
         \/ \E i \in Matching(thr[t].ident) : Found(t, i) /\ thr[t].pc # "idle" /\ UNCHANGED catalog
<1>1. ASSUME Query(t) PROVE \E i \in Matching(thr[t].ident) : Found(t, i)
  <2>1. Identified(thr[t].ident) \subseteq Matching(thr[t].ident)
    BY DEF Identified, Matching
  <2>2. CASE Identified(thr[t].ident) # {}
    BY <1>1, <2>1, <2>2, FoundIsProduct DEF Query
  <2>3. CASE Identified(thr[t].ident) = {}
    BY <1>1, <2>3, GotoStays DEF Query, Pcs
  <2> QED
    BY <2>2, <2>3
<1>2. ASSUME List(t) PROVE \E i \in Matching(thr[t].ident) : Found(t, i)
  <2>1. CASE Matching(thr[t].ident) # {}
    BY <1>2, <2>1, FoundIsProduct DEF List
  <2>2. CASE Matching(thr[t].ident) = {}
    BY <1>2, <2>2, NotFoundStays DEF List
  <2> QED
    BY <2>1, <2>2
<1>3. ~(QueryIs404(t) \/ QueryFails(t) \/ ListFails(t))
  BY NotFoundStays, FinishIsIdle DEF QueryIs404, QueryFails, ListFails, Raise
<1>4. ~(CreatedUnnoticed(t) \/ CreateRefused(t) \/ CreateTimesOut(t) \/ LookAgain(t))
  BY GotoStays DEF CreatedUnnoticed, CreateRefused, CreateTimesOut, LookAgain, Pcs
<1>5. ~Create(t)
  BY CreateTypes
<1>6. ~(Send(t) \/ SendFails(t))
  BY FinishIsIdle DEF Send, SendFails, Raise
<1> QED
  BY <1>1, <1>2, <1>3, <1>4, <1>5, <1>6 DEF Step, Query, List, At, server

\* Every step keeps what senders know,
LEMMA SenderStays ==
  ASSUME TypeInv, SenderInv, [Next]_vars
  PROVE  SenderInv'
<1> SUFFICES ASSUME NEW t \in Caller, thr'[t].pc = "send"
             PROVE  Knows(Call(t), thr[t].ident, thr[t].uuid, thr[t].created)'
  BY DEF SenderInv, At
<1>1. Grown
  BY CatalogGrows
<1>2. ASSUME thr'[t] = thr[t]
      PROVE  Knows(Call(t), thr[t].ident, thr[t].uuid, thr[t].created)'
  <2>1. Knows(Call(t), thr[t].ident, thr[t].uuid, thr[t].created)
    BY <1>2 DEF SenderInv, At
  <2> QED
    BY <1>1, <1>2, <2>1 DEF Knows, Grown, Call
<1>3. ASSUME NEW u \in Caller, Begin(u) \/ Step(u)
      PROVE  Knows(Call(t), thr[t].ident, thr[t].uuid, thr[t].created)'
  <2>1. CASE u # t
    BY <1>2, <1>3, <2>1, OthersStay
  <2>2. CASE Begin(t)
    BY <2>2, BeginKnows
  <2>3. CASE Step(t)
    BY <2>3, Arrives, CreatedKnows, FoundKnows
  <2> QED
    BY <1>3, <2>1, <2>2, <2>3
<1> QED
  BY <1>2, <1>3 DEF Next, CreatedLate, vars

\* The reports after a step, and the results.
LEMMA Files ==
  ASSUME TypeInv, SenderInv, [Next]_vars
  PROVE  /\ filed \subseteq filed'
         /\ \A e \in filed' \ filed : \E t \in Caller :
              At(t, "send") /\ e = Report(t) /\ thr[t].uuid \in DOMAIN catalog
<1>1. ASSUME NEW t \in Caller, Send(t) \/ SendFails(t)
      PROVE  filed' = filed \/ (filed' = filed \cup {Report(t)} /\ At(t, "send") /\ thr[t].uuid \in DOMAIN catalog)
  BY <1>1 DEF Send, SendFails
<1>2. ASSUME NEW t \in Caller, Begin(t) \/ Step(t), ~(Send(t) \/ SendFails(t))
      PROVE  filed' = filed
  BY <1>2 DEF Begin, Step, Query, QueryIs404, QueryFails, List, ListFails, Create, Created,
     CreatedUnnoticed, CreateRefused, CreateTimesOut, LookAgain, server
<1>3. CASE CreatedLate \/ UNCHANGED vars
  BY <1>3 DEF CreatedLate, vars
<1> QED
  BY <1>1, <1>2, <1>3 DEF Next

\* what is filed,
LEMMA FiledStays ==
  ASSUME TypeInv, SenderInv, FiledInv, [Next]_vars
  PROVE  FiledInv'
<1> SUFFICES ASSUME NEW c \in CallId, NEW n \in Name \cup {Blank}, NEW i \in Nat, <<c, n, i>> \in filed'
             PROVE  (i \in DOMAIN catalog /\ Knows(c, n, i, FALSE))'
  BY DEF FiledInv
<1>1. Grown
  BY CatalogGrows
<1>2. i \in DOMAIN catalog /\ Knows(c, n, i, FALSE)
  <2>1. CASE <<c, n, i>> \in filed
    BY <2>1 DEF FiledInv
  <2>2. CASE <<c, n, i>> \notin filed
    <3>1. PICK t \in Caller : At(t, "send") /\ <<c, n, i>> = Report(t) /\ thr[t].uuid \in DOMAIN catalog
      BY <2>2, Files
    <3>2. n = thr[t].ident /\ i = thr[t].uuid
      BY <3>1 DEF Report
    <3> QED
      BY <3>1, <3>2 DEF SenderInv, Knows
  <2> QED
    BY <2>1, <2>2
<1> QED
  BY <1>1, <1>2 DEF Grown, Knows

\* How a call ends.
LEMMA Results ==
  ASSUME TypeInv, [Next]_vars, NEW c \in CallId
  PROVE  \/ result'[c] = result[c]
         \/ result'[c] = Failed
         \/ \E t \in Caller : /\ At(t, "send") /\ c = Call(t) /\ Report(t) \in filed'
                              /\ result'[c] = [sent |-> TRUE, uuid |-> thr[t].uuid, created |-> thr[t].created]
<1>1. result \in [CallId -> Result \cup {None}]
  BY DEF TypeInv, NotesInv
<1>2. ASSUME NEW t \in Caller, Raise(t) PROVE result'[c] = result[c] \/ result'[c] = Failed
  BY <1>1, <1>2 DEF Raise, Finish
<1>3. ASSUME NEW t \in Caller, Begin(t) \/ Step(t), ~Send(t), ~Raise(t) PROVE result'[c] = result[c]
  BY <1>3 DEF Begin, Step, Query, QueryIs404, QueryFails, List, ListFails, Create, Created, NotFound,
     CreatedUnnoticed, CreateRefused, CreateTimesOut, LookAgain, SendFails
<1>4. ASSUME NEW t \in Caller, Send(t), ~Raise(t)
      PROVE  result'[c] = result[c]
             \/ (/\ At(t, "send") /\ c = Call(t) /\ Report(t) \in filed'
                 /\ result'[c] = [sent |-> TRUE, uuid |-> thr[t].uuid, created |-> thr[t].created])
  BY <1>1, <1>4 DEF Send, Finish
<1>5. CASE CreatedLate \/ UNCHANGED vars
  BY <1>5 DEF CreatedLate, vars
<1> QED
  BY <1>2, <1>3, <1>4, <1>5 DEF Next

\* and what callers were told.
LEMMA ResultStays ==
  ASSUME TypeInv, SenderInv, ResultInv, [Next]_vars
  PROVE  ResultInv'
<1> DEFINE Good(r, c) ==
      /\ r.created => r.uuid \in DOMAIN catalog' /\ catalog'[r.uuid].maker = c
      /\ r.sent => \E n \in Name \cup {Blank} : <<c, n, r.uuid>> \in filed'
<1> SUFFICES ASSUME NEW c \in CallId, result'[c] # None PROVE Good(result'[c], c)
  BY DEF ResultInv
<1>1. Grown /\ filed \subseteq filed'
  BY CatalogGrows, Files
<1>2. CASE result'[c] = result[c]
  BY <1>1, <1>2 DEF ResultInv, Grown
<1>3. CASE result'[c] = Failed
  BY <1>3 DEF Failed
<1>4. ASSUME NEW t \in Caller, At(t, "send"), c = Call(t), Report(t) \in filed',
             result'[c] = [sent |-> TRUE, uuid |-> thr[t].uuid, created |-> thr[t].created]
      PROVE  Good(result'[c], c)
  <2>1. thr[t].ident \in Name \cup {Blank}
    BY DEF TypeInv, ThreadsInv, ThreadState
  <2>2. <<c, thr[t].ident, thr[t].uuid>> \in filed'
    BY <1>4 DEF Report
  <2>3. thr[t].created => thr[t].uuid \in DOMAIN catalog' /\ catalog'[thr[t].uuid].maker = c
    BY <1>1, <1>4 DEF SenderInv, Knows, Grown
  <2> QED
    BY <1>4, <2>1, <2>2, <2>3
<1> QED
  BY <1>2, <1>3, <1>4, Results

\* Every step keeps CallInv.
LEMMA CallInvStays == TypeInv /\ CallInv /\ [Next]_vars => CallInv'
  BY SenderStays, ResultStays, FiledStays DEF CallInv

\* CallInv holds at first.
LEMMA CallInvStarts == Init => CallInv
<1> SUFFICES ASSUME Init PROVE CallInv
  OBVIOUS
<1>1. SenderInv
  BY DEF Init, SenderInv, At, Idle
<1>2. ResultInv /\ FiledInv
  BY DEF Init, ResultInv, FiledInv
<1> QED
  BY <1>1, <1>2 DEF CallInv

\* CallInv holds of every reachable state.
LEMMA CallInvAlways == Spec => [](TypeInv /\ CallInv)
  BY InitTypes, NextTypes, CallInvStarts, CallInvStays, PTL DEF Spec

\* "Created" is only said of a product that the call itself made.
THEOREM CreatedIsTrue == Spec => []CreatedFlagIsTrue
  BY CallInvAlways, CallInvIsEnough, PTL

\* A report is filed under a product that has the name it was sent for.
THEOREM ReportsFit == Spec => []ReportsFitTheirProduct
  BY CallInvAlways, CallInvIsEnough, PTL

\* What a call reports as sent is filed, under the product it names.
THEOREM SentIsFiled == Spec => []SentMeansFiled
  BY CallInvAlways, CallInvIsEnough, PTL

-----------------------------------------------------------------------------
(* Products with one identifier *)

\* Why a call could not see product i when it last looked.
Unseen(c, i) == \/ catalog[i].late \/ c \in blind
                \/ catalog[i].maker # c /\ i > base[c]

\* What a call that is about to create has not seen.
CreatorInv == \A t \in Caller : thr[t].pc \in {"list", "create", "wait"} =>
  \A i \in DOMAIN catalog : catalog[i].ident = thr[t].ident => Unseen(Call(t), i)

PairInv == \A i, j \in DOMAIN catalog : i < j /\ catalog[i].ident = catalog[j].ident =>
  catalog[j].late \/ (catalog[j].maker \in CallId /\ Unseen(catalog[j].maker, i))

\* Products are made by calls that have begun, and calls began at the catalog's end.
MakerInv == \A i \in DOMAIN catalog : catalog[i].maker \in CallId /\ ~catalog[i].late =>
  catalog[i].maker[2] <= thr[catalog[i].maker[1]].n

BaseInv == \A c \in CallId : base[c] \in Nat /\ base[c] <= Len(catalog)

DupInv == CreatorInv /\ PairInv /\ MakerInv /\ BaseInv

\* DupInv explains every duplicate.
LEMMA DupInvIsEnough == ASSUME TypeInv, DupInv PROVE DuplicatesHaveAReason
  BY DEF DupInv, PairInv, Unseen, DuplicatesHaveAReason

\* A call that could not see stays one.
LEMMA BlindGrows == ASSUME [Next]_vars PROVE blind \subseteq blind'
<1>1. ASSUME NEW t \in Caller, Begin(t) \/ Step(t) PROVE blind \subseteq blind'
  BY <1>1 DEF Begin, Step, Query, QueryIs404, QueryFails, List, ListFails, Create, Created,
     CreatedUnnoticed, CreateRefused, CreateTimesOut, LookAgain, Send, SendFails
<1> QED
  BY <1>1 DEF Next, CreatedLate, vars

\* Only a call that begins changes a base, its own.
LEMMA BaseStays ==
  ASSUME TypeInv, [Next]_vars, NEW c \in CallId, base'[c] # base[c]
  PROVE  \E t \in Caller : Begin(t) /\ c = <<t, thr[t].n + 1>> /\ base'[c] = Len(catalog)
                           /\ UNCHANGED catalog
<1>1. ASSUME NEW t \in Caller, Step(t) PROVE base' = base
  BY <1>1 DEF Step, Query, QueryIs404, QueryFails, List, ListFails, Create, Created,
     CreatedUnnoticed, CreateRefused, CreateTimesOut, LookAgain, Send, SendFails
<1>2. PICK t \in Caller : Begin(t)
  BY <1>1 DEF Next, CreatedLate, vars
<1>3. base \in [CallId -> Nat]
  BY DEF TypeInv, NotesInv
<1> QED
  BY <1>2, <1>3 DEF Begin, server

\* The calls of a thread are numbered upwards.
LEMMA NumbersGrow ==
  ASSUME TypeInv, [Next]_vars, NEW t \in Caller
  PROVE  /\ thr[t].n \in Nat /\ thr'[t].n \in Nat /\ thr[t].n <= thr'[t].n
         /\ Begin(t) => thr'[t].n = thr[t].n + 1
<1>1. thr \in [Caller -> ThreadState] /\ thr[t] \in ThreadState /\ thr[t].n \in Nat
  BY ProductsAssumption DEF TypeInv, ThreadsInv, ThreadState
<1>2. ASSUME Begin(t) PROVE thr'[t].n = thr[t].n + 1
  BY <1>1, <1>2 DEF Begin
<1>3. ASSUME Step(t) PROVE thr'[t].n = thr[t].n
  <2>1. CASE thr'[t].pc = "send"
    <3>1. CASE Created(t)
      BY <3>1, CreatedIsSend
    <3>2. ASSUME NEW i \in Matching(thr[t].ident), Found(t, i), thr[t].pc # "idle"
          PROVE  thr'[t].n = thr[t].n
      <4>1. i \in Nat
        BY CatalogTypes DEF Matching
      <4> QED
        BY <3>2, <4>1, FoundIsSend
    <3> QED
      BY <1>3, <2>1, <3>1, <3>2, Arrives
  <2>2. CASE thr'[t].pc # "send"
    <3>1. CASE Query(t) \/ List(t)
      <4>1. ASSUME NEW i, Found(t, i) PROVE thr'[t].pc = "send"
        BY <1>1, <4>1 DEF Found, ThreadState
      <4> QED
        BY <2>2, <3>1, <4>1, GotoStays, NotFoundStays DEF Query, List, Pcs
    <3>2. CASE QueryIs404(t) \/ QueryFails(t) \/ ListFails(t) \/ Send(t) \/ SendFails(t)
      BY <3>2, NotFoundStays, FinishIsIdle DEF QueryIs404, QueryFails, ListFails, Send, SendFails, Raise
    <3>3. CASE Create(t)
      BY <3>3, CreateTypes
    <3>4. CASE CreatedUnnoticed(t) \/ CreateRefused(t) \/ CreateTimesOut(t) \/ LookAgain(t)
      BY <3>4, GotoStays DEF CreatedUnnoticed, CreateRefused, CreateTimesOut, LookAgain, Pcs
    <3>5. CASE Created(t)
      BY <2>2, <3>5, CreatedIsSend
    <3> QED
      BY <1>3, <3>1, <3>2, <3>3, <3>4, <3>5 DEF Step
  <2> QED
    BY <2>1, <2>2
<1>4. ASSUME NEW u \in Caller \ {t}, Begin(u) \/ Step(u) PROVE thr'[t] = thr[t]
  BY <1>4, OthersStay
<1>5. ASSUME CreatedLate \/ UNCHANGED vars PROVE thr' = thr
  BY <1>5 DEF CreatedLate, vars
<1>6. thr'[t].n = thr[t].n \/ (Begin(t) /\ thr'[t].n = thr[t].n + 1)
  <2>1. CASE CreatedLate \/ UNCHANGED vars
    BY <1>5, <2>1
  <2>2. ASSUME NEW u \in Caller \ {t}, Begin(u) \/ Step(u) PROVE thr'[t].n = thr[t].n
    BY <1>4, <2>2
  <2> QED
    BY <1>2, <1>3, <2>1, <2>2 DEF Next
<1> QED
  BY <1>1, <1>2, <1>6

\* A call that has begun keeps its base.
LEMMA PastBaseStays ==
  ASSUME TypeInv, [Next]_vars, NEW c \in CallId, c[2] <= thr[c[1]].n
  PROVE  base'[c] = base[c]
<1> SUFFICES ASSUME base'[c] # base[c] PROVE FALSE
  OBVIOUS
<1>1. PICK t \in Caller : Begin(t) /\ c = <<t, thr[t].n + 1>>
  BY BaseStays
<1>2. c[1] = t /\ c[2] = thr[t].n + 1 /\ thr[t].n \in Nat
  BY <1>1, NumbersGrow
<1> QED
  BY <1>2

\* Every step keeps BaseInv.
LEMMA BaseInvStays == ASSUME TypeInv, BaseInv, [Next]_vars PROVE BaseInv'
<1> SUFFICES ASSUME NEW c \in CallId PROVE base'[c] \in Nat /\ base'[c] <= Len(catalog')
  BY DEF BaseInv
<1>1. Grown /\ Len(catalog) \in Nat /\ Len(catalog') \in Nat
  <2>1. TypeInv'
    BY NextTypes
  <2> QED
    BY <2>1, CatalogGrows, CatalogTypes DEF TypeInv, ServerInv
<1>2. CASE base'[c] = base[c]
  BY <1>1, <1>2 DEF BaseInv, Grown
<1>3. CASE base'[c] # base[c]
  BY <1>1, <1>3, BaseStays DEF Grown
<1> QED
  BY <1>2, <1>3

\* What a call did not see it has not seen later either.
LEMMA UnseenStays ==
  ASSUME TypeInv, [Next]_vars, NEW c \in CallId, c[2] <= thr[c[1]].n,
         NEW i \in DOMAIN catalog, Unseen(c, i)
  PROVE  Unseen(c, i)'
<1>1. catalog'[i] = catalog[i] /\ blind \subseteq blind' /\ base'[c] = base[c]
  BY CatalogGrows, BlindGrows, PastBaseStays DEF Grown
<1> QED
  BY <1>1 DEF Unseen

\* The product a step adds: a late one, or one of a call that waits for it.
LEMMA Added ==
  ASSUME TypeInv, [Next]_vars, NEW j \in DOMAIN catalog', j \notin DOMAIN catalog
  PROVE  /\ j = Len(catalog) + 1
         /\ \/ catalog'[j].late
            \/ \E t \in Caller : /\ Carried(t) /\ thr[t].pc = "wait"
                                 /\ catalog'[j].ident = thr[t].ident
                                 /\ catalog'[j].maker = Call(t) /\ ~catalog'[j].late
<1>1. ASSUME NEW t \in Caller, Carried(t)
      PROVE  /\ j = Len(catalog) + 1 /\ thr[t].pc = "wait"
             /\ catalog'[j].ident = thr[t].ident /\ catalog'[j].maker = Call(t) /\ ~catalog'[j].late
  BY <1>1, CarriedGrows, MadeGrows
<1>2. ASSUME NEW t \in Caller, Begin(t) \/ Step(t), ~Carried(t) PROVE catalog' = catalog
  BY <1>2 DEF Begin, Step, Carried, Query, QueryIs404, QueryFails, List, ListFails, Create,
     CreateRefused, CreateTimesOut, LookAgain, Send, SendFails, server
<1>3. ASSUME CreatedLate PROVE j = Len(catalog) + 1 /\ catalog'[j].late
  <2>1. PICK r \in posted : Made(r, TRUE) \/ UNCHANGED catalog
    BY <1>3 DEF CreatedLate
  <2>2. r \in [by : CallId, attempt : 1 .. Attempts, ident : Name] /\ TRUE \in BOOLEAN
    BY DEF TypeInv, ServerInv
  <2> QED
    BY <2>1, <2>2, MadeGrows
<1>4. ~UNCHANGED vars
  BY DEF vars
<1> QED
  BY <1>1, <1>2, <1>3, <1>4 DEF Next

\* Every step keeps MakerInv.
LEMMA MakerInvStays == ASSUME TypeInv, MakerInv, [Next]_vars PROVE MakerInv'
<1> SUFFICES ASSUME NEW i \in DOMAIN catalog', catalog'[i].maker \in CallId, ~catalog'[i].late
             PROVE  catalog'[i].maker[2] <= thr'[catalog'[i].maker[1]].n
  BY DEF MakerInv
<1>1. catalog'[i].maker[1] \in Caller /\ catalog'[i].maker[2] \in Nat
  BY ProductsAssumption DEF CallId
<1>2. /\ thr[catalog'[i].maker[1]].n \in Nat /\ thr'[catalog'[i].maker[1]].n \in Nat
      /\ thr[catalog'[i].maker[1]].n <= thr'[catalog'[i].maker[1]].n
  BY <1>1, NumbersGrow
<1>3. catalog'[i].maker[2] <= thr[catalog'[i].maker[1]].n
  <2>1. CASE i \in DOMAIN catalog
    BY <2>1, CatalogGrows DEF Grown, MakerInv
  <2>2. CASE i \notin DOMAIN catalog
    <3>1. PICK t \in Caller : catalog'[i].maker = Call(t)
      BY <2>2, Added
    <3>2. thr[t].n \in Nat
      BY NumbersGrow
    <3> QED
      BY <3>1, <3>2 DEF Call
  <2> QED
    BY <2>1, <2>2
<1> QED
  BY <1>1, <1>2, <1>3

\* Every step keeps PairInv.
LEMMA PairInvStays == ASSUME TypeInv, DupInv, [Next]_vars PROVE PairInv'
<1> SUFFICES ASSUME NEW i \in DOMAIN catalog', NEW j \in DOMAIN catalog', i < j,
                    catalog'[i].ident = catalog'[j].ident, ~catalog'[j].late
             PROVE  catalog'[j].maker \in CallId /\ Unseen(catalog[j].maker, i)'
  BY DEF PairInv
<1>1. /\ Grown /\ DOMAIN catalog = 1 .. Len(catalog) /\ Len(catalog) \in Nat
      /\ DOMAIN catalog' = 1 .. Len(catalog')
  <2>1. TypeInv'
    BY NextTypes
  <2> QED
    BY <2>1, CatalogGrows, CatalogTypes DEF TypeInv, ServerInv
<1>2. i \in DOMAIN catalog
  <2>1. j \in DOMAIN catalog \/ j = Len(catalog) + 1
    BY Added
  <2> QED
    BY <1>1, <2>1
<1>3. CASE j \in DOMAIN catalog
  <2>1. catalog'[i] = catalog[i] /\ catalog'[j] = catalog[j]
    BY <1>1, <1>2, <1>3 DEF Grown
  <2>2. catalog[j].maker \in CallId /\ Unseen(catalog[j].maker, i)
    BY <1>2, <1>3, <2>1 DEF DupInv, PairInv
  <2>3. catalog[j].maker[2] <= thr[catalog[j].maker[1]].n
    BY <1>3, <2>1, <2>2 DEF DupInv, MakerInv
  <2>4. Unseen(catalog[j].maker, i)'
    BY <1>1, <1>2, <2>1, <2>2, <2>3, BlindGrows, PastBaseStays DEF Unseen
  <2> QED
    BY <2>1, <2>2, <2>4
<1>4. CASE j \notin DOMAIN catalog
  <2>1. PICK t \in Caller : /\ thr[t].pc = "wait" /\ catalog'[j].ident = thr[t].ident
                            /\ catalog'[j].maker = Call(t)
    BY <1>4, Added
  <2>2. catalog'[i] = catalog[i] /\ catalog[i].ident = thr[t].ident
    BY <1>1, <1>2, <2>1 DEF Grown
  <2>3. Unseen(Call(t), i)
    BY <1>2, <2>1, <2>2 DEF DupInv, CreatorInv
  <2>4. Call(t) \in CallId
    BY <2>1, CallIsCall
  <2>5. base'[Call(t)] = base[Call(t)]
    <3>1. Call(t)[1] = t /\ Call(t)[2] = thr[t].n /\ thr[t].n \in Nat
      BY NumbersGrow DEF Call
    <3> QED
      BY <2>4, <3>1, PastBaseStays
  <2>6. Unseen(catalog[j].maker, i)'
    BY <2>1, <2>2, <2>3, <2>5, BlindGrows DEF Unseen
  <2> QED
    BY <2>1, <2>4, <2>6
<1> QED
  BY <1>3, <1>4

\* Any step: the calls that are about to create have still not seen what is new.
LEMMA NotSeen ==
  ASSUME TypeInv, DupInv, [Next]_vars, NEW t \in Caller, thr'[t].pc \in {"list", "create", "wait"},
         NEW i \in DOMAIN catalog', i \notin DOMAIN catalog, thr'[t].n = thr[t].n, ~Carried(t),
         Call(t) \in CallId
  PROVE  Unseen(Call(t), i)'
<1>1. thr[t].n \in Nat /\ Call(t)[1] = t /\ Call(t)[2] = thr[t].n /\ Call(t)' = Call(t)
  BY NumbersGrow DEF Call
<1>2. base'[Call(t)] = base[Call(t)]
  BY <1>1, PastBaseStays
<1>3. i = Len(catalog) + 1 /\ i > base[Call(t)]
  <2>1. i = Len(catalog) + 1
    BY Added
  <2>2. base[Call(t)] \in Nat /\ base[Call(t)] <= Len(catalog) /\ Len(catalog) \in Nat
    BY CatalogTypes DEF DupInv, BaseInv
  <2> QED
    BY <2>1, <2>2
<1>4. CASE catalog'[i].late
  BY <1>4 DEF Unseen
<1>5. ASSUME NEW u \in Caller, Carried(u), catalog'[i].maker = Call(u)
      PROVE  Unseen(Call(t), i)'
  <2>1. u # t
    BY <1>5
  <2>2. Call(u) # Call(t)
    BY <2>1 DEF Call
  <2> QED
    BY <1>1, <1>2, <1>3, <1>5, <2>2 DEF Unseen
<1> QED
  BY <1>4, <1>5, Added

\* A step that takes a thread to "list", "create" or "wait" made nothing, and it
\* was there already, found no product, or could not look.
LEMMA Creators ==
  ASSUME TypeInv, [Next]_vars, NEW t \in Caller, thr'[t].pc \in {"list", "create", "wait"}
  PROVE  /\ thr'[t].n = thr[t].n /\ thr'[t].ident = thr[t].ident /\ thr[t].pc # "idle" /\ ~Carried(t)
         /\ \/ thr[t].pc \in {"list", "create", "wait"}
            \/ Identified(thr[t].ident) = {} /\ UNCHANGED catalog
            \/ Call(t) \in blind'
<1>1. CASE Query(t)
  <2>1. ASSUME NEW i, Found(t, i) PROVE thr'[t].pc = "send"
    BY <2>1 DEF Found, TypeInv, ThreadsInv, ThreadState
  <2>2. Identified(thr[t].ident) = {} /\ Goto(t, "list")
    BY <1>1, <2>1 DEF Query
  <2> QED
    BY <1>1, <2>2, GotoStays DEF Query, Pcs, At, Carried, Created, CreatedUnnoticed, server
<1>2. CASE QueryIs404(t)
  BY <1>2, NotFoundStays DEF QueryIs404, At, Carried, Created, CreatedUnnoticed, server
<1>3. CASE QueryFails(t)
  <2>1. ~Raise(t)
    BY FinishIsIdle DEF Raise
  <2> QED
    BY <1>3, <2>1, NotFoundStays DEF QueryFails, At, Carried, Created, CreatedUnnoticed
<1>4. CASE List(t)
  <2>1. ASSUME NEW i, Found(t, i) PROVE thr'[t].pc = "send"
    BY <2>1 DEF Found, TypeInv, ThreadsInv, ThreadState
  <2>2. NotFound(t)
    BY <1>4, <2>1 DEF List
  <2> QED
    BY <1>4, <2>2, NotFoundStays DEF List, At, Carried, Created, CreatedUnnoticed
<1>5. CASE ListFails(t)
  BY <1>5, NotFoundStays DEF ListFails, At, Carried, Created, CreatedUnnoticed
<1>6. CASE Create(t)
  BY <1>6, CreateTypes DEF Create, At, Carried, Created, CreatedUnnoticed
<1>7. ~Created(t)
  BY CreatedIsSend
<1>8. ~(CreatedUnnoticed(t) \/ CreateRefused(t) \/ CreateTimesOut(t) \/ LookAgain(t))
  BY GotoStays DEF CreatedUnnoticed, CreateRefused, CreateTimesOut, LookAgain, Pcs
<1>9. ~(Send(t) \/ SendFails(t))
  BY FinishIsIdle DEF Send, SendFails, Raise
<1>10. ~Begin(t)
  BY DEF Begin, TypeInv, ThreadsInv
<1>11. ASSUME thr'[t] = thr[t]
       PROVE  /\ thr'[t].n = thr[t].n /\ thr'[t].ident = thr[t].ident /\ thr[t].pc # "idle" /\ ~Carried(t)
              /\ thr[t].pc \in {"list", "create", "wait"}
  BY <1>7, <1>8, <1>11 DEF Carried
<1>12. ASSUME NEW u \in Caller \ {t}, Begin(u) \/ Step(u) PROVE thr'[t] = thr[t]
  BY <1>12, OthersStay
<1>13. ASSUME CreatedLate \/ UNCHANGED vars PROVE thr' = thr
  BY <1>13 DEF CreatedLate, vars
<1>14. CASE Step(t)
  BY <1>1, <1>2, <1>3, <1>4, <1>5, <1>6, <1>7, <1>8, <1>9, <1>14 DEF Step
<1>15. Step(t) \/ thr'[t] = thr[t]
  BY <1>10, <1>12, <1>13 DEF Next
<1> QED
  BY <1>11, <1>14, <1>15

\* Every step keeps CreatorInv.
LEMMA CreatorInvStays == ASSUME TypeInv, DupInv, [Next]_vars PROVE CreatorInv'
<1> SUFFICES ASSUME NEW t \in Caller, thr'[t].pc \in {"list", "create", "wait"},
                    NEW i \in DOMAIN catalog', catalog'[i].ident = thr'[t].ident
             PROVE  Unseen(Call(t), i)'
  BY DEF CreatorInv
<1>1. /\ thr'[t].n = thr[t].n /\ thr'[t].ident = thr[t].ident /\ thr[t].pc # "idle" /\ ~Carried(t)
      /\ \/ thr[t].pc \in {"list", "create", "wait"}
         \/ Identified(thr[t].ident) = {} /\ UNCHANGED catalog
         \/ Call(t) \in blind'
  BY Creators
<1>2. /\ Call(t) \in CallId /\ Call(t)' = Call(t)
      /\ Call(t)[1] = t /\ Call(t)[2] = thr[t].n /\ thr[t].n \in Nat
  BY <1>1, CallIsCall, NumbersGrow DEF Call
<1>3. CASE i \notin DOMAIN catalog
  BY <1>1, <1>2, <1>3, NotSeen
<1>4. CASE i \in DOMAIN catalog /\ thr[t].pc \in {"list", "create", "wait"}
  <2>1. catalog'[i] = catalog[i]
    BY <1>4, CatalogGrows DEF Grown
  <2>2. Unseen(Call(t), i)
    BY <1>1, <1>4, <2>1 DEF DupInv, CreatorInv
  <2>3. base'[Call(t)] = base[Call(t)]
    BY <1>2, PastBaseStays
  <2> QED
    BY <1>2, <2>1, <2>2, <2>3, BlindGrows DEF Unseen
<1>5. CASE i \in DOMAIN catalog /\ Identified(thr[t].ident) = {} /\ UNCHANGED catalog
  BY <1>1, <1>5 DEF Identified
<1>6. CASE Call(t) \in blind'
  BY <1>2, <1>6 DEF Unseen
<1> QED
  BY <1>1, <1>3, <1>4, <1>5, <1>6

\* DupInv holds at first.
LEMMA DupInvStarts == Init => DupInv
<1> SUFFICES ASSUME Init PROVE DupInv
  OBVIOUS
<1>1. CreatorInv
  BY DEF Init, CreatorInv, Idle
<1>2. PairInv
  <2>1. \A i, j \in DOMAIN catalog : catalog[i].ident = catalog[j].ident => i = j
    BY InitialAssumption DEF Init
  <2>2. ASSUME NEW i \in DOMAIN catalog, NEW j \in DOMAIN catalog, i < j PROVE i # j
    <3>1. i \in Int
      BY InitialAssumption DEF Init
    <3> QED
      BY <2>2, <3>1
  <2> QED
    BY <2>1, <2>2 DEF PairInv
<1>3. MakerInv
  BY InitialAssumption DEF Init, MakerInv
<1>4. BaseInv
  BY InitialAssumption DEF Init, BaseInv
<1> QED
  BY <1>1, <1>2, <1>3, <1>4 DEF DupInv

\* Every step keeps DupInv.
LEMMA DupInvStays == TypeInv /\ DupInv /\ [Next]_vars => DupInv'
<1> SUFFICES ASSUME TypeInv, DupInv, [Next]_vars PROVE DupInv'
  OBVIOUS
<1>1. CreatorInv' /\ PairInv'
  BY CreatorInvStays, PairInvStays
<1>2. MakerInv' /\ BaseInv'
  BY MakerInvStays, BaseInvStays DEF DupInv
<1> QED
  BY <1>1, <1>2 DEF DupInv

\* Two products with one identifier are excused by a late create, a failed
\* lookup, or calls that ran beside each other.
THEOREM DuplicatesAreExcused == Spec => []DuplicatesHaveAReason
<1>1. Spec => [](TypeInv /\ DupInv)
  BY InitTypes, NextTypes, DupInvStarts, DupInvStays, PTL DEF Spec
<1> QED
  BY <1>1, DupInvIsEnough, PTL

=============================================================================
