------------------------- MODULE FactoryStoreProofs -------------------------
(***************************************************************************)
(* What holds of FactoryStore for every set of instances, threads, rows    *)
(* and payloads, every document the bucket may hold at first, and every    *)
(* number of faults; and what holds of the shares and lines IdleShares     *)
(* makes of its documents, for every finite set of work orders.            *)
(***************************************************************************)
EXTENDS IdleShares, SumTheorems, TLAPS

Doc == UNION {[rows -> Node] : rows \in SUBSET Row}

Ops == {"merge", "delete", "read"}

ThreadState == [pc : Pcs, op : Ops, id : Id \cup {None}, building : Text \cup {None},
                data : Doc, mixed : BOOLEAN]

\* A merge has a payload, a delete a building; only they save.
Fits(x) == /\ x.op = "merge" <=> x.id \in Id
           /\ x.pc \in {"saveopen", "savewrite", "s3put"} => x.op # "read"

ThreadsInv == thr \in [Client -> ThreadState] /\ \A c \in Client : Fits(thr[c])

DiskInv == file \in [Host -> Doc \cup {None, Torn}] /\ s3 \in Doc \cup {None}

NotesInv ==
  /\ used \subseteq Id /\ others \in 0 .. MaxOthers /\ faults \in 0 .. MaxFaults
  /\ truth \in [Host -> Doc]
  /\ sound \subseteq Host /\ savers \subseteq Host /\ behind \in BOOLEAN

TypeInv == ThreadsInv /\ DiskInv /\ NotesInv

\* IsDoc in terms of the set of documents.
LEMMA DocIsDoc == \A d : IsDoc(d) <=> d \in Doc
  BY DEF IsDoc, Doc

\* The document at first is a document or none.
LEMMA DocAssumption == InitialDocs \subseteq Doc \cup {None} /\ None \notin Doc /\ Torn \notin Doc
  BY DocIsDoc, FactoryAssumption

\* The type invariant gives TypeOK.
LEMMA TypeInvImpliesTypeOK == TypeInv => TypeOK
  BY DocIsDoc DEF TypeInv, ThreadsInv, DiskInv, NotesInv, ThreadState, Fits, Ops, TypeOK

-----------------------------------------------------------------------------
(* Documents *)

\* A document maps some rows to nodes,
LEMMA DocIsFunction ==
  ASSUME NEW d \in Doc
  PROVE  DOMAIN d \subseteq Row /\ d \in [DOMAIN d -> Node] /\ \A r \in DOMAIN d : d[r] \in Node
  BY DEF Doc

\* and whatever does is a document.
LEMMA FunctionIsDoc ==
  ASSUME NEW R \in SUBSET Row, NEW d \in [R -> Node]
  PROVE  d \in Doc
  BY DEF Doc

\* The empty document is one.
LEMMA EmptyIsDoc == Empty \in Doc
<1>1. {} \in SUBSET Row /\ Empty \in [{} -> Node]
  BY DEF Empty
<1> QED
  BY <1>1, FunctionIsDoc

\* A trimmed text is a text.
LEMMA TrimIsText == \A x \in Text : Trim[x] \in Text
  BY FactoryAssumption

\* A payload added to a node gives a node,
LEMMA AddedIsNode ==
  ASSUME NEW i \in Id, NEW n \in Node
  PROVE  Added(n, Payload[i]) \in Node
<1> DEFINE p == Payload[i]
<1>1. p \in [building : Text, machine : Text, name : Text, energy : Text, idle : Nat, time : Nat,
             idleTime : Nat, minutes : [WorkOrder -> Nat], published : Nat]
  BY FactoryAssumption
<1> HIDE DEF p
<1>2. Label(p) \in Text
  BY <1>1, TrimIsText DEF Label, Or
<1>3. Later(p.published, n.published) \in Nat
  BY <1>1 DEF Later, Node
<1>4. [w \in WorkOrder |-> n.minutes[w] + p.minutes[w]] \in [WorkOrder -> Nat]
  BY <1>1 DEF Node
<1>5. /\ n.idle + p.idle \in Nat /\ n.time + p.time \in Nat /\ n.idleTime + p.idleTime \in Nat
      /\ n.count + 1 \in Nat
  BY <1>1 DEF Node
<1>6. Added(n, p) \in Node
  BY <1>2, <1>3, <1>4, <1>5 DEF Added, Node
<1> QED
  BY <1>6 DEF p

\* and so does a payload alone,
LEMMA NewNodeIsNode ==
  ASSUME NEW i \in Id
  PROVE  NewNode(Payload[i]) \in Node
<1>1. Payload[i].name \in Text /\ Payload[i].machine \in Text /\ Payload[i].building \in Text
  BY FactoryAssumption
<1>2. Label(Payload[i]) \in Text
  BY <1>1, TrimIsText DEF Label, Or
<1> QED
  BY <1>2 DEF NewNode, Node

\* so a merge gives a document,
LEMMA MergedIsDoc ==
  ASSUME NEW i \in Id, NEW d \in Doc
  PROVE  Merged(d, Payload[i]) \in Doc
<1> DEFINE r == RowOf(Payload[i])
<1>1. r \in Row
  BY RowsAssumption
<1>2. Added(IF r \in DOMAIN d THEN d[r] ELSE NewNode(Payload[i]), Payload[i]) \in Node
  BY DocIsFunction, NewNodeIsNode, AddedIsNode
<1>3. DOMAIN d \cup {r} \in SUBSET Row
  BY <1>1, DocIsFunction
<1>4. Merged(d, Payload[i]) \in [DOMAIN d \cup {r} -> Node]
  BY <1>2, DocIsFunction DEF Merged
<1> QED
  BY <1>3, <1>4, FunctionIsDoc

\* a deletion does,
LEMMA WithoutIsDoc ==
  ASSUME NEW d \in Doc, NEW k
  PROVE  Without(d, k) \in Doc
<1>1. {q \in DOMAIN d : q[1] # k} \in SUBSET Row
  BY DocIsFunction
<1>2. Without(d, k) \in [{q \in DOMAIN d : q[1] # k} -> Node]
  BY DocIsFunction DEF Without
<1> QED
  BY <1>1, <1>2, FunctionIsDoc

\* and whatever is applied does.
LEMMA AppliedIsDoc ==
  ASSUME NEW d \in Doc, NEW x, x.op = "merge" => x.id \in Id
  PROVE  Applied(d, x) \in Doc
  BY MergedIsDoc, WithoutIsDoc DEF Applied

\* What a load makes of a file is a document.
LEMMA ReadableIsDoc ==
  ASSUME NEW x \in Doc \cup {None, Torn}
  PROVE  Readable(x) \in Doc /\ (x \in Doc => Readable(x) = x)
  BY EmptyIsDoc, DocAssumption DEF Readable

-----------------------------------------------------------------------------
(* Threads *)

\* A thread without a request is well typed.
LEMMA IdleIsThread == Idle \in ThreadState /\ Fits(Idle) /\ Idle.pc = "idle"
  BY EmptyIsDoc, FactoryAssumption DEF Idle, ThreadState, Pcs, Ops, Fits

\* A place and what a thread holds there.
LEMMA FieldTypes ==
  ASSUME NEW s \in ThreadState, NEW l \in Pcs
  PROVE  /\ [s EXCEPT !.pc = l] \in ThreadState
         /\ \A d \in Doc : [s EXCEPT !.data = d] \in ThreadState
         /\ \A b \in BOOLEAN : [s EXCEPT !.mixed = b] \in ThreadState
         /\ \A k \in Text \cup {None} : [s EXCEPT !.building = k] \in ThreadState
  BY DEF ThreadState

\* A thread at another place is the same otherwise.
LEMMA PcTypes ==
  ASSUME NEW s \in ThreadState, NEW l \in Pcs
  PROVE  /\ [s EXCEPT !.pc = l] \in ThreadState
         /\ [s EXCEPT !.pc = l].pc = l /\ [s EXCEPT !.pc = l].op = s.op
         /\ [s EXCEPT !.pc = l].id = s.id /\ [s EXCEPT !.pc = l].building = s.building
         /\ [s EXCEPT !.pc = l].data = s.data /\ [s EXCEPT !.pc = l].mixed = s.mixed
  BY DEF ThreadState

\* Thread c goes on to x, at place l with document d.
Becomes(c, x, l, d) == /\ x \in ThreadState /\ x.pc = l /\ x.data = d
                       /\ x.op = thr[c].op /\ x.id = thr[c].id

\* A thread that moves on with another document moves alone and is well typed,
LEMMA DataTypes ==
  ASSUME TypeInv, NEW c \in Client, NEW l \in Pcs, NEW d \in Doc,
         thr' = [thr EXCEPT ![c].pc = l, ![c].data = d]
  PROVE  /\ Becomes(c, thr'[c], l, d) /\ thr'[c].mixed = thr[c].mixed
         /\ \A e \in Client \ {c} : thr'[e] = thr[e]
         /\ thr' \in [Client -> ThreadState]
<1>1. thr \in [Client -> ThreadState] /\ thr[c] \in ThreadState
  BY DEF TypeInv, ThreadsInv
<1>2. [[thr[c] EXCEPT !.pc = l] EXCEPT !.data = d] \in ThreadState
  <2>1. [thr[c] EXCEPT !.pc = l] \in ThreadState
    BY <1>1, FieldTypes
  <2> QED
    BY <2>1, FieldTypes
<1>3. thr' \in [Client -> ThreadState]
  BY <1>1, <1>2
<1>4. thr'[c].pc = l /\ thr'[c].data = d /\ thr'[c].op = thr[c].op /\ thr'[c].id = thr[c].id
      /\ thr'[c].mixed = thr[c].mixed
  BY <1>1 DEF ThreadState
<1> QED
  BY <1>1, <1>3, <1>4 DEF Becomes

\* so is one that moves on with its mark of mixed writes,
LEMMA MixedTypes ==
  ASSUME TypeInv, NEW c \in Client, NEW l \in Pcs, NEW b \in BOOLEAN,
         thr' = [thr EXCEPT ![c].pc = l, ![c].mixed = b]
  PROVE  /\ Becomes(c, thr'[c], l, thr[c].data) /\ thr'[c].mixed = b
         /\ \A e \in Client \ {c} : thr'[e] = thr[e]
         /\ thr' \in [Client -> ThreadState]
<1>1. thr \in [Client -> ThreadState] /\ thr[c] \in ThreadState
  BY DEF TypeInv, ThreadsInv
<1>2. [[thr[c] EXCEPT !.pc = l] EXCEPT !.mixed = b] \in ThreadState
  <2>1. [thr[c] EXCEPT !.pc = l] \in ThreadState
    BY <1>1, FieldTypes
  <2> QED
    BY <2>1, FieldTypes
<1>3. thr' \in [Client -> ThreadState]
  BY <1>1, <1>2
<1>4. thr'[c].pc = l /\ thr'[c].data = thr[c].data /\ thr'[c].op = thr[c].op /\ thr'[c].id = thr[c].id
      /\ thr'[c].mixed = b
  BY <1>1 DEF ThreadState
<1> QED
  BY <1>1, <1>3, <1>4 DEF Becomes

\* one that only moves on,
LEMMA GotoTypes ==
  ASSUME TypeInv, NEW c \in Client, NEW l \in Pcs, Goto(c, l)
  PROVE  /\ Becomes(c, thr'[c], l, thr[c].data) /\ thr'[c].mixed = thr[c].mixed
         /\ \A e \in Client \ {c} : thr'[e] = thr[e]
         /\ thr' \in [Client -> ThreadState]
<1>1. thr \in [Client -> ThreadState] /\ thr[c] \in ThreadState
  BY DEF TypeInv, ThreadsInv
<1> QED
  BY <1>1, PcTypes DEF Goto, Becomes

\* and one that ends.
LEMMA EndTypes ==
  ASSUME TypeInv, NEW c \in Client, End(c)
  PROVE  /\ thr'[c] = Idle
         /\ \A e \in Client \ {c} : thr'[e] = thr[e]
         /\ ThreadsInv'
  BY IdleIsThread DEF TypeInv, ThreadsInv, End, Fits

\* Thread c went on, the others did not.
LEMMA ThreadsFit ==
  ASSUME TypeInv, NEW c \in Client, NEW l \in Pcs, NEW d \in Doc, Becomes(c, thr'[c], l, d),
         \A e \in Client \ {c} : thr'[e] = thr[e], thr' \in [Client -> ThreadState],
         l \in {"saveopen", "savewrite", "s3put"} => thr[c].op # "read"
  PROVE  ThreadsInv'
  BY DEF TypeInv, ThreadsInv, Becomes, Fits

-----------------------------------------------------------------------------
(* Type correctness *)

\* The initial states satisfy TypeInv.
LEMMA InitTypes == Init => TypeInv
<1> SUFFICES ASSUME Init PROVE TypeInv
  OBVIOUS
<1>1. DiskInv
  <2>1. PICK d \in InitialDocs, fresh \in SUBSET Host :
          /\ s3 = IF Bucket THEN d ELSE None
          /\ file = [h \in Host |-> IF h \in fresh THEN None ELSE d]
    BY DEF Init
  <2>2. d \in Doc \cup {None}
    BY DocAssumption
  <2> QED
    BY <2>1, <2>2 DEF DiskInv
<1>2. ThreadsInv
  BY IdleIsThread DEF Init, ThreadsInv
<1>3. truth \in [Host -> Doc]
  BY <1>1, ReadableIsDoc DEF Init, DiskInv
<1>4. NotesInv
  <2>1. others \in 0 .. MaxOthers /\ faults \in 0 .. MaxFaults
    BY FactoryAssumption DEF Init
  <2>2. used \subseteq Id /\ sound \subseteq Host /\ savers \subseteq Host /\ behind \in BOOLEAN
    BY DEF Init
  <2> QED
    BY <1>3, <2>1, <2>2 DEF NotesInv
<1> QED
  BY <1>1, <1>2, <1>4 DEF TypeInv

\* A client is on an instance.
LEMMA HereIsHost == \A c \in Client : Here(c) \in Host
  BY FactoryAssumption DEF Here

\* Faults are counted up to their bound.
LEMMA FaultTypes == ASSUME TypeInv, Fault PROVE faults' \in 0 .. MaxFaults
  BY FactoryAssumption DEF TypeInv, NotesInv, Fault

\* An instance never becomes sound again.
LEMMA UnsoundTypes ==
  ASSUME TypeInv, NEW h, Unsound(h) \/ UNCHANGED sound
  PROVE  sound' \subseteq Host /\ sound' \subseteq sound
  BY DEF TypeInv, NotesInv, Unsound

\* A thread holds a document.
LEMMA HeldIsDoc == ASSUME TypeInv, NEW c \in Client PROVE thr[c].data \in Doc
  BY DEF TypeInv, ThreadsInv, ThreadState

\* A request that starts is well typed.
LEMMA StartedTypes ==
  ASSUME TypeInv, NEW c \in Client, NEW op \in Ops, NEW i \in Id \cup {None}, NEW b \in Text \cup {None},
         op = "merge" <=> i \in Id, Started(c, op, i, b)
  PROVE  /\ thr'[c].pc = "load" /\ thr'[c].op = op
         /\ \A e \in Client \ {c} : thr'[e] = thr[e]
         /\ ThreadsInv'
<1> DEFINE x == [pc |-> "load", op |-> op, id |-> i, building |-> b, data |-> Empty, mixed |-> FALSE]
<1>1. x \in ThreadState /\ Fits(x) /\ x.pc = "load" /\ x.op = op
  BY EmptyIsDoc DEF ThreadState, Pcs, Fits
<1>2. thr' = [thr EXCEPT ![c] = x]
  BY DEF Started
<1> HIDE DEF x
<1> QED
  BY <1>1, <1>2 DEF TypeInv, ThreadsInv

\* Post keeps the types.
LEMMA PostTypes ==
  ASSUME TypeInv, NEW c \in Client, Post(c)
  PROVE  /\ TypeInv' /\ thr'[c].pc = "load"
         /\ \A e \in Client \ {c} : thr'[e] = thr[e]
<1>1. PICK i \in Id \ used : Started(c, "merge", i, None) /\ used' = used \cup {i}
  BY DEF Post
<1>2. /\ thr'[c].pc = "load" /\ ThreadsInv'
      /\ \A e \in Client \ {c} : thr'[e] = thr[e]
  BY <1>1, StartedTypes DEF Ops
<1> QED
  BY <1>1, <1>2, UnsoundTypes DEF Post, TypeInv, DiskInv, NotesInv, disk

\* Other records of the bucket are counted up to their bound.
LEMMA OtherTypes == ASSUME TypeInv, Other PROVE others' \in 0 .. MaxOthers
  BY FactoryAssumption DEF TypeInv, NotesInv, Other

\* Delete keeps the types.
LEMMA DeleteTypes ==
  ASSUME TypeInv, NEW c \in Client, Delete(c)
  PROVE  /\ TypeInv' /\ thr'[c].pc = "load"
         /\ \A e \in Client \ {c} : thr'[e] = thr[e]
<1>1. PICK b \in Text : Started(c, "delete", None, b)
  BY DEF Delete
<1>2. /\ thr'[c].pc = "load" /\ ThreadsInv'
      /\ \A e \in Client \ {c} : thr'[e] = thr[e]
  BY <1>1, StartedTypes, FactoryAssumption DEF Ops
<1> QED
  BY <1>1, <1>2, UnsoundTypes, OtherTypes DEF Delete, TypeInv, DiskInv, NotesInv, disk

\* Read keeps the types.
LEMMA ReadTypes ==
  ASSUME TypeInv, NEW c \in Client, Read(c)
  PROVE  /\ TypeInv' /\ thr'[c].pc = "load" /\ thr'[c].op = "read"
         /\ \A e \in Client \ {c} : thr'[e] = thr[e]
<1>1. /\ thr'[c].pc = "load" /\ thr'[c].op = "read" /\ ThreadsInv'
      /\ \A e \in Client \ {c} : thr'[e] = thr[e]
  BY StartedTypes, FactoryAssumption DEF Read, Ops
<1> QED
  BY <1>1, OtherTypes DEF Read, TypeInv, DiskInv, NotesInv, disk, history

\* LoadLocal keeps the types.
LEMMA LoadLocalTypes ==
  ASSUME TypeInv, NEW c \in Client, LoadLocal(c)
  PROVE  /\ TypeInv' /\ Becomes(c, thr'[c], "apply", Readable(file[Here(c)]))
         /\ \A e \in Client \ {c} : thr'[e] = thr[e]
<1>1. Readable(file[Here(c)]) \in Doc
  BY HereIsHost, ReadableIsDoc DEF TypeInv, DiskInv
<1>2. thr' = [thr EXCEPT ![c].pc = "apply", ![c].data = Readable(file[Here(c)])] /\ "apply" \in Pcs
  BY DEF LoadLocal, Pcs
<1>3. /\ Becomes(c, thr'[c], "apply", Readable(file[Here(c)]))
      /\ \A e \in Client \ {c} : thr'[e] = thr[e]
      /\ thr' \in [Client -> ThreadState]
  BY <1>1, <1>2, DataTypes
<1>4. ThreadsInv'
  BY <1>1, <1>2, <1>3, ThreadsFit
<1> QED
  BY <1>3, <1>4 DEF LoadLocal, TypeInv, DiskInv, NotesInv, disk, history

\* LoadMisses keeps the types.
LEMMA LoadMissesTypes ==
  ASSUME TypeInv, NEW c \in Client, LoadMisses(c)
  PROVE  /\ TypeInv' /\ Becomes(c, thr'[c], "s3get", thr[c].data)
         /\ \A e \in Client \ {c} : thr'[e] = thr[e]
<1>1. /\ Becomes(c, thr'[c], "s3get", thr[c].data) /\ "s3get" \in Pcs /\ thr[c].data \in Doc
      /\ \A e \in Client \ {c} : thr'[e] = thr[e]
      /\ thr' \in [Client -> ThreadState]
  BY GotoTypes, HeldIsDoc DEF LoadMisses, Pcs
<1>2. ThreadsInv'
  BY <1>1, ThreadsFit
<1> QED
  BY <1>1, <1>2, UnsoundTypes DEF LoadMisses, TypeInv, DiskInv, NotesInv, disk

\* S3Get keeps the types.
LEMMA S3GetTypes ==
  ASSUME TypeInv, NEW c \in Client, S3Get(c)
  PROVE  /\ TypeInv' /\ Becomes(c, thr'[c], "pullopen", s3)
         /\ \A e \in Client \ {c} : thr'[e] = thr[e]
<1>1. s3 \in Doc /\ "pullopen" \in Pcs
  BY DEF S3Get, TypeInv, DiskInv, Pcs
<1>2. /\ Becomes(c, thr'[c], "pullopen", s3)
      /\ \A e \in Client \ {c} : thr'[e] = thr[e]
      /\ thr' \in [Client -> ThreadState]
  BY <1>1, DataTypes DEF S3Get
<1>3. ThreadsInv'
  BY <1>1, <1>2, ThreadsFit
<1> QED
  BY <1>2, <1>3 DEF S3Get, TypeInv, DiskInv, NotesInv, disk, history

\* A request without the object goes on with its file.
LEMMA S3MissesTypes ==
  ASSUME TypeInv, NEW c \in Client, S3Misses(c)
  PROVE  /\ ThreadsInv'
         /\ \E l \in {"apply", "push"} : Becomes(c, thr'[c], l, Readable(file[Here(c)]))
         /\ \A e \in Client \ {c} : thr'[e] = thr[e]
<1>1. Readable(file[Here(c)]) \in Doc
  BY HereIsHost, ReadableIsDoc DEF TypeInv, DiskInv
<1> DEFINE l == IF Readable(file[Here(c)]) = Empty \/ ~Bucket THEN "apply" ELSE "push"
<1>2. l \in {"apply", "push"} /\ l \in Pcs
  BY DEF Pcs
<1>3. thr' = [thr EXCEPT ![c].pc = l, ![c].data = Readable(file[Here(c)])]
  BY DEF S3Misses
<1> HIDE DEF l
<1>4. /\ Becomes(c, thr'[c], l, Readable(file[Here(c)]))
      /\ \A e \in Client \ {c} : thr'[e] = thr[e]
      /\ thr' \in [Client -> ThreadState]
  BY <1>1, <1>2, <1>3, DataTypes
<1>5. ThreadsInv'
  BY <1>1, <1>2, <1>4, ThreadsFit
<1> QED
  BY <1>2, <1>4, <1>5

\* S3Miss keeps the types.
LEMMA S3MissTypes ==
  ASSUME TypeInv, NEW c \in Client, S3Miss(c) \/ S3GetFails(c)
  PROVE  TypeInv'
<1>1. ThreadsInv'
  BY S3MissesTypes DEF S3Miss, S3GetFails
<1>2. CASE S3Miss(c)
  BY <1>1, <1>2 DEF S3Miss, TypeInv, DiskInv, NotesInv, disk, history
<1>3. CASE S3GetFails(c)
  BY <1>1, <1>3, FaultTypes DEF S3GetFails, TypeInv, DiskInv, NotesInv, disk
<1> QED
  BY <1>2, <1>3

\* Push keeps the types.
LEMMA PushTypes ==
  ASSUME TypeInv, NEW c \in Client, Push(c) \/ PushFails(c)
  PROVE  /\ TypeInv' /\ Becomes(c, thr'[c], "apply", thr[c].data)
         /\ \A e \in Client \ {c} : thr'[e] = thr[e]
<1>1. /\ Becomes(c, thr'[c], "apply", thr[c].data) /\ "apply" \in Pcs /\ thr[c].data \in Doc
      /\ \A e \in Client \ {c} : thr'[e] = thr[e]
      /\ thr' \in [Client -> ThreadState]
  BY GotoTypes, HeldIsDoc DEF Push, PushFails, Pcs
<1>2. ThreadsInv'
  BY <1>1, ThreadsFit
<1>3. s3' \in Doc \cup {None}
  BY <1>1 DEF Push, PushFails, TypeInv, DiskInv
<1>4. CASE Push(c)
  BY <1>1, <1>2, <1>3, <1>4, HereIsHost DEF Push, TypeInv, DiskInv, NotesInv
<1>5. CASE PushFails(c)
  BY <1>1, <1>2, <1>3, <1>5, FaultTypes DEF PushFails, TypeInv, DiskInv, NotesInv
<1> QED
  BY <1>4, <1>5

\* The thread that opens writes next; others at it meet its blocks.
LEMMA OpenTypes ==
  ASSUME TypeInv, NEW c \in Client, Open(c)
  PROVE  /\ TypeInv'
         /\ Becomes(c, thr'[c], IF At(c, "pullopen") THEN "pullwrite" ELSE "savewrite", thr[c].data)
         /\ thr'[c].building = thr[c].building
         /\ thr'[c].mixed = (\E e \in Others(c) : Writing(e))
         /\ \A e \in Client \ {c} : thr'[e] = IF e \in Others(c) /\ Writing(e)
                                              THEN [thr[e] EXCEPT !.mixed = TRUE] ELSE thr[e]
<1>1. thr \in [Client -> ThreadState] /\ \A e \in Client : thr[e] \in ThreadState /\ Fits(thr[e])
  BY DEF TypeInv, ThreadsInv
<1> DEFINE l == IF At(c, "pullopen") THEN "pullwrite" ELSE "savewrite"
           b == \E e \in Others(c) : Writing(e)
           x == [thr[c] EXCEPT !.pc = l, !.mixed = b]
<1>2. l \in Pcs /\ b \in BOOLEAN /\ l # "saveopen" /\ l # "s3put" /\ (l = "savewrite" => thr[c].op # "read")
  BY <1>1 DEF Pcs, Open, At, Fits
<1>3. /\ thr'[c] = x
      /\ \A e \in Client \ {c} : thr'[e] = IF e \in Others(c) /\ Writing(e)
                                           THEN [thr[e] EXCEPT !.mixed = TRUE] ELSE thr[e]
      /\ DOMAIN thr' = Client /\ thr' = [e \in Client |-> thr'[e]]
  BY DEF Open, Opened
<1> HIDE DEF l, b
<1>4. /\ x \in ThreadState /\ x.pc = l /\ x.mixed = b /\ x.op = thr[c].op /\ x.id = thr[c].id
      /\ x.data = thr[c].data /\ x.building = thr[c].building
  <2>1. [thr[c] EXCEPT !.pc = l] \in ThreadState
    BY <1>1, <1>2, FieldTypes
  <2>2. [[thr[c] EXCEPT !.pc = l] EXCEPT !.mixed = b] \in ThreadState
    BY <1>2, <2>1, FieldTypes
  <2> QED
    BY <1>1, <1>2, <2>2 DEF ThreadState
<1> HIDE DEF x
<1>5. ASSUME NEW e \in Client \ {c} PROVE thr'[e] \in ThreadState /\ Fits(thr'[e])
  <2>1. [thr[e] EXCEPT !.mixed = TRUE] \in ThreadState
    BY <1>1, FieldTypes DEF Pcs
  <2>2. Fits([thr[e] EXCEPT !.mixed = TRUE])
    BY <1>1 DEF Fits, ThreadState
  <2> QED
    BY <1>1, <1>3, <2>1, <2>2
<1>6. Fits(x)
  BY <1>1, <1>2, <1>4 DEF Fits
<1>7. ThreadsInv'
  BY <1>3, <1>4, <1>5, <1>6 DEF ThreadsInv
<1>8. DiskInv'
  BY HereIsHost DEF Open, Opened, TypeInv, DiskInv
<1>9. NotesInv'
  BY DEF Open, TypeInv, NotesInv, history
<1> QED
  BY <1>3, <1>4, <1>7, <1>8, <1>9 DEF TypeInv, Becomes, l, b

\* A write leaves a document, or a torn file where two writes met.
LEMMA WrittenTypes ==
  ASSUME TypeInv, NEW c \in Client, Written(c)
  PROVE  /\ file' \in [Host -> Doc \cup {None, Torn}]
         /\ \A h \in Host \ {Here(c)} : file'[h] = file[h]
         /\ ~thr[c].mixed => file'[Here(c)] = thr[c].data
<1>1. thr[c].data \in Doc /\ file \in [Host -> Doc \cup {None, Torn}] /\ Here(c) \in Host
  BY HeldIsDoc, HereIsHost DEF TypeInv, DiskInv
<1>2. PICK x \in {thr[c].data} \cup (IF thr[c].mixed THEN {Torn} ELSE {}) :
        file' = [file EXCEPT ![Here(c)] = x]
  BY DEF Written
<1> QED
  BY <1>1, <1>2

\* PullWrite keeps the types.
LEMMA PullWriteTypes ==
  ASSUME TypeInv, NEW c \in Client, PullWrite(c)
  PROVE  /\ TypeInv' /\ Becomes(c, thr'[c], "apply", thr[c].data)
         /\ \A e \in Client \ {c} : thr'[e] = thr[e]
<1>1. /\ Becomes(c, thr'[c], "apply", thr[c].data) /\ "apply" \in Pcs /\ thr[c].data \in Doc
      /\ \A e \in Client \ {c} : thr'[e] = thr[e]
      /\ thr' \in [Client -> ThreadState]
  <2>1. thr' = [thr EXCEPT ![c].pc = "apply", ![c].mixed = FALSE] /\ "apply" \in Pcs /\ FALSE \in BOOLEAN
    BY DEF PullWrite, Pcs
  <2> QED
    BY <2>1, MixedTypes, HeldIsDoc
<1>2. ThreadsInv'
  BY <1>1, ThreadsFit
<1>3. DiskInv'
  BY WrittenTypes DEF PullWrite, TypeInv, DiskInv
<1>4. NotesInv'
  BY <1>1, HereIsHost DEF PullWrite, TypeInv, NotesInv
<1> QED
  BY <1>1, <1>2, <1>3, <1>4 DEF TypeInv

\* PullFails keeps the types.
LEMMA PullFailsTypes ==
  ASSUME TypeInv, NEW c \in Client, PullFails(c)
  PROVE  /\ TypeInv' /\ Becomes(c, thr'[c], "apply", thr[c].data)
         /\ \A e \in Client \ {c} : thr'[e] = thr[e]
<1>1. /\ Becomes(c, thr'[c], "apply", thr[c].data) /\ "apply" \in Pcs /\ thr[c].data \in Doc
      /\ \A e \in Client \ {c} : thr'[e] = thr[e]
      /\ thr' \in [Client -> ThreadState]
  <2>1. thr' = [thr EXCEPT ![c].pc = "apply", ![c].mixed = FALSE] /\ "apply" \in Pcs /\ FALSE \in BOOLEAN
    BY DEF PullFails, Pcs
  <2> QED
    BY <2>1, MixedTypes, HeldIsDoc
<1>2. ThreadsInv'
  BY <1>1, ThreadsFit
<1> QED
  BY <1>1, <1>2, UnsoundTypes, FaultTypes DEF PullFails, TypeInv, DiskInv, NotesInv, disk

\* A request that ends keeps the types.
LEMMA EndedTypes ==
  ASSUME TypeInv, NEW c \in Client, Answer(c) \/ S3Put(c) \/ S3PutFails(c) \/ SaveFails(c)
  PROVE  /\ TypeInv' /\ thr'[c] = Idle
         /\ \A e \in Client \ {c} : thr'[e] = thr[e]
<1>1. /\ thr'[c] = Idle /\ ThreadsInv'
      /\ \A e \in Client \ {c} : thr'[e] = thr[e]
  BY EndTypes DEF Answer, S3Put, S3PutFails, SaveFails
<1>2. CASE Answer(c)
  BY <1>1, <1>2 DEF Answer, TypeInv, DiskInv, NotesInv, disk, history
<1>3. CASE S3Put(c)
  BY <1>1, <1>3, HeldIsDoc DEF S3Put, TypeInv, DiskInv, NotesInv, history
<1>4. CASE S3PutFails(c)
  BY <1>1, <1>4, HeldIsDoc, FaultTypes DEF S3PutFails, TypeInv, DiskInv, NotesInv
<1>5. CASE SaveFails(c)
  BY <1>1, <1>5, UnsoundTypes, FaultTypes DEF SaveFails, TypeInv, DiskInv, NotesInv, disk
<1> QED
  BY <1>2, <1>3, <1>4, <1>5

\* What was acknowledged is a document.
LEMMA BasedTypes == ASSUME TypeInv, NEW c \in Client, Based(c) PROVE truth' \in [Host -> Doc]
  BY HeldIsDoc, HereIsHost DEF Based, TypeInv, NotesInv

\* Merge keeps the types.
LEMMA MergeTypes ==
  ASSUME TypeInv, NEW c \in Client, Merge(c)
  PROVE  /\ TypeInv' /\ Becomes(c, thr'[c], "saveopen", Applied(thr[c].data, thr[c]))
         /\ \A e \in Client \ {c} : thr'[e] = thr[e]
<1>1. thr[c].op = "merge" => thr[c].id \in Id
  BY DEF TypeInv, ThreadsInv, Fits
<1>2. Applied(thr[c].data, thr[c]) \in Doc /\ "saveopen" \in Pcs /\ thr[c].op # "read"
  BY <1>1, AppliedIsDoc, HeldIsDoc DEF Merge, Pcs
<1>3. thr' = [thr EXCEPT ![c].pc = "saveopen", ![c].data = Applied(thr[c].data, thr[c])]
  BY DEF Merge, TypeInv, ThreadsInv, ThreadState
<1>4. /\ Becomes(c, thr'[c], "saveopen", Applied(thr[c].data, thr[c]))
      /\ \A e \in Client \ {c} : thr'[e] = thr[e]
      /\ thr' \in [Client -> ThreadState]
  BY <1>2, <1>3, DataTypes
<1>5. ThreadsInv'
  BY <1>2, <1>4, ThreadsFit
<1> QED
  BY <1>4, <1>5, BasedTypes DEF Merge, TypeInv, DiskInv, NotesInv, disk

\* Drop keeps the types.
LEMMA DropTypes ==
  ASSUME TypeInv, NEW c \in Client, Drop(c)
  PROVE  /\ TypeInv'
         /\ \E k : Becomes(c, thr'[c], "saveopen", Without(thr[c].data, k)) /\ thr'[c].building = k
         /\ \A e \in Client \ {c} : thr'[e] = thr[e]
<1>1. PICK k \in Keys(thr[c].data, thr[c].building) :
        thr' = [thr EXCEPT ![c].data = Without(thr[c].data, k), ![c].building = k, ![c].pc = "saveopen"]
  BY DEF Drop
<1>2. thr \in [Client -> ThreadState] /\ thr[c] \in ThreadState
  BY DEF TypeInv, ThreadsInv
<1>3. k \in Text
  <2>1. \A r \in Row : r[1] \in Text
    BY FactoryAssumption
  <2>2. DOMAIN thr[c].data \subseteq Row
    BY HeldIsDoc, DocIsFunction
  <2>3. thr[c].building \in Text \cup {None}
    BY <1>2 DEF ThreadState
  <2> QED
    BY <2>1, <2>2, <2>3 DEF Keys
<1>4. Without(thr[c].data, k) \in Doc /\ "saveopen" \in Pcs /\ thr[c].op = "delete"
  BY WithoutIsDoc, HeldIsDoc DEF Pcs, Drop
<1>5. thr' \in [Client -> ThreadState]
  <2>1. [thr[c] EXCEPT !.data = Without(thr[c].data, k)] \in ThreadState
    BY <1>2, <1>4, FieldTypes
  <2>2. [[thr[c] EXCEPT !.data = Without(thr[c].data, k)] EXCEPT !.building = k] \in ThreadState
    BY <1>3, <1>4, <2>1, FieldTypes
  <2>3. [[[thr[c] EXCEPT !.data = Without(thr[c].data, k)] EXCEPT !.building = k] EXCEPT !.pc = "saveopen"]
          \in ThreadState
    BY <1>4, <2>2, FieldTypes
  <2> QED
    BY <1>1, <1>2, <2>3
<1>6. /\ thr'[c].pc = "saveopen" /\ thr'[c].data = Without(thr[c].data, k) /\ thr'[c].building = k
      /\ thr'[c].op = thr[c].op /\ thr'[c].id = thr[c].id
      /\ \A e \in Client \ {c} : thr'[e] = thr[e]
  BY <1>1, <1>2 DEF ThreadState
<1>7. Becomes(c, thr'[c], "saveopen", Without(thr[c].data, k))
  BY <1>5, <1>6 DEF Becomes
<1>8. ThreadsInv'
  BY <1>4, <1>5, <1>6, <1>7, ThreadsFit
<1>9. TypeInv'
  BY <1>8, BasedTypes DEF Drop, TypeInv, DiskInv, NotesInv, disk
<1> QED
  BY <1>6, <1>7, <1>9

\* SaveWrite keeps the types.
LEMMA SaveWriteTypes ==
  ASSUME TypeInv, NEW c \in Client, SaveWrite(c)
  PROVE  /\ TypeInv' /\ thr'[c].pc = "s3put"
         /\ \A e \in Client \ {c} : thr'[e] = thr[e]
<1>1. thr \in [Client -> ThreadState] /\ thr[c] \in ThreadState /\ thr[c].op # "read"
      /\ (thr[c].op = "merge" => thr[c].id \in Id)
  BY DEF TypeInv, ThreadsInv, Fits, SaveWrite, At
<1>2. [[thr[c] EXCEPT !.pc = "s3put"] EXCEPT !.mixed = FALSE] \in ThreadState
  <2>1. [thr[c] EXCEPT !.pc = "s3put"] \in ThreadState /\ "s3put" \in Pcs
    BY <1>1, FieldTypes DEF Pcs
  <2> QED
    BY <2>1, FieldTypes
<1>3. AfterLocal(thr[c]) \in ThreadState /\ AfterLocal(thr[c]).pc = "s3put"
      /\ AfterLocal(thr[c]).op = thr[c].op /\ AfterLocal(thr[c]).id = thr[c].id
  BY <1>1, <1>2 DEF AfterLocal, ThreadState
<1>4. thr' = [thr EXCEPT ![c] = AfterLocal(thr[c])]
  BY DEF SaveWrite
<1> HIDE DEF AfterLocal
<1>5. thr' \in [Client -> ThreadState] /\ thr'[c] = AfterLocal(thr[c])
      /\ \A e \in Client \ {c} : thr'[e] = thr[e]
  BY <1>1, <1>3, <1>4
<1>6. ThreadsInv'
  BY <1>1, <1>3, <1>5 DEF TypeInv, ThreadsInv, Fits
<1>7. DiskInv'
  BY WrittenTypes DEF SaveWrite, TypeInv, DiskInv
<1>8. Applied(truth[Here(c)], thr[c]) \in Doc
  BY <1>1, AppliedIsDoc, HereIsHost DEF TypeInv, NotesInv
<1>9. NotesInv'
  BY <1>8, HereIsHost DEF SaveWrite, TypeInv, NotesInv
<1> QED
  BY <1>3, <1>5, <1>6, <1>7, <1>9 DEF TypeInv

\* Restart keeps the types.
LEMMA RestartTypes ==
  ASSUME TypeInv, NEW h \in Host, Restart(h)
  PROVE  /\ TypeInv'
         /\ \A c \in Client : thr'[c] = IF Here(c) = h THEN Idle ELSE thr[c]
<1>1. thr' = [c \in Client |-> IF Here(c) = h THEN Idle ELSE thr[c]]
  BY DEF Restart
<1>2. ThreadsInv'
  BY <1>1, IdleIsThread DEF TypeInv, ThreadsInv
<1>3. DiskInv'
  BY DEF Restart, TypeInv, DiskInv
<1>4. truth' \in [Host -> Doc]
  BY EmptyIsDoc DEF Restart, TypeInv, NotesInv
<1>5. sound' \subseteq Host
  BY UnsoundTypes DEF Restart
<1>6. behind' \in BOOLEAN
  BY DEF Restart, TypeInv, NotesInv
<1>7. NotesInv'
  BY <1>4, <1>5, <1>6, FaultTypes DEF Restart, TypeInv, NotesInv
<1> QED
  BY <1>1, <1>2, <1>3, <1>7 DEF TypeInv

\* Every step keeps TypeInv.
LEMMA NextTypes == TypeInv /\ [Next]_vars => TypeInv'
<1> SUFFICES ASSUME TypeInv, [Next]_vars PROVE TypeInv'
  OBVIOUS
<1>1. CASE UNCHANGED vars
  BY <1>1 DEF vars, TypeInv, ThreadsInv, DiskInv, NotesInv
<1>2. ASSUME NEW c \in Client, Post(c) \/ Delete(c) \/ Read(c) PROVE TypeInv'
  BY <1>2, PostTypes, DeleteTypes, ReadTypes
<1>3. ASSUME NEW c \in Client, Step(c) PROVE TypeInv'
  BY <1>3, LoadLocalTypes, LoadMissesTypes, S3GetTypes, S3MissTypes, PushTypes, OpenTypes,
     PullWriteTypes, PullFailsTypes, EndedTypes, MergeTypes, DropTypes, SaveWriteTypes DEF Step
<1>4. ASSUME NEW h \in Host, Restart(h) PROVE TypeInv'
  BY <1>4, RestartTypes
<1> QED
  BY <1>1, <1>2, <1>3, <1>4 DEF Next

\* The type invariant of the factory document, its threads and its files.
THEOREM TypeCorrect == Spec => []TypeOK
  BY InitTypes, NextTypes, TypeInvImpliesTypeOK, PTL DEF Spec

-----------------------------------------------------------------------------
(* A sound instance, on its own *)

Active(c) == Changing(c) \/ Pulling(c)

Alone(h) == \A c, d \in Client : c # d /\ Here(c) = h /\ Here(d) = h => ~(Active(c) /\ Active(d))

\* What an active thread holds, next to its instance's file.
Holds(c) ==
  /\ Writing(c) => ~thr[c].mixed
  /\ thr[c].pc \in {"s3get", "pullopen"} => file[Here(c)] = None
  /\ thr[c].pc \in {"push", "apply"} /\ thr[c].op # "read" =>
       file[Here(c)] = None \/ thr[c].data = truth[Here(c)]
  /\ thr[c].pc \in {"saveopen", "savewrite"} => thr[c].data = Applied(truth[Here(c)], thr[c])

Kept(h) == file[h] # None /\ ~BeingWritten(h) => Readable(file[h]) = truth[h]

Good(h) == Alone(h) /\ Kept(h) /\ \A c \in Client : Here(c) = h => Holds(c)

LocalInv == \A h \in sound : Good(h)

\* Only active threads write.
LEMMA WritersAreActive ==
  ASSUME TypeInv, NEW c \in Client
  PROVE  /\ Writing(c) => Active(c)
         /\ thr[c].pc \in {"s3get", "pullopen", "saveopen", "savewrite"} => Active(c)
         /\ thr[c].op # "read" /\ thr[c].pc # "idle" => Active(c)
  BY DEF TypeInv, ThreadsInv, Fits, Writing, Active, Changing, Pulling, At

\* What happens elsewhere.
LEMMA Elsewhere ==
  ASSUME NEW h \in Host, Good(h), file'[h] = file[h], truth'[h] = truth[h],
         \A c \in Client : Here(c) = h => thr'[c] = thr[c]
  PROVE  Good(h)'
<1>1. Alone(h)'
  BY DEF Good, Alone, Active, Changing, Pulling, At, Here
<1>2. Kept(h)'
  BY DEF Good, Kept, BeingWritten, Writing, Here
<1>3. ASSUME NEW c \in Client, Here(c) = h PROVE Holds(c)'
  BY <1>3 DEF Good, Holds, Writing, Here
<1> QED
  BY <1>1, <1>2, <1>3 DEF Good, Here

\* Thread c moves.  It is active already or finds no other that is, and only an
\* active one touches the file.
LEMMA Moves ==
  ASSUME TypeInv, NEW c \in Client, NEW h \in Host, h = Here(c), Good(h),
         \A e \in Client \ {c} : thr'[e] = thr[e],
         Active(c)' => Active(c) \/ \A e \in Others(c) : ~Active(e),
         (file'[h] = file[h] /\ truth'[h] = truth[h]) \/ Active(c),
         Holds(c)', Kept(h)'
  PROVE  Good(h)'
<1>1. \A e \in Client \ {c} : Active(e)' = Active(e)
  BY DEF Active, Changing, Pulling, At
<1>2. ASSUME NEW e \in Client \ {c}, Here(e) = h, Active(c)' PROVE ~Active(e)
  BY <1>2 DEF Good, Alone, Others
<1>3. Alone(h)'
  <2>1. ASSUME NEW d \in Client, NEW e \in Client, d # e, Here(d) = h, Here(e) = h
        PROVE  ~(Active(d)' /\ Active(e)')
    <3>1. CASE d = c
      BY <1>1, <1>2, <2>1, <3>1
    <3>2. CASE e = c
      BY <1>1, <1>2, <2>1, <3>2
    <3>3. CASE d # c /\ e # c
      BY <1>1, <2>1, <3>3 DEF Good, Alone
    <3> QED
      BY <3>1, <3>2, <3>3
  <2> QED
    BY <2>1 DEF Alone, Here
<1>4. ASSUME NEW e \in Client \ {c}, Here(e) = h PROVE Holds(e)'
  <2>1. Holds(e) /\ thr'[e] = thr[e]
    BY <1>4 DEF Good
  <2>2. CASE file'[h] = file[h] /\ truth'[h] = truth[h]
    BY <1>4, <2>1, <2>2 DEF Holds, Writing, Here
  <2>3. CASE Active(c)
    <3>1. ~Active(e)
      BY <1>4, <2>3 DEF Good, Alone
    <3>2. /\ ~Writing(e) /\ thr[e].pc \notin {"s3get", "pullopen", "saveopen", "savewrite"}
          /\ (thr[e].op = "read" \/ thr[e].pc = "idle")
      BY <3>1, WritersAreActive
    <3> QED
      BY <2>1, <3>2 DEF Holds, Writing
  <2> QED
    BY <2>2, <2>3
<1>5. \A e \in Client : Here(e) = h => Holds(e)'
  BY <1>4
<1> QED
  BY <1>3, <1>5 DEF Good, Here

\* The file stays, and the thread did not and does not write.
LEMMA KeptStays ==
  ASSUME NEW c \in Client, NEW h \in Host, h = Here(c), Kept(h),
         \A e \in Client \ {c} : thr'[e] = thr[e], ~Writing(c), file'[h] = file[h], truth'[h] = truth[h]
  PROVE  Kept(h)'
<1>1. \A e \in Client : HostOf[e] = h /\ Writing(e) => Writing(e)'
  BY DEF Writing
<1> QED
  BY <1>1 DEF Kept, BeingWritten

\* One thread's step, on its own instance.
StartStep(c) == Post(c) \/ Delete(c) \/ Read(c)

\* A request that starts keeps a sound instance good.
LEMMA StartIsGood ==
  ASSUME TypeInv, NEW c \in Client, Good(Here(c)), StartStep(c), Here(c) \in sound'
  PROVE  Good(Here(c))'
<1> DEFINE h == Here(c)
<1>1. /\ thr'[c].pc = "load" /\ \A e \in Client \ {c} : thr'[e] = thr[e]
      /\ file'[h] = file[h] /\ truth'[h] = truth[h] /\ ~Writing(c)
      /\ Read(c) => thr'[c].op = "read"
  BY PostTypes, DeleteTypes, ReadTypes
     DEF StartStep, Post, Delete, Read, Started, At, Writing, disk, history
<1>2. Kept(h)' /\ h \in Host
  BY <1>1, KeptStays, HereIsHost DEF Good
<1>3. Holds(c)'
  BY <1>1 DEF Holds, Writing
<1>4. Active(c)' => \A e \in Others(c) : ~Active(e)
  <2>1. CASE Read(c)
    BY <1>1, <2>1 DEF Active, Changing, Pulling, At
  <2>2. CASE Post(c) \/ Delete(c)
    BY <2>2 DEF Post, Delete, Unsound, Crowded, Active
  <2> QED
    BY <2>1, <2>2 DEF StartStep
<1> QED
  BY <1>1, <1>2, <1>3, <1>4, Moves

\* The writer of a sound instance is its only active thread.
LEMMA OnlyWriter ==
  ASSUME TypeInv, NEW c \in Client, Good(Here(c)), Active(c)
  PROVE  /\ \A e \in Others(c) : ~Active(e) /\ ~Writing(e)
         /\ ~Writing(c) /\ file[Here(c)] # None => Readable(file[Here(c)]) = truth[Here(c)]
<1>1. \A e \in Others(c) : ~Active(e) /\ ~Writing(e)
  BY WritersAreActive DEF Others, Good, Alone
<1>2. ~Writing(c) => ~BeingWritten(Here(c))
  BY <1>1 DEF BeingWritten, Others, Here
<1> QED
  BY <1>1, <1>2 DEF Good, Kept

\* Load keeps a sound instance good.
LEMMA LoadIsGood ==
  ASSUME TypeInv, NEW c \in Client, Good(Here(c)), LoadLocal(c)
  PROVE  Good(Here(c))'
<1> DEFINE h == Here(c)
<1>1. /\ Becomes(c, thr'[c], "apply", Readable(file[h])) /\ \A e \in Client \ {c} : thr'[e] = thr[e]
      /\ file'[h] = file[h] /\ truth'[h] = truth[h] /\ ~Writing(c) /\ thr[c].pc = "load"
  BY LoadLocalTypes DEF LoadLocal, At, Writing, disk, history
<1>2. Kept(h)' /\ h \in Host
  BY <1>1, KeptStays, HereIsHost DEF Good
<1>3. thr[c].op # "read" => Readable(file[h]) = truth[h]
  BY <1>1, OnlyWriter, WritersAreActive DEF LoadLocal
<1>4. Holds(c)'
  BY <1>1, <1>3 DEF Holds, Writing, Becomes, Here
<1>5. Active(c)' => Active(c)
  BY <1>1 DEF Active, Changing, Pulling, At, Becomes
<1> QED
  BY <1>1, <1>2, <1>4, <1>5, Moves

\* LoadMisses keeps a sound instance good.
LEMMA LoadMissesIsGood ==
  ASSUME TypeInv, NEW c \in Client, Good(Here(c)), LoadMisses(c), Here(c) \in sound'
  PROVE  Good(Here(c))'
<1> DEFINE h == Here(c)
<1>1. /\ Becomes(c, thr'[c], "s3get", thr[c].data) /\ \A e \in Client \ {c} : thr'[e] = thr[e]
      /\ file'[h] = file[h] /\ truth'[h] = truth[h] /\ ~Writing(c) /\ file[h] = None
  BY LoadMissesTypes DEF LoadMisses, At, Writing, disk
<1>2. Kept(h)' /\ h \in Host
  BY <1>1, KeptStays, HereIsHost DEF Good
<1>3. Holds(c)'
  BY <1>1 DEF Holds, Writing, Becomes, Here
<1>4. \A e \in Others(c) : ~Active(e)
  BY DEF LoadMisses, Unsound, Crowded, Active
<1> QED
  BY <1>1, <1>2, <1>3, <1>4, Moves

\* A get of the object, answered or not, keeps it good.
LEMMA S3IsGood ==
  ASSUME TypeInv, NEW c \in Client, Good(Here(c)), S3Get(c) \/ S3Miss(c) \/ S3GetFails(c)
  PROVE  Good(Here(c))'
<1> DEFINE h == Here(c)
<1>1. \E l \in {"pullopen", "apply", "push"} : \E d : Becomes(c, thr'[c], l, d)
  BY S3GetTypes, S3MissesTypes DEF S3Miss, S3GetFails
<1>2. /\ \A e \in Client \ {c} : thr'[e] = thr[e]
      /\ file'[h] = file[h] /\ truth'[h] = truth[h] /\ ~Writing(c) /\ thr[c].pc = "s3get"
  BY S3GetTypes, S3MissesTypes DEF S3Get, S3Miss, S3GetFails, At, Writing, disk, history
<1>3. Kept(h)' /\ h \in Host
  BY <1>2, KeptStays, HereIsHost DEF Good
<1>4. file[h] = None /\ Active(c)
  BY <1>2, WritersAreActive DEF Good, Holds
<1>5. Holds(c)'
  BY <1>1, <1>2, <1>4 DEF Holds, Writing, Becomes, Here
<1> QED
  BY <1>2, <1>3, <1>4, <1>5, Moves

\* Push keeps a sound instance good.
LEMMA PushIsGood ==
  ASSUME TypeInv, NEW c \in Client, Good(Here(c)), Push(c) \/ PushFails(c)
  PROVE  Good(Here(c))'
<1> DEFINE h == Here(c)
<1>1. /\ Becomes(c, thr'[c], "apply", thr[c].data) /\ \A e \in Client \ {c} : thr'[e] = thr[e]
      /\ file'[h] = file[h] /\ truth'[h] = truth[h] /\ ~Writing(c) /\ thr[c].pc = "push"
  BY PushTypes DEF Push, PushFails, At, Writing
<1>2. Kept(h)' /\ h \in Host
  BY <1>1, KeptStays, HereIsHost DEF Good
<1>3. Holds(c)'
  BY <1>1 DEF Good, Holds, Writing, Becomes, Here
<1>4. Active(c)' => Active(c)
  BY <1>1 DEF Active, Changing, Pulling, At, Becomes
<1> QED
  BY <1>1, <1>2, <1>3, <1>4, Moves

\* Open keeps a sound instance good.
LEMMA OpenIsGood ==
  ASSUME TypeInv, NEW c \in Client, Good(Here(c)), Open(c)
  PROVE  Good(Here(c))'
<1> DEFINE h == Here(c)
<1>1. Active(c) /\ h \in Host /\ thr[c].pc \in {"pullopen", "saveopen"}
  BY WritersAreActive, HereIsHost DEF Open
<1>2. \A e \in Others(c) : ~Writing(e)
  BY <1>1, OnlyWriter
<1> DEFINE l == IF At(c, "pullopen") THEN "pullwrite" ELSE "savewrite"
<1>3. /\ Becomes(c, thr'[c], l, thr[c].data) /\ thr'[c].building = thr[c].building
      /\ ~thr'[c].mixed /\ \A e \in Client \ {c} : thr'[e] = thr[e]
  BY <1>2, OpenTypes
<1>4. truth'[h] = truth[h] /\ l \in {"pullwrite", "savewrite"} /\ (l = "savewrite" <=> thr[c].pc = "saveopen")
  BY <1>1 DEF Open, history, At
<1> HIDE DEF l
<1>5. Kept(h)'
  <2>1. BeingWritten(h)'
    BY <1>3, <1>4 DEF BeingWritten, Writing, Becomes, Here
  <2> QED
    BY <2>1 DEF Kept
<1>6. Holds(c)'
  <2>1. thr[c].pc = "saveopen" => thr[c].data = Applied(truth[h], thr[c])
    BY DEF Good, Holds
  <2>2. Applied(truth[h], thr'[c]) = Applied(truth[h], thr[c])
    BY <1>3 DEF Applied, Becomes
  <2> HIDE DEF h
  <2>3. thr'[c].pc = "savewrite" => thr'[c].data = Applied(truth'[h], thr'[c])
    BY <1>3, <1>4, <2>1, <2>2 DEF Becomes
  <2> QED
    BY <1>3, <1>4, <2>3 DEF Holds, Writing, Becomes, Here, h
<1> QED
  BY <1>1, <1>3, <1>5, <1>6, Moves

\* PullWrite keeps a sound instance good.
LEMMA PullWriteIsGood ==
  ASSUME TypeInv, NEW c \in Client, Good(Here(c)), PullWrite(c)
  PROVE  Good(Here(c))'
<1> DEFINE h == Here(c)
<1>1. /\ Becomes(c, thr'[c], "apply", thr[c].data) /\ \A e \in Client \ {c} : thr'[e] = thr[e]
      /\ thr[c].pc = "pullwrite" /\ Writing(c) /\ h \in Host
  BY PullWriteTypes, HereIsHost DEF PullWrite, At, Writing
<1>2. Active(c)
  BY <1>1, WritersAreActive
<1>3. file'[h] = thr[c].data /\ truth'[h] = thr[c].data
  BY <1>1, WrittenTypes DEF PullWrite, Good, Holds, TypeInv, NotesInv
<1>4. Kept(h)'
  BY <1>3, HeldIsDoc, ReadableIsDoc DEF Kept
<1>5. Holds(c)'
  BY <1>1, <1>3 DEF Holds, Writing, Becomes, Here
<1> QED
  BY <1>1, <1>2, <1>4, <1>5, Moves

\* PullFails keeps a sound instance good.
LEMMA PullFailsIsGood ==
  ASSUME TypeInv, NEW c \in Client, Good(Here(c)), PullFails(c), Here(c) \in sound'
  PROVE  Good(Here(c))'
<1> DEFINE h == Here(c)
<1>1. /\ Becomes(c, thr'[c], "apply", thr[c].data) /\ \A e \in Client \ {c} : thr'[e] = thr[e]
      /\ file'[h] = file[h] /\ truth'[h] = truth[h] /\ thr[c].pc = "pullopen" /\ ~Writing(c)
  BY PullFailsTypes DEF PullFails, At, Writing, Unsound, disk
<1>2. Kept(h)' /\ h \in Host
  BY <1>1, KeptStays, HereIsHost DEF Good
<1>3. file[h] = None /\ Active(c)
  BY <1>1, WritersAreActive DEF Good, Holds
<1>4. Holds(c)'
  BY <1>1, <1>3 DEF Holds, Writing, Becomes, Here
<1> QED
  BY <1>1, <1>2, <1>3, <1>4, Moves

\* A request that ends keeps it good.
LEMMA EndIsGood ==
  ASSUME TypeInv, NEW c \in Client, Good(Here(c)), Here(c) \in sound',
         Answer(c) \/ S3Put(c) \/ S3PutFails(c) \/ SaveFails(c)
  PROVE  Good(Here(c))'
<1> DEFINE h == Here(c)
<1>1. /\ thr'[c].pc = "idle" /\ \A e \in Client \ {c} : thr'[e] = thr[e]
      /\ file'[h] = file[h] /\ truth'[h] = truth[h] /\ ~Writing(c)
  BY EndedTypes, IdleIsThread
     DEF Answer, S3Put, S3PutFails, SaveFails, At, Writing, Unsound, disk, history
<1>2. Kept(h)' /\ h \in Host
  BY <1>1, KeptStays, HereIsHost DEF Good
<1>3. Holds(c)' /\ ~Active(c)'
  BY <1>1 DEF Holds, Writing, Active, Changing, Pulling, At
<1> QED
  BY <1>1, <1>2, <1>3, Moves

\* A change applied in memory keeps it good.
LEMMA ApplyIsGood ==
  ASSUME TypeInv, NEW c \in Client, Good(Here(c)), Merge(c) \/ Drop(c)
  PROVE  Good(Here(c))'
<1> DEFINE h == Here(c)
<1>1. /\ file'[h] = file[h] /\ thr[c].pc = "apply" /\ thr[c].op # "read" /\ ~Writing(c) /\ h \in Host
      /\ Based(c)
  BY HereIsHost DEF Merge, Drop, At, Writing, disk
<1>2. /\ thr'[c].pc = "saveopen" /\ thr'[c].data = Applied(thr[c].data, thr'[c])
      /\ \A e \in Client \ {c} : thr'[e] = thr[e]
  <2>1. CASE Merge(c)
    BY <2>1, MergeTypes DEF Merge, Becomes, Applied
  <2>2. CASE Drop(c)
    BY <2>2, DropTypes DEF Drop, Becomes, Applied
  <2> QED
    BY <2>1, <2>2
<1>3. Active(c)
  BY <1>1, WritersAreActive
<1>4. truth'[h] = thr[c].data /\ (file[h] # None => truth'[h] = truth[h])
  BY <1>1 DEF Based, Good, Holds, TypeInv, NotesInv
<1>5. Kept(h)'
  <2>1. CASE file[h] = None
    BY <1>1, <2>1 DEF Kept
  <2>2. CASE file[h] # None
    BY <1>1, <1>2, <1>4, <2>2, KeptStays DEF Good
  <2> QED
    BY <2>1, <2>2
<1>6. Holds(c)'
  BY <1>2, <1>4 DEF Holds, Writing, Here
<1> QED
  BY <1>1, <1>2, <1>3, <1>5, <1>6, Moves

\* SaveWrite keeps a sound instance good.
LEMMA SaveWriteIsGood ==
  ASSUME TypeInv, NEW c \in Client, Good(Here(c)), SaveWrite(c)
  PROVE  Good(Here(c))'
<1> DEFINE h == Here(c)
<1>1. /\ thr'[c].pc = "s3put" /\ \A e \in Client \ {c} : thr'[e] = thr[e]
      /\ thr[c].pc = "savewrite" /\ Writing(c) /\ h \in Host
  BY SaveWriteTypes, HereIsHost DEF SaveWrite, At, Writing
<1>2. Active(c) /\ thr[c].data = Applied(truth[h], thr[c])
  BY <1>1, WritersAreActive DEF Good, Holds
<1>3. file'[h] = thr[c].data /\ truth'[h] = Applied(truth[h], thr[c])
  BY <1>1, WrittenTypes DEF SaveWrite, Good, Holds, TypeInv, NotesInv
<1>4. Kept(h)'
  BY <1>2, <1>3, HeldIsDoc, ReadableIsDoc DEF Kept
<1>5. Holds(c)'
  BY <1>1 DEF Holds, Writing
<1> QED
  BY <1>1, <1>2, <1>4, <1>5, Moves

\* Every step on a sound instance keeps it good.
LEMMA StepIsGood ==
  ASSUME TypeInv, NEW c \in Client, Good(Here(c)), StartStep(c) \/ Step(c), Here(c) \in sound'
  PROVE  Good(Here(c))'
  BY StartIsGood, LoadIsGood, LoadMissesIsGood, S3IsGood, PushIsGood, OpenIsGood, PullWriteIsGood,
     PullFailsIsGood, EndIsGood, ApplyIsGood, SaveWriteIsGood DEF Step

\* It leaves the other instances alone.
LEMMA StepIsLocal ==
  ASSUME TypeInv, NEW c \in Client, StartStep(c) \/ Step(c)
  PROVE  /\ sound' \subseteq sound
         /\ \A h \in Host \ {Here(c)} : file'[h] = file[h] /\ truth'[h] = truth[h]
         /\ \A e \in Client : Here(e) # Here(c) => thr'[e] = thr[e]
<1>1. sound' \subseteq sound
  BY UnsoundTypes DEF StartStep, Step, Post, Delete, Read, LoadLocal, LoadMisses, S3Get, S3Miss, S3GetFails,
     Push, PushFails, Open, PullWrite, PullFails, Answer, Merge, Drop, SaveWrite, SaveFails, S3Put,
     S3PutFails, history
<1>2. \A h \in Host \ {Here(c)} : file'[h] = file[h]
  <2>1. CASE Open(c)
    BY <2>1 DEF Open, Opened, TypeInv, DiskInv
  <2>2. CASE PullWrite(c) \/ SaveWrite(c)
    BY <2>2, WrittenTypes DEF PullWrite, SaveWrite
  <2> QED
    BY <2>1, <2>2 DEF StartStep, Step, Post, Delete, Read, LoadLocal, LoadMisses, S3Get, S3Miss,
       S3GetFails, Push, PushFails, PullFails, Answer, Merge, Drop, SaveFails, S3Put, S3PutFails, disk
<1>3. \A h \in Host \ {Here(c)} : truth'[h] = truth[h]
  <2>1. CASE Merge(c) \/ Drop(c)
    BY <2>1 DEF Merge, Drop, Based, TypeInv, NotesInv
  <2>2. CASE PullWrite(c) \/ SaveWrite(c)
    BY <2>2 DEF PullWrite, SaveWrite, TypeInv, NotesInv
  <2> QED
    BY <2>1, <2>2 DEF StartStep, Step, Post, Delete, Read, LoadLocal, LoadMisses, S3Get, S3Miss,
       S3GetFails, Push, PushFails, Open, PullFails, Answer, SaveFails, S3Put, S3PutFails, history
<1>4. \A e \in Client : Here(e) # Here(c) => thr'[e] = thr[e]
  <2>1. CASE Open(c)
    BY <2>1, OpenTypes DEF Others
  <2>2. CASE ~Open(c)
    <3>1. \A e \in Client \ {c} : thr'[e] = thr[e]
      BY <2>2, PostTypes, DeleteTypes, ReadTypes, LoadLocalTypes, LoadMissesTypes, S3GetTypes,
         S3MissesTypes, PushTypes, PullWriteTypes, PullFailsTypes, EndedTypes, MergeTypes, DropTypes,
         SaveWriteTypes DEF StartStep, Step, S3Miss, S3GetFails
    <3> QED
      BY <3>1
  <2> QED
    BY <2>1, <2>2
<1> QED
  BY <1>1, <1>2, <1>3, <1>4

\* Restart keeps a sound instance good.
LEMMA RestartIsGood ==
  ASSUME TypeInv, NEW h \in Host, Good(h), Restart(h), h \in sound'
  PROVE  Good(h)'
<1>1. \A c \in Client : Here(c) = h => thr'[c].pc = "idle"
  BY RestartTypes, IdleIsThread
<1>2. Alone(h)' /\ \A c \in Client : Here(c) = h => Holds(c)'
  BY <1>1 DEF Alone, Holds, Active, Changing, Pulling, Writing, At, Here
<1>3. Kept(h)'
  <2>1. CASE file'[h] = None
    BY <2>1 DEF Kept
  <2>2. CASE file'[h] # None
    <3>1. file' = file /\ truth' = truth /\ ~BeingWritten(h)
      BY <2>2 DEF Restart, TypeInv, DiskInv, BeingWritten, Here, Unsound
    <3> QED
      BY <3>1 DEF Good, Kept
  <2> QED
    BY <2>1, <2>2
<1> QED
  BY <1>2, <1>3 DEF Good, Here

\* Every step keeps LocalInv.
LEMMA LocalInvStays == TypeInv /\ LocalInv /\ [Next]_vars => LocalInv'
<1> SUFFICES ASSUME TypeInv, LocalInv, [Next]_vars, NEW h \in sound' PROVE Good(h)'
  BY DEF LocalInv
<1>1. ASSUME NEW c \in Client, StartStep(c) \/ Step(c) PROVE Good(h)'
  <2>1. h \in sound /\ h \in Host /\ Good(h)
    BY <1>1, StepIsLocal DEF LocalInv, TypeInv, NotesInv
  <2>2. CASE h = Here(c)
    BY <1>1, <2>1, <2>2, StepIsGood DEF Here
  <2>3. CASE h # Here(c)
    <3>1. /\ file'[h] = file[h] /\ truth'[h] = truth[h]
          /\ \A e \in Client : Here(e) = h => thr'[e] = thr[e]
      BY <1>1, <2>1, <2>3, StepIsLocal
    <3> QED
      BY <2>1, <3>1, Elsewhere
  <2> QED
    BY <2>2, <2>3
<1>2. ASSUME NEW g \in Host, Restart(g) PROVE Good(h)'
  <2>1. h \in sound /\ h \in Host /\ Good(h)
    BY <1>2, UnsoundTypes DEF Restart, LocalInv, TypeInv, NotesInv
  <2>2. CASE h = g
    BY <1>2, <2>1, <2>2, RestartIsGood
  <2>3. CASE h # g
    <3>1. /\ file'[h] = file[h] /\ truth'[h] = truth[h]
          /\ \A e \in Client : Here(e) = h => thr'[e] = thr[e]
      BY <1>2, <2>1, <2>3, RestartTypes DEF Restart, TypeInv, DiskInv, NotesInv
    <3> QED
      BY <2>1, <3>1, Elsewhere
  <2> QED
    BY <2>2, <2>3
<1>3. CASE UNCHANGED vars
  <2>1. h \in sound /\ h \in Host /\ Good(h)
    BY <1>3 DEF vars, LocalInv, TypeInv, NotesInv
  <2> QED
    BY <1>3, <2>1, Elsewhere DEF vars
<1> QED
  BY <1>1, <1>2, <1>3 DEF Next, StartStep

\* LocalInv holds at first.
LEMMA LocalInvStarts == Init => LocalInv
<1> SUFFICES ASSUME Init, NEW h \in Host PROVE Good(h)
  BY DEF LocalInv, Init
<1>1. \A c \in Client : thr[c].pc = "idle"
  BY IdleIsThread DEF Init
<1>2. Alone(h) /\ \A c \in Client : Holds(c)
  BY <1>1 DEF Alone, Holds, Active, Changing, Pulling, Writing, At
<1>3. Kept(h)
  BY DEF Kept, Init
<1> QED
  BY <1>2, <1>3 DEF Good

\* What a sound instance acknowledged is in its file, whatever the bucket, the
\* other instances and its own restarts do.
THEOREM AcknowledgedIsInFile == Spec => []FileIsWhatWasAcknowledged
<1>1. TypeInv /\ LocalInv => FileIsWhatWasAcknowledged
  BY DEF LocalInv, Good, Kept, FileIsWhatWasAcknowledged
<1> QED
  BY <1>1, InitTypes, NextTypes, LocalInvStarts, LocalInvStays, PTL DEF Spec

-----------------------------------------------------------------------------
(* The object of an only writer *)

Sending(c) == At(c, "s3put")

\* What is in the hands of the threads of h is the object, or is on its way there.
Follows(h) ==
  /\ \A c \in Client : Here(c) = h =>
       /\ thr[c].pc \in {"pullopen", "pullwrite"} => thr[c].data = s3
       /\ Sending(c) => thr[c].data = truth[h]
       /\ thr[c].pc # "push"
  /\ /\ savers = {h} /\ file[h] # None /\ ~BeingWritten(h)
     /\ \A c \in Client : Here(c) = h => ~Sending(c)
     => s3 = truth[h]

SendersInv == \A c \in Client : Sending(c) => Here(c) \in savers

Only(h) == Bucket /\ h \in sound /\ savers \subseteq {h} /\ ~behind

ObjectInv == SendersInv /\ \A h \in Host : Only(h) => Follows(h)

\* An instance that has saved stays one,
LEMMA SaversGrow == ASSUME NEW c \in Client, StartStep(c) \/ Step(c) PROVE savers \subseteq savers'
  BY DEF StartStep, Step, Post, Delete, Read, LoadLocal, LoadMisses, S3Get, S3Miss, S3GetFails,
     Push, PushFails, Open, PullWrite, PullFails, Answer, Merge, Drop, SaveWrite, SaveFails, S3Put,
     S3PutFails, history

\* and one that is behind stays behind.
LEMMA BehindStays == ASSUME NEW c \in Client, StartStep(c) \/ Step(c), behind PROVE behind'
<1>1. CASE S3GetFails(c) \/ PushFails(c) \/ S3PutFails(c)
  BY <1>1 DEF S3GetFails, PushFails, S3PutFails
<1>2. CASE ~(S3GetFails(c) \/ PushFails(c) \/ S3PutFails(c))
  <2>1. UNCHANGED behind
    BY <1>2 DEF StartStep, Step, Post, Delete, Read, LoadLocal, LoadMisses, S3Get, S3Miss, Push, Open,
       PullWrite, PullFails, Answer, Merge, Drop, SaveWrite, SaveFails, S3Put, history
  <2> QED
    BY <2>1
<1> QED
  BY <1>1, <1>2

\* An instance that has not overlapped, and has no competitor, was such before.
LEMMA OnlyBefore ==
  ASSUME TypeInv, [Next]_vars, NEW h \in Host, Only(h)'
  PROVE  Only(h) /\ savers \subseteq savers'
<1>1. ASSUME NEW c \in Client, StartStep(c) \/ Step(c)
      PROVE  sound' \subseteq sound /\ savers \subseteq savers' /\ (behind => behind')
  BY <1>1, SaversGrow, BehindStays, StepIsLocal
<1>2. ASSUME NEW g \in Host, Restart(g)
      PROVE  sound' \subseteq sound /\ savers \subseteq savers' /\ (behind => behind')
  BY <1>2, UnsoundTypes DEF Restart
<1> QED
  BY <1>1, <1>2 DEF Next, StartStep, vars, Only

\* Whoever sends is on an instance that has saved.
LEMMA SendersStay == ASSUME TypeInv, SendersInv, [Next]_vars PROVE SendersInv'
<1>1. ASSUME NEW c \in Client, StartStep(c) \/ Step(c), NEW e \in Client, Sending(e)'
      PROVE  Here(e) \in savers'
  <2>1. savers \subseteq savers'
    BY <1>1, SaversGrow
  <2>2. CASE SaveWrite(c)
    BY <1>1, <2>1, <2>2, SaveWriteTypes DEF SaveWrite, SendersInv, Sending, At
  <2>3. CASE Open(c)
    <3>1. thr'[e].pc = "s3put" => thr[e].pc = "s3put"
      <4>1. CASE e = c
        BY <2>3, <4>1, OpenTypes DEF Becomes
      <4>2. CASE e # c
        <5>1. thr'[e] = thr[e] \/ thr'[e] = [thr[e] EXCEPT !.mixed = TRUE]
          BY <2>3, <4>2, OpenTypes
        <5>2. [thr[e] EXCEPT !.mixed = TRUE].pc = thr[e].pc
          BY DEF TypeInv, ThreadsInv, ThreadState
        <5> QED
          BY <5>1, <5>2
      <4> QED
        BY <4>1, <4>2
    <3> QED
      BY <1>1, <2>1, <3>1 DEF SendersInv, Sending, At
  <2>4. CASE ~SaveWrite(c) /\ ~Open(c)
    <3>1. \A d \in Client \ {c} : thr'[d] = thr[d]
      BY <1>1, <2>4, PostTypes, DeleteTypes, ReadTypes, LoadLocalTypes, LoadMissesTypes, S3GetTypes,
         S3MissesTypes, PushTypes, PullWriteTypes, PullFailsTypes, EndedTypes, MergeTypes, DropTypes
         DEF StartStep, Step, S3Miss, S3GetFails
    <3>2. thr'[c].pc # "s3put"
      BY <1>1, <2>4, PostTypes, DeleteTypes, ReadTypes, LoadLocalTypes, LoadMissesTypes, S3GetTypes,
         S3MissesTypes, PushTypes, PullWriteTypes, PullFailsTypes, EndedTypes, MergeTypes, DropTypes,
         IdleIsThread DEF StartStep, Step, S3Miss, S3GetFails, Becomes
    <3> QED
      BY <1>1, <2>1, <3>1, <3>2 DEF SendersInv, Sending, At
  <2> QED
    BY <2>2, <2>3, <2>4
<1>2. ASSUME NEW g \in Host, Restart(g), NEW e \in Client, Sending(e)'
      PROVE  Here(e) \in savers'
  BY <1>2, RestartTypes, IdleIsThread DEF Restart, SendersInv, Sending, At
<1> QED
  BY <1>1, <1>2 DEF Next, StartStep, vars, SendersInv, Sending, At, Here

\* A thread of h that neither wrote nor sent goes on.
LEMMA FollowsOn ==
  ASSUME NEW h \in Host, Follows(h), NEW c \in Client, Here(c) = h,
         \A e \in Client \ {c} : thr'[e] = thr[e],
         s3' = s3, file'[h] = file[h], truth'[h] = truth[h], savers' = savers,
         ~Writing(c), ~Sending(c),
         thr'[c].pc \notin {"s3put", "push", "pullwrite"},
         thr'[c].pc = "pullopen" => thr'[c].data = s3
  PROVE  Follows(h)'
<1>1. \A e \in Client : HostOf[e] = h /\ Writing(e) => Writing(e)'
  BY DEF Writing
<1>2. BeingWritten(h) => BeingWritten(h)'
  BY <1>1 DEF BeingWritten
<1>3. \A e \in Client : Here(e) = h /\ Sending(e) => Sending(e)'
  BY DEF Sending, At
<1> QED
  BY <1>2, <1>3 DEF Follows, Sending, At, Here

\* Steps before a write leave the object following.
LEMMA BeforeWriting ==
  ASSUME TypeInv, NEW c \in Client, Good(Here(c)), Follows(Here(c)), Only(Here(c))',
         StartStep(c) \/ LoadLocal(c) \/ LoadMisses(c) \/ S3Get(c) \/ S3Miss(c) \/ PullFails(c)
         \/ Answer(c) \/ SaveFails(c)
  PROVE  Follows(Here(c))'
<1> DEFINE h == Here(c)
<1>1. /\ h \in Host /\ s3' = s3 /\ file'[h] = file[h] /\ truth'[h] = truth[h] /\ savers' = savers
      /\ ~Writing(c) /\ ~Sending(c)
  BY HereIsHost DEF StartStep, Post, Delete, Read, Started, LoadLocal, LoadMisses, S3Get, S3Miss, PullFails,
     Answer, SaveFails, Only, Unsound, Writing, Sending, At, disk, history
<1>2. \A e \in Client \ {c} : thr'[e] = thr[e]
  BY PostTypes, DeleteTypes, ReadTypes, LoadLocalTypes, LoadMissesTypes, S3GetTypes, S3MissesTypes,
     PullFailsTypes, EndedTypes DEF StartStep, S3Miss
<1>3. S3Get(c) => thr'[c].pc = "pullopen" /\ thr'[c].data = s3
  BY S3GetTypes DEF Becomes
<1>4. S3Miss(c) => thr'[c].pc = "apply"
  <2>1. SUFFICES ASSUME S3Miss(c) PROVE thr'[c].pc = "apply"
    OBVIOUS
  <2>2. file[h] = None
    BY <2>1 DEF S3Miss, At, Good, Holds
  <2>3. Readable(file[h]) = Empty
    BY <2>2 DEF Readable
  <2>4. thr' = [thr EXCEPT ![c].pc = "apply", ![c].data = Empty]
    BY <2>1, <2>3 DEF S3Miss, S3Misses
  <2> QED
    BY <2>4 DEF TypeInv, ThreadsInv, ThreadState
<1>5. ~S3Get(c) /\ ~S3Miss(c) => thr'[c].pc \in {"load", "apply", "s3get", "idle"}
  BY PostTypes, DeleteTypes, ReadTypes, LoadLocalTypes, LoadMissesTypes, PullFailsTypes, EndedTypes,
     IdleIsThread DEF StartStep, Becomes
<1> QED
  BY <1>1, <1>2, <1>3, <1>4, <1>5, FollowsOn

\* No other thread of h pulls or sends beside an active one.
LEMMA NobodyElse ==
  ASSUME TypeInv, NEW c \in Client, Good(Here(c)), Active(c), NEW e \in Client \ {c}, Here(e) = Here(c)
  PROVE  /\ ~Sending(e) /\ thr[e].pc \notin {"pullopen", "pullwrite"} /\ ~Writing(e)
<1>1. ~Active(e)
  BY DEF Good, Alone
<1>2. Sending(e) => thr[e].op # "read" /\ thr[e].pc # "idle"
  BY DEF TypeInv, ThreadsInv, Fits, Sending, At
<1> QED
  BY <1>1, <1>2, WritersAreActive DEF Active, Pulling

\* So do a change in memory,
LEMMA ApplyFollows ==
  ASSUME TypeInv, NEW c \in Client, Good(Here(c)), Follows(Here(c)), Merge(c) \/ Drop(c)
  PROVE  Follows(Here(c))'
<1> DEFINE h == Here(c)
<1>1. /\ h \in Host /\ s3' = s3 /\ file'[h] = file[h] /\ savers' = savers /\ Based(c)
      /\ ~Writing(c) /\ ~Sending(c) /\ thr[c].pc = "apply" /\ thr[c].op # "read"
  BY HereIsHost DEF Merge, Drop, Writing, Sending, At, disk
<1>2. /\ \A e \in Client \ {c} : thr'[e] = thr[e]
      /\ thr'[c].pc = "saveopen"
  BY MergeTypes, DropTypes DEF Becomes
<1>3. Active(c)
  BY <1>1, WritersAreActive
<1>4. CASE file[h] = None
  BY <1>1, <1>2, <1>3, <1>4, NobodyElse DEF Follows, Sending, At, Here
<1>5. CASE file[h] # None
  <2>1. truth'[h] = truth[h]
    BY <1>1, <1>5 DEF Based
  <2> QED
    BY <1>1, <1>2, <2>1, FollowsOn
<1> QED
  BY <1>4, <1>5

\* opening the file,
LEMMA OpenFollows ==
  ASSUME TypeInv, NEW c \in Client, Good(Here(c)), Follows(Here(c)), Open(c)
  PROVE  Follows(Here(c))'
<1> DEFINE h == Here(c)
<1>1. Active(c) /\ thr[c].pc \in {"pullopen", "saveopen"}
  BY WritersAreActive DEF Open
<1>2. /\ Becomes(c, thr'[c], IF At(c, "pullopen") THEN "pullwrite" ELSE "savewrite", thr[c].data)
      /\ \A e \in Client \ {c} : thr'[e] = thr[e]
  <2>1. \A e \in Others(c) : ~Writing(e)
    BY <1>1, OnlyWriter
  <2> QED
    BY <2>1, OpenTypes
<1>3. BeingWritten(h)'
  BY <1>2 DEF BeingWritten, Writing, Becomes, Here
<1>4. s3' = s3 /\ truth' = truth
  BY DEF Open, history
<1> QED
  BY <1>1, <1>2, <1>3, <1>4 DEF Follows, Sending, At, Here, Becomes

\* writing what was pulled,
LEMMA PullWriteFollows ==
  ASSUME TypeInv, NEW c \in Client, Good(Here(c)), Follows(Here(c)), PullWrite(c)
  PROVE  Follows(Here(c))'
<1> DEFINE h == Here(c)
<1>1. Active(c) /\ thr[c].pc = "pullwrite" /\ h \in Host
  BY HereIsHost DEF PullWrite, At, Active, Pulling
<1>2. thr'[c].pc = "apply" /\ \A e \in Client \ {c} : thr'[e] = thr[e]
  BY PullWriteTypes DEF Becomes
<1>3. s3' = s3 /\ truth'[h] = s3
  BY <1>1 DEF PullWrite, Follows, TypeInv, NotesInv
<1>4. \A e \in Client \ {c} : Here(e) = h =>
        ~Sending(e) /\ thr[e].pc \notin {"pullopen", "pullwrite"}
  BY <1>1, NobodyElse
<1> QED
  BY <1>2, <1>3, <1>4 DEF Follows, Sending, At, Here

\* writing what is saved,
LEMMA SaveWriteFollows ==
  ASSUME TypeInv, NEW c \in Client, Good(Here(c)), Follows(Here(c)), SaveWrite(c)
  PROVE  Follows(Here(c))'
<1> DEFINE h == Here(c)
<1>1. Active(c) /\ thr[c].pc = "savewrite" /\ h \in Host
  BY WritersAreActive, HereIsHost DEF SaveWrite, At
<1>2. thr'[c].pc = "s3put" /\ \A e \in Client \ {c} : thr'[e] = thr[e]
  BY SaveWriteTypes
<1>3. thr'[c].data = thr[c].data
  BY DEF SaveWrite, AfterLocal, TypeInv, ThreadsInv, ThreadState
<1>4. truth'[h] = thr[c].data
  BY <1>1 DEF SaveWrite, Good, Holds, TypeInv, NotesInv
<1>5. \A e \in Client \ {c} : Here(e) = h =>
        ~Sending(e) /\ thr[e].pc \notin {"pullopen", "pullwrite"}
  BY <1>1, NobodyElse
<1> QED
  BY <1>2, <1>3, <1>4, <1>5 DEF Follows, Sending, At, Here

\* and sending it,
LEMMA PutFollows ==
  ASSUME TypeInv, Bucket, NEW c \in Client, Good(Here(c)), Follows(Here(c)), S3Put(c)
  PROVE  Follows(Here(c))'
<1> DEFINE h == Here(c)
<1>1. Active(c) /\ Sending(c) /\ h \in Host
  BY WritersAreActive, HereIsHost DEF S3Put, Sending, At, TypeInv, ThreadsInv, Fits
<1>2. thr'[c].pc = "idle" /\ \A e \in Client \ {c} : thr'[e] = thr[e]
  BY EndedTypes, IdleIsThread
<1>3. s3' = truth[h] /\ truth'[h] = truth[h]
  BY <1>1 DEF S3Put, Follows, history
<1>4. \A e \in Client \ {c} : Here(e) = h =>
        ~Sending(e) /\ thr[e].pc \notin {"pullopen", "pullwrite"}
  BY <1>1, NobodyElse
<1> QED
  BY <1>2, <1>3, <1>4 DEF Follows, Sending, At, Here

\* so every step of a request,
LEMMA StepFollows ==
  ASSUME TypeInv, NEW c \in Client, Good(Here(c)), Follows(Here(c)), Only(Here(c))',
         StartStep(c) \/ Step(c)
  PROVE  Follows(Here(c))'
<1>1. ~(S3GetFails(c) \/ PushFails(c) \/ S3PutFails(c))
  BY DEF Only, S3GetFails, PushFails, S3PutFails
<1>2. ~Push(c)
  BY DEF Push, At, Follows
<1> QED
  BY <1>1, <1>2, BeforeWriting, ApplyFollows, OpenFollows, PullWriteFollows, SaveWriteFollows, PutFollows
     DEF Step, Only

\* Other instances that have not saved do not touch the object.
LEMMA ObjectStays ==
  ASSUME TypeInv, SendersInv, NEW h \in Host, Only(h)', savers \subseteq savers',
         NEW c \in Client, Here(c) # h, StartStep(c) \/ Step(c)
  PROVE  s3' = s3 /\ savers' = savers
<1>1. ~(S3GetFails(c) \/ PushFails(c) \/ S3PutFails(c))
  BY DEF Only, S3GetFails, PushFails, S3PutFails
<1>2. ~Push(c) /\ ~SaveWrite(c) /\ ~S3Put(c)
  BY DEF Only, Push, SaveWrite, S3Put, SendersInv, Sending
<1> QED
  BY <1>1, <1>2 DEF StartStep, Step, Post, Delete, Read, LoadLocal, LoadMisses, S3Get, S3Miss, Open,
     PullWrite, PullFails, Answer, Merge, Drop, SaveFails, disk, history

\* What happens elsewhere.
LEMMA FollowsElsewhere ==
  ASSUME NEW h \in Host, Follows(h), s3' = s3, savers' = savers, file'[h] = file[h], truth'[h] = truth[h],
         \A e \in Client : Here(e) = h => thr'[e] = thr[e]
  PROVE  Follows(h)'
<1>1. BeingWritten(h)' <=> BeingWritten(h)
  BY DEF BeingWritten, Writing, Here
<1> QED
  BY <1>1 DEF Follows, Sending, At, Here

\* and a restart.
LEMMA RestartFollows ==
  ASSUME TypeInv, NEW h \in Host, Follows(h), Only(h)', Restart(h)
  PROVE  Follows(h)'
<1>1. \A c \in Client : Here(c) = h => thr'[c].pc = "idle"
  BY RestartTypes, IdleIsThread
<1>2. CASE file'[h] = None
  BY <1>1, <1>2 DEF Follows, Sending, At, Here
<1>3. CASE file'[h] # None
  <2>1. file' = file /\ truth' = truth /\ ~BeingWritten(h)
    BY <1>3 DEF Restart, TypeInv, DiskInv, BeingWritten, Here, Unsound, Only
  <2>2. \A c \in Client : Here(c) = h => ~Sending(c)
    BY DEF Restart, Only, Sending
  <2>3. s3' = s3 /\ savers' = savers
    BY DEF Restart
  <2> QED
    BY <1>1, <2>1, <2>2, <2>3 DEF Follows, Sending, At, Here
<1> QED
  BY <1>2, <1>3

\* Every step keeps ObjectInv.
LEMMA ObjectInvStays == TypeInv /\ LocalInv /\ ObjectInv /\ [Next]_vars => ObjectInv'
<1> SUFFICES ASSUME TypeInv, LocalInv, ObjectInv, [Next]_vars, NEW h \in Host, Only(h)' PROVE Follows(h)'
  BY SendersStay DEF ObjectInv
<1>1. Only(h) /\ savers \subseteq savers' /\ Good(h) /\ Follows(h) /\ SendersInv
  BY OnlyBefore DEF ObjectInv, LocalInv, Only
<1>2. ASSUME NEW c \in Client, StartStep(c) \/ Step(c) PROVE Follows(h)'
  <2>1. CASE Here(c) = h
    BY <1>1, <1>2, <2>1, StepFollows
  <2>2. CASE Here(c) # h
    <3>1. s3' = s3 /\ savers' = savers
      BY <1>1, <1>2, <2>2, ObjectStays
    <3>2. /\ file'[h] = file[h] /\ truth'[h] = truth[h]
          /\ \A e \in Client : Here(e) = h => thr'[e] = thr[e]
      BY <1>2, <2>2, StepIsLocal
    <3> QED
      BY <1>1, <3>1, <3>2, FollowsElsewhere
  <2> QED
    BY <2>1, <2>2
<1>3. ASSUME NEW g \in Host, Restart(g) PROVE Follows(h)'
  <2>1. CASE g = h
    BY <1>1, <1>3, <2>1, RestartFollows
  <2>2. CASE g # h
    <3>1. /\ file'[h] = file[h] /\ truth'[h] = truth[h] /\ s3' = s3 /\ savers' = savers
          /\ \A e \in Client : Here(e) = h => thr'[e] = thr[e]
      BY <1>3, <2>2, RestartTypes DEF Restart, TypeInv, DiskInv, NotesInv
    <3> QED
      BY <1>1, <3>1, FollowsElsewhere
  <2> QED
    BY <2>1, <2>2
<1>4. CASE UNCHANGED vars
  BY <1>1, <1>4, FollowsElsewhere DEF vars
<1> QED
  BY <1>2, <1>3, <1>4 DEF Next, StartStep

\* ObjectInv holds at first.
LEMMA ObjectInvStarts == Init => ObjectInv
<1> SUFFICES ASSUME Init PROVE ObjectInv
  OBVIOUS
<1>1. \A c \in Client : thr[c].pc = "idle"
  BY IdleIsThread DEF Init
<1>2. savers = {}
  BY DEF Init
<1> QED
  BY <1>1, <1>2 DEF ObjectInv, SendersInv, Follows, Sending, At

\* The bucket follows the only instance that writes.
THEOREM ObjectFollows == Spec => []ObjectFollowsTheOnlyWriter
<1>1. TypeInv /\ ObjectInv => ObjectFollowsTheOnlyWriter
  BY DEF TypeInv, NotesInv, ObjectInv, Only, Follows, Sending, ObjectFollowsTheOnlyWriter
<1> QED
  BY <1>1, InitTypes, NextTypes, LocalInvStarts, LocalInvStays, ObjectInvStarts, ObjectInvStays,
     PTL DEF Spec

-----------------------------------------------------------------------------
(* Every row is a sum of whole payloads *)

\* A merge that has not changed its document yet.
Early == {"load", "s3get", "pullopen", "pullwrite", "push", "apply"}
Waiting(c) == thr[c].op = "merge" /\ thr[c].pc \in Early

\* Payloads that some document may hold by now.
Settled == used \ {thr[c].id : c \in {x \in Client : Waiting(x)}}

\* n is what some of the payloads U make of row r.
WholeRow(r, n, U) ==
  \E S \in SUBSET {i \in U : RowOf(Payload[i]) = r} :
    \/ \E b \in InitialDocs \ {None} : r \in DOMAIN b /\ SumsUp(n, b[r], S)
    \/ \E i \in S : SumsUp(n, NewNode(Payload[i]), S)

WholeRows(d, U) == \A r \in DOMAIN d : WholeRow(r, d[r], U)

\* No two requests merge the same payload.
MergersInv ==
  /\ IsFiniteSet(used)
  /\ \A c \in Client : thr[c].op = "merge" => thr[c].id \in used
  /\ \A c, d \in Client : Waiting(c) /\ Waiting(d) /\ thr[c].id = thr[d].id => c = d

RowsInv == MergersInv /\ \A d \in Documents : WholeRows(d, Settled)

\* One more value of F, and its sum.
LEMMA OneMoreValue ==
  ASSUME NEW F \in [Id -> Nat], NEW S \in SUBSET Id, IsFiniteSet(S), NEW i \in Id, i \notin S
  PROVE  /\ SumFunction([j \in S |-> F[j]]) \in Int
         /\ SumFunction([j \in S \cup {i} |-> F[j]]) = SumFunction([j \in S |-> F[j]]) + F[i]
<1> DEFINE f == [j \in S |-> F[j]]
           g == [j \in S \cup {i} |-> F[j]]
<1>1. IsFiniteSet(S \cup {i})
  BY FS_AddElement
<1>2. Summable(g)
  BY <1>1 DEF Summable
<1>3. OneMore(g, f, i) /\ g[i] = F[i]
  BY DEF OneMore
<1> HIDE DEF f, g
<1>4. Summable(f) /\ SumFunction(g) = g[i] + SumFunction(f)
  BY <1>2, <1>3, SumOneMore
<1>5. SumFunction(f) \in Int
  BY <1>4, SumInt
<1>6. SumFunction(g) = SumFunction(f) + F[i]
  BY <1>3, <1>4, <1>5
<1> QED
  BY <1>5, <1>6 DEF f, g

\* A payload merged into a row is one more payload in its sums.
LEMMA AddedSumsUp ==
  ASSUME NEW n \in Node, NEW b \in Node, NEW S \in SUBSET Id, IsFiniteSet(S),
         NEW i \in Id, i \notin S, SumsUp(n, b, S)
  PROVE  SumsUp(Added(n, Payload[i]), b, S \cup {i})
<1> DEFINE new == Added(n, Payload[i])
<1>1. \A j \in Id : Payload[j] \in
        [building : Text, machine : Text, name : Text, energy : Text, idle : Nat, time : Nat,
         idleTime : Nat, minutes : [WorkOrder -> Nat], published : Nat]
  BY FactoryAssumption
<1>2. /\ new.idle = n.idle + Payload[i].idle /\ new.time = n.time + Payload[i].time
      /\ new.idleTime = n.idleTime + Payload[i].idleTime
      /\ \A w \in WorkOrder : new.minutes[w] = n.minutes[w] + Payload[i].minutes[w]
      /\ new.count = n.count + 1 /\ new.published = Later(Payload[i].published, n.published)
  BY DEF Added
<1> HIDE DEF new
<1>3. new.idle = b.idle + SumFunction([j \in S \cup {i} |-> Payload[j].idle])
  <2> DEFINE F == [j \in Id |-> Payload[j].idle]
  <2>1. F \in [Id -> Nat] /\ \A T \in SUBSET Id : [j \in T |-> F[j]] = [j \in T |-> Payload[j].idle]
    BY <1>1
  <2>2. n.idle = b.idle + SumFunction([j \in S |-> F[j]])
    BY <2>1 DEF SumsUp
  <2>3. F[i] = Payload[i].idle
    OBVIOUS
  <2> HIDE DEF F
  <2>4. /\ SumFunction([j \in S |-> F[j]]) \in Int
        /\ SumFunction([j \in S \cup {i} |-> F[j]]) = SumFunction([j \in S |-> F[j]]) + F[i]
    BY <2>1, OneMoreValue
  <2>5. b.idle \in Int /\ F[i] \in Int
    BY <2>1 DEF Node
  <2>6. new.idle = b.idle + SumFunction([j \in S \cup {i} |-> F[j]])
    BY <1>2, <2>2, <2>3, <2>4, <2>5
  <2>7. [j \in S \cup {i} |-> F[j]] = [j \in S \cup {i} |-> Payload[j].idle]
    BY <2>1
  <2> QED
    BY <2>6, <2>7
<1>4. new.time = b.time + SumFunction([j \in S \cup {i} |-> Payload[j].time])
  <2> DEFINE F == [j \in Id |-> Payload[j].time]
  <2>1. F \in [Id -> Nat] /\ \A T \in SUBSET Id : [j \in T |-> F[j]] = [j \in T |-> Payload[j].time]
    BY <1>1
  <2>2. n.time = b.time + SumFunction([j \in S |-> F[j]])
    BY <2>1 DEF SumsUp
  <2>3. F[i] = Payload[i].time
    OBVIOUS
  <2> HIDE DEF F
  <2>4. /\ SumFunction([j \in S |-> F[j]]) \in Int
        /\ SumFunction([j \in S \cup {i} |-> F[j]]) = SumFunction([j \in S |-> F[j]]) + F[i]
    BY <2>1, OneMoreValue
  <2>5. b.time \in Int /\ F[i] \in Int
    BY <2>1 DEF Node
  <2>6. new.time = b.time + SumFunction([j \in S \cup {i} |-> F[j]])
    BY <1>2, <2>2, <2>3, <2>4, <2>5
  <2>7. [j \in S \cup {i} |-> F[j]] = [j \in S \cup {i} |-> Payload[j].time]
    BY <2>1
  <2> QED
    BY <2>6, <2>7
<1>5. new.idleTime = b.idleTime + SumFunction([j \in S \cup {i} |-> Payload[j].idleTime])
  <2> DEFINE F == [j \in Id |-> Payload[j].idleTime]
  <2>1. F \in [Id -> Nat] /\ \A T \in SUBSET Id : [j \in T |-> F[j]] = [j \in T |-> Payload[j].idleTime]
    BY <1>1
  <2>2. n.idleTime = b.idleTime + SumFunction([j \in S |-> F[j]])
    BY <2>1 DEF SumsUp
  <2>3. F[i] = Payload[i].idleTime
    OBVIOUS
  <2> HIDE DEF F
  <2>4. /\ SumFunction([j \in S |-> F[j]]) \in Int
        /\ SumFunction([j \in S \cup {i} |-> F[j]]) = SumFunction([j \in S |-> F[j]]) + F[i]
    BY <2>1, OneMoreValue
  <2>5. b.idleTime \in Int /\ F[i] \in Int
    BY <2>1 DEF Node
  <2>6. new.idleTime = b.idleTime + SumFunction([j \in S \cup {i} |-> F[j]])
    BY <1>2, <2>2, <2>3, <2>4, <2>5
  <2>7. [j \in S \cup {i} |-> F[j]] = [j \in S \cup {i} |-> Payload[j].idleTime]
    BY <2>1
  <2> QED
    BY <2>6, <2>7
<1>6. ASSUME NEW w \in WorkOrder
      PROVE  new.minutes[w] = b.minutes[w] + SumFunction([j \in S \cup {i} |-> Payload[j].minutes[w]])
  <2> DEFINE F == [j \in Id |-> Payload[j].minutes[w]]
  <2>1. /\ F \in [Id -> Nat]
        /\ \A T \in SUBSET Id : [j \in T |-> F[j]] = [j \in T |-> Payload[j].minutes[w]]
    BY <1>1
  <2>2. n.minutes[w] = b.minutes[w] + SumFunction([j \in S |-> F[j]])
    BY <2>1 DEF SumsUp
  <2>3. F[i] = Payload[i].minutes[w]
    OBVIOUS
  <2> HIDE DEF F
  <2>4. /\ SumFunction([j \in S |-> F[j]]) \in Int
        /\ SumFunction([j \in S \cup {i} |-> F[j]]) = SumFunction([j \in S |-> F[j]]) + F[i]
    BY <2>1, OneMoreValue
  <2>5. b.minutes[w] \in Int /\ F[i] \in Int
    BY <2>1 DEF Node
  <2>6. new.minutes[w] = b.minutes[w] + SumFunction([j \in S \cup {i} |-> F[j]])
    BY <1>2, <2>2, <2>3, <2>4, <2>5
  <2>7. [j \in S \cup {i} |-> F[j]] = [j \in S \cup {i} |-> Payload[j].minutes[w]]
    BY <2>1
  <2> QED
    BY <2>6, <2>7
<1>7. new.count = b.count + Cardinality(S \cup {i})
  <2>1. Cardinality(S \cup {i}) = Cardinality(S) + 1 /\ Cardinality(S) \in Nat
    BY FS_AddElement, FS_CardinalityType
  <2> QED
    BY <1>2, <2>1 DEF SumsUp, Node
<1>8. \A j \in S \cup {i} : new.published >= Payload[j].published
  BY <1>1, <1>2 DEF SumsUp, Later, Node
<1> QED
  BY <1>3, <1>4, <1>5, <1>6, <1>7, <1>8 DEF SumsUp, new

\* A row no payload was merged into sums up none.
LEMMA NoneSumsUp == ASSUME NEW b \in Node, NEW p PROVE SumsUp(b, b, {})
<1>1. SumFunction([j \in {} |-> Payload[j].idle]) = 0
  BY SumEmpty
<1>2. SumFunction([j \in {} |-> Payload[j].time]) = 0
  BY SumEmpty
<1>3. SumFunction([j \in {} |-> Payload[j].idleTime]) = 0
  BY SumEmpty
<1>4. \A w \in WorkOrder : SumFunction([j \in {} |-> Payload[j].minutes[w]]) = 0
  BY SumEmpty
<1>5. Cardinality({}) = 0
  BY FS_EmptySet
<1> QED
  BY <1>1, <1>2, <1>3, <1>4, <1>5 DEF SumsUp, Node

\* More payloads may be chosen from.
LEMMA WholeRowsStay ==
  ASSUME NEW d, NEW U, NEW V, U \subseteq V, WholeRows(d, U)
  PROVE  WholeRows(d, V)
<1> SUFFICES ASSUME NEW r \in DOMAIN d PROVE WholeRow(r, d[r], V)
  BY DEF WholeRows
<1>1. {i \in U : RowOf(Payload[i]) = r} \subseteq {i \in V : RowOf(Payload[i]) = r}
  OBVIOUS
<1>2. WholeRow(r, d[r], U)
  BY DEF WholeRows
<1> QED
  BY <1>1, <1>2 DEF WholeRow

\* The rows left by a delete.
LEMMA WithoutIsWhole ==
  ASSUME NEW d, NEW U, NEW k, WholeRows(d, U)
  PROVE  WholeRows(Without(d, k), U)
  BY DEF WholeRows, Without

\* A payload that is in no row yet is merged into its own.
LEMMA MergedIsWhole ==
  ASSUME NEW d \in Doc, NEW U \in SUBSET Id, IsFiniteSet(U), NEW i \in Id, i \notin U, WholeRows(d, U)
  PROVE  WholeRows(Merged(d, Payload[i]), U \cup {i})
<1> DEFINE p == Payload[i]
           r == RowOf(p)
           V == U \cup {i}
<1>1. /\ DOMAIN Merged(d, p) = DOMAIN d \cup {r}
      /\ Merged(d, p)[r] = Added(IF r \in DOMAIN d THEN d[r] ELSE NewNode(p), p)
      /\ \A q \in DOMAIN d : q # r => Merged(d, p)[q] = d[q]
  BY DEF Merged
<1>2. ASSUME NEW q \in DOMAIN d, q # r PROVE WholeRow(q, Merged(d, p)[q], V)
  <2>1. WholeRows(d, V)
    BY WholeRowsStay
  <2> QED
    BY <1>1, <1>2, <2>1 DEF WholeRows
<1>3. WholeRow(r, Merged(d, p)[r], V)
  <2>1. CASE r \in DOMAIN d
    <3>1. d[r] \in Node /\ Merged(d, p)[r] = Added(d[r], p)
      BY <1>1, <2>1, DocIsFunction
    <3>2. PICK S \in SUBSET {j \in U : RowOf(Payload[j]) = r} :
            \/ \E b \in InitialDocs \ {None} : r \in DOMAIN b /\ SumsUp(d[r], b[r], S)
            \/ \E j \in S : SumsUp(d[r], NewNode(Payload[j]), S)
      BY <2>1 DEF WholeRows, WholeRow
    <3>3. S \in SUBSET Id /\ IsFiniteSet(S) /\ i \notin S
      BY <3>2, FS_Subset
    <3>4. S \cup {i} \in SUBSET {j \in V : RowOf(Payload[j]) = r}
      OBVIOUS
    <3>5. CASE \E b \in InitialDocs \ {None} : r \in DOMAIN b /\ SumsUp(d[r], b[r], S)
      <4>1. PICK b \in InitialDocs \ {None} : r \in DOMAIN b /\ SumsUp(d[r], b[r], S)
        BY <3>5
      <4>2. b[r] \in Node
        BY <4>1, DocAssumption, DocIsFunction
      <4>3. SumsUp(Added(d[r], p), b[r], S \cup {i})
        BY <3>1, <3>3, <4>1, <4>2, AddedSumsUp
      <4> QED
        BY <3>1, <3>4, <4>1, <4>3 DEF WholeRow
    <3>6. CASE \E j \in S : SumsUp(d[r], NewNode(Payload[j]), S)
      <4>1. PICK j \in S : SumsUp(d[r], NewNode(Payload[j]), S)
        BY <3>6
      <4>2. NewNode(Payload[j]) \in Node
        BY <3>3, NewNodeIsNode
      <4>3. SumsUp(Added(d[r], p), NewNode(Payload[j]), S \cup {i})
        BY <3>1, <3>3, <4>1, <4>2, AddedSumsUp
      <4>4. j \in S \cup {i}
        OBVIOUS
      <4> QED
        BY <3>1, <3>4, <4>3, <4>4 DEF WholeRow
    <3> QED
      BY <3>2, <3>5, <3>6
  <2>2. CASE r \notin DOMAIN d
    <3>1. Merged(d, p)[r] = Added(NewNode(p), p) /\ NewNode(p) \in Node
      BY <1>1, <2>2, NewNodeIsNode
    <3>2. SumsUp(NewNode(p), NewNode(p), {}) /\ IsFiniteSet({})
      BY <3>1, NoneSumsUp, FS_EmptySet
    <3>3. SumsUp(Added(NewNode(p), p), NewNode(p), {} \cup {i})
      BY <3>1, <3>2, AddedSumsUp
    <3>4. {} \cup {i} \in SUBSET {j \in V : RowOf(Payload[j]) = r} /\ i \in {} \cup {i}
      OBVIOUS
    <3> QED
      BY <3>1, <3>3, <3>4 DEF WholeRow
  <2> QED
    BY <2>1, <2>2
<1> QED
  BY <1>1, <1>2, <1>3 DEF WholeRows

\* Documents that are written somewhere else, or nothing.
Known == Documents \cup {None, Torn, Empty}

\* What a step has to show that merges nothing.
LEMMA RowsMove ==
  ASSUME TypeInv, RowsInv, MergersInv', used \subseteq used',
         \A c \in Client : Waiting(c)' => thr'[c].id \notin Settled,
         \A h \in Host : file'[h] \in Known, s3' \in Known, \A c \in Client : thr'[c].data \in Known
  PROVE  RowsInv'
<1>1. Settled \subseteq Settled'
  BY DEF Settled
<1>2. Documents' \subseteq Documents \cup {Empty}
  BY DEF Documents, Known
<1>3. \A d \in Documents : WholeRows(d, Settled')
  BY <1>1, WholeRowsStay DEF RowsInv
<1>4. WholeRows(Empty, Settled')
  BY DEF WholeRows, Empty
<1> QED
  BY <1>2, <1>3, <1>4 DEF RowsInv

\* Where documents are.
LEMMA DocumentsAre ==
  ASSUME TypeInv
  PROVE  /\ \A h \in Host : file[h] \in Known /\ Readable(file[h]) \in Known
         /\ s3 \in Known /\ \A c \in Client : thr[c].data \in Known
<1>1. \A h \in Host : file[h] \in Known
  BY DEF Known, Documents
<1>2. \A h \in Host : Readable(file[h]) \in Known
  BY <1>1 DEF Readable, Known
<1>3. s3 \in Known /\ \A c \in Client : thr[c].data \in Known
  BY DEF Known, Documents
<1> QED
  BY <1>1, <1>2, <1>3

\* A request ends, or goes on with a document that is somewhere.
Onward(c) ==
  \/ thr'[c] = Idle
  \/ /\ thr'[c].op = thr[c].op /\ thr'[c].id = thr[c].id /\ thr'[c].data \in Known
     /\ thr'[c].pc \in Early => thr[c].pc \in Early

\* Steps that bring in no new document keep RowsInv:
LEMMA OnwardKeeps ==
  ASSUME TypeInv, RowsInv, used' = used, \A c \in Client : Onward(c),
         \A h \in Host : file'[h] \in Known, s3' \in Known
  PROVE  RowsInv'
<1>1. \A c \in Client : thr'[c].data \in Known
  BY DEF Onward, Known, Idle
<1>2. \A c \in Client : Waiting(c)' => Waiting(c) /\ thr'[c].id = thr[c].id
  BY DEF Onward, Waiting, Idle
<1>3. \A c \in Client : thr'[c].op = "merge" => thr[c].op = "merge" /\ thr'[c].id = thr[c].id
  BY DEF Onward, Idle
<1>4. MergersInv'
  BY <1>2, <1>3 DEF RowsInv, MergersInv
<1>5. \A c \in Client : Waiting(c)' => thr'[c].id \notin Settled
  BY <1>2 DEF Settled
<1> QED
  BY <1>1, <1>4, <1>5, RowsMove

\* Steps of a request that merge nothing.
LEMMA StepIsOnward ==
  ASSUME TypeInv, NEW c \in Client,
         \/ LoadLocal(c) \/ LoadMisses(c) \/ S3Get(c) \/ S3Miss(c) \/ S3GetFails(c) \/ Push(c)
         \/ PushFails(c) \/ Open(c) \/ PullWrite(c) \/ PullFails(c) \/ Answer(c) \/ SaveWrite(c)
         \/ SaveFails(c) \/ S3Put(c) \/ S3PutFails(c)
  PROVE  Onward(c) /\ \A e \in Client \ {c} : Onward(e)
<1>1. thr \in [Client -> ThreadState] /\ Here(c) \in Host
  BY HereIsHost DEF TypeInv, ThreadsInv
<1>2. ASSUME NEW l, NEW d \in Known, Becomes(c, thr'[c], l, d), thr[c].pc \in Early \/ l \notin Early
      PROVE  Onward(c)
  BY <1>2 DEF Becomes, Onward
<1>3. ASSUME NEW e \in Client, thr'[e] = thr[e] PROVE Onward(e)
  BY <1>3, DocumentsAre DEF Onward
<1>4. /\ Readable(file[Here(c)]) \in Known /\ s3 \in Known /\ thr[c].data \in Known
  BY <1>1, DocumentsAre
<1>5. CASE LoadLocal(c)
  <2>1. thr[c].pc \in Early
    BY <1>5 DEF LoadLocal, At, Early
  <2> QED
    BY <1>2, <1>3, <1>4, <1>5, <2>1, LoadLocalTypes
<1>6. CASE LoadMisses(c)
  <2>1. thr[c].pc \in Early
    BY <1>6 DEF LoadMisses, At, Early
  <2> QED
    BY <1>2, <1>3, <1>4, <1>6, <2>1, LoadMissesTypes
<1>7. CASE S3Get(c)
  <2>1. thr[c].pc \in Early
    BY <1>7 DEF S3Get, At, Early
  <2> QED
    BY <1>2, <1>3, <1>4, <1>7, <2>1, S3GetTypes
<1>8. CASE S3Miss(c) \/ S3GetFails(c)
  <2>1. thr[c].pc \in Early /\ S3Misses(c)
    BY <1>8 DEF S3Miss, S3GetFails, At, Early
  <2> QED
    BY <1>2, <1>3, <1>4, <2>1, S3MissesTypes
<1>9. CASE Push(c) \/ PushFails(c)
  <2>1. thr[c].pc \in Early
    BY <1>9 DEF Push, PushFails, At, Early
  <2> QED
    BY <1>2, <1>3, <1>4, <1>9, <2>1, PushTypes
<1>10. CASE Open(c)
  <2> DEFINE l == IF At(c, "pullopen") THEN "pullwrite" ELSE "savewrite"
  <2>1. thr[c].pc \in Early \/ l \notin Early
    BY <1>10 DEF Open, At, Early
  <2>2. /\ Becomes(c, thr'[c], l, thr[c].data)
        /\ \A e \in Client \ {c} : thr'[e] = thr[e] \/ thr'[e] = [thr[e] EXCEPT !.mixed = TRUE]
    BY <1>10, OpenTypes
  <2> HIDE DEF l
  <2>3. Onward(c)
    BY <1>2, <1>4, <2>1, <2>2
  <2>4. ASSUME NEW e \in Client \ {c}, thr'[e] = [thr[e] EXCEPT !.mixed = TRUE] PROVE Onward(e)
    <3>1. /\ thr'[e].op = thr[e].op /\ thr'[e].id = thr[e].id
          /\ thr'[e].data = thr[e].data /\ thr'[e].pc = thr[e].pc
      BY <1>1, <2>4 DEF ThreadState
    <3> QED
      BY <3>1, DocumentsAre DEF Onward
  <2> QED
    BY <1>3, <2>2, <2>3, <2>4
<1>11. CASE PullWrite(c) \/ PullFails(c)
  <2>1. thr[c].pc \in Early
    BY <1>11 DEF PullWrite, PullFails, At, Early
  <2> QED
    BY <1>2, <1>3, <1>4, <1>11, <2>1, PullWriteTypes, PullFailsTypes
<1>12. CASE Answer(c) \/ S3Put(c) \/ S3PutFails(c) \/ SaveFails(c)
  BY <1>3, <1>12, EndedTypes DEF Onward
<1>13. CASE SaveWrite(c)
  <2>1. thr' = [thr EXCEPT ![c] = AfterLocal(thr[c])]
    BY <1>13 DEF SaveWrite
  <2>2. /\ AfterLocal(thr[c]).op = thr[c].op /\ AfterLocal(thr[c]).id = thr[c].id
        /\ AfterLocal(thr[c]).data = thr[c].data /\ AfterLocal(thr[c]).pc = "s3put"
    BY <1>1 DEF AfterLocal, ThreadState
  <2> HIDE DEF AfterLocal
  <2>3. Onward(c)
    BY <1>1, <1>4, <2>1, <2>2 DEF Onward, Early
  <2> QED
    BY <1>1, <1>3, <2>1, <2>3
<1> QED
  BY <1>5, <1>6, <1>7, <1>8, <1>9, <1>10, <1>11, <1>12, <1>13

\* every step of a request but a merge and a deletion,
LEMMA StepKeepsRows ==
  ASSUME TypeInv, RowsInv, NEW c \in Client, Step(c), ~Merge(c), ~Drop(c)
  PROVE  RowsInv'
<1>1. \A e \in Client : Onward(e)
  BY StepIsOnward DEF Step
<1>2. used' = used
  BY DEF Step, LoadLocal, LoadMisses, S3Get, S3Miss, S3GetFails, Push, PushFails, Open, PullWrite,
     PullFails, Answer, SaveWrite, SaveFails, S3Put, S3PutFails
<1>3. \A h \in Host : file'[h] \in Known
  <2>1. CASE Open(c)
    BY <2>1, DocumentsAre DEF Open, Opened, TypeInv, DiskInv, Known
  <2>2. CASE PullWrite(c) \/ SaveWrite(c)
    <3>1. PICK x \in {thr[c].data} \cup (IF thr[c].mixed THEN {Torn} ELSE {}) :
            file' = [file EXCEPT ![Here(c)] = x]
      BY <2>2 DEF PullWrite, SaveWrite, Written
    <3>2. x \in Known
      BY DocumentsAre DEF Known
    <3> QED
      BY <3>1, <3>2, DocumentsAre DEF TypeInv, DiskInv
  <2>3. CASE ~Open(c) /\ ~PullWrite(c) /\ ~SaveWrite(c)
    <3>1. file' = file
      BY <2>3 DEF Step, LoadLocal, LoadMisses, S3Get, S3Miss, S3GetFails, Push, PushFails,
         PullFails, Answer, SaveFails, S3Put, S3PutFails, disk
    <3> QED
      BY <3>1, DocumentsAre
  <2> QED
    BY <2>1, <2>2, <2>3
<1>4. s3' \in Known
  <2>1. s3' \in {s3, thr[c].data}
    BY DEF Step, LoadLocal, LoadMisses, S3Get, S3Miss, S3GetFails, Push, PushFails, Open, PullWrite,
       PullFails, Answer, SaveWrite, SaveFails, S3Put, S3PutFails, disk
  <2> QED
    BY <2>1, DocumentsAre
<1> QED
  BY <1>1, <1>2, <1>3, <1>4, OnwardKeeps

\* A request starts; one that merges takes a payload nobody has taken.
LEMMA StartKeepsRows ==
  ASSUME TypeInv, RowsInv, NEW c \in Client, StartStep(c)
  PROVE  RowsInv'
<1>1. PICK op, i, b :
        /\ op \in Ops
        /\ Started(c, op, i, b) /\ UNCHANGED disk
        /\ \/ op = "merge" /\ i \in Id \ used /\ used' = used \cup {i}
           \/ op # "merge" /\ used' = used
  BY DEF StartStep, Post, Delete, Read, Ops
<1> DEFINE x == [pc |-> "load", op |-> op, id |-> i, building |-> b, data |-> Empty, mixed |-> FALSE]
<1>2. thr'[c] = x /\ x.op = op /\ x.id = i /\ x.data = Empty
      /\ \A e \in Client : e # c => thr'[e] = thr[e]
  BY <1>1 DEF Started, TypeInv, ThreadsInv
<1> HIDE DEF x
<1>3. MergersInv'
  <2>1. IsFiniteSet(used')
    BY <1>1, FS_AddElement DEF RowsInv, MergersInv
  <2>2. \A e \in Client : thr'[e].op = "merge" => thr'[e].id \in used'
    BY <1>1, <1>2 DEF RowsInv, MergersInv
  <2>3. ASSUME NEW d \in Client, NEW e \in Client, Waiting(d)', Waiting(e)', thr'[d].id = thr'[e].id
        PROVE  d = e
    <3>1. \A f \in Client : f # c /\ Waiting(f)' => Waiting(f) /\ thr[f].id \in used /\ thr'[f].id = thr[f].id
      BY <1>2 DEF Waiting, RowsInv, MergersInv
    <3>2. Waiting(c)' => thr'[c].id \notin used
      BY <1>1, <1>2 DEF Waiting
    <3> QED
      BY <2>3, <3>1, <3>2 DEF RowsInv, MergersInv
  <2> QED
    BY <2>1, <2>2, <2>3 DEF MergersInv
<1>4. ASSUME NEW e \in Client, Waiting(e)' PROVE thr'[e].id \notin Settled
  <2>1. CASE e = c
    BY <1>1, <1>2, <1>4, <2>1 DEF Waiting, Settled
  <2>2. CASE e # c
    BY <1>2, <1>4, <2>2 DEF Waiting, Settled
  <2> QED
    BY <2>1, <2>2
<1>5. \A e \in Client : thr'[e].data \in Known
  BY <1>2, DocumentsAre DEF Known
<1>6. (\A h \in Host : file'[h] \in Known) /\ s3' \in Known
  BY <1>1, DocumentsAre DEF disk
<1>7. used \subseteq used'
  BY <1>1
<1> QED
  BY <1>3, <1>4, <1>5, <1>6, <1>7, RowsMove

\* A merge adds its payload, which no document holds yet, to its document.
LEMMA MergeKeepsRows ==
  ASSUME TypeInv, RowsInv, NEW c \in Client, Merge(c)
  PROVE  RowsInv'
<1> DEFINE i == thr[c].id
           d == thr[c].data
<1>1. thr[c].op = "merge" /\ thr[c].pc = "apply" /\ used' = used /\ file' = file /\ s3' = s3
  BY DEF Merge, At, disk
<1>2. Waiting(c) /\ i \in used /\ i \in Id /\ used \subseteq Id /\ d \in Doc
  BY <1>1, HeldIsDoc DEF Waiting, Early, RowsInv, MergersInv, TypeInv, NotesInv
<1>3. /\ thr'[c].data = Merged(d, Payload[i]) /\ thr'[c].pc = "saveopen"
      /\ thr'[c].op = "merge" /\ thr'[c].id = i
      /\ \A e \in Client : e # c => thr'[e] = thr[e]
  BY <1>1, MergeTypes DEF Becomes, Applied
<1>4. MergersInv'
  <2>1. \A e \in Client : Waiting(e)' => Waiting(e) /\ thr'[e].id = thr[e].id
    BY <1>3 DEF Waiting, Early
  <2>2. \A e \in Client : thr'[e].op = "merge" => thr[e].op = "merge" /\ thr'[e].id = thr[e].id
    BY <1>1, <1>3
  <2> QED
    BY <1>1, <2>1, <2>2 DEF RowsInv, MergersInv
<1>5. i \notin Settled /\ Settled \subseteq Id /\ IsFiniteSet(Settled)
  <2>1. i \notin Settled /\ Settled \subseteq used
    BY <1>2 DEF Settled
  <2> QED
    BY <1>2, <2>1, FS_Subset DEF RowsInv, MergersInv
<1>6. Settled \cup {i} \subseteq Settled'
  <2>1. \A e \in Client : Waiting(e)' => Waiting(e) /\ thr'[e].id = thr[e].id /\ e # c
    BY <1>3 DEF Waiting, Early
  <2>2. \A e \in Client : Waiting(e)' => thr'[e].id # i
    BY <1>2, <2>1 DEF RowsInv, MergersInv
  <2> QED
    BY <1>1, <1>2, <2>1, <2>2 DEF Settled
<1>7. WholeRows(d, Settled)
  BY <1>2, DocAssumption DEF RowsInv, Documents
<1>8. WholeRows(Merged(d, Payload[i]), Settled')
  <2>1. WholeRows(Merged(d, Payload[i]), Settled \cup {i})
    BY <1>2, <1>5, <1>7, MergedIsWhole
  <2> QED
    BY <1>6, <2>1, WholeRowsStay
<1>9. ASSUME NEW x \in Documents' PROVE WholeRows(x, Settled')
  <2>1. CASE x \in Documents
    <3>1. Settled \subseteq Settled' /\ WholeRows(x, Settled)
      BY <1>6, <2>1 DEF RowsInv
    <3> QED
      BY <3>1, WholeRowsStay
  <2>2. CASE x \notin Documents
    <3>1. x = thr'[c].data
      BY <1>1, <1>3, <2>2 DEF Documents
    <3> QED
      BY <1>3, <1>8, <3>1
  <2> QED
    BY <2>1, <2>2
<1> QED
  BY <1>4, <1>9 DEF RowsInv

\* A delete leaves the rows of other buildings as they are.
LEMMA DropKeepsRows ==
  ASSUME TypeInv, RowsInv, NEW c \in Client, Drop(c)
  PROVE  RowsInv'
<1>1. thr[c].op = "delete" /\ used' = used /\ file' = file /\ s3' = s3 /\ thr[c].data \in Doc
  BY HeldIsDoc DEF Drop, disk
<1>2. PICK k : Becomes(c, thr'[c], "saveopen", Without(thr[c].data, k))
  BY DropTypes
<1>3. \A e \in Client : e # c => thr'[e] = thr[e]
  BY DropTypes
<1>4. \A e \in Client : (Waiting(e)' <=> Waiting(e)) /\ thr'[e].id = thr[e].id /\ thr'[e].op = thr[e].op
  BY <1>1, <1>2, <1>3 DEF Waiting, Becomes
<1>5. MergersInv' /\ Settled' = Settled
  BY <1>1, <1>4 DEF RowsInv, MergersInv, Settled
<1>6. WholeRows(Without(thr[c].data, k), Settled)
  <2>1. WholeRows(thr[c].data, Settled)
    BY <1>1, DocAssumption DEF RowsInv, Documents
  <2> QED
    BY <2>1, WithoutIsWhole
<1>7. \A x \in Documents' : x \in Documents \/ x = Without(thr[c].data, k)
  BY <1>1, <1>2, <1>3 DEF Documents, Becomes
<1> QED
  BY <1>5, <1>6, <1>7 DEF RowsInv

\* and a restart.
LEMMA RestartKeepsRows ==
  ASSUME TypeInv, RowsInv, NEW h \in Host, Restart(h)
  PROVE  RowsInv'
<1>1. \A c \in Client : Onward(c)
  BY RestartTypes, DocumentsAre DEF Onward
<1>2. used' = used /\ s3' = s3
  BY DEF Restart
<1>3. \A g \in Host : file'[g] \in Known
  BY DocumentsAre DEF Restart, TypeInv, DiskInv, Known
<1> QED
  BY <1>1, <1>2, <1>3, DocumentsAre, OnwardKeeps

\* Every step keeps RowsInv.
LEMMA RowsInvStays == TypeInv /\ RowsInv /\ [Next]_vars => RowsInv'
<1> SUFFICES ASSUME TypeInv, RowsInv, [Next]_vars PROVE RowsInv'
  OBVIOUS
<1>1. ASSUME NEW c \in Client, StartStep(c) \/ Step(c) PROVE RowsInv'
  BY <1>1, StartKeepsRows, StepKeepsRows, MergeKeepsRows, DropKeepsRows
<1>2. ASSUME NEW h \in Host, Restart(h) PROVE RowsInv'
  BY <1>2, RestartKeepsRows
<1>3. CASE UNCHANGED vars
  BY <1>3 DEF vars, RowsInv, MergersInv, Waiting, Settled, Documents
<1> QED
  BY <1>1, <1>2, <1>3 DEF Next, StartStep

\* RowsInv holds at first.
LEMMA RowsInvStarts == Init => RowsInv
<1> SUFFICES ASSUME Init PROVE RowsInv
  OBVIOUS
<1>1. MergersInv
  BY FS_EmptySet DEF Init, MergersInv, Waiting, Idle
<1>2. ASSUME NEW d \in Documents PROVE WholeRows(d, Settled)
  <2>1. \/ d \in InitialDocs \ {None}
        \/ d = Empty
    BY DEF Documents, Init, Idle
  <2>2. CASE d = Empty
    BY <2>2 DEF WholeRows, Empty
  <2>3. CASE d \in InitialDocs \ {None}
    <3> SUFFICES ASSUME NEW r \in DOMAIN d PROVE WholeRow(r, d[r], Settled)
      BY DEF WholeRows
    <3>1. d[r] \in Node
      BY <2>3, DocAssumption, DocIsFunction
    <3>2. SumsUp(d[r], d[r], {})
      BY <3>1, NoneSumsUp
    <3>3. {} \in SUBSET {i \in Settled : RowOf(Payload[i]) = r}
      OBVIOUS
    <3> QED
      BY <2>3, <3>2, <3>3 DEF WholeRow
  <2> QED
    BY <2>1, <2>2, <2>3
<1> QED
  BY <1>1, <1>2 DEF RowsInv

\* No merge counts a payload twice, or in some of a row's fields only.
THEOREM RowsAreSumsOfMerges == Spec => []RowsAreWholeMerges
<1>1. RowsInv => RowsAreWholeMerges
  <2> SUFFICES ASSUME RowsInv, NEW d \in Documents, NEW r \in DOMAIN d
               PROVE  \E S \in SUBSET {i \in used : RowOf(Payload[i]) = r} :
                        \/ \E b \in InitialDocs \ {None} : r \in DOMAIN b /\ SumsUp(d[r], b[r], S)
                        \/ \E i \in S : SumsUp(d[r], NewNode(Payload[i]), S)
    BY DEF RowsAreWholeMerges
  <2>1. WholeRow(r, d[r], Settled)
    BY DEF RowsInv, WholeRows
  <2>2. {i \in Settled : RowOf(Payload[i]) = r} \subseteq {i \in used : RowOf(Payload[i]) = r}
    BY DEF Settled
  <2> QED
    BY <2>1, <2>2 DEF WholeRow
<1> QED
  BY <1>1, InitTypes, NextTypes, RowsInvStarts, RowsInvStays, PTL DEF Spec

-----------------------------------------------------------------------------
(* Idle energy is not charged twice *)

\* What payloads hold.
LEMMA PayloadTypes ==
  ASSUME NEW i \in Id
  PROVE  /\ Payload[i].time \in Nat /\ Payload[i].idleTime \in Nat
         /\ Payload[i].minutes \in [WorkOrder -> Nat] /\ Summable(Payload[i].minutes)
<1>1. Payload[i] \in
        [building : Text, machine : Text, name : Text, energy : Text, idle : Nat, time : Nat,
         idleTime : Nat, minutes : [WorkOrder -> Nat], published : Nat]
  BY FactoryAssumption
<1>2. /\ Payload[i].time \in Nat /\ Payload[i].idleTime \in Nat
      /\ Payload[i].minutes \in [WorkOrder -> Nat]
  BY <1>1
<1> QED
  BY <1>2, WorkOrdersAssumption DEF Summable

\* A sum of fair windows is a fair window.
LEMMA SumsOfFairAreFair ==
  ASSUME Plausible, NEW n \in Node, NEW b \in Node, NEW S \in SUBSET Id, IsFiniteSet(S),
         SumsUp(n, b, S), Fair(b)
  PROVE  Fair(n)
<1> DEFINE Time(s) == b.time + SumFunction([j \in s |-> Payload[j].time])
           Rest(s) == b.idleTime + SumFunction([j \in s |-> Payload[j].idleTime])
           Busy(s) == [w \in WorkOrder |->
                         b.minutes[w] + SumFunction([j \in s |-> Payload[j].minutes[w]])]
           T == {s \in SUBSET S : /\ Time(s) \in Int /\ Rest(s) \in Int /\ Summable(Busy(s))
                                  /\ SumFunction(Busy(s)) + Rest(s) <= Time(s)}
<1>1. b.minutes \in [WorkOrder -> Nat] /\ b.time \in Nat /\ b.idleTime \in Nat
  BY DEF Node
<1>2. {} \in T
  <2>1. Time({}) = b.time
    <3>1. SumFunction([j \in {} |-> Payload[j].time]) = 0
      BY SumEmpty
    <3> QED
      BY <1>1, <3>1
  <2>2. Rest({}) = b.idleTime
    <3>1. SumFunction([j \in {} |-> Payload[j].idleTime]) = 0
      BY SumEmpty
    <3> QED
      BY <1>1, <3>1
  <2>3. Busy({}) = b.minutes
    <3>1. \A w \in WorkOrder : SumFunction([j \in {} |-> Payload[j].minutes[w]]) = 0
      BY SumEmpty
    <3> QED
      BY <1>1, <3>1
  <2>4. Summable(b.minutes)
    BY <1>1, WorkOrdersAssumption DEF Summable
  <2> HIDE DEF Time, Rest, Busy
  <2> QED
    BY <1>1, <2>1, <2>2, <2>3, <2>4 DEF Fair, Spent
<1>3. ASSUME NEW s \in SUBSET S, NEW i \in S, i \notin s, s \in T
      PROVE  With(s, i) \in T
  <2>1. s \in SUBSET Id /\ i \in Id /\ IsFiniteSet(s) /\ With(s, i) = s \cup {i}
    BY FS_Subset DEF With
  <2>2. /\ Time(With(s, i)) = Time(s) + Payload[i].time /\ Time(With(s, i)) \in Int
    <3> DEFINE F == [j \in Id |-> Payload[j].time]
    <3>1. /\ F \in [Id -> Nat] /\ F[i] = Payload[i].time
          /\ \A U \in SUBSET Id : [j \in U |-> F[j]] = [j \in U |-> Payload[j].time]
      BY <2>1, PayloadTypes
    <3> HIDE DEF F
    <3>2. /\ SumFunction([j \in s |-> F[j]]) \in Int
          /\ SumFunction([j \in s \cup {i} |-> F[j]]) = SumFunction([j \in s |-> F[j]]) + F[i]
      BY <1>3, <2>1, <3>1, OneMoreValue
    <3>3. /\ Time(s) = b.time + SumFunction([j \in s |-> F[j]])
          /\ Time(With(s, i)) = b.time + SumFunction([j \in s \cup {i} |-> F[j]])
      BY <2>1, <3>1
    <3>4. F[i] \in Nat
      BY <2>1, <3>1
    <3> HIDE DEF Time, T
    <3> QED
      BY <1>1, <3>1, <3>2, <3>3, <3>4
  <2>3. /\ Rest(With(s, i)) = Rest(s) + Payload[i].idleTime /\ Rest(With(s, i)) \in Int
    <3> DEFINE F == [j \in Id |-> Payload[j].idleTime]
    <3>1. /\ F \in [Id -> Nat] /\ F[i] = Payload[i].idleTime
          /\ \A U \in SUBSET Id : [j \in U |-> F[j]] = [j \in U |-> Payload[j].idleTime]
      BY <2>1, PayloadTypes
    <3> HIDE DEF F
    <3>2. /\ SumFunction([j \in s |-> F[j]]) \in Int
          /\ SumFunction([j \in s \cup {i} |-> F[j]]) = SumFunction([j \in s |-> F[j]]) + F[i]
      BY <1>3, <2>1, <3>1, OneMoreValue
    <3>3. /\ Rest(s) = b.idleTime + SumFunction([j \in s |-> F[j]])
          /\ Rest(With(s, i)) = b.idleTime + SumFunction([j \in s \cup {i} |-> F[j]])
      BY <2>1, <3>1
    <3>4. F[i] \in Nat
      BY <2>1, <3>1
    <3> HIDE DEF Rest, T
    <3> QED
      BY <1>1, <3>1, <3>2, <3>3, <3>4
  <2>4. ASSUME NEW w \in WorkOrder
        PROVE  /\ Busy(With(s, i))[w] = Busy(s)[w] + Payload[i].minutes[w]
               /\ Busy(With(s, i))[w] \in Int
    <3> DEFINE F == [j \in Id |-> Payload[j].minutes[w]]
    <3>1. /\ F \in [Id -> Nat] /\ F[i] = Payload[i].minutes[w]
          /\ \A U \in SUBSET Id : [j \in U |-> F[j]] = [j \in U |-> Payload[j].minutes[w]]
      BY <2>1, PayloadTypes
    <3> HIDE DEF F
    <3>2. /\ SumFunction([j \in s |-> F[j]]) \in Int
          /\ SumFunction([j \in s \cup {i} |-> F[j]]) = SumFunction([j \in s |-> F[j]]) + F[i]
      BY <1>3, <2>1, <3>1, OneMoreValue
    <3>3. /\ Busy(s)[w] = b.minutes[w] + SumFunction([j \in s |-> F[j]])
          /\ Busy(With(s, i))[w] = b.minutes[w] + SumFunction([j \in s \cup {i} |-> F[j]])
      BY <2>1, <3>1
    <3>4. F[i] \in Nat /\ b.minutes[w] \in Nat
      BY <1>1, <2>1, <3>1
    <3> HIDE DEF Busy, T
    <3> QED
      BY <3>1, <3>2, <3>3, <3>4
  <2>5. /\ DOMAIN Busy(s) = WorkOrder /\ DOMAIN Busy(With(s, i)) = WorkOrder
        /\ DOMAIN Payload[i].minutes = WorkOrder /\ Summable(Payload[i].minutes)
    BY <2>1, PayloadTypes
  <2> DEFINE f == Busy(s)
             h == Busy(With(s, i))
             g == Payload[i].minutes
  <2>6. Summable(f) /\ SumFunction(f) + Rest(s) <= Time(s) /\ Rest(s) \in Int /\ Time(s) \in Int
    BY <1>3
  <2> HIDE DEF Time, Rest, Busy, T
  <2>7. Summable(h)
    BY <2>4, <2>5, WorkOrdersAssumption DEF Summable
  <2>8. SumFunction(h) = SumFunction(f) + SumFunction(g)
    <3>1. \A w \in DOMAIN h : h[w] = f[w] + g[w]
      BY <2>4, <2>5
    <3>2. Summable(g) /\ DOMAIN f = DOMAIN h /\ DOMAIN g = DOMAIN h
      BY <2>5
    <3> HIDE DEF f, g, h
    <3> QED
      BY <2>6, <2>7, <3>1, <3>2, SumPlus
  <2>9. SumFunction(g) + Payload[i].idleTime <= Payload[i].time
    BY <2>1 DEF Plausible, Fair, Spent
  <2>10. SumFunction(f) \in Int /\ SumFunction(g) \in Int
    BY <2>5, <2>6, SumInt
  <2>11. Payload[i].idleTime \in Int /\ Payload[i].time \in Int
    BY <2>1, PayloadTypes
  <2>12. SumFunction(h) + Rest(With(s, i)) <= Time(With(s, i))
    <3> HIDE DEF f, g, h
    <3> QED
      BY <2>2, <2>3, <2>6, <2>8, <2>9, <2>10, <2>11
  <2>13. With(s, i) \in SUBSET S
    BY DEF With
  <2> QED
    BY <2>2, <2>3, <2>7, <2>12, <2>13 DEF T
<1>4. S \in T
  <2> HIDE DEF T
  <2> QED
    BY <1>2, <1>3, FiniteInduction
<1>5. n.time = Time(S) /\ n.idleTime = Rest(S)
  BY DEF SumsUp
<1>6. n.minutes = Busy(S)
  <2>1. n.minutes = [w \in WorkOrder |-> n.minutes[w]]
    BY DEF Node
  <2> QED
    BY <2>1 DEF SumsUp
<1> HIDE DEF Time, Rest, Busy
<1> QED
  BY <1>4, <1>5, <1>6 DEF Fair, Spent

\* A new row claims nothing.
LEMMA NewNodeIsFair == ASSUME NEW p PROVE Fair(NewNode(p))
<1> DEFINE f == [w \in WorkOrder |-> 0]
<1>1. Summable(f) /\ \A w \in DOMAIN f : f[w] = 0
  BY WorkOrdersAssumption DEF Summable
<1> HIDE DEF f
<1>2. SumFunction(f) = 0
  BY <1>1, SumZero
<1>3. NewNode(p).minutes = f /\ NewNode(p).idleTime = 0 /\ NewNode(p).time = 0
  BY DEF NewNode, f
<1> QED
  BY <1>2, <1>3 DEF Fair, Spent

\* So every row of every document is a fair window.
LEMMA RowsAreFair ==
  ASSUME TypeInv, RowsInv, Plausible, NEW d \in Doc, d \in Documents, NEW r \in DOMAIN d
  PROVE  Fair(d[r])
<1>1. PICK S \in SUBSET {i \in Settled : RowOf(Payload[i]) = r} :
        \/ \E b \in InitialDocs \ {None} : r \in DOMAIN b /\ SumsUp(d[r], b[r], S)
        \/ \E i \in S : SumsUp(d[r], NewNode(Payload[i]), S)
  BY DEF RowsInv, WholeRows, WholeRow
<1>2. S \in SUBSET Id /\ IsFiniteSet(S) /\ d[r] \in Node
  <2>1. S \subseteq used
    BY DEF Settled
  <2> QED
    BY <2>1, FS_Subset, DocIsFunction DEF RowsInv, MergersInv, TypeInv, NotesInv
<1>3. CASE \E b \in InitialDocs \ {None} : r \in DOMAIN b /\ SumsUp(d[r], b[r], S)
  <2>1. PICK b \in InitialDocs \ {None} : r \in DOMAIN b /\ SumsUp(d[r], b[r], S)
    BY <1>3
  <2>2. b[r] \in Node /\ Fair(b[r])
    BY <2>1, DocAssumption, DocIsFunction DEF Plausible
  <2> QED
    BY <1>2, <2>1, <2>2, SumsOfFairAreFair
<1>4. CASE \E i \in S : SumsUp(d[r], NewNode(Payload[i]), S)
  <2>1. PICK i \in S : SumsUp(d[r], NewNode(Payload[i]), S)
    BY <1>4
  <2>2. NewNode(Payload[i]) \in Node /\ Fair(NewNode(Payload[i]))
    BY <1>2, NewNodeIsNode, NewNodeIsFair
  <2> QED
    BY <1>2, <2>1, <2>2, SumsOfFairAreFair
<1> QED
  BY <1>1, <1>3, <1>4

\* The minutes a work order is charged for are those of one key of the row,
\* which belongs to no other work order.
LEMMA MinutesOfOneKey ==
  ASSUME NEW n \in Node, NEW w \in WorkOrder, Whole(w)
  PROVE  /\ Minutes(n, w) \in Nat
         /\ Minutes(n, w) > 0 =>
              \E x \in WorkOrder : Trim[x] = w /\ Minutes(n, w) = n.minutes[x]
<1> DEFINE same == {v \in WorkOrder : Trim[v] = Trim[w] /\ n.minutes[v] > 0}
<1>1. n.minutes \in [WorkOrder -> Nat] /\ Trim[w] = w
  BY DEF Node, Whole
<1>2. CASE w \in same
  BY <1>1, <1>2 DEF Minutes
<1>3. CASE w \notin same /\ same = {}
  BY <1>1, <1>3 DEF Minutes
<1>4. CASE w \notin same /\ same # {}
  <2>1. Minutes(n, w) = n.minutes[CHOOSE v \in same : TRUE]
    BY <1>1, <1>4 DEF Minutes
  <2>2. (CHOOSE v \in same : TRUE) \in same
    BY <1>4
  <2> QED
    BY <1>1, <2>1, <2>2
<1> QED
  BY <1>2, <1>3, <1>4

\* The minutes of all charged work orders are among those of the row.
LEMMA MinutesAreSpent ==
  ASSUME NEW n \in Node, NEW C \in SUBSET WorkOrder,
         \A w \in C : Whole(w) /\ Minutes(n, w) > 0
  PROVE  /\ Summable([w \in C |-> Minutes(n, w)])
         /\ SumFunction([w \in C |-> Minutes(n, w)]) \in Nat
         /\ SumFunction([w \in C |-> Minutes(n, w)]) <= Spent(n) /\ Spent(n) \in Nat
<1> DEFINE g   == [w \in C |-> Minutes(n, w)]
           key == [w \in C |-> CHOOSE x \in WorkOrder : Trim[x] = w /\ Minutes(n, w) = n.minutes[x]]
           K   == {key[w] : w \in C}
           f   == Restrict(n.minutes, K)
           rest == Restrict(n.minutes, WorkOrder \ K)
<1>1. n.minutes \in [WorkOrder -> Nat] /\ IsFiniteSet(C)
  BY WorkOrdersAssumption, FS_Subset DEF Node
<1>2. ASSUME NEW w \in C PROVE key[w] \in WorkOrder /\ Trim[key[w]] = w /\ g[w] = n.minutes[key[w]]
  <2>1. \E x \in WorkOrder : Trim[x] = w /\ Minutes(n, w) = n.minutes[x]
    BY MinutesOfOneKey
  <2> QED
    BY <2>1
<1>3. Summable(g) /\ \A w \in DOMAIN g : g[w] >= 0
  BY <1>1, MinutesOfOneKey DEF Summable
<1>4. Summable(n.minutes) /\ DOMAIN n.minutes = WorkOrder
  BY <1>1, WorkOrdersAssumption DEF Summable
<1> HIDE DEF key
<1>5. K \in SUBSET WorkOrder
  BY <1>2
<1>6. DOMAIN g = C
  OBVIOUS
<1> HIDE DEF g
<1>7. SumFunction(g) = SumFunction(f)
  <2>1. DOMAIN f = K /\ \A x \in K : f[x] = n.minutes[x]
    BY OfRestrict
  <2>2. Summable(f)
    BY <1>4, <1>5, RestrictSummable
  <2>3. \A w \in DOMAIN g : key[w] \in DOMAIN f /\ g[w] = f[key[w]]
    BY <1>2, <1>6, <2>1
  <2>4. \A w, v \in DOMAIN g : key[w] = key[v] => w = v
    BY <1>2, <1>6
  <2>5. \A x \in DOMAIN f : \E w \in DOMAIN g : key[w] = x
    BY <1>6, <2>1
  <2> HIDE DEF f, K
  <2> QED
    BY <1>3, <2>2, <2>3, <2>4, <2>5, SumReindex
<1>8. SumFunction(n.minutes) = SumFunction(f) + SumFunction(rest)
  <2> DEFINE L == WorkOrder \ K
  <2>1. L \in SUBSET WorkOrder /\ K \cup L = WorkOrder /\ K \cap L = {}
    BY <1>5
  <2> HIDE DEF K, L
  <2>2. SumFunction(n.minutes)
          = SumFunction(Restrict(n.minutes, K)) + SumFunction(Restrict(n.minutes, L))
    BY <1>4, <1>5, <2>1, SumSplit
  <2> QED
    BY <2>2 DEF L
<1>9. SumFunction(rest) \in Nat
  <2>1. WorkOrder \ K \in SUBSET WorkOrder
    OBVIOUS
  <2>2. Summable(rest)
    <3> DEFINE L == WorkOrder \ K
    <3>1. Summable(Restrict(n.minutes, L))
      <4> HIDE DEF L
      <4> QED
        BY <1>4, <2>1, RestrictSummable DEF L
    <3> QED
      BY <3>1
  <2>3. \A x \in DOMAIN rest : rest[x] >= 0
    BY <1>1, OfRestrict
  <2> HIDE DEF rest
  <2> QED
    BY <2>2, <2>3, SumNat
<1>10. SumFunction(g) \in Nat
  BY <1>3, SumNat
<1> HIDE DEF f, rest
<1> QED
  BY <1>3, <1>7, <1>8, <1>9, <1>10 DEF Spent, g

\* A work order with a share has minutes, in a row that produced something.
LEMMA AllocatedIs ==
  ASSUME NEW n \in Node, NEW w \in WorkOrder, Whole(w), Allocated(n, w)[1] > 0
  PROVE  /\ Allocated(n, w)[1] = n.idle * Minutes(n, w) /\ Allocated(n, w)[2] = Production(n)
         /\ Minutes(n, w) > 0 /\ Production(n) > 0
<1>1. ~(Minutes(n, w) = 0 \/ n.idle = 0 \/ Production(n) <= 0)
  BY DEF Allocated
<1>2. Minutes(n, w) \in Nat /\ n.idle \in Nat /\ Production(n) \in Int
  BY MinutesOfOneKey DEF Node, Production
<1>3. Allocated(n, w) = <<Minutes(n, w) * n.idle, Production(n)>>
  BY <1>1 DEF Allocated
<1>4. \A a, b \in Nat : a * b = b * a
  OBVIOUS
<1> QED
  BY <1>1, <1>2, <1>3, <1>4

\* The shares of a fair row are at most its idle energy.
LEMMA FairRowsShare ==
  ASSUME NEW n \in Node, Fair(n), NEW C \in SUBSET WorkOrder,
         \A w \in C : Whole(w) /\ Allocated(n, w)[1] > 0, NEW v \in C
  PROVE  SumFunction([w \in C |-> Allocated(n, w)[1]]) <= Allocated(n, v)[2] * n.idle
<1> DEFINE g == [w \in C |-> Minutes(n, w)]
           h == [w \in C |-> Allocated(n, w)[1]]
<1>1. \A w \in C : /\ h[w] = n.idle * g[w] /\ Minutes(n, w) > 0 /\ Production(n) > 0
  BY AllocatedIs
<1>2. /\ Summable(g) /\ SumFunction(g) \in Nat
      /\ SumFunction(g) <= Spent(n) /\ Spent(n) \in Nat
  BY <1>1, MinutesAreSpent
<1>3. DOMAIN g = C /\ DOMAIN h = C
  OBVIOUS
<1>4. n.idle \in Nat /\ n.time \in Nat /\ n.idleTime \in Nat
  BY DEF Node
<1> HIDE DEF g, h
<1>5. Summable(h)
  <2>1. \A x, y \in Int : x * y \in Int
    OBVIOUS
  <2>2. \A w \in C : h[w] \in Int
    BY <1>1, <1>2, <1>3, <1>4, <2>1 DEF Summable
  <2> QED
    BY <1>2, <1>3, <2>2 DEF Summable
<1>6. SumFunction(h) = n.idle * SumFunction(g)
  <2>1. \A w \in DOMAIN h : h[w] = n.idle * g[w]
    BY <1>1, <1>3
  <2>2. n.idle \in Int /\ DOMAIN h = DOMAIN g
    BY <1>3, <1>4
  <2> QED
    BY <1>2, <1>5, <2>1, <2>2, SumTimes
<1>7. SumFunction(g) <= Production(n) /\ Production(n) \in Nat
  <2>1. Spent(n) + n.idleTime <= n.time
    BY DEF Fair
  <2> QED
    BY <1>2, <1>4, <2>1 DEF Production
<1>8. \A a, b, c \in Nat : a <= b => c * a <= b * c
  OBVIOUS
<1>9. SumFunction(h) <= Production(n) * n.idle
  BY <1>2, <1>4, <1>6, <1>7, <1>8
<1>10. Allocated(n, v)[2] = Production(n)
  BY AllocatedIs
<1> QED
  BY <1>9, <1>10 DEF h

\* Whatever document a report meets, the work orders of a row are not charged
\* more than its idle energy together.
THEOREM IdleEnergyIsShared == Spec => []IdleIsNotOverallocated
<1>1. TypeInv /\ RowsInv => IdleIsNotOverallocated
  <2> SUFFICES ASSUME TypeInv, RowsInv, Plausible, NEW d \in ReportsRead, NEW r \in DOMAIN d,
                      NEW v \in {w \in WorkOrder : Whole(w) /\ Allocated(d[r], w)[1] > 0}
               PROVE  SumFunction([w \in {w \in WorkOrder : Whole(w) /\ Allocated(d[r], w)[1] > 0} |->
                                     Allocated(d[r], w)[1]])
                        <= Allocated(d[r], v)[2] * d[r].idle
    BY DEF IdleIsNotOverallocated
  <2>1. d \in Doc /\ d \in Documents
    BY HeldIsDoc, DocAssumption DEF ReportsRead, Documents
  <2>2. d[r] \in Node /\ Fair(d[r])
    BY <2>1, DocIsFunction, RowsAreFair
  <2> DEFINE C == {w \in WorkOrder : Whole(w) /\ Allocated(d[r], w)[1] > 0}
  <2>3. C \in SUBSET WorkOrder /\ v \in C /\ \A w \in C : Whole(w) /\ Allocated(d[r], w)[1] > 0
    OBVIOUS
  <2>4. SumFunction([w \in C |-> Allocated(d[r], w)[1]]) <= Allocated(d[r], v)[2] * d[r].idle
    <3> HIDE DEF C
    <3> QED
      BY <2>2, <2>3, FairRowsShare
  <2> QED
    BY <2>4
<1> QED
  BY <1>1, InitTypes, NextTypes, RowsInvStarts, RowsInvStays, PTL DEF Spec

-----------------------------------------------------------------------------
(* Every share is in one line of its report *)

\* The places are numbered.
LEMMA PlacesAre ==
  /\ Len(Places) \in Nat /\ DOMAIN Places = 1 .. Len(Places)
  /\ \A i, j \in 1 .. Len(Places) : Places[i] = Places[j] => i = j
  /\ \A r \in Row : \E i \in 1 .. Len(Places) : Places[i] = <<r[1], r[2]>>
<1>1. Len(Places) \in Nat /\ DOMAIN Places = 1 .. Len(Places)
  BY PlacesAssumption
<1> QED
  BY <1>1, PlacesAssumption

\* While there are fewer lines than places, the label of the next is a new one.
LEMMA LabelIsNew ==
  ASSUME NEW labels, IsFiniteSet(labels), Cardinality(labels) < Len(Places), NEW name, NEW p
  PROVE  LineLabel(labels, name, p) \notin labels
<1> DEFINE N == Len(Places)
           J == Join[p]
           Label3(i) == <<name, J, i>>
           B == {i \in 1 .. N : Label3(i) \notin labels}
<1>1. N \in Nat
  BY PlacesAre
<1>2. CASE <<name, p[1], 0>> \notin labels \/ <<name, J, 0>> \notin labels
  BY <1>2 DEF LineLabel
<1>3. CASE <<name, p[1], 0>> \in labels /\ <<name, J, 0>> \in labels
  <2>1. B # {}
    <3> SUFFICES ASSUME \A i \in 1 .. N : Label3(i) \in labels PROVE FALSE
      OBVIOUS
    <3> DEFINE S == 1 .. N
               f == [i \in S |-> Label3(i)]
    <3>1. IsFiniteSet(S) /\ Cardinality(S) = N
      BY <1>1, IntervalTo
    <3>2. f \in [S -> labels]
      OBVIOUS
    <3>3. \A x, y \in S : f[x] = f[y] => x = y
      OBVIOUS
    <3>5. Cardinality(labels) < Cardinality(S)
      BY <3>1
    <3> HIDE DEF f, S, N
    <3>4. \E x, y \in S : x # y /\ f[x] = f[y]
      BY <3>1, <3>2, <3>5, FS_PigeonHole
    <3> QED
      BY <3>3, <3>4
  <2>2. PICK m \in B : \A i \in B : m <= i
    <3>1. B \in SUBSET (0 .. N)
      BY <1>1
    <3> HIDE DEF B
    <3> QED
      BY <1>1, <2>1, <3>1, LeastNumber
  <2>3. m \in 1 .. N /\ <<name, J, m>> \notin labels
    BY <2>2
  <2>4. \A j \in 1 .. m - 1 : <<name, J, j>> \in labels
    BY <1>1, <2>2
  <2> DEFINE c == CHOOSE i \in 1 .. N : /\ <<name, J, i>> \notin labels
                                        /\ \A j \in 1 .. i - 1 : <<name, J, j>> \in labels
  <2>5. <<name, J, c>> \notin labels
    BY <2>3, <2>4
  <2>6. LineLabel(labels, name, p) = <<name, J, c>>
    BY <1>3 DEF LineLabel
  <2> HIDE DEF c
  <2> QED
    BY <2>5, <2>6
<1> QED
  BY <1>2, <1>3

\* The lines after the first k places.
UpTo(u, k, d, w, display) ==
  u = [i \in 0 .. k |->
         IF i = 0 THEN Empty
         ELSE WithLine(u[i - 1], ChargedAt(d, w, Places[i]),
                       LineLabel(DOMAIN u[i - 1], display[Places[i]], Places[i]))]

\* The recursion over the places defines them.
LEMMA LinesExist ==
  ASSUME NEW d, NEW w, NEW display
  PROVE  \E u : UpTo(u, Len(Places), d, w, display) /\ Lines(d, w, display) = u[Len(Places)]
<1> DEFINE N == Len(Places)
           Next1(x, i) == WithLine(x, ChargedAt(d, w, Places[i]),
                                   LineLabel(DOMAIN x, display[Places[i]], Places[i]))
           Upto(u, k) == u = [i \in 0 .. k |-> IF i = 0 THEN Empty ELSE Next1(u[i - 1], i)]
           T == {k \in 0 .. N : \E u : Upto(u, k)}
<1>1. N \in Nat
  BY PlacesAre
<1> HIDE DEF Next1
<1>2. 0 \in T
  <2> DEFINE u == [i \in 0 .. 0 |-> Empty]
  <2>1. u = [i \in 0 .. 0 |-> IF i = 0 THEN Empty ELSE Next1(u[i - 1], i)]
    OBVIOUS
  <2>2. Upto(u, 0)
    BY <2>1
  <2> HIDE DEF u, Upto
  <2>3. \E w1 : Upto(w1, 0)
    BY <2>2
  <2>4. 0 \in 0 .. N
    BY <1>1
  <2> QED
    BY <2>3, <2>4
<1>3. ASSUME NEW k \in 0 .. N, k < N, k \in T PROVE k + 1 \in T
  <2>1. PICK u : Upto(u, k)
    BY <1>3
  <2> DEFINE v == [i \in 0 .. k + 1 |-> IF i <= k THEN u[i] ELSE Next1(u[k], k + 1)]
             x == [i \in 0 .. k + 1 |-> IF i = 0 THEN Empty ELSE Next1(v[i - 1], i)]
  <2>2. ASSUME NEW i \in 0 .. k + 1 PROVE v[i] = x[i]
    <3>1. CASE i = 0
      BY <2>1, <3>1
    <3>2. CASE i # 0 /\ i <= k
      <4>1. i \in 0 .. k /\ i - 1 \in 0 .. k + 1 /\ i - 1 <= k
        BY <3>2
      <4>2. u[i] = Next1(u[i - 1], i)
        BY <2>1, <3>2, <4>1
      <4>3. v[i] = u[i] /\ v[i - 1] = u[i - 1] /\ x[i] = Next1(v[i - 1], i)
        BY <3>2, <4>1
      <4> QED
        BY <4>2, <4>3
    <3>3. CASE i = k + 1
      <4>1. v[i] = Next1(u[k], k + 1) /\ x[i] = Next1(v[i - 1], i) /\ i - 1 = k
        BY <3>3
      <4>2. v[k] = u[k]
        OBVIOUS
      <4> QED
        BY <3>3, <4>1, <4>2
    <3> QED
      BY <3>1, <3>2, <3>3
  <2>3. v = x
    <3>1. v = [i \in 0 .. k + 1 |-> v[i]] /\ x = [i \in 0 .. k + 1 |-> x[i]]
      OBVIOUS
    <3> HIDE DEF v, x
    <3> QED
      BY <2>2, <3>1
  <2>4. Upto(v, k + 1)
    BY <2>3
  <2>5. k + 1 \in 0 .. N
    BY <1>1, <1>3
  <2> HIDE DEF v, x, Upto
  <2> QED
    BY <2>4, <2>5
<1>4. N \in T
  <2>1. N \in 0 .. N
    BY <1>1
  <2> HIDE DEF T
  <2> QED
    BY <1>1, <1>2, <1>3, <2>1, NumberInduction
<1>5. Lines(d, w, display) = (CHOOSE u : Upto(u, N))[N]
  BY DEF Lines, Next1
<1>6. \E u : Upto(u, N)
  BY <1>4
<1>7. \A u : Upto(u, N) <=> UpTo(u, N, d, w, display)
  BY DEF UpTo, Next1
<1> HIDE DEF Upto
<1> QED
  BY <1>5, <1>6, <1>7

\* The rows of the first k places are in one line each, the others in none.
OneLineEach(done, k, d, w) ==
  /\ IsFiniteSet(DOMAIN done) /\ Cardinality(DOMAIN done) <= k
  /\ \A r \in Charged(d, w) :
       IF \E i \in 1 .. k : Places[i] = <<r[1], r[2]>>
       THEN \E l \in DOMAIN done : r \in done[l] /\ \A m \in DOMAIN done : r \in done[m] => m = l
       ELSE \A m \in DOMAIN done : r \notin done[m]

\* A place more.
LEMMA OneLineMore ==
  ASSUME NEW d, NEW w, NEW name, NEW k \in Nat, k + 1 \in 1 .. Len(Places), NEW done,
         OneLineEach(done, k, d, w)
  PROVE  OneLineEach(WithLine(done, ChargedAt(d, w, Places[k + 1]),
                              LineLabel(DOMAIN done, name, Places[k + 1])), k + 1, d, w)
<1> DEFINE p    == Places[k + 1]
           rows == ChargedAt(d, w, p)
           line == LineLabel(DOMAIN done, name, p)
           new  == WithLine(done, rows, line)
<1>1. line \notin DOMAIN done
  <2>1. IsFiniteSet(DOMAIN done) /\ Cardinality(DOMAIN done) \in Nat /\ Cardinality(DOMAIN done) <= k
    BY FS_CardinalityType DEF OneLineEach
  <2>2. Cardinality(DOMAIN done) < Len(Places)
    BY <2>1, PlacesAre
  <2> QED
    BY <2>1, <2>2, LabelIsNew
<1>2. \A r : r \in rows <=> r \in Charged(d, w) /\ <<r[1], r[2]>> = p
  BY DEF ChargedAt
<1>3. \A r \in Charged(d, w) :
        (\E i \in 1 .. k + 1 : Places[i] = <<r[1], r[2]>>)
          <=> (r \in rows \/ \E i \in 1 .. k : Places[i] = <<r[1], r[2]>>)
  BY <1>2
<1>4. \A r \in rows : ~\E i \in 1 .. k : Places[i] = <<r[1], r[2]>>
  <2> SUFFICES ASSUME NEW r \in rows, NEW i \in 1 .. k, Places[i] = <<r[1], r[2]>> PROVE FALSE
    OBVIOUS
  <2>1. Places[i] = Places[k + 1]
    BY <1>2
  <2>2. i \in 1 .. Len(Places) /\ i # k + 1
    BY PlacesAre
  <2> QED
    BY <2>1, <2>2, PlacesAre
<1> HIDE DEF line, rows
<1>5. CASE rows = {}
  <2>1. new = done
    BY <1>5 DEF WithLine
  <2>2. IsFiniteSet(DOMAIN done) /\ Cardinality(DOMAIN done) <= k + 1
    BY FS_CardinalityType DEF OneLineEach
  <2>3. OneLineEach(done, k + 1, d, w)
    BY <1>3, <1>5, <2>2 DEF OneLineEach
  <2> QED
    BY <2>1, <2>3 DEF line, rows
<1>6. CASE rows # {}
  <2>1. /\ DOMAIN new = DOMAIN done \cup {line} /\ new[line] = rows
        /\ \A l \in DOMAIN done : new[l] = done[l]
    BY <1>1, <1>6 DEF WithLine
  <2> HIDE DEF new
  <2>2. IsFiniteSet(DOMAIN new) /\ Cardinality(DOMAIN new) <= k + 1
    <3>1. IsFiniteSet(DOMAIN done) /\ Cardinality(DOMAIN done) <= k /\ Cardinality(DOMAIN done) \in Nat
      BY FS_CardinalityType DEF OneLineEach
    <3>2. /\ IsFiniteSet(DOMAIN done \cup {line})
          /\ Cardinality(DOMAIN done \cup {line}) = Cardinality(DOMAIN done) + 1
      BY <1>1, <3>1, FS_AddElement
    <3> QED
      BY <2>1, <3>1, <3>2
  <2>3. ASSUME NEW r \in Charged(d, w)
        PROVE  IF \E i \in 1 .. k + 1 : Places[i] = <<r[1], r[2]>>
               THEN \E l \in DOMAIN new : r \in new[l] /\ \A m \in DOMAIN new : r \in new[m] => m = l
               ELSE \A m \in DOMAIN new : r \notin new[m]
    <3>1. CASE r \in rows
      <4>1. \A m \in DOMAIN done : r \notin done[m]
        BY <1>4, <3>1 DEF OneLineEach
      <4>2. line \in DOMAIN new /\ r \in new[line] /\ \A m \in DOMAIN new : r \in new[m] => m = line
        BY <2>1, <3>1, <4>1
      <4> QED
        BY <1>3, <3>1, <4>2
    <3>2. CASE r \notin rows /\ \E i \in 1 .. k : Places[i] = <<r[1], r[2]>>
      <4>1. PICK l \in DOMAIN done : r \in done[l] /\ \A m \in DOMAIN done : r \in done[m] => m = l
        BY <3>2 DEF OneLineEach
      <4>2. l \in DOMAIN new /\ r \in new[l] /\ \A m \in DOMAIN new : r \in new[m] => m = l
        BY <2>1, <3>2, <4>1
      <4> QED
        BY <1>3, <3>2, <4>2
    <3>3. CASE r \notin rows /\ ~\E i \in 1 .. k : Places[i] = <<r[1], r[2]>>
      <4>1. \A m \in DOMAIN done : r \notin done[m]
        BY <3>3 DEF OneLineEach
      <4>2. \A m \in DOMAIN new : r \notin new[m]
        BY <2>1, <3>3, <4>1
      <4> QED
        BY <1>3, <3>3, <4>2
    <3> QED
      BY <3>1, <3>2, <3>3
  <2>4. OneLineEach(new, k + 1, d, w)
    BY <2>2, <2>3 DEF OneLineEach
  <2> QED
    BY <2>4 DEF new, line, rows
<1> QED
  BY <1>5, <1>6

\* The lines of a whole report.
LEMMA LinesAreOneEach ==
  ASSUME NEW d, NEW w, NEW display
  PROVE  OneLineEach(Lines(d, w, display), Len(Places), d, w)
<1> DEFINE N == Len(Places)
<1>1. PICK u : UpTo(u, N, d, w, display) /\ Lines(d, w, display) = u[N]
  BY LinesExist
<1> DEFINE T == {k \in 0 .. N : OneLineEach(u[k], k, d, w)}
<1>2. N \in Nat /\ N \in 0 .. N
  BY PlacesAre
<1>3. 0 \in T
  <2>1. u[0] = Empty /\ DOMAIN Empty = {}
    BY <1>1, <1>2 DEF UpTo, Empty
  <2>2. IsFiniteSet({}) /\ Cardinality({}) <= 0
    BY FS_EmptySet
  <2>3. OneLineEach(Empty, 0, d, w)
    BY <2>1, <2>2 DEF OneLineEach
  <2> QED
    BY <1>2, <2>1, <2>3
<1>4. ASSUME NEW k \in 0 .. N, k < N, k \in T PROVE k + 1 \in T
  <2>1. k \in Nat /\ k + 1 \in 1 .. N /\ k + 1 \in 0 .. N /\ k + 1 # 0 /\ (k + 1) - 1 = k
    BY <1>2, <1>4
  <2> DEFINE p == Places[k + 1]
             x == WithLine(u[k], ChargedAt(d, w, p), LineLabel(DOMAIN u[k], display[p], p))
  <2>2. u[k + 1] = x
    BY <1>1, <2>1 DEF UpTo
  <2>3. OneLineEach(u[k], k, d, w)
    BY <1>4
  <2>4. OneLineEach(x, k + 1, d, w)
    <3> DEFINE name == display[p]
    <3>1. \A z : OneLineEach(WithLine(u[k], ChargedAt(d, w, Places[k + 1]),
                                      LineLabel(DOMAIN u[k], z, Places[k + 1])), k + 1, d, w)
      BY <2>1, <2>3, OneLineMore
    <3> QED
      BY <3>1
  <2> QED
    BY <2>1, <2>2, <2>4
<1>5. N \in T
  <2> HIDE DEF T, N
  <2> QED
    BY <1>2, <1>3, <1>4, NumberInduction
<1> QED
  BY <1>1, <1>5

\* Every row with a share is in exactly one line of the report, whatever the
\* machines are called and whatever document the report meets.
THEOREM SharesAreInOneLine == Spec => []SharesReachTheReport
<1>1. TypeInv => SharesReachTheReport
  <2> SUFFICES ASSUME TypeInv, NEW d \in ReportsRead, NEW w \in WorkOrder,
                      NEW display \in Displays(d, w), NEW r \in Charged(d, w)
               PROVE  Cardinality({l \in DOMAIN Lines(d, w, display) :
                                     r \in Lines(d, w, display)[l]}) = 1
    BY DEF SharesReachTheReport
  <2> DEFINE lines == Lines(d, w, display)
  <2>1. OneLineEach(lines, Len(Places), d, w)
    BY LinesAreOneEach
  <2>2. \E i \in 1 .. Len(Places) : Places[i] = <<r[1], r[2]>>
    <3>1. d \in Doc
      BY HeldIsDoc DEF ReportsRead
    <3>2. r \in Row
      BY <3>1, DocIsFunction DEF Charged
    <3> QED
      BY <3>2, PlacesAre
  <2> HIDE DEF lines
  <2>3. PICK l \in DOMAIN lines : r \in lines[l] /\ \A m \in DOMAIN lines : r \in lines[m] => m = l
    BY <2>1, <2>2 DEF OneLineEach
  <2>4. {m \in DOMAIN lines : r \in lines[m]} = {l}
    BY <2>3
  <2>5. Cardinality({l}) = 1
    BY FS_Singleton
  <2> QED
    BY <2>4, <2>5 DEF lines
<1> QED
  BY <1>1, InitTypes, NextTypes, PTL DEF Spec
=============================================================================
