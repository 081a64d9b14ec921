-------------------------- MODULE JsonStoreProofs --------------------------
(***************************************************************************)
(* What holds of JsonStore for every set of instances, threads and         *)
(* records and every number of faults, and that it implements AtomicStore. *)
(***************************************************************************)
EXTENDS JsonStore, TLAPS

\* A thread that saves has a change to make, and a change names its record.
Purposeful ==
  \A c \in Client :
    /\ Changing(c) => thr[c].key \in Key
    /\ thr[c].pc \in {"saveopen", "savewrite", "s3put"} => Changing(c)

TypeInv == TypeOK /\ Purposeful

-----------------------------------------------------------------------------

\* TypeInv holds of the initial states.
LEMMA InitTypeInv == Init => TypeInv
  <1> SUFFICES ASSUME Init PROVE TypeInv
    OBVIOUS
  <1> USE ConstantsAssumption, NoneAssumption
  <1>1. PICK d \in Doc : kept = d /\ s3 = (IF mode = "s3" THEN d ELSE None)
                         /\ file = [h \in Host |-> IF mode = "s3" THEN None ELSE d]
    BY DEF Init
  <1>2. TypeOK
    BY <1>1 DEF Init, TypeOK, Doc
  <1>3. Purposeful
    BY DEF Init, Purposeful, Changing, Idle
  <1> QED BY <1>2, <1>3 DEF TypeInv

Threads == [Client -> {Idle} \cup Request]

\* Forgetting promised keys leaves an idle thread idle and a request a request.
LEMMA OwedKeepsType ==
  ASSUME NEW r \in {Idle} \cup Request, NEW ks \in Doc, r = Idle => ks = {}
  PROVE  [r EXCEPT !.owed = ks] \in {Idle} \cup Request
  <1>1. CASE r = Idle
    BY <1>1 DEF Idle
  <1>2. CASE r \in Request
    BY <1>2 DEF Request
  <1> QED BY <1>1, <1>2

\* A thread under way serves a request; only its place and its document change.
LEMMA MoveKeepsType ==
  ASSUME thr \in Threads, NEW c \in Client, ~At(c, "idle"), NEW l \in Pc, NEW d \in Doc,
         NEW ks \in Doc
  PROVE  /\ thr[c] \in Request
         /\ [thr EXCEPT ![c].pc = l] \in Threads
         /\ [thr EXCEPT ![c].pc = l, ![c].data = d] \in Threads
         /\ [thr EXCEPT ![c].pc = l, ![c].data = d, ![c].owed = ks] \in Threads
  <1>1. thr[c] \in Request
    BY DEF Threads, At, Idle
  <1>2. [thr[c] EXCEPT !.pc = l] \in Request
    BY <1>1 DEF Request
  <1>3. [thr[c] EXCEPT !.pc = l, !.data = d] \in Request
    BY <1>1 DEF Request
  <1>4. [thr[c] EXCEPT !.pc = l, !.data = d, !.owed = ks] \in Request
    BY <1>1 DEF Request
  <1> QED BY <1>1, <1>2, <1>3, <1>4 DEF Threads

\* A request arrives.
LEMMA BeginTypeInv ==
  ASSUME TypeInv, NEW c \in Client, NEW o \in {"get", "put", "delete"},
         NEW k \in {None} \cup Key, Begin(c, o, k)
  PROVE  TypeInv'
  <1> DEFINE Unclaimed(ks) == IF o = "delete" THEN ks \ {k} ELSE ks
             new == [pc |-> IF UsesS3 THEN "s3get" ELSE "fileread", op |-> o, key |-> k,
                     data |-> {}, owed |-> Unclaimed(kept)]
  <1>1. /\ thr' = [d \in Client |-> IF d = c THEN new
                                    ELSE [thr[d] EXCEPT !.owed = Unclaimed(@)]]
        /\ kept' = Unclaimed(kept)
        /\ gone' = (IF o = "put" THEN gone \ {k} ELSE gone)
        /\ UNCHANGED <<mode, store, faults>>
    BY DEF Begin
  <1>2. new \in Request
    BY DEF TypeInv, TypeOK, Request, Pc, Doc
  <1>3. thr' \in Threads
    <2> SUFFICES ASSUME NEW d \in Client, d # c
                 PROVE  [thr[d] EXCEPT !.owed = Unclaimed(@)] \in {Idle} \cup Request
      BY <1>1, <1>2 DEF Threads
    <2>1. thr[d] \in {Idle} \cup Request
      BY DEF TypeInv, TypeOK
    <2>2. thr[d].owed \in Doc /\ (thr[d] = Idle => thr[d].owed = {})
      BY <2>1 DEF Idle, Request, Doc
    <2> QED BY <2>1, <2>2, OwedKeepsType DEF Doc
  <1>4. TypeOK'
    BY <1>1, <1>3 DEF TypeInv, TypeOK, Threads, Doc, store, faults
  <1>5. Purposeful'
    <2> SUFFICES ASSUME NEW d \in Client
                 PROVE  /\ thr'[d].op # "get" => thr'[d].key \in Key
                        /\ thr'[d].pc \in {"saveopen", "savewrite", "s3put"} => thr'[d].op # "get"
      BY DEF Purposeful, Changing
    <2>1. CASE d = c
      BY <1>1, <2>1 DEF Begin, Accepts
    <2>2. CASE d # c
      <3>1. thr'[d] = [thr[d] EXCEPT !.owed = Unclaimed(@)]
        BY <1>1, <2>2
      <3>2. thr'[d].op = thr[d].op /\ thr'[d].key = thr[d].key /\ thr'[d].pc = thr[d].pc
        BY <3>1 DEF TypeInv, TypeOK, Request, Idle
      <3> QED BY <3>2 DEF TypeInv, Purposeful, Changing
    <2> QED BY <2>1, <2>2
  <1> QED BY <1>4, <1>5 DEF TypeInv

\* Every step that moves one thread on, or ends its request, keeps Purposeful
\* when it gives a saving place to a changing request only.
LEMMA MovePurposeful ==
  ASSUME TypeInv, NEW c \in Client,
         \A d \in Client \ {c} : thr'[d] = thr[d],
         \/ thr'[c] = Idle
         \/ /\ thr'[c].op = thr[c].op /\ thr'[c].key = thr[c].key
            /\ thr'[c].pc \in {"saveopen", "savewrite", "s3put"} => Changing(c)
  PROVE  Purposeful'
  <1> SUFFICES ASSUME NEW d \in Client
               PROVE  /\ thr'[d].op # "get" => thr'[d].key \in Key
                      /\ thr'[d].pc \in {"saveopen", "savewrite", "s3put"} => thr'[d].op # "get"
    BY DEF Purposeful, Changing
  <1>1. CASE d # c
    BY <1>1 DEF TypeInv, Purposeful, Changing
  <1>2. CASE d = c
    BY <1>2 DEF TypeInv, Purposeful, Changing, Idle
  <1> QED BY <1>1, <1>2

\* load(), Answer and Apply: no file, and no answer to a changing request.
LEMMA LoadTypeInv ==
  ASSUME TypeInv, NEW c \in Client,
         \/ S3Get(c) \/ S3Miss(c) \/ S3GetFails(c) \/ FileRead(c) \/ FileGarbled(c)
         \/ Push(c) \/ PushFails(c) \/ Answer(c) \/ Apply(c)
  PROVE  TypeInv'
  <1> USE ConstantsAssumption, NoneAssumption
  <1>t. thr \in Threads /\ s3 \in {None} \cup Doc /\ LocalFile(c) \in {None, Garbled} \cup Doc
    BY DEF TypeInv, TypeOK, Threads, LocalFile
  <1>n. ~At(c, "idle")
    BY DEF S3Get, S3Miss, S3GetFails, FileRead, FileGarbled, Push, PushFails, Answer, Apply, At
  <1>d. thr[c] \in Request /\ thr[c].data \in Doc /\ thr[c].op \in {"get", "put", "delete"}
    BY <1>t, <1>n, MoveKeepsType DEF Request, Pc, Doc
  <1>1. thr' \in Threads /\ Purposeful'
    <2>1. CASE S3Get(c)
      <3> DEFINE new == [thr EXCEPT ![c].pc = "pullopen", ![c].data = s3]
      <3>1. thr' = new /\ s3 \in Doc
        BY <2>1, <1>t DEF S3Get
      <3>2. thr' \in Threads
        BY <3>1, <1>t, <1>n, MoveKeepsType DEF Pc, Doc
      <3> QED BY <3>1, <3>2, <1>t, <1>d, MovePurposeful DEF Threads, Request
    <2>2. CASE S3Miss(c) \/ S3GetFails(c)
      <3>1. thr' = [thr EXCEPT ![c].pc = "fileread"]
        BY <2>2 DEF S3Miss, S3GetFails, Goto
      <3>2. thr' \in Threads
        BY <3>1, <1>t, <1>n, MoveKeepsType DEF Pc, Doc
      <3> QED BY <3>1, <3>2, <1>t, <1>d, MovePurposeful DEF Threads, Request
    <2>3. CASE FileRead(c)
      <3> DEFINE d == Readable(LocalFile(c))
                 l == IF UsesS3 /\ d # {} THEN "push" ELSE "apply"
      <3>1. thr' = [thr EXCEPT ![c].pc = l, ![c].data = d] /\ d \in Doc /\ l \in Pc
        BY <2>3, <1>t DEF FileRead, Readable, Doc, Pc, Threads
      <3>2. thr' \in Threads
        BY <3>1, <1>t, <1>n, MoveKeepsType DEF Pc, Doc
      <3> QED BY <3>1, <3>2, <1>t, <1>d, MovePurposeful DEF Threads, Request
    <2>4. CASE Push(c) \/ PushFails(c)
      <3>1. thr' = [thr EXCEPT ![c].pc = "apply"]
        BY <2>4 DEF Push, PushFails, Goto
      <3>2. thr' \in Threads
        BY <3>1, <1>t, <1>n, MoveKeepsType DEF Pc, Doc
      <3> QED BY <3>1, <3>2, <1>t, <1>d, MovePurposeful DEF Threads, Request
    <2>5. CASE Answer(c) \/ FileGarbled(c)
      <3>1. thr' = [thr EXCEPT ![c] = Idle]
        BY <2>5 DEF Answer, FileGarbled, End
      <3>2. thr' \in Threads
        BY <3>1, <1>t DEF Threads
      <3> QED BY <3>1, <3>2, <1>t, MovePurposeful DEF Threads
    <2>6. CASE Apply(c)
      <3> DEFINE d == Changed(c)
      <3>1. /\ thr' = [thr EXCEPT ![c].pc = "saveopen", ![c].data = d, ![c].owed = {}]
            /\ Changing(c)
        BY <2>6, <1>d DEF Apply, NoSave, Changing
      <3>2. thr[c].key \in Key /\ d \in Doc
        BY <3>1, <1>d DEF TypeInv, Purposeful, Changed, Doc
      <3>3. thr' \in Threads
        BY <3>1, <3>2, <1>t, <1>n, MoveKeepsType DEF Pc, Doc
      <3> QED BY <3>1, <3>3, <1>t, <1>d, MovePurposeful DEF Threads, Request
    <2> QED BY <2>1, <2>2, <2>3, <2>4, <2>5, <2>6
  <1>2. TypeOK'
    <2>1. s3' \in {None} \cup Doc
      BY <1>t, <1>d DEF S3Get, S3Miss, S3GetFails, FileRead, FileGarbled, Push, PushFails, Answer, Apply, store
    <2>2. /\ s3Faults' \in Nat /\ diskFaults' \in Nat /\ crashes' \in Nat
          /\ s3Faults' + diskFaults' + crashes' \leq MaxFaults
      BY DEF S3Get, S3Miss, S3GetFails, FileRead, FileGarbled, Push, PushFails, Answer, Apply, S3Fault,
             FaultLeft, faults, TypeInv, TypeOK
    <2>3. UNCHANGED <<mode, file, raced, kept, gone>>
      BY DEF S3Get, S3Miss, S3GetFails, FileRead, FileGarbled, Push, PushFails, Answer, Apply, store, told
    <2> QED BY <1>1, <2>1, <2>2, <2>3 DEF TypeInv, TypeOK, Threads
  <1> QED BY <1>1, <1>2 DEF TypeInv

\* The end of a load or of a save, after the local write.
LEMMA AfterLocalWriteType ==
  ASSUME TypeInv, NEW c \in Client, AfterLocalWrite(c)
  PROVE  thr' \in Threads /\ Purposeful' /\ kept' \in Doc /\ gone' \in Doc
  <1>t. thr \in Threads /\ kept \in Doc /\ gone \in Doc
    BY DEF TypeInv, TypeOK, Threads
  <1>n. ~At(c, "idle")
    BY DEF AfterLocalWrite, At
  <1>d. thr[c] \in Request
    BY <1>t, <1>n, MoveKeepsType DEF Pc, Doc
  <1>1. ASSUME NEW l \in {"apply", "s3put"}, Goto(c, l), UNCHANGED told,
               l = "s3put" => Changing(c)
        PROVE  thr' \in Threads /\ Purposeful' /\ kept' \in Doc /\ gone' \in Doc
    <2>1. thr' = [thr EXCEPT ![c].pc = l]
      BY <1>1 DEF Goto
    <2>2. thr' \in Threads
      BY <2>1, <1>t, <1>n, MoveKeepsType DEF Pc, Doc
    <2> QED BY <1>1, <2>1, <2>2, <1>t, <1>d, MovePurposeful DEF Threads, Request, told
  <1>2. ASSUME Acknowledge(c), Changing(c)
        PROVE  thr' \in Threads /\ Purposeful' /\ kept' \in Doc /\ gone' \in Doc
    <2>1. thr' = [thr EXCEPT ![c] = Idle]
      BY <1>2 DEF Acknowledge, End
    <2>2. thr' \in Threads
      BY <2>1, <1>t DEF Threads
    <2>3. thr[c].key \in Key
      BY <1>2 DEF TypeInv, Purposeful
    <2> QED BY <1>2, <2>1, <2>2, <2>3, <1>t, MovePurposeful DEF Threads, Acknowledge, Doc
  <1>3. thr[c].pc \in {"saveopen", "savewrite"} => Changing(c)
    BY DEF TypeInv, Purposeful
  <1> QED BY <1>1, <1>2, <1>3 DEF AfterLocalWrite

\* _write_local and _write_s3.
LEMMA SaveTypeInv ==
  ASSUME TypeInv, NEW c \in Client,
         OpenFile(c) \/ CloseFile(c) \/ DiskFails(c) \/ S3Put(c) \/ S3PutFails(c)
  PROVE  TypeInv'
  <1> USE ConstantsAssumption, NoneAssumption
  <1>t. /\ thr \in Threads /\ s3 \in {None} \cup Doc /\ LocalFile(c) \in {None, Garbled} \cup Doc
        /\ kept \in Doc /\ gone \in Doc
    BY DEF TypeInv, TypeOK, Threads, LocalFile
  <1>n. ~At(c, "idle")
    BY DEF OpenFile, CloseFile, DiskFails, S3Put, S3PutFails, Writing, At
  <1>d. thr[c] \in Request /\ thr[c].data \in Doc
    BY <1>t, <1>n, MoveKeepsType DEF Request, Pc, Doc
  <1>p. thr[c].pc \in {"saveopen", "savewrite", "s3put"} => Changing(c) /\ thr[c].key \in Key
    BY DEF TypeInv, Purposeful
  <1>1. CASE OpenFile(c)
    <2> DEFINE l == IF At(c, "pullopen") THEN "pullwrite" ELSE "savewrite"
    <2>1. thr' = [thr EXCEPT ![c].pc = l] /\ l \in Pc /\ (l = "savewrite" => Changing(c))
      BY <1>1, <1>p DEF OpenFile, Goto, At, Pc
    <2>2. thr' \in Threads
      BY <2>1, <1>t, <1>n, MoveKeepsType DEF Doc
    <2>3. Purposeful'
      BY <2>1, <2>2, <1>t, <1>d, MovePurposeful DEF Threads, Request
    <2>4. raced' \subseteq Client
      BY <1>1 DEF OpenFile, Others, TypeInv, TypeOK
    <2> QED BY <1>1, <2>2, <2>3, <2>4 DEF OpenFile, TypeInv, TypeOK, Threads, faults, told
  <1>2. CASE CloseFile(c)
    <2>1. thr' \in Threads /\ Purposeful' /\ kept' \in Doc /\ gone' \in Doc
      BY <1>2, AfterLocalWriteType DEF CloseFile
    <2>2. file' \in [Host -> {None, Garbled} \cup Doc]
      BY <1>2, <1>t, <1>d DEF CloseFile, TypeInv, TypeOK
    <2> QED BY <1>2, <2>1, <2>2 DEF CloseFile, TypeInv, TypeOK, Threads, faults
  <1>3. CASE DiskFails(c)
    <2>1. thr' \in Threads /\ Purposeful' /\ kept' \in Doc /\ gone' \in Doc
      <3>1. CASE AfterLocalWrite(c)
        BY <3>1, AfterLocalWriteType
      <3>2. CASE End(c) /\ UNCHANGED told
        <4>1. thr' = [thr EXCEPT ![c] = Idle]
          BY <3>2 DEF End
        <4>2. thr' \in Threads
          BY <4>1, <1>t DEF Threads
        <4> QED BY <3>2, <4>1, <4>2, <1>t, MovePurposeful DEF Threads, told
      <3> QED BY <1>3, <3>1, <3>2 DEF DiskFails
    <2>2. file' \in [Host -> {None, Garbled} \cup Doc]
      BY <1>3, <1>t DEF DiskFails, CutShort, LocalFile, TypeInv, TypeOK
    <2> QED BY <1>3, <2>1, <2>2 DEF DiskFails, FaultLeft, TypeInv, TypeOK, Threads
  <1>4. CASE S3Put(c) \/ S3PutFails(c)
    <2>1. Acknowledge(c) /\ At(c, "s3put")
      BY <1>4 DEF S3Put, S3PutFails
    <2>2. thr' = [thr EXCEPT ![c] = Idle]
      BY <2>1 DEF Acknowledge, End
    <2>3. thr' \in Threads
      BY <2>2, <1>t DEF Threads
    <2>4. Purposeful'
      BY <2>2, <2>3, <1>t, MovePurposeful DEF Threads
    <2>5. kept' \in Doc /\ gone' \in Doc
      BY <2>1, <1>p, <1>t DEF Acknowledge, At, Doc
    <2>6. /\ s3Faults' \in Nat /\ diskFaults' \in Nat /\ crashes' \in Nat
          /\ s3Faults' + diskFaults' + crashes' \leq MaxFaults
      BY <1>4 DEF S3Put, S3PutFails, S3Fault, FaultLeft, faults, TypeInv, TypeOK
    <2>7. s3' \in {None} \cup Doc /\ UNCHANGED <<mode, file, raced>>
      BY <1>4, <1>t, <1>d DEF S3Put, S3PutFails
    <2> QED BY <2>3, <2>4, <2>5, <2>6, <2>7 DEF TypeInv, TypeOK, Threads
  <1> QED BY <1>1, <1>2, <1>3, <1>4

\* An instance dies.
LEMMA CrashTypeInv ==
  ASSUME TypeInv, NEW h \in Host, Crash(h)
  PROVE  TypeInv'
  <1> USE ConstantsAssumption, NoneAssumption
  <1>1. thr' \in Threads
    BY DEF Crash, TypeInv, TypeOK, Threads
  <1>2. Purposeful'
    BY DEF Crash, TypeInv, Purposeful, Changing, Idle
  <1>3. file' \in [Host -> {None, Garbled} \cup Doc]
    BY DEF Crash, CutShort, TypeInv, TypeOK
  <1>4. crashes' \in Nat /\ s3Faults + diskFaults + crashes' \leq MaxFaults
    BY DEF Crash, FaultLeft, TypeInv, TypeOK
  <1>5. raced' \subseteq Client
    BY DEF Crash, TypeInv, TypeOK
  <1> QED BY <1>1, <1>2, <1>3, <1>4, <1>5 DEF Crash, TypeInv, TypeOK, Threads, told

\* Every step keeps TypeInv.
LEMMA NextTypeInv == TypeInv /\ [Next]_vars => TypeInv'
  <1> SUFFICES ASSUME TypeInv, [Next]_vars PROVE TypeInv'
    OBVIOUS
  <1>1. CASE UNCHANGED vars
    BY <1>1 DEF vars, store, faults, told, TypeInv, TypeOK, Purposeful, Changing
  <1>2. CASE Next
    BY <1>2, BeginTypeInv, LoadTypeInv, SaveTypeInv, CrashTypeInv DEF Next
  <1> QED BY <1>1, <1>2

\* json_store.py keeps the types of its state: the local files and the object
\* are documents or nothing, a thread holds a document, a change has a record.
THEOREM TypeCorrect == Spec => []TypeOK
  <1>1. TypeInv => TypeOK
    BY DEF TypeInv
  <1> QED BY InitTypeInv, NextTypeInv, <1>1, PTL DEF Spec

-----------------------------------------------------------------------------
(***************************************************************************)
(* Durability, when changes do not overlap and the bucket answers: why the *)
(* object never loses what a caller was told.                              *)
(***************************************************************************)

Calm   == mode = "s3" /\ s3Faults = 0
Loaded == {"pullopen", "pullwrite", "apply"}
Saving == {"saveopen", "savewrite", "s3put"}

\* The object as the request of c will have changed it.
Saved(c) == IF thr[c].op = "put" THEN s3 \cup {thr[c].key} ELSE s3 \ {thr[c].key}

\* No thread falls back on its local file; what a changing thread loaded is
\* still the object, and what it saves is the object with its one change;
\* what a thread was promised is in the object, then in its hands.
Fits(c) ==
  /\ thr[c].pc \notin {"fileread", "push"}
  /\ thr[c].op = "put" => thr[c].key \notin gone
  /\ thr[c].op = "delete" => thr[c].key \notin kept
  /\ Changing(c) /\ thr[c].pc \in Loaded => thr[c].data = s3
  /\ thr[c].pc \in Saving => thr[c].data = Saved(c) /\ thr[c].owed = {}
  /\ thr[c].pc = "s3get" => thr[c].owed \subseteq s3
  /\ thr[c].pc \in Loaded => thr[c].owed \subseteq thr[c].data

OneWriter == \A c, d \in Client : Changing(c) /\ Changing(d) => c = d

\* A record about to be deleted is promised to no one.
NotPromised == \A c, d \in Client : thr[d].op = "delete" => thr[d].key \notin thr[c].owed

Told == s3 # None /\ kept \subseteq s3 /\ gone \cap s3 = {}

DurableInv == Calm => Told /\ OneWriter /\ NotPromised /\ \A c \in Client : Fits(c)

\* A step that leaves the object and the promises alone needs a look at the
\* thread that takes it only.
LEMMA QuietStep ==
  ASSUME DurableInv, Calm, NEW c \in Client, UNCHANGED <<s3, kept, gone>>,
         \A d \in Client \ {c} : thr'[d] = thr[d],
         \/ thr'[c] = Idle
         \/ /\ thr'[c].op = thr[c].op /\ thr'[c].key = thr[c].key
            /\ thr'[c].owed \subseteq thr[c].owed
            /\ Fits(c)'
  PROVE  DurableInv'
  <1>1. Told'
    BY DEF DurableInv, Told
  <1>2. OneWriter' /\ NotPromised'
    BY DEF DurableInv, OneWriter, NotPromised, Changing, Idle
  <1>3. ASSUME NEW d \in Client PROVE Fits(d)'
    <2>1. CASE d # c
      BY <2>1 DEF DurableInv, Fits, Saved, Changing
    <2>2. CASE d = c
      BY <2>2 DEF Fits, Idle, Changing, Loaded, Saving
    <2> QED BY <2>1, <2>2
  <1> QED BY <1>1, <1>2, <1>3 DEF DurableInv

\* The initial promises are the records of the object.
LEMMA InitDurable == Init => DurableInv
  <1> SUFFICES ASSUME Init, Calm PROVE Told /\ OneWriter /\ NotPromised /\ \A c \in Client : Fits(c)
    BY DEF DurableInv
  <1>1. Told
    BY NoneAssumption DEF Init, Calm, Told
  <1>2. OneWriter /\ NotPromised /\ \A c \in Client : Fits(c)
    BY DEF Init, OneWriter, NotPromised, Fits, Changing, Idle, Loaded, Saving
  <1> QED BY <1>1, <1>2

\* A request arrives: SingleWriter keeps a second change out.
LEMMA BeginDurable ==
  ASSUME SingleWriter, TypeInv, DurableInv, NEW c \in Client, NEW o \in {"get", "put", "delete"},
         NEW k \in {None} \cup Key, Begin(c, o, k)
  PROVE  DurableInv'
  <1> SUFFICES ASSUME Calm PROVE DurableInv'
    BY DEF DurableInv, Begin, Calm, faults
  <1> DEFINE Unclaimed(ks) == IF o = "delete" THEN ks \ {k} ELSE ks
             new == [pc |-> "s3get", op |-> o, key |-> k, data |-> {}, owed |-> Unclaimed(kept)]
  <1>1. /\ thr' = [d \in Client |-> IF d = c THEN new
                                    ELSE [thr[d] EXCEPT !.owed = Unclaimed(@)]]
        /\ kept' = Unclaimed(kept)
        /\ gone' = (IF o = "put" THEN gone \ {k} ELSE gone)
        /\ s3' = s3
    BY DEF Begin, UsesS3, Calm, store
  <1>2. o # "get" => \A d \in Client : ~Changing(d)
    BY DEF Begin, Accepts
  <1>3. ASSUME NEW d \in Client, d # c
        PROVE  /\ thr'[d].pc = thr[d].pc /\ thr'[d].op = thr[d].op
               /\ thr'[d].key = thr[d].key /\ thr'[d].data = thr[d].data
               /\ thr'[d].owed = Unclaimed(thr[d].owed)
    <2>1. thr[d] \in {Idle} \cup Request /\ thr'[d] = [thr[d] EXCEPT !.owed = Unclaimed(@)]
      BY <1>1, <1>3 DEF TypeInv, TypeOK
    <2> QED BY <2>1 DEF Request, Idle
  <1>4. Told'
    BY <1>1 DEF DurableInv, Told
  <1>5. OneWriter'
    BY <1>1, <1>2, <1>3 DEF DurableInv, OneWriter, Changing
  <1>6. NotPromised'
    BY <1>1, <1>2, <1>3 DEF DurableInv, NotPromised, Changing, Fits
  <1>7. ASSUME NEW d \in Client PROVE Fits(d)'
    <2>1. CASE d = c
      BY <1>1, <2>1 DEF DurableInv, Told, Fits, Changing, Loaded, Saving
    <2>2. CASE d # c
      <3>1. Fits(d)
        BY DEF DurableInv
      <3>2. kept' \subseteq kept /\ gone' \subseteq gone /\ s3' = s3
        BY <1>1
      <3>3. /\ thr'[d].pc = thr[d].pc /\ thr'[d].op = thr[d].op
            /\ thr'[d].key = thr[d].key /\ thr'[d].data = thr[d].data
            /\ thr'[d].owed \subseteq thr[d].owed
        BY <1>3, <2>2
      <3> QED BY <3>1, <3>2, <3>3 DEF Fits, Changing, Saved
    <2> QED BY <2>1, <2>2
  <1> QED BY <1>4, <1>5, <1>6, <1>7 DEF DurableInv

\* load(), Answer and Apply only hand the object over.
LEMMA LoadDurable ==
  ASSUME TypeInv, DurableInv, NEW c \in Client,
         \/ S3Get(c) \/ S3Miss(c) \/ S3GetFails(c) \/ FileRead(c) \/ FileGarbled(c)
         \/ Push(c) \/ PushFails(c) \/ Answer(c) \/ Apply(c)
  PROVE  DurableInv'
  <1> SUFFICES ASSUME Calm' PROVE DurableInv'
    BY DEF DurableInv
  <1>c. Calm /\ ~S3Fault("read") /\ ~S3Fault("write")
    BY DEF S3Get, S3Miss, S3GetFails, FileRead, FileGarbled, Push, PushFails, Answer, Apply, S3Fault,
           faults, Calm, TypeInv, TypeOK
  <1>t. thr \in Threads /\ thr[c] \in {Idle} \cup Request
    BY DEF TypeInv, TypeOK, Threads
  <1>f. Fits(c) /\ s3 # None
    BY <1>c DEF DurableInv, Told
  <1>1. CASE S3Get(c)
    BY <1>1, <1>c, <1>t, <1>f, QuietStep
       DEF S3Get, Threads, Request, Idle, Fits, Changing, Loaded, Saving, At, store, told
  <1>2. CASE S3Miss(c) \/ S3GetFails(c) \/ FileRead(c) \/ FileGarbled(c) \/ Push(c) \/ PushFails(c)
    BY <1>2, <1>c, <1>f DEF S3Miss, S3GetFails, FileRead, FileGarbled, Push, PushFails, At, Fits
  <1>3. CASE Answer(c) \/ FileGarbled(c)
    BY <1>3, <1>c, <1>t, QuietStep DEF Answer, FileGarbled, End, Threads, store, told
  <1>4. CASE Apply(c)
    <2>1. thr' = [thr EXCEPT ![c].pc = "saveopen", ![c].data = Changed(c), ![c].owed = {}]
      BY <1>4 DEF Apply
    <2>2. /\ thr'[c].pc = "saveopen" /\ thr'[c].op = thr[c].op /\ thr'[c].key = thr[c].key
          /\ thr'[c].data = Changed(c) /\ thr'[c].owed = {}
          /\ \A d \in Client \ {c} : thr'[d] = thr[d]
      BY <2>1, <1>t, <1>4 DEF Threads, Request, Idle, Apply, At
    <2>3. Changing(c) /\ thr[c].data = s3
      BY <1>4, <1>t, <1>f DEF Apply, NoSave, Changing, Fits, Loaded, At, Request, Idle
    <2>4. UNCHANGED <<s3, kept, gone>>
      BY <1>4 DEF Apply, store, told
    <2>5. Fits(c)'
      BY <2>2, <2>3, <2>4, <1>f DEF Fits, Changed, Saved, Loaded, Saving, Changing
    <2> QED BY <2>2, <2>4, <2>5, <1>c, QuietStep
  <1> QED BY <1>1, <1>2, <1>3, <1>4

\* A restart leaves the object and the promises; every thread stays or ends.
LEMMA CrashDurable ==
  ASSUME TypeInv, DurableInv, NEW h \in Host, Crash(h)
  PROVE  DurableInv'
  <1> SUFFICES ASSUME Calm PROVE DurableInv'
    BY DEF DurableInv, Crash, Calm
  <1>1. UNCHANGED <<s3, kept, gone>> /\ \A d \in Client : thr'[d] = thr[d] \/ thr'[d] = Idle
    BY DEF Crash, told, TypeInv, TypeOK
  <1>2. Told'
    BY <1>1 DEF DurableInv, Told
  <1>3. OneWriter' /\ NotPromised'
    BY <1>1 DEF DurableInv, OneWriter, NotPromised, Changing, Idle
  <1>4. ASSUME NEW d \in Client PROVE Fits(d)'
    <2>1. CASE thr'[d] = thr[d]
      BY <1>1, <2>1 DEF DurableInv, Fits, Saved, Changing
    <2>2. CASE thr'[d] = Idle
      BY <2>2 DEF Fits, Changing, Idle, Loaded, Saving
    <2> QED BY <1>1, <2>1, <2>2
  <1> QED BY <1>2, <1>3, <1>4 DEF DurableInv

\* The local copies of a load and of a save.
LEMMA LocalDurable ==
  ASSUME TypeInv, DurableInv, NEW c \in Client, OpenFile(c) \/ CloseFile(c) \/ DiskFails(c)
  PROVE  DurableInv'
  <1> SUFFICES ASSUME Calm PROVE DurableInv'
    BY DEF DurableInv, OpenFile, CloseFile, DiskFails, Calm, faults
  <1>t. thr \in Threads /\ thr[c] \in {Idle} \cup Request
    BY DEF TypeInv, TypeOK, Threads
  <1>f. Fits(c)
    BY DEF DurableInv
  <1>p. ASSUME NEW l \in {"pullwrite", "apply"}, thr' = [thr EXCEPT ![c].pc = l],
               thr[c].pc \in {"pullopen", "pullwrite"}, UNCHANGED <<s3, kept, gone>>
        PROVE  DurableInv'
    <2>1. /\ thr'[c].pc = l /\ thr'[c].op = thr[c].op /\ thr'[c].key = thr[c].key
          /\ thr'[c].data = thr[c].data /\ thr'[c].owed = thr[c].owed
          /\ \A d \in Client \ {c} : thr'[d] = thr[d]
      BY <1>p, <1>t DEF Threads, Request, Idle
    <2>2. Fits(c)'
      BY <2>1, <1>p, <1>f DEF Fits, Saved, Loaded, Saving, Changing
    <2> QED BY <2>1, <2>2, <1>p, QuietStep
  <1>s. ASSUME NEW l \in {"savewrite", "s3put"}, thr' = [thr EXCEPT ![c].pc = l],
               thr[c].pc \in {"saveopen", "savewrite"}, UNCHANGED <<s3, kept, gone>>
        PROVE  DurableInv'
    <2>1. /\ thr'[c].pc = l /\ thr'[c].op = thr[c].op /\ thr'[c].key = thr[c].key
          /\ thr'[c].data = thr[c].data /\ thr'[c].owed = thr[c].owed
          /\ \A d \in Client \ {c} : thr'[d] = thr[d]
      BY <1>s, <1>t DEF Threads, Request, Idle
    <2>2. Fits(c)'
      BY <2>1, <1>s, <1>f DEF Fits, Saved, Loaded, Saving, Changing
    <2> QED BY <2>1, <2>2, <1>s, QuietStep
  <1>2. ASSUME AfterLocalWrite(c), UNCHANGED s3 PROVE DurableInv'
    <2>1. CASE thr[c].pc \in {"pullopen", "pullwrite"}
      <3>1. thr' = [thr EXCEPT ![c].pc = "apply"] /\ UNCHANGED <<s3, kept, gone>>
        BY <1>2, <2>1 DEF AfterLocalWrite, Goto, told
      <3> QED BY <3>1, <2>1, <1>p
    <2>2. CASE thr[c].pc \in {"saveopen", "savewrite"}
      <3>1. thr' = [thr EXCEPT ![c].pc = "s3put"] /\ UNCHANGED <<s3, kept, gone>>
        BY <1>2, <2>2 DEF AfterLocalWrite, Goto, UsesS3, Calm, told
      <3> QED BY <3>1, <2>2, <1>s
    <2> QED BY <1>2, <2>1, <2>2 DEF AfterLocalWrite
  <1>3. CASE OpenFile(c)
    <2>1. UNCHANGED <<s3, kept, gone>>
      BY <1>3 DEF OpenFile, told
    <2>2. CASE At(c, "pullopen")
      <3>1. thr' = [thr EXCEPT ![c].pc = "pullwrite"]
        BY <1>3, <2>2 DEF OpenFile, Goto
      <3> QED BY <3>1, <2>1, <2>2, <1>p DEF At
    <2>3. CASE At(c, "saveopen")
      <3>1. thr' = [thr EXCEPT ![c].pc = "savewrite"]
        BY <1>3, <2>3 DEF OpenFile, Goto, At
      <3> QED BY <3>1, <2>1, <2>3, <1>s DEF At
    <2> QED BY <1>3, <2>2, <2>3 DEF OpenFile, At
  <1>4. CASE CloseFile(c)
    BY <1>2, <1>4 DEF CloseFile
  <1>5. CASE DiskFails(c)
    <2>1. CASE End(c) /\ UNCHANGED told
      <3>1. thr'[c] = Idle /\ \A d \in Client \ {c} : thr'[d] = thr[d]
        BY <2>1, <1>t DEF End, Threads
      <3> QED BY <3>1, <2>1, <1>5, QuietStep DEF DiskFails, told
    <2> QED BY <2>1, <1>2, <1>5 DEF DiskFails
  <1> QED BY <1>3, <1>4, <1>5

\* The one step that writes the object.
LEMMA PutDurable ==
  ASSUME TypeInv, DurableInv, NEW c \in Client, S3Put(c) \/ S3PutFails(c)
  PROVE  DurableInv'
  <1> SUFFICES ASSUME Calm' PROVE DurableInv'
    BY DEF DurableInv
  <1>c. Calm /\ S3Put(c)
    BY DEF S3Put, S3PutFails, S3Fault, faults, Calm, TypeInv, TypeOK
  <1>1. /\ thr'[c] = Idle
        /\ \A d \in Client \ {c} : thr'[d] = thr[d]
    BY <1>c DEF S3Put, Acknowledge, End, TypeInv, TypeOK
  <1>2. At(c, "s3put") /\ Changing(c) /\ thr[c].op \in {"put", "delete"} /\ thr[c].key \in Key
    BY <1>c DEF S3Put, At, TypeInv, TypeOK, Purposeful, Changing, Request, Idle
  <1>3. s3' = Saved(c) /\ s3 # None /\ s3 \in Doc
    BY <1>c, <1>2 DEF S3Put, At, DurableInv, Told, Fits, Saving, TypeInv, TypeOK
  <1>4. /\ kept' = IF thr[c].op = "put" THEN kept \cup {thr[c].key} ELSE kept
        /\ gone' = IF thr[c].op = "delete" THEN gone \cup {thr[c].key} ELSE gone
    BY <1>c DEF S3Put, Acknowledge
  <1>5. \A d \in Client \ {c} : ~Changing(d)
    BY <1>c, <1>2 DEF DurableInv, OneWriter
  <1>6. Told'
    <2>1. s3' \in Doc
      BY <1>2, <1>3 DEF Saved, Doc
    <2>2. kept \subseteq s3 /\ gone \cap s3 = {} /\ Fits(c)
      BY <1>c DEF DurableInv, Told
    <2> QED BY <2>1, <2>2, <1>2, <1>3, <1>4, NoneAssumption DEF Told, Saved, Fits
  <1>7. OneWriter' /\ NotPromised'
    BY <1>1, <1>5 DEF OneWriter, NotPromised, Changing, Idle
  <1>8. ASSUME NEW d \in Client PROVE Fits(d)'
    <2>1. CASE d = c
      BY <1>1, <2>1 DEF Fits, Idle, Changing, Loaded, Saving
    <2>2. CASE d # c
      <3>1. thr'[d] = thr[d] /\ thr[d].op = "get" /\ Fits(d)
        BY <2>2, <1>1, <1>5, <1>c DEF Changing, DurableInv
      <3>2. thr[d].owed \subseteq s3 => thr[d].owed \subseteq s3'
        BY <1>2, <1>3, <1>c DEF Saved, DurableInv, NotPromised
      <3>3. thr[d].pc \notin Saving
        BY <3>1 DEF TypeInv, Purposeful, Changing, Saving
      <3> QED BY <3>1, <3>2, <3>3 DEF Fits, Changing
    <2> QED BY <2>1, <2>2
  <1> QED BY <1>6, <1>7, <1>8 DEF DurableInv

\* Every step keeps DurableInv when changes do not overlap.
LEMMA NextDurable == SingleWriter /\ TypeInv /\ DurableInv /\ [Next]_vars => DurableInv'
  <1> SUFFICES ASSUME SingleWriter, TypeInv, DurableInv, [Next]_vars PROVE DurableInv'
    OBVIOUS
  <1>1. CASE UNCHANGED vars
    BY <1>1 DEF vars, store, faults, told, DurableInv, Calm, Told, OneWriter, NotPromised,
                Fits, Saved, Changing
  <1>2. CASE Next
    BY <1>2, BeginDurable, LoadDurable, LocalDurable, PutDurable, CrashDurable DEF Next
  <1> QED BY <1>1, <1>2

\* When the changing requests do not overlap and no S3 call fails all its
\* attempts, no stale, torn or lost local file, no failed local write and no
\* restart ever takes back what save() confirmed to a caller.
THEOREM AcknowledgedIsDurable == SingleWriter => (Spec => []S3KeepsAcknowledged)
  <1> SUFFICES ASSUME SingleWriter PROVE Spec => []S3KeepsAcknowledged
    OBVIOUS
  <1>1. TypeInv /\ DurableInv /\ [Next]_vars => TypeInv' /\ DurableInv'
    BY NextTypeInv, NextDurable
  <1>2. DurableInv => S3KeepsAcknowledged
    BY DEF DurableInv, Calm, Told, S3KeepsAcknowledged
  <1> QED BY <1>1, <1>2, InitTypeInv, InitDurable, PTL DEF Spec

\* Under the same conditions load() returns every record promised when the
\* request began and not deleted since: the local copy is never served.
THEOREM LoadsAreCurrent == SingleWriter => (Spec => []LoadsSeeAcknowledged)
  <1> SUFFICES ASSUME SingleWriter PROVE Spec => []LoadsSeeAcknowledged
    OBVIOUS
  <1>1. TypeInv /\ DurableInv /\ [Next]_vars => TypeInv' /\ DurableInv'
    BY NextTypeInv, NextDurable
  <1>2. DurableInv => LoadsSeeAcknowledged
    BY DEF DurableInv, Calm, Fits, Loaded, At, LoadsSeeAcknowledged
  <1> QED BY <1>1, <1>2, InitTypeInv, InitDurable, PTL DEF Spec

\* Under the same conditions every write of the object is the one change of
\* one changing request: a request that only reads never alters it.
THEOREM ObjectChangesByOneRecord == SingleWriter => (Spec => S3ChangesOneRecord)
  <1> SUFFICES ASSUME SingleWriter PROVE Spec => S3ChangesOneRecord
    OBVIOUS
  <1> DEFINE OneChange == (mode = "s3" /\ s3Faults' = 0) =>
               \E c \in Client :
                 \/ thr[c].op = "put" /\ s3' = s3 \cup {thr[c].key}
                 \/ thr[c].op = "delete" /\ s3' = s3 \ {thr[c].key}
  <1>1. TypeInv /\ DurableInv /\ [Next]_vars => TypeInv' /\ DurableInv'
    BY NextTypeInv, NextDurable
  <1>2. TypeInv /\ DurableInv /\ [Next]_vars => [OneChange]_s3
    <2> SUFFICES ASSUME TypeInv, DurableInv, [Next]_vars, s3' # s3, mode = "s3", s3Faults' = 0
                 PROVE  OneChange
      OBVIOUS
    <2>1. PICK c \in Client : Push(c) \/ PushFails(c) \/ S3Put(c) \/ S3PutFails(c)
      BY DEF Next, vars, Begin, S3Get, S3Miss, S3GetFails, FileRead, FileGarbled, Answer, Apply, OpenFile,
             CloseFile, DiskFails, Crash, store
    <2>2. Calm /\ ~S3Fault("read") /\ ~S3Fault("write")
      BY <2>1 DEF Push, PushFails, S3Put, S3PutFails, S3Fault, faults, Calm, TypeInv, TypeOK
    <2>3. Fits(c)
      BY <2>2 DEF DurableInv
    <2>4. S3Put(c) /\ s3' = Saved(c)
      BY <2>1, <2>2, <2>3 DEF Push, PushFails, S3Put, S3PutFails, Fits, Saving, At
    <2>5. thr[c].op \in {"put", "delete"}
      BY <2>4 DEF S3Put, At, TypeInv, TypeOK, Purposeful, Changing, Request, Idle
    <2> QED BY <2>4, <2>5 DEF Saved
  <1> QED BY <1>1, <1>2, InitTypeInv, InitDurable, PTL DEF Spec, S3ChangesOneRecord

-----------------------------------------------------------------------------
(***************************************************************************)
(* The same without a bucket, while no disk write fails and the process    *)
(* does not die: what the one local file holds.                            *)
(***************************************************************************)

LocalCalm == mode = "local" /\ diskFaults = 0 /\ crashes = 0

Disk == Readable(file[Primary])

\* What a changing thread loaded is still in the file; what it saves agrees
\* with what was promised and makes its own change.
LocalFits(c) ==
  /\ thr[c].pc \in {"idle", "fileread", "apply", "saveopen", "savewrite"}
  /\ thr[c].pc # "idle" => HostOf[c] = Primary
  /\ thr[c].op = "put" => thr[c].key \notin gone
  /\ thr[c].op = "delete" => thr[c].key \notin kept
  /\ Changing(c) /\ thr[c].pc = "apply" => thr[c].data = Disk
  /\ thr[c].pc \in {"saveopen", "savewrite"} =>
       /\ kept \subseteq thr[c].data /\ gone \cap thr[c].data = {}
       /\ thr[c].op = "put" => thr[c].key \in thr[c].data
       /\ thr[c].op = "delete" => thr[c].key \notin thr[c].data

LocalTold == (\A c \in Client : ~Writing(c)) => kept \subseteq Disk /\ gone \cap Disk = {}

LocalInv == LocalCalm => raced = {} /\ LocalTold /\ OneWriter /\ \A c \in Client : LocalFits(c)

\* LocalInv holds at first.
LEMMA InitLocal == Init => LocalInv
  <1> SUFFICES ASSUME Init, LocalCalm PROVE raced = {} /\ LocalTold /\ OneWriter /\ \A c \in Client : LocalFits(c)
    BY DEF LocalInv
  <1>1. LocalTold
    <2>1. PICK d \in Doc : kept = d /\ file = [h \in Host |-> d] /\ gone = {}
      BY DEF Init, LocalCalm
    <2> QED BY <2>1, ConstantsAssumption, NoneAssumption DEF LocalTold, Disk, Readable
  <1> QED BY <1>1 DEF Init, OneWriter, LocalFits, Changing, Idle

\* A step of one thread that leaves the file and the promises alone.
LEMMA QuietLocal ==
  ASSUME LocalInv, LocalCalm, NEW c \in Client, UNCHANGED <<file, kept, gone, raced>>,
         ~Writing(c), ~Writing(c)',
         \A d \in Client \ {c} : thr'[d] = thr[d],
         thr'[c] = Idle \/ (thr'[c].op = thr[c].op /\ LocalFits(c)')
  PROVE  LocalInv'
  <1>1. \A d \in Client : Writing(d)' <=> Writing(d)
    BY DEF Writing
  <1>2. LocalTold'
    BY <1>1 DEF LocalInv, LocalTold, Disk
  <1>3. OneWriter'
    BY DEF LocalInv, OneWriter, Changing, Idle
  <1>4. ASSUME NEW d \in Client PROVE LocalFits(d)'
    <2>1. CASE d # c
      BY <2>1 DEF LocalInv, LocalFits, Changing, Disk
    <2>2. CASE d = c
      BY <2>2 DEF LocalFits, Idle, Changing
    <2> QED BY <2>1, <2>2
  <1> QED BY <1>2, <1>3, <1>4 DEF LocalInv

\* A request that begins keeps LocalInv.
LEMMA BeginLocal ==
  ASSUME SingleWriter, TypeInv, LocalInv, NEW c \in Client, NEW o \in {"get", "put", "delete"},
         NEW k \in {None} \cup Key, Begin(c, o, k)
  PROVE  LocalInv'
  <1> SUFFICES ASSUME LocalCalm PROVE LocalInv'
    BY DEF LocalInv, Begin, LocalCalm, faults
  <1> DEFINE Unclaimed(ks) == IF o = "delete" THEN ks \ {k} ELSE ks
             new == [pc |-> "fileread", op |-> o, key |-> k, data |-> {}, owed |-> Unclaimed(kept)]
  <1>1. /\ thr' = [d \in Client |-> IF d = c THEN new
                                    ELSE [thr[d] EXCEPT !.owed = Unclaimed(@)]]
        /\ kept' = Unclaimed(kept)
        /\ gone' = (IF o = "put" THEN gone \ {k} ELSE gone)
        /\ UNCHANGED <<file, raced>> /\ HostOf[c] = Primary /\ thr[c].pc = "idle"
    BY DEF Begin, Accepts, At, UsesS3, LocalCalm, store
  <1>2. o # "get" => \A d \in Client : ~Changing(d)
    BY DEF Begin, Accepts
  <1>3. ASSUME NEW d \in Client, d # c
        PROVE  /\ thr'[d].pc = thr[d].pc /\ thr'[d].op = thr[d].op
               /\ thr'[d].key = thr[d].key /\ thr'[d].data = thr[d].data
    <2>1. thr[d] \in {Idle} \cup Request /\ thr'[d] = [thr[d] EXCEPT !.owed = Unclaimed(@)]
      BY <1>1, <1>3 DEF TypeInv, TypeOK
    <2> QED BY <2>1 DEF Request, Idle
  <1>4. \A d \in Client : Writing(d)' <=> Writing(d)
    BY <1>1, <1>3 DEF Writing
  <1>5. LocalTold'
    BY <1>1, <1>4 DEF LocalInv, LocalTold, Disk
  <1>6. OneWriter'
    BY <1>1, <1>2, <1>3 DEF LocalInv, OneWriter, Changing
  <1>7. ASSUME NEW d \in Client PROVE LocalFits(d)'
    <2>1. CASE d = c
      BY <1>1, <2>1 DEF LocalFits, Changing
    <2>2. CASE d # c
      <3>1. LocalFits(d)
        BY DEF LocalInv
      <3>2. kept' \subseteq kept /\ gone' \subseteq gone
        BY <1>1
      <3> QED BY <1>1, <1>3, <2>2, <3>1, <3>2 DEF LocalFits, Changing, Disk
    <2> QED BY <2>1, <2>2
  <1> QED BY <1>1, <1>5, <1>6, <1>7 DEF LocalInv

\* Reads and the step from load to save: a changing thread finds no writer.
LEMMA ReadLocal ==
  ASSUME TypeInv, LocalInv, LocalCalm, NEW c \in Client, FileRead(c) \/ FileGarbled(c) \/ Answer(c) \/ Apply(c)
  PROVE  LocalInv'
  <1>t. thr \in Threads /\ thr[c] \in {Idle} \cup Request
    BY DEF TypeInv, TypeOK, Threads
  <1>f. LocalFits(c) /\ LocalTold /\ OneWriter
    BY DEF LocalInv
  <1>u. UNCHANGED <<file, kept, gone, raced>> /\ ~Writing(c)
    BY DEF FileRead, FileGarbled, Answer, Apply, At, Writing, store, told
  <1>1. CASE FileRead(c)
    <2>1. thr' = [thr EXCEPT ![c].data = Disk, ![c].pc = "apply"]
      BY <1>1, <1>f DEF FileRead, FileGarbled, At, LocalFits, LocalFile, Disk, UsesS3, LocalCalm
    <2>2. /\ thr'[c].pc = "apply" /\ thr'[c].op = thr[c].op /\ thr'[c].key = thr[c].key
          /\ thr'[c].data = Disk /\ \A d \in Client \ {c} : thr'[d] = thr[d]
      BY <2>1, <1>t, <1>1 DEF Threads, Request, Idle, FileRead, At
    <2>3. LocalFits(c)'
      BY <2>2, <1>f, <1>u, <1>1 DEF LocalFits, FileRead, At, Disk
    <2>4. ~Writing(c)'
      BY <2>2 DEF Writing
    <2> QED BY <2>2, <2>3, <2>4, <1>u, QuietLocal
  <1>2. CASE Answer(c) \/ FileGarbled(c)
    <2>1. thr'[c] = Idle /\ \A d \in Client \ {c} : thr'[d] = thr[d]
      BY <1>2, <1>t DEF Answer, FileGarbled, End, Threads
    <2>2. ~Writing(c)'
      BY <2>1 DEF Writing, Idle
    <2> QED BY <2>1, <2>2, <1>u, QuietLocal
  <1>3. CASE Apply(c)
    <2>1. thr' = [thr EXCEPT ![c].pc = "saveopen", ![c].data = Changed(c), ![c].owed = {}]
      BY <1>3 DEF Apply
    <2>2. /\ thr'[c].pc = "saveopen" /\ thr'[c].op = thr[c].op /\ thr'[c].key = thr[c].key
          /\ thr'[c].data = Changed(c) /\ \A d \in Client \ {c} : thr'[d] = thr[d]
      BY <2>1, <1>t, <1>3 DEF Threads, Request, Idle, Apply, At
    <2>3. Changing(c) /\ thr[c].data = Disk
      BY <1>3, <1>t, <1>f DEF Apply, NoSave, Changing, LocalFits, At, Request, Idle
    <2>4. \A d \in Client : ~Writing(d)
      BY <2>3, <1>f, <1>u DEF OneWriter, Writing, TypeInv, Purposeful, LocalInv, LocalFits
    <2>5. kept \subseteq Disk /\ gone \cap Disk = {}
      BY <2>4, <1>f DEF LocalTold
    <2>o. thr[c].op \in {"put", "delete"}
      BY <2>3, <1>t DEF Changing, Request, Idle
    <2>c. /\ kept \subseteq Changed(c) /\ gone \cap Changed(c) = {}
          /\ thr[c].op = "put" => thr[c].key \in Changed(c)
          /\ thr[c].op = "delete" => thr[c].key \notin Changed(c)
      BY <2>o, <2>3, <2>5, <1>f DEF LocalFits, Changed
    <2>6. LocalFits(c)'
      BY <2>2, <2>c, <1>f, <1>u, <1>3 DEF LocalFits, Apply, At
    <2>7. ~Writing(c)'
      BY <2>2 DEF Writing
    <2> QED BY <2>2, <2>6, <2>7, <1>u, QuietLocal
  <1> QED BY <1>1, <1>2, <1>3

\* The save: the file is emptied, then filled by its only writer.
LEMMA SaveLocal ==
  ASSUME TypeInv, LocalInv, LocalCalm, NEW c \in Client, OpenFile(c) \/ CloseFile(c)
  PROVE  LocalInv'
  <1>t. thr \in Threads /\ thr[c] \in Request /\ file \in [Host -> {None, Garbled} \cup Doc] /\ HostOf[c] \in Host
    BY ConstantsAssumption DEF TypeInv, TypeOK, Threads, OpenFile, CloseFile, Writing, Idle
  <1>f. LocalFits(c) /\ LocalTold /\ OneWriter /\ raced = {}
    BY DEF LocalInv
  <1>p. thr[c].pc \in {"saveopen", "savewrite"} /\ HostOf[c] = Primary /\ Changing(c)
    BY <1>f DEF LocalFits, OpenFile, CloseFile, Writing, TypeInv, Purposeful
  <1>o. \A d \in Client \ {c} : ~Writing(d) /\ ~Changing(d)
    BY <1>p, <1>f DEF OneWriter, Writing, TypeInv, Purposeful, LocalInv, LocalFits
  <1>1. CASE OpenFile(c)
    <2>1. thr' = [thr EXCEPT ![c].pc = "savewrite"] /\ UNCHANGED <<kept, gone>>
      BY <1>1, <1>p DEF OpenFile, Goto, At, told
    <2>2. /\ thr'[c].pc = "savewrite" /\ thr'[c].op = thr[c].op /\ thr'[c].key = thr[c].key
          /\ thr'[c].data = thr[c].data /\ \A d \in Client \ {c} : thr'[d] = thr[d]
      BY <2>1, <1>t DEF Threads, Request
    <2>3. raced' = {}
      BY <1>1, <1>o, <1>f DEF OpenFile, Others
    <2>4. LocalTold'
      BY <2>2 DEF LocalTold, Writing
    <2>5. OneWriter'
      BY <2>2, <1>f DEF OneWriter, Changing
    <2>6. ASSUME NEW d \in Client PROVE LocalFits(d)'
      <3>1. CASE d = c
        BY <3>1, <2>1, <2>2, <1>1, <1>f, <1>p DEF LocalFits, OpenFile
      <3>2. CASE d # c
        <4>1. thr'[d] = thr[d] /\ ~Changing(d) /\ LocalFits(d)
          BY <3>2, <2>2, <1>o DEF LocalInv
        <4> QED BY <4>1, <2>1 DEF LocalFits, Changing
      <3> QED BY <3>1, <3>2
    <2> QED BY <2>3, <2>4, <2>5, <2>6 DEF LocalInv
  <1>2. CASE CloseFile(c)
    <2>1. /\ file' = [file EXCEPT ![Primary] = thr[c].data] /\ raced' = {} /\ Acknowledge(c)
          /\ thr[c].pc = "savewrite"
      BY <1>2, <1>p, <1>f DEF CloseFile, Writing, AfterLocalWrite, UsesS3, LocalCalm
    <2>2. Disk' = thr[c].data
      <3>1. thr[c].data \in Doc /\ file'[Primary] = thr[c].data
        BY <2>1, <1>t, <1>p DEF Request
      <3> QED BY <3>1, NoneAssumption DEF Disk, Readable
    <2>3. /\ kept' = IF thr[c].op = "put" THEN kept \cup {thr[c].key} ELSE kept
          /\ gone' = IF thr[c].op = "delete" THEN gone \cup {thr[c].key} ELSE gone
          /\ thr'[c] = Idle /\ \A d \in Client \ {c} : thr'[d] = thr[d]
      BY <2>1, <1>t DEF Acknowledge, End, Threads
    <2>4. LocalTold'
      BY <2>1, <2>2, <2>3, <1>f DEF LocalTold, LocalFits
    <2>5. OneWriter'
      BY <2>3, <1>f DEF OneWriter, Changing, Idle
    <2>6. ASSUME NEW d \in Client PROVE LocalFits(d)'
      <3>1. CASE d = c
        BY <3>1, <2>3 DEF LocalFits, Idle, Changing
      <3>2. CASE d # c
        <4>1. thr'[d] = thr[d] /\ thr[d].op = "get" /\ LocalFits(d)
          BY <3>2, <2>3, <1>o DEF LocalInv, Changing
        <4>2. thr[d].pc \notin {"saveopen", "savewrite"}
          BY <4>1 DEF TypeInv, Purposeful, Changing
        <4> QED BY <4>1, <4>2 DEF LocalFits, Changing
      <3> QED BY <3>1, <3>2
    <2> QED BY <2>1, <2>4, <2>5, <2>6 DEF LocalInv
  <1> QED BY <1>1, <1>2

\* Every step keeps LocalInv.
LEMMA NextLocal == SingleWriter /\ TypeInv /\ LocalInv /\ [Next]_vars => LocalInv'
  <1> SUFFICES ASSUME SingleWriter, TypeInv, LocalInv, [Next]_vars, LocalCalm' PROVE LocalInv'
    BY DEF LocalInv
  <1>1. CASE UNCHANGED vars
    BY <1>1 DEF vars, store, faults, told, LocalInv, LocalCalm, LocalTold, OneWriter, LocalFits,
                Changing, Writing, Disk
  <1>2. CASE Next
    <2>1. /\ mode' = mode /\ diskFaults' \in {diskFaults, diskFaults + 1}
          /\ crashes' \in {crashes, crashes + 1}
      BY <1>2 DEF Next, Begin, S3Get, S3Miss, S3GetFails, FileRead, FileGarbled, Push, PushFails, Answer, Apply,
         OpenFile, CloseFile, DiskFails, S3Put, S3PutFails, Crash, S3Fault, faults
    <2>2. LocalCalm
      BY <2>1 DEF LocalCalm, TypeInv, TypeOK
    <2>3. \A h \in Host : ~Crash(h)
      BY <2>2 DEF LocalCalm, Crash
    <2>4. ASSUME NEW c \in Client
          PROVE  ~(S3Get(c) \/ S3Miss(c) \/ S3GetFails(c) \/ Push(c) \/ PushFails(c) \/ S3Put(c)
                   \/ S3PutFails(c) \/ DiskFails(c))
      BY <2>2 DEF LocalInv, LocalFits, LocalCalm, S3Get, S3Miss, S3GetFails, Push, PushFails, S3Put,
         S3PutFails, DiskFails, At
    <2> QED BY <1>2, <2>2, <2>3, <2>4, BeginLocal, ReadLocal, SaveLocal DEF Next
  <1> QED BY <1>1, <1>2

\* Without a bucket, when changes do not overlap, the local file at rest holds
\* what callers were told, as long as no disk write fails and no process dies.
THEOREM AcknowledgedIsInFile == SingleWriter => (Spec => []FileKeepsAcknowledged)
  <1> SUFFICES ASSUME SingleWriter PROVE Spec => []FileKeepsAcknowledged
    OBVIOUS
  <1>1. TypeInv /\ LocalInv /\ [Next]_vars => TypeInv' /\ LocalInv'
    BY NextTypeInv, NextLocal
  <1>2. LocalInv => FileKeepsAcknowledged
    BY DEF LocalInv, LocalCalm, LocalTold, Disk, FileKeepsAcknowledged
  <1> QED BY <1>1, <1>2, InitTypeInv, InitLocal, PTL DEF Spec

-----------------------------------------------------------------------------
(* JsonStore implements AtomicStore, for every set of instances, threads and *)
(* records and every number of faults, when changes do not overlap: the      *)
(* initial states are initial states of AtomicStore, and every step is a     *)
(* step of AtomicStore or leaves what it knows alone.                        *)

Calls == [c \in Client |-> AbstractCall(c)]

Mapped == <<s3, Calls, kept, gone>>

\* What is to be shown of a step with a bucket that answers.
Simulated == Atomic!Step \/ UNCHANGED Mapped

-----------------------------------------------------------------------------

\* One request moves in the abstract store.
LEMMA CallMoves ==
  ASSUME NEW c \in Client, NEW x, AbstractCall(c)' = x,
         \A d \in Client \ {c} : AbstractCall(d)' = AbstractCall(d)
  PROVE  Calls' = [Calls EXCEPT ![c] = x]
  BY DEF Calls

\* No request moves in the abstract store.
LEMMA CallsStay ==
  ASSUME \A d \in Client : AbstractCall(d)' = AbstractCall(d)
  PROVE  Calls' = Calls
  BY DEF Calls

\* A thread that does not move, while the object stays or it saves nothing.
LEMMA SameCall ==
  ASSUME NEW d \in Client, thr'[d] = thr[d], s3' = s3 \/ thr[d].pc \notin Saving
  PROVE  AbstractCall(d)' = AbstractCall(d)
  BY DEF AbstractCall, Saving

\* A request that begins is a call of the abstract store.
LEMMA BeginSimulates ==
  ASSUME TypeInv, DurableInv, Calm, NEW c \in Client, NEW o \in {"get", "put", "delete"},
         NEW k \in {None} \cup Key, Begin(c, o, k)
  PROVE  Simulated
<1> DEFINE Unclaimed(ks) == IF o = "delete" THEN ks \ {k} ELSE ks
           new == [pc |-> "s3get", op |-> o, key |-> k, data |-> {}, owed |-> Unclaimed(kept)]
           x == [pc |-> "called", op |-> o, key |-> k, seen |-> {}]
<1>1. /\ thr' = [d \in Client |-> IF d = c THEN new ELSE [thr[d] EXCEPT !.owed = Unclaimed(@)]]
      /\ kept' = (IF o = "delete" THEN kept \ {k} ELSE kept)
      /\ gone' = (IF o = "put" THEN gone \ {k} ELSE gone)
      /\ s3' = s3 /\ (o = "get" <=> k = None) /\ thr[c].pc = "idle"
  BY DEF Begin, Accepts, At, UsesS3, Calm, store
<1>2. AbstractCall(c)' = x
  BY <1>1 DEF AbstractCall, AbstractPc
<1>3. ASSUME NEW d \in Client \ {c} PROVE AbstractCall(d)' = AbstractCall(d)
  <2>1. thr[d] \in {Idle} \cup Request /\ thr'[d] = [thr[d] EXCEPT !.owed = Unclaimed(@)]
    BY <1>1 DEF TypeInv, TypeOK
  <2>2. /\ thr'[d].pc = thr[d].pc /\ thr'[d].op = thr[d].op
        /\ thr'[d].key = thr[d].key /\ thr'[d].data = thr[d].data
    BY <2>1 DEF Request, Idle
  <2> QED
    BY <1>1, <2>2 DEF AbstractCall
<1>4. Calls' = [Calls EXCEPT ![c] = x]
  BY <1>2, <1>3, CallMoves
<1>5. Calls[c].pc = "idle"
  BY <1>1 DEF Calls, AbstractCall, AbstractPc
<1>6. Atomic!Begin(c, o, k)
  BY <1>1, <1>4, <1>5 DEF Atomic!Begin, Calls
<1> QED
  BY <1>6 DEF Simulated, Atomic!Step

\* The instant of a load: the object is in hand.
LEMMA S3GetSimulates ==
  ASSUME TypeInv, NEW c \in Client, S3Get(c)
  PROVE  Simulated
<1>1. /\ thr[c].pc = "s3get" /\ UNCHANGED <<s3, kept, gone>>
      /\ thr' = [thr EXCEPT ![c].pc = "pullopen", ![c].data = s3]
  BY DEF S3Get, At, store, told
<1>2. /\ thr'[c].pc = "pullopen" /\ thr'[c].op = thr[c].op /\ thr'[c].key = thr[c].key
      /\ thr'[c].data = s3 /\ \A d \in Client \ {c} : thr'[d] = thr[d]
  BY <1>1 DEF TypeInv, TypeOK, Request, Idle
<1> DEFINE x == [pc |-> "loaded", op |-> thr[c].op, key |-> thr[c].key, seen |-> s3]
<1>3. AbstractCall(c)' = x
  BY <1>1, <1>2 DEF AbstractCall, AbstractPc
<1>4. Calls[c] = [pc |-> "called", op |-> thr[c].op, key |-> thr[c].key, seen |-> {}]
  BY <1>1 DEF Calls, AbstractCall, AbstractPc
<1>5. Calls' = [Calls EXCEPT ![c] = x]
  BY <1>1, <1>2, <1>3, SameCall, CallMoves
<1>6. Calls[c].pc = "called" /\ Calls[c].op = thr[c].op /\ Calls[c].key = thr[c].key
  BY <1>4
<1>7. Atomic!Load(c)
  BY <1>1, <1>5, <1>6 DEF Atomic!Load, Calls
<1> QED
  BY <1>7 DEF Simulated, Atomic!Step

\* A thread ends: it is idle in the abstract store too.
LEMMA EndOfCall ==
  ASSUME TypeInv, NEW c \in Client, End(c), s3' = s3 \/ \A d \in Client \ {c} : thr[d].pc \notin Saving
  PROVE  Calls' = [Calls EXCEPT ![c] = Atomic!Idle]
<1>1. thr'[c] = Idle /\ \A d \in Client \ {c} : thr'[d] = thr[d]
  BY DEF End, TypeInv, TypeOK
<1>2. AbstractCall(c)' = Atomic!Idle
  BY <1>1 DEF AbstractCall, AbstractPc, Idle, Atomic!Idle
<1> QED
  BY <1>1, <1>2, SameCall, CallMoves

\* An answer ends the call.
LEMMA AnswerSimulates ==
  ASSUME TypeInv, NEW c \in Client, Answer(c)
  PROVE  Simulated
<1>1. /\ thr[c].pc = "apply" /\ NoSave(c) /\ End(c) /\ UNCHANGED <<s3, kept, gone>>
  BY DEF Answer, At, store, told
<1>2. Calls' = [Calls EXCEPT ![c] = Atomic!Idle]
  BY <1>1, EndOfCall
<1>3. /\ Calls[c].pc = "loaded" /\ Calls[c].op = thr[c].op /\ Calls[c].key = thr[c].key
      /\ Calls[c].seen = thr[c].data
  BY <1>1 DEF Calls, AbstractCall, AbstractPc
<1>4. Atomic!Answer(c)
  BY <1>1, <1>2, <1>3 DEF Atomic!Answer, NoSave, Calls
<1> QED
  BY <1>4 DEF Simulated, Atomic!Step

\* A thread moves within its load or within its save, with the same to see.
LEMMA MoveStutters ==
  ASSUME TypeInv, NEW c \in Client, UNCHANGED <<s3, kept, gone>>,
         \A d \in Client \ {c} : thr'[d] = thr[d],
         thr'[c].op = thr[c].op, thr'[c].key = thr[c].key,
         \/ thr[c].pc \in Loaded /\ thr'[c].pc \in Loaded /\ thr'[c].data = thr[c].data
         \/ thr[c].pc \in Saving /\ thr'[c].pc \in Saving
         \/ thr[c].pc \in Loaded /\ thr'[c].pc \in Saving /\ thr[c].data = s3
  PROVE  Simulated
<1>1. AbstractCall(c)' = AbstractCall(c)
  BY DEF AbstractCall, AbstractPc, Loaded, Saving
<1>2. Calls' = Calls
  BY <1>1, SameCall, CallsStay
<1> QED
  BY <1>2 DEF Simulated, Mapped

\* A change is made on the document the call has seen.
LEMMA ApplySimulates ==
  ASSUME TypeInv, DurableInv, Calm, NEW c \in Client, Apply(c)
  PROVE  Simulated
<1>1. /\ thr[c].pc = "apply" /\ UNCHANGED <<s3, kept, gone>> /\ thr[c] \in {Idle} \cup Request
      /\ thr' = [thr EXCEPT ![c].pc = "saveopen", ![c].data = Changed(c), ![c].owed = {}]
  BY DEF Apply, At, store, told, TypeInv, TypeOK
<1>2. /\ thr'[c].pc = "saveopen" /\ thr'[c].op = thr[c].op /\ thr'[c].key = thr[c].key
      /\ \A d \in Client \ {c} : thr'[d] = thr[d]
  BY <1>1 DEF TypeInv, TypeOK, Request, Idle
<1>3. thr[c].data = s3
  BY <1>1 DEF DurableInv, Fits, Apply, NoSave, Changing, Loaded
<1> QED
  BY <1>1, <1>2, <1>3, MoveStutters DEF Loaded, Saving

\* A request that moves on within its load or its save is not seen.
LEMMA GotoStutters ==
  ASSUME TypeInv, NEW c \in Client, NEW l, Goto(c, l), UNCHANGED <<s3, kept, gone>>,
         \/ thr[c].pc \in Loaded /\ l \in Loaded
         \/ thr[c].pc \in Saving /\ l \in Saving
  PROVE  Simulated
<1>1. thr[c] \in {Idle} \cup Request
  BY DEF TypeInv, TypeOK
<1>2. /\ thr'[c].pc = l /\ thr'[c].op = thr[c].op /\ thr'[c].key = thr[c].key
      /\ thr'[c].data = thr[c].data /\ \A d \in Client \ {c} : thr'[d] = thr[d]
  BY <1>1 DEF TypeInv, TypeOK, Goto, Request, Idle
<1> QED
  BY <1>2, MoveStutters

\* What is done to the local copy is not seen.
LEMMA LocalSimulates ==
  ASSUME TypeInv, Calm, NEW c \in Client, OpenFile(c) \/ CloseFile(c) \/ DiskFails(c)
  PROVE  Simulated
<1>1. s3' = s3
  BY DEF OpenFile, CloseFile, DiskFails
<1>2. ASSUME AfterLocalWrite(c) PROVE Simulated
  <2>1. CASE thr[c].pc \in {"pullopen", "pullwrite"}
    <3>1. Goto(c, "apply") /\ UNCHANGED <<s3, kept, gone>>
      BY <1>1, <1>2, <2>1 DEF AfterLocalWrite, told
    <3> QED
      BY <2>1, <3>1, GotoStutters DEF Loaded
  <2>2. CASE thr[c].pc \in {"saveopen", "savewrite"}
    <3>1. Goto(c, "s3put") /\ UNCHANGED <<s3, kept, gone>>
      BY <1>1, <1>2, <2>2 DEF AfterLocalWrite, UsesS3, Calm, told
    <3> QED
      BY <2>2, <3>1, GotoStutters DEF Saving
  <2> QED
    BY <1>2, <2>1, <2>2 DEF AfterLocalWrite
<1>3. CASE OpenFile(c)
  <2>1. UNCHANGED <<s3, kept, gone>>
    BY <1>1, <1>3 DEF OpenFile, told
  <2>2. CASE At(c, "pullopen")
    BY <1>3, <2>1, <2>2, GotoStutters DEF OpenFile, At, Loaded
  <2>3. CASE At(c, "saveopen")
    <3>1. Goto(c, "savewrite")
      BY <1>3, <2>3 DEF OpenFile, At
    <3> QED
      BY <2>1, <2>3, <3>1, GotoStutters DEF At, Saving
  <2> QED
    BY <1>3, <2>2, <2>3 DEF OpenFile, At
<1>4. CASE End(c) /\ UNCHANGED told
  <2>1. Calls' = [Calls EXCEPT ![c] = Atomic!Idle]
    BY <1>1, <1>4, EndOfCall
  <2>2. Atomic!Abandon({c})
    BY <1>1, <1>4, <2>1 DEF Atomic!Abandon, Calls, told
  <2> QED
    BY <2>2 DEF Simulated, Atomic!Step
<1> QED
  BY <1>2, <1>3, <1>4 DEF CloseFile, DiskFails

\* The instant of a change, and its answer.
LEMMA PutSimulates ==
  ASSUME TypeInv, DurableInv, Calm, NEW c \in Client, S3Put(c)
  PROVE  Simulated
<1>1. thr[c].pc = "s3put" /\ s3' = thr[c].data /\ Acknowledge(c)
  BY DEF S3Put, At
<1>2. thr[c].op \in {"put", "delete"} /\ s3' = Saved(c) /\ Changing(c)
  BY <1>1 DEF DurableInv, Fits, Saving, TypeInv, TypeOK, Purposeful, Changing, Request, Idle
<1>3. \A d \in Client \ {c} : thr[d].pc \notin Saving
  BY <1>2 DEF DurableInv, OneWriter, TypeInv, Purposeful, Saving
<1>4. Calls' = [Calls EXCEPT ![c] = Atomic!Idle]
  BY <1>1, <1>3, EndOfCall DEF Acknowledge
<1>5. Calls[c].pc = "loaded" /\ Calls[c].op = thr[c].op /\ Calls[c].key = thr[c].key
  BY <1>1 DEF Calls, AbstractCall, AbstractPc
<1>6. CASE thr[c].op = "put"
  <2>1. Atomic!Put(c)
    BY <1>1, <1>2, <1>4, <1>5, <1>6 DEF Atomic!Put, Acknowledge, Saved, Calls
  <2> QED
    BY <2>1 DEF Simulated, Atomic!Step
<1>7. CASE thr[c].op = "delete"
  <2>1. Atomic!Delete(c)
    BY <1>1, <1>2, <1>4, <1>5, <1>7 DEF Atomic!Delete, Acknowledge, Saved, Calls
  <2> QED
    BY <2>1 DEF Simulated, Atomic!Step
<1> QED
  BY <1>2, <1>6, <1>7

\* A restart ends the calls of its instance.
LEMMA CrashSimulates ==
  ASSUME TypeInv, NEW h \in Host, Crash(h)
  PROVE  Simulated
<1> DEFINE C == {c \in Client : HostOf[c] = h}
<1>1. UNCHANGED <<s3, kept, gone>> /\ thr' = [c \in Client |-> IF c \in C THEN Idle ELSE thr[c]]
  BY DEF Crash, told
<1>2. ASSUME NEW c \in Client
      PROVE  AbstractCall(c)' = IF c \in C THEN Atomic!Idle ELSE AbstractCall(c)
  <2>1. CASE c \in C
    BY <1>1, <2>1 DEF AbstractCall, AbstractPc, Idle, Atomic!Idle
  <2>2. CASE c \notin C
    BY <1>1, <2>2, SameCall
  <2> QED
    BY <2>1, <2>2
<1>3. Atomic!Abandon(C)
  BY <1>1, <1>2 DEF Atomic!Abandon
<1> QED
  BY <1>3 DEF Simulated, Atomic!Step

-----------------------------------------------------------------------------

\* Every step without S3 failures is one of the abstract store, or none.
LEMMA CalmStepSimulates ==
  ASSUME TypeInv, DurableInv, Next, Calm'
  PROVE  Calm /\ Simulated
<1>1. Calm
  <2>1. mode' = mode /\ s3Faults' \in {s3Faults, s3Faults + 1}
    BY DEF Next, Begin, S3Get, S3Miss, S3GetFails, FileRead, FileGarbled, Push, PushFails, Answer, Apply, OpenFile,
       CloseFile, DiskFails, S3Put, S3PutFails, Crash, S3Fault, faults
  <2> QED
    BY <2>1 DEF Calm, TypeInv, TypeOK
<1>2. ~S3Fault("read") /\ ~S3Fault("write")
  BY <1>1 DEF S3Fault, Calm, TypeInv, TypeOK
<1>3. s3 # None /\ \A c \in Client : thr[c].pc \notin {"fileread", "push"}
  BY <1>1 DEF DurableInv, Told, Fits
<1>4. CASE \E c \in Client, o \in {"get", "put", "delete"}, k \in {None} \cup Key : Begin(c, o, k)
  BY <1>1, <1>4, BeginSimulates
<1>5. CASE \E h \in Host : Crash(h)
  BY <1>1, <1>5, CrashSimulates
<1>6. ASSUME NEW c \in Client,
             \/ S3Get(c) \/ Answer(c) \/ Apply(c) \/ S3Put(c)
             \/ OpenFile(c) \/ CloseFile(c) \/ DiskFails(c)
      PROVE  Simulated
  BY <1>1, <1>6, S3GetSimulates, AnswerSimulates, ApplySimulates, PutSimulates, LocalSimulates
<1>7. \A c \in Client : ~(S3Miss(c) \/ S3GetFails(c) \/ FileRead(c) \/ FileGarbled(c) \/ Push(c) \/ PushFails(c)
                          \/ S3PutFails(c))
  BY <1>2, <1>3 DEF S3Miss, S3GetFails, FileRead, FileGarbled, Push, PushFails, S3PutFails, At
<1> QED
  BY <1>1, <1>4, <1>5, <1>6, <1>7 DEF Next

\* The initial states are initial states of the abstract store,
LEMMA InitSimulates == Init => Atomic!Init
<1> SUFFICES ASSUME Init PROVE Atomic!Init
  OBVIOUS
<1>1. \A c \in Client : AbstractCall(c) = Atomic!Idle
  BY DEF Init, AbstractCall, AbstractPc, Idle, Atomic!Idle
<1> QED
  BY <1>1 DEF Init, Atomic!Init, Doc

\* and every step is one of its steps or a stutter.
LEMMA StepSimulates ==
  TypeInv /\ DurableInv /\ [Next]_vars => [Atomic!Next]_(Atomic!vars)
<1> SUFFICES ASSUME TypeInv, DurableInv, [Next]_vars PROVE [Atomic!Next]_(Atomic!vars)
  OBVIOUS
<1>1. CASE UNCHANGED vars
  BY <1>1 DEF vars, store, faults, told, Atomic!vars, AbstractCall
<1>2. CASE Next /\ ~Calm'
  BY <1>2 DEF Atomic!Next, Calm
<1>3. CASE Next /\ Calm'
  <2>1. Calm /\ Simulated
    BY <1>3, CalmStepSimulates
  <2>2. CASE Atomic!Step
    BY <1>3, <2>1, <2>2 DEF Atomic!Next, Calm
  <2>3. CASE UNCHANGED Mapped
    BY <1>3, <2>1, <2>3 DEF Mapped, Calls, Calm, Atomic!vars
  <2> QED
    BY <2>1, <2>2, <2>3 DEF Simulated
<1> QED
  BY <1>1, <1>2, <1>3

\* When changes do not overlap, load() and save() are one read and one change
\* of one document at one instant each, as long as the bucket answers.
THEOREM StoreImplementsAtomic == SingleWriter => (Spec => ImplementsAtomicStore)
<1> SUFFICES ASSUME SingleWriter PROVE Spec => ImplementsAtomicStore
  OBVIOUS
<1>1. TypeInv /\ DurableInv /\ [Next]_vars => (TypeInv /\ DurableInv)'
  BY NextTypeInv, NextDurable
<1> QED
  BY <1>1, InitTypeInv, InitDurable, InitSimulates, StepSimulates, PTL
  DEF Spec, ImplementsAtomicStore, Atomic!Spec
=============================================================================
