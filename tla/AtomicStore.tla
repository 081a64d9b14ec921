---------------------------- MODULE AtomicStore ----------------------------
(***************************************************************************)
(* What the callers of load_database and save_database rely on: one        *)
(* document, of which a load returns the state at one instant and a save   *)
(* changes one record at one instant, together with the answer.  This is   *)
(* how WorkOrders reads and writes the document.  A request may end        *)
(* without an answer and then without an effect.  Nothing is promised once *)
(* the store is no longer reliable.                                        *)
(***************************************************************************)
CONSTANTS Client, Key, None

VARIABLES
  reliable,   \* the bucket is there and has answered every call
  doc,        \* keys of the records of the document
  call,       \* call[c]: the request of c and the document it was given
  kept, gone  \* keys whose latest change is an acknowledged put, delete

vars == <<reliable, doc, call, kept, gone>>

Idle == [pc |-> "idle", op |-> "get", key |-> None, seen |-> {}]

Init ==
  /\ reliable \in BOOLEAN
  /\ reliable => doc \in SUBSET Key /\ kept = doc
  /\ gone = {}
  /\ call = [c \in Client |-> Idle]

Begin(c, o, k) ==
  /\ call[c].pc = "idle"
  /\ o = "get" <=> k = None
  /\ call' = [call EXCEPT ![c] = [pc |-> "called", op |-> o, key |-> k, seen |-> {}]]
  /\ kept' = IF o = "delete" THEN kept \ {k} ELSE kept
  /\ gone' = IF o = "put" THEN gone \ {k} ELSE gone
  /\ UNCHANGED doc

Load(c) ==
  /\ call[c].pc = "called"
  /\ call' = [call EXCEPT ![c] = [pc |-> "loaded", op |-> call[c].op, key |-> call[c].key,
                                  seen |-> doc]]
  /\ UNCHANGED <<doc, kept, gone>>

\* A read, or a delete of a record that was not in the document.
Answer(c) ==
  /\ call[c].pc = "loaded" /\ call[c].op # "put"
  /\ call[c].op = "delete" => call[c].key \notin call[c].seen
  /\ call' = [call EXCEPT ![c] = Idle]
  /\ UNCHANGED <<doc, kept, gone>>

Put(c) ==
  /\ call[c].pc = "loaded" /\ call[c].op = "put"
  /\ doc' = doc \cup {call[c].key}
  /\ kept' = kept \cup {call[c].key}
  /\ call' = [call EXCEPT ![c] = Idle]
  /\ UNCHANGED gone

Delete(c) ==
  /\ call[c].pc = "loaded" /\ call[c].op = "delete"
  /\ doc' = doc \ {call[c].key}
  /\ gone' = gone \cup {call[c].key}
  /\ call' = [call EXCEPT ![c] = Idle]
  /\ UNCHANGED kept

\* The requests of C end without an answer.
Abandon(C) ==
  /\ call' = [c \in Client |-> IF c \in C THEN Idle ELSE call[c]]
  /\ UNCHANGED <<doc, kept, gone>>

Step ==
  \/ \E c \in Client :
       \/ \E o \in {"get", "put", "delete"}, k \in {None} \cup Key : Begin(c, o, k)
       \/ Load(c) \/ Answer(c) \/ Put(c) \/ Delete(c)
  \/ \E C \in SUBSET Client : Abandon(C)

Next == IF reliable' THEN reliable /\ Step ELSE TRUE

Spec == Init /\ [][Next]_vars
=============================================================================
