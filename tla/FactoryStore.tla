---------------------------- MODULE FactoryStore ----------------------------
(***************************************************************************)
(* app/services/factory_consumption_service.py: what the machines of the   *)
(* factory consume while idle, a document building -> machine -> energy    *)
(* type -> totals in a JsonStore.  Other than every other document it is   *)
(* read from the local file wherever there is one, the bucket only serves  *)
(* an instance without; and a save whose local write fails is refused.     *)
(* POST /idle_consumptions merges a payload, an administrator deletes a    *)
(* building, and every PCF report reads the shares of its work order, in   *)
(* threads of several instances, without a lock.                           *)
(*                                                                         *)
(* A row of the document is <<building, machine, energy type>>.  The       *)
(* production totals, summed as the idle ones are, the rates, which are    *)
(* quotients of the totals, and the fields for display are left out.       *)
(***************************************************************************)
EXTENDS Integers, FiniteSets, Functions

CONSTANTS
  Host, Client, HostOf,
  Text,          \* ids and names, trimmed or not
  Trim,          \* Trim[x]: x.strip()
  Lower,         \* Lower[x]: x.lower()
  BuildingIdle,  \* BUILDING_IDLE_MACHINE_ID
  Blank, None,   \* the empty text; nothing
  Bucket,        \* whether a bucket is configured
  Torn,          \* a file that holds no JSON
  Row,           \* the rows considered
  WorkOrder,
  Payload,       \* Payload[i]: the body of the i-th POST
  InitialDocs,   \* documents the program may start with
  MaxOthers,     \* bound: deletes and reads
  MaxFaults      \* bound: failed calls, failed writes, restarts

Node == [idle : Nat, time : Nat, idleTime : Nat, minutes : [WorkOrder -> Nat],
         name : Text, count : Nat, published : Nat]
IsDoc(d) == \E rows \in SUBSET Row : d \in [rows -> Node]
Id   == DOMAIN Payload

ASSUME FactoryAssumption ==
  /\ HostOf \in [Client -> Host]
  /\ Trim \in [Text -> Text] /\ Lower \in [Text -> Text] /\ Bucket \in BOOLEAN
  /\ {Blank, BuildingIdle} \subseteq Text /\ WorkOrder \subseteq Text
  /\ \A i \in Id : Payload[i] \in
       [building : Text, machine : Text, name : Text, energy : Text, idle : Nat, time : Nat,
        idleTime : Nat, minutes : [WorkOrder -> Nat], published : Nat]
  /\ Row \subseteq Text \X Text \X Text
  /\ \A d \in InitialDocs : d = None \/ IsDoc(d)
  /\ ~IsDoc(None) /\ ~IsDoc(Torn) /\ None \notin Id
  /\ MaxOthers \in Nat /\ MaxFaults \in Nat

VARIABLES
  file,    \* file[h]: the local file of h: a document, None or Torn
  s3,      \* the S3 object, a document or None
  thr,     \* thr[c]: how far request c is
  used,    \* payloads posted so far
  others,  \* deletes and reads so far
  faults,
  \* History, to state the properties:
  truth,   \* truth[h]: what the changes h made, one after the other, amount to,
           \* from the document its file began with
  sound,   \* hosts without overlapping writers or damaged writes so far
  savers,  \* hosts that have changed the document
  behind   \* a call to S3 failed, or its caller died before it

vars == <<file, s3, thr, used, others, faults, truth, sound, savers, behind>>
disk == <<file, s3>>
history == <<truth, sound, savers, behind>>

Pcs == {"idle", "load", "s3get", "pullopen", "pullwrite", "push", "apply", "saveopen", "savewrite", "s3put"}

Empty == [r \in {} |-> {}]
Idle  == [pc |-> "idle", op |-> "read", id |-> None, building |-> None, data |-> Empty, mixed |-> FALSE]

At(c, l)   == thr[c].pc = l
Goto(c, l) == thr' = [thr EXCEPT ![c].pc = l]
End(c)     == thr' = [thr EXCEPT ![c] = Idle]
Here(c)    == HostOf[c]
Fault      == faults < MaxFaults /\ faults' = faults + 1

-----------------------------------------------------------------------------
(* Payloads and rows *)

Or(a, b) == IF Trim[a] = Blank THEN b ELSE Trim[a]

\* GeneralConsumptionPayload: without a machine the payload is the building's.
Machine(p) == Or(p.machine, Or(p.name, BuildingIdle))
Label(p)   == Or(p.name, Or(p.machine, Trim[p.building]))
RowOf(p)   == <<Trim[p.building], Machine(p), Lower[Trim[p.energy]]>>

ASSUME RowsAssumption == \A i \in Id : RowOf(Payload[i]) \in Row

NewNode(p) == [idle |-> 0, time |-> 0, idleTime |-> 0, minutes |-> [w \in WorkOrder |-> 0],
               name |-> Label(p), count |-> 0, published |-> 0]

Later(a, b) == IF a > b THEN a ELSE b

\* Mutant of Added: the idle minutes are taken off.
AddedTakesOff(n, p) ==
  [idle |-> n.idle + p.idle, time |-> n.time + p.time, idleTime |-> n.idleTime - p.idleTime,
   minutes |-> [w \in WorkOrder |-> n.minutes[w] + p.minutes[w]],
   name |-> Label(p), count |-> n.count + 1, published |-> Later(p.published, n.published)]

\* Mutant of Added: the idle minutes are not summed.
AddedForgetsIdle(n, p) ==
  [idle |-> n.idle + p.idle, time |-> n.time + p.time, idleTime |-> p.idleTime,
   minutes |-> [w \in WorkOrder |-> n.minutes[w] + p.minutes[w]],
   name |-> Label(p), count |-> n.count + 1, published |-> Later(p.published, n.published)]

\* The two old names of the minutes' fields are read and replaced; 0 is no date.
Added(n, p) ==
  [idle |-> n.idle + p.idle, time |-> n.time + p.time, idleTime |-> n.idleTime + p.idleTime,
   minutes |-> [w \in WorkOrder |-> n.minutes[w] + p.minutes[w]],
   name |-> Label(p), count |-> n.count + 1, published |-> Later(p.published, n.published)]

Merged(d, p) ==
  LET r == RowOf(p) IN
  [q \in DOMAIN d \cup {r} |->
     IF q = r THEN Added(IF r \in DOMAIN d THEN d[r] ELSE NewNode(p), p) ELSE d[q]]

\* The building with this id or else one with this id but for blanks around it.
Keys(d, b) ==
  LET all == {r[1] : r \in DOMAIN d} IN
  IF Trim[b] \in all THEN {Trim[b]} ELSE {k \in all : Trim[k] = Trim[b]}

Without(d, k) == [r \in {q \in DOMAIN d : q[1] # k} |-> d[r]]

-----------------------------------------------------------------------------
(* Requests *)

\* Anything that is no JSON object reads as {}.
Readable(x) == IF x \in {None, Torn} THEN Empty ELSE x

Changing(c)  == thr[c].op # "read" /\ ~At(c, "idle")
Pulling(c)   == thr[c].pc \in {"s3get", "pullopen", "pullwrite"}
Writing(c)   == thr[c].pc \in {"pullwrite", "savewrite"}
Others(c)    == {d \in Client \ {c} : Here(d) = Here(c)}
Crowded(c)   == \E d \in Others(c) : Changing(d) \/ Pulling(d)
Unsound(h)   == sound' = sound \ {h}

Init ==
  /\ \E d \in InitialDocs, fresh \in SUBSET Host :
       /\ s3 = IF Bucket THEN d ELSE None
       /\ file = [h \in Host |-> IF h \in fresh THEN None ELSE d]
  /\ thr = [c \in Client |-> Idle]
  /\ used = {} /\ others = 0 /\ faults = 0
  /\ truth = [h \in Host |-> Readable(file[h])]
  /\ sound = Host /\ savers = {} /\ behind = FALSE

Started(c, op, i, b) ==
  /\ At(c, "idle")
  /\ thr' = [thr EXCEPT ![c] = [pc |-> "load", op |-> op, id |-> i, building |-> b,
                                data |-> Empty, mixed |-> FALSE]]

Post(c) ==
  /\ \E i \in Id \ used : Started(c, "merge", i, None) /\ used' = used \cup {i}
  /\ IF Crowded(c) THEN Unsound(Here(c)) ELSE UNCHANGED sound
  /\ UNCHANGED <<disk, others, faults, truth, savers, behind>>

Other == others < MaxOthers /\ others' = others + 1

Delete(c) ==
  /\ Other
  /\ \E b \in {x \in Text : Trim[x] \in {Trim[r[1]] : r \in Row}} : Started(c, "delete", None, b)
  /\ IF Crowded(c) THEN Unsound(Here(c)) ELSE UNCHANGED sound
  /\ UNCHANGED <<disk, used, faults, truth, savers, behind>>

Read(c) ==
  /\ Other
  /\ Started(c, "read", None, None)
  /\ UNCHANGED <<disk, used, faults, history>>

-----------------------------------------------------------------------------
(* _load_factory_db *)

\* Mutant of LoadLocal: an empty document counts as no file.
LoadLocalTruthy(c) ==
  /\ At(c, "load") /\ file[Here(c)] # None
  /\ thr' = [thr EXCEPT ![c].pc = IF Readable(file[Here(c)]) = Empty THEN "s3get" ELSE "apply",
                        ![c].data = Readable(file[Here(c)])]
  /\ UNCHANGED <<disk, used, others, faults, history>>

\* Whatever the local file holds is the document, {} too.
LoadLocal(c) ==
  /\ At(c, "load") /\ file[Here(c)] # None
  /\ thr' = [thr EXCEPT ![c].pc = "apply", ![c].data = Readable(file[Here(c)])]
  /\ UNCHANGED <<disk, used, others, faults, history>>

LoadMisses(c) ==
  /\ At(c, "load") /\ file[Here(c)] = None
  /\ Goto(c, "s3get")
  /\ IF Crowded(c) THEN Unsound(Here(c)) ELSE UNCHANGED sound
  /\ UNCHANGED <<disk, used, others, faults, truth, savers, behind>>

\* JsonStore.load, where there was no local file: the object is copied to it.
S3Get(c) ==
  /\ At(c, "s3get") /\ s3 # None
  /\ thr' = [thr EXCEPT ![c].pc = "pullopen", ![c].data = s3]
  /\ UNCHANGED <<disk, used, others, faults, history>>

\* No object, or no bucket: the file is looked at again, and pushed to the
\* bucket if it is there by now.
S3Misses(c) ==
  LET d == Readable(file[Here(c)]) IN
  thr' = [thr EXCEPT ![c].pc = IF d = Empty \/ ~Bucket THEN "apply" ELSE "push", ![c].data = d]

S3Miss(c) ==
  /\ At(c, "s3get") /\ s3 = None
  /\ S3Misses(c)
  /\ UNCHANGED <<disk, used, others, faults, history>>

\* After three attempts a failure reads as "no object".
S3GetFails(c) ==
  /\ At(c, "s3get") /\ Bucket /\ Fault
  /\ S3Misses(c)
  /\ behind' = TRUE
  /\ UNCHANGED <<disk, used, others, truth, sound, savers>>

Push(c) ==
  /\ At(c, "push")
  /\ s3' = thr[c].data
  /\ Goto(c, "apply")
  /\ savers' = savers \cup {Here(c)}
  /\ UNCHANGED <<file, used, others, faults, truth, sound, behind>>

PushFails(c) ==
  /\ At(c, "push") /\ Fault
  /\ s3' \in {s3, thr[c].data}
  /\ Goto(c, "apply")
  /\ behind' = TRUE
  /\ UNCHANGED <<file, used, others, truth, sound, savers>>

\* Opening empties the file.  A write that is under way meets it there.
Opened(c) ==
  /\ file' = [file EXCEPT ![Here(c)] = Torn]
  /\ thr' = [d \in Client |->
       IF d = c THEN [thr[c] EXCEPT !.pc = IF At(c, "pullopen") THEN "pullwrite" ELSE "savewrite",
                                    !.mixed = \E e \in Others(c) : Writing(e)]
       ELSE IF d \in Others(c) /\ Writing(d) THEN [thr[d] EXCEPT !.mixed = TRUE] ELSE thr[d]]

Open(c) ==
  /\ thr[c].pc \in {"pullopen", "saveopen"}
  /\ Opened(c)
  /\ UNCHANGED <<s3, used, others, faults, history>>

\* Two writers at once may leave the blocks of both.
Written(c) == file' \in {[file EXCEPT ![Here(c)] = x] :
                          x \in {thr[c].data} \cup (IF thr[c].mixed THEN {Torn} ELSE {})}

PullWrite(c) ==
  /\ At(c, "pullwrite")
  /\ Written(c)
  /\ thr' = [thr EXCEPT ![c].pc = "apply", ![c].mixed = FALSE]
  /\ truth' = [truth EXCEPT ![Here(c)] = thr[c].data]
  /\ UNCHANGED <<s3, used, others, faults, sound, savers, behind>>

\* _write_local only logs an OSError; the file stays as it was or is cut.
PullFails(c) ==
  /\ thr[c].pc \in {"pullopen", "pullwrite"} /\ Fault
  /\ thr' = [thr EXCEPT ![c].pc = "apply", ![c].mixed = FALSE]
  /\ IF At(c, "pullwrite") THEN Unsound(Here(c)) ELSE UNCHANGED sound
  /\ UNCHANGED <<disk, used, others, truth, savers, behind>>

-----------------------------------------------------------------------------
(* The change, _save_factory_db, the answer *)

Answer(c) ==
  /\ At(c, "apply")
  /\ \/ thr[c].op = "read"
     \/ thr[c].op = "delete" /\ Keys(thr[c].data, thr[c].building) = {}
  /\ End(c)
  /\ UNCHANGED <<disk, used, others, faults, history>>

Applied(d, x) ==
  IF x.op = "merge" THEN Merged(d, Payload[x.id]) ELSE Without(d, x.building)

\* Without a file the change is the first, to what the bucket held.
Based(c) == truth' = IF file[Here(c)] = None THEN [truth EXCEPT ![Here(c)] = thr[c].data] ELSE truth

Merge(c) ==
  /\ At(c, "apply") /\ thr[c].op = "merge"
  /\ thr' = [thr EXCEPT ![c].data = Applied(thr[c].data, thr[c]), ![c].pc = "saveopen"]
  /\ Based(c)
  /\ UNCHANGED <<disk, used, others, faults, sound, savers, behind>>

Drop(c) ==
  /\ At(c, "apply") /\ thr[c].op = "delete"
  /\ \E k \in Keys(thr[c].data, thr[c].building) :
       thr' = [thr EXCEPT ![c].data = Without(thr[c].data, k), ![c].building = k,
                          ![c].pc = "saveopen"]
  /\ Based(c)
  /\ UNCHANGED <<disk, used, others, faults, sound, savers, behind>>

\* Mutant of AfterLocal: the bucket is not written.
AfterLocalEnds(x) == Idle

AfterLocal(x) == [x EXCEPT !.pc = "s3put", !.mixed = FALSE]

\* The change is made: h's document is its last one with this change.
SaveWrite(c) ==
  /\ At(c, "savewrite")
  /\ Written(c)
  /\ thr' = [thr EXCEPT ![c] = AfterLocal(thr[c])]
  /\ truth' = [truth EXCEPT ![Here(c)] = Applied(truth[Here(c)], thr[c])]
  /\ savers' = savers \cup {Here(c)}
  /\ UNCHANGED <<s3, used, others, faults, sound, behind>>

\* require_local_write: the request is answered with an error.
SaveFails(c) ==
  /\ thr[c].pc \in {"saveopen", "savewrite"} /\ Fault
  /\ End(c)
  /\ IF At(c, "savewrite") THEN Unsound(Here(c)) ELSE UNCHANGED sound
  /\ UNCHANGED <<disk, used, others, truth, savers, behind>>

S3Put(c) ==
  /\ At(c, "s3put")
  /\ s3' = IF Bucket THEN thr[c].data ELSE s3
  /\ End(c)
  /\ UNCHANGED <<file, used, others, faults, history>>

\* Three attempts failed; one may have arrived.  The request succeeds.
S3PutFails(c) ==
  /\ At(c, "s3put") /\ Bucket /\ Fault
  /\ s3' \in {s3, thr[c].data}
  /\ End(c)
  /\ behind' = TRUE
  /\ UNCHANGED <<file, used, others, truth, sound, savers>>

\* An instance restarts on its disk or on a new one.
Restart(h) ==
  /\ Fault
  /\ thr' = [c \in Client |-> IF Here(c) = h THEN Idle ELSE thr[c]]
  /\ \/ /\ UNCHANGED <<file, truth>>
        /\ IF \E c \in Client : Here(c) = h /\ Writing(c) THEN Unsound(h) ELSE UNCHANGED sound
     \/ /\ file' = [file EXCEPT ![h] = None]
        /\ truth' = [truth EXCEPT ![h] = Empty]
        /\ UNCHANGED sound
  /\ behind' = (behind \/ \E c \in Client : Here(c) = h /\ At(c, "s3put"))
  /\ UNCHANGED <<s3, used, others, savers>>

Step(c) ==
  \/ LoadLocal(c) \/ LoadMisses(c) \/ S3Get(c) \/ S3Miss(c) \/ S3GetFails(c) \/ Push(c)
  \/ PushFails(c) \/ Open(c) \/ PullWrite(c) \/ PullFails(c) \/ Answer(c) \/ Merge(c) \/ Drop(c) \/ SaveWrite(c) \/ SaveFails(c) \/ S3Put(c)
  \/ S3PutFails(c)

Next ==
  \/ \E c \in Client : Post(c) \/ Delete(c) \/ Read(c) \/ Step(c)
  \/ \E h \in Host : Restart(h)

Spec == Init /\ [][Next]_vars

-----------------------------------------------------------------------------

TypeOK ==
  /\ \A h \in Host : file[h] \in {None, Torn} \/ IsDoc(file[h])
  /\ s3 = None \/ IsDoc(s3)
  /\ \A c \in Client :
       /\ thr[c].pc \in Pcs /\ thr[c].op \in {"merge", "delete", "read"}
       /\ thr[c].op = "merge" <=> thr[c].id \in Id
       /\ IsDoc(thr[c].data) /\ thr[c].mixed \in BOOLEAN
  /\ used \subseteq Id /\ others \in 0 .. MaxOthers /\ faults \in 0 .. MaxFaults
  /\ \A h \in Host : IsDoc(truth[h])
  /\ sound \subseteq Host /\ savers \subseteq Host /\ behind \in BOOLEAN

Documents == ({file[h] : h \in Host} \cup {s3} \cup {thr[c].data : c \in Client}) \ {None, Torn}

\* n is what the payloads S make of the row that started as b.
SumsUp(n, b, S) ==
  /\ n.idle = b.idle + SumFunction([i \in S |-> Payload[i].idle])
  /\ n.time = b.time + SumFunction([i \in S |-> Payload[i].time])
  /\ n.idleTime = b.idleTime + SumFunction([i \in S |-> Payload[i].idleTime])
  /\ \A w \in WorkOrder : n.minutes[w] = b.minutes[w] + SumFunction([i \in S |-> Payload[i].minutes[w]])
  /\ n.count = b.count + Cardinality(S)
  /\ \A i \in S : n.published >= Payload[i].published

\* However merges, deletes, restarts and lost updates interleave, every row of
\* every document is the sum of some of the payloads posted for it, each
\* counted once and in all of its fields: energy, minutes, work orders, count
\* and date never tell of different sets of payloads.
RowsAreWholeMerges ==
  \A d \in Documents : \A r \in DOMAIN d :
    \E S \in SUBSET {i \in used : RowOf(Payload[i]) = r} :
      \/ \E b \in InitialDocs \ {None} : r \in DOMAIN b /\ SumsUp(d[r], b[r], S)
      \/ \E i \in S : SumsUp(d[r], NewNode(Payload[i]), S)

BeingWritten(h) == \E c \in Client : HostOf[c] = h /\ Writing(c)

\* What an instance answered as stored is in its file, and what it answered as
\* deleted is not, the last building included, whatever becomes of the bucket
\* and whatever other instances store there (factory_consumption_service.py:
\* 34-41), and with no bucket at all.  Excepted are instances whose writers
\* overlapped, a load that finds no file among them, or whose write failed or
\* died half way.
FileIsWhatWasAcknowledged ==
  \A h \in sound : file[h] # None /\ ~BeingWritten(h) => Readable(file[h]) = truth[h]

\* While only one instance changes the document and no call to S3 fails, the
\* bucket holds that instance's document as soon as no save is under way, so a
\* new instance starts from what was acknowledged.
ObjectFollowsTheOnlyWriter ==
  \A h \in sound :
    /\ Bucket /\ savers = {h} /\ ~behind /\ file[h] # None /\ ~BeingWritten(h)
    /\ \A c \in Client : ~At(c, "s3put")
    => s3 = truth[h]
=============================================================================
