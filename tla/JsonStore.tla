----------------------------- MODULE JsonStore -----------------------------
(***************************************************************************)
(* app/storage/json_store.py: one JSON document kept in a file on every    *)
(* instance's disk and, when a bucket is configured, in one S3 object that *)
(* all instances share.  A client is a request thread: it loads the whole  *)
(* document, changes one record (or none) and saves the whole document,    *)
(* which is how every caller of load_database and save_database works.     *)
(* There is no lock, and neither write is a rename: the local file is      *)
(* opened with "w" (emptied) and filled afterwards.                        *)
(*                                                                         *)
(* A document is abstracted to the set of the keys of its records.         *)
(***************************************************************************)
EXTENDS Naturals, FiniteSets

CONSTANTS
  Host,          \* instances, each with a disk of its own
  Primary,       \* the one instance deployed when there is no bucket
  Client,        \* request threads
  HostOf,        \* HostOf[c]: the instance that runs c
  Key,           \* names of records
  None,          \* no S3 object; a local file that is absent or no JSON; no key
  Garbled,       \* a local file that is no UTF-8 text either
  Modes,         \* deployments considered, a subset of Mode
  SingleWriter,  \* TRUE: at most one changing request is in flight
  Failing,       \* kinds of fault considered, a subset of Fault
  MaxFaults      \* bound on failed S3 calls, failed local writes and crashes

\* "local": no bucket.  "firstsync": a bucket that holds no object yet.
\* "s3": a bucket that holds the document.
Mode == {"local", "firstsync", "s3"}
\* A read from S3, a write to S3, a local write, the process.
Fault == {"read", "write", "disk", "restart"}
Doc  == SUBSET Key
Pc   == {"s3get", "pullopen", "pullwrite", "fileread", "push", "apply",
         "saveopen", "savewrite", "s3put"}

ASSUME ConstantsAssumption ==
  /\ Primary \in Host
  /\ HostOf \in [Client -> Host]
  /\ Modes \subseteq Mode
  /\ SingleWriter \in BOOLEAN
  /\ Failing \subseteq Fault
  /\ MaxFaults \in Nat

ASSUME NoneAssumption ==
  /\ None \notin Key /\ Garbled # None
  /\ \A d \in Doc : d # None /\ d # Garbled

VARIABLES
  mode,       \* the deployment; never changes
  file,       \* file[h]: what h's local file holds
  s3,         \* the S3 object
  thr,        \* thr[c]: where c is, its request, the document in its hands
  raced,      \* clients whose open local write overlapped another one
  s3Faults,   \* S3 calls that failed all three attempts
  diskFaults, \* local writes that raised OSError
  crashes,    \* instance restarts
  \* What the callers were told, kept to state the properties:
  kept,       \* keys whose latest change is an acknowledged put
  gone        \* keys whose latest change is an acknowledged delete

store  == <<file, s3, raced>>
faults == <<s3Faults, diskFaults, crashes>>
told   == <<kept, gone>>
vars   == <<mode, store, thr, faults, told>>

Idle == [pc |-> "idle", op |-> "get", key |-> None, data |-> {}, owed |-> {}]

\* owed is a history field: the keys promised when the request began that no
\* delete has claimed since, until the load ends.
Request == [pc : Pc, op : {"get", "put", "delete"}, key : {None} \cup Key,
            data : Doc, owed : Doc]

-----------------------------------------------------------------------------

\* Anything that is no JSON object reads as {}.  A garbled file is not read.
Readable(d) == IF d \in {None, Garbled} THEN {} ELSE d

UsesS3 == mode # "local"

LocalFile(c) == file[HostOf[c]]
At(c, l)     == thr[c].pc = l
Writing(c)   == thr[c].pc \in {"pullwrite", "savewrite"}
Changing(c)  == thr[c].op # "get"
Others(c)    == {d \in Client \ {c} : HostOf[d] = HostOf[c] /\ Writing(d)}

Goto(c, l) == thr' = [thr EXCEPT ![c].pc = l]
End(c)     == thr' = [thr EXCEPT ![c] = Idle]

Init ==
  /\ mode \in Modes
  /\ \E d \in Doc :
       /\ kept = d
       /\ s3 = IF mode = "s3" THEN d ELSE None
       /\ file = [h \in Host |-> IF mode = "s3" THEN None ELSE d]
  /\ thr = [c \in Client |-> Idle]
  /\ raced = {}
  /\ s3Faults = 0 /\ diskFaults = 0 /\ crashes = 0
  /\ gone = {}

\* Mutant of Accepts: a change without the name of its record passes.
AcceptsUnnamed(c, o, k) ==
  /\ mode = "local" => HostOf[c] = Primary
  /\ (SingleWriter /\ o # "get") => \A d \in Client : ~Changing(d)

\* One instance serves all requests when there is no bucket.  A change names
\* its record; a read does not.
Accepts(c, o, k) ==
  /\ mode = "local" => HostOf[c] = Primary
  /\ o = "get" <=> k = None
  /\ (SingleWriter /\ o # "get") => \A d \in Client : ~Changing(d)

(***************************************************************************)
(* A request arrives.  A key stops being promised either way while its     *)
(* change is in flight: the answer to the caller is not out yet.           *)
(***************************************************************************)
Begin(c, o, k) ==
  /\ At(c, "idle") /\ Accepts(c, o, k)
  /\ LET Unclaimed(ks) == IF o = "delete" THEN ks \ {k} ELSE ks
         new == [pc |-> IF UsesS3 THEN "s3get" ELSE "fileread", op |-> o, key |-> k,
                 data |-> {}, owed |-> Unclaimed(kept)]
     IN  /\ thr' = [d \in Client |->
                      IF d = c THEN new ELSE [thr[d] EXCEPT !.owed = Unclaimed(@)]]
         /\ kept' = Unclaimed(kept)
  /\ gone' = IF o = "put" THEN gone \ {k} ELSE gone
  /\ UNCHANGED <<mode, store, faults>>

-----------------------------------------------------------------------------
(* load() *)

\* Mutant of S3Get: a readable local file is preferred to the object.
S3GetPrefersFile(c) ==
  /\ At(c, "s3get") /\ s3 # None
  /\ thr' = [thr EXCEPT ![c].pc = "pullopen",
                        ![c].data = IF LocalFile(c) \in {None, Garbled} THEN s3 ELSE LocalFile(c)]
  /\ UNCHANGED <<mode, store, faults, told>>

\* Mutant of S3Get: the object is written back, as a local document would be.
S3GetWritesBack(c) ==
  /\ At(c, "s3get") /\ s3 # None
  /\ thr' = [thr EXCEPT ![c].pc = "push", ![c].data = s3]
  /\ UNCHANGED <<mode, store, faults, told>>

\* The object is there: it is copied to the local file and returned.
S3Get(c) ==
  /\ At(c, "s3get") /\ s3 # None
  /\ thr' = [thr EXCEPT ![c].pc = "pullopen", ![c].data = s3]
  /\ UNCHANGED <<mode, store, faults, told>>

S3Miss(c) ==
  /\ At(c, "s3get") /\ s3 = None
  /\ Goto(c, "fileread")
  /\ UNCHANGED <<mode, store, faults, told>>

FaultLeft(kind) == kind \in Failing /\ s3Faults + diskFaults + crashes < MaxFaults

S3Fault(kind) ==
  /\ FaultLeft(kind)
  /\ s3Faults' = s3Faults + 1
  /\ UNCHANGED <<diskFaults, crashes>>

\* The third attempt failed: _read_s3 returns None, as for a missing object.
S3GetFails(c) ==
  /\ At(c, "s3get") /\ S3Fault("read")
  /\ Goto(c, "fileread")
  /\ UNCHANGED <<mode, store, told>>

\* A non-empty local document goes on to the bucket that had none.
FileRead(c) ==
  /\ At(c, "fileread") /\ LocalFile(c) # Garbled
  /\ LET d == Readable(LocalFile(c)) IN
       thr' = [thr EXCEPT ![c].data = d,
                          ![c].pc = IF UsesS3 /\ d # {} THEN "push" ELSE "apply"]
  /\ UNCHANGED <<mode, store, faults, told>>

\* ensure_ascii=False: a text cut inside a character, or mixed, may be no
\* UTF-8.  That is a ValueError but no JSONDecodeError, so the load raises it.
FileGarbled(c) ==
  /\ At(c, "fileread")
  /\ LocalFile(c) = Garbled \/ Others(c) # {}
  /\ End(c)
  /\ UNCHANGED <<mode, store, faults, told>>

Push(c) ==
  /\ At(c, "push")
  /\ s3' = thr[c].data
  /\ Goto(c, "apply")
  /\ UNCHANGED <<mode, file, raced, faults, told>>

\* A call that failed for the client may still have reached the bucket.
PushFails(c) ==
  /\ At(c, "push") /\ S3Fault("write")
  /\ s3' \in {s3, thr[c].data}
  /\ Goto(c, "apply")
  /\ UNCHANGED <<mode, file, raced, told>>

-----------------------------------------------------------------------------
(* The caller, between load() and save() *)

\* A read, or a delete of a record that is not there, saves nothing.
NoSave(c) ==
  \/ thr[c].op = "get"
  \/ thr[c].op = "delete" /\ thr[c].key \notin thr[c].data

Answer(c) ==
  /\ At(c, "apply") /\ NoSave(c)
  /\ End(c)
  /\ UNCHANGED <<mode, store, faults, told>>

\* Mutant of Changed: the deleted record is saved again.
ChangedKeepsDeleted(c) ==
  IF thr[c].op = "put" THEN thr[c].data \cup {thr[c].key} ELSE thr[c].data

Changed(c) ==
  IF thr[c].op = "put" THEN thr[c].data \cup {thr[c].key} ELSE thr[c].data \ {thr[c].key}

Apply(c) ==
  /\ At(c, "apply") /\ ~NoSave(c)
  /\ thr' = [thr EXCEPT ![c].pc = "saveopen", ![c].data = Changed(c), ![c].owed = {}]
  /\ UNCHANGED <<mode, store, faults, told>>

-----------------------------------------------------------------------------
(* _write_local, inside load() and inside save() *)

Acknowledge(c) ==
  /\ kept' = IF thr[c].op = "put" THEN kept \cup {thr[c].key} ELSE kept
  /\ gone' = IF thr[c].op = "delete" THEN gone \cup {thr[c].key} ELSE gone
  /\ End(c)

\* Mutant of AfterLocalWrite: save() returns once the local file is written.
AfterLocalWriteNoS3(c) ==
  \/ thr[c].pc \in {"pullopen", "pullwrite"} /\ Goto(c, "apply") /\ UNCHANGED told
  \/ thr[c].pc \in {"saveopen", "savewrite"} /\ Acknowledge(c)

\* What follows the local write: load() returns, save() goes on to the bucket.
AfterLocalWrite(c) ==
  \/ thr[c].pc \in {"pullopen", "pullwrite"} /\ Goto(c, "apply") /\ UNCHANGED told
  \/ thr[c].pc \in {"saveopen", "savewrite"} /\ UsesS3 /\ Goto(c, "s3put") /\ UNCHANGED told
  \/ thr[c].pc \in {"saveopen", "savewrite"} /\ ~UsesS3 /\ Acknowledge(c)

\* open("w") empties the file at once.
OpenFile(c) ==
  /\ thr[c].pc \in {"pullopen", "saveopen"}
  /\ file' = [file EXCEPT ![HostOf[c]] = None]
  /\ raced' = IF Others(c) = {} THEN raced ELSE raced \cup Others(c) \cup {c}
  /\ Goto(c, IF At(c, "pullopen") THEN "pullwrite" ELSE "savewrite")
  /\ UNCHANGED <<mode, s3, faults, told>>

\* json.dump and close.  Two writers of one file mix their blocks: the file
\* ends as either document or as text that is no JSON or no UTF-8.
CloseFile(c) ==
  /\ Writing(c)
  /\ \E d \in IF c \in raced THEN {thr[c].data, None, Garbled, LocalFile(c)} ELSE {thr[c].data} :
       file' = [file EXCEPT ![HostOf[c]] = d]
  /\ raced' = raced \ {c}
  /\ AfterLocalWrite(c)
  /\ UNCHANGED <<mode, s3, faults>>

\* What a file may hold whose writer, if it has one, stops halfway.
CutShort(h) ==
  {file[h]} \cup IF \E c \in Client : HostOf[c] = h /\ Writing(c) THEN {Garbled} ELSE {}

\* OSError on open, or while the emptied file is being filled.  It is logged
\* and forgotten, except in a save whose caller sets require_local_write.
DiskFails(c) ==
  /\ thr[c].pc \in {"pullopen", "pullwrite", "saveopen", "savewrite"}
  /\ FaultLeft("disk")
  /\ diskFaults' = diskFaults + 1
  /\ \E d \in IF Writing(c) THEN CutShort(HostOf[c]) ELSE {LocalFile(c)} :
       file' = [file EXCEPT ![HostOf[c]] = d]
  /\ raced' = raced \ {c}
  /\ \/ AfterLocalWrite(c)
     \/ thr[c].pc \in {"saveopen", "savewrite"} /\ End(c) /\ UNCHANGED told
  /\ UNCHANGED <<mode, s3, s3Faults, crashes>>

-----------------------------------------------------------------------------
(* _write_s3, inside save() *)

S3Put(c) ==
  /\ At(c, "s3put")
  /\ s3' = thr[c].data
  /\ Acknowledge(c)
  /\ UNCHANGED <<mode, file, raced, faults>>

\* All three attempts failed: a warning, and the caller is told all is well.
S3PutFails(c) ==
  /\ At(c, "s3put") /\ S3Fault("write")
  /\ s3' \in {s3, thr[c].data}
  /\ Acknowledge(c)
  /\ UNCHANGED <<mode, file, raced>>

-----------------------------------------------------------------------------

\* The process dies: its requests vanish.  Where there is a bucket the new
\* instance may start with an empty disk (/tmp of a function, a container).
Crash(h) ==
  /\ FaultLeft("restart")
  /\ crashes' = crashes + 1
  /\ \E c \in Client : HostOf[c] = h /\ ~At(c, "idle")
  /\ thr' = [c \in Client |-> IF HostOf[c] = h THEN Idle ELSE thr[c]]
  /\ raced' = {c \in raced : HostOf[c] # h}
  /\ \E d \in CutShort(h) \cup IF UsesS3 THEN {None} ELSE {} :
       file' = [file EXCEPT ![h] = d]
  /\ UNCHANGED <<mode, s3, s3Faults, diskFaults, told>>

Next ==
  \/ \E c \in Client, o \in {"get", "put", "delete"}, k \in {None} \cup Key :
       Begin(c, o, k)
  \/ \E c \in Client :
       \/ S3Get(c) \/ S3Miss(c) \/ S3GetFails(c) \/ FileRead(c) \/ FileGarbled(c)
       \/ Push(c) \/ PushFails(c)
       \/ Answer(c) \/ Apply(c)
       \/ OpenFile(c) \/ CloseFile(c) \/ DiskFails(c) \/ S3Put(c) \/ S3PutFails(c)
  \/ \E h \in Host : Crash(h)

Spec == Init /\ [][Next]_vars

-----------------------------------------------------------------------------

TypeOK ==
  /\ mode \in Mode
  /\ file \in [Host -> {None, Garbled} \cup Doc]
  /\ s3 \in {None} \cup Doc
  /\ thr \in [Client -> {Idle} \cup Request]
  /\ raced \subseteq Client
  /\ s3Faults \in Nat /\ diskFaults \in Nat /\ crashes \in Nat
  /\ s3Faults + diskFaults + crashes \leq MaxFaults
  /\ kept \in Doc /\ gone \in Doc

(***************************************************************************)
(* What the store promises, in each deployment, to callers whose changes   *)
(* do not overlap (SingleWriter).                                          *)
(***************************************************************************)

\* With a bucket that answers, no answer given to a caller is ever taken
\* back: the object holds every record whose last change is an acknowledged
\* put and none whose last change is an acknowledged delete, whatever reads
\* run beside the change, whichever local files are stale, torn, garbled or
\* lost, and wherever an instance dies (load, save and their local copies).
S3KeepsAcknowledged ==
  (mode = "s3" /\ s3Faults = 0) => kept \subseteq s3 /\ gone \cap s3 = {}

\* Under the same conditions a load returns every record promised when its
\* request began and not deleted since: no request is served from the stale
\* or torn local copy.
LoadsSeeAcknowledged ==
  (mode = "s3" /\ s3Faults = 0) =>
    \A c \in Client : At(c, "apply") => thr[c].owed \subseteq thr[c].data

\* Without a bucket the same holds of the one local file, but only while no
\* disk write fails and the process does not die, and never while a save has
\* the file open.
FileKeepsAcknowledged ==
  (mode = "local" /\ diskFaults = 0 /\ crashes = 0 /\ ~\E c \in Client : Writing(c)) =>
    kept \subseteq Readable(file[Primary]) /\ gone \cap Readable(file[Primary]) = {}

\* A bucket that answers sees one atomic change of one record per changing
\* request: a request that only reads never alters an object that is there.
S3ChangesOneRecord ==
  [][(mode = "s3" /\ s3Faults' = 0) =>
       \E c \in Client :
         \/ thr[c].op = "put" /\ s3' = s3 \cup {thr[c].key}
         \/ thr[c].op = "delete" /\ s3' = s3 \ {thr[c].key}]_s3

AtRest == \A c \in Client : At(c, "idle")

\* README.md:69 and 155: with the S3 keys configured state survives redeploys,
\* S3 being there for durability.  So at rest the object holds every record
\* whose last change was acknowledged, however often a call to S3 failed.
StateSurvives == (mode = "s3" /\ AtRest) => kept \subseteq s3

-----------------------------------------------------------------------------
(***************************************************************************)
(* The refinement.  The document is the object in the bucket.  A thread    *)
(* has loaded once it has the object in hand, whatever it still does to    *)
(* its local copy; what a changing thread has seen stays the object until  *)
(* its own put, which is the instant of the change.                        *)
(***************************************************************************)

AbstractPc(l) ==
  CASE l = "idle" -> "idle"
    [] l \in {"s3get", "fileread", "push"} -> "called"
    [] OTHER -> "loaded"

AbstractCall(c) ==
  [pc |-> AbstractPc(thr[c].pc), op |-> thr[c].op, key |-> thr[c].key,
   seen |-> CASE thr[c].pc \in {"pullopen", "pullwrite", "apply"} -> thr[c].data
              [] thr[c].pc \in {"saveopen", "savewrite", "s3put"} -> s3
              [] OTHER -> {}]

Atomic == INSTANCE AtomicStore WITH
  reliable <- (mode = "s3" /\ s3Faults = 0),
  doc      <- s3,
  call     <- [c \in Client |-> AbstractCall(c)]

\* With a bucket that answers and changes that do not overlap, load() and
\* save(), which are up to six steps with two copies of the document, behave as
\* one read and one change of one document, through restarts, failed local
\* writes and readers that write the local file.
ImplementsAtomicStore == Atomic!Spec
=============================================================================
