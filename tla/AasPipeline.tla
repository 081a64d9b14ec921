---------------------------- MODULE AasPipeline ----------------------------
(***************************************************************************)
(* The AAS flow (app/services/aas_service.py).  A poller lists the shells, *)
(* discovers their Bill-of-Process machines, and takes the shells one by   *)
(* one: status, processes, computation, submission to SiGREEN, mark, end   *)
(* status, work order record.  The daemon thread of the process polls for  *)
(* ever; a POST /api/aas/process_shells runs the same cycle once, at any   *)
(* time and beside it.  Every call to the AAS server, to SiGREEN and to    *)
(* the disk is a step of its own and may fail.                             *)
(***************************************************************************)
EXTENDS Naturals, Sequences

CONSTANTS
  Poller,    \* the threads that run cycles
  Daemon,    \* those that do so for ever
  Shell,
  Shells,    \* the order in which find_shells lists the shells
  Kind,      \* Kind[s], see Kinds
  Process,
  Submodel,
  SubmodelOf, \* SubmodelOf[p]: the Bill_of_Process submodel that lists p
  ShellOf,   \* ShellOf[p]: the shell that refers to that submodel
  MachineOf, \* MachineOf[p]: the name of the machine p runs on
  Unlabelled, \* shells without an OperationStatus in CommonParameter/Details
  MaxFaults, \* bound on failed calls and restarts
  MaxSent    \* submissions of one shell by one poller are counted up to this

\* "good": the report can be built.  "nodata": there is no consumption, or it
\* has no footprint.  "malformed": a value of the shell raises an exception
\* that _process_shell does not catch, such as a date that is no ISO date.
\* "other": no "WO" in the shell's id, so no work order.
Kinds == {"good", "nodata", "malformed", "other"}

ASSUME AasAssumption ==
  /\ Daemon \subseteq Poller
  /\ Shells \in Seq(Shell) /\ Shells # << >>  \* with none a cycle does nothing
  /\ \A s \in Shell : \E i \in DOMAIN Shells : Shells[i] = s
  /\ Kind \in [Shell -> Kinds]
  /\ SubmodelOf \in [Process -> Submodel] /\ ShellOf \in [Process -> Shell]
  \* no two shells refer to one submodel
  /\ \A p, q \in Process : SubmodelOf[p] = SubmodelOf[q] => ShellOf[p] = ShellOf[q]
  /\ Unlabelled \subseteq Shell
  /\ MaxFaults \in Nat /\ MaxSent \in Nat \ {0}

VARIABLES
  ended,     \* processes whose status is Ended or Aborted
  status,    \* shells whose OperationStatus reads Ended
  marked,    \* shell ids in aas_processed_shells.json
  record,    \* shells with a work order record
  thr,       \* thr[t]: where t is in its cycle and what it holds
  faults,    \* failed calls and restarts so far
  \* Kept to state the properties:
  sent,      \* sent[t][s]: how often t's report for s reached SiGREEN
  blame      \* blame[t][s]: the failures t met while it dealt with s

outside == <<ended, status, marked, record>>
history == <<sent, blame>>
vars    == <<outside, thr, faults, history>>

Pcs == {"sleep", "discover", "status", "procs", "compute", "hung", "send", "mark",
        "markwrite", "finish", "persist"}

\* missed: the submodels the cycle could not read (history).
Asleep == [pc |-> "sleep", at |-> 0, machines |-> {}, missed |-> {}, counted |-> {},
           seen |-> {}]

Procs(s)     == {p \in Process : ShellOf[p] = s}
Now(t)       == Shells[thr[t].at]
Mine(t)      == {p \in thr[t].machines : ShellOf[p] = Now(t)}
At(t, l)     == thr[t].pc = l
Goto(t, l)   == thr' = [thr EXCEPT ![t].pc = l]
Submitted(s) == \E t \in Poller : sent[t][s] > 0

ShellAfter(r) ==
  [r EXCEPT !.pc = "status", !.at = r.at + 1, !.counted = {}, !.seen = {}]

\* Mutant of NextShell: one shell too many.
NextShellOverrun(t) ==
  thr' = [thr EXCEPT ![t] = IF thr[t].at \leq Len(Shells) THEN ShellAfter(thr[t]) ELSE Asleep]

\* The poller holds nothing more of this shell, and takes the next one.
NextShell(t) ==
  thr' = [thr EXCEPT ![t] = IF thr[t].at < Len(Shells) THEN ShellAfter(thr[t]) ELSE Asleep]

\* An exception nobody caught, or the end of the cycle.
Abort(t) == thr' = [thr EXCEPT ![t] = Asleep]

Fault ==
  /\ faults < MaxFaults
  /\ faults' = faults + 1

\* A failure while t deals with its current shell.
Blamed(t) ==
  /\ Fault
  /\ blame' = [blame EXCEPT ![t][Now(t)] = @ + 1]

Init ==
  /\ ended = {} /\ status = {} /\ marked = {} /\ record = {}
  /\ thr = [t \in Poller |-> Asleep]
  /\ faults = 0
  /\ sent = [t \in Poller |-> [s \in Shell |-> 0]]
  /\ blame = [t \in Poller |-> [s \in Shell |-> 0]]

\* The plant: a process ends or is aborted, for good.
Finish(p) ==
  /\ p \notin ended
  /\ ended' = ended \cup {p}
  /\ UNCHANGED <<status, marked, record, thr, faults, history>>

-----------------------------------------------------------------------------
(* The cycle begins *)

\* find_shells; a failure ends the cycle, which is begun again later.
StartCycle(t) ==
  /\ At(t, "sleep")
  /\ Goto(t, "discover")
  /\ UNCHANGED <<outside, faults, history>>

StartFails(t) ==
  /\ thr[t].pc \in {"sleep", "discover"} /\ Fault
  /\ Abort(t)
  /\ UNCHANGED <<outside, history>>

\* Mutant of OnePerMachine: one process for each machine of the whole list.
OnePerMachineAnywhere(ps) ==
  {f \in SUBSET ps :
     /\ {MachineOf[p] : p \in f} = {MachineOf[p] : p \in ps}
     /\ \A p, q \in f : MachineOf[p] = MachineOf[q] => p = q}

\* discover_bop_machines keeps one process for each machine of a shell: the
\* one that happens to be listed first.
OnePerMachine(ps) ==
  {f \in SUBSET ps :
     /\ {<<ShellOf[p], MachineOf[p]>> : p \in f} = {<<ShellOf[p], MachineOf[p]>> : p \in ps}
     /\ \A p, q \in f : ShellOf[p] = ShellOf[q] /\ MachineOf[p] = MachineOf[q] => p = q}

WorkOrderShells == {s \in Shell : Kind[s] # "other"}

\* The machines listed in the submodels ms of the shells of work orders.
Discovered(t, ms) ==
  \E f \in OnePerMachine({p \in Process : ShellOf[p] \in WorkOrderShells /\ SubmodelOf[p] \in ms}) :
    thr' = [thr EXCEPT ![t] = [Asleep EXCEPT !.pc = "status", !.at = 1, !.machines = f,
                                             !.missed = Submodel \ ms]]

Discover(t) ==
  /\ At(t, "discover")
  /\ Discovered(t, Submodel)
  /\ UNCHANGED <<outside, faults, history>>

\* An outage.  Every submodel that cannot be read is passed over, one by one:
\* a shell may keep the machines of its other submodels.
DiscoverPasses(t) ==
  /\ At(t, "discover") /\ Fault
  /\ \E ms \in SUBSET Submodel : ms # Submodel /\ Discovered(t, ms)
  /\ UNCHANGED <<outside, history>>

-----------------------------------------------------------------------------
(* _process_shell, up to the submission *)

\* Mutant of ReadStatus: the status of the shell is not looked at.
ReadStatusNever(t) ==
  /\ At(t, "status")
  /\ IF Kind[Now(t)] = "other" THEN NextShell(t) ELSE Goto(t, "procs")
  /\ UNCHANGED <<outside, faults, history>>

ReadStatus(t) ==
  /\ At(t, "status")
  /\ IF Kind[Now(t)] = "other" \/ Now(t) \in status THEN NextShell(t) ELSE Goto(t, "procs")
  /\ UNCHANGED <<outside, faults, history>>

\* Any exception reads as "no status", and the shell is processed.
ReadStatusFails(t) ==
  /\ At(t, "status") /\ Kind[Now(t)] # "other"
  /\ Blamed(t)
  /\ Goto(t, "procs")
  /\ UNCHANGED <<outside, sent>>

\* No machines, or a process that is still running: the shell is skipped.
CheckProcesses(t) ==
  /\ At(t, "procs")
  /\ IF Mine(t) # {} /\ Mine(t) \subseteq ended THEN Goto(t, "compute") ELSE NextShell(t)
  /\ UNCHANGED <<outside, faults, history>>

\* A missing status element skips the shell; an HTTP or connection error is
\* caught by no one and ends the whole cycle.
CheckFails(t) ==
  /\ At(t, "procs") /\ Mine(t) # {}
  /\ Blamed(t)
  /\ NextShell(t) \/ Abort(t)
  /\ UNCHANGED <<outside, sent>>

\* Mutant of Compute: an error of one shell ends the cycle.
ComputeStopsAtError(t) ==
  /\ At(t, "compute")
  /\ IF Kind[Now(t)] = "good"
     THEN thr' = [thr EXCEPT ![t].pc = "send", ![t].counted = Mine(t)]
     ELSE Abort(t)
  /\ UNCHANGED <<outside, faults, history>>

\* Energy, intensity, materials, idle shares, report, product UUID.
Compute(t) ==
  /\ At(t, "compute")
  /\ \/ /\ Kind[Now(t)] = "good"
        /\ thr' = [thr EXCEPT ![t].pc = "send", ![t].counted = Mine(t)]
     \/ Kind[Now(t)] = "nodata" /\ NextShell(t)
     \/ Kind[Now(t)] = "malformed" /\ Abort(t)
  /\ UNCHANGED <<outside, faults, history>>

\* The intensity or the product lookup fails: the shell is left.  A failure
\* to read the shell's details or the idle shares may be caught by no one.
ComputeFails(t) ==
  /\ At(t, "compute") /\ Kind[Now(t)] = "good"
  /\ Blamed(t)
  /\ NextShell(t) \/ Abort(t)
  /\ UNCHANGED <<outside, sent>>

\* Green Grid Compass takes the request for the intensity and never answers:
\* get_carbon_data waits without a timeout.
GridHangs(t) ==
  /\ At(t, "compute") /\ Kind[Now(t)] \in {"good", "nodata"}
  /\ Blamed(t)
  /\ Goto(t, "hung")
  /\ UNCHANGED <<outside, sent>>

\* Processes whose energy cannot be read count as 0 kWh.  The shell is left
\* only when nothing remains.
EnergyUnread(t) ==
  /\ At(t, "compute") /\ Kind[Now(t)] = "good"
  /\ Blamed(t)
  /\ \E c \in SUBSET Mine(t) :
       /\ c # Mine(t)
       /\ IF c = {} THEN NextShell(t)
          ELSE thr' = [thr EXCEPT ![t].pc = "send", ![t].counted = c]
  /\ UNCHANGED <<outside, sent>>

Reaches(t) == sent' = [sent EXCEPT ![t][Now(t)] = IF @ < MaxSent THEN @ + 1 ELSE @]

\* Mutant of Send: the outcome of the upload is not waited for.
SendUnconfirmed(t) ==
  /\ At(t, "send")
  /\ Goto(t, "mark")
  /\ UNCHANGED <<outside, faults, history>>

Send(t) ==
  /\ At(t, "send")
  /\ Reaches(t)
  /\ Goto(t, "mark")
  /\ UNCHANGED <<outside, faults, blame>>

\* SiGREEN may have accepted the report all the same.
SendFails(t) ==
  /\ At(t, "send")
  /\ Blamed(t)
  /\ Reaches(t) \/ UNCHANGED sent
  /\ NextShell(t)
  /\ UNCHANGED outside

-----------------------------------------------------------------------------
(* _process_shell, after the submission *)

\* _mark_shell_processed loads the file and writes it.  Nothing reads it
\* but the next mark.
Mark(t) ==
  /\ At(t, "mark")
  /\ thr' = [thr EXCEPT ![t].pc = "markwrite", ![t].seen = marked]
  /\ UNCHANGED <<outside, faults, history>>

MarkWrite(t) ==
  /\ At(t, "markwrite")
  /\ marked' = thr[t].seen \cup {Now(t)}
  /\ Goto(t, "finish")
  /\ UNCHANGED <<ended, status, record, faults, history>>

\* Counts as a failed submission: the status is not set, no record is stored.
\* The file may be left empty.
MarkFails(t) ==
  /\ At(t, "markwrite")
  /\ Blamed(t)
  /\ marked' \in {marked, {}}
  /\ NextShell(t)
  /\ UNCHANGED <<ended, status, record, sent>>

\* A shell without the property keeps none; either way the flow goes on.
SetEnded(t) ==
  /\ At(t, "finish")
  /\ status' = status \cup ({Now(t)} \ Unlabelled)
  /\ Goto(t, "persist")
  /\ UNCHANGED <<ended, marked, record, faults, history>>

SetEndedFails(t) ==
  /\ At(t, "finish")
  /\ Blamed(t)
  /\ status' \in {status, status \cup ({Now(t)} \ Unlabelled)}
  /\ Goto(t, "persist")
  /\ UNCHANGED <<ended, marked, record, sent>>

\* update_from_aas (module WorkOrders); its failure is a warning.
Persist(t) ==
  /\ At(t, "persist")
  /\ record' = record \cup {Now(t)}
  /\ NextShell(t)
  /\ UNCHANGED <<ended, status, marked, faults, history>>

PersistFails(t) ==
  /\ At(t, "persist")
  /\ Blamed(t)
  /\ NextShell(t)
  /\ UNCHANGED <<outside, sent>>

\* The process dies and restarts.  A mark being written is lost or empties
\* the file.
Crash ==
  /\ Fault
  /\ \E t \in Poller : ~At(t, "sleep")
  /\ thr' = [t \in Poller |-> Asleep]
  /\ blame' = [t \in Poller |-> [s \in Shell |->
                 IF thr[t].at > 0 /\ Now(t) = s THEN blame[t][s] + 1 ELSE blame[t][s]]]
  /\ marked' \in IF \E t \in Poller : At(t, "markwrite") THEN {marked, {}} ELSE {marked}
  /\ UNCHANGED <<ended, status, record, sent>>

Step(t) ==
  \/ StartCycle(t) \/ StartFails(t) \/ Discover(t) \/ DiscoverPasses(t)
  \/ ReadStatus(t) \/ ReadStatusFails(t) \/ CheckProcesses(t) \/ CheckFails(t)
  \/ Compute(t) \/ ComputeFails(t) \/ GridHangs(t) \/ EnergyUnread(t)
  \/ Send(t) \/ SendFails(t) \/ Mark(t) \/ MarkWrite(t) \/ MarkFails(t)
  \/ SetEnded(t) \/ SetEndedFails(t) \/ Persist(t) \/ PersistFails(t)

Next ==
  \/ \E t \in Poller : Step(t)
  \/ \E p \in Process : Finish(p)
  \/ Crash

Spec == Init /\ [][Next]_vars

\* A daemon's thread is always scheduled again, its sleep ends, and its calls
\* return or time out, but for the query of Green Grid Compass, which has no
\* timeout: no step leads out of "hung".  Nothing makes a manual cycle start, a
\* process end or the server restart.
FairSpec == Spec /\ \A t \in Daemon : WF_vars(Step(t))

-----------------------------------------------------------------------------

TypeOK ==
  /\ ended \subseteq Process
  /\ status \subseteq Shell /\ marked \subseteq Shell /\ record \subseteq Shell
  /\ thr \in [Poller -> [pc : Pcs, at : 0 .. Len(Shells), machines : SUBSET Process,
                         missed : SUBSET Submodel, counted : SUBSET Process,
                         seen : SUBSET Shell]]
  /\ faults \in 0 .. MaxFaults
  /\ sent \in [Poller -> [Shell -> 0 .. MaxSent]]
  /\ blame \in [Poller -> [Shell -> 0 .. MaxFaults]]

\* Whatever marks a shell as done (its status, its id in the file, its work
\* order record) was preceded by a report of it that reached SiGREEN: no
\* failure, restart or second poller leaves a shell done but unreported.
DoneMeansSubmitted ==
  \A s \in status \cup marked \cup record : Submitted(s)

\* The processes of s in submodels that t could read.
Listed(t, s) == {p \in Procs(s) : SubmodelOf[p] \notin thr[t].missed}

\* A report about to be sent counts only processes that have ended, and one
\* made without a failure while the shell was dealt with counts one process of
\* every machine of the submodels that discovery read, however discovery, the
\* processes' end and the check interleave.
ReportsCoverMachines ==
  \A t \in Poller : At(t, "send") =>
    /\ thr[t].counted \subseteq ended
    /\ blame[t][Now(t)] = 0 =>
         {MachineOf[p] : p \in thr[t].counted} = {MachineOf[p] : p \in Listed(t, Now(t))}

\* A poller submits a shell that has a status once, and once more for each
\* failure it met there at most: a lost answer, a failed mark, a failed status
\* write or read and a restart each cost one duplicate, not one every cycle.
BoundedResubmission ==
  \A t \in Poller, s \in Shell \ Unlabelled : sent[t][s] \leq 1 + blame[t][s]

Ready(s) == Procs(s) # {} /\ Procs(s) \subseteq ended
Index(s) == CHOOSE i \in DOMAIN Shells : Shells[i] = s
Good(s)  == Kind[s] = "good"

\* Once all its processes have ended, a good shell that no malformed shell
\* precedes is submitted and, if it has a status, ended, in spite of finitely
\* many failures and whatever manual cycles do, unless the grid query hangs
\* every daemon for ever.
ReadyShellsAreSubmitted ==
  []<>(\E d \in Daemon : ~At(d, "hung")) =>
    \A s \in Shell :
      Good(s) /\ (\A r \in Shell : Kind[r] = "malformed" => Index(s) < Index(r)) =>
        (Ready(s) ~> (Submitted(s) /\ (s \in status \cup Unlabelled)))

\* aas_service.py:8: the service "skips shells that already had PCF calculated".
SubmittedOnce ==
  \A s \in Shell : \A t, u \in Poller :
    sent[t][s] \leq 1 /\ (sent[t][s] + sent[u][s] > 1 => t = u)

\* aas_service.py:9: "all OperationStatus must be Ended or Aborted" before a
\* shell is calculated and submitted.
SubmittedWhenAllEnded == \A s \in Shell : Submitted(s) => Procs(s) \subseteq ended

\* aas_service.py:767: "one bad shell never aborts the whole cycle", so every
\* good shell whose processes have ended is submitted.
BadShellsAbortNothing == \A s \in Shell : Good(s) => (Ready(s) ~> Submitted(s))
=============================================================================
