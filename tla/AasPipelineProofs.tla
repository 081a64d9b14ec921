------------------------- MODULE AasPipelineProofs -------------------------
(***************************************************************************)
(* What holds of AasPipeline for every set of pollers, every list of       *)
(* shells and of processes, and every bound on failures.                   *)
(***************************************************************************)
EXTENDS AasPipeline, TLAPS

Between == {"sleep", "discover"}
Within  == Pcs \ Between

\* Where a poller can be: at no shell before it has discovered, at one after.
Place == [pc : Pcs, at : 0 .. Len(Shells), machines : SUBSET Process,
          missed : SUBSET Submodel, counted : SUBSET Process, seen : SUBSET Shell]
Located == {r \in Place : IF r.pc \in Between THEN r.at = 0 ELSE r.at > 0}

TypeInv ==
  /\ TypeOK
  /\ thr \in [Poller -> Located]
  /\ \A t \in Poller, s \in Shell : blame[t][s] \leq faults

Done == {"mark", "markwrite", "finish", "persist"}

\* What a poller remembers of marks is true, and past the submission its own
\* report of the shell has arrived.
DoneInv ==
  /\ DoneMeansSubmitted
  /\ \A t \in Poller :
       /\ \A s \in thr[t].seen : Submitted(s)
       /\ thr[t].pc \in Done => sent[t][Now(t)] > 0

\* A poller has one submission of a shell in hand that no failure accounts
\* for only between the upload and the end status, or once the shell is ended.
Resubmission(t) ==
  \A s \in Shell \ Unlabelled :
    LET here(pcs) == thr[t].pc \in pcs /\ Now(t) = s
    IN  /\ sent[t][s] \leq 1 + blame[t][s]
        /\ s \notin status /\ ~here({"mark", "markwrite", "finish"}) =>
             sent[t][s] \leq blame[t][s]
        /\ here({"procs", "compute", "send"}) => sent[t][s] \leq blame[t][s]

ResubmissionInv == \A t \in Poller : Resubmission(t)

Machines(ps) == {MachineOf[p] : p \in ps}
Of(ps, s)    == {p \in ps : ShellOf[p] = s}

\* Where a poller holds machines of a shell it holds all those of the submodels
\* it could read, and what it is about to report has ended.
Cover(t) ==
  /\ \A s \in Shell :
       \/ Of(thr[t].machines, s) = {}
       \/ Machines(Of(thr[t].machines, s)) = Machines(Listed(t, s))
  /\ At(t, "compute") => Mine(t) # {} /\ Mine(t) \subseteq ended
  /\ At(t, "send") =>
       /\ thr[t].counted \subseteq ended
       /\ blame[t][Now(t)] = 0 => Machines(thr[t].counted) = Machines(Listed(t, Now(t)))

CoverInv == \A t \in Poller : Cover(t)

\* A step leaves t what it discovered, or nothing of it.
Recalls(t) ==
  \/ thr'[t].machines = thr[t].machines /\ thr'[t].missed = thr[t].missed
  \/ thr'[t].machines = {}

-----------------------------------------------------------------------------

\* A poller that is at a shell is at one of the listed shells.
LEMMA NowIsShell ==
  ASSUME TypeInv, NEW t \in Poller, thr[t].at > 0
  PROVE  Now(t) \in Shell
  <1>1. thr[t].at \in 1 .. Len(Shells)
    BY DEF TypeInv, Located, Place
  <1> QED BY <1>1, AasAssumption DEF Now

\* The parts of a poller's state.
LEMMA Parts ==
  ASSUME TypeInv, NEW t \in Poller
  PROVE  /\ thr[t].pc \in Pcs /\ thr[t].machines \subseteq Process
         /\ thr[t].counted \subseteq Process /\ thr[t].seen \subseteq Shell
         /\ thr[t].at \in 0 .. Len(Shells)
         /\ Mine(t) \subseteq Process
         /\ thr[t].pc \in Between => thr[t].at = 0
         /\ thr[t].pc \in Within => thr[t].at > 0
  <1>1. thr[t] \in Located
    BY DEF TypeInv
  <1> QED BY <1>1 DEF Located, Place, Mine, Within

\* What moving to the next shell does to the parts of a place.
LEMMA AfterParts ==
  ASSUME NEW r \in Place, r.at + 1 \in 0 .. Len(Shells)
  PROVE  LET n == ShellAfter(r)
         IN  /\ n \in Place
             /\ n.pc = "status" /\ n.at = r.at + 1
             /\ n.machines = r.machines /\ n.missed = r.missed
             /\ n.counted = {} /\ n.seen = {}
  <1>1. "status" \in Pcs /\ r.at \in 0 .. Len(Shells) /\ r.machines \in SUBSET Process
    BY DEF Pcs, Place
  <1>2. {} \in SUBSET Process /\ {} \in SUBSET Shell
    OBVIOUS
  <1> QED BY <1>1, <1>2 DEF Place, ShellAfter

\* A move of t to a place r leaves the other pollers where they are.
LEMMA Move ==
  ASSUME TypeInv, NEW t \in Poller, NEW r \in Located, thr' = [thr EXCEPT ![t] = r]
  PROVE  /\ thr' \in [Poller -> Located] /\ thr'[t] = r
         /\ \A u \in Poller \ {t} : thr'[u] = thr[u]
  BY DEF TypeInv

\* A poller between cycles is well placed.
LEMMA AsleepIsLocated == Asleep \in Located
  <1>1. Len(Shells) \in Nat
    BY AasAssumption
  <1> QED BY <1>1 DEF Asleep, Located, Place, Pcs, Between

\* Leaving a shell: the poller holds nothing of it, and its machines are those
\* it had or, at the end of the cycle, none.
LEMMA Leave ==
  ASSUME TypeInv, NEW t \in Poller, thr[t].pc \in Within, NextShell(t) \/ Abort(t)
  PROVE  /\ thr' \in [Poller -> Located]
         /\ \A u \in Poller \ {t} : thr'[u] = thr[u]
         /\ thr'[t].pc \in {"sleep", "status"} /\ thr'[t].seen = {}
         /\ Recalls(t)
  <1> DEFINE nx == ShellAfter(thr[t])
  <1>0. thr[t] \in Place
    BY DEF TypeInv, Located
  <1>1. Len(Shells) \in Nat
    BY AasAssumption
  <1>2. Asleep.pc = "sleep" /\ Asleep.seen = {} /\ Asleep.machines = {}
    BY DEF Asleep
  <1>3. CASE thr' = [thr EXCEPT ![t] = Asleep]
    BY <1>2, <1>3, Move, AsleepIsLocated DEF Recalls
  <1>4. CASE NextShell(t) /\ thr[t].at < Len(Shells)
    <2>5. thr[t].at < Len(Shells)
      BY <1>4
    <2>4. thr[t].at + 1 \in 1 .. Len(Shells)
      BY <1>1, <2>5, Parts
    <2>0. /\ nx \in Place /\ nx.at > 0
          /\ nx.pc = "status" /\ nx.seen = {}
          /\ nx.machines = thr[t].machines /\ nx.missed = thr[t].missed
      BY <1>0, <2>4, AfterParts
    <2>1. nx \in Located
      BY <2>0 DEF Located, Between
    <2>2. thr' = [thr EXCEPT ![t] = nx]
      BY <1>4 DEF NextShell
    <2> HIDE DEF nx
    <2> QED BY <2>0, <2>1, <2>2, Move DEF Recalls
  <1>5. CASE NextShell(t) /\ ~(thr[t].at < Len(Shells))
    <2>1. thr' = [thr EXCEPT ![t] = Asleep]
      BY <1>5 DEF NextShell
    <2> QED BY <1>3, <2>1
  <1> QED BY <1>3, <1>4, <1>5 DEF Abort

\* Going on with a shell changes the program counter alone.
LEMMA GoOn ==
  ASSUME TypeInv, NEW t \in Poller, NEW l \in Within, thr[t].pc \in Within, Goto(t, l)
  PROVE  /\ thr' \in [Poller -> Located]
         /\ \A u \in Poller \ {t} : thr'[u] = thr[u]
         /\ thr'[t] = [thr[t] EXCEPT !.pc = l]
         /\ thr'[t].pc = l /\ thr'[t].at = thr[t].at /\ Recalls(t)
         /\ thr'[t].machines = thr[t].machines /\ thr'[t].missed = thr[t].missed
         /\ thr'[t].seen = thr[t].seen /\ thr'[t].counted = thr[t].counted
  <1>0. thr[t] \in Place
    BY DEF TypeInv, Located
  <1> DEFINE r == [thr[t] EXCEPT !.pc = l]
  <1>1. /\ r \in Located /\ r.pc = l /\ r.at = thr[t].at
        /\ r.machines = thr[t].machines /\ r.missed = thr[t].missed
        /\ r.seen = thr[t].seen /\ r.counted = thr[t].counted
    BY <1>0, Parts DEF Located, Place, Within
  <1>2. thr' = [thr EXCEPT ![t] = r]
    BY DEF Goto, TypeInv
  <1> QED BY <1>1, <1>2, Move DEF Recalls

\* Taking a set of processes to count.
LEMMA Count ==
  ASSUME TypeInv, NEW t \in Poller, NEW c \in SUBSET Process, thr[t].pc = "compute",
         thr' = [thr EXCEPT ![t].pc = "send", ![t].counted = c]
  PROVE  /\ thr' \in [Poller -> Located]
         /\ \A u \in Poller \ {t} : thr'[u] = thr[u]
         /\ thr'[t].pc = "send" /\ thr'[t].at = thr[t].at /\ thr'[t].counted = c
         /\ thr'[t].machines = thr[t].machines /\ thr'[t].missed = thr[t].missed
         /\ thr'[t].seen = thr[t].seen
  <1>0. thr[t] \in Place
    BY DEF TypeInv, Located
  <1> DEFINE r == [thr[t] EXCEPT !.pc = "send", !.counted = c]
  <1>1. /\ r \in Located /\ r.pc = "send" /\ r.at = thr[t].at /\ r.counted = c
        /\ r.machines = thr[t].machines /\ r.missed = thr[t].missed /\ r.seen = thr[t].seen
    <2>1. thr[t].at > 0
      BY Parts DEF Within, Pcs, Between
    <2>2. /\ r \in Place /\ r.pc = "send" /\ r.at = thr[t].at /\ r.counted = c
          /\ r.machines = thr[t].machines /\ r.missed = thr[t].missed /\ r.seen = thr[t].seen
      BY <1>0 DEF Place, Pcs
    <2> QED BY <2>1, <2>2 DEF Located, Between
  <1>2. thr' = [thr EXCEPT ![t] = r]
    BY DEF TypeInv
  <1> QED BY <1>1, <1>2, Move

\* A blamed failure is one of the counted faults.
LEMMA Blame ==
  ASSUME TypeInv, NEW t \in Poller, thr[t].pc \in Within, Blamed(t)
  PROVE  /\ faults' \in 0 .. MaxFaults
         /\ blame' \in [Poller -> [Shell -> 0 .. MaxFaults]]
         /\ \A u \in Poller, s \in Shell : blame'[u][s] \leq faults'
         /\ \A u \in Poller \ {t} : blame'[u] = blame[u]
         /\ blame'[t][Now(t)] = blame[t][Now(t)] + 1
         /\ \A s \in Shell : blame'[t][s] \in {blame[t][s], blame[t][s] + 1}
  <1>1. Now(t) \in Shell
    BY NowIsShell, Parts DEF Within
  <1>2. /\ faults \in 0 .. MaxFaults /\ blame \in [Poller -> [Shell -> 0 .. MaxFaults]]
        /\ \A u \in Poller, s \in Shell : blame[u][s] \leq faults
        /\ MaxFaults \in Nat
    BY AasAssumption DEF TypeInv, TypeOK
  <1>3. /\ faults < MaxFaults /\ faults' = faults + 1
        /\ blame' = [blame EXCEPT ![t][Now(t)] = @ + 1]
    BY DEF Blamed, Fault
  <1>4. /\ \A u \in Poller \ {t} : blame'[u] = blame[u]
        /\ blame'[t] = [blame[t] EXCEPT ![Now(t)] = @ + 1]
        /\ DOMAIN blame' = Poller /\ blame' = [u \in Poller |-> blame'[u]]
    BY <1>2, <1>3
  <1>5. \A s \in Shell : blame'[t][s] = IF s = Now(t) THEN blame[t][s] + 1 ELSE blame[t][s]
    BY <1>1, <1>2, <1>4
  <1>6. \A u \in Poller, s \in Shell : blame'[u][s] \in 0 .. MaxFaults /\ blame'[u][s] \leq faults'
    BY <1>2, <1>3, <1>4, <1>5
  <1>7. \A u \in Poller : blame'[u] \in [Shell -> 0 .. MaxFaults]
    BY <1>2, <1>4, <1>6
  <1> QED BY <1>1, <1>2, <1>3, <1>4, <1>5, <1>6, <1>7

\* A report that reaches SiGREEN is counted once, up to the bound.
LEMMA Reach ==
  ASSUME TypeInv, NEW t \in Poller, thr[t].pc \in Within, Reaches(t)
  PROVE  /\ sent' \in [Poller -> [Shell -> 0 .. MaxSent]]
         /\ \A u \in Poller \ {t} : sent'[u] = sent[u]
         /\ sent'[t][Now(t)] > 0
         /\ sent'[t][Now(t)] \in {sent[t][Now(t)], sent[t][Now(t)] + 1}
         /\ \A s \in Shell \ {Now(t)} : sent'[t][s] = sent[t][s]
  <1>1. Now(t) \in Shell
    BY NowIsShell, Parts DEF Within
  <1>2. sent \in [Poller -> [Shell -> 0 .. MaxSent]] /\ MaxSent \in Nat \ {0}
    BY AasAssumption DEF TypeInv, TypeOK
  <1> DEFINE n == IF sent[t][Now(t)] < MaxSent THEN sent[t][Now(t)] + 1 ELSE sent[t][Now(t)]
  <1>3. n \in 0 .. MaxSent /\ n > 0 /\ n \in {sent[t][Now(t)], sent[t][Now(t)] + 1}
    BY <1>1, <1>2
  <1>4. sent' = [sent EXCEPT ![t] = [sent[t] EXCEPT ![Now(t)] = n]]
    BY <1>2 DEF Reaches
  <1> HIDE DEF n
  <1>5. [sent[t] EXCEPT ![Now(t)] = n] \in [Shell -> 0 .. MaxSent]
    BY <1>1, <1>2, <1>3
  <1> QED BY <1>1, <1>2, <1>3, <1>4, <1>5

\* A cycle begins at no shell.
LEMMA Begin ==
  ASSUME TypeInv, NEW t \in Poller, StartCycle(t) \/ StartFails(t)
  PROVE  /\ thr' \in [Poller -> Located]
         /\ \A u \in Poller \ {t} : thr'[u] = thr[u]
         /\ thr'[t].pc \in Between
         /\ thr'[t].seen \in {thr[t].seen, {}}
         /\ Recalls(t)
  <1>0. thr[t] \in Place
    BY DEF TypeInv, Located
  <1>1. CASE StartCycle(t)
    <2> DEFINE r == [thr[t] EXCEPT !.pc = "discover"]
    <2>1. thr[t].at = 0
      BY <1>1, Parts DEF StartCycle, At, Between
    <2>2. r \in Place /\ r.pc = "discover" /\ r.at = thr[t].at /\ r.seen = thr[t].seen
          /\ r.machines = thr[t].machines /\ r.missed = thr[t].missed
      BY <1>0 DEF Place, Pcs
    <2>3. r \in Located
      BY <2>1, <2>2 DEF Located, Between
    <2>4. thr' = [thr EXCEPT ![t] = r]
      BY <1>1 DEF StartCycle, Goto
    <2> QED BY <2>2, <2>3, <2>4, Move DEF Between, Recalls
  <1>2. CASE StartFails(t)
    <2>1. thr' = [thr EXCEPT ![t] = Asleep]
      BY <1>2 DEF StartFails, Abort
    <2>2. Asleep.pc = "sleep" /\ Asleep.seen = {} /\ Asleep.machines = {}
      BY DEF Asleep
    <2> QED BY <2>1, <2>2, Move, AsleepIsLocated DEF Between, Recalls
  <1> QED BY <1>1, <1>2

\* The processes discovery can find in the submodels ms.
In(ms) == {p \in Process : ShellOf[p] \in WorkOrderShells /\ SubmodelOf[p] \in ms}

\* Discovery takes the poller to the first shell, with one process for each
\* machine of each shell in the submodels it could read.
LEMMA Discovery ==
  ASSUME TypeInv, NEW t \in Poller, NEW ms \in SUBSET Submodel, Discovered(t, ms)
  PROVE  /\ thr' \in [Poller -> Located]
         /\ \A u \in Poller \ {t} : thr'[u] = thr[u]
         /\ thr'[t].pc = "status" /\ thr'[t].seen = {}
         /\ thr'[t].machines \in OnePerMachine(In(ms)) /\ thr'[t].missed = Submodel \ ms
  <1>1. PICK f \in OnePerMachine(In(ms)) :
          thr' = [thr EXCEPT ![t] = [Asleep EXCEPT !.pc = "status", !.at = 1, !.machines = f,
                                                   !.missed = Submodel \ ms]]
    BY DEF Discovered, In
  <1> DEFINE r == [Asleep EXCEPT !.pc = "status", !.at = 1, !.machines = f,
                                 !.missed = Submodel \ ms]
  <1>2. f \in SUBSET Process
    BY DEF OnePerMachine, In
  <1>3. 1 \in 0 .. Len(Shells)
    BY AasAssumption
  <1>4. Asleep \in Place /\ Asleep.seen = {}
    BY AsleepIsLocated DEF Located, Asleep
  <1>5. /\ r \in Place /\ r.pc = "status" /\ r.at = 1 /\ r.seen = {} /\ r.machines = f
        /\ r.missed = Submodel \ ms
    BY <1>2, <1>3, <1>4 DEF Place, Pcs
  <1>6. thr' = [thr EXCEPT ![t] = r]
    BY <1>1
  <1> HIDE DEF r
  <1>7. r \in Located
    BY <1>5 DEF Located, Between
  <1> QED BY <1>5, <1>6, <1>7, Move

\* A failure before the poller is at a shell is blamed on none.
LEMMA FaultOnly ==
  ASSUME TypeInv, Fault
  PROVE  /\ faults' \in 0 .. MaxFaults
         /\ \A u \in Poller, s \in Shell : blame[u][s] \leq faults'
  <1>1. /\ faults \in 0 .. MaxFaults /\ MaxFaults \in Nat
        /\ faults < MaxFaults /\ faults' = faults + 1
    BY AasAssumption DEF TypeInv, TypeOK, Fault
  <1>2. /\ blame \in [Poller -> [Shell -> 0 .. MaxFaults]]
        /\ \A u \in Poller, s \in Shell : blame[u][s] \leq faults
    BY DEF TypeInv, TypeOK
  <1>3. \A u \in Poller, s \in Shell : blame[u][s] \in Nat
    BY <1>1, <1>2
  <1> QED BY <1>1, <1>2, <1>3

\* What a step must establish for the next state to be well typed.
LEMMA TypedAfter ==
  ASSUME thr' \in [Poller -> Located],
         ended' \subseteq Process, status' \subseteq Shell, marked' \subseteq Shell,
         record' \subseteq Shell, faults' \in 0 .. MaxFaults,
         sent' \in [Poller -> [Shell -> 0 .. MaxSent]],
         blame' \in [Poller -> [Shell -> 0 .. MaxFaults]],
         \A u \in Poller, s \in Shell : blame'[u][s] \leq faults'
  PROVE  TypeInv'
  <1>1. thr' \in [Poller -> Place]
    BY DEF Located
  <1> QED BY <1>1 DEF TypeInv, TypeOK, Place, Located

\* The history is well typed, forgets no submission and no failure, and holds
\* nothing new of the other pollers.
Counted(t) ==
  /\ faults' \in 0 .. MaxFaults
  /\ sent' \in [Poller -> [Shell -> 0 .. MaxSent]]
  /\ blame' \in [Poller -> [Shell -> 0 .. MaxFaults]]
  /\ \A u \in Poller, s \in Shell : blame'[u][s] \leq faults'
  /\ \A u \in Poller \ {t} : sent'[u] = sent[u] /\ blame'[u] = blame[u]
  /\ \A s \in Shell : sent[t][s] \leq sent'[t][s] /\ blame[t][s] \leq blame'[t][s]

\* Ways a step may leave faults, submissions and blame, each accounting for what it did.
LEMMA HistoryAfter ==
  ASSUME TypeInv, NEW t \in Poller
  PROVE  /\ UNCHANGED <<faults, history>> => Counted(t)
         /\ Fault /\ UNCHANGED history => Counted(t)
         /\ thr[t].pc \in Within /\ Blamed(t) /\ UNCHANGED sent => Counted(t)
         /\ thr[t].pc \in Within /\ Blamed(t) /\ Reaches(t) => Counted(t)
         /\ thr[t].pc \in Within /\ Reaches(t) /\ UNCHANGED <<faults, blame>> => Counted(t)
  <1>1. /\ faults \in 0 .. MaxFaults
        /\ sent \in [Poller -> [Shell -> 0 .. MaxSent]]
        /\ blame \in [Poller -> [Shell -> 0 .. MaxFaults]]
        /\ \A u \in Poller, s \in Shell : blame[u][s] \leq faults
        /\ MaxFaults \in Nat /\ MaxSent \in Nat
    BY AasAssumption DEF TypeInv, TypeOK
  <1>2. \A s \in Shell : sent[t][s] \in Nat /\ blame[t][s] \in Nat
    BY <1>1
  <1>3. ASSUME UNCHANGED sent
        PROVE  /\ sent' \in [Poller -> [Shell -> 0 .. MaxSent]]
               /\ \A u \in Poller \ {t} : sent'[u] = sent[u]
               /\ \A s \in Shell : sent[t][s] \leq sent'[t][s]
    BY <1>1, <1>2, <1>3
  <1>4. ASSUME UNCHANGED blame
        PROVE  /\ blame' \in [Poller -> [Shell -> 0 .. MaxFaults]]
               /\ \A u \in Poller \ {t} : blame'[u] = blame[u]
               /\ \A s \in Shell : blame[t][s] \leq blame'[t][s]
    BY <1>1, <1>2, <1>4
  <1>5. ASSUME thr[t].pc \in Within, Reaches(t)
        PROVE  /\ sent' \in [Poller -> [Shell -> 0 .. MaxSent]]
               /\ \A u \in Poller \ {t} : sent'[u] = sent[u]
               /\ \A s \in Shell : sent[t][s] \leq sent'[t][s]
    <2>1. \A s \in Shell : sent'[t][s] = sent[t][s] \/ sent'[t][s] = sent[t][s] + 1
      BY <1>5, Reach
    <2> QED BY <1>2, <1>5, <2>1, Reach
  <1>6. ASSUME thr[t].pc \in Within, Blamed(t)
        PROVE  /\ faults' \in 0 .. MaxFaults
               /\ blame' \in [Poller -> [Shell -> 0 .. MaxFaults]]
               /\ \A u \in Poller, s \in Shell : blame'[u][s] \leq faults'
               /\ \A u \in Poller \ {t} : blame'[u] = blame[u]
               /\ \A s \in Shell : blame[t][s] \leq blame'[t][s]
    <2>1. \A s \in Shell : blame'[t][s] = blame[t][s] \/ blame'[t][s] = blame[t][s] + 1
      BY <1>6, Blame
    <2> QED BY <1>2, <1>6, <2>1, Blame
  <1>7. ASSUME UNCHANGED <<faults, history>> PROVE Counted(t)
    BY <1>1, <1>3, <1>4, <1>7 DEF Counted, history
  <1>8. ASSUME Fault, UNCHANGED history PROVE Counted(t)
    BY <1>3, <1>4, <1>8, FaultOnly DEF Counted, history
  <1>9. ASSUME thr[t].pc \in Within, Blamed(t), UNCHANGED sent PROVE Counted(t)
    BY <1>3, <1>6, <1>9 DEF Counted
  <1>10. ASSUME thr[t].pc \in Within, Blamed(t), Reaches(t) PROVE Counted(t)
    BY <1>5, <1>6, <1>10 DEF Counted
  <1>11. ASSUME thr[t].pc \in Within, Reaches(t), UNCHANGED <<faults, blame>> PROVE Counted(t)
    BY <1>1, <1>4, <1>5, <1>11 DEF Counted
  <1> QED BY <1>7, <1>8, <1>9, <1>10, <1>11

\* A step of t moves no other poller, takes no shell's end back, and leaves
\* the processes alone.
Frame(t) ==
  /\ Counted(t)
  /\ thr' \in [Poller -> Located]
  /\ \A u \in Poller \ {t} : thr'[u] = thr[u]
  /\ ended' = ended
  /\ status \subseteq status' /\ status' \subseteq Shell
  /\ marked' \subseteq Shell /\ record' \subseteq Shell

\* A step of one poller moves that poller alone and keeps the accounts.
LEMMA StepFrame ==
  ASSUME TypeInv, NEW t \in Poller, Step(t)
  PROVE  Frame(t)
  <1>1. /\ status \subseteq Shell /\ marked \subseteq Shell /\ record \subseteq Shell
        /\ thr[t].seen \subseteq Shell
        /\ \A p \in Process : Mine(t) \ {p} \subseteq Process
        /\ Mine(t) \subseteq Process
    BY Parts DEF TypeInv, TypeOK
  <1>3. thr[t].pc \in Within => Now(t) \in Shell
    BY NowIsShell, Parts
  <1>4. \A l \in {"status", "procs", "compute", "hung", "send", "mark", "markwrite", "finish", "persist"} :
          l \in Within
    BY DEF Within, Pcs, Between
  <1>5. ASSUME StartCycle(t) \/ StartFails(t) PROVE Frame(t)
    <2>1. Counted(t)
      BY <1>5, HistoryAfter DEF StartCycle, StartFails
    <2> QED BY <1>1, <1>5, <2>1, Begin DEF Frame, StartCycle, StartFails, outside
  <1>6. ASSUME Discover(t) \/ DiscoverPasses(t) PROVE Frame(t)
    <2>1. Counted(t)
      BY <1>6, HistoryAfter DEF Discover, DiscoverPasses
    <2>2. PICK ms \in SUBSET Submodel : Discovered(t, ms)
      BY <1>6 DEF Discover, DiscoverPasses
    <2> QED BY <1>1, <1>6, <2>1, <2>2, Discovery DEF Frame, Discover, DiscoverPasses, outside
  <1>7. ASSUME ReadStatus(t) \/ ReadStatusFails(t) PROVE Frame(t)
    <2>1. thr[t].pc \in Within
      BY <1>4, <1>7 DEF ReadStatus, ReadStatusFails, At
    <2>2. Counted(t)
      BY <1>7, <2>1, HistoryAfter DEF ReadStatus, ReadStatusFails
    <2>3. NextShell(t) \/ Goto(t, "procs")
      BY <1>7 DEF ReadStatus, ReadStatusFails
    <2>4. thr' \in [Poller -> Located] /\ \A u \in Poller \ {t} : thr'[u] = thr[u]
      BY <1>4, <2>1, <2>3, Leave, GoOn
    <2> QED BY <1>1, <1>7, <2>2, <2>4 DEF Frame, ReadStatus, ReadStatusFails, outside
  <1>8. ASSUME CheckProcesses(t) \/ CheckFails(t) PROVE Frame(t)
    <2>1. thr[t].pc \in Within
      BY <1>4, <1>8 DEF CheckProcesses, CheckFails, At
    <2>2. Counted(t)
      BY <1>8, <2>1, HistoryAfter DEF CheckProcesses, CheckFails
    <2>3. NextShell(t) \/ Abort(t) \/ Goto(t, "compute")
      BY <1>8 DEF CheckProcesses, CheckFails
    <2>4. thr' \in [Poller -> Located] /\ \A u \in Poller \ {t} : thr'[u] = thr[u]
      BY <1>4, <2>1, <2>3, Leave, GoOn
    <2> QED BY <1>1, <1>8, <2>2, <2>4 DEF Frame, CheckProcesses, CheckFails, outside
  <1>9. ASSUME Compute(t) \/ ComputeFails(t) \/ EnergyUnread(t) PROVE Frame(t)
    <2>1. thr[t].pc \in Within /\ thr[t].pc = "compute"
      BY <1>4, <1>9 DEF Compute, ComputeFails, EnergyUnread, At
    <2>2. Counted(t)
      BY <1>9, <2>1, HistoryAfter DEF Compute, ComputeFails, EnergyUnread
    <2>3. \/ NextShell(t) \/ Abort(t)
          \/ \E c \in SUBSET Process :
               thr' = [thr EXCEPT ![t].pc = "send", ![t].counted = c]
      <3>1. CASE Compute(t)
        BY <1>1, <3>1 DEF Compute
      <3>2. CASE ComputeFails(t)
        BY <3>2 DEF ComputeFails
      <3>3. CASE EnergyUnread(t)
        BY <1>1, <3>3 DEF EnergyUnread
      <3> QED BY <1>9, <3>1, <3>2, <3>3
    <2>4. thr' \in [Poller -> Located] /\ \A u \in Poller \ {t} : thr'[u] = thr[u]
      BY <2>1, <2>3, Leave, Count
    <2> QED BY <1>1, <1>9, <2>2, <2>4 DEF Frame, Compute, ComputeFails, EnergyUnread, outside
  <1>10. ASSUME Send(t) \/ SendFails(t) PROVE Frame(t)
    <2>1. thr[t].pc \in Within
      BY <1>4, <1>10 DEF Send, SendFails, At
    <2>2. Counted(t)
      BY <1>10, <2>1, HistoryAfter DEF Send, SendFails
    <2>3. NextShell(t) \/ Goto(t, "mark")
      BY <1>10 DEF Send, SendFails
    <2>4. thr' \in [Poller -> Located] /\ \A u \in Poller \ {t} : thr'[u] = thr[u]
      BY <1>4, <2>1, <2>3, Leave, GoOn
    <2> QED BY <1>1, <1>10, <2>2, <2>4 DEF Frame, Send, SendFails, outside
  <1>11. ASSUME Mark(t) PROVE Frame(t)
    <2> DEFINE r == [thr[t] EXCEPT !.pc = "markwrite", !.seen = marked]
    <2>1. Counted(t)
      BY <1>11, HistoryAfter DEF Mark
    <2>2. thr[t] \in Place /\ thr[t].at > 0
      BY <1>4, <1>11, Parts DEF Mark, At, TypeInv, Located
    <2>3. r \in Place /\ r.pc = "markwrite" /\ r.at = thr[t].at
      BY <1>1, <2>2 DEF Place, Pcs
    <2>4. r \in Located
      BY <2>2, <2>3 DEF Located, Between
    <2>5. thr' = [thr EXCEPT ![t] = r]
      BY <1>11 DEF Mark, TypeInv
    <2> QED BY <1>1, <1>11, <2>1, <2>4, <2>5, Move DEF Frame, Mark, outside
  <1>12. ASSUME MarkWrite(t) \/ MarkFails(t) PROVE Frame(t)
    <2>1. thr[t].pc \in Within
      BY <1>4, <1>12 DEF MarkWrite, MarkFails, At
    <2>2. Counted(t)
      BY <1>12, <2>1, HistoryAfter DEF MarkWrite, MarkFails
    <2>3. NextShell(t) \/ Goto(t, "finish")
      BY <1>12 DEF MarkWrite, MarkFails
    <2>4. thr' \in [Poller -> Located] /\ \A u \in Poller \ {t} : thr'[u] = thr[u]
      BY <1>4, <2>1, <2>3, Leave, GoOn
    <2> QED BY <1>1, <1>3, <1>12, <2>1, <2>2, <2>4 DEF Frame, MarkWrite, MarkFails
  <1>13. ASSUME SetEnded(t) \/ SetEndedFails(t) PROVE Frame(t)
    <2>1. thr[t].pc \in Within
      BY <1>4, <1>13 DEF SetEnded, SetEndedFails, At
    <2>2. Counted(t)
      BY <1>13, <2>1, HistoryAfter DEF SetEnded, SetEndedFails
    <2>3. Goto(t, "persist")
      BY <1>13 DEF SetEnded, SetEndedFails
    <2>4. thr' \in [Poller -> Located] /\ \A u \in Poller \ {t} : thr'[u] = thr[u]
      BY <1>4, <2>1, <2>3, GoOn
    <2> QED BY <1>1, <1>3, <1>13, <2>1, <2>2, <2>4 DEF Frame, SetEnded, SetEndedFails
  <1>14. ASSUME Persist(t) \/ PersistFails(t) PROVE Frame(t)
    <2>1. thr[t].pc \in Within
      BY <1>4, <1>14 DEF Persist, PersistFails, At
    <2>2. Counted(t)
      BY <1>14, <2>1, HistoryAfter DEF Persist, PersistFails
    <2>3. NextShell(t)
      BY <1>14 DEF Persist, PersistFails
    <2>4. thr' \in [Poller -> Located] /\ \A u \in Poller \ {t} : thr'[u] = thr[u]
      BY <2>1, <2>3, Leave
    <2> QED BY <1>1, <1>3, <1>14, <2>1, <2>2, <2>4 DEF Frame, Persist, PersistFails, outside
  <1>15. ASSUME GridHangs(t) PROVE Frame(t)
    <2>1. thr[t].pc \in Within /\ Goto(t, "hung")
      BY <1>4, <1>15 DEF GridHangs, At
    <2>2. Counted(t)
      BY <1>15, <2>1, HistoryAfter DEF GridHangs
    <2>3. thr' \in [Poller -> Located] /\ \A u \in Poller \ {t} : thr'[u] = thr[u]
      BY <1>4, <2>1, GoOn
    <2> QED BY <1>1, <1>15, <2>2, <2>3 DEF Frame, GridHangs, outside
  <1> QED BY <1>5, <1>6, <1>7, <1>8, <1>9, <1>10, <1>11, <1>12, <1>13, <1>14, <1>15 DEF Step

\* The end of a process changes nothing else.
LEMMA FinishTypes ==
  ASSUME TypeInv, NEW p \in Process, Finish(p)
  PROVE  TypeInv'
  BY DEF TypeInv, TypeOK, Finish, history

\* A restart leaves every poller asleep and costs one fault, blamed on the
\* shells the pollers were at.
LEMMA CrashTypes ==
  ASSUME TypeInv, Crash
  PROVE  /\ TypeInv'
         /\ \A t \in Poller : thr'[t] = Asleep
         /\ \A t \in Poller, s \in Shell :
              blame'[t][s] = IF thr[t].at > 0 /\ Now(t) = s THEN blame[t][s] + 1 ELSE blame[t][s]
  <1>1. /\ blame \in [Poller -> [Shell -> 0 .. MaxFaults]]
        /\ \A t \in Poller, s \in Shell : blame[t][s] \leq faults
        /\ faults \in 0 .. MaxFaults /\ MaxFaults \in Nat
    BY AasAssumption DEF TypeInv, TypeOK
  <1>2. faults < MaxFaults /\ faults' = faults + 1
    BY DEF Crash, Fault
  <1>3. \A t \in Poller, s \in Shell : blame[t][s] \in 0 .. MaxFaults
    BY <1>1
  <1>4. blame' = [t \in Poller |-> [s \in Shell |->
                   IF thr[t].at > 0 /\ Now(t) = s THEN blame[t][s] + 1 ELSE blame[t][s]]]
    BY DEF Crash
  <1>5. \A t \in Poller, s \in Shell :
          /\ blame'[t][s] = IF thr[t].at > 0 /\ Now(t) = s THEN blame[t][s] + 1 ELSE blame[t][s]
          /\ blame'[t][s] \in 0 .. MaxFaults /\ blame'[t][s] \leq faults'
    BY <1>1, <1>2, <1>3, <1>4
  <1>6. \A t \in Poller : blame'[t] \in [Shell -> 0 .. MaxFaults]
    BY <1>4, <1>5
  <1>7. blame' \in [Poller -> [Shell -> 0 .. MaxFaults]]
    BY <1>4, <1>6
  <1>8. thr' \in [Poller -> Located] /\ \A t \in Poller : thr'[t] = Asleep
    BY AsleepIsLocated DEF Crash
  <1>9. marked' \subseteq marked /\ UNCHANGED <<ended, status, record, sent>>
    BY DEF Crash
  <1>10. /\ ended \subseteq Process /\ status \subseteq Shell /\ marked \subseteq Shell
         /\ record \subseteq Shell /\ sent \in [Poller -> [Shell -> 0 .. MaxSent]]
    BY DEF TypeInv, TypeOK
  <1>11. faults' \in 0 .. MaxFaults
    BY <1>1, <1>2
  <1>12. TypeInv'
    BY <1>5, <1>7, <1>8, <1>9, <1>10, <1>11, TypedAfter
  <1> QED BY <1>5, <1>8, <1>12

\* The initial states are well typed.
LEMMA InitTypeInv == Init => TypeInv
  <1> SUFFICES ASSUME Init PROVE TypeInv
    OBVIOUS
  <1>1. thr \in [Poller -> Located]
    BY AsleepIsLocated DEF Init
  <1>2. thr \in [Poller -> Place]
    BY <1>1 DEF Located
  <1>3. /\ sent \in [Poller -> [Shell -> 0 .. MaxSent]]
        /\ blame \in [Poller -> [Shell -> 0 .. MaxFaults]]
        /\ faults \in 0 .. MaxFaults
        /\ \A t \in Poller, s \in Shell : blame[t][s] \leq faults
    BY AasAssumption DEF Init
  <1> QED BY <1>1, <1>2, <1>3 DEF Init, TypeInv, TypeOK, Place

\* Every step keeps the types.
LEMMA NextTypeInv == TypeInv /\ [Next]_vars => TypeInv'
  <1> SUFFICES ASSUME TypeInv, [Next]_vars PROVE TypeInv'
    OBVIOUS
  <1>1. ASSUME NEW t \in Poller, Step(t) PROVE TypeInv'
    <2>1. ended \subseteq Process
      BY DEF TypeInv, TypeOK
    <2>2. Frame(t)
      BY <1>1, StepFrame
    <2> QED BY <2>1, <2>2, TypedAfter DEF Frame, Counted
  <1>2. CASE UNCHANGED vars
    BY <1>2 DEF vars, outside, history, TypeInv, TypeOK
  <1> QED BY <1>1, <1>2, FinishTypes, CrashTypes DEF Next

\* Whatever pollers, failures and restarts there are, every reachable state is
\* well typed; no poller runs past the end of the list of shells.
THEOREM TypeCorrect == Spec => []TypeOK
  <1>1. TypeInv => TypeOK
    BY DEF TypeInv
  <1> QED BY <1>1, InitTypeInv, NextTypeInv, PTL DEF Spec

-----------------------------------------------------------------------------
(* Done means submitted *)

\* A step of any poller forgets no submission.
LEMMA SubmittedStays ==
  ASSUME TypeInv, NEW t \in Poller, Counted(t), NEW s \in Shell, Submitted(s)
  PROVE  Submitted(s)'
  <1>1. PICK u \in Poller : sent[u][s] > 0
    BY DEF Submitted
  <1>2. sent[u][s] \in Nat /\ sent'[u][s] \in Nat
    BY AasAssumption DEF TypeInv, TypeOK, Counted
  <1>3. sent[u][s] \leq sent'[u][s]
    BY <1>2 DEF Counted
  <1> QED BY <1>1, <1>2, <1>3 DEF Submitted

\* What a step of t must show: it marks nothing but what was marked, what it
\* remembers, or the shell whose submission it has seen arrive.
LEMMA DoneAfter ==
  ASSUME TypeInv, DoneInv, NEW t \in Poller, Frame(t),
         \A s \in status' \cup marked' \cup record' :
           \/ s \in status \cup marked \cup record \cup thr[t].seen
           \/ thr[t].pc \in Done /\ s = Now(t),
         thr'[t].seen \subseteq thr[t].seen \cup marked,
         thr'[t].pc \in Done => thr'[t].at = thr[t].at /\ sent'[t][Now(t)] > 0
  PROVE  DoneInv'
  <1>1. Counted(t) /\ thr[t].seen \subseteq Shell
    BY Parts DEF Frame
  <1>2. status \subseteq Shell /\ marked \subseteq Shell /\ record \subseteq Shell
    BY DEF TypeInv, TypeOK
  <1>3. \A s \in status \cup marked \cup record \cup thr[t].seen : s \in Shell /\ Submitted(s)
    BY <1>1, <1>2 DEF DoneInv, DoneMeansSubmitted
  <1>4. thr[t].pc \in Done => Now(t) \in Shell /\ Submitted(Now(t))
    <2>1. ASSUME thr[t].pc \in Done PROVE thr[t].pc \in Within
      BY <2>1 DEF Done, Within, Pcs, Between
    <2> QED BY <2>1, NowIsShell, Parts DEF DoneInv, Submitted
  <1>5. DoneMeansSubmitted'
    BY <1>1, <1>3, <1>4, SubmittedStays DEF DoneMeansSubmitted
  <1>6. \A s \in thr'[t].seen : Submitted(s)'
    BY <1>1, <1>3, SubmittedStays
  <1>7. thr'[t].pc \in Done => sent'[t][Now(t)'] > 0
    BY DEF Now
  <1>8. ASSUME NEW u \in Poller \ {t}
        PROVE  /\ \A s \in thr'[u].seen : Submitted(s)'
               /\ thr'[u].pc \in Done => sent'[u][Now(u)'] > 0
    <2>1. thr'[u] = thr[u] /\ sent'[u] = sent[u] /\ thr[u].seen \subseteq Shell
      BY Parts DEF Frame, Counted
    <2> QED BY <1>1, <2>1, SubmittedStays DEF DoneInv, Now
  <1> QED BY <1>5, <1>6, <1>7, <1>8 DEF DoneInv

\* A step of a poller keeps DoneInv,
LEMMA StepDone ==
  ASSUME TypeInv, DoneInv, NEW t \in Poller, Step(t)
  PROVE  DoneInv'
  <1>0. Frame(t)
    BY StepFrame
  <1>1. \A l \in {"status", "procs", "compute", "hung", "send", "mark", "markwrite", "finish", "persist"} :
          l \in Within
    BY DEF Within, Pcs, Between
  <1>2. "sleep" \notin Done /\ "discover" \notin Done /\ "status" \notin Done
        /\ "procs" \notin Done /\ "compute" \notin Done /\ "send" \notin Done
        /\ "hung" \notin Done
    BY DEF Done
  <1>3. \A u \in Poller : thr[u].pc \in Done => sent[u][Now(u)] > 0
    BY DEF DoneInv
  <1>4. ASSUME UNCHANGED <<status, marked, record>>, thr'[t].seen = {}, thr'[t].pc \notin Done
        PROVE  DoneInv'
    BY <1>0, <1>4, DoneAfter
  <1>5. CASE StartCycle(t) \/ StartFails(t)
    <2>1. thr'[t].pc \notin Done /\ thr'[t].seen \subseteq thr[t].seen
      BY <1>2, <1>5, Begin DEF Between
    <2>2. UNCHANGED <<status, marked, record>>
      BY <1>5 DEF StartCycle, StartFails, outside
    <2> QED BY <1>0, <2>1, <2>2, DoneAfter
  <1>6. CASE Discover(t) \/ DiscoverPasses(t)
    <2>1. PICK ms \in SUBSET Submodel : Discovered(t, ms)
      BY <1>6 DEF Discover, DiscoverPasses
    <2>2. UNCHANGED <<status, marked, record>>
      BY <1>6 DEF Discover, DiscoverPasses, outside
    <2> QED BY <1>2, <1>4, <2>1, <2>2, Discovery
  <1>7. CASE thr[t].pc \in Within /\ (NextShell(t) \/ Abort(t)) /\ UNCHANGED outside
    BY <1>2, <1>4, <1>7, Leave DEF outside
  <1>8. ASSUME NEW l \in Within \ Done, thr[t].pc \in Within, Goto(t, l), UNCHANGED outside
        PROVE  DoneInv'
    <2>1. thr'[t].pc \notin Done /\ thr'[t].seen = thr[t].seen
      BY <1>8, GoOn
    <2> QED BY <1>0, <1>8, <2>1, DoneAfter DEF outside
  <1>9. CASE ReadStatus(t) \/ ReadStatusFails(t)
    BY <1>1, <1>2, <1>7, <1>8, <1>9 DEF ReadStatus, ReadStatusFails, At
  <1>10. CASE CheckProcesses(t) \/ CheckFails(t)
    BY <1>1, <1>2, <1>7, <1>8, <1>10 DEF CheckProcesses, CheckFails, At
  <1>11. CASE Compute(t) \/ ComputeFails(t) \/ EnergyUnread(t)
    <2>1. thr[t].pc \in Within /\ thr[t].pc = "compute" /\ UNCHANGED outside
      BY <1>1, <1>11 DEF Compute, ComputeFails, EnergyUnread, At
    <2>2. \/ NextShell(t) \/ Abort(t)
          \/ \E c \in SUBSET Process :
               thr' = [thr EXCEPT ![t].pc = "send", ![t].counted = c]
      BY <1>11, Parts DEF Compute, ComputeFails, EnergyUnread
    <2>3. ASSUME NEW c \in SUBSET Process,
                 thr' = [thr EXCEPT ![t].pc = "send", ![t].counted = c]
          PROVE  DoneInv'
      <3>1. thr'[t].pc = "send" /\ thr'[t].seen = thr[t].seen
        BY <2>1, <2>3, Count
      <3> QED BY <1>0, <1>2, <2>1, <3>1, DoneAfter DEF outside
    <2> QED BY <1>7, <2>1, <2>2, <2>3
  <1>12. CASE Send(t)
    <2>1. thr[t].pc \in Within /\ Reaches(t) /\ Goto(t, "mark") /\ UNCHANGED outside
      BY <1>1, <1>12 DEF Send, At
    <2>2. thr'[t].at = thr[t].at /\ thr'[t].seen = thr[t].seen
      BY <1>1, <2>1, GoOn
    <2>3. sent'[t][Now(t)] > 0
      BY <2>1, Reach
    <2> QED BY <1>0, <2>1, <2>2, <2>3, DoneAfter DEF outside
  <1>13. CASE SendFails(t)
    BY <1>1, <1>7, <1>13 DEF SendFails, At
  <1>14. CASE Mark(t)
    <2> DEFINE r == [thr[t] EXCEPT !.pc = "markwrite", !.seen = marked]
    <2>1. thr[t].pc \in Done /\ thr[t] \in Place
      BY <1>14 DEF Mark, At, Done, TypeInv, Located
    <2>2. r.seen = marked /\ r.at = thr[t].at
      BY <2>1 DEF Place
    <2>3. thr'[t] = r
      BY <1>14 DEF Mark, TypeInv
    <2> QED BY <1>0, <1>3, <1>14, <2>1, <2>2, <2>3, DoneAfter DEF Mark, outside, history
  <1>15. CASE MarkWrite(t)
    <2>1. thr[t].pc \in Within /\ thr[t].pc \in Done /\ Goto(t, "finish")
      BY <1>1, <1>15 DEF MarkWrite, At, Done
    <2>2. thr'[t].at = thr[t].at /\ thr'[t].seen = thr[t].seen
      BY <1>1, <2>1, GoOn
    <2>3. UNCHANGED <<status, record, sent>> /\ marked' = thr[t].seen \cup {Now(t)}
      BY <1>15 DEF MarkWrite, history
    <2> QED BY <1>0, <1>3, <2>1, <2>2, <2>3, DoneAfter
  <1>16. CASE MarkFails(t)
    <2>1. thr[t].pc \in Within /\ NextShell(t)
      BY <1>1, <1>16 DEF MarkFails, At
    <2>2. thr'[t].pc \notin Done /\ thr'[t].seen = {}
      BY <1>2, <2>1, Leave
    <2>3. UNCHANGED <<status, record>> /\ marked' \subseteq marked
      BY <1>16 DEF MarkFails
    <2> QED BY <1>0, <2>2, <2>3, DoneAfter
  <1>17. CASE SetEnded(t) \/ SetEndedFails(t)
    <2>1. thr[t].pc \in Within /\ thr[t].pc \in Done /\ Goto(t, "persist")
      BY <1>1, <1>17 DEF SetEnded, SetEndedFails, At, Done
    <2>2. thr'[t].at = thr[t].at /\ thr'[t].seen = thr[t].seen
      BY <1>1, <2>1, GoOn
    <2>3. UNCHANGED <<marked, record, sent>> /\ status' \subseteq status \cup {Now(t)}
      BY <1>17 DEF SetEnded, SetEndedFails, history
    <2> QED BY <1>0, <1>3, <2>1, <2>2, <2>3, DoneAfter
  <1>18. CASE Persist(t)
    <2>1. thr[t].pc \in Within /\ thr[t].pc \in Done /\ NextShell(t)
      BY <1>1, <1>18 DEF Persist, At, Done
    <2>2. thr'[t].pc \notin Done /\ thr'[t].seen = {}
      BY <1>2, <2>1, Leave
    <2>3. UNCHANGED <<status, marked>> /\ record' = record \cup {Now(t)}
      BY <1>18 DEF Persist
    <2> QED BY <1>0, <2>1, <2>2, <2>3, DoneAfter
  <1>19. CASE PersistFails(t)
    BY <1>1, <1>7, <1>19 DEF PersistFails, At
  <1>20. CASE GridHangs(t)
    BY <1>1, <1>2, <1>8, <1>20 DEF GridHangs, At
  <1> QED BY <1>5, <1>6, <1>9, <1>10, <1>11, <1>12, <1>13, <1>14, <1>15, <1>16, <1>17,
             <1>18, <1>19, <1>20 DEF Step

\* and so does every step.
LEMMA NextDone == TypeInv /\ DoneInv /\ [Next]_vars => DoneInv'
  <1> SUFFICES ASSUME TypeInv, DoneInv, [Next]_vars PROVE DoneInv'
    OBVIOUS
  <1>1. CASE Crash
    <2>1. \A t \in Poller : thr'[t].pc \notin Done /\ thr'[t].seen = {}
      BY <1>1, CrashTypes DEF Asleep, Done
    <2>2. UNCHANGED <<status, record, sent>> /\ marked' \subseteq marked
      BY <1>1 DEF Crash
    <2> QED BY <2>1, <2>2 DEF DoneInv, DoneMeansSubmitted, Submitted
  <1>2. CASE \E p \in Process : Finish(p)
    BY <1>2 DEF Finish, history, DoneInv, DoneMeansSubmitted, Submitted, Now
  <1>3. CASE UNCHANGED vars
    BY <1>3 DEF vars, outside, history, DoneInv, DoneMeansSubmitted, Submitted, Now
  <1> QED BY <1>1, <1>2, <1>3, StepDone DEF Next

\* For any pollers, shells and failures: a shell whose status, mark or record
\* says it is done has a report that reached SiGREEN.
THEOREM DoneWasSubmitted == Spec => []DoneMeansSubmitted
  <1>1. Init => DoneInv
    BY DEF Init, Asleep, Done, DoneInv, DoneMeansSubmitted
  <1>2. DoneInv => DoneMeansSubmitted
    BY DEF DoneInv
  <1> QED BY <1>1, <1>2, InitTypeInv, NextTypeInv, NextDone, PTL DEF Spec

-----------------------------------------------------------------------------
(* Resubmissions are bounded by the failures *)

\* The other pollers are undisturbed, so a step must restore the part of t.
LEMMA ResubmissionOfOne ==
  ASSUME TypeInv, ResubmissionInv, NEW t \in Poller, Frame(t), Resubmission(t)'
  PROVE  ResubmissionInv'
  <1>1. ASSUME NEW u \in Poller \ {t} PROVE Resubmission(u)'
    <2>1. thr'[u] = thr[u] /\ sent'[u] = sent[u] /\ blame'[u] = blame[u]
          /\ status \subseteq status'
      BY DEF Frame, Counted
    <2>2. Resubmission(u)
      BY DEF ResubmissionInv
    <2> QED BY <2>1, <2>2 DEF Resubmission, Now
  <1> QED BY <1>1 DEF ResubmissionInv

\* Submissions and blame are numbers that never sink.
LEMMA Numbers ==
  ASSUME TypeInv, NEW t \in Poller, Counted(t), NEW s \in Shell
  PROVE  /\ sent[t][s] \in Nat /\ blame[t][s] \in Nat
         /\ sent'[t][s] \in Nat /\ blame'[t][s] \in Nat
         /\ sent[t][s] \leq sent'[t][s] /\ blame[t][s] \leq blame'[t][s]
  <1>1. /\ sent \in [Poller -> [Shell -> 0 .. MaxSent]]
        /\ blame \in [Poller -> [Shell -> 0 .. MaxFaults]]
        /\ MaxFaults \in Nat /\ MaxSent \in Nat
    BY AasAssumption DEF TypeInv, TypeOK
  <1> QED BY <1>1 DEF Counted

\* A poller with no submission in hand that submits nothing and turns to
\* another shell, or to none.
LEMMA ResubmissionIdle ==
  ASSUME TypeInv, ResubmissionInv, NEW t \in Poller, Frame(t), UNCHANGED sent,
         thr[t].pc \notin {"mark", "markwrite", "finish"},
         thr'[t].pc \in {"sleep", "discover", "status"}
  PROVE  ResubmissionInv'
  <1>1. Counted(t) /\ Resubmission(t) /\ status \subseteq status'
    BY DEF Frame, ResubmissionInv
  <1>2. Resubmission(t)'
    BY <1>1, Numbers DEF Resubmission
  <1> QED BY <1>2, ResubmissionOfOne

\* A poller that goes on with the same shell, still before its submission.
LEMMA ResubmissionBefore ==
  ASSUME TypeInv, ResubmissionInv, NEW t \in Poller, Frame(t), UNCHANGED sent,
         thr[t].pc \in {"procs", "compute"}, thr'[t].pc \in {"compute", "hung", "send"},
         thr'[t].at = thr[t].at
  PROVE  ResubmissionInv'
  <1>1. Counted(t) /\ Resubmission(t) /\ status \subseteq status' /\ Now(t)' = Now(t)
    BY DEF Frame, ResubmissionInv, Now
  <1>2. Resubmission(t)'
    BY <1>1, Numbers DEF Resubmission
  <1> QED BY <1>2, ResubmissionOfOne

\* A failure pays for the shell the poller is at.
LEMMA ResubmissionPaid ==
  ASSUME TypeInv, ResubmissionInv, NEW t \in Poller, Frame(t), Blamed(t),
         thr[t].pc \in Within,
         Now(t) \in Unlabelled \/ sent'[t][Now(t)] \leq blame[t][Now(t)] + 1,
         \A s \in Shell \ {Now(t)} : sent'[t][s] = sent[t][s],
         thr'[t].pc \in {"sleep", "status", "procs", "persist"},
         thr'[t].pc \in {"procs", "persist"} => thr'[t].at = thr[t].at
  PROVE  ResubmissionInv'
  <1>1. Counted(t) /\ Resubmission(t) /\ status \subseteq status'
    BY DEF Frame, ResubmissionInv
  <1>2. blame'[t][Now(t)] = blame[t][Now(t)] + 1
    BY Blame
  <1>3. ASSUME NEW s \in Shell \ Unlabelled, s = Now(t)
        PROVE  sent'[t][s] \leq blame'[t][s]
    BY <1>2, <1>3
  <1>4. ASSUME NEW s \in Shell \ Unlabelled, s # Now(t)
        PROVE  /\ sent'[t][s] \leq 1 + blame'[t][s]
               /\ s \notin status' => sent'[t][s] \leq blame'[t][s]
    <2>1. /\ sent[t][s] \in Nat /\ blame[t][s] \in Nat /\ sent'[t][s] \in Nat
          /\ blame'[t][s] \in Nat /\ blame[t][s] \leq blame'[t][s]
          /\ sent[t][s] \leq 1 + blame[t][s] /\ sent'[t][s] = sent[t][s]
          /\ s \notin status => sent[t][s] \leq blame[t][s]
      BY <1>1, <1>4, Numbers DEF Resubmission
    <2> QED BY <1>1, <2>1
  <1>5. thr'[t].pc \in {"procs", "persist"} => Now(t)' = Now(t)
    BY DEF Now
  <1>6. ASSUME NEW s \in Shell \ Unlabelled, s = Now(t)
        PROVE  sent'[t][s] \leq 1 + blame'[t][s]
    BY <1>1, <1>3, <1>6, Numbers
  <1>7. Resubmission(t)'
    BY <1>3, <1>4, <1>5, <1>6 DEF Resubmission
  <1> QED BY <1>7, ResubmissionOfOne

\* A poller that has submitted and goes on with the same shell.
LEMMA ResubmissionAfter ==
  ASSUME TypeInv, ResubmissionInv, NEW t \in Poller, Frame(t), UNCHANGED sent,
         thr[t].pc \in {"mark", "markwrite", "finish"}, thr'[t].at = thr[t].at,
         \/ thr'[t].pc \in {"mark", "markwrite", "finish"}
         \/ thr'[t].pc = "persist" /\ (Now(t) \in status' \cup Unlabelled)
  PROVE  ResubmissionInv'
  <1>1. Counted(t) /\ Resubmission(t) /\ status \subseteq status' /\ Now(t)' = Now(t)
    BY DEF Frame, ResubmissionInv, Now
  <1>2. Resubmission(t)'
    BY <1>1, Numbers DEF Resubmission
  <1> QED BY <1>2, ResubmissionOfOne

\* A step of a poller keeps ResubmissionInv,
LEMMA StepResubmission ==
  ASSUME TypeInv, ResubmissionInv, NEW t \in Poller, Step(t)
  PROVE  ResubmissionInv'
  <1>0. Frame(t) /\ Resubmission(t) /\ Counted(t)
    BY StepFrame DEF ResubmissionInv, Frame
  <1>1. \A l \in {"status", "procs", "compute", "hung", "send", "mark", "markwrite", "finish", "persist"} :
          l \in Within
    BY DEF Within, Pcs, Between
  <1>2. ASSUME UNCHANGED sent, thr[t].pc \in Within
        PROVE  /\ Now(t) \in Unlabelled \/ sent'[t][Now(t)] \leq blame[t][Now(t)] + 1
               /\ \A s \in Shell \ {Now(t)} : sent'[t][s] = sent[t][s]
    <2>1. Now(t) \in Shell
      BY <1>2, NowIsShell, Parts
    <2> QED BY <1>0, <1>2, <2>1, Numbers DEF Resubmission
  <1>3. CASE StartCycle(t) \/ StartFails(t)
    <2>1. /\ thr[t].pc \in {"sleep", "discover"} /\ UNCHANGED sent
          /\ thr'[t].pc \in {"sleep", "discover"}
      BY <1>3, Begin DEF StartCycle, StartFails, At, Between, history
    <2> QED BY <1>0, <2>1, ResubmissionIdle
  <1>4. CASE Discover(t) \/ DiscoverPasses(t)
    <2>1. PICK ms \in SUBSET Submodel : Discovered(t, ms)
      BY <1>4 DEF Discover, DiscoverPasses
    <2>2. thr[t].pc = "discover" /\ UNCHANGED sent /\ thr'[t].pc = "status"
      BY <1>4, <2>1, Discovery DEF Discover, DiscoverPasses, At, history
    <2> QED BY <1>0, <2>2, ResubmissionIdle
  <1>5. ASSUME thr[t].pc \in {"status", "procs", "compute", "persist"},
               NextShell(t) \/ Abort(t), UNCHANGED sent
        PROVE  ResubmissionInv'
    <2>1. thr'[t].pc \in {"sleep", "status"}
      BY <1>1, <1>5, Leave
    <2> QED BY <1>0, <1>5, <2>1, ResubmissionIdle
  <1>6. CASE ReadStatus(t)
    <2>1. thr[t].pc = "status" /\ UNCHANGED <<sent, status>>
      BY <1>6 DEF ReadStatus, At, outside, history
    <2>2. CASE Now(t) \notin status /\ Goto(t, "procs")
      <3>1. thr'[t].pc = "procs" /\ thr'[t].at = thr[t].at
        BY <1>1, <2>1, <2>2, GoOn
      <3>2. Now(t)' = Now(t)
        BY <3>1 DEF Now
      <3>3. Resubmission(t)'
        BY <1>0, <2>1, <2>2, <3>1, <3>2, Numbers DEF Resubmission
      <3> QED BY <1>0, <3>3, ResubmissionOfOne
    <2> QED BY <1>5, <1>6, <2>1, <2>2 DEF ReadStatus
  <1>7. CASE ReadStatusFails(t)
    <2>1. thr[t].pc = "status" /\ UNCHANGED sent /\ Blamed(t) /\ Goto(t, "procs")
      BY <1>7 DEF ReadStatusFails, At
    <2>2. thr'[t].pc = "procs" /\ thr'[t].at = thr[t].at
      BY <1>1, <2>1, GoOn
    <2> QED BY <1>0, <1>1, <1>2, <2>1, <2>2, ResubmissionPaid
  <1>8. CASE CheckProcesses(t) \/ CheckFails(t)
    <2>1. thr[t].pc = "procs" /\ UNCHANGED sent
          /\ (NextShell(t) \/ Abort(t) \/ Goto(t, "compute"))
      BY <1>8 DEF CheckProcesses, CheckFails, At, history
    <2>2. CASE Goto(t, "compute")
      <3>1. thr'[t].pc = "compute" /\ thr'[t].at = thr[t].at
        BY <1>1, <2>1, <2>2, GoOn
      <3> QED BY <1>0, <2>1, <3>1, ResubmissionBefore
    <2> QED BY <1>5, <2>1, <2>2
  <1>9. CASE Compute(t) \/ ComputeFails(t) \/ EnergyUnread(t)
    <2>1. /\ thr[t].pc = "compute" /\ UNCHANGED sent
          /\ \/ NextShell(t) \/ Abort(t)
             \/ \E c \in SUBSET Process :
                  thr' = [thr EXCEPT ![t].pc = "send", ![t].counted = c]
      BY <1>9, Parts DEF Compute, ComputeFails, EnergyUnread, At, history
    <2>2. ASSUME NEW c \in SUBSET Process,
                 thr' = [thr EXCEPT ![t].pc = "send", ![t].counted = c]
          PROVE  ResubmissionInv'
      <3>1. thr'[t].pc = "send" /\ thr'[t].at = thr[t].at
        BY <2>1, <2>2, Count
      <3> QED BY <1>0, <2>1, <3>1, ResubmissionBefore
    <2> QED BY <1>5, <2>1, <2>2
  <1>10. CASE Send(t)
    <2>1. thr[t].pc = "send" /\ Reaches(t) /\ Goto(t, "mark") /\ UNCHANGED <<status, blame>>
      BY <1>10 DEF Send, At, outside
    <2>2. thr'[t].pc = "mark" /\ thr'[t].at = thr[t].at /\ Now(t)' = Now(t)
      BY <1>1, <2>1, GoOn DEF Now
    <2>3. \A s \in Shell : /\ sent'[t][s] \in {sent[t][s], sent[t][s] + 1}
                           /\ s # Now(t) => sent'[t][s] = sent[t][s]
      BY <1>1, <2>1, Reach
    <2>4. Resubmission(t)'
      BY <1>0, <2>1, <2>2, <2>3, Numbers DEF Resubmission
    <2> QED BY <1>0, <2>4, ResubmissionOfOne
  <1>11. CASE SendFails(t)
    <2>1. /\ thr[t].pc = "send" /\ Blamed(t) /\ NextShell(t)
          /\ Reaches(t) \/ UNCHANGED sent
      BY <1>11 DEF SendFails, At
    <2>2. thr'[t].pc \in {"sleep", "status"} /\ Now(t) \in Shell /\ thr[t].pc \in Within
      BY <1>1, <2>1, Leave, NowIsShell, Parts
    <2>3. CASE Reaches(t)
      <3>1. /\ sent'[t][Now(t)] \in {sent[t][Now(t)], sent[t][Now(t)] + 1}
            /\ \A s \in Shell \ {Now(t)} : sent'[t][s] = sent[t][s]
        BY <2>2, <2>3, Reach
      <3>2. Now(t) \in Unlabelled \/ sent[t][Now(t)] \leq blame[t][Now(t)]
        BY <1>0, <2>1, <2>2 DEF Resubmission
      <3>3. Now(t) \in Unlabelled \/ sent'[t][Now(t)] \leq blame[t][Now(t)] + 1
        BY <1>0, <2>2, <3>1, <3>2, Numbers
      <3> QED BY <1>0, <2>1, <2>2, <3>1, <3>3, ResubmissionPaid
    <2>4. CASE UNCHANGED sent
      BY <1>0, <1>2, <2>1, <2>2, <2>4, ResubmissionPaid
    <2> QED BY <2>1, <2>3, <2>4
  <1>12. CASE Mark(t)
    <2> DEFINE r == [thr[t] EXCEPT !.pc = "markwrite", !.seen = marked]
    <2>1. thr[t] \in Place /\ thr[t].pc = "mark" /\ UNCHANGED sent
      BY <1>12 DEF Mark, At, TypeInv, Located, history
    <2>2. r.pc = "markwrite" /\ r.at = thr[t].at
      BY <2>1 DEF Place
    <2>3. thr'[t] = r
      BY <1>12 DEF Mark, TypeInv
    <2> QED BY <1>0, <2>1, <2>2, <2>3, ResubmissionAfter
  <1>13. CASE MarkWrite(t)
    <2>1. thr[t].pc = "markwrite" /\ Goto(t, "finish") /\ UNCHANGED sent
      BY <1>13 DEF MarkWrite, At, history
    <2>2. thr'[t].pc = "finish" /\ thr'[t].at = thr[t].at
      BY <1>1, <2>1, GoOn
    <2> QED BY <1>0, <2>1, <2>2, ResubmissionAfter
  <1>14. CASE MarkFails(t)
    <2>1. thr[t].pc = "markwrite" /\ Blamed(t) /\ NextShell(t) /\ UNCHANGED sent
      BY <1>14 DEF MarkFails, At
    <2>2. thr'[t].pc \in {"sleep", "status"}
      BY <1>1, <2>1, Leave
    <2> QED BY <1>0, <1>1, <1>2, <2>1, <2>2, ResubmissionPaid
  <1>15. CASE SetEnded(t)
    <2>1. /\ thr[t].pc = "finish" /\ Goto(t, "persist") /\ UNCHANGED sent
          /\ Now(t) \in status' \cup Unlabelled
      BY <1>15 DEF SetEnded, At, history
    <2>2. thr'[t].pc = "persist" /\ thr'[t].at = thr[t].at
      BY <1>1, <2>1, GoOn
    <2> QED BY <1>0, <2>1, <2>2, ResubmissionAfter
  <1>16. CASE SetEndedFails(t)
    <2>1. thr[t].pc = "finish" /\ Blamed(t) /\ Goto(t, "persist") /\ UNCHANGED sent
      BY <1>16 DEF SetEndedFails, At
    <2>2. thr'[t].pc = "persist" /\ thr'[t].at = thr[t].at
      BY <1>1, <2>1, GoOn
    <2> QED BY <1>0, <1>1, <1>2, <2>1, <2>2, ResubmissionPaid
  <1>17. CASE Persist(t) \/ PersistFails(t)
    BY <1>5, <1>17 DEF Persist, PersistFails, At, history
  <1>18. CASE GridHangs(t)
    <2>1. thr[t].pc = "compute" /\ UNCHANGED sent /\ Goto(t, "hung")
      BY <1>18 DEF GridHangs, At
    <2>2. thr'[t].pc = "hung" /\ thr'[t].at = thr[t].at
      BY <1>1, <2>1, GoOn
    <2> QED BY <1>0, <2>1, <2>2, ResubmissionBefore
  <1> QED BY <1>3, <1>4, <1>6, <1>7, <1>8, <1>9, <1>10, <1>11, <1>12, <1>13, <1>14, <1>15,
             <1>16, <1>17, <1>18 DEF Step

\* A restart pays for the submission each poller has in hand.
LEMMA CrashResubmission ==
  ASSUME TypeInv, ResubmissionInv, Crash
  PROVE  ResubmissionInv'
  <1>1. ASSUME NEW t \in Poller PROVE Resubmission(t)'
    <2>1. thr'[t].pc = "sleep" /\ UNCHANGED <<sent, status>>
      BY CrashTypes DEF Asleep, Crash
    <2>2. Resubmission(t)
      BY DEF ResubmissionInv
    <2>3. thr[t].pc \in {"mark", "markwrite", "finish"} => thr[t].at > 0
      BY Parts DEF Within, Pcs, Between
    <2>4. \A s \in Shell : sent[t][s] \in Nat /\ blame[t][s] \in Nat
      <3>1. /\ sent \in [Poller -> [Shell -> 0 .. MaxSent]]
            /\ blame \in [Poller -> [Shell -> 0 .. MaxFaults]]
            /\ MaxFaults \in Nat /\ MaxSent \in Nat
        BY AasAssumption DEF TypeInv, TypeOK
      <3> QED BY <3>1
    <2>5. \A s \in Shell :
            blame'[t][s] = IF thr[t].at > 0 /\ Now(t) = s THEN blame[t][s] + 1 ELSE blame[t][s]
      BY CrashTypes
    <2> QED BY <2>1, <2>2, <2>3, <2>4, <2>5 DEF Resubmission
  <1> QED BY <1>1 DEF ResubmissionInv

\* and so does every step.
LEMMA NextResubmission == TypeInv /\ ResubmissionInv /\ [Next]_vars => ResubmissionInv'
  <1> SUFFICES ASSUME TypeInv, ResubmissionInv, [Next]_vars PROVE ResubmissionInv'
    OBVIOUS
  <1>1. CASE \E p \in Process : Finish(p)
    BY <1>1 DEF Finish, history, ResubmissionInv, Resubmission, Now
  <1>2. CASE UNCHANGED vars
    BY <1>2 DEF vars, outside, history, ResubmissionInv, Resubmission, Now
  <1> QED BY <1>1, <1>2, StepResubmission, CrashResubmission DEF Next

\* For any pollers, shells and failures: a poller submits a shell that has a
\* status once, and once more for each failure it met there.
THEOREM ResubmissionIsBounded == Spec => []BoundedResubmission
  <1>1. Init => ResubmissionInv
    BY DEF Init, Asleep, ResubmissionInv, Resubmission
  <1>2. ResubmissionInv => BoundedResubmission
    BY DEF ResubmissionInv, Resubmission, BoundedResubmission
  <1> QED BY <1>1, <1>2, InitTypeInv, NextTypeInv, NextResubmission, PTL DEF Spec

-----------------------------------------------------------------------------
(* A report covers the machines of its shell *)

\* Discovery finds every machine of a shell of a work order in the submodels it
\* reads, and no machine of any other shell.
LEMMA DiscoveryCovers ==
  ASSUME NEW ms \in SUBSET Submodel, NEW s \in Shell, NEW f \in OnePerMachine(In(ms))
  PROVE  \/ Of(f, s) = {}
         \/ Machines(Of(f, s)) = Machines({p \in Procs(s) : SubmodelOf[p] \in ms})
  <1> DEFINE ps == In(ms)
             L  == {p \in Procs(s) : SubmodelOf[p] \in ms}
  <1>1. f \in SUBSET ps /\ {<<ShellOf[p], MachineOf[p]>> : p \in f}
                             = {<<ShellOf[p], MachineOf[p]>> : p \in ps}
    BY DEF OnePerMachine
  <1>2. CASE s \notin WorkOrderShells
    BY <1>1, <1>2 DEF Of, In
  <1>3. CASE s \in WorkOrderShells
    <2>1. ASSUME NEW p \in Of(f, s) PROVE MachineOf[p] \in Machines(L)
      BY <1>1, <2>1 DEF Of, Machines, Procs, In
    <2>2. ASSUME NEW p \in L PROVE MachineOf[p] \in Machines(Of(f, s))
      <3>1. p \in ps
        BY <1>3, <2>2 DEF Procs, In
      <3>2. <<ShellOf[p], MachineOf[p]>> \in {<<ShellOf[q], MachineOf[q]>> : q \in f}
        BY <1>1, <3>1
      <3>3. PICK q \in f : <<ShellOf[p], MachineOf[p]>> = <<ShellOf[q], MachineOf[q]>>
        BY <3>2
      <3>4. ShellOf[q] = s /\ MachineOf[q] = MachineOf[p]
        BY <2>2, <3>3 DEF Procs
      <3> QED BY <3>3, <3>4 DEF Of, Machines
    <2> HIDE DEF L
    <2>3. Machines(Of(f, s)) \subseteq Machines(L)
      BY <2>1 DEF Machines
    <2>4. Machines(L) \subseteq Machines(Of(f, s))
      BY <2>2 DEF Machines
    <2>5. Machines(Of(f, s)) = Machines(L)
      BY <2>3, <2>4
    <2> QED BY <2>5 DEF L
  <1> QED BY <1>2, <1>3

\* The other pollers are undisturbed, so a step must restore the part of t.
LEMMA CoverOfOne ==
  ASSUME TypeInv, CoverInv, NEW t \in Poller, Frame(t), Cover(t)'
  PROVE  CoverInv'
  <1>1. ASSUME NEW u \in Poller \ {t} PROVE Cover(u)'
    <2>1. thr'[u] = thr[u] /\ blame'[u] = blame[u] /\ ended' = ended
      BY DEF Frame, Counted
    <2>2. Cover(u)
      BY DEF CoverInv
    <2> QED BY <2>1, <2>2 DEF Cover, At, Mine, Now, Listed
  <1> QED BY <1>1 DEF CoverInv

\* A step that keeps the machines or drops them all, and leads neither to the
\* computation nor to the submission.
LEMMA CoverElsewhere ==
  ASSUME TypeInv, CoverInv, NEW t \in Poller, Frame(t),
         thr'[t].pc \notin {"compute", "send"}, Recalls(t)
  PROVE  CoverInv'
  <1>1. \A s \in Shell : Of({}, s) = {}
    BY DEF Of
  <1>2. Cover(t)'
    BY <1>1 DEF CoverInv, Cover, At, Recalls, Listed
  <1> QED BY <1>2, CoverOfOne

\* A step of a poller keeps CoverInv,
LEMMA StepCover ==
  ASSUME TypeInv, CoverInv, NEW t \in Poller, Step(t)
  PROVE  CoverInv'
  <1>0. Frame(t) /\ Cover(t)
    BY StepFrame DEF CoverInv
  <1>1. \A l \in {"status", "procs", "compute", "hung", "send", "mark", "markwrite", "finish", "persist"} :
          l \in Within
    BY DEF Within, Pcs, Between
  <1>2. ASSUME thr[t].pc \in Within, NextShell(t) \/ Abort(t) PROVE CoverInv'
    <2>1. thr'[t].pc \in {"sleep", "status"} /\ Recalls(t)
      BY <1>2, Leave
    <2> QED BY <1>0, <2>1, CoverElsewhere
  <1>3. ASSUME NEW l \in Within \ {"compute", "send"}, thr[t].pc \in Within, Goto(t, l)
        PROVE  CoverInv'
    <2>1. thr'[t].pc = l /\ Recalls(t)
      BY <1>3, GoOn
    <2> QED BY <1>0, <2>1, CoverElsewhere
  <1>4. CASE StartCycle(t) \/ StartFails(t)
    <2>1. thr'[t].pc \in {"sleep", "discover"} /\ Recalls(t)
      BY <1>4, Begin DEF Between
    <2> QED BY <1>0, <2>1, CoverElsewhere
  <1>5. CASE Discover(t) \/ DiscoverPasses(t)
    <2>1. PICK ms \in SUBSET Submodel : Discovered(t, ms)
      BY <1>5 DEF Discover, DiscoverPasses
    <2>2. /\ thr'[t].pc = "status"
          /\ thr'[t].machines \in OnePerMachine(In(ms)) /\ thr'[t].missed = Submodel \ ms
      BY <2>1, Discovery
    <2>3. \A s \in Shell : Listed(t, s)' = {p \in Procs(s) : SubmodelOf[p] \in ms}
      BY <2>2, AasAssumption DEF Listed, Procs
    <2>4. Cover(t)'
      BY <2>2, <2>3, DiscoveryCovers DEF Cover, At, Machines, Of
    <2> QED BY <1>0, <2>4, CoverOfOne
  <1>6. CASE ReadStatus(t) \/ ReadStatusFails(t)
    BY <1>1, <1>2, <1>3, <1>6 DEF ReadStatus, ReadStatusFails, At
  <1>7. CASE CheckProcesses(t) \/ CheckFails(t)
    <2>1. thr[t].pc \in Within
      BY <1>1, <1>7 DEF CheckProcesses, CheckFails, At
    <2>2. CASE Mine(t) # {} /\ Mine(t) \subseteq ended /\ Goto(t, "compute")
      <3>1. /\ thr'[t].pc = "compute" /\ thr'[t].at = thr[t].at
            /\ thr'[t].machines = thr[t].machines /\ thr'[t].missed = thr[t].missed
        BY <1>1, <2>1, <2>2, GoOn
      <3>2. Mine(t)' = Mine(t) /\ ended' = ended /\ \A s \in Shell : Listed(t, s)' = Listed(t, s)
        BY <1>0, <3>1 DEF Mine, Now, Frame, Listed
      <3>3. Cover(t)'
        BY <1>0, <2>2, <3>1, <3>2 DEF Cover, At
      <3> QED BY <1>0, <3>3, CoverOfOne
    <2> QED BY <1>2, <1>7, <2>1, <2>2 DEF CheckProcesses, CheckFails
  <1>8. CASE Compute(t) \/ ComputeFails(t) \/ EnergyUnread(t)
    <2>1. thr[t].pc \in Within /\ thr[t].pc = "compute" /\ Now(t) \in Shell
      BY <1>1, <1>8, NowIsShell, Parts DEF Compute, ComputeFails, EnergyUnread, At
    <2>2. Mine(t) # {} /\ Mine(t) \subseteq ended /\ Mine(t) = Of(thr[t].machines, Now(t))
      BY <1>0, <2>1 DEF Cover, At, Mine, Of
    <2>3. \/ NextShell(t) \/ Abort(t)
          \/ \E c \in SUBSET Mine(t) :
               /\ thr' = [thr EXCEPT ![t].pc = "send", ![t].counted = c]
               /\ c = Mine(t) \/ Blamed(t)
      BY <1>8 DEF Compute, ComputeFails, EnergyUnread
    <2>4. ASSUME NEW c \in SUBSET Mine(t),
                 thr' = [thr EXCEPT ![t].pc = "send", ![t].counted = c],
                 c = Mine(t) \/ Blamed(t)
          PROVE  CoverInv'
      <3>0. c \in SUBSET Process
        BY Parts
      <3>1. /\ thr'[t].pc = "send" /\ thr'[t].at = thr[t].at /\ thr'[t].counted = c
            /\ thr'[t].machines = thr[t].machines /\ thr'[t].missed = thr[t].missed
        BY <2>1, <2>4, <3>0, Count, Zenon
      <3>2. Now(t)' = Now(t) /\ ended' = ended /\ \A s \in Shell : Listed(t, s)' = Listed(t, s)
        BY <1>0, <3>1 DEF Now, Frame, Listed
      <3>3. Machines(Mine(t)) = Machines(Listed(t, Now(t)))
        BY <1>0, <2>1, <2>2 DEF Cover
      <3>4. Blamed(t) => blame'[t][Now(t)] # 0
        <4>1. blame[t][Now(t)] \in Nat
          BY <1>0, <2>1, Numbers DEF Frame
        <4> QED BY <2>1, <4>1, Blame
      <3>5. blame'[t][Now(t)] = 0 => Machines(c) = Machines(Listed(t, Now(t)))
        BY <2>4, <3>3, <3>4
      <3>6. Cover(t)'
        BY <1>0, <2>1, <2>2, <3>1, <3>2, <3>5 DEF Cover, At, Machines, Of
      <3> QED BY <1>0, <3>6, CoverOfOne
    <2> QED BY <1>2, <2>1, <2>3, <2>4
  <1>9. CASE Mark(t)
    <2> DEFINE r == [thr[t] EXCEPT !.pc = "markwrite", !.seen = marked]
    <2>1. thr[t] \in Place
      BY DEF TypeInv, Located
    <2>2. r.pc = "markwrite" /\ r.machines = thr[t].machines /\ r.missed = thr[t].missed
      BY <2>1 DEF Place
    <2>3. thr'[t] = r
      BY <1>9 DEF Mark, TypeInv
    <2> QED BY <1>0, <2>2, <2>3, CoverElsewhere DEF Recalls
  <1>10. CASE Send(t) \/ SendFails(t)
    BY <1>1, <1>2, <1>3, <1>10 DEF Send, SendFails, At
  <1>11. CASE MarkWrite(t) \/ MarkFails(t)
    BY <1>1, <1>2, <1>3, <1>11 DEF MarkWrite, MarkFails, At
  <1>12. CASE SetEnded(t) \/ SetEndedFails(t)
    BY <1>1, <1>3, <1>12 DEF SetEnded, SetEndedFails, At
  <1>13. CASE Persist(t) \/ PersistFails(t)
    BY <1>1, <1>2, <1>13 DEF Persist, PersistFails, At
  <1>14. CASE GridHangs(t)
    BY <1>1, <1>3, <1>14 DEF GridHangs, At
  <1> QED BY <1>4, <1>5, <1>6, <1>7, <1>8, <1>9, <1>10, <1>11, <1>12, <1>13, <1>14 DEF Step

\* and so does every step.
LEMMA NextCover == TypeInv /\ CoverInv /\ [Next]_vars => CoverInv'
  <1> SUFFICES ASSUME TypeInv, CoverInv, [Next]_vars PROVE CoverInv'
    OBVIOUS
  <1>1. CASE Crash
    <2>1. \A t \in Poller : thr'[t].pc = "sleep" /\ thr'[t].machines = {}
      BY <1>1, CrashTypes DEF Asleep
    <2>2. \A s \in Shell : Of({}, s) = {}
      BY DEF Of
    <2> QED BY <2>1, <2>2 DEF CoverInv, Cover, At
  <1>2. CASE \E p \in Process : Finish(p)
    <2>1. UNCHANGED <<thr, blame>> /\ ended \subseteq ended'
      BY <1>2 DEF Finish, history
    <2> QED BY <2>1 DEF CoverInv, Cover, At, Mine, Now, Listed
  <1>3. CASE UNCHANGED vars
    BY <1>3 DEF vars, outside, history, CoverInv, Cover, At, Mine, Now, Listed
  <1> QED BY <1>1, <1>2, <1>3, StepCover DEF Next

\* For any submodels, any processes on any machines and any outages: a report
\* about to be sent counts only ended processes, and without a failure met at
\* the shell one on every machine of the submodels discovery could read.
THEOREM ReportsAreCovered == Spec => []ReportsCoverMachines
  <1>1. ASSUME Init PROVE CoverInv
    <2>1. \A t \in Poller : thr[t].pc = "sleep" /\ thr[t].machines = {}
      BY <1>1 DEF Init, Asleep
    <2>2. \A s \in Shell : Of({}, s) = {}
      BY DEF Of
    <2> QED BY <2>1, <2>2 DEF CoverInv, Cover, At
  <1>2. CoverInv => ReportsCoverMachines
    BY DEF CoverInv, Cover, Machines, ReportsCoverMachines
  <1> QED BY <1>1, <1>2, InitTypeInv, NextTypeInv, NextCover, PTL DEF Spec

=============================================================================
