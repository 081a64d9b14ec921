-------------------------- MODULE AppConfigProofs --------------------------
(***************************************************************************)
(* What holds of AppConfig and of TokenCache for every set of processes    *)
(* and threads, every set of bodies and of initial documents, every        *)
(* lifetime, leeway and maximal age, and every bound.                      *)
(***************************************************************************)
EXTENDS AppConfig, TLAPS

GetPcs == {"off", "id", "secret", "unpack", "ask", "asked", "issued"} \cup Outcome
Got    == [pc : GetPcs, id : Text, secret : Text, url : Text, at : Nat, token : {None} \cup Token]
Pcs    == {"idle", "ensure", "lookup", "client", "build", "load", "validate", "save", "clear"}
Request == [op : Op, body : {None} \cup Body, doc : {None} \cup Document, pc : Pcs]

\* What a place in a request needs: a document it loaded, a body.
WithDoc  == {"lookup", "validate", "save"}
WithBody == {"load", "validate", "save", "clear"}

GotInv ==
  /\ got \in [Thread -> Got]
  /\ \A t \in Thread : got[t].at <= clock
  /\ \A t \in Thread : got[t].pc \in {"issued", "hit"} => got[t].token \in Token

ThrInv ==
  /\ thr \in [Thread -> Request]
  /\ \A t \in Thread : thr[t].pc \in WithDoc => thr[t].doc \in Document
  /\ \A t \in Thread : thr[t].pc \in WithBody => thr[t].body \in Body

TokensInv ==
  /\ cached \in [Process -> {None} \cup Entry]
  /\ clock \in 0 .. MaxClock /\ changedAt \in 0 .. clock
  /\ late \subseteq Thread /\ fresh \subseteq Process

ToldInv ==
  validated \subseteq Text \X Text /\ manual \subseteq Text /\ requests \in 0 .. MaxRequests

TypeInv == cfg \in Document /\ TokensInv /\ GotInv /\ ThrInv /\ ToldInv

\* The type invariant gives TypeOK.
LEMMA TypeInvImpliesTypeOK == TypeInv => TypeOK
<1> SUFFICES ASSUME TypeInv PROVE TypeOK
  OBVIOUS
<1>1. got \in [Thread -> [pc : GetPcs, id : Text, secret : Text, url : Text, at : 0 .. clock,
                          token : {None} \cup Token]]
  BY DEF TypeInv, GotInv, TokensInv, Got
<1>2. TokenTypeOK
  BY <1>1 DEF TypeInv, TokensInv, TokenTypeOK, GetPcs
<1> QED
  BY <1>2 DEF TypeInv, ThrInv, ToldInv, TypeOK, Request, Pcs

-----------------------------------------------------------------------------
(* The values the actions store *)

\* A thread outside get() is well typed.
LEMMA OffIsGot == Off \in Got
  BY TokenAssumption DEF Off, Got, GetPcs

\* What a post saves is a document,
LEMMA PostedIsDocument ==
  ASSUME NEW b \in Bodies, NEW d \in Document
  PROVE  Posted(b, d) \in Document
  BY ConfigAssumption, TokenAssumption
  DEF Posted, Put, Document, Bodies, Key

\* and resolving changes its factory alone.
LEMMA ResolvedIsDocument ==
  ASSUME NEW d \in Document
  PROVE  /\ Resolved(d) \in Document
         /\ Resolved(d).id = d.id /\ Resolved(d).secret = d.secret
         /\ Resolved(d).name = d.name /\ Resolved(d).factory = FactoryOf[d.name]
  BY ConfigAssumption DEF Resolved, Document

\* A thread without a request is well typed.
LEMMA IdleIsRequest == Idle \in Request
  BY DEF Idle, Request, Op, Pcs

-----------------------------------------------------------------------------
(* What a step does to the token cache *)

\* The steps of requests, as TokenCache sees them: the document changes, calls
\* of get() begin and end, a process clears its cache.
Begins(t) == got[t].pc = "off" /\ got'[t] = [got[t] EXCEPT !.pc = "id"]

Quiet ==
  /\ \E d \in Document : Configure(d)
  /\ UNCHANGED <<cached, clock>>
  /\ got' \in [Thread -> Got]
  /\ \A t \in Thread : got'[t] = got[t] \/ got'[t] = Off \/ Begins(t)

Clears == \E p \in Process : Clear(p) /\ UNCHANGED <<cfg, got>>

ConfigStep == (Quiet \/ Clears) /\ ThrInv' /\ ToldInv'

\* A step that leaves the document and the caches alone is quiet,
LEMMA Unchanged ==
  ASSUME TypeInv, UNCHANGED <<cfg, cacheVars, history>>
  PROVE  Quiet
  BY DEF TypeInv, GotInv, Quiet, Configure, cacheVars, history

\* as a document may be configured to itself,
LEMMA Same ==
  ASSUME TypeInv, cfg' = cfg, UNCHANGED history
  PROVE  \E d \in Document : Configure(d)
  BY DEF TypeInv, Configure, history

\* so beginning a get() is quiet,
LEMMA StartIsQuiet ==
  ASSUME TypeInv, NEW t \in Thread, StartGet(t), UNCHANGED cfg
  PROVE  Quiet
<1>1. got' \in [Thread -> Got]
  BY DEF TypeInv, GotInv, StartGet, Move, Got, GetPcs
<1>2. \A u \in Thread : got'[u] = got[u] \/ Begins(u)
  BY DEF TypeInv, GotInv, StartGet, Move, AtGet, Begins, Got
<1> QED
  BY <1>1, <1>2, Same DEF Quiet, StartGet

\* and so is ending one with a new document.
LEMMA EndIsQuiet ==
  ASSUME TypeInv, NEW t \in Thread, EndGet(t), UNCHANGED <<cached, clock>>,
         NEW d \in Document, Configure(d)
  PROVE  Quiet
<1>1. got' \in [Thread -> Got]
  BY OffIsGot DEF TypeInv, GotInv, EndGet
<1>2. \A u \in Thread : got'[u] = got[u] \/ got'[u] = Off
  BY DEF TypeInv, GotInv, EndGet
<1> QED
  BY <1>1, <1>2 DEF Quiet

\* A request that ends leaves the threads well typed,
LEMMA EndKeeps ==
  ASSUME TypeInv, NEW t \in Thread, End(t)
  PROVE  ThrInv'
  BY IdleIsRequest DEF TypeInv, ThrInv, End, Idle, WithDoc, WithBody

\* and so does one that goes on after ensure_factory_id.
LEMMA EnsureKeeps ==
  ASSUME TypeInv, NEW t \in Thread, AfterEnsure(t)
  PROVE  ThrInv'
<1>1. CASE thr[t].op \in {"get", "post"}
  BY <1>1, EndKeeps DEF AfterEnsure
<1>2. CASE thr[t].op \notin {"get", "post"}
  BY <1>2 DEF TypeInv, ThrInv, AfterEnsure, Request, Pcs, WithDoc, WithBody
<1> QED
  BY <1>1, <1>2

\* A request goes on to a place that needs nothing, or no more than it has.
LEMMA GotoKeeps ==
  ASSUME TypeInv, NEW t \in Thread, NEW l \in Pcs, Goto(t, l),
         l \in WithDoc => thr[t].doc \in Document,
         l \in WithBody => thr[t].body \in Body
  PROVE  ThrInv'
  BY DEF TypeInv, ThrInv, Goto, Request

\* Begin is a step of the configuration: the threads stay well typed.
LEMMA BeginIsConfigStep ==
  ASSUME TypeInv, NEW t \in Thread, NEW o \in Op, NEW b \in {None} \cup Body,
         o = "post" <=> b \in Body, Begin(t, o, b)
  PROVE  ConfigStep
<1>1. Quiet
  BY Unchanged DEF Begin
<1>2. Start(o) \in {"load", "client", "ensure"} /\ (Start(o) = "load" => o = "post")
  BY DEF Start, Op
<1>3. ThrInv'
  BY <1>2 DEF TypeInv, ThrInv, Begin, Request, Pcs, WithDoc, WithBody
<1>4. ToldInv'
  BY ConfigAssumption DEF TypeInv, ToldInv, Begin
<1> QED
  BY <1>1, <1>3, <1>4 DEF ConfigStep

\* What callers were told stays well typed.
LEMMA ToldKept == ASSUME TypeInv, UNCHANGED told PROVE ToldInv'
  BY DEF TypeInv, ToldInv, told

\* EnsureLoad is a step of the configuration: the threads stay well typed.
LEMMA EnsureLoadIsConfigStep ==
  ASSUME TypeInv, NEW t \in Thread, EnsureLoad(t)
  PROVE  ConfigStep
<1>1. ToldInv'
  BY ToldKept DEF EnsureLoad
<1>2. CASE cfg.tool /\ thr' = [thr EXCEPT ![t].pc = "lookup", ![t].doc = cfg] /\ StartGet(t)
  <2>1. Quiet
    BY <1>2, StartIsQuiet DEF EnsureLoad
  <2>2. ThrInv'
    BY <1>2 DEF TypeInv, ThrInv, Request, Pcs, WithDoc, WithBody
  <2> QED
    BY <1>1, <2>1, <2>2 DEF ConfigStep
<1>3. CASE AfterEnsure(t) /\ UNCHANGED <<cacheVars, history>>
  BY <1>1, <1>3, EnsureKeeps, Unchanged DEF ConfigStep, EnsureLoad
<1> QED
  BY <1>2, <1>3 DEF EnsureLoad

\* LookupFails is a step of the configuration: the threads stay well typed.
LEMMA LookupFailsIsConfigStep ==
  ASSUME TypeInv, NEW t \in Thread, LookupFails(t)
  PROVE  ConfigStep
<1>1. Quiet
  BY Same, EndIsQuiet DEF LookupFails
<1> QED
  BY <1>1, EnsureKeeps, ToldKept DEF LookupFails, ConfigStep

\* Lookup is a step of the configuration: the threads stay well typed.
LEMMA LookupIsConfigStep ==
  ASSUME TypeInv, NEW t \in Thread, Lookup(t)
  PROVE  ConfigStep
<1>1. thr[t].doc \in Document
  BY DEF TypeInv, ThrInv, Lookup, At, WithDoc
<1>2. Resolved(thr[t].doc) \in Document /\ cfg \in Document
  BY <1>1, ResolvedIsDocument DEF TypeInv
<1>3. \E d \in Document : Configure(d)
  BY <1>2 DEF Lookup
<1>4. Quiet
  BY <1>3, EndIsQuiet DEF Lookup
<1> QED
  BY <1>4, EnsureKeeps, ToldKept DEF Lookup, ConfigStep

\* Client is a step of the configuration: the threads stay well typed.
LEMMA ClientIsConfigStep ==
  ASSUME TypeInv, NEW t \in Thread, Client(t)
  PROVE  ConfigStep
<1>1. ToldInv'
  BY ToldKept DEF Client
<1>2. CASE Goto(t, "build") /\ StartGet(t)
  <2>1. ThrInv'
    BY <1>2, GotoKeeps DEF Pcs, WithDoc, WithBody
  <2> QED
    BY <1>1, <1>2, <2>1, StartIsQuiet DEF ConfigStep, Client
<1>3. CASE End(t) /\ UNCHANGED <<cacheVars, history>>
  BY <1>1, <1>3, EndKeeps, Unchanged DEF ConfigStep, Client
<1> QED
  BY <1>2, <1>3 DEF Client

\* Build is a step of the configuration: the threads stay well typed.
LEMMA BuildIsConfigStep ==
  ASSUME TypeInv, NEW t \in Thread, Build(t)
  PROVE  ConfigStep
<1>1. Quiet
  BY Same, EndIsQuiet DEF Build
<1> QED
  BY <1>1, EndKeeps, ToldKept DEF Build, ConfigStep

\* Reject is a step of the configuration: the threads stay well typed.
LEMMA RejectIsConfigStep ==
  ASSUME TypeInv, NEW t \in Thread, Reject(t)
  PROVE  ConfigStep
  BY EndKeeps, ToldKept, Unchanged DEF Reject, ConfigStep

\* PostLoad is a step of the configuration: the threads stay well typed.
LEMMA PostLoadIsConfigStep ==
  ASSUME TypeInv, NEW t \in Thread, PostLoad(t)
  PROVE  ConfigStep
<1>1. thr[t].body \in Body
  BY DEF TypeInv, ThrInv, PostLoad, At, WithBody
<1>2. PICK l \in {"validate", "save"} : thr' = [thr EXCEPT ![t].doc = cfg, ![t].pc = l]
  BY DEF PostLoad
<1>3. ThrInv'
  BY <1>1, <1>2 DEF TypeInv, ThrInv, Request, Pcs, WithDoc, WithBody
<1> QED
  BY <1>3, ToldKept, Unchanged DEF PostLoad, ConfigStep

\* The credentials a post validates are two texts.
LEMMA PairIsText ==
  ASSUME NEW b \in Bodies, NEW d \in Document
  PROVE  EffectivePair(b, d) \in Text \X Text
  BY DEF EffectivePair, Effective, Given, Bodies, Key, Document

\* Validate is a step of the configuration: the threads stay well typed.
LEMMA ValidateIsConfigStep ==
  ASSUME TypeInv, NEW t \in Thread, Validate(t)
  PROVE  ConfigStep
<1>1. thr[t].body \in Body /\ thr[t].doc \in Document
  BY DEF TypeInv, ThrInv, Validate, At, WithBody, WithDoc
<1>2. Quiet
  BY Unchanged DEF Validate
<1>3. EffectivePair(thr[t].body, thr[t].doc) \in Text \X Text
  BY <1>1, PairIsText, ConfigAssumption
<1>4. ToldInv'
  BY <1>3 DEF TypeInv, ToldInv, Validate
<1>5. CASE Goto(t, "save")
  BY <1>1, <1>2, <1>4, <1>5, GotoKeeps DEF ConfigStep, Pcs, WithDoc, WithBody
<1>6. CASE End(t)
  BY <1>2, <1>4, <1>6, EndKeeps DEF ConfigStep
<1> QED
  BY <1>5, <1>6 DEF Validate

\* A request that has resolved leaves the threads well typed.
LEMMA ResolveKeeps ==
  ASSUME TypeInv, NEW t \in Thread, Resolve(t)
  PROVE  ThrInv'
<1>1. CASE Goto(t, "ensure")
  BY <1>1, GotoKeeps DEF Pcs, WithDoc, WithBody
<1>2. CASE End(t)
  BY <1>2, EndKeeps
<1> QED
  BY <1>1, <1>2 DEF Resolve

\* PostSave is a step of the configuration: the threads stay well typed.
LEMMA PostSaveIsConfigStep ==
  ASSUME TypeInv, NEW t \in Thread, PostSave(t)
  PROVE  ConfigStep
<1>1. thr[t].body \in Bodies /\ thr[t].body \in Body /\ thr[t].doc \in Document
  BY ConfigAssumption DEF TypeInv, ThrInv, PostSave, At, WithBody, WithDoc
<1>2. Posted(thr[t].body, thr[t].doc) \in Document
  BY <1>1, PostedIsDocument
<1>3. Quiet
  BY <1>2 DEF TypeInv, GotInv, Quiet, PostSave, cacheVars
<1>4. thr[t].body.factory \in Text \cup {Absent}
  BY <1>1 DEF Bodies, Key
<1>5. ToldInv'
  BY <1>4 DEF TypeInv, ToldInv, PostSave
<1>6. CASE Goto(t, "clear")
  BY <1>1, <1>3, <1>5, <1>6, GotoKeeps DEF ConfigStep, Pcs, WithDoc, WithBody
<1>7. CASE Resolve(t)
  BY <1>3, <1>5, <1>7, ResolveKeeps DEF ConfigStep
<1> QED
  BY <1>6, <1>7 DEF PostSave

\* PostClear is a step of the configuration: the threads stay well typed.
LEMMA PostClearIsConfigStep ==
  ASSUME TypeInv, NEW t \in Thread, PostClear(t)
  PROVE  ConfigStep
<1>1. ProcessOf[t] \in Process
  BY TokenAssumption
<1>2. Clears
  BY <1>1 DEF PostClear, Clears
<1> QED
  BY <1>2, ResolveKeeps, ToldKept DEF PostClear, ConfigStep

CacheStep(t) == GetStep(t) /\ UNCHANGED <<thr, told>>
TimeStep     == Tick /\ UNCHANGED <<thr, told>>

\* Every step is one of the configuration, of time or of a cache.
LEMMA NextCases ==
  ASSUME TypeInv, Next
  PROVE  ConfigStep \/ TimeStep \/ \E t \in Thread : CacheStep(t)
<1>1. CASE TimeStep
  BY <1>1
<1>2. CASE \E t \in Thread, o \in Op \ {"post"} : Begin(t, o, None)
  BY <1>2, BeginIsConfigStep, ConfigAssumption
<1>3. CASE \E t \in Thread, b \in Body : Begin(t, "post", b)
  BY <1>3, BeginIsConfigStep DEF Op
<1>4. CASE \E t \in Thread : CacheStep(t)
  BY <1>4
<1>5. CASE \E t \in Thread : EnsureLoad(t) \/ Lookup(t) \/ LookupFails(t) \/ Client(t) \/ Build(t)
  BY <1>5, EnsureLoadIsConfigStep, LookupIsConfigStep, LookupFailsIsConfigStep,
     ClientIsConfigStep, BuildIsConfigStep
<1>6. CASE \E t \in Thread : Reject(t) \/ PostLoad(t) \/ Validate(t) \/ PostSave(t) \/ PostClear(t)
  BY <1>6, RejectIsConfigStep, PostLoadIsConfigStep, ValidateIsConfigStep,
     PostSaveIsConfigStep, PostClearIsConfigStep
<1> QED
  BY <1>1, <1>2, <1>3, <1>4, <1>5, <1>6 DEF Next, TimeStep, CacheStep

-----------------------------------------------------------------------------
(* Type correctness *)

\* The initial states satisfy TypeInv.
LEMMA InitTypes == Init => TypeInv
<1> SUFFICES ASSUME Init PROVE TypeInv
  OBVIOUS
<1>1. cfg \in Document /\ cfg.id \in Text /\ cfg.secret \in Text /\ cfg.factory \in Text
  BY ConfigAssumption DEF Init, Document
<1>2. TokensInv
  BY TokenAssumption DEF Init, TokenInit, TokensInv
<1>3. GotInv
  BY OffIsGot, TokenAssumption DEF Init, TokenInit, GotInv, Off
<1>4. ThrInv
  BY IdleIsRequest DEF Init, ThrInv, Idle, WithDoc, WithBody
<1>5. ToldInv
  BY <1>1, ConfigAssumption DEF Init, ToldInv
<1> QED
  BY <1>1, <1>2, <1>3, <1>4, <1>5 DEF TypeInv

\* Configure keeps the types.
LEMMA ConfigureTypes ==
  ASSUME TypeInv, NEW d \in Document, Configure(d)
  PROVE  /\ cfg' \in Document
         /\ changedAt' \in {changedAt, clock}
         /\ late' \subseteq Thread /\ fresh' \subseteq Process
  BY DEF TypeInv, TokensInv, Configure, history

\* Quiet keeps the types.
LEMMA QuietTypes ==
  ASSUME TypeInv, Quiet
  PROVE  cfg' \in Document /\ TokensInv' /\ GotInv'
<1>1. /\ cfg' \in Document /\ changedAt' \in {changedAt, clock}
      /\ late' \subseteq Thread /\ fresh' \subseteq Process
  BY ConfigureTypes DEF Quiet
<1>2. clock \in Nat /\ changedAt \in 0 .. clock
  BY TokenAssumption DEF TypeInv, TokensInv
<1>3. TokensInv'
  BY <1>1, <1>2 DEF TypeInv, TokensInv, Quiet
<1>4. ASSUME NEW t \in Thread
      PROVE  got'[t].at <= clock' /\ (got'[t].pc \in {"issued", "hit"} => got'[t].token \in Token)
  <2>1. CASE got'[t] = got[t]
    BY <2>1 DEF TypeInv, GotInv, Quiet
  <2>2. CASE got'[t] = Off
    BY <2>2, <1>2 DEF Off, Quiet
  <2>3. CASE Begins(t)
    BY <2>3 DEF TypeInv, GotInv, Got, Begins, Quiet
  <2> QED
    BY <2>1, <2>2, <2>3 DEF Quiet
<1> QED
  BY <1>1, <1>3, <1>4 DEF GotInv, Quiet

\* Clear keeps the types.
LEMMA ClearTypes ==
  ASSUME TypeInv, Clears
  PROVE  cfg' \in Document /\ TokensInv' /\ GotInv'
<1>1. PICK p \in Process : Clear(p) /\ UNCHANGED <<cfg, got>>
  BY DEF Clears
<1> QED
  BY <1>1 DEF TypeInv, TokensInv, GotInv, Clear

\* Tick keeps the types.
LEMMA TickTypes ==
  ASSUME TypeInv, Tick
  PROVE  cfg' \in Document /\ TokensInv' /\ GotInv'
  BY TokenAssumption DEF TypeInv, TokensInv, GotInv, Got, Tick, history

\* A get() that is left is well typed.
LEMMA LeaveIsGot ==
  ASSUME NEW o \in Outcome
  PROVE  LET g == [Off EXCEPT !.pc = o]
         IN  g \in Got /\ g.pc = o /\ g.at = 0 /\ g.token = None
  BY TokenAssumption DEF Off, Got, GetPcs

\* A thread leaves get() with what it has.
LEMMA LeaveTypes ==
  ASSUME TypeInv, NEW t \in Thread, NEW o \in Outcome \ {"hit"}, Leave(t, o), clock' = clock
  PROVE  GotInv'
<1>1. PICK g \in Got : got' = [got EXCEPT ![t] = g] /\ g.pc = o /\ g.at = 0
  BY LeaveIsGot DEF Leave
<1>2. clock \in Nat
  BY TokenAssumption DEF TypeInv, TokensInv
<1> QED
  BY <1>1, <1>2 DEF TypeInv, GotInv, Outcome

\* ReadId keeps the types.
LEMMA ReadIdTypes ==
  ASSUME TypeInv, NEW t \in Thread, ReadId(t)
  PROVE  cfg' \in Document /\ TokensInv' /\ GotInv'
<1>1. Or(cfg.id, EnvId) \in Text
  BY TokenAssumption DEF TypeInv, Document, Or
<1>2. GotInv'
  <2>1. clock \in Nat
    BY TokenAssumption DEF TypeInv, TokensInv
  <2>2. got' = [got EXCEPT ![t].pc = "secret", ![t].id = Or(cfg.id, EnvId), ![t].at = clock]
        /\ clock' = clock
    BY DEF ReadId
  <2>3. got'[t] \in Got /\ got'[t].pc = "secret" /\ got'[t].at = clock
    BY <1>1, <2>1, <2>2 DEF TypeInv, GotInv, Got, GetPcs
  <2>4. got' \in [Thread -> Got] /\ \A u \in Thread \ {t} : got'[u] = got[u]
    BY <2>2, <2>3 DEF TypeInv, GotInv
  <2> QED
    BY <2>1, <2>2, <2>3, <2>4 DEF TypeInv, GotInv
<1> QED
  BY <1>2 DEF TypeInv, TokensInv, ReadId

\* ReadSecret keeps the types.
LEMMA ReadSecretTypes ==
  ASSUME TypeInv, NEW t \in Thread, ReadSecret(t)
  PROVE  cfg' \in Document /\ TokensInv' /\ GotInv'
<1>1. Or(cfg.secret, EnvSecret) \in Text
  BY TokenAssumption DEF TypeInv, Document, Or
<1>2. clock \in Nat
  BY TokenAssumption DEF TypeInv, TokensInv
<1>3. ASSUME Leave(t, "none")
      PROVE  GotInv'
  BY <1>3, LeaveTypes DEF ReadSecret, Outcome
<1>4. ASSUME \E n \in {"ask", "unpack"} :
             got' = [got EXCEPT ![t].pc = n, ![t].secret = Or(cfg.secret, EnvSecret), ![t].at = clock]
      PROVE  GotInv'
  BY <1>1, <1>2, <1>4 DEF TypeInv, GotInv, Got, GetPcs, ReadSecret, Outcome
<1>5. GotInv'
  BY <1>3, <1>4 DEF ReadSecret
<1> QED
  BY <1>5 DEF TypeInv, TokensInv, ReadSecret, history

\* Unpack keeps the types.
LEMMA UnpackTypes ==
  ASSUME TypeInv, NEW t \in Thread, Unpack(t)
  PROVE  cfg' \in Document /\ TokensInv' /\ GotInv'
<1>1. ASSUME Leave(t, "failed")
      PROVE  GotInv'
  BY <1>1, LeaveTypes DEF Unpack, Outcome
<1>2. ASSUME Cache(t) # None /\ got' = [got EXCEPT ![t].pc = "hit", ![t].token = Cache(t).token]
      PROVE  GotInv'
  <2>1. Cache(t).token \in Token
    BY <1>2, TokenAssumption DEF TypeInv, TokensInv, Cache, Entry
  <2> QED
    BY <1>2, <2>1 DEF TypeInv, GotInv, Got, GetPcs, Outcome, Unpack
<1>3. ASSUME Move(t, "ask")
      PROVE  GotInv'
  BY <1>3 DEF TypeInv, GotInv, Got, GetPcs, Move, Unpack
<1>4. GotInv'
  BY <1>1, <1>2, <1>3 DEF Unpack
<1> QED
  BY <1>4 DEF TypeInv, TokensInv, Unpack, history

\* Ask keeps the types.
LEMMA AskTypes ==
  ASSUME TypeInv, NEW t \in Thread, Ask(t)
  PROVE  cfg' \in Document /\ TokensInv' /\ GotInv'
<1>1. GotInv'
  BY DEF TypeInv, GotInv, Got, GetPcs, Document, Ask
<1> QED
  BY <1>1 DEF TypeInv, TokensInv, Ask, history

\* The token the server issues.
Issued(t, l) == [id |-> got[t].id, secret |-> got[t].secret, dies |-> clock + l, life |-> l]

\* An issued token is well typed.
LEMMA IssuedIsToken ==
  ASSUME TypeInv, NEW t \in Thread, NEW l \in Lifetimes
  PROVE  Issued(t, l) \in Token
<1>1. got[t].id \in Text /\ got[t].secret \in Text
  BY DEF TypeInv, GotInv, Got
<1>2. clock + l \in Nat
  BY TokenAssumption DEF TypeInv, TokensInv
<1> QED
  BY <1>1, <1>2 DEF Issued, Token

\* Issue keeps the types.
LEMMA IssueTypes ==
  ASSUME TypeInv, NEW t \in Thread, Issue(t)
  PROVE  cfg' \in Document /\ TokensInv' /\ GotInv'
<1>1. ASSUME Leave(t, "failed")
      PROVE  GotInv'
  BY <1>1, LeaveTypes DEF Issue, Outcome
<1>2. ASSUME \E l \in Lifetimes : got' = [got EXCEPT ![t].pc = "issued", ![t].token = Issued(t, l)]
      PROVE  GotInv'
  <2>1. PICK k \in Token : got' = [got EXCEPT ![t].pc = "issued", ![t].token = k]
    BY <1>2, IssuedIsToken
  <2> QED
    BY <2>1 DEF TypeInv, GotInv, Got, GetPcs, Issue
<1>3. GotInv'
  BY <1>1, <1>2 DEF Issue, Issued
<1> QED
  BY <1>3 DEF TypeInv, TokensInv, Issue, history

\* What Store(t) puts into the cache.
Stored(t) == [token |-> got[t].token, until |-> Until(t)]

\* An entry is well typed and ends with its token or its age.
LEMMA StoredIsEntry ==
  ASSUME TypeInv, NEW t \in Thread, got[t].pc = "issued"
  PROVE  Stored(t) \in Entry /\ Until(t) <= got[t].at + got[t].token.life
         /\ Until(t) <= got[t].at + MaxAge
<1>1. got[t].token \in Token /\ got[t].at \in Nat
  BY DEF TypeInv, GotInv, Got
<1>2. got[t].token.life \in Nat
  BY <1>1, TokenAssumption DEF Token
<1>3. /\ Until(t) \in Nat
      /\ Until(t) <= got[t].at + got[t].token.life /\ Until(t) <= got[t].at + MaxAge
  BY <1>1, <1>2, TokenAssumption DEF Until, AtMost
<1> QED
  BY <1>1, <1>3 DEF Stored, Entry

\* Store keeps the types.
LEMMA StoreTypes ==
  ASSUME TypeInv, NEW t \in Thread, Store(t)
  PROVE  cfg' \in Document /\ TokensInv' /\ GotInv'
<1>1. GotInv'
  BY LeaveTypes DEF Store, Outcome
<1>2. Stored(t) \in Entry
  BY StoredIsEntry DEF Store, AtGet
<1>3. cached' = [cached EXCEPT ![ProcessOf[t]] = Stored(t)]
  BY DEF Store, Stored
<1>4. TokensInv'
  BY <1>2, <1>3 DEF TypeInv, TokensInv, Store
<1> QED
  BY <1>1, <1>4 DEF TypeInv, Store

\* Every step of a get() keeps the types.
LEMMA CacheStepTypes ==
  ASSUME TypeInv, NEW t \in Thread, GetStep(t)
  PROVE  cfg' \in Document /\ TokensInv' /\ GotInv'
  BY ReadIdTypes, ReadSecretTypes, UnpackTypes, AskTypes, IssueTypes, StoreTypes DEF GetStep

\* Threads that do not move stay well typed.
LEMMA ThrKept == ASSUME TypeInv, UNCHANGED <<thr, told>> PROVE ThrInv' /\ ToldInv'
  BY DEF TypeInv, ThrInv, ToldInv, told

\* Every step keeps TypeInv.
LEMMA NextTypes == TypeInv /\ Next => TypeInv'
<1> SUFFICES ASSUME TypeInv, Next PROVE TypeInv'
  OBVIOUS
<1>1. CASE ConfigStep
  BY <1>1, QuietTypes, ClearTypes DEF ConfigStep, TypeInv
<1>2. CASE TimeStep
  BY <1>2, TickTypes, ThrKept DEF TimeStep, TypeInv
<1>3. CASE \E t \in Thread : CacheStep(t)
  BY <1>3, CacheStepTypes, ThrKept DEF CacheStep, TypeInv
<1> QED
  BY <1>1, <1>2, <1>3, NextCases

\* A stuttering step keeps the types.
LEMMA StutterTypes == TypeInv /\ UNCHANGED vars => TypeInv'
  BY DEF TypeInv, TokensInv, GotInv, ThrInv, ToldInv, vars, cacheVars, history, told

\* Every reachable state is well typed.
LEMMA TypesHold == Spec => []TypeInv
<1>1. TypeInv /\ [Next]_vars => TypeInv'
  BY NextTypes, StutterTypes
<1> QED
  BY <1>1, InitTypes, PTL DEF Spec

\* The type invariant of the configuration and of the token cache: what the
\* requests, the threads in get() and the caches hold in every state.
THEOREM TypeCorrect == Spec => []TypeOK
  BY TypesHold, TypeInvImpliesTypeOK, PTL

-----------------------------------------------------------------------------
(* Tokens: the age of what is cached, and whose credentials it was had with *)

InForce(i, c) == <<i, c>> = Credentials(cfg)

\* Of a cached entry: it ends before the token dies, it ends within MaxAge of
\* now, and within MaxAge and a load of the change that replaced its credentials.
EntryInv(p) ==
  cached[p] # None =>
    /\ cached[p].until <= cached[p].token.dies
    /\ cached[p].until <= clock + MaxAge
    /\ ~InForce(cached[p].token.id, cached[p].token.secret) => cached[p].until <= changedAt + LoadTime + MaxAge
    /\ p \in fresh => InForce(cached[p].token.id, cached[p].token.secret)

\* Of a thread in get(): an id that is no longer in force was read before the
\* change and at most LoadTime ago, a pair at most LoadTime after it.  A
\* thread that is not late has what is in force.
SecretInv(t) ==
  got[t].pc = "secret" =>
    /\ got[t].id # Or(cfg.id, EnvId) => got[t].at <= changedAt
    /\ clock <= got[t].at + LoadTime
    /\ t \notin late => got[t].id = Or(cfg.id, EnvId)

PairInv(t) ==
  got[t].pc \in {"unpack", "ask", "asked", "issued"} =>
    /\ ~InForce(got[t].id, got[t].secret) => got[t].at <= changedAt + LoadTime
    /\ t \notin late => InForce(got[t].id, got[t].secret)

IssuedInv(t) ==
  got[t].pc = "issued" =>
    /\ got[t].at + got[t].token.life <= got[t].token.dies
    /\ got[t].token.id = got[t].id /\ got[t].token.secret = got[t].secret

HitInv(t) ==
  got[t].pc = "hit" =>
    /\ got[t].at + Leeway < got[t].token.dies
    /\ ~InForce(got[t].token.id, got[t].token.secret) =>
         got[t].at < changedAt + LoadTime + MaxAge - Leeway

ThreadInv(t) == SecretInv(t) /\ PairInv(t) /\ IssuedInv(t) /\ HitInv(t)

TokenInv == (\A p \in Process : EntryInv(p)) /\ (\A t \in Thread : ThreadInv(t))

\* TokenInv gives the three promises of the cache.
LEMMA TokenInvImplies ==
  ASSUME TypeInv, TokenInv
  PROVE  CachedTokensAreLive /\ ReplacedCredentialsDieOut /\ ClearedCachesAreFresh
<1>1. CachedTokensAreLive
  BY DEF TokenInv, ThreadInv, HitInv, CachedTokensAreLive, AtGet
<1>2. ReplacedCredentialsDieOut
  BY DEF TokenInv, ThreadInv, HitInv, InForce, ReplacedCredentialsDieOut, AtGet
<1>3. ClearedCachesAreFresh
  BY DEF TypeInv, TokensInv, TokenInv, EntryInv, InForce, ClearedCachesAreFresh
<1> QED
  BY <1>1, <1>2, <1>3

\* The initial states satisfy TokenInv.
LEMMA InitTokens == Init => TokenInv
  BY DEF Init, TokenInit, Off, TokenInv, EntryInv, ThreadInv, SecretInv, PairInv, IssuedInv, HitInv

\* What an entry and a thread see.
LEMMA EntryKept ==
  ASSUME NEW p \in Process, EntryInv(p), UNCHANGED <<cfg, clock, changedAt>>,
         cached'[p] = cached[p], p \in fresh' => p \in fresh
  PROVE  EntryInv(p)'
  BY DEF EntryInv, InForce, Credentials

\* A thread that stays where it is keeps its invariant while the configuration stays,
LEMMA ThreadKept ==
  ASSUME NEW t \in Thread, ThreadInv(t), UNCHANGED <<cfg, clock, changedAt>>,
         got'[t] = got[t], t \in late => t \in late'
  PROVE  ThreadInv(t)'
  BY DEF ThreadInv, SecretInv, PairInv, IssuedInv, HitInv, InForce, Credentials

\* Times are numbers, and none is in the future.
LEMMA Numbers ==
  ASSUME TypeInv
  PROVE  /\ clock \in Nat /\ changedAt \in Nat /\ changedAt <= clock
         /\ \A t \in Thread : got[t].at \in Nat /\ got[t].at <= clock
         /\ \A p \in Process : cached[p] # None =>
              cached[p].until \in Nat /\ cached[p].token.dies \in Nat
         /\ \A t \in Thread : got[t].pc \in {"issued", "hit"} =>
              got[t].token.dies \in Nat /\ got[t].token.life \in Nat
<1>1. clock \in Nat /\ changedAt \in Nat /\ changedAt <= clock
  BY TokenAssumption DEF TypeInv, TokensInv
<1>2. \A k \in Token : k.dies \in Nat /\ k.life \in Nat
  BY TokenAssumption DEF Token
<1>3. \A p \in Process : cached[p] # None => cached[p] \in Entry
  BY DEF TypeInv, TokensInv
<1>4. \A p \in Process : cached[p] # None => cached[p].until \in Nat /\ cached[p].token \in Token
  BY <1>3 DEF Entry
<1>5. \A t \in Thread : got[t].at \in Nat /\ got[t].at <= clock
  BY DEF TypeInv, GotInv, Got
<1>6. \A t \in Thread : got[t].pc \in {"issued", "hit"} => got[t].token \in Token
  BY DEF TypeInv, GotInv
<1> QED
  BY <1>1, <1>2, <1>4, <1>5, <1>6

\* The document changes: what was had with the old credentials dates from
\* before this time.
LEMMA ChangeKeepsEntry ==
  ASSUME TypeInv, NEW p \in Process, EntryInv(p), NEW d \in Document, Configure(d),
         UNCHANGED <<cached, clock>>
  PROVE  EntryInv(p)'
<1>1. CASE Credentials(d) = Credentials(cfg)
  BY <1>1 DEF EntryInv, Configure, InForce, Credentials, history
<1>2. CASE Credentials(d) # Credentials(cfg)
  BY <1>2, Numbers, TokenAssumption DEF EntryInv, Configure
<1> QED
  BY <1>1, <1>2

\* and also when the configuration changes.
LEMMA ChangeKeepsThread ==
  ASSUME TypeInv, NEW t \in Thread, ThreadInv(t), NEW d \in Document, Configure(d),
         UNCHANGED clock, got'[t] = got[t]
  PROVE  ThreadInv(t)'
<1>1. CASE Credentials(d) = Credentials(cfg)
  <2>1. Or(d.id, EnvId) = Or(cfg.id, EnvId) /\ Or(d.secret, EnvSecret) = Or(cfg.secret, EnvSecret)
    BY <1>1 DEF Credentials
  <2> QED
    BY <1>1, <2>1 DEF ThreadInv, SecretInv, PairInv, IssuedInv, HitInv, Configure, InForce,
       Credentials, history
<1>2. CASE Credentials(d) # Credentials(cfg)
  <2>1. changedAt' = clock /\ late' = {u \in Thread : InGet(u)}
    BY <1>2 DEF Configure
  <2>2. got[t].pc \in {"secret", "unpack", "ask", "asked", "issued"} => t \in late'
    BY <2>1 DEF InGet, Outcome
  <2>3. got[t].at \in Nat /\ got[t].at <= clock /\ clock \in Nat
    BY Numbers
  <2>4. SecretInv(t)' /\ PairInv(t)'
    BY <2>1, <2>2, <2>3, TokenAssumption DEF ThreadInv, SecretInv, PairInv
  <2>5. IssuedInv(t)'
    BY DEF ThreadInv, IssuedInv
  <2>6. HitInv(t)'
    BY <2>1, <2>3, TokenAssumption DEF ThreadInv, HitInv
  <2> QED
    BY <2>4, <2>5, <2>6 DEF ThreadInv
<1> QED
  BY <1>1, <1>2

\* A thread that is at no such place.
LEMMA AwayInv ==
  ASSUME NEW t \in Thread,
         got'[t].pc \notin {"secret", "unpack", "ask", "asked", "issued", "hit"}
  PROVE  ThreadInv(t)'
  BY DEF ThreadInv, SecretInv, PairInv, IssuedInv, HitInv

\* A step that leaves the caches alone keeps TokenInv.
LEMMA QuietTokens ==
  ASSUME TypeInv, TokenInv, Quiet
  PROVE  TokenInv'
<1>1. PICK d \in Document : Configure(d)
  BY DEF Quiet
<1>2. ASSUME NEW p \in Process PROVE EntryInv(p)'
  BY <1>1, ChangeKeepsEntry DEF Quiet, TokenInv
<1>3. ASSUME NEW t \in Thread PROVE ThreadInv(t)'
  <2>1. CASE got'[t] = got[t]
    BY <1>1, <2>1, ChangeKeepsThread DEF Quiet, TokenInv
  <2>2. CASE got'[t] = Off
    BY <2>2, AwayInv DEF Off
  <2>3. CASE Begins(t)
    <3>1. got'[t].pc = "id"
      BY <2>3 DEF Begins, TypeInv, GotInv, Got
    <3> QED
      BY <3>1, AwayInv
  <2> QED
    BY <2>1, <2>2, <2>3 DEF Quiet
<1> QED
  BY <1>2, <1>3 DEF TokenInv

\* Clear keeps TokenInv.
LEMMA ClearTokens ==
  ASSUME TypeInv, TokenInv, Clears
  PROVE  TokenInv'
<1>1. PICK q \in Process : Clear(q) /\ UNCHANGED <<cfg, got>>
  BY DEF Clears
<1>2. ASSUME NEW p \in Process PROVE EntryInv(p)'
  <2>1. CASE p = q
    BY <1>1, <2>1 DEF Clear, TypeInv, TokensInv, EntryInv
  <2>2. CASE p # q
    BY <1>1, <2>2, EntryKept DEF Clear, TypeInv, TokensInv, TokenInv
  <2> QED
    BY <2>1, <2>2
<1>3. ASSUME NEW t \in Thread PROVE ThreadInv(t)'
  BY <1>1, ThreadKept DEF Clear, TokenInv
<1> QED
  BY <1>2, <1>3 DEF TokenInv

\* Tick keeps TokenInv.
LEMMA TickTokens ==
  ASSUME TypeInv, TokenInv, Tick
  PROVE  TokenInv'
<1>1. ASSUME NEW p \in Process PROVE EntryInv(p)'
  BY Numbers, TokenAssumption DEF Tick, TokenInv, EntryInv, InForce, Credentials, history
<1>2. ASSUME NEW t \in Thread PROVE ThreadInv(t)'
  BY Numbers, TokenAssumption DEF Tick, AtGet, TokenInv, ThreadInv, SecretInv, PairInv,
     IssuedInv, HitInv, InForce, Credentials, history
<1> QED
  BY <1>1, <1>2 DEF TokenInv

\* A step of one thread in get() that leaves the caches alone.
LEMMA OneThread ==
  ASSUME TypeInv, TokenInv, NEW t \in Thread,
         UNCHANGED <<cfg, cached, clock, changedAt, fresh>>,
         \A u \in Thread \ {t} : got'[u] = got[u] /\ (u \in late => u \in late'),
         ThreadInv(t)'
  PROVE  TokenInv'
<1>1. \A p \in Process : EntryInv(p)'
  BY EntryKept DEF TokenInv
<1>2. \A u \in Thread \ {t} : ThreadInv(u)'
  BY ThreadKept DEF TokenInv
<1> QED
  BY <1>1, <1>2 DEF TokenInv

\* A get() that is left without a cached token keeps its invariant.
LEMMA LeaveTokens ==
  ASSUME TypeInv, NEW t \in Thread, NEW o \in Outcome \ {"hit"}, Leave(t, o)
  PROVE  ThreadInv(t)' /\ \A u \in Thread \ {t} : got'[u] = got[u]
<1>1. got' = [got EXCEPT ![t] = [Off EXCEPT !.pc = o]] /\ [Off EXCEPT !.pc = o].pc = o
  BY LeaveIsGot DEF Leave
<1>2. got'[t].pc = o /\ \A u \in Thread \ {t} : got'[u] = got[u]
  BY <1>1 DEF TypeInv, GotInv
<1> QED
  BY <1>2, AwayInv DEF Outcome

\* ReadId keeps TokenInv.
LEMMA ReadIdTokens ==
  ASSUME TypeInv, TokenInv, NEW t \in Thread, ReadId(t)
  PROVE  TokenInv'
<1>1. got'[t].pc = "secret" /\ got'[t].id = Or(cfg.id, EnvId) /\ got'[t].at = clock
  BY DEF ReadId, TypeInv, GotInv, Got
<1>2. ThreadInv(t)'
  BY <1>1, Numbers, TokenAssumption DEF ReadId, ThreadInv, SecretInv, PairInv, IssuedInv, HitInv
<1>3. \A u \in Thread \ {t} : got'[u] = got[u] /\ (u \in late => u \in late')
  BY DEF ReadId, TypeInv, GotInv
<1> QED
  BY <1>2, <1>3, OneThread DEF ReadId

\* ReadSecret keeps TokenInv.
LEMMA ReadSecretTokens ==
  ASSUME TypeInv, TokenInv, NEW t \in Thread, ReadSecret(t)
  PROVE  TokenInv'
<1>1. CASE Leave(t, "none")
  BY <1>1, LeaveTokens, OneThread DEF ReadSecret, Outcome, history
<1>2. CASE \E n \in {"ask", "unpack"} :
             got' = [got EXCEPT ![t].pc = n, ![t].secret = Or(cfg.secret, EnvSecret), ![t].at = clock]
  <2>1. /\ got'[t].pc \in {"ask", "unpack"} /\ got'[t].id = got[t].id
        /\ got'[t].secret = Or(cfg.secret, EnvSecret) /\ got'[t].at = clock
    BY <1>2 DEF TypeInv, GotInv, Got
  <2>2. /\ got[t].id # Or(cfg.id, EnvId) => got[t].at <= changedAt
        /\ clock <= got[t].at + LoadTime
        /\ t \notin late => got[t].id = Or(cfg.id, EnvId)
    BY DEF TokenInv, ThreadInv, SecretInv, ReadSecret, AtGet
  <2>3. UNCHANGED <<cfg, clock, history>>
    BY DEF ReadSecret
  <2>4. clock \in Nat /\ changedAt \in Nat /\ got[t].at \in Nat /\ LoadTime \in Nat
    BY Numbers, TokenAssumption
  <2>5. PairInv(t)'
    BY <2>1, <2>2, <2>3, <2>4 DEF PairInv, InForce, Credentials, history
  <2>6. ThreadInv(t)'
    BY <2>1, <2>5 DEF ThreadInv, SecretInv, IssuedInv, HitInv
  <2>7. \A u \in Thread \ {t} : got'[u] = got[u]
    BY <1>2 DEF TypeInv, GotInv
  <2> QED
    BY <2>6, <2>7, OneThread DEF ReadSecret, history
<1> QED
  BY <1>1, <1>2 DEF ReadSecret

\* Unpack keeps TokenInv.
LEMMA UnpackTokens ==
  ASSUME TypeInv, TokenInv, NEW t \in Thread, Unpack(t)
  PROVE  TokenInv'
<1>1. CASE Leave(t, "failed")
  BY <1>1, LeaveTokens, OneThread DEF Unpack, Outcome, history
<1>2. CASE /\ Cache(t) # None /\ got[t].at < Cache(t).until - Leeway
           /\ got' = [got EXCEPT ![t].pc = "hit", ![t].token = Cache(t).token]
  <2>1. got'[t].pc = "hit" /\ got'[t].token = Cache(t).token /\ got'[t].at = got[t].at
    BY <1>2 DEF TypeInv, GotInv, Got
  <2>2. ProcessOf[t] \in Process
    BY TokenAssumption
  <2>3. /\ Cache(t).until <= Cache(t).token.dies
        /\ ~InForce(Cache(t).token.id, Cache(t).token.secret) =>
             Cache(t).until <= changedAt + LoadTime + MaxAge
    BY <1>2, <2>2 DEF Cache, TokenInv, EntryInv
  <2>4. /\ got[t].at \in Nat /\ changedAt \in Nat
        /\ Cache(t).until \in Nat /\ Cache(t).token.dies \in Nat
    BY <1>2, <2>2, Numbers DEF Cache
  <2>5. UNCHANGED <<cfg, changedAt>>
    BY DEF Unpack, history
  <2>6. HitInv(t)'
    BY <1>2, <2>1, <2>3, <2>4, <2>5, TokenAssumption DEF HitInv, InForce, Credentials
  <2>7. ThreadInv(t)'
    BY <2>1, <2>6 DEF ThreadInv, SecretInv, PairInv, IssuedInv
  <2>8. \A u \in Thread \ {t} : got'[u] = got[u]
    BY <1>2 DEF TypeInv, GotInv
  <2> QED
    BY <2>7, <2>8, OneThread DEF Unpack, history
<1>3. CASE Move(t, "ask")
  <2>1. /\ got'[t].pc = "ask" /\ got'[t].id = got[t].id /\ got'[t].secret = got[t].secret
        /\ got'[t].at = got[t].at
    BY <1>3 DEF Move, TypeInv, GotInv, Got
  <2>2. PairInv(t)'
    BY <2>1 DEF Unpack, AtGet, TokenInv, ThreadInv, PairInv, InForce, Credentials, history
  <2>3. ThreadInv(t)'
    BY <2>1, <2>2 DEF ThreadInv, SecretInv, IssuedInv, HitInv
  <2>4. \A u \in Thread \ {t} : got'[u] = got[u]
    BY <1>3 DEF Move, TypeInv, GotInv
  <2> QED
    BY <2>3, <2>4, OneThread DEF Unpack, history
<1> QED
  BY <1>1, <1>2, <1>3 DEF Unpack

\* Ask keeps TokenInv.
LEMMA AskTokens ==
  ASSUME TypeInv, TokenInv, NEW t \in Thread, Ask(t)
  PROVE  TokenInv'
<1>1. /\ got'[t].pc = "asked" /\ got'[t].id = got[t].id /\ got'[t].secret = got[t].secret
      /\ got'[t].at = got[t].at
  BY DEF Ask, TypeInv, GotInv, Got
<1>2. PairInv(t)'
  BY <1>1 DEF Ask, AtGet, TokenInv, ThreadInv, PairInv, InForce, Credentials, history
<1>3. ThreadInv(t)'
  BY <1>1, <1>2 DEF ThreadInv, SecretInv, IssuedInv, HitInv
<1>4. \A u \in Thread \ {t} : got'[u] = got[u]
  BY DEF Ask, TypeInv, GotInv
<1> QED
  BY <1>3, <1>4, OneThread DEF Ask, history

\* Issue keeps TokenInv.
LEMMA IssueTokens ==
  ASSUME TypeInv, TokenInv, NEW t \in Thread, Issue(t)
  PROVE  TokenInv'
<1>1. CASE Leave(t, "failed")
  BY <1>1, LeaveTokens, OneThread DEF Issue, Outcome, history
<1>2. CASE \E l \in Lifetimes : got' = [got EXCEPT ![t].pc = "issued", ![t].token = Issued(t, l)]
  <2>1. PICK l \in Lifetimes : got' = [got EXCEPT ![t].pc = "issued", ![t].token = Issued(t, l)]
    BY <1>2
  <2>2. /\ got'[t].pc = "issued" /\ got'[t].id = got[t].id /\ got'[t].secret = got[t].secret
        /\ got'[t].at = got[t].at /\ got'[t].token = Issued(t, l)
    BY <2>1 DEF TypeInv, GotInv, Got
  <2>3. l \in Nat /\ clock \in Nat /\ got[t].at \in Nat /\ got[t].at <= clock
    BY Numbers, TokenAssumption
  <2>4. PairInv(t)'
    BY <2>2 DEF Issue, AtGet, TokenInv, ThreadInv, PairInv, InForce, Credentials, history
  <2>5. IssuedInv(t)'
    BY <2>2, <2>3 DEF IssuedInv, Issued
  <2>6. ThreadInv(t)'
    BY <2>2, <2>4, <2>5 DEF ThreadInv, SecretInv, HitInv
  <2>7. \A u \in Thread \ {t} : got'[u] = got[u]
    BY <2>1 DEF TypeInv, GotInv
  <2> QED
    BY <2>6, <2>7, OneThread DEF Issue, history
<1> QED
  BY <1>1, <1>2 DEF Issue, Issued

\* Store keeps TokenInv.
LEMMA StoreTokens ==
  ASSUME TypeInv, TokenInv, NEW t \in Thread, Store(t)
  PROVE  TokenInv'
<1>1. \A u \in Thread : ThreadInv(u)'
  BY LeaveTokens, ThreadKept DEF Store, Outcome, TokenInv
<1>2. got[t].pc = "issued" /\ UNCHANGED <<cfg, clock, changedAt, late>>
  BY DEF Store, AtGet
<1>3. cached' = [cached EXCEPT ![ProcessOf[t]] = Stored(t)] /\ ProcessOf[t] \in Process
  BY TokenAssumption DEF Store, Stored
<1>4. cached'[ProcessOf[t]] = Stored(t)
      /\ \A p \in Process \ {ProcessOf[t]} : cached'[p] = cached[p]
  BY <1>3 DEF TypeInv, TokensInv
<1>5. ProcessOf[t] \in fresh' => t \notin late
  BY DEF Store
<1>6. /\ got[t].at + got[t].token.life <= got[t].token.dies
      /\ got[t].token.id = got[t].id /\ got[t].token.secret = got[t].secret
      /\ ~InForce(got[t].id, got[t].secret) => got[t].at <= changedAt + LoadTime
      /\ t \notin late => InForce(got[t].id, got[t].secret)
  BY <1>2 DEF TokenInv, ThreadInv, PairInv, IssuedInv
<1>7. EntryInv(ProcessOf[t])'
  <2>1. /\ Until(t) \in Nat /\ Until(t) <= got[t].at + got[t].token.life
        /\ Until(t) <= got[t].at + MaxAge
    BY <1>2, StoredIsEntry DEF Stored, Entry
  <2>2. /\ clock \in Nat /\ changedAt \in Nat /\ got[t].at \in Nat /\ got[t].at <= clock
        /\ got[t].token.dies \in Nat /\ got[t].token.life \in Nat
    BY <1>2, Numbers
  <2>3. Until(t) <= got[t].token.dies /\ Until(t) <= clock + MaxAge
    BY <1>6, <2>1, <2>2, TokenAssumption
  <2>4. ~InForce(got[t].id, got[t].secret) => Until(t) <= changedAt + LoadTime + MaxAge
    BY <1>6, <2>1, <2>2, TokenAssumption
  <2>5. Stored(t).token = got[t].token /\ Stored(t).until = Until(t)
    BY DEF Stored
  <2> QED
    BY <1>2, <1>4, <1>5, <1>6, <2>3, <2>4, <2>5 DEF EntryInv, InForce, Credentials
<1>8. \A p \in Process \ {ProcessOf[t]} : EntryInv(p)'
  <2>1. fresh' \subseteq fresh
    BY DEF Store
  <2> QED
    BY <1>2, <1>4, <2>1, EntryKept DEF TokenInv
<1> QED
  BY <1>1, <1>7, <1>8 DEF TokenInv

\* Every step of a get() keeps TokenInv.
LEMMA CacheStepTokens ==
  ASSUME TypeInv, TokenInv, NEW t \in Thread, GetStep(t)
  PROVE  TokenInv'
  BY ReadIdTokens, ReadSecretTokens, UnpackTokens, AskTokens, IssueTokens, StoreTokens DEF GetStep

\* Every step keeps TokenInv.
LEMMA NextTokens == TypeInv /\ TokenInv /\ Next => TokenInv'
<1> SUFFICES ASSUME TypeInv, TokenInv, Next PROVE TokenInv'
  OBVIOUS
<1>1. CASE ConfigStep
  BY <1>1, QuietTokens, ClearTokens DEF ConfigStep
<1>2. CASE TimeStep
  BY <1>2, TickTokens DEF TimeStep
<1>3. CASE \E t \in Thread : CacheStep(t)
  BY <1>3, CacheStepTokens DEF CacheStep
<1> QED
  BY <1>1, <1>2, <1>3, NextCases

\* A stuttering step keeps TokenInv.
LEMMA StutterTokens == TokenInv /\ UNCHANGED vars => TokenInv'
  BY DEF TokenInv, EntryInv, ThreadInv, SecretInv, PairInv, IssuedInv, HitInv, InForce, Credentials,
     vars, cacheVars, history

\* TokenInv holds of every reachable state.
LEMMA TokensHold == Spec => [](TypeInv /\ TokenInv)
<1>1. TypeInv /\ TokenInv /\ [Next]_vars => (TypeInv /\ TokenInv)'
  BY NextTypes, StutterTypes, NextTokens, StutterTokens
<1> QED
  BY <1>1, InitTypes, InitTokens, PTL DEF Spec

\* A cached token is never handed out within the leeway of its death.
THEOREM TokensAreLive == Spec => []CachedTokensAreLive
  BY TokensHold, TokenInvImplies, PTL

\* Replaced credentials are used from a cache for less than MaxAge - Leeway more.
THEOREM ReplacedDieOut == Spec => []ReplacedCredentialsDieOut
  BY TokensHold, TokenInvImplies, PTL

\* A cache that was cleared after a change holds tokens of the credentials in
\* force only.
THEOREM ClearedAreFresh == Spec => []ClearedCachesAreFresh
  BY TokensHold, TokenInvImplies, PTL

-----------------------------------------------------------------------------
(* Documents: what is stored, and what the requests carry to be stored *)

Confirmed(d, v) == Blank \notin {Stripped(d.id), Stripped(d.secret)} => <<d.id, d.secret>> \in v
Fits(d, m)      == d.factory \in {Blank, FactoryOf[d.name]} \cup m
Fine(d, v, m)   == Confirmed(d, v) /\ Fits(d, m)

\* Of a request: the document it carries, and the one a post is about to save.
CarriedInv(t) ==
  /\ thr[t].pc \in WithDoc => Fine(thr[t].doc, validated, manual)
  /\ thr[t].pc = "save" => Confirmed(Posted(thr[t].body, thr[t].doc), validated)

DocInv == Fine(cfg, validated, manual) /\ \A t \in Thread : CarriedInv(t)

\* DocInv gives the two promises of the document.
LEMMA DocInvImplies == DocInv => StoredPairWasValidated /\ FactoryFitsName
  BY DEF DocInv, Fine, Confirmed, Fits, StoredPairWasValidated, FactoryFitsName

\* The initial states satisfy DocInv.
LEMMA InitDocs == Init => DocInv
  BY DEF Init, DocInv, Fine, Confirmed, Fits, CarriedInv, Idle, WithDoc

\* A fine document stays fine as more pairs are validated.
LEMMA FineGrows ==
  ASSUME NEW d, NEW v, NEW m, NEW w, NEW n, Fine(d, v, m), v \subseteq w, m \subseteq n
  PROVE  Fine(d, w, n)
  BY DEF Fine, Confirmed, Fits

\* A step of one request.
LEMMA OneRequest ==
  ASSUME DocInv, NEW t \in Thread,
         validated \subseteq validated', manual \subseteq manual',
         Fine(cfg', validated', manual'),
         \A u \in Thread \ {t} : thr'[u] = thr[u],
         CarriedInv(t)'
  PROVE  DocInv'
<1>1. ASSUME NEW u \in Thread \ {t} PROVE CarriedInv(u)'
  BY <1>1, FineGrows DEF DocInv, CarriedInv, Confirmed
<1> QED
  BY <1>1 DEF DocInv

\* A request that ends carries no document,
LEMMA EndDocs ==
  ASSUME TypeInv, NEW t \in Thread, End(t)
  PROVE  CarriedInv(t)' /\ \A u \in Thread \ {t} : thr'[u] = thr[u]
  BY DEF TypeInv, ThrInv, End, Idle, CarriedInv, WithDoc

\* A request goes on to a place where it carries nothing.
LEMMA AwayDocs ==
  ASSUME TypeInv, NEW t \in Thread, NEW l \in Pcs \ WithDoc, Goto(t, l)
  PROVE  CarriedInv(t)' /\ \A u \in Thread \ {t} : thr'[u] = thr[u]
<1>1. thr'[t].pc = l /\ \A u \in Thread \ {t} : thr'[u] = thr[u]
  BY DEF TypeInv, ThrInv, Goto, Request
<1> QED
  BY <1>1 DEF CarriedInv, WithDoc

\* nor does one that goes on after ensure_factory_id,
LEMMA EnsureDocs ==
  ASSUME TypeInv, NEW t \in Thread, AfterEnsure(t)
  PROVE  CarriedInv(t)' /\ \A u \in Thread \ {t} : thr'[u] = thr[u]
<1>1. CASE thr[t].op \in {"get", "post"}
  BY <1>1, EndDocs DEF AfterEnsure
<1>2. CASE thr[t].op \notin {"get", "post"}
  <2>1. thr'[t].pc = "client" /\ \A u \in Thread \ {t} : thr'[u] = thr[u]
    BY <1>2 DEF TypeInv, ThrInv, AfterEnsure, Request
  <2> QED
    BY <2>1 DEF CarriedInv, WithDoc
<1> QED
  BY <1>1, <1>2

\* nor one that has resolved.
LEMMA ResolveDocs ==
  ASSUME TypeInv, NEW t \in Thread, Resolve(t)
  PROVE  CarriedInv(t)' /\ \A u \in Thread \ {t} : thr'[u] = thr[u]
  BY EndDocs, AwayDocs DEF Resolve, Pcs, WithDoc

\* A document that is not changed stays fine.
LEMMA Kept ==
  ASSUME DocInv, UNCHANGED <<cfg, validated, manual>>
  PROVE  /\ validated \subseteq validated' /\ manual \subseteq manual'
         /\ Fine(cfg', validated', manual')
  BY DEF DocInv

\* Begin keeps DocInv.
LEMMA BeginDocs ==
  ASSUME TypeInv, DocInv, NEW t \in Thread, NEW o \in Op, NEW b, Begin(t, o, b)
  PROVE  DocInv'
<1>1. thr'[t].pc = Start(o) /\ \A u \in Thread \ {t} : thr'[u] = thr[u]
  BY DEF Begin, TypeInv, ThrInv
<1>2. CarriedInv(t)'
  BY <1>1 DEF Start, CarriedInv, WithDoc
<1> QED
  BY <1>1, <1>2, Kept, OneRequest DEF Begin

\* EnsureLoad keeps DocInv.
LEMMA EnsureLoadDocs ==
  ASSUME TypeInv, DocInv, NEW t \in Thread, EnsureLoad(t)
  PROVE  DocInv'
<1>1. CASE thr' = [thr EXCEPT ![t].pc = "lookup", ![t].doc = cfg]
  <2>1. /\ thr'[t].pc = "lookup" /\ thr'[t].doc = cfg
        /\ \A u \in Thread \ {t} : thr'[u] = thr[u]
    BY <1>1 DEF TypeInv, ThrInv, Request
  <2>2. CarriedInv(t)'
    BY <2>1 DEF CarriedInv, DocInv, EnsureLoad, told
  <2> QED
    BY <2>1, <2>2, Kept, OneRequest DEF EnsureLoad, told
<1>2. CASE AfterEnsure(t)
  BY <1>2, EnsureDocs, Kept, OneRequest DEF EnsureLoad, told
<1> QED
  BY <1>1, <1>2 DEF EnsureLoad

\* LookupFails keeps DocInv.
LEMMA LookupFailsDocs ==
  ASSUME TypeInv, DocInv, NEW t \in Thread, LookupFails(t)
  PROVE  DocInv'
  BY EnsureDocs, Kept, OneRequest DEF LookupFails, told

\* The document that is saved is the one that was loaded, with the factory of its name.
LEMMA LookupDocs ==
  ASSUME TypeInv, DocInv, NEW t \in Thread, Lookup(t)
  PROVE  DocInv'
<1>1. thr[t].pc = "lookup" /\ thr[t].doc \in Document /\ UNCHANGED <<validated, manual>>
  BY DEF TypeInv, ThrInv, Lookup, At, WithDoc, told
<1>2. Fine(thr[t].doc, validated, manual)
  BY <1>1 DEF DocInv, CarriedInv, WithDoc
<1>3. Fine(Resolved(thr[t].doc), validated, manual)
  BY <1>1, <1>2, ResolvedIsDocument DEF Fine, Confirmed, Fits
<1>4. cfg' \in {cfg, Resolved(thr[t].doc)}
  BY DEF Lookup, Configure
<1>5. Fine(cfg', validated', manual')
  BY <1>1, <1>3, <1>4 DEF DocInv
<1> QED
  BY <1>1, <1>5, EnsureDocs, OneRequest DEF Lookup

\* Client keeps DocInv.
LEMMA ClientDocs ==
  ASSUME TypeInv, DocInv, NEW t \in Thread, Client(t)
  PROVE  DocInv'
<1>1. CarriedInv(t)' /\ \A u \in Thread \ {t} : thr'[u] = thr[u]
  BY EndDocs, AwayDocs DEF Client, Pcs, WithDoc
<1> QED
  BY <1>1, Kept, OneRequest DEF Client, told

\* Build keeps DocInv.
LEMMA BuildDocs ==
  ASSUME TypeInv, DocInv, NEW t \in Thread, Build(t)
  PROVE  DocInv'
  BY EndDocs, Kept, OneRequest DEF Build, told

\* Reject keeps DocInv.
LEMMA RejectDocs ==
  ASSUME TypeInv, DocInv, NEW t \in Thread, Reject(t)
  PROVE  DocInv'
  BY EndDocs, Kept, OneRequest DEF Reject, told

\* A body that changes no credentials, or leaves some blank, needs no validation.
LEMMA UnchangedIsConfirmed ==
  ASSUME NEW b \in Bodies, NEW d \in Document, NEW v, Confirmed(d, v),
         ~(OAuthChanged(b, d) /\ Complete(b, d))
  PROVE  Confirmed(Posted(b, d), v)
<1> DEFINE e == Posted(b, d)
<1>1. /\ e.id = Put(b.id, d.id)
      /\ e.secret = IF b.secret = Blank THEN d.secret ELSE Put(b.secret, d.secret)
  BY DEF Posted
<1>2. CASE ~OAuthChanged(b, d)
  <2>1. (e.id = d.id \/ Stripped(e.id) = Blank) /\ (e.secret = d.secret \/ Stripped(e.secret) = Blank)
    BY <1>1, <1>2 DEF OAuthChanged, CredentialsChanged, Replaces, Given, Put, Stripped
  <2> QED
    BY <2>1 DEF Confirmed
<1>3. CASE ~Complete(b, d)
  <2>1. Effective(b.id, d.id) = Blank \/ Effective(b.secret, d.secret) = Blank
    BY <1>3 DEF Complete, EffectivePair
  <2>2. /\ Effective(b.id, d.id) = Blank => Stripped(e.id) = Blank
        /\ Effective(b.secret, d.secret) = Blank => Stripped(e.secret) = Blank
    BY <1>1 DEF Effective, Given, Put, Stripped
  <2> QED
    BY <2>1, <2>2 DEF Confirmed
<1> QED
  BY <1>2, <1>3

\* PostLoad keeps DocInv.
LEMMA PostLoadDocs ==
  ASSUME TypeInv, DocInv, NEW t \in Thread, PostLoad(t)
  PROVE  DocInv'
<1> DEFINE b == thr[t].body
<1>1. b \in Bodies /\ cfg \in Document
  BY ConfigAssumption DEF TypeInv, ThrInv, PostLoad, At, WithBody
<1>2. PICK l \in {"validate", "save"} :
        /\ thr' = [thr EXCEPT ![t].doc = cfg, ![t].pc = l]
        /\ l = "save" => ~(OAuthChanged(b, cfg) /\ Complete(b, cfg))
  BY DEF PostLoad
<1>3. /\ thr'[t].pc = l /\ thr'[t].doc = cfg /\ thr'[t].body = b
      /\ \A u \in Thread \ {t} : thr'[u] = thr[u]
  BY <1>2 DEF TypeInv, ThrInv, Request
<1>4. UNCHANGED <<cfg, validated, manual>>
  BY DEF PostLoad, told
<1>5. l = "save" => Confirmed(Posted(b, cfg), validated)
  BY <1>1, <1>2, UnchangedIsConfirmed DEF DocInv, Fine
<1>6. CarriedInv(t)'
  BY <1>3, <1>4, <1>5 DEF CarriedInv, DocInv
<1> QED
  BY <1>3, <1>4, <1>6, Kept, OneRequest

\* What was validated is what will be saved, or a blank id or secret is.
LEMMA ValidatedIsConfirmed ==
  ASSUME NEW b \in Bodies, NEW d \in Document, NEW v, EffectivePair(b, d) \in v
  PROVE  Confirmed(Posted(b, d), v)
<1> DEFINE e == Posted(b, d)
<1>1. /\ e.id = Put(b.id, d.id)
      /\ e.secret = IF b.secret = Blank THEN d.secret ELSE Put(b.secret, d.secret)
  BY DEF Posted
<1>2. /\ Stripped(e.id) = Blank \/ e.id = Effective(b.id, d.id)
      /\ Stripped(e.secret) = Blank \/ e.secret = Effective(b.secret, d.secret)
  BY <1>1 DEF Put, Effective, Given, Stripped
<1> QED
  BY <1>1, <1>2 DEF Confirmed, EffectivePair

\* Validate keeps DocInv.
LEMMA ValidateDocs ==
  ASSUME TypeInv, DocInv, NEW t \in Thread, Validate(t)
  PROVE  DocInv'
<1> DEFINE b == thr[t].body
           d == thr[t].doc
<1>1. b \in Bodies /\ d \in Document /\ Fine(d, validated, manual)
  BY ConfigAssumption DEF TypeInv, ThrInv, DocInv, CarriedInv, Validate, At, WithBody, WithDoc
<1>2. validated \subseteq validated' /\ UNCHANGED <<cfg, manual>>
  BY DEF Validate
<1>3. Fine(cfg', validated', manual')
  BY <1>2, FineGrows DEF DocInv
<1>4. CASE EffectivePair(b, d) \in validated' /\ Goto(t, "save")
  <2>1. /\ thr'[t].pc = "save" /\ thr'[t].doc = d /\ thr'[t].body = b
        /\ \A u \in Thread \ {t} : thr'[u] = thr[u]
    BY <1>4 DEF Goto, TypeInv, ThrInv, Request
  <2>2. Fine(d, validated', manual') /\ Confirmed(Posted(b, d), validated')
    BY <1>1, <1>2, <1>4, FineGrows, ValidatedIsConfirmed
  <2>3. CarriedInv(t)'
    BY <2>1, <2>2 DEF CarriedInv
  <2> QED
    BY <1>2, <1>3, <2>1, <2>3, OneRequest
<1>5. CASE End(t)
  BY <1>2, <1>3, <1>5, EndDocs, OneRequest
<1> QED
  BY <1>4, <1>5 DEF Validate

\* A new name forgets the factory, a given factory is told.
LEMMA PostedFits ==
  ASSUME NEW b \in Bodies, NEW d \in Document, NEW m, NEW n, Fits(d, m), m \subseteq n,
         b.factory # Absent => b.factory \in n
  PROVE  Fits(Posted(b, d), n)
<1> DEFINE e == Posted(b, d)
<1>1. /\ e.name = Put(b.name, d.name)
      /\ e.factory = IF b.name # Absent THEN Blank ELSE Put(b.factory, d.factory)
  BY DEF Posted
<1>2. CASE b.name # Absent
  BY <1>1, <1>2 DEF Fits
<1>3. CASE b.name = Absent
  BY <1>1, <1>3 DEF Fits, Put
<1> QED
  BY <1>2, <1>3

\* PostSave keeps DocInv.
LEMMA PostSaveDocs ==
  ASSUME TypeInv, DocInv, NEW t \in Thread, PostSave(t)
  PROVE  DocInv'
<1> DEFINE b == thr[t].body
           d == thr[t].doc
<1>1. /\ b \in Bodies /\ d \in Document
      /\ Fine(d, validated, manual) /\ Confirmed(Posted(b, d), validated)
  BY ConfigAssumption DEF TypeInv, ThrInv, DocInv, CarriedInv, PostSave, At, WithBody, WithDoc
<1>2. /\ cfg' = Posted(b, d) /\ validated' = validated
      /\ manual' = IF b.factory = Absent THEN manual ELSE manual \cup {b.factory}
  BY DEF PostSave, Configure
<1>3. Fits(Posted(b, d), manual')
  BY <1>1, <1>2, PostedFits DEF Fine
<1>4. Fine(cfg', validated', manual') /\ manual \subseteq manual' /\ validated \subseteq validated'
  BY <1>1, <1>2, <1>3 DEF Fine
<1>5. CarriedInv(t)' /\ \A u \in Thread \ {t} : thr'[u] = thr[u]
  BY ResolveDocs, AwayDocs DEF PostSave, Pcs, WithDoc
<1> QED
  BY <1>4, <1>5, OneRequest

\* PostClear keeps DocInv.
LEMMA PostClearDocs ==
  ASSUME TypeInv, DocInv, NEW t \in Thread, PostClear(t)
  PROVE  DocInv'
  BY ResolveDocs, Kept, OneRequest DEF PostClear, told

\* A step that moves neither document nor threads keeps DocInv.
LEMMA SameDocs == DocInv /\ UNCHANGED <<cfg, thr, told>> => DocInv'
  BY DEF DocInv, CarriedInv, told

\* Every step keeps DocInv.
LEMMA NextDocs == TypeInv /\ DocInv /\ Next => DocInv'
<1> SUFFICES ASSUME TypeInv, DocInv, Next PROVE DocInv'
  OBVIOUS
<1>1. CASE TimeStep
  BY <1>1, SameDocs DEF TimeStep, Tick
<1>2. CASE \E t \in Thread, o \in Op, b \in {None} \cup Body : Begin(t, o, b)
  BY <1>2, BeginDocs
<1>3. CASE \E t \in Thread : CacheStep(t)
  BY <1>3, SameDocs DEF CacheStep, GetStep, ReadId, ReadSecret, Unpack, Ask, Issue, Store
<1>4. CASE \E t \in Thread : EnsureLoad(t) \/ Lookup(t) \/ LookupFails(t) \/ Client(t) \/ Build(t)
  BY <1>4, EnsureLoadDocs, LookupDocs, LookupFailsDocs, ClientDocs, BuildDocs
<1>5. CASE \E t \in Thread : Reject(t) \/ PostLoad(t) \/ Validate(t) \/ PostSave(t) \/ PostClear(t)
  BY <1>5, RejectDocs, PostLoadDocs, ValidateDocs, PostSaveDocs, PostClearDocs
<1> QED
  BY <1>1, <1>2, <1>3, <1>4, <1>5 DEF Next, TimeStep, CacheStep, Op

\* DocInv holds of every reachable state.
LEMMA DocsHold == Spec => [](TypeInv /\ DocInv)
<1>1. TypeInv /\ DocInv /\ [Next]_vars => (TypeInv /\ DocInv)'
  BY NextTypes, StutterTypes, NextDocs, SameDocs DEF vars
<1> QED
  BY <1>1, InitTypes, InitDocs, PTL DEF Spec

\* No interleaving of saves stores an id with a secret the OAuth server has
\* not confirmed together.
THEOREM PairWasValidated == Spec => []StoredPairWasValidated
  BY DocsHold, DocInvImplies, PTL

\* No interleaving of a new name with a resolution stores the factory of
\* another name.
THEOREM FactoryFits == Spec => []FactoryFitsName
  BY DocsHold, DocInvImplies, PTL

=============================================================================
