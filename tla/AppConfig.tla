----------------------------- MODULE AppConfig -----------------------------
(***************************************************************************)
(* The configuration document and everything that reads it, resolves the   *)
(* factory over the network and saves it again:                            *)
(* app/services/config_service.py, app/services/sigreen_factory.py, GET    *)
(* and POST of /api/config (app/api/routers/config.py).  A load and a save *)
(* of the document are one step each (AtomicStore); a call to SiGREEN      *)
(* first gets a token (TokenCache).                                        *)
(*                                                                         *)
(* post_config is an async function that never awaits between its load and *)
(* its answer: the event loop of its process runs nothing else meanwhile   *)
(* and starts no other request.  GET requests run in threads and overlap   *)
(* it, and so does the AAS daemon.                                         *)
(***************************************************************************)
EXTENDS TokenCache

CONSTANTS
  Daemon,      \* the AAS daemons, among Thread
  Body,        \* the bodies that are posted
  Absent,      \* a key the body does not have
  DefaultUrl,  \* DEFAULT_SIGREEN_TOKEN_URL
  FactoryOf,   \* FactoryOf[n]: id of the factory SiGREEN lists under name n, or Blank
  InitialDoc,  \* documents the program may start with
  MaxRequests  \* bound on the requests modelled

Document == [id : Text, secret : Text, url : Text, name : Text, factory : Text, tool : BOOLEAN]

\* A body has some of the keys; "tool" says that pcf_tool is "sigreen".
Key    == Text \cup {Absent}
Bodies == [id : Key, secret : Key, url : Key, name : Key, factory : Key, tool : BOOLEAN \cup {Absent}]

\* "get" and "post" are the two endpoints; the others build a SiGREEN client
\* for the submission of a report, the AAS pipeline, and the material lookup.
Op == {"get", "post", "emissions", "aas", "materials"}

ASSUME ConfigAssumption ==
  /\ InitialDoc \subseteq Document
  /\ Body \subseteq Bodies /\ Absent \notin Text
  /\ Daemon \subseteq Thread /\ DefaultUrl \in Text \ {Blank}
  /\ FactoryOf \in [Text -> Text]
  /\ None \notin Body /\ None \notin Document /\ MaxRequests \in Nat

VARIABLES
  thr,        \* thr[t]: the request, where it is, the document it loaded
  \* History, to state the properties:
  validated,  \* <<id, secret>> the OAuth server confirmed, or there from the start
  manual,     \* factory ids that came in a body, or there from the start
  requests    \* requests so far

told == <<validated, manual, requests>>
vars == <<cfg, cacheVars, history, thr, told>>

Idle == [op |-> "get", pc |-> "idle", body |-> None, doc |-> None]

At(t, l)   == thr[t].pc = l
Goto(t, l) == thr' = [thr EXCEPT ![t].pc = l]
End(t)     == thr' = [thr EXCEPT ![t] = Idle]

Posting(p) == \E t \in Thread : ProcessOf[t] = p /\ thr[t].op = "post"

Init ==
  /\ cfg \in InitialDoc
  /\ TokenInit
  /\ thr = [t \in Thread |-> Idle]
  /\ validated = {<<cfg.id, cfg.secret>>}
  /\ manual = {cfg.factory}
  /\ requests = 0

\* The first place of a request.
Start(o) == CASE o = "post" -> "load" [] o = "materials" -> "client" [] OTHER -> "ensure"

Begin(t, o, b) ==
  /\ At(t, "idle")
  /\ t \in Daemon => o \in {"aas", "materials"}
  /\ t \in Daemon \/ ~Posting(ProcessOf[t])
  /\ requests < MaxRequests /\ requests' = requests + 1
  /\ thr' = [thr EXCEPT ![t] = [op |-> o, pc |-> Start(o), body |-> b, doc |-> None]]
  /\ UNCHANGED <<cfg, cacheVars, history, validated, manual>>

-----------------------------------------------------------------------------
(* ensure_sigreen_factory_id *)

\* The endpoints load the document once more and answer.
AfterEnsure(t) ==
  IF thr[t].op \in {"get", "post"} THEN End(t)
  ELSE thr' = [thr EXCEPT ![t].pc = "client", ![t].doc = None]

EnsureLoad(t) ==
  /\ At(t, "ensure")
  /\ \/ /\ cfg.tool
        /\ thr' = [thr EXCEPT ![t].pc = "lookup", ![t].doc = cfg]
        /\ StartGet(t)
     \/ ~cfg.tool /\ AfterEnsure(t) /\ UNCHANGED <<cacheVars, history>>
  /\ UNCHANGED <<cfg, told>>

\* The token could not be had, or the call to SiGREEN failed: a warning.
LookupFails(t) ==
  /\ At(t, "lookup") /\ got[t].pc \in Outcome
  /\ EndGet(t) /\ AfterEnsure(t)
  /\ UNCHANGED <<cfg, cached, clock, history, told>>

Answered(t) == got[t].pc \in Outcome \ {"failed"}

\* The document that was loaded before the call is saved as a whole.
Resolved(d) == [d EXCEPT !.factory = FactoryOf[d.name]]

Lookup(t) ==
  /\ At(t, "lookup") /\ Answered(t)
  /\ LET d == thr[t].doc
         id == FactoryOf[d.name]
     IN  Configure(IF id = Blank \/ id # d.factory THEN Resolved(d) ELSE cfg)
  /\ EndGet(t) /\ AfterEnsure(t)
  /\ UNCHANGED <<cached, clock, told>>

-----------------------------------------------------------------------------
(* sigreen_factory.py: a client for the rest of the request *)

\* The AAS pipeline takes the factory of the document, the others look it up.
Client(t) ==
  /\ At(t, "client")
  /\ LET need == CASE thr[t].op = "emissions" -> TRUE
                   [] thr[t].op = "aas" -> Stripped(cfg.factory) = Blank
                   [] thr[t].op = "materials" -> cfg.tool
     IN  \/ need /\ Goto(t, "build") /\ StartGet(t)
         \/ ~need /\ End(t) /\ UNCHANGED <<cacheVars, history>>
  /\ UNCHANGED <<cfg, told>>

\* The client is there, or the exception ends the submission.
Build(t) ==
  /\ At(t, "build") /\ got[t].pc \in Outcome
  /\ EndGet(t) /\ End(t)
  /\ UNCHANGED <<cfg, cached, clock, history, told>>

-----------------------------------------------------------------------------
(* post_config *)

Given(k)            == k # Absent /\ Stripped(k) # Blank
Effective(k, old)   == IF Given(k) THEN k ELSE old
EffectivePair(b, d) == <<Effective(b.id, d.id), Effective(b.secret, d.secret)>>
EffectiveUrl(b, d)  == Effective(b.url, d.url)

Replaces(k, old) == k # Absent /\ Stripped(k) # old

\* An erased id changes the credentials, an erased secret does not.
CredentialsChanged(b, d) ==
  Replaces(b.id, d.id) \/ (Given(b.secret) /\ b.secret # d.secret)

\* Mutant of OAuthChanged: a new id alone needs no validation.
OAuthChangedSecretOnly(b, d) ==
  (Given(b.secret) /\ b.secret # d.secret) \/ Replaces(b.url, d.url)

OAuthChanged(b, d) == CredentialsChanged(b, d) \/ Replaces(b.url, d.url)

Complete(b, d) == EffectivePair(b, d)[1] # Blank /\ EffectivePair(b, d)[2] # Blank

\* 400: id and secret are both required.
Reject(t) ==
  /\ At(t, "load")
  /\ CredentialsChanged(thr[t].body, cfg) /\ ~Complete(thr[t].body, cfg)
  /\ End(t)
  /\ UNCHANGED <<cfg, cacheVars, history, told>>

PostLoad(t) ==
  /\ At(t, "load")
  /\ LET b == thr[t].body IN
       /\ CredentialsChanged(b, cfg) => Complete(b, cfg)
       /\ thr' = [thr EXCEPT ![t].doc = cfg,
                    ![t].pc = IF OAuthChanged(b, cfg) /\ Complete(b, cfg) THEN "validate" ELSE "save"]
  /\ UNCHANGED <<cfg, cacheVars, history, told>>

\* validate_sigreen_credentials: a call that fails is a refusal too.
Validate(t) ==
  /\ At(t, "validate")
  /\ LET pair == EffectivePair(thr[t].body, thr[t].doc)
     IN  \/ /\ <<pair[1], pair[2], EffectiveUrl(thr[t].body, thr[t].doc)>> \in Accounts
            /\ validated' = validated \cup {pair}
            /\ Goto(t, "save")
         \/ End(t) /\ UNCHANGED validated
  /\ UNCHANGED <<cfg, cacheVars, history, manual, requests>>

Put(k, old) == IF k = Absent THEN old ELSE k

\* Mutant of Posted: the factory stays when its name changes.
PostedKeepsFactory(b, d) ==
  [id      |-> Put(b.id, d.id),
   secret  |-> IF b.secret = Blank THEN d.secret ELSE Put(b.secret, d.secret),
   url     |-> IF Stripped(b.url) = Blank THEN DefaultUrl ELSE Put(b.url, d.url),
   name    |-> Put(b.name, d.name),
   factory |-> Put(b.factory, d.factory),
   tool    |-> Put(b.tool, d.tool)]

\* Mutant of Posted: a key the body does not have is saved as missing.
PostedWithNulls(b, d) == [b EXCEPT !.factory = IF b.name # Absent THEN Blank ELSE @]

\* The loaded document under the body.  An empty secret keeps the old one, an
\* empty id does not, and neither does a secret of whitespace, though the old
\* one is validated for it; a new name forgets the factory of the old one.
Posted(b, d) ==
  [id      |-> Put(b.id, d.id),
   secret  |-> IF b.secret = Blank THEN d.secret ELSE Put(b.secret, d.secret),
   url     |-> IF Stripped(b.url) = Blank THEN DefaultUrl ELSE Put(b.url, d.url),
   name    |-> Put(b.name, d.name),
   factory |-> IF b.name # Absent THEN Blank ELSE Put(b.factory, d.factory),
   tool    |-> Put(b.tool, d.tool)]

\* Bodies that clear the token cache, and bodies that have the factory resolved.
NamesOAuth(b)   == b.id # Absent \/ b.secret # Absent \/ b.url # Absent
NamesFactory(b) == b.name # Absent \/ b.tool # Absent \/ b.url # Absent

\* The last step of a post whose body names a factory, a tool or a URL.
Resolve(t) == IF NamesFactory(thr[t].body) THEN Goto(t, "ensure") ELSE End(t)

PostSave(t) ==
  /\ At(t, "save")
  /\ LET b == thr[t].body IN
       /\ Configure(Posted(b, thr[t].doc))
       /\ IF NamesOAuth(b) THEN Goto(t, "clear") ELSE Resolve(t)
       /\ manual' = IF b.factory = Absent THEN manual ELSE manual \cup {b.factory}
  /\ UNCHANGED <<cacheVars, validated, requests>>

PostClear(t) ==
  /\ At(t, "clear")
  /\ Clear(ProcessOf[t])
  /\ Resolve(t)
  /\ UNCHANGED <<cfg, got, told>>

-----------------------------------------------------------------------------

Next ==
  \/ \E t \in Thread :
       \/ \E o \in Op \ {"post"} : Begin(t, o, None)
       \/ \E b \in Body : Begin(t, "post", b)
       \/ EnsureLoad(t) \/ Lookup(t) \/ LookupFails(t) \/ Client(t) \/ Build(t)
       \/ Reject(t) \/ PostLoad(t) \/ Validate(t) \/ PostSave(t) \/ PostClear(t)
       \/ GetStep(t) /\ UNCHANGED <<thr, told>>
  \/ Tick /\ UNCHANGED <<thr, told>>

Spec == Init /\ [][Next]_vars

-----------------------------------------------------------------------------

TypeOK ==
  /\ cfg \in Document
  /\ TokenTypeOK
  /\ thr \in [Thread -> [op : Op, body : {None} \cup Body, doc : {None} \cup Document,
                         pc : {"idle", "ensure", "lookup", "client", "build", "load",
                               "validate", "save", "clear"}]]
  /\ validated \subseteq Text \X Text /\ manual \subseteq Text /\ requests \in 0..MaxRequests

\* The OAuth server has confirmed every id with the secret stored beside it
\* (post_config: "validate before saving"), whichever documents, one loaded
\* before a call and saved after it, overwrite each other.
StoredPairWasValidated ==
  Blank \notin {Stripped(cfg.id), Stripped(cfg.secret)} => <<cfg.id, cfg.secret>> \in validated

\* The stored factory is the one SiGREEN lists under the stored name, unless a
\* body named it itself: no race of a new name with a resolution of the old
\* one, and no resolution that fails, leaves the factory of another name
\* (ensure_sigreen_factory_id, post_config).
FactoryFitsName ==
  cfg.factory \in {Blank, FactoryOf[cfg.name]} \cup manual
=============================================================================
