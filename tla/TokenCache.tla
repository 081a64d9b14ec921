----------------------------- MODULE TokenCache -----------------------------
(***************************************************************************)
(* app/integrations/oauth_token_cache.py and its SiGREEN instance in       *)
(* app/integrations/sigreen.py: every process keeps one access token, which *)
(* its threads share without a lock.  A call of get() reads the client id  *)
(* and the client secret by two separate loads of the configuration, looks *)
(* at the cache, and else asks the OAuth server for a token, which it      *)
(* stores when the answer is there.  Meanwhile the configuration changes,  *)
(* the cache is cleared and time passes.                                   *)
(*                                                                         *)
(* The configuration document, cfg, is changed by the module that extends  *)
(* this one; here it is any document.                                      *)
(***************************************************************************)
EXTENDS Integers

CONSTANTS
  Process,    \* worker processes, each with a cache of its own
  Thread, ProcessOf,
  Text,       \* values of the fields of the configuration
  Blank,      \* the empty text
  Spaces,     \* a text of nothing but whitespace
  None,       \* no token
  EnvId, EnvSecret,  \* SIGREEN_CLIENT_ID and SIGREEN_CLIENT_SECRET, or Blank
  Accounts,   \* <<id, secret, url>>: credentials the OAuth server at url knows
  Lifetimes,  \* values of expires_in
  Leeway,     \* _DEFAULT_LEEWAY_SECONDS
  MaxAge,     \* _MAX_CACHE_SECONDS
  LoadTime,   \* the time a load of the configuration takes at most, its retries included
  MaxClock    \* bound on the time modelled

ASSUME TokenAssumption ==
  /\ ProcessOf \in [Thread -> Process]
  /\ {Blank, Spaces, EnvId, EnvSecret} \subseteq Text /\ Spaces # Blank
  /\ Lifetimes \subseteq Nat /\ MaxClock \in Nat
  /\ Leeway \in Nat /\ MaxAge \in Nat /\ Leeway < MaxAge
  /\ LoadTime \in Nat

Token == [id : Text, secret : Text, dies : Nat, life : Lifetimes]
Entry == [token : Token, until : Nat]

ASSUME NoTokenAssumption == None \notin Token /\ None \notin Entry

VARIABLES
  cfg,        \* the configuration document
  cached,     \* cached[p]: _cached of process p
  clock,      \* the time
  got,        \* got[t]: how far thread t is in TokenCache.get
  \* History, to state the properties:
  changedAt,  \* when the credentials in force last changed
  late,       \* threads in a get() that began before that change
  fresh       \* processes cleared since, in which no late thread stored

cacheVars == <<cached, clock, got>>
history   == <<changedAt, late, fresh>>

-----------------------------------------------------------------------------

\* Texts are stored as they come and stripped where they are read.
Stripped(a) == IF a = Spaces THEN Blank ELSE a

Or(a, b) == IF Stripped(a) = Blank THEN b ELSE a

\* The credentials a get() that reads both now would use.
Credentials(d) == <<Or(d.id, EnvId), Or(d.secret, EnvSecret)>>

Off == [pc |-> "off", id |-> Blank, secret |-> Blank, url |-> Blank, at |-> 0, token |-> None]

Cache(t) == cached[ProcessOf[t]]
AtGet(t, l) == got[t].pc = l

\* What get() ended with: no credentials, an exception, the cached token, a new one.
Outcome == {"none", "failed", "hit", "fetched"}
InGet(t) == got[t].pc \notin {"off", "id"} \cup Outcome

Move(t, l) == got' = [got EXCEPT ![t].pc = l]

\* get() ends without a token from the cache.
Leave(t, o) == got' = [got EXCEPT ![t] = [Off EXCEPT !.pc = o]]

StartGet(t) ==
  /\ AtGet(t, "off")
  /\ Move(t, "id")
  /\ UNCHANGED <<cached, clock, history>>

EndGet(t) == got' = [got EXCEPT ![t] = Off]

ReadId(t) ==
  /\ AtGet(t, "id")
  /\ got' = [got EXCEPT ![t].pc = "secret", ![t].id = Or(cfg.id, EnvId), ![t].at = clock]
  /\ late' = late \ {t}
  /\ UNCHANGED <<cfg, cached, clock, changedAt, fresh>>

\* The second load, the clock, and "is not None" of the cached token.
ReadSecret(t) ==
  /\ AtGet(t, "secret")
  /\ LET secret == Or(cfg.secret, EnvSecret)
         next == IF Cache(t) = None THEN "ask" ELSE "unpack"
     IN  IF Blank \in {got[t].id, secret} THEN Leave(t, "none")
         ELSE got' = [got EXCEPT ![t].pc = next, ![t].secret = secret, ![t].at = clock]
  /\ UNCHANGED <<cfg, cached, clock, history>>

\* Unpacking a token that clear() has just dropped raises TypeError.
Unpack(t) ==
  /\ AtGet(t, "unpack")
  /\ \/ Cache(t) = None /\ Leave(t, "failed")
     \/ /\ Cache(t) # None /\ got[t].at < Cache(t).until - Leeway
        /\ got' = [got EXCEPT ![t].pc = "hit", ![t].token = Cache(t).token]
     \/ Cache(t) # None /\ got[t].at \geq Cache(t).until - Leeway /\ Move(t, "ask")
  /\ UNCHANGED <<cfg, cached, clock, history>>

Ask(t) ==
  /\ AtGet(t, "ask")
  /\ got' = [got EXCEPT ![t].pc = "asked", ![t].url = cfg.url]
  /\ UNCHANGED <<cfg, cached, clock, history>>

\* The OAuth server issues a token, refuses, or the call fails.
Issue(t) ==
  /\ AtGet(t, "asked")
  /\ \/ /\ <<got[t].id, got[t].secret, got[t].url>> \in Accounts
        /\ \E l \in Lifetimes :
             got' = [got EXCEPT ![t].pc = "issued",
                       ![t].token = [id |-> got[t].id, secret |-> got[t].secret,
                                     dies |-> clock + l, life |-> l]]
     \/ Leave(t, "failed")
  /\ UNCHANGED <<cfg, cached, clock, history>>

AtMost(n, m) == IF n < m THEN n ELSE m

\* Mutant of Until: the clock is read again when the answer is there.
UntilLate(t) == clock + AtMost(got[t].token.life, MaxAge)

\* Mutant of Until: the lifetime the server gave is not cut.
UntilUncut(t) == got[t].at + got[t].token.life

\* The age counts from before the request.
Until(t) == got[t].at + AtMost(got[t].token.life, MaxAge)

Store(t) ==
  /\ AtGet(t, "issued")
  /\ cached' = [cached EXCEPT ![ProcessOf[t]] = [token |-> got[t].token, until |-> Until(t)]]
  /\ Leave(t, "fetched")
  /\ fresh' = IF t \in late THEN fresh \ {ProcessOf[t]} ELSE fresh
  /\ UNCHANGED <<cfg, clock, changedAt, late>>

\* Mutant of Clear: the cache keeps its token.
ClearNothing(p) ==
  /\ fresh' = fresh \cup {p}
  /\ UNCHANGED <<cached, clock, changedAt, late>>

\* clear(), after the new credentials were saved.
Clear(p) ==
  /\ cached' = [cached EXCEPT ![p] = None]
  /\ fresh' = fresh \cup {p}
  /\ UNCHANGED <<clock, changedAt, late>>

\* Time passes, though the load of a client secret ends within LoadTime.
Tick ==
  /\ clock < MaxClock
  /\ \A t \in Thread : AtGet(t, "secret") => clock < got[t].at + LoadTime
  /\ clock' = clock + 1
  /\ UNCHANGED <<cfg, cached, got, history>>

\* The document becomes d.
Configure(d) ==
  /\ cfg' = d
  /\ IF Credentials(d) = Credentials(cfg) THEN UNCHANGED history
     ELSE /\ changedAt' = clock
          /\ late' = {t \in Thread : InGet(t)}
          /\ fresh' = {}

GetStep(t) ==
  ReadId(t) \/ ReadSecret(t) \/ Unpack(t) \/ Ask(t) \/ Issue(t) \/ Store(t)

TokenInit ==
  /\ cached = [p \in Process |-> None]
  /\ clock = 0
  /\ got = [t \in Thread |-> Off]
  /\ changedAt = 0 /\ late = {} /\ fresh = Process

-----------------------------------------------------------------------------

TokenTypeOK ==
  /\ cached \in [Process -> {None} \cup Entry]
  /\ clock \in 0..MaxClock /\ changedAt \in 0..clock
  /\ got \in [Thread -> [pc : {"off", "id", "secret", "unpack", "ask", "asked", "issued"} \cup Outcome,
                         id : Text, secret : Text, url : Text, at : 0..clock,
                         token : {None} \cup Token]]
  /\ late \subseteq Thread /\ fresh \subseteq Process

\* A token from the cache is still accepted for more than the leeway, however
\* late its own answer came, whichever thread stored it and whatever cleared
\* the cache meanwhile (get and _refresh: the age counts from before the
\* request, not from the answer).
CachedTokensAreLive ==
  \A t \in Thread : AtGet(t, "hit") => got[t].at + Leeway < got[t].token.dies

\* Credentials that were replaced are used from the cache for less than
\* MaxAge - Leeway more, and the time of one load of the configuration, even
\* by a process that nobody told to clear its cache, even when a refresh that
\* had read them was answered after the change, and even when it had read the
\* old id and then a secret (get, _refresh and clear_sigreen_token_cache).
ReplacedCredentialsDieOut ==
  \A t \in Thread :
    AtGet(t, "hit") /\ <<got[t].token.id, got[t].token.secret>> # Credentials(cfg) =>
      got[t].at < changedAt + LoadTime + MaxAge - Leeway

\* Once a process has cleared its cache after a change, it caches only tokens
\* of the credentials in force, unless a refresh that began before the
\* change stored its own after it (clear_sigreen_token_cache: "so the next API
\* call uses fresh credentials").
ClearedCachesAreFresh ==
  \A p \in fresh :
    cached[p] # None => <<cached[p].token.id, cached[p].token.secret>> = Credentials(cfg)
=============================================================================
