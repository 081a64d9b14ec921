------------------------------ MODULE Products ------------------------------
(***************************************************************************)
(* Finding or creating the SiGREEN product a report belongs to, and sending *)
(* the report: get_or_create_product_uuid and submit_factory_emissions in  *)
(* app/services/pcf_service.py, _get_product_uuid_from_shell in            *)
(* aas_service.py, and the requests they make in app/integrations/         *)
(* sigreen.py.  Request threads and AAS cycles run them beside each other. *)
(*                                                                         *)
(* SiGREEN is external.  It lists products oldest first; a request may be  *)
(* refused, may take effect and be answered with an error, and may take    *)
(* effect after its caller stopped waiting (every request has a timeout of *)
(* ten seconds).                                                           *)
(***************************************************************************)
EXTENDS Integers, Sequences, FiniteSets

CONSTANTS
  Caller,     \* threads
  Name,       \* product identifiers and names
  Blank,      \* the empty text
  None,       \* no product
  Task,       \* what a call is for: the fields of a shell, or a product's name
  Initial,    \* catalogs SiGREEN may start with
  MaxCalls,   \* bound: calls of one thread
  MaxFaults   \* bound: requests that are refused, fail or are answered late

Attempts == 3

ASSUME ProductsAssumption ==
  /\ Blank \notin Name
  /\ Task \subseteq [component : Nat, product : Name \cup {Blank},
                     workOrder : Name \cup {Blank}, derived : Name]
  /\ MaxCalls \in Nat /\ MaxFaults \in Nat

CallId  == Caller \X (1 .. MaxCalls)
Product == [ident : Name, name : Name,
            maker : CallId \cup {None},  \* history: the call that made it
            late : BOOLEAN]              \* history: made after its caller gave up

ASSUME InitialAssumption ==
  /\ None \notin CallId /\ None \notin Nat
  /\ \A c \in Initial : /\ c \in Seq(Product)
                        /\ \A i \in DOMAIN c : c[i].maker = None
                        /\ \A i, j \in DOMAIN c : c[i].ident = c[j].ident => i = j

VARIABLES
  catalog,    \* SiGREEN's products; a UUID is an index
  posted,     \* POST /products requests SiGREEN has not dealt with
  filed,      \* <<call, identifier, product>>: the reports SiGREEN holds
  thr,        \* thr[t]: how far thread t is
  result,     \* how each finished call ended
  faults,
  blind,      \* history: calls one of whose later lookups failed
  base        \* history: how many products there were when each call began

vars == <<catalog, posted, filed, thr, result, faults, blind, base>>
server == <<catalog, posted, filed>>

Pcs == {"idle", "query", "list", "create", "wait", "sleep", "send"}

Idle(n) == [pc |-> "idle", n |-> n, ident |-> Blank, factory |-> FALSE, attempt |-> 0,
            uuid |-> None, created |-> FALSE]

At(t, l)   == thr[t].pc = l
Call(t)    == <<t, thr[t].n>>
Goto(t, l) == thr' = [thr EXCEPT ![t].pc = l]

Fault == faults < MaxFaults /\ faults' = faults + 1

Init ==
  /\ catalog \in Initial
  /\ posted = {} /\ filed = {}
  /\ thr = [t \in Caller |-> Idle(0)]
  /\ result = [c \in CallId |-> None]
  /\ faults = 0 /\ blind = {} /\ base = [c \in CallId |-> 0]

\* The call ends: a report was sent, or an exception reaches its caller.
Finish(t, outcome) ==
  /\ thr' = [thr EXCEPT ![t] = Idle(thr[t].n)]
  /\ result' = [result EXCEPT ![Call(t)] = outcome]

Failed  == [sent |-> FALSE, uuid |-> None, created |-> FALSE]
Raise(t) == Finish(t, Failed)

-----------------------------------------------------------------------------
(* The call begins *)

First(a, b) == IF a # Blank THEN a ELSE b

\* A UUID in the shell is taken as it is; else the product is named by its
\* product id, its work order or the shell's own id, in this order.
Identifier(k) == First(k.product, First(k.workOrder, k.derived))

\* The client knows the factory's id, or the name could not be resolved.
Begin(t) ==
  /\ At(t, "idle") /\ thr[t].n < MaxCalls
  /\ \E k \in Task, f \in BOOLEAN :
       thr' = [thr EXCEPT ![t] =
         [pc      |-> IF k.component # 0 THEN "send" ELSE "query",
          n       |-> thr[t].n + 1,
          ident   |-> IF k.component # 0 THEN Blank ELSE Identifier(k),
          factory |-> f,
          attempt |-> 0,
          uuid    |-> IF k.component # 0 THEN k.component ELSE None,
          created |-> FALSE]]
  /\ base' = [base EXCEPT ![<<t, thr[t].n + 1>>] = Len(catalog)]
  /\ UNCHANGED <<server, result, faults, blind>>

-----------------------------------------------------------------------------
(* get_product_uuid, at the start and after each failed create *)

Oldest(S)    == CHOOSE i \in S : \A j \in S : i <= j
Identified(n) == {i \in DOMAIN catalog : catalog[i].ident = n}
Matching(n)  == {i \in DOMAIN catalog : n \in {catalog[i].ident, catalog[i].name}}

\* Mutant of Found: a product found after a failed create counts as created.
FoundIsCreated(t, i) ==
  thr' = [thr EXCEPT ![t].pc = "send", ![t].uuid = i, ![t].created = thr[t].attempt > 0]

Found(t, i) == thr' = [thr EXCEPT ![t].pc = "send", ![t].uuid = i, ![t].created = FALSE]

\* Mutant of Exhausted: one attempt too many.
ExhaustedLate(t) == thr[t].attempt > Attempts

Exhausted(t) == thr[t].attempt = Attempts

\* Mutant of NotFound: after the last attempt the product is waited for.
NotFoundWaits(t) ==
  IF thr[t].attempt = 0 /\ ~thr[t].factory THEN Raise(t)
  ELSE Goto(t, IF Exhausted(t) THEN "sleep" ELSE "create") /\ UNCHANGED result

\* Nothing was found: the product is created, which takes a factory, or, after
\* three attempts, the call fails.
NotFound(t) ==
  IF Exhausted(t) \/ (thr[t].attempt = 0 /\ ~thr[t].factory)
  THEN Raise(t)
  ELSE Goto(t, "create") /\ UNCHANGED result

\* GET /products?idValue=...: the first of the items.
Query(t) ==
  /\ At(t, "query")
  /\ IF Identified(thr[t].ident) # {}
     THEN Found(t, Oldest(Identified(thr[t].ident)))
     ELSE Goto(t, "list")
  /\ UNCHANGED <<server, result, faults, blind, base>>

\* SiGREEN may also answer 404 to say that there is none.  That is an
\* exception, and the list is not asked for.
QueryIs404(t) ==
  /\ At(t, "query") /\ Identified(thr[t].ident) = {}
  /\ NotFound(t)
  /\ UNCHANGED <<server, faults, blind, base>>

\* Another failure ends the call at first; after a create it is passed over.
QueryFails(t) ==
  /\ At(t, "query") /\ Fault
  /\ \/ thr[t].attempt = 0 /\ Raise(t) /\ UNCHANGED blind
     \/ thr[t].attempt > 0 /\ NotFound(t) /\ blind' = blind \cup {Call(t)}
  /\ UNCHANGED <<server, base>>

\* Mutant of List: the list of all products is taken for an answer to the query.
ListUnfiltered(t) ==
  /\ At(t, "list")
  /\ \/ catalog # <<>> /\ Found(t, 1) /\ UNCHANGED result
     \/ catalog = <<>> /\ NotFound(t)
  /\ UNCHANGED <<server, faults, blind, base>>

\* GET /products: the first with that identifier or that name.
List(t) ==
  /\ At(t, "list")
  /\ \/ /\ Matching(thr[t].ident) # {}
        /\ Found(t, Oldest(Matching(thr[t].ident)))
        /\ UNCHANGED result
     \/ /\ Matching(thr[t].ident) = {}
        /\ NotFound(t)
  /\ UNCHANGED <<server, faults, blind, base>>

\* A failure here always counts as "not found".
ListFails(t) ==
  /\ At(t, "list") /\ Fault
  /\ NotFound(t)
  /\ UNCHANGED <<server, blind, base>>

-----------------------------------------------------------------------------
(* create_product, three times at most *)

Request(t) == [by |-> Call(t), attempt |-> thr[t].attempt, ident |-> thr[t].ident]

\* POST /products.
Create(t) ==
  /\ At(t, "create")
  /\ posted' = posted \cup {[Request(t) EXCEPT !.attempt = thr[t].attempt + 1]}
  /\ thr' = [thr EXCEPT ![t].pc = "wait", ![t].attempt = thr[t].attempt + 1]
  /\ UNCHANGED <<catalog, filed, result, faults, blind, base>>

Awaited(r) == \E t \in Caller : At(t, "wait") /\ r = Request(t)

Made(r, late) ==
  catalog' = Append(catalog, [ident |-> r.ident, name |-> r.ident, maker |-> r.by, late |-> late])

\* SiGREEN creates the product and its caller gets the UUID.
Created(t) ==
  /\ At(t, "wait")
  /\ posted' = posted \ {Request(t)}
  /\ Made(Request(t), FALSE)
  /\ thr' = [thr EXCEPT ![t].pc = "send", ![t].uuid = Len(catalog) + 1, ![t].created = TRUE]
  /\ UNCHANGED <<filed, result, faults, blind, base>>

\* SiGREEN creates the product, but answers with an error or without an id.
CreatedUnnoticed(t) ==
  /\ At(t, "wait") /\ Fault
  /\ posted' = posted \ {Request(t)}
  /\ Made(Request(t), FALSE)
  /\ Goto(t, "sleep")
  /\ UNCHANGED <<filed, result, blind, base>>

CreateRefused(t) ==
  /\ At(t, "wait") /\ Fault
  /\ posted' = posted \ {Request(t)}
  /\ Goto(t, "sleep")
  /\ UNCHANGED <<catalog, filed, result, blind, base>>

\* The request stays under way.
CreateTimesOut(t) ==
  /\ At(t, "wait") /\ Fault
  /\ Goto(t, "sleep")
  /\ UNCHANGED <<server, result, blind, base>>

\* SiGREEN deals with a request nobody waits for any more, or it is lost.
CreatedLate ==
  \E r \in posted :
    /\ ~Awaited(r)
    /\ posted' = posted \ {r}
    /\ Made(r, TRUE) \/ UNCHANGED catalog
    /\ UNCHANGED <<filed, thr, result, faults, blind, base>>

\* Mutant of LookAgain: the product is not looked for before the next attempt.
LookAgainNever(t) ==
  /\ At(t, "sleep")
  /\ NotFound(t)
  /\ UNCHANGED <<server, faults, blind, base>>

LookAgain(t) ==
  /\ At(t, "sleep")
  /\ Goto(t, "query")
  /\ UNCHANGED <<server, result, faults, blind, base>>

-----------------------------------------------------------------------------
(* send_factory_emissions: one POST, not repeated *)

Report(t) == <<Call(t), thr[t].ident, thr[t].uuid>>

\* Mutant of Send: SiGREEN's answer is not looked at.
SendUnchecked(t) ==
  /\ At(t, "send")
  /\ filed' = IF thr[t].uuid \in DOMAIN catalog THEN filed \cup {Report(t)} ELSE filed
  /\ Finish(t, [sent |-> TRUE, uuid |-> thr[t].uuid, created |-> thr[t].created])
  /\ UNCHANGED <<catalog, posted, faults, blind, base>>

Send(t) ==
  /\ At(t, "send")
  /\ \/ /\ thr[t].uuid \in DOMAIN catalog
        /\ filed' = filed \cup {Report(t)}
        /\ Finish(t, [sent |-> TRUE, uuid |-> thr[t].uuid, created |-> thr[t].created])
     \/ /\ thr[t].uuid \notin DOMAIN catalog
        /\ Raise(t) /\ UNCHANGED filed
  /\ UNCHANGED <<catalog, posted, faults, blind, base>>

SendFails(t) ==
  /\ At(t, "send") /\ Fault
  /\ \/ UNCHANGED filed
     \/ thr[t].uuid \in DOMAIN catalog /\ filed' = filed \cup {Report(t)}
  /\ Raise(t)
  /\ UNCHANGED <<catalog, posted, blind, base>>

-----------------------------------------------------------------------------

Step(t) ==
  \/ Query(t) \/ QueryIs404(t) \/ QueryFails(t) \/ List(t) \/ ListFails(t)
  \/ Create(t) \/ Created(t) \/ CreatedUnnoticed(t) \/ CreateRefused(t) \/ CreateTimesOut(t)
  \/ LookAgain(t) \/ Send(t) \/ SendFails(t)

Next == (\E t \in Caller : Begin(t) \/ Step(t)) \/ CreatedLate

Spec == Init /\ [][Next]_vars

\* A thread that runs is scheduled again, its sleeps end, and its requests are
\* answered or time out.  SiGREEN owes nothing to a request it was left with.
FairSpec == Spec /\ \A t \in Caller : WF_vars(Step(t))

-----------------------------------------------------------------------------

Result == [sent : BOOLEAN, uuid : Nat \cup {None}, created : BOOLEAN]

TypeOK ==
  /\ catalog \in Seq(Product)
  /\ posted \subseteq [by : CallId, attempt : 1 .. Attempts, ident : Name]
  /\ filed \subseteq CallId \X (Name \cup {Blank}) \X Nat
  /\ thr \in [Caller -> [pc : Pcs, n : 0 .. MaxCalls, ident : Name \cup {Blank}, factory : BOOLEAN,
                         attempt : 0 .. Attempts, uuid : Nat \cup {None}, created : BOOLEAN]]
  /\ result \in [CallId -> Result \cup {None}]
  /\ faults \in 0 .. MaxFaults
  /\ blind \subseteq CallId
  /\ base \in [CallId -> Nat]

\* Of two products with one identifier the younger was made beside the older:
\* the older is another call's and appeared while the younger one's call ran,
\* or one of them was made by a request its caller had given up, or a lookup
\* the younger one's call made after a failed create failed too.  So a create
\* that SiGREEN carries out but reports as an error is not repeated, the case
\* the second lookup is for (pcf_service.py:69-71).
DuplicatesHaveAReason ==
  \A i, j \in DOMAIN catalog :
    i < j /\ catalog[i].ident = catalog[j].ident =>
      \/ catalog[i].late \/ catalog[j].late
      \/ catalog[j].maker \in blind
      \/ catalog[i].maker # catalog[j].maker /\ i > base[catalog[j].maker]

\* "Created" is only said of a product that this call made, and of no other
\* call's, whatever creates it beside this one or answers late: the flag that
\* get_or_create_product_uuid returns, at the time of the upload and after it.
CreatedFlagIsTrue ==
  /\ \A t \in Caller : At(t, "send") /\ thr[t].created =>
       thr[t].uuid \in DOMAIN catalog /\ catalog[thr[t].uuid].maker = Call(t)
  /\ \A c \in CallId : result[c] # None /\ result[c].created =>
       result[c].uuid \in DOMAIN catalog /\ catalog[result[c].uuid].maker = c

\* Every report is filed under a product that has the identifier it was sent
\* for, as its identifier or its name, though lookups fail, products appear
\* between two lookups and creates end late.
ReportsFitTheirProduct ==
  \A c \in CallId, n \in Name, i \in DOMAIN catalog :
    <<c, n, i>> \in filed => n \in {catalog[i].ident, catalog[i].name}

\* What a call reports as sent is filed, under the product it names.
SentMeansFiled ==
  \A c \in CallId : result[c] # None /\ result[c].sent =>
    \E n \in Name \cup {Blank} : <<c, n, result[c].uuid>> \in filed

\* Every call ends, however its requests fail.
CallsEnd == \A t \in Caller : ~At(t, "idle") ~> At(t, "idle")
=============================================================================
