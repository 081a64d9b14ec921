# A verification project for the PCF Calculation Hub

TLA+ modules that model the core of the PCF Calculation Hub (`src/app`), the TLC
configurations that check them on small instances, and theorems about them that
TLAPS checks for every instance. The definitions are translated from the Python
source; `PROJECT.json` names, for every definition, the lines it stands for.

    tlasany WorkOrders.tla                         # parse
    tlc -workers 2 -config mes.cfg MCWorkOrders    # model-check a run
    tlapm WorkOrdersProofs.tla                     # check the proofs

## 1. The system

The hub computes product carbon footprints (PCF). Machines and manufacturing
execution systems (MES) post consumptions, or an Asset Administration Shell (AAS)
server is polled for finished work orders; the hub multiplies energy by a grid
intensity, adds materials, and submits a report to SiGREEN. All its state is JSON
documents.

| Component (code) | State | Operations | Talks to |
|---|---|---|---|
| JSON store (`storage/json_store.py`, `services/database_store_service.py`) | a local file per instance, an S3 object shared by all | `load`, `save` of a whole document | disk, S3 (three attempts per call) |
| Work order bookkeeping (`services/bookkeeping_service.py`, consumption and production use cases) | the work order document: per order operations, materials, old-format BoP, submitted PCF | consumption ingestion, production result, AAS update, deletion | JSON store, SiGREEN |
| AAS pipeline (`services/aas_service.py`, `application/aas_polling.py`, `core/lifespan.py`) | `aas_processed_shells.json`; the `OperationStatus` kept on the AAS server | one cycle over all shells, by a daemon thread for ever and by `POST /api/aas/process_shells` | AAS client, SiGREEN, bookkeeping |
| AAS client (`integrations/aas.py`) | none | list shells, discover machines, read and write submodel elements | the AAS server |
| SiGREEN client (`integrations/sigreen.py`, `services/pcf_service.py`, `services/sigreen_factory.py`) | none of its own | find or create a product, submit a report | SiGREEN, token cache |
| Material PCF lookup (`services/material_pcf.py`) | none | PCF per material | SiGREEN |
| OAuth token cache (`integrations/oauth_token_cache.py`) | token and expiry, under a lock | get, refresh, clear | the OAuth server |
| Configuration (`services/config_service.py`, `api/routers/config.py`) | the configuration document | read (which resolves the factory and saves), post, manual AAS cycle | JSON store, SiGREEN, token cache |
| Factory consumption, idle allocation (`services/factory_consumption_service.py`, `application/pipelines/idle_allocation.py`) | the factory document: a row per machine and month | merge a payload, delete, shares of the idle energy | JSON store (local first) |
| Carbon and report (`services/carbon_service.py`, `services/pcf_builder.py`, `integrations/grid.py`) | none | intensity, footprints, bill of process and materials | grid data |
| User directory, sessions, sign-in, throttling, log buffer, overview | small documents, cookies, in-memory windows | see `PROJECT.json` | JSON store |
| HTTP shell, browser UI, scripts | none | routing, presentation, manual tools | all of the above |

How they interact: a request is a thread of one process (FastAPI's pool); the
AAS daemon is one more; an installation is one process with a disk, several
workers, or function instances with `/tmp` and a bucket. **No lock serialises the
documents**: every change loads a whole document, alters one record and saves the
whole document. Calls to SiGREEN, S3 and the AAS server stand between the reads and
the writes, may fail, and may fail after having taken effect.

What is hard, and what correct means:

* *JSON store*: the file is emptied before it is filled, a load rewrites it too,
  two copies, failures that are only logged. Correct: an answer given to a caller
  is not taken back; a load sees what was promised.
* *Bookkeeping*: concurrent read-modify-writes; a report built from two loads of
  the document; retries, deletions and AAS updates in the middle. Correct: no
  report is shown that was not submitted, nothing is counted twice, and, absent a
  lost update, records and reports are exact and complete.
* *AAS pipeline*: two pollers on the same shells; a failure after each of seven
  side effects; restarts; machines discovered long before statuses are read.
  Correct: done means submitted, a report covers its shell, resubmissions are
  bounded, a ready shell is eventually submitted.
* *Token cache, configuration*: a token asked for before a change and stored after
  it; an answer that comes late; a document resolved or validated over the network
  and saved as it was loaded before. Correct: a served token is live, replaced
  credentials die out, what is stored was confirmed and fits together.
* *Products*: lookups that fail, creates that are carried out late or unnoticed,
  callers beside each other. Correct: a report lands on the product it names, a
  duplicate has an explanation, every call ends.
* *Factory document*: read from the own file first, shared through the bucket.
  Correct: a row is made of whole payloads, an instance keeps what it acknowledged,
  a report charges no more idle energy than was measured.
* *Carbon*: sums with zero, missing, negative and unequal parts, and requests that
  fail in between. Correct: the total is what the lines explain, a material's
  footprint is its own.

`PROJECT.json` lists the hazards at their lines, with the properties that catch them.

## 2. The modules

| Module | What it is |
|---|---|
| `JsonStore` | `load` and `save` taken apart into S3 call, open, close, S3 call; callers; faults; restarts |
| `AtomicStore` | the abstract store: one document, a load and a save of one step each |
| `WorkOrders` | the MES flow and `update_from_aas` by concurrent threads; a load and a save are atomic |
| `AasPipeline` | the cycles of the daemon and of manual requests |
| `TokenCache` | the token of each process and its threads, with a clock, over any configuration document |
| `AppConfig` | extends `TokenCache`: the document, the endpoints that change it, the ways to a client |
| `Products` | finding or creating a product and sending its report, beside an external SiGREEN |
| `FactoryStore` | merge, delete and read of the factory document over several instances |
| `IdleShares` | extends `FactoryStore`: the shares and lines of a report made from any document it lets a report read |
| `MaterialLookup` | the footprint of one unit of a material, as operators |
| `Carbon` | extends `MaterialLookup`: one calculation from intensity to report |

`MC<module>` holds the instances of `<module>` (`MCFactoryStore` those of
`IdleShares`), `<module>Proofs` its theorems (`FactoryStoreProofs` also those of
`IdleShares`), `SumTheorems` the theorems about sums they share.

How they compose. `JsonStore!ImplementsAtomicStore` is the refinement: the abstract
document is the object in the bucket, and a request that still holds what it loaded has
seen that. It is what lets `WorkOrders` and `AppConfig` take a load and a save as
one step each, for callers whose changes do not overlap and calls that do not fail;
it is *not* claimed for overlapping changes, where the store may also tear the
file. `AppConfig` drives `TokenCache` by extension and `Carbon` calls
`MaterialLookup`; `IdleShares` is evaluated on the documents `FactoryStore` reaches.
`WorkOrders!AasSubmitted` is the bookkeeping end of `AasPipeline!Persist`, and the
`Send` of both is what `Products` takes apart; these two meet by hand.

### JsonStore

A document is the set of the keys of its records: all the code ever does to the
document through the store is to add, replace or remove one record. `file[h]` is what `json.load` of the file on
instance `h` gives (`None`: absent, empty or no JSON, which reads as `{}`; `Garbled`: no
UTF-8 either, which no handler expects, so that the load raises it), `s3` the object. `thr[c]`
is a thread and the document it holds. `load` is `S3Get`/`S3Miss`/`S3GetFails`,
`OpenFile`, `CloseFile` (the local copy of the object), or `FileRead` (`FileGarbled`), `Push`
(a non-empty local document goes to a bucket that has none); `save` is `OpenFile`,
`CloseFile`, `S3Put`/`S3PutFails`. Two writers of one file leave either document or
garbage (`raced`), as interleaved buffered writes do. `S3Get` fails only after its
third attempt, so the attempts themselves are not modelled. `mode` is the
deployment: no bucket (one instance serves), an empty bucket, a filled one. `Failing` names
the kinds of fault an instance admits: reads from S3, writes to it, the disk, restarts.
`kept`, `gone` and `owed` record what callers were promised.

`SingleWriter` admits at most one changing request at a time, because with
two the code promises nothing (it loses updates, which `WorkOrders` studies).
Reads run freely beside it, and they write too.

### WorkOrders

A record holds, per operation, a footprint; per material, its total quantity and
the quantity its stored footprint was computed for; an old-format BoP; and the
submitted report. `Consumed`, `Replaced`, `Bop`, `Breakdown`, `Ensured` are the
functions of `bookkeeping_service.py`. A production request reads operations
(`ReadBop`, or `Refuse`), perhaps materials by a second load (`ReadMaterials`),
uploads (`Send`, `SendFails`: SiGREEN may have accepted it all the same), and only
then loads again and saves. `posted`, `acked`, `stale`, `refused` are kept to state
the properties: `stale` becomes TRUE when a save overwrites a document its thread had
not loaded, that is, at the first lost update.

Left out: names, units and timestamps in records, totals per energy type, rounding,
the old BoM format (the old BoP format, which changes what is reported, is in).

### AasPipeline

`thr[t]` is where a poller is in its cycle: shell number `at`, program counter,
discovered `machines`, processes `counted` for the report, and the processed file as
it was `seen`. One action per call the code makes, with its failures: `CheckFails`
skips the shell or ends the cycle, `EnergyUnread` counts a process as 0 kWh,
`DiscoverPasses` loses any set of submodels and keeps the machines of the others, also of
the same shell (`missed` remembers them), `ComputeFails` leaves the shell or ends the cycle,
`GridHangs` waits for Green Grid Compass without a timeout (`grid.py:49`), from where no
step leads on, `SendFails` may have submitted, `MarkFails` counts as a failed submission,
`SetEndedFails` and `PersistFails` go on. `Kind` says what a shell contains: a good
one, one without data, one with a value that raises an exception nobody catches, or
no work order. `sent` and `blame` are kept to state the properties.

Left out: the numbers (a report is the set of processes it counts), the wording of
errors, and the storing of a failed read of `Details` under the shell's own id; in
discovery, a submodel that two shells refer to (`aas.py:580-588` keeps its processes for the
first; `AasAssumption` excludes it), the direct structure (552-579), the filter that prefers
the other one (603-606) and the shell named in the configuration. The plant's processes end
once and for all (`Finish`), in any order and at any time.

### TokenCache and AppConfig

`got[t]` is how far thread `t` is in `TokenCache.get`: the client id is read by one
load of the configuration and the secret by another (`ReadId`, `ReadSecret`), then the
cached token is tested and unpacked, or a new one is asked for and stored. `cached[p]`
is the cache of process `p`, which its threads share without a lock. `Unpack` of a
token that `clear()` has just dropped raises `TypeError`, where the docstring
(`oauth_token_cache.py:49-51`) expects two fetches at worst. `changedAt`, `late` and
`fresh` are history: when the credentials in force last changed, which refreshes had
begun before, and which processes have cleared since. A load may go to S3 and try
three times there, so time passes between the two (`Tick`), up to `LoadTime`.

`AppConfig` keeps of the document the credentials, the token URL (which stands for the
base URL as well), the factory's name and id, and whether the tool is SiGREEN. A read
loads it, resolves the factory and saves what it *had loaded* (`Lookup`).
`post_config` loads, validates over the network, saves, clears its own process's
cache and resolves. It is `async` and never awaits before its end, so no other request
of its process's event loop starts beside it; the requests that run in threads do.
An erased client id is stored blank, an erased secret keeps the old one, and an
erased URL is validated against the old URL but stored as the default. A secret of blanks
counts as none for the validation, which takes the old one, and is stored as it came; whoever
reads it strips it (`Stripped`), so that there is none.

### Products

A call is the product's identifier, a lookup by identifier (`Query`), one in the list
of all (`List`), up to three creates with a sleep and two lookups after each failure,
and one upload. SiGREEN is external: it lists products oldest first, may refuse,
may carry a request out and answer with an error (`CreatedUnnoticed`), and may
carry it out after its caller timed out (`CreateTimesOut`, `CreatedLate`).
A failed list counts as "not found"; a failed query ends the call at first and is
passed over later. Products are equal to what lookups tell apart: identifier and name.

### FactoryStore and IdleShares

The document maps a row (building, machine, energy type) to its totals. `_load_factory_db`
prefers the local file to the bucket, which only serves an instance without a file; a
save writes the file, must succeed there, and then writes the bucket, where it need not;
`Bucket` says whether there is one. Names are stripped, the energy type is lower-cased as
well (`RowOf`).
Reads, merges and deletes run in threads of several instances, with failures of each call,
a write that tears the file, and restarts on the old disk or a new one. `truth[h]` is
what the changes made by `h`, applied one after the other, amount to, from the document its file began with;
`sound` are the instances whose writers never overlapped and whose writes never broke;
`behind` says that a call to the bucket failed, after which nothing is claimed of it
(an instance without a file whose read fails takes `{}` for the document and
overwrites the object). `IdleShares` evaluates `allocate_kwh` and the labels of a
report's lines on each document a report reads, with energies as fractions.

Left out: the production totals (summed as the idle ones are), rates, display fields.

### MaterialLookup and Carbon

A calculation is chosen at `Init` with its configuration, energies, materials and the
requests of SiGREEN that fail, and then runs step by step: intensity, energies,
materials, report. Footprints are integers in units of 10 mg, so a kWh of compressed
air counts 12 and of any other energy 100. What the code does with unequal parts is in: a configured
intensity of 0 is 350 for work orders and 0 for shells; a failed grid service gives
0.0, and the pipeline then refuses the shell (section 5);
`CompressedAir` measured in kWh is still multiplied by 0.12; `incl or excl` treats
a footprint of 0 as missing; an item of the shared data without a component, or with a
value that is no number, ends the whole search (`Shared`); a negative material is counted in a shell's total without
a line, and left out of a work order's report.

Left out: rounding to six decimals, the share in percent, the time window. Intensities
are counted in a unit in which the averages of the grid's values are whole (`IsInput`):
in a coarser one the model would round a small average down to 0, and refuse a shell
the code does not.

## 3. The runs

Each passing run checks one type invariant and properties that hold; each violation
run checks a sentence of the documentation or of a comment that the code does not keep.

| Run | Instance | Shows |
|---|---|---|
| `store` | 2 instances, 3 threads (two on one), 1 key, all deployments, 2 faults | `S3KeepsAcknowledged`, `LoadsSeeAcknowledged`, `FileKeepsAcknowledged`, `S3ChangesOneRecord`, and `ImplementsAtomicStore` |
| `store_survives` (violation) | 1 thread, 2 keys, bucket, 1 failed read from S3 | the read is taken for a missing object, and the next `save` writes a document made from the stale or absent local file over the object: acknowledged records are gone (README of the repository: "state survives redeploys") |
| `mes` | 2 threads, 2 work orders (one may start in the old format), 2 operations, 1 material, 4 requests, 2 of them with consumption | `PcfWasSubmitted`, `NothingCountedTwice`, `RecordsAreExact`, `ReportsAreComplete` |
| `mes_refused` (violation) | the same with 1 operation and without the old format | two concurrent consumptions lose one, and its production result is refused as if nothing had been ingested |
| `aas` | daemon and one manual poller, 4 shells of every kind, 4 processes, 2 machines in the good shell, each in a submodel of its own, 1 fault | `DoneMeansSubmitted`, `ReportsCoverMachines`, `BoundedResubmission`, `ReadyShellsAreSubmitted` |
| `aas_bad_shell` (violation) | a malformed shell first, no faults | every cycle ends at it; the shells behind are never submitted |
| `aas_resubmits` (violation) | a shell without `OperationStatus`, no faults | it is submitted in every cycle; nothing consults the processed file |
| `aas_one_machine` (violation) | two processes of a shell on one machine, no faults | the shell is submitted while one of them runs; discovery kept only the other |
| `config` | 1 process with 2 threads, 3 requests, 7 bodies, token lifetimes 2 and 4 with a maximal age of 2 and a leeway of 1, a load time of 1, clock to 2 | `CachedTokensAreLive`, `ReplacedCredentialsDieOut`, `ClearedCachesAreFresh`, `StoredPairWasValidated`, `FactoryFitsName` |
| `products` | 2 callers of one call each, 3 tasks, 2 names, an empty catalog or one whose product is named like another's identifier, 3 faults | `DuplicatesHaveAReason`, `CreatedFlagIsTrue`, `ReportsFitTheirProduct`, `SentMeansFiled`, `CallsEnd` |
| `factory` | 2 instances, 3 threads (two on one), 2 payloads, 1 delete or read, 1 fault, 3 rows | `RowsAreWholeMerges`, `FileIsWhatWasAcknowledged`, `ObjectFollowsTheOnlyWriter`, `IdleIsNotOverallocated`, `SharesReachTheReport` |
| `carbon` | 4864 calculations: all small configurations and energies, and every material data with every set of failing requests | `TotalIsTheSumOfItsLines`, `BreakdownAddsUp`, `FootprintsAreTheMaterials`, `MissingHasAReason`, `RefusedForAReason` |

**Bounds.** `store`: two threads share a file and a third has another disk, so every
overlap of two local writes and every stale copy occurs; two faults allow a failure and a
restart after it. `mes`: four requests allow a lost update and two production reads
across it, or consume-consume-delete-produce; with two operations a report can have
one and lack the other; energies 0 and 1 include the operation without
consumption that must still be reported; two posts allow one to be lost or
added twice; the old record has a footprint for each operation (`OldBop`). `aas`: one fault anywhere in a cycle, between two
pollers at any distance; since `BoundedResubmission` is proved for any number of
faults, more in the run would show no more. `MaxSent` caps a counter that in the
real system grows; it is above `1 + MaxFaults`, so the cap hides no violation.
`config`: two threads and three requests allow a post beside a refresh or a
resolution and one request after both; the clock runs past a token's age in the
cache and past the leeway, and one lifetime is above the maximal age, so that the cut matters.
One process: another process, which nobody clears, is one that serves no post, and
the theorems hold for any number. `products`: three faults let a
call fail three times, or be carried out late while both lookups after it fail.
`factory`: two payloads for one row and one for its deletion; ids with blanks,
with a slash, and equal names bring every label rule about; one fault in any place
(with two the run finds no error either, but takes longer).
`factory` has a bucket; a deployment without one is among those the theorems are about.
`carbon` takes 3 to 5 values for every input on its own and combines those that
meet in a step. The largest runs are `config` with 3.9, `mes` with 2.7 and `store` with
2.2 million states; these and `factory` take two to four minutes each.
The theorems of section 4 hold without any of these bounds on the number of
nodes, keys, shells and requests.

`mes`, `mes_refused`, `config`, `products`, `factory` and `carbon` set
`CHECK_DEADLOCK FALSE`: the model stops when the bound on requests is reached or the
calculation is done. The other runs check deadlock. The symmetry of `store`, `mes`,
`mes_refused`, `config` and `factory` permutes threads of an instance, and keys or
operations, which the modules treat alike; no run with a liveness property uses symmetry.

**Fairness.** `AasPipeline` and `Products` state liveness. In `AasPipeline` only the
daemon is fair:
`core/lifespan.py` starts it and `aas_polling_loop_forever` catches every exception and sleeps, so its
thread always steps again; its calls have timeouts, so each returns or fails, with one
exception: the query of Green Grid Compass (`grid.py:49`) has none. That one may
hang (`GridHangs`), no step leads out of there, and `ReadyShellsAreSubmitted` has the premise
that some daemon is not hung for ever. Weak
fairness of the whole of `Step(t)` says just that: it does not choose the outcome.
Failures are finite in number (`MaxFaults`), without which no cycle need ever
succeed. Manual cycles and the ends of processes are not fair. The property is
stated for good shells that no malformed shell precedes; `aas_bad_shell` shows why.
In `Products` every caller's `Step(t)` is weakly fair: the thread is scheduled, its sleeps
end, and each request is answered or runs into its timeout of ten seconds. Again the
outcome is not chosen, beginning a call is not fair, and SiGREEN owes nothing to
a request nobody waits for (`CreatedLate`). `CallsEnd` does not rest on the bound on
faults: the attempts of a call are counted.

## 4. The proofs

Every theorem holds for every value of the constants that satisfies the named
assumptions of its module, so for any number of instances, threads,
records, work orders, shells and faults.

| Theorem | States | Inductive invariant and why it is needed |
|---|---|---|
| `JsonStoreProofs!TypeCorrect` | `TypeOK` | the type invariant with `Purposeful`: a change names its record, and only a change saves |
| `…!AcknowledgedIsDurable` | `S3KeepsAcknowledged` | `DurableInv`: what a changing thread loaded is still the object and what it saves is the object with its one change, which takes a single changer (`SingleWriter`) and loads that never fall back on the file |
| `…!LoadsAreCurrent` | `LoadsSeeAcknowledged` | the same invariant, for the document in a reader's hands |
| `…!ObjectChangesByOneRecord` | `S3ChangesOneRecord` | an action property from the same invariant: the saved document differs from the object in one record |
| `WorkOrdersProofs!TypeCorrect` | `TypeOK` | `TypeInv`: a consumption has a payload, an AAS update the report of its payload |
| `…!StoredReportsWereSubmitted` | `PcfWasSubmitted` | `SubmittedInv`: also of every *loaded* document, since a save may bring an old one back, and of the report a thread holds past its upload |
| `…!UnracedRecordsAreExact` | `RecordsAreExact` | inductive once the types are known: an unraced save is made from the current document |
| `…!UnracedReportsAreComplete` | `ReportsAreComplete` | `CoverInv`: what a request is owed, operations and priced materials, is still in the record, and after `ReadBop` and `ReadMaterials` in its report |
| `…!NothingIsCountedTwice` | `NothingCountedTwice` | `CountedInv`: of each operation and material, what is in the record and what every request in flight would still add come to no more than what was posted; a thread that saves moves its share from the one to the other |
| `AasPipelineProofs!TypeCorrect` | `TypeOK` | `TypeInv`: a poller between cycles is at no shell and any other at one of the list; no shell is blamed for more faults than there were |
| `…!DoneWasSubmitted` | `DoneMeansSubmitted` | `DoneInv`: also of the marks a poller has seen, and its own report of the current shell has arrived once it is past the upload |
| `…!ResubmissionIsBounded` | `BoundedResubmission` | `ResubmissionInv`: only between upload and end status, or once ended, does a poller have a submission no failure accounts for |
| `…!ReportsAreCovered` | `ReportsCoverMachines` | `CoverInv`: a poller has one process of every machine of each shell's submodels that it did not miss, and has seen those of the current shell ended |
| `JsonStoreProofs!AcknowledgedIsInFile` | `FileKeepsAcknowledged` | `LocalInv`: without a bucket, failures and restarts no write ever meets another, what the changing thread loaded is still the file, and what it saves keeps every promise |
| `…!StoreImplementsAtomic` | `ImplementsAtomicStore` | no further invariant: each action is simulated under `TypeInv` and `DurableInv` by one step of `AtomicStore` or none |
| `AppConfigProofs!TypeCorrect` | `TypeOK` | `TypeInv`: which places carry a token, a document, a body |
| `…!TokensAreLive`, `…!ReplacedDieOut`, `…!ClearedAreFresh` | `CachedTokensAreLive`, `ReplacedCredentialsDieOut`, `ClearedCachesAreFresh` | `TokenInv`, for every entry and every place of `get()`: an entry ends before its token dies, and within `LoadTime` and `MaxAge` of the change that replaced its credentials; a pair that is no longer in force was read before the change, and only late threads hold one |
| `…!PairWasValidated`, `…!FactoryFits` | `StoredPairWasValidated`, `FactoryFitsName` | `DocInv`: the same also of every document a request has loaded and may save later, and of what a post is about to save |
| `ProductsProofs!TypeCorrect` | `TypeOK` | `TypeInv`: a call that sends has a UUID, one that looks up an identifier, and none a fourth attempt |
| `…!CreatedIsTrue`, `…!ReportsFit`, `…!SentIsFiled` | `CreatedFlagIsTrue`, `ReportsFitTheirProduct`, `SentMeansFiled` | `CallInv`: the same of what a thread is about to send, of every result and of every filed report; SiGREEN's catalog only grows |
| `…!DuplicatesAreExcused` | `DuplicatesHaveAReason` | `DupInv`: a call on its way to a create has, among the products with its identifier, only ones it could not have seen; calls began at the end of the catalog of their time |
| `FactoryStoreProofs!TypeCorrect` | `TypeOK` | `TypeInv`, with lemmas that merges and deletions of documents give documents |
| `…!AcknowledgedIsInFile` | `FileIsWhatWasAcknowledged` | `LocalInv`: on a sound instance at most one thread changes or pulls, and holds the file's document, with its change once it has made it |
| `…!ObjectFollows` | `ObjectFollowsTheOnlyWriter` | `ObjectInv`: what the only writer's threads pull is the object, and what they send is its document |
| `…!RowsAreSumsOfMerges` | `RowsAreWholeMerges` | `RowsInv`: in every document, on a disk, in the bucket or in a thread's hands, a row is a sum of payloads that were already applied; those of requests still on their way are in none, so that adding one adds it once |
| `…!IdleEnergyIsShared` | `IdleIsNotOverallocated` | `RowsInv` again: a row that is a sum of fair payloads is fair (`RowsAreFair`), since times and minutes are added alike; then the shares, all over the same production time, add up to no more than the row's idle energy |
| `…!SharesAreInOneLine` | `SharesReachTheReport` | an induction over the places of a report: after each, every row of the places so far is in one line, there are at most as many lines as places, and so the next label is free |
| `CarbonProofs!CarbonTypes` | `TypeOK` | `Stepwise`: at each point the variables hold what the steps so far calculate from the inputs |
| `…!ShellsAreRefusedForAReason` | `RefusedForAReason` | the same; a sum of natural numbers is 0 only if each is |
| `…!MaterialsAreCharged`, `…!MaterialsAreMissingForAReason` | `FootprintsAreTheMaterials`, `MissingHasAReason` | the same; the lemmas `ComponentIs`, `BestIs`, `SharedIs` and `UnitFootprintIs` say what each part of the lookup gives, and when nothing |
| `…!StoredEnergiesAddUp` | `BreakdownAddsUp` | the same; a sum falls apart along the labels of its elements (`SumFibres`) |
| `…!TotalsAddUp` | `TotalIsTheSumOfItsLines` | the same; lines are renamed items (`SumReindex`), and what is 0 may be left out |

The argument is the same each time: `Init` implies the invariant, every action
preserves it (one lemma or step per action, with lemmas on what the moves of a
thread change), it implies the property, and a last temporal step concludes.
The invariants were checked by TLC where it can enumerate them.

*Sums.* Minutes, quantities, energies and footprints are summed with `SumFunction`,
whose definition recurses over `CHOOSE`. `SumTheorems` proves what such a sum comes to
in any order: one element more, termwise bounds, a common factor, a split, labels,
renaming. The library's induction theorems take a predicate as an operator, which the
provers cannot instantiate; so induction is stated here of a *set* of subsets
(`FiniteInduction`) or of numbers (`NumberInduction`), and follows from the strict
subset order of a finite set being well founded.

Assumptions, all named in the modules and evaluated by TLC: `JsonStore`: instances,
threads and the primary are related as declared, `None` is no document. Its durability
theorems are about states where `mode = "s3"` and no S3 call has failed (the one on
the local file about `mode = "local"` without failed disk writes and restarts), and use
`SingleWriter = TRUE` as a stated hypothesis. `WorkOrders`: footprints and
quantities are natural numbers, `None` is none of them, and threads are finitely
many (a thread pool). `AasPipeline`: the list names
every shell, and is not empty, and the processes of one submodel belong to one shell.
`TokenCache`: times are natural numbers, the leeway is below the maximal age. `AppConfig`: bodies and documents are built from the same texts, the
default URL is not blank. `Products`: SiGREEN starts with at most one product per
identifier, made by no call of the model. `FactoryStore`: payloads are non-negative, name
rows that are considered, and the document the bucket begins with is a document.
`IdleShares`: the places are a sequence in which each place of a row stands once, and
work orders are finitely many. `IdleIsNotOverallocated` carries its hypothesis with
it: `Plausible` says that in no payload, and in no row there at first, the minutes of the
work orders and the idle time exceed the time (otherwise the code does charge more
than was measured). `MaterialLookup`: SiGREEN's answers are lists of the shape the
client reads, a quantity is not negative. `Carbon`: a configured intensity is not
negative and the default not 0, energies and quantities are integers of either sign,
idle footprints are natural numbers, grid averages are whole.

Only model-checked: liveness (`ReadyShellsAreSubmitted`, `CallsEnd`), which the
provers cannot reach, and every violation run. Every invariant and the action property
and refinement of the passing runs have a theorem.

What the proofs changed in the models. `Plausible` spoke of payloads only; a document
the bucket holds at first may break the property as well, so it speaks of its rows
too. An average that is rounded down refuted `RefusedForAReason`, and so did a
default of 0; the assumptions on `Inputs` and `Default` say what excludes them. A
negative energy of a shell now counts 0, as in the code, and is among the inputs TLC tries.

## 5. Findings

Five disagreements between the code and what the repository says of it, each shown
by a violation run: a failed read from S3 is taken for a missing object, and acknowledged
records are overwritten (`store_survives`); a
lost update is answered as missing ingestion (`mes_refused`); a malformed shell stops
all behind it (`aas_bad_shell`); a shell without a status is submitted for ever
(`aas_resubmits`); a second process on one machine is neither awaited nor counted
(`aas_one_machine`). `PROJECT.json` quotes the sentences and lines.

More were met while modelling and are in the models, but have no run of their own. Where
one touches a property, the property excepts it by name:

* A failed write to S3 is acknowledged, and the object lacks the change (`S3PutFails`;
  `json_store.py:131`). With `Failing = {"write"}` in `store_survives.cfg` TLC finds
  `StateSurvives` violated by that too.
* "Saves are atomic on the local filesystem where supported"
  (`docs/API_References_PCF_Calculation_Hub.md:636`), but the file is emptied and then
  filled: a process that dies in between leaves no document (`Crash`;
  `FileKeepsAcknowledged` is about states without restarts).
* What remains of the old format in a record hides the operations ingested since
  (`bookkeeping_service.py:218`, against the docstring, line 181; `Bop`;
  `ReportsAreComplete` excepts these work orders).
* A submodel that cannot be read during discovery is passed over and the shell's others
  are kept, so that the shell is submitted while a process of the lost one runs
  (`aas.py:520`, against `aas_service.py:9`; `DiscoverPasses`; `ReportsCoverMachines` is
  about the submodels that were read).
* A query of Green Grid Compass that is never answered stops the daemon for ever
  (`grid.py:49`, against `docs/API_References_PCF_Calculation_Hub.md:632`, "loops
  continue"; `GridHangs`; the premise of `ReadyShellsAreSubmitted`).
* A failed grid service gives 0.0, of which `carbon_intensity.py:49-51` says "a zero value
  lets the AAS pipeline still produce a PCF report"; the pipeline refuses the shell
  (`aas_service.py:679`; `GridSilent`, excepted from `RefusedForAReason`).
* `clear()` beside `get()` may raise `TypeError`, though the docstring
  (`oauth_token_cache.py:49-51`) names two fetches as the worst case (`TokenCache!Unpack`).

## 6. What is left

The plan's modules are written: the store and its refinement, the two flows, the
configuration and tokens, products, the factory document, and the calculation.
What could follow: `Products` in the place of the one-step `Send` of `AasPipeline`; a
refinement of `FactoryStore` by one document per instance for the sound ones.

Not modelled, and why:

* *Sessions, sign-in, page protection* (`api/routers/auth.py`,
  `services/security_service.py`, `services/microsoft_entra_oauth.py`): signed cookies and
  redirects; each answer depends on the request alone, no state of the program on it.
* *Login throttling and the log buffer*: a few lines under one lock each.
* *User directory*: the unlocked read-modify-write of a whole document that `JsonStore`
  and `WorkOrders` study, with nothing promised beyond it: two administrators at
  once lose a change (`user_directory_service.py:122`).
* *Overview statistics*: a pure summary for the dashboard that nothing reads back.
* *The walk over elements in the AAS client*: which properties stand where is the
  server's data; its results (shells, submodels, machines, statuses) are inputs of
  `AasPipeline`.
* *SiGREEN's bill-of-material versions*: no code in `app/` calls those methods.
* *HTTP shell, browser UI, scripts*: wiring and presentation.
* *Floating-point rounding*: the models count in integers and fractions.
