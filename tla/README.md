# Verification of the M365 assessment collector

This directory holds TLA+ models of the collector: how it runs collections, how it
keeps the control tables of its database, how it talks to Microsoft Graph, how it
follows the audit feed, how records become rows, how security findings are reached and
kept, how the operations API answers while all this goes on, and how the scenario agent
signs in. TLC checks the models on small instances; TLAPS proves
their safety properties for every value of the constants. Source paths below are
relative to the repository root.

## 1. The system

The collector is a set of Python processes around one PostgreSQL database. A
**scheduler** (or an operator, on the command line) starts one **collector process**
per source. The process obtains an app-only token, pages through Microsoft Graph or
the Office 365 Management Activity API, normalises what it gets and commits it, and
keeps an account of what it did in three control tables. A threaded **HTTP API** reads
the tables and serves a static user interface. Beside these stand agents that exercise
a tenant (`agents/scenario`), probe it (`agents/discovery`) and explain it
(`agent/`).

Processes never talk to each other. Everything they share is in the database, and
every commit is a point at which another process can look or this one can die.

| Component | State it keeps | Operations | What is hard about it | What makes it correct |
|---|---|---|---|---|
| Collector runtime (`collectors/core/runtime.py`) | position in the endpoint loop, results in memory | plan, token, per endpoint: open row, collect, write, close row; complete the run | a crash between any two commits; three error paths; results in memory against rows in tables | rows, counters, verdict and committed data agree |
| Control tables (`collectors/persistence/core.py`) | `collection_run`, `endpoint_run`, `collector_checkpoint` | begin, complete, recover an orphan | separate transactions, concurrent runs, an operator's recovery of a live run | a settled run is never rewritten; a checkpoint names only committed data |
| Single-source drivers (`collectors/run_collector.py`, `collectors/security/orchestration.py`) | one run and one row | settings, OneDrive and SharePoint audit, security rule | `finally` clauses that run with or without a result | same ledger as the runtime |
| Graph collection (`collectors/core/collector.py`, `pagination.py`, `retry.py`, `transport.py`) | attempts, pages, last error | page, retry, wait, report | retry after some pages; headers the service dictates; failures that raise | complete or failed, never mixed; bounded |
| Token provider (`collectors/core/auth.py`) | cached token | get, acquire | a token that expires while a request is under way | no request with a dead token |
| Audit feed (`collectors/onedrive_audit.py`, `sharepoint_audit.py`) | durable checkpoint | read checkpoint, list windows, commit batch, advance | late listings, overlapping runs, kill between two transactions | no content skipped, checkpoint monotone |
| Record writers and registry (`collectors/persistence/core.py`, `collectors/workloads`) | data tables in five persistence modes | normalise, upsert, append, replace | adapters, registry and writers agree on columns by convention; slower run overwrites newer data | a batch is stored whole or not at all; a run alone leaves what it saw; evidence is never rewritten |
| Usage reports (`collectors/usage_reports`) | current and snapshot tables | download, parse, write | refresh dates, duplicate and masked identities | no regression of the refresh date |
| Scheduler (`collectors/scheduler.py`) | jobs and phases | run phases, register jobs, kill after 300 s | paused jobs, timeouts, overlap with manual runs | every enabled schedule eventually runs |
| Capability gates (`capabilities`) | entitlements and permissions | plan an endpoint | unknown is not absent | nothing runs without its permission |
| Security findings (`security`, `collectors/security`) | current and historic findings | observe, evaluate, persist | answers that hide or garble evidence; out-of-order evaluations | no verdict without evidence; the current finding is the latest |
| Operations API and analytics (`api/operations.py`, `analytics/operations.py`) | telemetry cache and its lock | cached and uncached queries | threads sharing one lock; several statements, several snapshots; overlapping report generations | fresh answers that rest on one report and add up; every request ends |
| Scenario agent (`agents/scenario`) | registry, sign-in flow, evidence | load catalog, safety gate, execute, poll for the device code, verify the actor | polling against expiry; three vocabularies of failure | success only for the expected actor; bounded flow; truthful evidence |
| Discovery agent, assistant, email, user interface | none, or one report | probe, format, send | — | — |

Pure input and output (email, user interface), and code that formats rows already read
(most routes of `api`), are not modelled. `PROJECT.json` lists every component
with its status, and the hazards of the code at their lines.

## 2. The modules

```
RunLedger                what the control tables promise (abstract)
  ^ implemented by                ^ implemented by
CollectionRun            SingleSourceRun
  ^                               ^
MCCollectionRun          MCSingleSourceRun
CollectionRunProofs      SingleSourceRunProofs

TokenProvider  <- GraphCollection  <- MCGraphCollection, GraphCollectionProofs
AuditCheckpoint  <- MCAuditCheckpoint, AuditCheckpointProofs

RecordContract  <- RecordPipeline  <- MCRecordPipeline, RecordProofs  (rows of one run)
                   RecordStore     <- MCRecordStore, RecordProofs     (overlapping runs)
SecurityRules   <- SecurityFindings <- MCSecurityFindings, SecurityFindingsProofs
ScenarioCatalog <- ScenarioExecution <- MCScenarioExecution, ScenarioExecutionProofs
OperationsAnalytics <- OperationsApi <- MCOperationsApi, OperationsApiProofs
```

**RunLedger** is the contract: a run is opened once, each endpoint gets at most one
verdict and only while the run is unsettled, a run settles with the status its verdicts
add up to (or FAILED before any endpoint was attempted), and only an open run may be
declared an orphan.

**CollectionRun** is `CollectorRuntime.run` with a persisting `CollectionWriter`. A run
is a process with a program counter `pc`, a position `pos` in its endpoint loop, the
gate's plan `skipped` and the `results` list; `runStatus`, `counts`, `orphaned`, `row`
and `checkpoint` are the columns of the three tables and `committed` says for which
endpoints the run's records have been committed. One action is what happens between two
commits: `BeginEndpoint` is the INSERT of `begin_endpoint_run`, `WriteRecords` the
transaction of `write`, `CloseEndpoint` the single transaction that completes the row
and, for a PASS, advances the checkpoint. `RefuseClassification` is the
`PersistenceError` of `complete_endpoint_run` for a classification outside
`CLASSIFICATIONS`. `Stop` ends a process after any commit; `RecoverOrphan` is the
operator's conditional UPDATE, which may meet a live process.

**SingleSourceRun** is the three drivers that open a run for one source on their own.
They differ in what the `finally` clause finds: the settings driver starts from an ERROR
result, the audit driver sets one in its `except` clause, the security orchestrator may
find none and invents one, and tries a failed write twice.

**TokenProvider** and **GraphCollection** are one endpoint's collection. Time is explicit
in the variable `now`: every request and every token request takes up to its timeout.
The service answers, throttles, fails, breaks off a body or sends a malformed page at
will, and the collection may change its size between two attempts. A page is the pair
*(attempt that fetched it, page number)*, which is what it takes to tell pages of
different attempts apart. `history` keeps how each attempt ended, finer than its
classification: a 5xx, any other status and a malformed page are all `API_ERROR`, which
is all `is_retryable` sees.

**AuditCheckpoint** is the incremental audit collection: content is filed under the time
it comes into being and listed up to `MaxLag` later; runs read the checkpoint, fetch
window after window, commit the batch, and advance the checkpoint in a second
transaction. The OneDrive and the SharePoint collector run the same algorithm on
checkpoints of their own, so one model stands for each.

**RecordContract** is two tables of the source written independently of each other: the
columns each adapter produces for each kind of row, and the columns each writer
requires, with the persistence mode and the retention class of every registered
endpoint. **RecordPipeline** takes the endpoints of one run in turn: the lineage of the
run is bound, `NormalizeRecord` adapts one record, `RefuseBatch` ends a batch whose
record has no usable identity, and `WriteRow`, `RefuseRow`, `FailStatement` and `CommitBatch`
are the statements of the one transaction of `write`. Usage reports go their own way:
`ReadRow` judges a CSV row, `RefuseReport` and `RefuseDuplicate` end the report. A
record is one of the shapes Graph can return, a row a pair of position and kind. Its
names do not meet those of `RecordStore` (`PipelineInit`, `PipelineNext`, `stage` for the
program counter), so that one module, `RecordProofs`, can extend both.

**RecordStore** looks at the same tables from outside: three runs of one endpoint fetch,
open their transaction and commit in any order, in each of the persistence modes
(`current`, `snapshot`, `history`, `event`, users with their licenses, usage reports).
The DELETE of the users writer and of the usage writer sees what was committed when it
ran (`doomed`), the upserts meet what has been committed since. `overlapped` records
which runs were not alone.

**SecurityRules** has the eleven rules with their collectors as operators. For each,
`Outcomes` is the set of verdicts over every tenant, every answer Graph may give about
it and everything it may hide, paired with the truth: does the tenant meet the baseline
or violate it. **SecurityFindings** lets two runs of a rule evaluate any of these
outcomes, on a clock whose readings may coincide, and store them: one transaction
inserts the evaluation and upserts the current finding if it is not older; a failed
write is tried twice.

**ScenarioCatalog** says what the catalog loader makes of one entry of the index and the
file it names, what it asks of the totals the index states (enabled and disabled
included), and how the result is merged over the built-in scenarios.
**ScenarioExecution** is one request from the catalog, read entry by entry (`ReadEntry`),
to the evidence record: planning, safety gate, actor, the dry-run and the
live executor, the device-code flow with its clock (`Prompt`, `Confirm`, `BeginPoll`,
`Pending`, `Wake`, `TimeOut`), the token, `/me`, and the mapping of every failure to the
vocabulary of the evidence. The person who signs in (`SignIn`, `Decline`) acts at any
time, or never.

**OperationsAnalytics** holds what is computed from rows already read: the newest
generation of a usage table, the status of a user in a workload, the KPI counts. Some
users have no principal name (`Nameless`): they count as users but join with no row;
the names of the others are taken to be unique.
**OperationsApi** is the threaded API: a request reads the clock, waits for
`_TELEMETRY_CACHE_LOCK`, hits or loads statement by statement while holding it (`Query`
sees what is committed at that moment), and stores its entry; the correlation route
loads without cache and lock. Beside it collectors add users, replace assignments and
store usage reports in transactions that overlap (`DeleteOlder`, `StoreReport`). A
report without rows deletes nothing, as `write_report_rows` returns at once (`Replaced`).

### Abstractions that matter

- Classifications are kept; error texts, row counts and payloads are not.
- Every endpoint with a Graph transport is one the workload registry knows, as in the
  shipped inventory, so "collected but not persisted" does not occur.
- A writer always has its lifecycle methods; dry runs change nothing and are left out.
- `FailToken` writes AUTH_FAILURE for whatever the token error maps to: none of it
  reaches an endpoint row.
- An exception from a call outside every `try` of `run()` (the gate's queries, a broken
  connection) has the effect of `Stop`.
- Audit content is one item per listing entry; the filter of relevant records is left out.
- The provider has a lock, but a collector process is single-threaded, so there is one
  caller.
- Columns, endpoints, rules and actions keep their names; the values of columns are
  left out except where a key or a guard is made of them.
- A usage row is one of four shapes (dated, undated, deleted, without a flag), and its
  refresh date is the place of its report in the sequence of publications.
- A Conditional Access policy is its state, its controls, its strength and whether it
  covers legacy clients; a registration row its user and whether it is registered.
- The API model has one cached route. The others share the lock under keys of their own,
  and add waiting but no new order of steps. The write of the response is left out.
- Jitter is off by default and not modelled. `MaxDelay` caps it where it is on.
- The connection timeout is taken as a bound on a whole request. It bounds each socket
  operation, so a service that drips bytes could exceed it.

## 3. Properties

`CollectionRun`
- `ReconciledWithRows`: status and both counters of a settled run are those its endpoint
  rows give, and no row is left open under a verdict. The code computes them from a list
  in memory that three error paths write to.
- `PassMeansCommitted`, `CheckpointMeansCommitted`, `FailedMeansNothingCommitted`: PASS
  rows, checkpoints and verdicts never claim or deny data against what was committed.
- `OneOpenRow`: however a run stops, its rows are finished before the stop and absent
  after it.
- `SkippedLeavesNoTrace`: an endpoint the gate skipped commits nothing and advances no
  checkpoint, and a fully skipped run asks for no token.
- `VerdictIsFinal` (action property): nothing rewrites what the runtime settled.
- `LedgerSpec`: the refinement of `RunLedger`.
- `RunningIsSettled` (liveness): a RUNNING row is settled unless the process was killed
  or raised. A run that raised stays RUNNING until an operator recovers it, which the
  property does not hold against it.

`SingleSourceRun`: `VerdictMatchesRow`, `PassMeansStored`, `FinallySettles` (a settings
or security driver that has its row and ends by itself has settled the run), `LedgerSpec`.

`GraphCollection`: `PassIsComplete` (every page of the last attempt once, in order, none
of an earlier one), `BudgetIsKept` (at most one attempt more than the retries, none after
a success, a 401 or a 403, and an ERROR only after a 401 or 403 or with the budget spent),
`WaitIsBounded`, `TokenOutlivesRequest`, `CollectionEnds` (liveness). That only
transient failures are retried, as the documents say, is not true of the code and not
claimed (section 6).

`AuditCheckpoint`: `NoGap` (content older than the listing lag before the checkpoint is
stored, back to where the first successful run began), `CheckpointNeverRegresses`.

`RecordPipeline`
- `BatchIsAtomic`: an endpoint that passes has stored every row of every record, one
  that does not has stored none, whatever failed and whenever.
- `RetentionIsRegistered`: every row carries the retention class of its own endpoint.
  The lineage object is shared by a batch and the default is written into it.
- `ContractKept`: outside the known gaps the writer never refuses what the adapters made.

`RecordStore`
- `CurrentIsBacked`: a current row of a table with a companion is traced: by the snapshot
  of the run it names, by its version, or by a snapshot of its report date, in whatever
  order runs committed. Users and current-only records have no companion.
- `AloneLeavesItsOwn`: a run alone from fetch to commit leaves the objects it fetched with
  the rows it saw, written by it; a usage report with rows leaves no other row, and the
  licenses are exactly those it saw if Graph showed all of them. In the other modes the
  rows of objects that are gone stay. Only an overlap can leave older data on top, and
  then it does: the upsert of a CURRENT row asks for no date. What overlapping runs leave,
  a mixture of two license sets included, no property restricts.
- `EvidenceIsAppendOnly`, `UsageNeverRegresses` (action properties). They are about the
  writers; the scheduler deletes sign-in rows after 90 days (`collectors/scheduler.py:61`).

`SecurityFindings`: `VerdictIsSound` (OPEN only if the tenant violates the baseline, PASS
only if it meets it, whatever was hidden; two exceptions, see section 6),
`CurrentIsLatest`, `ReportedIsStored`.

`ScenarioExecution`
- `SuccessIsVerified`: a live success is that of a scenario the catalog enables, confirmed
  where confirmation is asked, signed in to by the expected actor.
- `FlowIsBounded`: polling overruns the configured timeout by one answer and one sleep at
  most, and secrets are held only while needed. Prompting and confirming have no bound.
- `EvidenceTellsTruth`: the error code of the record says how far the flow really got.
- `RegistryIsFaithful`: the built-in scenarios stay as they are; every added scenario is
  what the *first* file that describes it says, and a file is passed over only if the
  index lists it under the id of another scenario already added; no file that parses is
  lost otherwise.
- `EverySignInEnds` (liveness).

`OperationsApi`
- `FreshOnArrival`: whatever a request waited for and whoever filled the cache, its
  answer rests on reads later than one time-to-live before it arrived. An entry is
  stamped with the clock from before the wait, so a request may be told something older
  than that when it is answered, never when it arrived.
- `AnswersRestOnOneReport`: what an answer says of its users in a workload is what one
  stored report of its tenant says or UNKNOWN; a run that was alone shows in full until
  another report with rows is stored. Overlapping runs leave rows of several reports in
  one table, and each workload may rest on a report of its own.
- `CountsAgree`: the counts of users in a summary do not contradict each other though its
  tables were read at different moments: licensed and unlicensed, and the three statuses
  of each workload, add up to the total; matched and unmatched directory users are at most
  the total, users without a name being neither. The adoption counts are of report rows,
  not of users.
- `EveryRequestAnswered` (liveness): however the holder of the lock ends.

## 4. The runs

| Run | Instance | States | Shows |
|---|---|---|---|
| `collection_run` | 2 concurrent runs, 2 endpoints: one Graph, one usage report, both gated; one accepted and one refused failure class | 68,499 | all ten properties of `CollectionRun` |
| `single_source_run` | one run of each driver, two failure classes | 268,576 | the four properties of `SingleSourceRun` |
| `graph_collection` | 3 attempts, up to 2 pages, unit of 30 s | 645,962 | the five properties of `GraphCollection` |
| `audit_checkpoint` | 3 overlapping runs, 1 content item, 14 hours | 1,111,269 | `NoGap`, `CheckpointNeverRegresses` |
| `record_pipeline` | every registered endpoint and three reports, two of them in any order, two records | 394,000 | the three properties of `RecordPipeline` |
| `record_store` | 3 runs, 2 objects, 3 contents, every mode | 511,000 | the four properties of `RecordStore` |
| `security_findings` | every rule over its whole outcome set, 2 runs | 164,000 | the three properties of `SecurityFindings` |
| `scenario` | 30 indexed catalogs, 3 actors, 7 configurations, 3 identities | 277,026 | the five properties of `ScenarioExecution` |
| `operations` | 3 users, one without a name, 3 reports, one without rows; 2 requests and the passing of time or a change of users; 1 request and two runs of one report or of two, or one run and a change of users | 418,190 | the four properties of `OperationsApi` |
| `audit_failure`, `column_contract`, `never_open_on_unknown` | as the runs of their modules | — | the divergences of section 6 |

Why the bounds suffice. Two runs are enough for any conflict over a checkpoint or a
recovery, as no action reads more than one run's rows; two endpoints give each run a
"before" and an "after" the one at which it stops, and both transports. One driver of
each kind suffices since single-source runs share nothing; they run side by side to
exercise the ledger with several runs. Three attempts give a first, a middle and a last
one; two pages a first and a last one. One unit of time is 30 s in `graph_collection`
(token timeout 1, skew 2, cap on Retry-After 2, as in the code) and one hour in
`audit_checkpoint` (overlap 2 and lookback 4, as in the code; the day-long window is
scaled to 4 hours so that a run can need several). Content items do not interact, so
one is enough; three runs are what it takes for a run to begin before, finish after, and
depend on two others. `MaxTime`, `MaxPages` and the failure sets are the only bounds
of these models that exist for TLC's sake; the proofs do without them.

In `record_pipeline` two endpoints are what it takes for one to leave something behind
for the next, and two records for a batch to fail after its first row. In `record_store`
a third run can commit between the DELETE and the COMMIT of another that overlaps a
second; two changes of the source make three versions. The rules of `security_findings`
take at most two policies (a good one and one that spoils the evidence), three
registration rows for two users (one repeated, one missing) and up to six administrators
around the threshold of five (`Users`, `MaxRows`, `MaxPolicies`, `MaxAdmins`); the room for
evidence is scaled to one policy (`PolicyRoom`). Time in
`scenario` is counted in polls: a code that outlives the budget and one that does not,
an interval that fits and one that overruns. In `operations` the time-to-live is two
units, so an entry can be fresh, on the edge and stale; `Plans` keeps the concerns that
do not meet in separate behaviours: time matters to two requests at the lock, overlapping
reports to one that reads. The second report drops a user and brings a stranger, the third has no rows.

**Fairness.** `CollectionRun.FairSpec` assumes weak fairness of each process's own steps:
every call of `run()` returns, as requests have timeouts, retries are bounded and sleeps
capped. `Stop` and `RecoverOrphan` are never owed. `GraphCollection.FairSpec` assumes
weak fairness of its single process, and that the service has finitely many pages: the
paginator itself follows next links without a bound. `ScenarioExecution` assumes that
calls are answered, as the transports time out, that time passes and the program goes
on; the person at the device owes nothing. `OperationsApi` assumes weak fairness of the
thread of a request that has arrived, and that its statements end; the lock has no queue,
but requests are finitely many. The collectors owe nothing. `CHECK_DEADLOCK FALSE` is set
everywhere because runs end and clocks stop at their bound.

**Assumptions on constants.** `SkewAssumption`: token timeout plus request timeout is
at most the refresh skew, and tokens live longer than that. With the code's defaults
(30 s, 30 s and 60 s) it holds with nothing to spare, and the property breaks as soon as
the skew is ignored. `BoundsAssumption`: the listing lag is within the overlap, and a
run and the lag together within the lookback. The second is needed because two *first*
runs may overlap: the one that began first may advance last. With a longer run TLC finds
a gap. The scheduler's 300 s limit makes a run short; a run from the command line has no
such limit. `RecordPipeline` assumes that the endpoints of a run are registered and its
reports known (`EndpointsAssumption`, `ReportsAssumption`), as `run()` takes them from the
inventory. The remaining ones say what the values are: the refused failure classes are
none of `CLASSIFICATIONS`, a directory and a report are finite (`UsersAssumption`,
`DataAssumption`), the index of a catalog is a sequence (`CatalogAssumption`), the absence
of an identity is no identity (`IdentityAssumption`).

## 5. What is proved

All proofs are for arbitrary constants that satisfy the named assumptions.

**`CollectionRunProofs`**: `TypeCorrect`, `Reconciliation`, `PassIsBacked`,
`CheckpointIsBacked`, `AtMostOneOpenRow`, `FailureIsEmpty`, `SkippedIsInert`,
`FinalVerdict`, `ImplementsLedger`. None of the safety properties is inductive: that a
verdict agrees with the rows needs that the rows agree with the results in memory, which
needs to know where in the loop the process stands. The inductive invariant is, run by
run, `StageInv` (program counter against status), `RowInv` (rows follow the position),
`DataInv` (committed data, result and row agree) and the property itself, plus
`CheckpointInv` across runs. `OthersUntouched` shows that a step of one run leaves the
others alone, so the induction is over one run, one step per action. For the refinement,
begin, planning, collecting, writing and stopping map to stutters, closing an endpoint to
`Record`, and both ways of completing to `Settle`.

**`GraphCollectionProofs`**: `TypeCorrect`, `CompletePass`, `KeptBudget`, `BoundedWait`,
`LiveToken`. The invariant says what a walk has gathered so far (`WalkInv`), what an
ended attempt holds (`DecideInv`), that the provider overestimates a token's life by at
most the token timeout (`TokenInv`), and that the time slept is at most one longest delay
per retry so far (`WaitInv`).

**`AuditCheckpointProofs`**: `TypeCorrect`, `CheckpointLeavesNoGap`, `MonotoneCheckpoint`.
The core is `StartInv`: a run that has read the checkpoint started early enough for
whatever the checkpoint has become meanwhile, or, if it found none, its lookback before
its end; and `FetchedInv`: it holds all content of its windows but what may be listed
late.

**`SingleSourceRunProofs`**: `SettledVerdict`, `StoredPass`, `FinallyClauses`,
`ImplementsLedger`, for any number of runs of any mixture of drivers. The hard part is
what a `finally` clause can find: `ResultInv` says which result each driver holds where,
and that a PASS is held only when nothing that could fail is left; `VerdictInv` carries it
into the row and from there into the run. `StageInv` and `RowInv` tie the columns to the
program counter. A run that raised stays unsettled or is recovered, which the ledger
allows, so it is implemented although the audit driver breaks its own document (section 6).

**`RecordProofs`** has two parts. About `RecordStore`, for any number of runs, objects,
contents and changes of the source: `RowsAreTraced`, `NoOverlapNoLoss`, `EvidenceStays`,
`ReportDatesAdvance`. `OverlapInv` is the core: a run nobody has overlapped finds nothing
committed that is newer than what it fetched. `RowInv` says that a current row bears the
date of the committed run it names, `SnapshotInv` that a run has no snapshot before it
commits (so it never conflicts with its own), `DoomedInv`, `LicenseInv` and `UsageInv` what the two
DELETEs saw. That evidence is append-only is proved from the steps alone, without any
invariant: `ON CONFLICT DO NOTHING` needs none.
About `RecordPipeline`, for any number of endpoints, records and rows: `AtomicBatch`,
`OwnRetention`, `WriterAgrees`. The written and the pending rows of a transaction are
together all rows of its batch (`WritingInv`), rows are stored of endpoints that passed
and of no other (`StoredInv`), and the lineage of an endpoint that is no report is
complete before the first record is adapted (`LineageInv`). That the writer never refuses
what the adapters made is no matter of steps but of the two tables: `ContractHolds`
compares them column by column for every registered endpoint outside the gaps.

**`SecurityFindingsProofs`**: `CurrentFinding`, `ReportedFinding`, `SoundVerdicts`, for any
number of runs. That the current row is the latest is nearly inductive; it needs that
every evaluation stored is the verdict of the run it names (`StoredInv`) and that a verdict
does not change once reached (`OwnInv`); this part assumes nothing of the outcomes. That
the verdicts are sound is one lemma per rule (`LevelsAreSound` to
`AdminRegistrationIsSound`, together `RulesAreSound`), for any set of policies, any finite
directory and reports of any length, with the two exceptions the property states. The
registration rules rest on a counting argument: a report without repeated rows that has as
many matched rows as there are users matches every user (`EveryUserMatched`).

**`ScenarioExecutionProofs`**: `VerifiedSuccess`, `BoundedFlow`, `TrueEvidence`,
`FaithfulRegistry`, for any catalogs, actors, configurations, identities, budget, lifetimes
and latency. `LoadInv` follows the loop over the index, `PlanInv` keeps what the safety gate
let through, `TimeInv` says that a poll begins within the budget and how far the clock may
have moved since, `HeldInv` which secret is held in which phase, `StepsInv` which steps were
taken, and `SignInInv` that `/me` can only name the person whose sign-in gave the token.
`ResultInv` says of each status and error code what it proves of the flow; the evidence
(`RecordInv`) is its translation.

**`OperationsApiProofs`**: `FreshAnswers`, `AnswersOfOneReport`, `CountsAddUp`, for any
requests, tenants, users, reports, collections and TTL. For freshness, the invariant orders
the moments of a request (`OrderInv`: it arrives, reads the clock, loads) and says that a
cache entry is stamped no later than the load of its value began (`Sound`). A hit is then at
most one TTL away from the stamp, and the stamp no later than the rows; the time spent
waiting for the lock does not enter, because the clock was read before.
For the reports behind an answer, `ReportInv` follows the rows: those of a table come from
stored reports (`TableInv`), a run that is alone takes the whole table with its DELETE
(`AloneInv`), runs of reports without rows
leave no trace (`EmptyInv`), the newest generation of a table is of one report although its rows may be of
several (`GenerationIsOne`), and a load, an answer and a cache entry hold rows of one
report for each workload (`ReadsInv`, `RestsInv`, `CacheRestsInv`). The counts add up because
every user has exactly one status in each (`CountOfTwo`, `CountOfThree`), whatever the tables
were when they were read.

All safety invariants and action properties of the passing runs are proved, and both
refinements of the ledger. **Only model-checked** are

- the liveness properties `RunningIsSettled`, `CollectionEnds`, `EverySignInEnds` and
  `EveryRequestAnswered`: fairness and ENABLED are out of the prover's reach;
- the three runs of section 6 that end in a violation, which a counterexample settles.

The proofs say nothing of what the models abstract from (section 2), nor of the bounds that
are part of the code and not of the model: the attempts, the overlap and the lookback, the
TTL and the budget are arbitrary within their assumptions.

## 6. Where documents and code disagree

Shown by a run:

1. `audit_failure`. `docs/evidence/OD-P05E-…:29` promises a terminal ERROR row and a
   failed run on every exception. The audit branches classify a failure as
   `SOURCE_FAILURE`, which `complete_endpoint_run` refuses inside the `finally` clause,
   so neither row becomes terminal. The single-source runs still implement the ledger,
   because an unsettled run is allowed to stay unsettled there.
2. `column_contract`. `collectors/workloads/registry.py:857` says rows "always satisfy the
   persistence column contract". The adapters of G01-005 and G01-014 make rows without
   columns their writer requires, so no batch of these endpoints is ever stored. The
   batch-2 endpoints have no writer at all.
3. `never_open_on_unknown`. `security/models.py:230` says a value that is not supported is
   NOT_EVALUATED, "never OPEN". The legacy-authentication rule does not look at the state
   of a policy when it asks whether the evidence is complete, so a policy in an unknown
   state leads to OPEN.

Met while modelling, and visible in the models:

- `collectors/core/errors.py:13-15` and `docs/collector-framework.md:132` call only the
  5xx subset of API_ERROR retryable. `is_retryable` (`errors.py:95-99`) sees the
  classification and not the status, so a 400, a 404 or a malformed page is tried to the
  end of the budget, with a backoff each time. `BudgetIsKept` and its theorem state what
  the code does: of the failures only a 401 or a 403 ends a collection at once.
- A usage report that fails as `REPORT_SCHEMA_INVALID` or `THROTTLED/RETRY_EXHAUSTED` is
  refused by `complete_endpoint_run` just as SOURCE_FAILURE is: the run stays RUNNING
  where `docs/database-schema-design.md:1292` promises PARTIAL_SUCCESS.
- The same document (1282) puts reconciliation into the transaction of the last endpoint;
  the code commits it separately.
- A refused token of a security run is recorded as PERSISTENCE_ERROR
  (`collectors/security/orchestration.py:176`), and FAILED_RETRY_EXHAUSTED is written for
  any failure after a second attempt (`collectors/core/collector.py:131`).
- `VerdictIsSound` excepts reports with repeated rows: one repeated and one missing row
  have the right number, so the population check of
  `collectors/security/entra_mfa_registration.py:94` cannot tell.
- A normalized value of more than 1024 characters can never be stored
  (`security/persistence.py:81`); the run reports it (`ReportedIsStored`).
- Rows of users who left the directory stay in `core."user"`, so the enabled users the
  registration rule counts can include people no report mentions; the rule then stays
  NOT_EVALUATED.
- `agents/scenario/live_executor.py:242` speaks of an absolute budget for the whole flow:
  the last sleep and answer may end after it and `/me` is outside it (`FlowIsBounded`
  states by how much).
- The workload statuses of a user need not come from reports of the same period: each
  table has a generation of its own. A run that started later, downloaded the older
  report and commits last stores only the rows the newer report lacks, and with its
  later `observed_at` they hide the whole newer generation (`AnswersRestOnOneReport`
  holds, as everyone else becomes UNKNOWN).
- A usage report without rows is stored as a success but replaces nothing
  (`collectors/usage_reports/persistence.py:28`): the rows of an older report keep
  showing as if they were current.
- Two directory rows with one principal name both get the status of its report row, where
  the contract wants UNKNOWN; a KPI answer is READY although SharePoint activity was never
  collected, and a user is unlicensed although assignments never were.

## 7. Not modelled

The discovery agent (a sequential probe that writes one report), the assistant (it drives
an external model), the email report and the user interface have no state of their own
that another component relies on. The administrative routes, sessions and the routes
that only query and format are left out of the API, capacity and license costs out of
the analytics. `collectors/workloads/registry.py` is modelled by its tables and its
normalisation; the wording of its errors is not. A catalog payload that is valid JSON but
no object (`agents/scenario/catalog_loader.py:626`) ends the loader with an AttributeError
and is left out.

## 8. Plan

Most important first:

1. **Scheduler**: phases, registered jobs, timeouts, and overlap with manual runs.
2. **AuditTransport**: subscription, listing pages with both cycle guards, blobs, and the
   retry loop per request, refining `AuditCheckpoint.FetchWindow`.
3. **CapabilityGate**: decisions as functions, checked against a reference definition.
4. **Specialised collectors**: sources that keep no run row and swallow failures.

A new module gets one passing run, in place of or beside those of section 4, which
are kept within what a check finishes in a few minutes. Its safety properties get their
proofs with it; what is modelled today has none left to prove.
