# A verification development for Recon7

Recon7 accepts scan requests through a web API, queues them in a database, and
lets worker processes run each of them as a ten-stage pipeline of parallel
steps. This directory holds TLA+ models of that machinery, TLC configurations
that check them on small instances, and proofs, checked by TLAPS, for every
value of the constants. Paths below are relative to the repository.

## 1. The system

| Component | State | Operations | Hard behaviours |
| --- | --- | --- | --- |
| Job queue (`worker.py` 1663-1720, `storage/db.py` 374-435) | rows of `scan_jobs`: `status`, `current_step`, `completed_at` | create, poll, mark running, checkpoint, complete, fail, cancel | several workers on one table with no claim; interrupted workers; unconditional writes |
| DAG engine (`worker.py` 1435-1660) | context dictionary, abort event, futures, branch tasks | submit a step, wait for one or many futures, monitor the abort, finish | three coroutines, eight pool threads and a monitor; exceptions and aborts from any side; threads that outlive the run |
| Stage gate (`worker.py` 61-101, 142-172, 1460-1472) | none | which stages a mode or stage list runs, and from which checkpoint | checkpoints of parallel tracks have no order |
| The ten steps (`worker.py` 185-1376) | what they leave in the context and store | one function each, with a common prologue | shared lists copied and written back; stores in several commits |
| Scan endpoints (`api/routes.py` 717-791) | none of their own | trigger, abort | the abort reads first and writes later |
| Evidence graph (`storage/db.py` 610-1679) | entities, evidence, relationships | upserts, lens and path queries | select-then-insert from parallel threads |
| Integrations and search (`api/routes.py` 1051-1476, `worker.py` 1382-1432, `core/google_search.py`) | keys of tenants, environments of the processes, the search cache | save, display, test, copy into a job, search by tiers | an environment that outlives the job; a flag shared by threads |
| IAM, setup, tenants (`api/routes.py` 267-640, `storage/db.py` 163-283) | users, roles, tenants, the setup flag | first-launch setup, create, update, deactivate | rules that count before they write |
| Login and tokens (`core/auth.py`, `core/security_limiter.py`) | failure times by identifier | record, check, clear | a window and a penalty of different length |
| Scope gate (`core/scope.py`) | the tenant's scopes | decide whether a target may be scanned | precedence of rules |
| Threat caches (`vuln/cve_lookup.py`, `vuln/epss_engine.py`) | cached feeds with times | look up, refresh, fall back | stale or stand-in answers that are cached like real ones |
| Distribution matcher (`vuln/distro_matcher.py`) | none | compare versions, backport status | order at the boundaries of tilde, digits and letters |
| Identity resolution (`core/identity/resolution.py`) | none | merge person records | dependence on the order of the input |
| Application vulnerability runner (`vuln/app_vuln/`) | clusters of targets | cluster, run plugins with bounded concurrency | de-duplication |
| Recon and people sensors (`recon/`, `people/`) | the frontier of the crawl; none that lasts | network and subprocess I/O, parsing | timeouts; the merge of two port scanners; limits of pages and depth |
| Vulnerability engine (`vuln/vulnerability_engine.py`) | none | audit of exposed services, evaluation of signatures | a verdict from several weak signs |
| Triage and report (`ai/`) | none | scores and texts | order and score in two tables |
| Frontend, scripts, deployment | none of the system's | | `r7-worker` has two replicas |

How they interact. `POST /scan` inserts a row with `status = "pending"` and
`current_step = "init"`. Each worker polls for the oldest pending row and calls
`execute_pipeline_dag_async`, which sets the row to running, restores stored
findings into a context, and submits steps to a thread pool. The steps share
the context under a lock; each writes its name to `current_step` as it starts
and stores its findings in sessions of its own. `POST /scan/{id}/abort` writes
`cancelled` to the row; a monitor task in the run copies that into an in-memory
event, and the coroutines and steps look at one or the other. The row is the
only thing the API, the workers and the steps share.

What makes each of them correct: a run respects the order its stages depend on;
"complete" means that every stage ended and that its results are stored and
triaged; a cancellation ends a run and is not undone; every run ends; every
pending job is taken and every running one ends; nobody writes to the row of a
completed job; a job belongs to the worker that runs it. Around the runs: an
administrator remains and a reset ends every session; the graph loses nothing
that was stored and its views show all of it; a key that a tenant has enabled, and
that its job could read, is the one its job searches with; a mask is not kept as
a key; limits hold under overlapping requests; a cache does not go back; and the
findings say what the probes have proved, the worst first.

## 2. Modules

| Module | Models | State |
| --- | --- | --- |
| `StageGate` | the stage sets, `_should_run_step`, and the order in which the coroutines submit the stages | none |
| `TaskGraph` | the abstract promise of the DAG engine: tasks start after their dependencies, success means all of them finished, a closed run starts nothing | `state`, `outcome` |
| `ScanPipeline` | one run of one job, with its threads and coroutines, beside the abort endpoint; implements `TaskGraph` | see below |
| `JobQueue` | the jobs, the API and several workers, a run being seen as the stages it has begun and ended | see below |
| `MCScanPipeline`, `MCJobQueue` | values of the constants for TLC | |
| `Access` | the users table, the setup flag, tokens, and the requests of the setup, of logins, workspace switches and account administration, each read, check and commit being a step | `users`, `cfg`, `tenants`, `tokens`, `lastPw`, `req` |
| `EvidenceGraph` | sessions of stages and of readers on the three tables of the graph | `entities`, `relationships`, `evidence`, `session`; `claimed`, `raced` |
| `GraphViews` | the lenses of `get_investigation_graph`, `expand_graph_node`, `find_entity_path` as operators | none |
| `SearchTiers` | the keys of tenants from the form to the search, field by field: rows, the environments of the two processes, jobs, search threads, the cache and the tiers | `config`, `enabled`, `apiEnv`, `workerEnv`, `exhausted`, `job`, `search`, `cached`; `asked` |
| `LoginLimiter` | failures of one address, with bounded time that is finer than a second | `clock`, `failures`, `login`; `log`, `promised` |
| `ThreatCaches` | the KEV catalogue and the EPSS score in a process, the published editions and the threads that look them up | `now`, `published`, `kev`, `epss`, `query`; `told` |
| `AppAudit` | the tasks that ask hosts and cluster them, and the plugins | `phase`, `asking`, `clusters`, `audits`, `results`; `ran` |
| `SiteCrawler` | the frontier of the crawl and the contacts it records, over any site of a given set | `site`, `frontier`, `visited`, `found` |
| `PortScan` | sweep, probes, proxy filter and merge with nmap as operators | none |
| `FindingTriage` | audit of exposed services, evaluation of signatures, deterministic triage as operators; extends `PortScan` and `DistroMatcher` | none |
| `DistroMatcher` | comparison of versions and the verdict on a package, beside the order of dpkg as the reference | none |
| `IdentityResolution` | the merge of candidates into persons | none |
| `Lists` | what a comprehension selects from a list | none |
| `MCAccess`, `MCComponents` | values of the constants for TLC; `MCComponents` puts all modules of this table below `Access` side by side | `input` |
| `SharedFacts` | lemmas several proofs use: induction on a bounded range, facts of the stage gate, what `Among` selects | |
| `ScanPipelineProofs`, `JobQueueProofs`, `AccessProofs`, `EvidenceProofs` | theorems of the module each is named after; `AccessProofs` has those of `LoginLimiter` as well | |
| `LookupProofs`, `SiteProofs` | theorems of `SearchTiers` and `ThreatCaches`; of `AppAudit` and `SiteCrawler` | |
| `AlgorithmProofs` | theorems of `PortScan`, `FindingTriage`, `IdentityResolution`, `DistroMatcher` and `GraphViews` | |

### ScanPipeline

| Variable | In the code |
| --- | --- |
| `row` | the row of the job: `status`, `current_step`, whether `completed_at` is set |
| `db` | which results the stored findings and reports hold |
| `request` | whether a call of `endpoint_abort_scan` has read a live job and not yet written |
| `scan`, `initial` | `scan_params` with the effective mode, and `context["initial_step"]` |
| `ctx` | which results the context holds; `"nuclei"` and `"cve"` are what stages 6 and 7 have put into the one list `context["vulns"]` |
| `copied` | the part of that list step 7 copied at line 760 |
| `triaged` | what the context held when step 9 ranked it |
| `event` | `abort_event` |
| `main`, `branch` | where the coroutine of the run and its two branch tasks are |
| `fut` | one future for each step: queued, past the abort check of `_checkpoint_step` ("gated"), past its write ("working"), past the write to the context ("written"), done, failed, aborted, dropped |

The actions follow the code between two points where another actor can
interfere: a coroutine runs from one `await` to the next, a thread from one
session or lock to the next. `_checkpoint_step` is two steps (`Begin`,
`Checkpoint`), because the check and the write are two sessions; the abort
request is two steps for the same reason. `Phase` is the common form of the
main coroutine's stretches: `_check_if_aborted`, then the submissions. A step's
body is `Compute` and `Store`, with `Flow` naming what each of the ten writes and
stores; step 7 replaces the list that step 6 appends to, and step 8 stores the
people before the exposures. `_wait_single` and `_wait_many` differ in whether
they look at the event or at the future first, and the model keeps that
difference (`WaitRaises`, `WaitAborts`; `BarrierAborts`, `BarrierRaises`).
`Finally` drops what no thread has taken and leaves the other threads alone;
they go on after the end of the run, as in the code.

Two simplifications. When one branch gives up, it cancels asyncio futures the
other branch waits for; the `CancelledError` there ends that branch as the event
would, and the model says "aborted" for both. The several commits of one
step's store are one action, except those of step 8.

### JobQueue

Job `j` is the `j`-th by `created_at`; rows may become visible in any order. A
worker is idle, has polled a job, or runs one, and remembers the checkpoint at
which its run began and the stages it has begun and ended. `BeginStage` is the
checkpoint of a stage, which may start when every stage of the run before it
has ended (`Upstream`, derived from the order `ScanPipeline` models).
`BreakDown` is the death and restart of a worker, and equally an exception of a
session that no handler of the run catches: both leave the row as it is and the
worker polling. (`execute_pipeline_for_job` tries a run that ends in a RuntimeError
once more on the current event loop, but `asyncio.run` has left the thread without
one, and the handler raises in its turn.) `started` and `stranded` only record what has happened.

### Access

A request is served by a thread with a session of its own. `SetupCheck`,
`SetupTenant`, `SetupReadConfig` and `SetupCommit` are the stretches of the
first-launch setup between its statements; `LoginRead` and `LoginToken` the
password check and the issue of the token, which carries the `token_version` that
was read; `AdminEnters` is the dependency that admits an administrator, after
which one of the four checks prepares a new row and `UpdateWrite` commits the
columns that differ from the copy (`Merged`). A password is a number, and a
token remembers (as history) the password its session began with. `Solo` says
that administrative requests, and the setup, come one at a time; logins and
switches overlap with them in either case.

### EvidenceGraph, GraphViews

A session selects in one step and commits in another (`EntitySelect`,
`EntityCommit`; `RelationshipSelect`, `RelationshipCommit`), and may work on the
copy it loaded before, as the identity map of the mapper does. `Synthesize` is
the reader that finds findings and no entities. Each session contributes one
property and one piece of evidence. `raced` notes which identifiers two open
sessions have upserted: the code has no unique index, so that duplicates under
overlap are what it does, and the properties say that nothing else goes wrong.
The views are functions of a sequence of entities in the order of the query; of
an entity they keep what the lenses look at, and the caps are constants.

### The others

`SearchTiers`: SerpAPI has one field and Google's search two, each of which is
saved, masked, copied and sent on its own. A job copies the enabled fields of its
tenant over what the worker's environment holds, or none, if the database fails:
the exception is swallowed and the job runs with what it finds. `job` remembers
the enabled values and whether they could be read. Threads of a job search the
cache, two paid providers and the scraper, remember in `tried` whom they have
asked, and may outlive their job; `asked` is the request the last step made, by a
job, by a thread of an earlier one or by a test. `LoginLimiter`: check and record
are two steps of a login, and both prune the list. The clock counts fractions of
a second (`Second` of them), since the code computes with floats and announces
whole seconds: `RetryAfter` truncates what is left of the penalty and makes at
least one second of it. `SiteCrawler`: a page shows contacts, extractor after
extractor, each with the keys it is looked up by; `Recorded` goes down the
`elif` chain, so that a contact is recorded under the first of its keys that is
new, and only that key counts as seen from then on. `ThreatCaches`: a lookup reads clock and
cache in one step and stores the answer of the source, or its stand-in, in
another, so that lookups overlap; the value and its time are stored together,
between which the code has no other call. `AppAudit`: tasks under a semaphore
that may fail, in any order; then tasks that run the plugins one after the other
against the first host of a cluster. `PortScan`: what a port does on the wire is
one of seven answers; each probe of the code says which it takes for what.

## 3. Runs

| Run | Instance | Shows |
| --- | --- | --- |
| `pipeline_safety` | the full scan, ten stages; stage 5 may raise; swallowed database errors; one abort after the other | `UpstreamDone`, `CompleteMeansFinished`, `CompleteStoresAll`, `StoredIsTriaged`, `CompletedRowStable`, and the refinement of `TaskGraph` |
| `pipeline_liveness` | a direct IP, a list of two stages, people only; from the start and from two checkpoints; stages 4 and 6 may raise | `AbortNoticed`, `RunEnds` |
| `pipeline_cancelled` | the same scans from the start | `CancelledStaysCancelled` is violated |
| `pipeline_nuclei` | the same | `NucleiFindingsSurvive` is violated |
| `queue_workers` | two jobs, two workers, two stages, one break-down | `RunningHasOwner`, `StartsOnce` |
| `queue_alone` | two jobs, one worker, three parallel stages and the report, one break-down | `CompleteMeansStored`, `CompleteIsFinal`, `PendingIsTaken` |
| `queue_double_claim` | one job, two workers | `CompleteMeansStored` is violated |
| `queue_interrupted` | one job, one worker, one break-down | `RunningEnds` is violated |
| `access_solo` | two identifiers, two addresses, three organisations, two threads, two passwords; administrative requests one at a time | `AdminRemains`, `SessionsRevoked`, `EmailsUnique`, `SetupOnce` |
| `access_lockout` | the same, administrative requests overlap | `AdminRemains` is violated |
| `components` | see below | twenty properties of eleven parts |
| `silent_port` | four ports of each kind | `ConfirmedIsVerified` is violated |

`components` checks the parts that do not interact side by side: `input` chooses one
when a behaviour begins, and the others rest.

| Part | Instance | Properties |
| --- | --- | --- |
| graph | two stages and a reader, of which two come into play; two identifiers, three rows of each table, three upserts of a session | `DuplicatesOnlyByOverlap`, `PropertiesKept`, `EvidenceAccumulates` |
| views | the 8192 subsets of a pool of thirteen entities, caps of one; paths in the 1024 sets of ten relationships of five nodes, depths up to three | `PeopleAccountedFor`, `ViewsHangTogether`, `PathsAreShortest` |
| search | two tenants, three fields of two providers, one search thread, two saves, two jobs, reads of the integrations that fail or not | `OwnKeyWins`, `MaskNeverAKey`, `KeylessIsLast` |
| limiter | two clients, limit three; a window of three seconds, a penalty of two, in half seconds up to the fourth second | `BurstBounded`, `PromiseKept` |
| caches | two lookups, time to live two, time and editions up to three | `KevNeverGoesBack`, `EpssRecent` |
| audit | three hosts, two signatures, two plugins, two tasks at a time | `LiveHostsAudited` |
| crawl | sites of four pages, three pages at most, depth two; contacts with three keys or one, two of which share a key | `CrawlIsComplete` |
| ports | four ports, one of each kind, seven answers of each, nmap on any two, with versions or without; three open ports are many | `PortsAccountedFor` |
| findings | lists of three of all findings the other parts can make, two kept | `RiskInOrder` |
| versions | pairs of texts of up to three of five characters, with a third for transitivity | `VersionsAsDpkg`, `VerdictsFollowReleases` |
| people | three of the candidates with one of address and user name | `IdentitiesSound` |

These bounds let each case happen: three rows for a duplicate and one more, caps of
one for the list on either side, a window longer than the penalty by more than a
step, a page limit below the number of pages, three candidates for a link that
joins what two rules kept apart, half seconds for a wait that is rounded up, and
a contact on three pages for a record by each of its keys. Each property has a
mutation of the code's definition under which the same run finds a violation.
Tenants are interchangeable (`Interchangeable`): no definition names one of them.

Bounds. One run of one job has at most ten futures and two branches, so a
single scan is the whole of `ScanPipeline`, not a sample of it; what is bounded
are the scan requests, the steps that may raise (stage 5 is awaited by both
branches; 4 by one of them, at a gate with two futures; 6 at the end of a
branch), and the values a run starts from. The full scan has every race, and
the smaller ones put skipped stages at every position. In `JobQueue`, two jobs
are enough for one to overtake the other, two workers for a double claim, and
three parallel stages for a checkpoint to be written behind a later one. The
number of break-downs is bounded by `MaxFaults`, since a worker that always
breaks down ends nothing. Deadlock is not checked: a run stops when it has ended
and the queue when every job is over.

The six violations:

* *A cancelled job is scanned* (`pipeline_cancelled`). `StartRun` writes "running"
  over a cancellation that came after the poll. `tests/test_instant_abort.py`
  expects such a run to abort at once, and sees it do so because it replaces
  `update_scan_job`.
* *Findings of stage 6 are lost* (`pipeline_nuclei`). The README draws stage 7
  below stage 6; the code runs them side by side on one list, and step 7
  assigns an enriched copy of what the list was before.
* *A job is complete with results missing* (`queue_double_claim`). Two workers
  take one job, and the second begins at a checkpoint that says nothing of the
  stages before it. With one worker the property holds (`queue_alone`).
* *An interrupted job is running for ever* (`queue_interrupted`). The README says
  that interrupted scans resume; the poll only takes pending jobs. With
  `MaxFaults = 0` the property holds.
* *Everybody is locked out* (`access_lockout`). The rule for the only administrator
  counts in one statement and writes in another, and deactivation does not count:
  two administrators who take each other out at the same time leave nobody, while
  the setup stays closed. One at a time, an administrator remains (`access_solo`).
* *Silence is confirmed* (`silent_port`). A database port that closes the connection
  without a word is reported with a banner that says so, and the audit takes a
  long banner for a verified service.

Also seen, and left as it is in the models: overlapping setups can both create
their administrator, and overlapping creations two accounts of one address
(`SetupOnce` and `EmailsUnique` are checked with `Solo` only); nmap's record of a
port replaces the one of the probe, whose dangerous methods and anonymous access
are lost with it, and no command line runs the scripts the parser reads them from
(`PortsAccountedFor` excepts such ports); an old catalogue may return when lookups
overlap (`KevNeverGoesBack`); the version order is not dpkg's for parts that
begin or end with letters (`AsDpkg`); and a crawl may miss pages within its depth
when several hosts are seeded or pages are preferred (`CrawlIsComplete`).

What five properties leave open, because the code does:

* `OwnKeyWins` is about what could be read and was enabled. When the read of the
  integrations fails (`worker.py:1431`), and for a field that the tenant has not
  enabled, the worker sends what the job of another tenant has left.
* `MaskNeverAKey`: a tenant that has saved no value of a field is shown the mask of
  the process's key. If it posts that mask to the test, the test sends it to the
  provider, as only the tenant's own row resolves a mask (`api/routes.py:1309`).
  The number of Google's search engine is displayed as it is and is no secret to
  the model.
* `PromiseKept`: "Retry in N seconds" (`api/routes.py:354`) is computed from the
  penalty of 300 seconds, while five failures lock for the window of 600. The lock
  may last up to five minutes (and the second that is truncated) longer than was
  told. And at its very end, with less than a second to go, the code still says
  one second: a client is then admitted before the time it was told.
* `CrawlIsComplete`: no contact is lost and no key makes two records, but an entity
  of JSON-LD may be recorded up to three times, by its address on one page, by its
  number on the next and by its name on a third (`people/site_crawler.py:329`).
  What a contact carries beside its keys is not modelled.
* `VerdictsFollowReleases`: the verdict compares with one fixed revision for all
  releases of a distribution (`vuln/distro_matcher.py:423`), and follows the release
  only as far as that revision is on the right side of the release's own. In
  the repository's table it is on the wrong side twice: with 3ubuntu13.3 for all, focal's
  4ubuntu0.1 is cleared although focal has the fix from 4ubuntu0.11 on, and jammy's
  3ubuntu0.10 is reported although it is the fixed release of jammy (lines 233 to
  236).

Fairness. `LoopFairness`: the event loop gives every coroutine its turn, which
asyncio's scheduler does as long as no callback blocks for ever, and a poll of
the monitor succeeds in the end; it polls twice a second and swallows errors.
`ThreadFairness`, only an assumption of `RunEnds`: a step that was submitted
ends, since every sensor has a timeout and the pool has eight threads for at
most four steps that run at a time. `AbortNoticed` does not assume it. In
`JobQueue`, `FairSpec` says that a worker goes on as long as it has something to
do; nothing makes clients act, stages fail or workers break down.

## 4. Proofs

| Theorem | For all |
| --- | --- |
| `ScanPipelineProofs!TypeCorrect`: `Spec => []TypeOK` | sets of scans, start steps, failing steps, database faults |
| `ScanPipelineProofs!UpstreamDoneHolds`: `Spec => []UpstreamDone` | the same |
| `ScanPipelineProofs!CompleteMeansFinishedHolds`: `Spec => []CompleteMeansFinished` | the same |
| `ScanPipelineProofs!CompletedRowStableHolds`: `Spec => CompletedRowStable` | the same |
| `ScanPipelineProofs!GraphRefinedHolds`: `Spec => GraphRefined` | the same |
| `ScanPipelineProofs!CompleteStoresAllHolds`: `Spec => []CompleteStoresAll` | the same |
| `ScanPipelineProofs!StoredIsTriagedHolds`: `Spec => []StoredIsTriaged` | the same |
| `JobQueueProofs!TypeCorrect`: `Spec => []TypeOK` | numbers of jobs and break-downs, sets of workers and stages |
| `JobQueueProofs!StartsOnceHolds`: `Spec => []StartsOnce` | the same |
| `JobQueueProofs!RunningHasOwnerHolds`: `Spec => []RunningHasOwner` | the same |
| `JobQueueProofs!CompleteMeansStoredAlone`: `Spec => []CompleteMeansStored` | the same, with at most one worker |
| `JobQueueProofs!CompleteIsFinalAlone`: `Spec => CompleteIsFinal` | the same, with at most one worker |
| `AccessProofs!AccessTypeCorrect`: `AccessSpec => []AccessTypeOK` | identifiers, addresses, organisations, threads, passwords; overlapping or not |
| `AccessProofs!OneRoot`, `OneAddress`: `AccessSpec => []SetupOnce`, `AccessSpec => []EmailsUnique` | the same, under `Solo` |
| `AccessProofs!AdminAlwaysRemains`: `AccessSpec => []AdminRemains` | the same, under `Solo` |
| `AccessProofs!ResetEndsSessions`: `AccessSpec => []SessionsRevoked` | the same, under `Solo` |
| `EvidenceProofs!DuplicatesNeedOverlap`: `GraphSpec => []DuplicatesOnlyByOverlap` | stages, readers, identifiers; numbers of rows, upserts and sessions |
| `EvidenceProofs!MergedPropertiesStay`: `GraphSpec => []PropertiesKept` | the same |
| `EvidenceProofs!EvidenceIsAccumulated`: `GraphSpec => []EvidenceAccumulates` | the same |
| `LookupProofs!OwnKeyAlwaysWins`: `SearchSpec => []OwnKeyWins` | tenants, keys, search threads, numbers of saves and jobs |
| `LookupProofs!MaskIsNoKey`: `SearchSpec => []MaskNeverAKey` | the same |
| `LookupProofs!ScraperIsLast`: `SearchSpec => []KeylessIsLast` | the same |
| `LookupProofs!KevOnlyGrows`: `KevSpec => KevNeverGoesBack` | lookups, times to live, ages, editions |
| `LookupProofs!EpssNeverStale`: `EpssSpec => []EpssRecent` | the same |
| `AccessProofs!BurstsAreBounded`: `LimiterSpec => []BurstBounded` | finite sets of clients, limits, windows, penalties up to the window |
| `AccessProofs!PromisesAreKept`: `LimiterSpec => []PromiseKept` | the same |
| `SiteProofs!EveryLiveHostAudited`: `AuditSpec => []LiveHostsAudited` | hosts, signatures, plugins, limits of concurrency |
| `SiteProofs!CrawlsAreComplete`: a crawl of any of a set of sites has `[]CrawlIsComplete` | finite sites, limits of pages and depth |
| `AlgorithmProofs!ExposuresAlwaysReported`: `ExposuresReported`, hence `Spec => []PortsAccountedFor` | open ports, behaviours of each port, reports of nmap |
| `AlgorithmProofs!TriageAlwaysInOrder`: `InOrderOfRisk`, hence `Spec => []RiskInOrder` | lists of findings of any length, limits |
| `AlgorithmProofs!IdentitiesAlwaysSound`: `Sound`, hence `Spec => []IdentitiesSound` | lists of candidates of any length, organisations |
| `AlgorithmProofs!VersionsAlwaysOrdered`: `OrdersAll` and `FollowsRelease`, hence `Spec => []VerdictsFollowReleases` | texts of any length over the alphabet of `DistroMatcher` |
| `AlgorithmProofs!VersionsAlwaysAsDpkg`: `AsDpkg` of all texts, hence `Spec => []VersionsAsDpkg` | the same |
| `AlgorithmProofs!NobodyEverLost`: `AllAccountedFor`, hence `Spec => []PeopleAccountedFor` | entities, titles, positive limits of the lenses, graphs without repetition |
| `AlgorithmProofs!ViewsAlwaysHangTogether`: `HangsTogether`, hence `Spec => []ViewsHangTogether` | the same |
| `AlgorithmProofs!PathsAlwaysShortest`: `ShortestPath`, hence `Spec => []PathsAreShortest` | graphs without repetition, relationships between their entities, depths |

The assumptions are those on the constants, which TLC evaluates in every run:
`PipelineAssumption`, `JobQueueAssumption`, `AccessAssumption` (an organisation is the
default one, and `All` is none), `GraphAssumption` (a session is of a stage or of a
reader, never of both), `LimiterAssumption` (finitely many clients; the code's penalty
of 300 is not longer than its window of 600; a second has any number of ticks), `CacheAssumption`, `AuditAssumption`,
`TriageAssumption` (the limit is a number), `CrawlAssumption` (pages are numbered),
`ViewAssumption` (the caps of a lens are positive, as the literals of the code are) and, of
the instance, `PlacesAreEntities` (the places of a path are positions in the graph).
`CrawlsAreComplete` takes the sites as a parameter, since a constant of the module for
them would say less: the only hypothesis, `IsSite`, is that links lead to pages and
seeds are at depth 0 or 1, and `SitesAreSites` has TLC evaluate it for the sites of the
run.

*The graph.* `UpstreamDone` is not inductive: a step that is submitted may end,
but why is the next one submitted only after all of those before it? The
invariant `GraphInv` adds which steps have not been submitted yet for each place
of the main coroutine (`NotSubmitted`), and that a branch submits its probe when
it leaves its gate, so that a branch that is done has a probe that is done
(`ProbeFollowsBranch`). With these a barrier over tasks and branches says something
about futures, and the last future says everything about all ten
(`ReportIsLast`): this is `CompleteMeansFinished`. Steps of threads only move a
future forward (`AdvanceKeeps`); submissions touch idle futures only
(`LaunchKeeps`); so each action needs one of the two lemmas. When all futures
are done no thread, coroutine or branch can move: `CompletedRowStable`.

*The refinement.* `Progress` and `Outcome` are the task graph's view of the futures
and of the main coroutine. Every action of the pipeline is, in that view, a
start of ready tasks (`LaunchRefines`; that they are ready is `GraphInv` again), an
end of running ones or nothing at all (`EndRefines`), the stop (`StopRefines`) or
the completion (`CompleteRefines`).

*Starting once.* A job that some worker has started is no longer "none" or
"pending", and nothing takes it back (`StartedIsTaken`). A worker that has polled
a job saw it pending, hence has not started it before, and a worker that has
started it does not poll it again.

*Ownership.* `RunningHasOwner` is inductive beside the types: the row becomes
running only through a worker that runs it, and whatever ends a run writes
another status or strands the job. A second worker that ends the job ends the
status too.

*One worker.* With two workers `CompleteMeansStored` and `CompleteIsFinal` are false
(`queue_double_claim` shows the first). With at most one, stated as the hypothesis
`OneWorker`, the job a worker has polled is pending or has been cancelled, so
that its checkpoint is "init" or "aborted" and the run skips nothing
(`PolledAtInit`, `NothingSkipped`); what the run has ended is stored
(`RunFromInit`); and a job that is complete is nobody's job. The checkpoint is
thus never used by a correct run, which is the other side of
`queue_interrupted`.

*What a run stores.* `StoredInv` follows the data beside `GraphInv`: a step that
ended well and was not skipped has stored its results (`ResultsStored`), and a run
from the beginning skips only what its mode forbids, so that `CompleteMeansFinished`
makes `CompleteStoresAll` of it. For `StoredIsTriaged`, the context of such a run
holds whatever is stored (`StoredInContext`). Only step 7 takes anything out of the
context, what step 6 has put there meanwhile, and nothing of that is stored before
step 7 is done (`VulnsStoredLast`). Stage 9 begins after all of them (`UpstreamDone`
again), sees the context, and only the report is stored after it (`SeenByTriage`).

*Accounts.* The type invariant holds however requests overlap. For the other three,
`SoloInv` says that at most one thread is at an administrative request
(`OneAtATime`), that the tables are in order (`TablesOK`: one address one account, an
administrator once the system is set up, and for each token the password and version
with which its session began, unless the row has a later version by now), and what
each request carries (`RequestOK`): the copy of a row it has read may be older than
the row only in what a login writes, and a version that was read before still
belongs to the password of its time. `Solo` is needed for each of them. The
administrators and the addresses are the known cases (`access_lockout` shows
the first). `SessionsRevoked` needs it as well: two resets of one account that overlap
both read version *n* and both write *n* + 1, so that a login between their commits
has a token of the first password with the version of the second. Logins and
switches of workspace overlap in all of the proofs.

*Evidence.* `GraphInv` says for each session what it knows: the rows it holds are
rows, of the identifiers it has touched, and what it has selected has not changed
unless another session is at the same identifier (`KnowsRows`, `KnowsEdges`), in
which case the identifier is in `raced` (`OverlapIsRace`). Where it is not, a session
that has found no row inserts the only one. That claims are kept (`PropertiesKept`,
`EdgesKept`) is part of it, as a merge starts from what was selected.

*Keys and tiers.* The environment of the worker is not cleared after a job, so that
`OwnKeyWins` rests on `KeysInPlace`: for each field of which the running job's tenant
had an enabled value that could be read, the environment holds that value, as long
as the job runs. `MaskNeverAKey` holds because a save drops masks before it merges
(`CleanedTyped`), so that no row and no environment ever has one. `TiersInOrder`
says what a search has been through at each tier, for searches of the running job; those
that outlive their job see the environment of another.

*Caches.* `SourceInv` numbers the editions and bounds what a query that waits may bring
by the newest edition when it began and the newest now. `KevNeverGoesBack` then needs
that a query that is alone finds a cache no newer than that (`KevInv`); `EpssRecent`
that what the cache holds had not been replaced when it was put there (`EpssInv`).

*The limiter.* Two lists of failures, the one that is pruned and the complete one, agree
on the window (`LimiterInv`), so that checks count as if nothing were pruned. Each client
that has passed the check and not yet failed takes one place (`Room`). The first half
of the promise is an invariant over the future: at every time before the announced one but
for its last second, the failures that will still be valid are as many as the limit
(`LockLasts`). The second half looks back: unless a failure has come since, the announced
time was computed from the oldest of the failures that count (`ToldFromOldest`), and the
lock is over when that one leaves the window. That the list ends in the newest failures
(`KeptAreNewest`) is what both rest on. `Kept` is a recursive
function on a list. The induction it needs is done over the set of indices for
which a statement holds (`BoundedInduction` of `SharedFacts`), because the induction
theorems of the library take an operator; the same lemma carries the proofs about
the crawl and about the order of the stages.

*Sites.* For the audit, the hosts that have answered are those of the clusters,
each in one of them (`Grouped`); when all tasks have ended the clusters stay
(`Settled`); and a cluster that has come to plugin *n* has had those before it once
(`Counted`). For the crawl, a page that is linked from a visited one is visited or in the queue
(`Waiting`). Each key that a visited page shows is in a contact that was recorded
(`AllHeld`), since a contact is passed over only when all its keys are taken, and no key
makes two records (`KeysOnce`). That is not enough for the pages
in reach: a page might be visited first at too great a depth, and its links not be
followed. From one host without preferred pages the queue is in the order of depths
(`ByDepth`: never two depths apart, and each page that is due within a depth is
visited within it or waits within it), as breadth-first search has it; induction over
the depth then gives `Reach`.

*Ports.* Any probe that answers sees what the last in the order of the probes would
(`ProbeSees`), so that the order does not matter. What has proved its protocol is
kept by the filter, and the merge with nmap, which replaces the record, leaves a
banner that the audit takes for the same proof.

*Risk.* The sort is given by places: how many findings come before one. `Precedes` is a
strict order of the positions, so that places are a permutation (`PlaceOf` is injective
into as many places, hence onto them). The score comes from another table than the sort
key; it never rises along the order, so that the list is in the order of scores as
well, and what the limit cuts off scores no higher than what it keeps.

*Identities.* A recursive function goes through the candidates, and the invariant of
its steps (`PersonSound`) is that the signals of a person are exactly those of the
candidates in its evidence (`MadeOf`). A score at the threshold then takes an address, or two of
the weaker signals, that those candidates had, which is the tie the property asks
for (`ScoreTies`).

*Versions.* Chunks are numbers or have no digit (`ChunksArePieces`). Numbers are compared
by value among themselves and by characters with others, which is an order only
because the digits occupy an interval of the order of characters
(`OrderOfCharacters`): a chunk without digits is on the same side of all numbers. The first
difference of comparisons that agree at each place agrees as a whole
(`DifferencesAgree`), used once for the characters and once for the chunks, after the
shorter list is padded. Transitivity through the one fixed revision of a distribution is
`FollowsRelease`. That the order is dpkg's for parts that begin and end with a digit
needs that numbers and texts take turns (`ChunksInTurns`): the chunks are then dpkg's
blocks but for an empty text in front (`WellFormedBlocks`), and a text of the longer part
decides at the end of the shorter one (`DecidedThere`), before a number would be compared
with none, which is where the two orders part.

*Views.* A graph is a list without repetition (`IsGraph`), and so is whatever is selected
from one (`Selected`). The front and the back of such a list divide it (`FrontAndBack`),
hence the titles and the caps divide the people (`HierarchyDivides`); what remains to be seen
is that there is a roster whenever somebody is on it, because a lens with people
has somebody at its head. That a view hangs together needs a chain of at most three
edges to each node (`ChainsReach`); the chains lead over the first of a list, which
is shown because no cap is zero, the assumption `ViewAssumption` makes of `Cap` and the
literals of the code satisfy.

*Paths.* The invariant of the search (`Searching`) is that of breadth: each path in the queue
leads from the source to an entity no nearer path reaches (`EndsShort`), the queue is graded
by length and spans at most two of them (`Graded`), and of each entity that was seen the
neighbours are seen too, unless it is still awaited in the queue or as far away as the
limit allows (`AllSeen`). Hence whatever is nearer than the front of the queue has been
seen (`NearerIsSeen`), and a target met first on an edge from the front is met on
a shortest path. A turn removes a path, and no entity enters the queue twice, so
that `Len(Pool) + 1` turns empty it.

Two forms in the models are there for the proofs. What a comprehension of the code
selects is `Among`, a recursive function, since the provers know nothing of
`SelectSeq`; and sites are a parameter of the crawl.

Only model-checked: the liveness properties, which need fairness (`AbortNoticed`,
`RunEnds`, `PendingIsTaken`), and the six violations. What a run of texts of up to three
characters, or of graphs of five nodes, shows is proved of texts and graphs of any size,
over the alphabet and the kinds of entities that the models name.

## 5. Not modelled, and the plan

The sensors other than the port scan and the crawl, parsers, texts and the
frontend are I/O and formatting; their results enter the models as "what has been
written". In the modelled parts the following is left out: cryptography and the
expiry of tokens; the change of one's own profile; labels, properties and layout
of graph nodes; the names of nodes the lenses make up, but for the roster of the
staff; banner parsing and the trackers' files; the arithmetic of confidence; the
reading of names in crawled text; the fields `evidence_tier` and `status` that the triage
falls back on, in the order and in the score differently (`ai/triage.py` 194, 204), for
findings without a `finding_status`; prompts, and the repair of a language model's
JSON (a reply is one that can be read, or none). The scope gate is one decision
over rows that nothing else changes meanwhile; the sensor registry a dictionary
filled at import time.

What each search thread does is independent of the others but for the flag of an
exhausted provider and the cache; `SearchTiers` has a set of them, and its run one,
beside jobs and saves that come at any moment.

Left for later, in the order of importance:

1. Tenants in the queue, and the second commit of a completed run.
2. The scope gate and the ranking of addresses as operators.
