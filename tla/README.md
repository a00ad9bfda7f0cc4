# site-crawler in TLA+

Specifications of the parts of site-crawler in which several actors share
state: the frontier and its two backends, the run with its worker pool, run
controller and politeness controller, admission, fetching with its cache and
robots policies, the processing of responses with record files, evidence and
the shared browser, the run directory, and the coordination of local worker
processes; and, as operators compared with a reference, the functions that
decide what these parts do. The reference is the code under `src/src/` (paths
below are relative to it unless they start with `docs/` or `tests/`).

Contents: [the system](#the-system), [what is hard](#what-is-hard-here),
[modules](#modules), [how modules correspond to the
code](#correspondence-with-the-code), [runs](#runs), [fairness](#fairness),
[proofs](#proofs), [findings](#where-the-code-and-its-documents-disagree),
[what is not modelled](#not-modelled), [plan](#plan).

## The system

A **run** crawls from seeds: `CrawlerRuntime.run()` opens the result store and
the frontier, enqueues the seeds, lets a pool of workers lease requests until
nothing is left or something stops it, and finalizes: drains hooks, closes,
computes the status, writes the manifest, emits the terminal event.

| component | state it keeps | operations | correct when |
|---|---|---|---|
| frontier, SQLite backend (`frontier/backends/sqlite-*.ts`) | rows with state, lease id and expiry | enqueue, leaseNext, renewLease, release, mark..., init, recovery of lapsed leases | one holder per request; one terminal state; no ready origin is overlooked; abandoned work comes back |
| frontier, journal backend (`frontier/journal*.ts`, `lease-manager.ts`, `state.ts`, `recovery.ts`) | queue, deferred list and leases in memory; an append-only checksummed file | the same, each transition appended before it takes effect | a request is in exactly one place; file and memory agree; the file can be loaded again |
| run controller (`runtime/run-controller.ts`) | phase, stop detail, abort signal, counters | setStop from limits, cancellation, errors; refreshLimits; phases | reasons only get stronger; limits do not abort; phases move forward |
| worker pool (`crawler/worker-pool.ts`, `request-handler.ts`, `request-terminalizer.ts`, `lease-heartbeat.ts`) | per worker: lease, heartbeat, active request | lease, delay, handle, terminalize, renew, wait | every lease ends once; everything reserved is given back; all workers end |
| politeness (`politeness/index.ts`) | per origin: active count, next time, tokens | tryReserve, release, nextEligibleAt | reservations equal the leases held |
| finalization (`crawler/runtime/finalization.ts`, `crawler/finalizer.ts`) | the result, the manifest | drain, close, persist, terminal hook | the status tells what happened; manifest and result agree |
| worker coordinator (`workers/coordinator.ts`, `session.ts`) | worker table, origin permits, next allowed times | register, heartbeat, stop, recoverStale, acquire/renew/releaseOrigin | ownership is bounded; punctual workers keep their permits; permits are spaced |
| scheduler and scope (`crawler/request-scheduler.ts`, `url/scope-policy.ts`) | seed counts, scope reservations, counters | admit | bounds hold under concurrent admissions and across a resume |
| run lock (`frontier/run-lock.ts`) | the lock file, its heartbeat | acquire, release | one process uses a run directory, and a dead owner does not keep it |
| fetching (`crawler/retrying-fetcher.ts`, `http/`) | cache entries, spooled bodies, session file | attempt, redirect, revalidate, store, retry | a validator's body is the body served for it; bodies are disposed of; every request ends |
| robots (`robots/`, `crawler/robots-fetcher.ts`) | policy per origin | policyFor, isAllowed | loads are shared; precedence of rules |
| events (`events/index.ts`, `crawler/event-dispatcher.ts`) | bounded channels, hooks in flight | emit, subscribe, close, next | order is kept; the terminal event arrives |
| stores and evidence (`storage/`, `evidence/`) | batches, files, objects | write, flush, close, writeOnce | nothing accepted is lost or reordered; a record's body exists in full |
| resource processing (`resources/`, `html/`, `xml/`, `css/`, `javascript/`, `encoding/`, `classification/`) | what is left to write of a response | processFetchedResource and the processors | records are whole; every response is done with |
| rendering (`rendering/`) | permits, the shared browser server | render, deadline, close | no server is left that nobody closes; nobody waits for a page that never ends |
| resume and configuration (`config/`, `crawler/resume*.ts`, `replay/config.ts`) | manifest, saved configuration | resolve, fingerprint, redact, read | what is written can be read, and a resume is the same run |
| operations (`operations/`), queries, comparison, replay | abort request file; otherwise none | abort, monitor; readers of a run | an abort reaches a run; both stores tell the same |
| contracts, cli, telemetry, audits, worker messages | none shared between actors | parsing and wording | |

**Interaction.** Workers call the frontier, which consults the politeness
controller (`LeaseSelection.tryReserve`) inside `leaseNext`. A worker's
heartbeat renews its lease beside the handler. Handlers admit what they find
through the scheduler into the frontier. Everybody reports to the run
controller, whose abort signal reaches every await. Events go to the
dispatcher, whose hooks may fail and, in mode `fail-run`, stop the run.
Finalization waits for all of them. Handlers fetch through the robots policies
and the HTTP cache that all requests share, and process what they get through
one set of record files, one directory of objects and one browser. Separate
processes meet only in the coordination database, in the frontier's lock file
and in the abort file.

## What is hard here

Node.js runs one turn at a time, so what interleaves is turns: everything
between two awaits is atomic, and every await can be overtaken or reject.

* *Interleaving*: renewals against release and completion; hooks against
  finalization; several responses in flight when a limit is reached; SQLite
  calls of processes.
* *Failure of one step of several*: a journal append that tears or whose fsync
  fails; a batch of records that reached its file in part; a terminal call that
  throws after the frontier has marked the request; close and persist after the
  status was computed.
* *Files used by several*: a cache entry is a body and its metadata, a lock is
  read, judged, removed and created, an object is created and then written.
* *Crash and resume*: leases of dead processes, a file cut off in a line.
* *Time*: leases and permits that lapse while their holder is busy; locks that
  grow stale; policies that expire while they are awaited; renders that go on
  after their deadline; delays and rate limits.
* *Ending*: workers decide on their own that there is nothing left.

PROJECT.json lists each of these hazards at its line, with the property that
covers it or the reason why none does yet.

## Modules

| module | what it is |
|---|---|
| `FrontierContract` | abstract: what any backend promises (accept, lease, lapse, give back, complete, forget) |
| `SqliteFrontier` | the SQLite backend with clock, crash and resume; implements the contract |
| `JournalFrontier` | the journal backend with its mutexes, drain loop, torn and failed writes, crash, load and recovery; implements the contract |
| `RunController` | operators for the methods of the controller, and its invariant behaviour `StopEscalates` |
| `WorkerPool` | EXTENDS `RunController`: workers, heartbeats, politeness reservations |
| `CrawlRun` | EXTENDS `WorkerPool`: `run()` and `finalize()` around the pool, abort, event hooks |
| `Admission` | the scheduler, scope reservations, sitemap budgets, bootstrap and resume; documents whose links become requests |
| `WorkerCoordinator` | processes that share `coordination.sqlite` |
| `Fetching` | a request from its lease to its response: policies, shared robots policies, redirects, cache, retries, disposal of bodies |
| `RobotsRules`, `UrlScope` | pure: groups, precedence and matching of robots.txt; normalization and the scope decision |
| `RecordStore` | the batched record files and the content-addressed objects |
| `Rendering` | the Playwright adapter: semaphore, mutex, browser server, deadlines |
| `Processing` | EXTENDS `RecordStore`, `Rendering`: responses that are processed at the same time, and the end of the run |
| `Documents`, `SavedEvidence` | pure: classification, decoding, headers; reading back, bundles, replay |
| `RunDirectory` | processes that open one run directory: lock file, heartbeats, abort request |
| `StoredRun` | pure: what the two stores keep, queries, comparison, export |
| `RunIdentity` | pure: configuration, fingerprints, manifest, and what a resume accepts |
| `EventStream` | pure: hub and bounded channels |
| `Discovery` | pure: the stylesheet scanner and sitemap entries |
| `MC*` | values of the constants for TLC |
| `SqliteFrontierProofs`, `JournalFrontierProofs`, `CrawlRunProofs`, `AdmissionProofs`, `FetchingProofs`, `ProcessingProofs`, `RunDirectoryProofs`, `WorkerCoordinatorProofs` | theorems about the module of the same name; the two of the backends also about `FrontierContract` |

Definitions whose comment begins with "Mutant" or "Fault" are not used by any
specification. Each is the code with one plausible slip (a reset forgotten, a
comparison off by one) and shows that some property would notice it.

The pure modules have no behaviour: their laws are assumptions of the MC modules
(`MCAdmission`, `MCCrawlRun`, `MCFetching`, `MCProcessing`, `MCRunDirectory`), which TLC
evaluates over all small inputs before it explores the run.

## Correspondence with the code

PROJECT.json's `map` gives the lines of every definition. The conventions:

* An action is a turn: what the code does between two awaits. A backend or
  coordinator call of the SQLite modules is synchronous and so one action.
* Calls that throw and roll back change nothing and are left out, except where
  the caller does something about it.
* Names are those of the code where TLA+ allows (`setStop`, `refreshLimits`,
  `readyCandidates`, `statusForRun`, ...).

**SqliteFrontier.** `row` is the table `frontier_requests`, `lease[c]` the
`RequestLease` object of a worker. A lease id is a hash of request and
millisecond, so the millisecond stands for it. `LeaseNext` recovers lapsed
leases and claims in one transaction, as the code does, from the candidates of
`readyCandidates()`: the first request of each origin in the configured order.
`Renew` checks owner and id but not the expiry. `available_at` is left out
because under a clock that does not run backwards it never delays anything.

**JournalFrontier.** Calls wait at `transitions` (the `transitionMutex`, FIFO);
`pending` holds records handed to `append()`, `landed` how much of the first one
is in the file. A write first lands and later resolves, or tears, or is refused
after it landed. `lines` and `tail` are the file; `Parsed`, `ValidJournal` and
`LeaseEnd` are `parseRecords`, `validateJournal` and `recoverFrontier`. The
checksum chain is abstracted by the sequence number, which changes in the same
assignments. Which queued request is taken (`queue-order.ts`) is left open.
The two history variables say that a line was spliced after a fault and that a
lease was inherited from a dead process.

**RunController, WorkerPool, CrawlRun.** `ctl` has phase, stop detail and abort
signal. The nine limits are one soft and one hard one, plus the run time.
`work[w]` says at which await worker `w` is and what it will do then: `terminal`
and `throws` record which of the nested catch blocks of `handle()` and
`processLease()` an exception will pass. An await may reject (`Fault`), an
extension may throw (`ExtensionFault`, `HookFault`), each within a bound.
`heartbeat[w]` distinguishes a renewal that was asked for before the terminal
call (and is served first) from one asked for during it (and is refused). The
delays and rate limits of an origin are one bit, `ready`. `stage` is the await
`run()` or `finalize()` is at. `result` and `manifest` are each a status with a stop
detail: the result is made once (`status()`), the manifest takes its status and the
controller's stop detail of the moment it is written. `since` is history: what
happened after the result was made (an abort, a failed hook, a failed write). A
hook may fail in any stage, because `abort()` emits its event in any stage. In-process leases do not expire here: the journal
backend never looks at the expiry of an active lease, and expiry of SQLite
leases is `SqliteFrontier`'s subject.

**Admission.** `known` is the frontier as a set of accepted calls of `enqueue`, with
the source (as `file`), the seed and the sitemap ancestry a request keeps.
`holder` and `waiting` are `admissionMutex`; `caller[c]` is one call chain: a
document with the calls it has still to make, or the bootstrap (`Main`).
`Decides` is `admit()` up to its first await; `Accept`, `Discovered` and `Written`
are what follows its next ones, so that a failed call (`CallFails`) leaves behind
what the code does: a request that is not counted, or one that is counted and
not reserved. `Applied` cuts a sitemap off at the rest of the entry budget and
`RecordEntry` counts entries later, one by one. The scope decision, the
directory and the pattern of a URL are constants, `maxDepth` and `maxQueueSize`
are the frontier's free choice for some requests (`Refusable`), and all limits
that the controller is told of here are soft, so that telling it changes nothing.
`manifest` has the counters as of the last `store.init()` or finalization.

**Fetching.** `request[r]` is where the retry loop of `RetryingFetcher` is, `ask[r]` the
lookup of a robots policy that a request loads or waits for, and `frame[r][k]` the
fetch of the request itself (`"main"`) or of the robots.txt it needs (`"robots"`), each
of them at an await of `HttpFetcher.fetch` or `HttpCache`. `policy[o]` is the promise in
`RobotsService.cache`: absent, loading by somebody, ready, or rejected for good.
`meta[u]` and `body[u]` are the two files of a cache entry, written one after the
other (`StoreBody`, `StoreMetadata`); a resource is its version, which is its validator
and its body. `spooled[r][k]` says that a response body is held. A shared load that
throws takes everyone who waits for it along (`Throws`). A robots.txt whose body is missing
(`"empty"`) is a failed fetch, as in `robots-fetcher.ts`. History: `overlapped` names the
URLs whose entry two requests had in hand at once or that a failed write left
half written, `served` the last body that was served after a 304. Scope and
robots decisions are constants whose values `MCFetching` shows to be those of
`UrlScope` and `RobotsRules`.

**RecordStore, Rendering, Processing.** `buffer`, `flushing` and `waiters` of a file are
the fields of its `JsonLineSink`; `lines` is the file, in which a failed write leaves
a prefix of its batch and perhaps a `Torn` line. All waiters of one flush go on in
the same step, in order, because their continuations run before anything else.
`object[x]` is a file created with `wx`: none, partial, whole. `op[r]` is the operation
behind the deadline of a render, which `TimesOut` does not end. `queue` is the mutex of
`BrowserProvider`, `browser` its server (0: none), `alive` the server processes and
`connected` those with a connection. A close takes the state behind the mutex
(`TakeState`) and ends the server outside it (`ServerEnds`, or `ServerStays` if it can
neither be closed nor killed), beside servers that are launched meanwhile: `closing` are
the servers of the closes nobody waits for (`void this.browser.close()`), `awaited` that
of the renderer's own close. A connection may break while its server lives
(`ConnectionBreaks`); the next render then launches another, which overwrites the first.
`lost` is history: servers whose connection broke or that were not killed. `todo[r]` is what is left to do for a response: it
is a sequence because the processors branch only where a call throws, a
middleware takes the response over, preparation fails or a page is rendered.

**RunDirectory.** `lock` is the lock file with whom it names, whether it is still empty,
and whether its heartbeat is fresh; `pc[p]` the file operation `RunLock` is at; `beat`
the heartbeats that have read the file and not yet replaced it; `using` the
processes whose frontier is open. A process that is refused ends with its monitor
(`Refused`). `slipped` is history: one of the five windows
named over `ExclusiveButWindows` was passed.

**Pure modules.** A header is a sequence of tokens, a stylesheet of lexemes, a path of
segments, a digest stands for its bytes and a configuration keeps the fields that
the readers tell apart. A reader that may throw returns a set, which is empty then.

**WorkerCoordinator.** `expiresAt[p]` is the row of permit `p` (0: none), `p`
being what the id hashes: origin, worker, millisecond. `held[p]` is the expiry
in the `OriginPermit` object its worker still has. `AcquireOrigin` deletes what
has lapsed and then counts, as the transaction does; `RefuseOrigin` is the same
call returning null, which also commits the deletion. A dead worker keeps its
rows and loses its objects; a new process may register under its id. `stop()`
deletes the rows and leaves the objects with the caller. Three variables are
history: `taken` has the last two times at which a permit of an origin was
taken, whatever became of these permits; `forfeit` are permits whose worker was
stopped, or late with a heartbeat, while it held them; `silent` are workers
whose heartbeat was older than `staleAfterMs` at some time since they
registered. Nothing in the repository calls `recoverStale()`; here anybody does
at any time. The environment may call `acquireOrigin` for a stopped or stale
worker, since the code does not look at the status.

## Runs

Deadlock is checked where the clock bound is a stutter under fairness
(`sqlite_frontier`, `worker_coordinator`); it is off for the journal (its calls
stop at `MaxRecords`) and for runs of the crawler, which end.

| run | instance | checks |
|---|---|---|
| `sqlite_frontier` | 3 requests of 2 origins, 2 workers, lease 1, queue of 2, clock to 3, one crash | `SingleHolder`, `NoReadyOriginOverlooked`, `AbandonedWorkRecovered`, `ImplementsContract` |
| `journal_frontier` | 2 requests, 2 workers, queue of 1, 5 records, clock to 2, one crash, one failed write | `OnePlace`, `JournalMatchesMemory`, `JournalValid`, `ImplementsContract`, `CallsReturn` |
| `journal_resume` | 1 request, 1 worker, 2 crashes, no faults | violates `AlwaysResumable` |
| `crawl_run` | 2 workers, 3 requests of 1 origin, 2 admitted, limit 2, mode `fail-request`, one fault of each kind, one renewal, abort and time limit anywhere | `ReservationsBalanced`, `FrontierDrained`, `OutcomeTold`, `StopEscalates` |
| `crawl_limits` | 2 workers, 3 requests of 2 origins, one request per origin, limit 1, robots delays, mode `fail-request`, two faults and one of an extension | `WorkKept`, `RunEnds` |
| `crawl_cancel` | 2 workers, 2 requests, robots delays | violates `CancellationIsNotFatal` |
| `admission` | 6 requests of 2 seeds: a page, a sitemap index that lists itself and another sitemap, a sitemap; 2 workers, 4 requests, 2 files and 2 entries allowed, 2 requests per directory, 3 per seed; one hook call, one failure, one resume | `AccountingExact`, `LimitsKept`, `RunEnds`; laws of `RunIdentity` and `Discovery` |
| `worker_coordinator` | 2 workers, 1 origin of 2 permits, lease 2, delay 1, stale after 1, clock to 4; any number of deaths and restarts | `OwnershipBounded`, `PermitHonoured`, `PermitsSpaced`, `DeadWorkersLetGo` |
| `fetching` | 2 requests, a redirecting seed and its target, robots.txt behind a redirect; 3 versions, 1 change, 2 troubles, 1 retry, 1 redirect | `RevalidatedBody`, `BodiesReleased`, `FirstLoadShared`, `FetchEnds`; laws of `RobotsRules` and `UrlScope` |
| `processing` | two rendering pages with a flush every 2, or a page with links and a sitemap with a flush every 2, or a sitemap, a script and a malformed archive with a flush every 1; pages, script and archive of one content; 1 permit, 1 failure | `RecordsKept`, `ServersClosed`, `ProcessingEnds`; laws of `Documents` and `SavedEvidence` |
| `evidence_race` | the same without failures | violates `EvidenceShared` |
| `run_directory` | 3 processes, two of them on one machine; one death or suspension, an abort request at any time | `ExclusiveButWindows`, `DirectoryFreed`, `AbortHeard`; laws of `StoredRun` |

Each passing run also checks its module's type invariant (`crawl_limits` shares
that of `crawl_run`).

*Why the bounds suffice.* Two workers are the fewest that race for a lease, a
limit or the end of the loop. Three requests of two origins give one origin a
second request to hide behind its first. A lease of one tick in a clock of three
lets a lease lapse, be revived late or be taken over, and lapse again. In the
journal, five records are an enqueue, a lease, and renewals, releases or a
completion around the failed one; one failure and one crash put each at every
point of that. In the crawler, one fault of each kind meets every await; two
faults (`crawl_limits`) are what it takes to strand a lease, since the first one
is caught. In the scheduler, every
limit is below what the site offers, so that each of them decides something, and
one resume is enough to restore counts that are at their limit. In fetching, two
requests meet at one cache entry and at one robots policy; `MaxTroubles` 2 is an
expired policy whose reload fails, or a failed store and a crash after it;
`MaxChanges` 1 with `MaxVersion` 3 lets a page change between a body and its
validator. In processing, two pages share one render permit, one browser and
one content, and the failure meets each file operation, launch, connection, kill and
server. In the run directory, a third process is what it takes to remove a lock other
than the one that was judged. In the coordinator, a permit taken at 1 lapses at 3, when a third one
can be taken and the first revived.

*What the properties say* is in the comment over each of them. The ones that
carry most: `ImplementsContract` (twice) ties expiry, crash recovery, torn
writes and races of two implementations to the same ten-line promise;
`ReservationsBalanced` follows every path of nested catch and finally blocks to
the one release of its origin; `FrontierDrained` says the independent decisions
of workers to leave are never premature; `OwnershipBounded` relates what
processes believe to a bound that the database counts in another way;
`RevalidatedBody` relates a validator sent in one request to a body another may have
written; `BodiesReleased` follows every way out of two nested loops; `RecordsKept`
relates what callers were told to what is in the files after failures in part;
`ServersClosed` says that no server is left but those that a close nobody waits for is
still ending, and those that were lost, although launches outlive the render that
asked for them;
`ExclusiveButWindows` enumerates every way in which two processes get at one run.
`OutcomeTold` compares the result with the controller, and the manifest with the result,
its stop detail included; what it lets pass is an abort or a failed hook *after* the
result was made, both of which can be seen from outside (see
[below](#where-the-code-and-its-documents-disagree)). `OutcomeTold`, `WorkKept`, `LimitsKept` and `RecordsKept` are conjunctions of named parts, each
with its own comment.

## Fairness

* `SqliteFrontier`: the clock ticks; a run that died is resumed (by an operator); while
  anything is outstanding some worker goes on asking (`leaseNext` is what `workerLoop`
  polls); and a worker that holds a lease comes to the end of its request, because of
  the request timeouts, so that it releases or completes it or is told that it no
  longer holds it (`Release`, `Finish`, `RejectStale`). Nobody has to renew. Nothing is
  owed by a worker that died: its lease comes back because it lapses.
* `JournalFrontier`: mutex continuations run and writes complete or fail. That is
  Node's event loop and the operating system.
* `CrawlRun`: the event loop runs what is ready; calls of transport, store and
  extensions return or reject (each has a timeout in the code or the caller's
  promise); an origin's delay passes. Nothing is assumed about `maxRunTimeMs`, an
  abort or faults, so `RunEnds` is not owed to them.
* `Admission`: calls of store, frontier and hooks return or reject, workers lease
  what is there, and a process with nothing left to do finalizes. Nobody has to
  stop, crash or resume. The mutex is FIFO by construction of `AsyncMutex`, so weak
  fairness of each caller is enough.
* `Fetching`: steps of a request happen: every call has a timeout, and delays and file
  operations come back. Changes of the site, expiry, abort and crash need not.
* `Processing`: the program's own calls return and deadlines fire. What a page does
  (`PageFinishes`) is not fair: only its deadline ends it. No failure is owed.
* `RunDirectory`: calls of living processes return, timers fire and time passes. A run
  need not end unless it is aborted, and nobody has to die.
* `WorkerCoordinator`: the clock ticks, and while there are registered live
  workers some of them ask for an origin. Nobody has to renew, release, beat or
  call `recoverStale()`.

## Proofs

The theorems hold for every value of the constants, under each module's named
ASSUME: what configuration validation guarantees (positive durations and limits,
at least one seed and one worker) and that sets are finite where elements are
counted. The bounds of the runs (`MaxTime`, `MaxFaults`, `MaxResumes`, `MaxRecords`, ...)
are constants like the others, so the theorems hold for any bound. Each proof
rests on an inductive invariant that TLC checked before it was proved.

* `SqliteFrontierProofs`: `TypeCorrect` and `SingleHolderHolds`. `SingleHolder` is not
  inductive: lease ids are milliseconds, so the proof needs that a row in
  progress was leased at a time up to now and ends at least a lease duration
  after it (`RowsCoherent`) and that workers' leases are not from the future
  (`LeasesCoherent`). Then a lease recovered at `now` is older than `now`, and
  the id that replaces it is new. `NoReadyOriginOverlookedHolds` is about the candidate
  query: each origin with pending work has one first row in the configured order
  (a total one, because rowids differ: `RowidsApart`), so that the candidates are as
  many as these origins and none is cut off by the limit. `Refinement`,
  `Spec => ImplementsContract`: initial states map to initial states and each action
  to a contract action or a stutter, with one lemma per action. The contract has theorems
  of its own here: `ContractSingleOwner` (no request has two holders, and what is held is
  in progress) and `ContractLifecycle` (accepted stays accepted, terminal stays terminal).
  With the refinement they hold of this backend: `SingleOwnerHolds`, `LifecycleHolds`.
* `JournalFrontierProofs`: `TypeCorrect` and `OnePlaceHolds` need no assumption about the
  file. `OnePlace` is not inductive because a call checks the memory, waits for its
  record to be written and changes the memory afterwards: `MemoryInv` says that the
  record on its way is that of the call at the head of the mutex and that the lease
  it was checked against is still the active one, or else that it is a renewal
  (`OnlyRenewalsRejected`: a renewal is the only transition that can be found invalid
  once its record is written). `JournalMatchesMemoryHolds` and `JournalValidHolds` add what
  the file tells of the memory (`FileCoherent`, `LogCoherent`): it is ahead of it by the one
  record that has landed, and its last word on each lease is the memory's. `Refinement`,
  `Spec => ImplementsContract`, covers torn and refused writes, crashes, and the recovery
  that a load performs, as long as the file is undamaged (`damaged`), and so do the
  contract's promises here (`LifecycleHolds`, and of `SingleOwnerHolds` the part that
  what is held is leased in the file). That no request is in the hands of two workers
  (the other part) holds whatever happens to the file.
* `CrawlRunProofs`: `TypeCorrect`, `StopEscalatesHolds` and, from an invariant that says what a
  worker holds at each of its awaits (`WorkCoherent`), that no two work on one request
  (`JobsUnique`) and which phases go with which stage of the run (`Staged`),
  `ReservationsBalancedHolds`: counting workers gives the reservations. What a run says
  when it ends is not determined by the state it ends in, so the second half
  carries it along: each lease has its worker until one failed (`RequestsOwned`), the
  last worker to leave saw an empty frontier (`PendingServed`), responses counted and not
  handled are with workers (`HandledCounted`), unless some worker has an error with it
  that will make the run fatal. That gives `FrontierDrainedHolds`, `WorkKeptHolds` and
  `OutcomeTold` (`OutcomeToldHolds`).
* `AdmissionProofs`: `TypeCorrect`, `AccountingExactHolds` and `LimitsKeptHolds`. The mutex is the
  argument: whoever is past `Admit` is the holder (`CallersCoherent`), and what it decided
  by is still true when the frontier accepts, because nobody else changes what it
  read (`ReservationCurrent`). So the counts lag behind the frontier by the holder's
  one admission, and by one for each call that failed (`CountsMatch`). For the limits per
  process, what it accepted is what it counted and at most one more (`CapInv`), a
  resume adding the limit once. The entry budget is not under the mutex: there each
  worker's remaining entries are counted as pairs of worker and entry (`EntriesTaken`,
  `BudgetInv`), of which a worker that takes a document up leaves free as many as were
  counted already.
* `FetchingProofs`: `TypeCorrect`, `BodiesReleasedHolds`, `FirstLoadSharedHolds` and
  `RevalidatedBodyHolds`. A request does one thing at a time: it asks for a policy, or
  loads one, or fetches, or rests between attempts, and where it is tells which of its
  two fetches may hold a body and what is known of the result (`Coherent`). Exceptions
  end in one lemma (`ThrowsInv`). Loads: whoever loads a policy that nobody had is the
  one the cache points to, and while it loads nobody reloads it (`LoadsCoherent`), because
  `cache.get()` and `cache.set()` are in one turn. Cache: for each URL outside
  `overlapped` a body is that of its metadata, or of the metadata its only writer is about
  to write, and what a conditional request was made from is still there
  (`EntryCoherent`).
* `ProcessingProofs`: `TypeCorrect`, `RecordsKeptHolds` and `ServersClosedHolds`, from one
  invariant in four parts. *Files* (`Sinks`): a file that failed holds prefixes of batches
  that were written again and parts of lines, and which copies it holds says nothing of
  their order. So the invariant says that its lines can be read as copies of accepted
  records (`ReadAs`) such that the batch to be written next and the buffer are the records
  from `done + 1` on, nothing done with stands behind a copy of what is not, and whatever
  stands behind a later record stands there once more. Writing a batch extends the reading
  by it, a failed write by a prefix of it and perhaps a torn line; neither moves `done`
  back. `SinksComplete` follows from it: the last copies are in order. *Evidence* (`TodoInv`):
  each record of a body follows the call that stores it (`Ordered`), and when it is next
  the object is whole or that call goes on or has thrown (`EvidenceNext`). *Servers*
  (`RenderInv`): several may run, but of those that nobody is closing and that were not
  lost (`Kept`) there is at most one: the last one launched, while it is launched, at the
  head of the mutex, and otherwise the one that is shared and connected (`Starts`). *The
  end* (`EndInv`): once every response is done with, the renderer's own close is the last
  in the mutex and is waited for (`Quiet`), so what a late launch starts is closed behind
  it; sinks close together and with nothing left to write (`AtRest`). The proof assumes what configuration guarantees (`flushEvery`, `MaxConcurrency`
  at least 1), finitely many responses, and that contents and numbers of links have the
  types their constants say.
* `RunDirectoryProofs`: `TypeCorrect` and `ExclusiveButWindowsHolds`. Nothing ties an open frontier
  to the lock file but the order of calls, so the invariant says that, as long as
  nothing went through a window, the lock is that of whoever fills it in or runs
  (`LockKept`), and that a fresh lock judged inactive is that of a dead process
  (`JudgedDead`), which is why it may be removed by name.
* `WorkerCoordinatorProofs`: `OwnershipBoundedHolds`, `PermitHonouredHolds`,
  `PermitsSpacedHolds`, `TypeCorrect`. `OwnershipBounded` is about beliefs and
  `acquireOrigin` counts rows, so the invariant has a bound on *all* rows, lapsed
  ones included (`RowsBounded`: a renewal may revive them), and `PermitHonoured`
  ties each punctual belief to its row. That needs `SilenceKnown` (whoever
  `recoverStale` may disown was silent) and `SessionsCoherent` (a worker that
  starts again holds nothing from before). `PermitsSpaced` is about every permit that
  was ever taken: it needs that `next_allowed_at` outlives permits, their release and
  their recovery (`DelaysRemembered`).

*Only model-checked*: liveness (`AbandonedWorkRecovered`, `CallsReturn`, `RunEnds`,
`DeadWorkersLetGo`, `FetchEnds`, `ProcessingEnds`, `DirectoryFreed`, `AbortHeard`), which needs
ENABLED, and the laws of the pure modules. Every invariant and every action property
of a passing run is proved. The prover does not handle liveness under fairness, ENABLED, or induction
over data (what a recursive function computes for every input).

## Where the code and its documents disagree

* **A journal can be resumed once** (`journal_resume`). Recovery writes no record
  for a lease it takes over. The next lease of that request is a second `leased`
  without a `released`, which `applyTransition` (`frontier/journal-validation.ts:67`)
  rejects, so the next resume throws. `docs/storage-and-operations.md:24` promises
  that resume recovers expired leases.
* **Cancellation during a robots delay fails the run** (`crawl_cancel`). The delay
  rejects, the lease is cancelled, and then `failFromUnknown` makes the run fatal
  (`crawler/worker-pool.ts:82`); the documents call this graceful cancellation.
* **Two requests that store one content at once** (`evidence_race`): the second writer
  finds the file while the first is still writing it and calls it corrupt
  (`evidence/content-addressed-store.ts:105`), which fails its request.
  `tests/evidence.test.mjs:15` calls evidence "immutable and deduplicated".

What follows was met while modelling. The models behave this way, and no run is
spent on it; where a document says otherwise, it is named.

*The run.* In mode `fail-request` an `onRequestFailed` hook that throws inside the
terminal call is rethrown past the handler and fails the run
(`crawler/request-handler.ts:123`; `docs/crawling.md:68` says it fails the request). A
`storage-flushed` hook that throws in mode `fail-run` stops the run as fatal after its
result was made, which keeps its status (`crawler/runtime/finalization.ts:37`;
`docs/crawling.md:69` says "stop the crawl with a fatal extension error"). An `abort()` between
the result and the write of the manifest gives a manifest with the result's status and
the abort's stop detail (`crawler/finalizer.ts:65`), while `run-finished` has the old one;
`tests/lifecycle.test.mjs:57` and `:58` compare both. A renewal that comes due while the last
state of its request is being written is refused, and the refusal stops the run as fatal
although nothing failed (`crawler/lease-heartbeat.ts:52`; `docs/crawling.md:99` says of a run
that only skips URLs by policy that it "remains `completed`"). TLC reaches each of
the three within the bounds of `crawl_run`, the first one in mode `fail-run`. After a crash
`requestsScheduled` restarts from the manifest written at the start, so a resume admits `maxScheduledRequests` once more
(`crawler/runtime/identity.ts:54`; `docs/configuration.md:42`); `LimitsKept` states the bound that
does hold. Sitemaps that are processed at the same time may together exceed
`maxTotalEntries`; a process that dies during its bootstrap is resumed without the
rest of its seeds.

*Resume.* The exact policy, which is the default, refuses every resume: the
configuration it compares contains `storage.resumeFrom` (`README.md:117`,
`docs/storage-and-operations.md:21`; the test at `tests/persistence-resume.test.mjs:140` is of
the refusal). The `resume` command works for the operational policy, without
secrets (they are redacted), options of single seeds (only their URLs are read
back) and a renderer. The manifest of a run that stopped as fatal, or by
`max-sitemap-index-depth`, is not read again. Rendered pages are counted from 0 again.
The first seed of an origin hides the options of the later ones.

*Fetching.* A request that is cancelled after its response arrived keeps its spooled
body (`crawler/request-handler.ts:78`; `docs/configuration.md:67` says spooled bodies are
removed): the exception in `BodiesReleased`. Two requests that store one URL at once
may mix a body and another's metadata (the exception in `RevalidatedBody`).

*Stores.* A batch that failed in part is written again, and what follows a torn line
shares it. Callers whose records another's flush has taken return before these
are on disk. SQLite keeps the first resource or page of a request, the NDJSON
snapshot the last.

*Run directory.* The five windows over `ExclusiveButWindows` contradict "run directory
ownership is exclusive" (`tests/frontier-concurrency.test.mjs:150`) when a process is late,
suspended, or comes in the middle of another's acquisition. `store.init()` and the
finalization of a process that was refused write into a directory another one
owns; its monitor may take the other's abort request; the lock is released while
the backend closes and before the last records are written.

*Evidence, documents, events.* A quoted `Link` title that contains `;rel=` is taken for the
relation. A bundle from which a member was dropped together with its listing
verifies. Objects that are symbolic links are left out silently. `image/svg+xml` is
classified as XML. Replay reports rendered pages as changed unless the header said
UTF-8, sitemaps cut by the limit of the whole run as changed, and XML that was not decodable as failed
(`docs/crawling.md:30`). A `for await` over events that breaks does not close its channel. Sitemap
entries of other origins or directories are warned of and crawled like any other.

## Not modelled

Of the modelled parts: the arithmetic of politeness (delays, auto-throttle,
token buckets) is one bit; counters and statistics are those that limits and
resumes use; the transfer of a response (timeouts, decompression, size limits) is
an outcome; power-loss behaviour of SQLite is SQLite's. Clocks that run backwards are left out. Syntax within a token (percent-encoding, host names, character
references, dates down to their digits) belongs to the parsers.

Not modelled at all:

* the collection of links and facts from HTML trees (`html/`) and script syntax
  trees (`javascript/`): walks over trees that libraries parse, one record per
  element, with no state between them;
* validation of single fields, record contracts and schemas (`config/input/`,
  `contracts/`, `schemas/`, `requests/parse.ts`), argument parsing and the wording of the command line;
* `workers/protocol.ts`: parsing of messages that nothing in the repository sends;
* audits and diagnostics (`security/`), telemetry (`opentelemetry/`): observers;
* compaction: one SQLite `VACUUM`; the memory store: arrays.

## Plan

What was planned is done: the safety invariants, the action properties and the
refinements of every state machine are proved, and its liveness is checked. What could
follow:

1. the arithmetic of politeness (delays, auto-throttle, token buckets) in place of the bit
   `ready`, with the spacing of the requests of an origin as its property;
2. `events/index.ts` as part of `CrawlRun` (today a pure module), so that the delivery of the
   terminal event to a slow subscriber becomes a property of runs.
