------------------------------ MODULE RunIdentity ------------------------------
(***************************************************************************)
(* What makes two processes work on the same run: the resolved             *)
(* configuration and its two fingerprints (config/), the configuration a   *)
(* run directory keeps (storage/redact-config.ts), the manifest with its   *)
(* statistics (crawler/run-records.ts), how they are read again            *)
(* (crawler/resume*.ts, replay/config.ts, operations/resume-config.ts) and *)
(* the identity a resuming process takes from them                         *)
(* (crawler/runtime/identity.ts).                                          *)
(*                                                                         *)
(* A configuration keeps, of every section, the fields the fingerprints,   *)
(* the validation or a resume tell apart and one or two of those they all  *)
(* treat alike.  A hash is the hashed value.  A reader that may throw      *)
(* returns the set of what it returns: empty when it throws.               *)
(***************************************************************************)
EXTENDS Naturals, Sequences, TLC

None == "none"        \* null, in a field that otherwise holds a string
Redacted == "[redacted]"

--------------------------------------------------------------------------------
(* Resolution *)

Defaults ==
  [scope          |-> [mode |-> "origin", maxUrlLength |-> 2048],
   limits         |-> [maxScheduledRequests |-> 1000, maxDepth |-> 5],
   network        |-> [maxConcurrency |-> 8, maxConcurrencyPerOrigin |-> 2,
                       retries |-> 2, minDelayMsPerOrigin |-> 0,
                       maxRequestsPerMinutePerOrigin |-> 0,  \* 0: null
                       autoThrottle |-> [enabled |-> TRUE, minDelayMs |-> 0,
                                         maxDelayMs |-> 30000],
                       headers |-> <<>>],
   session        |-> [enabled |-> FALSE, persistCookies |-> FALSE,
                       cookieFile |-> None, initialCookies |-> <<>>,
                       basicAuth |-> <<>>, bearerAuth |-> <<>>],
   httpCache      |-> [enabled |-> FALSE, directory |-> "./.site-crawler-cache"],
   responseLimits |-> [maxDecodedBytes |-> 10, memoryThresholdBytes |-> 1,
                       spoolDirectory |-> None],
   parsing        |-> [html |-> [maxNodes |-> 200000],
                       xml |-> [maxNodes |-> 200000]],
   rendering      |-> [mode |-> "never", maxRenderedPages |-> 0],
   storage        |-> [type |-> "sqlite", frontierBackend |-> "sqlite",
                       frontierOrder |-> "priority", directory |-> "./runs",
                       resumeFrom |-> None, resumePolicy |-> "exact",
                       leaseDurationMs |-> 60000,
                       leaseRenewalIntervalMs |-> 20000,
                       lockHeartbeatMs |-> 5000, staleLockMs |-> 120000,
                       storeRawHtml |-> FALSE, storeRawXml |-> FALSE,
                       writeNdjsonExports |-> TRUE, writeBufferSize |-> 100,
                       fsync |-> FALSE],
   output         |-> [writeSkippedUrls |-> TRUE, writeSummary |-> TRUE,
                       hashBodies |-> TRUE]]

(* The part of `input` called `name`, an absent one being empty. *)
Part(input, name) == IF name \in DOMAIN input THEN input[name] ELSE <<>>

(* The given fields over the default ones: { ...base, ...patch }. *)
Merged(base, patch) == patch @@ base

mergeNetwork(network) ==
  [Merged(Defaults.network, network) EXCEPT
     !.autoThrottle = Merged(Defaults.network.autoThrottle,
                             Part(network, "autoThrottle"))]

mergeParsing(parsing) ==
  [html |-> Merged(Defaults.parsing.html, Part(parsing, "html")),
   xml  |-> Merged(Defaults.parsing.xml, Part(parsing, "xml"))]

defaultFrontierBackend ==
  [memory |-> "memory", filesystem |-> "journal", sqlite |-> "sqlite"]

(* The backend follows the store unless it is given. *)
mergeStorage(storage) ==
  LET given == Merged(Defaults.storage, storage)
  IN  IF "frontierBackend" \in DOMAIN storage
        THEN given
        ELSE [given EXCEPT !.frontierBackend = defaultFrontierBackend[given.type]]

(* An option of a seed: a sequence of the value, or empty for null. *)
Option(seed, name) == IF name \in DOMAIN seed THEN <<seed[name]>> ELSE <<>>

(* A seed's scope patches the run's; its other options may be absent. *)
normalizeSeeds(seeds, scope) ==
  [i \in DOMAIN seeds |->
     [url                  |-> seeds[i].url,
      scope                |-> Merged(scope, Part(seeds[i], "scope")),
      maxDepth             |-> Option(seeds[i], "maxDepth"),
      maxScheduledRequests |-> Option(seeds[i], "maxScheduledRequests"),
      label                |-> Option(seeds[i], "label")]]

(* Every section over its defaults. *)
resolveConfig(input) ==
  LET scope == Merged(Defaults.scope, Part(input, "scope"))
  IN  [section \in DOMAIN Defaults |->
         CASE section = "network" -> mergeNetwork(Part(input, section))
           [] section = "parsing" -> mergeParsing(Part(input, section))
           [] section = "storage" -> mergeStorage(Part(input, section))
           [] OTHER -> Merged(Defaults[section], Part(input, section))]
      @@ [seeds |-> normalizeSeeds(input.seeds, scope)]

(* The numbers are positive where they must be, and the fields agree. *)
validateConfig(c) ==
  /\ Len(c.seeds) > 0
  /\ \A i \in DOMAIN c.seeds : c.seeds[i].maxScheduledRequests # <<0>>
  /\ \A n \in {c.limits.maxScheduledRequests, c.scope.maxUrlLength,
               c.network.maxConcurrency, c.network.maxConcurrencyPerOrigin,
               c.network.autoThrottle.maxDelayMs,
               c.responseLimits.maxDecodedBytes,
               c.responseLimits.memoryThresholdBytes,
               c.parsing.html.maxNodes, c.parsing.xml.maxNodes} : n > 0
  /\ c.network.autoThrottle.minDelayMs <= c.network.autoThrottle.maxDelayMs
  /\ c.responseLimits.memoryThresholdBytes <= c.responseLimits.maxDecodedBytes

(* The choices of storage, session and rendering go together. *)
validateRuntimeConfig(c, renderer) ==
  /\ c.storage.type = "memory" => c.storage.frontierBackend = "memory"
  /\ c.session.persistCookies => c.session.enabled /\ c.storage.type # "memory"
  /\ c.storage.writeBufferSize > 0
  /\ c.storage.leaseRenewalIntervalMs > 0 /\ c.storage.lockHeartbeatMs > 0
  /\ c.storage.leaseRenewalIntervalMs < c.storage.leaseDurationMs
  /\ c.storage.lockHeartbeatMs < c.storage.staleLockMs
  /\ c.rendering.mode # "never" => renderer # None

Valid(c, renderer) == validateConfig(c) /\ validateRuntimeConfig(c, renderer)

--------------------------------------------------------------------------------
(* Fingerprints *)

(* What a run may change and go on with the same crawl is blanked out. *)
operationalProjection(c) ==
  [c EXCEPT
     !.network = [@ EXCEPT !.maxConcurrency = 0, !.maxConcurrencyPerOrigin = 0,
                           !.minDelayMsPerOrigin = 0,
                           !.maxRequestsPerMinutePerOrigin = 0,
                           !.autoThrottle = [enabled |-> FALSE, minDelayMs |-> 0,
                                             maxDelayMs |-> 0]],
     !.session = [@ EXCEPT !.persistCookies = FALSE, !.cookieFile = None],
     !.httpCache.directory = "",
     !.responseLimits = [@ EXCEPT !.memoryThresholdBytes = 0,
                                  !.spoolDirectory = None],
     !.storage = [@ EXCEPT !.directory = "", !.resumeFrom = None,
                           !.resumePolicy = "operational",
                           !.leaseDurationMs = 0, !.leaseRenewalIntervalMs = 0,
                           !.lockHeartbeatMs = 0, !.staleLockMs = 0,
                           !.storeRawHtml = FALSE, !.storeRawXml = FALSE,
                           !.writeNdjsonExports = FALSE, !.writeBufferSize = 0,
                           !.fsync = FALSE],
     !.output = [@ EXCEPT !.writeSkippedUrls = FALSE, !.writeSummary = FALSE]]

createConfigFingerprints(c) ==
  [exact |-> c, operational |-> operationalProjection(c)]

--------------------------------------------------------------------------------
(* The configuration in a run directory *)

SecretHeaders == {"authorization", "cookie", "proxy-authorization"}

(* It is written without its secrets... *)
redactConfig(c) ==
  LET Each(entries, Hide(_)) == [i \in DOMAIN entries |-> Hide(entries[i])]
  IN  [c EXCEPT
        !.network.headers = [h \in DOMAIN @ |->
                               IF h \in SecretHeaders THEN Redacted ELSE @[h]],
        !.session.initialCookies =
           Each(@, LAMBDA e : [e EXCEPT !.cookie = Redacted]),
        !.session.basicAuth =
           Each(@, LAMBDA e : [e EXCEPT !.username = Redacted, !.password = Redacted]),
        !.session.bearerAuth = Each(@, LAMBDA e : [e EXCEPT !.token = Redacted])]

(* ...and read back as an input whose seeds are their URLs alone. *)
replayConfig(saved) ==
  resolveConfig([saved EXCEPT
                   !.seeds = [i \in DOMAIN @ |-> [url |-> @[i].url]]])

(* The options that are there, of a resolved seed. *)
seedInput(seed) ==
  LET given == {o \in {"maxDepth", "maxScheduledRequests", "label"} : seed[o] # <<>>}
  IN  [o \in given |-> seed[o][1]] @@ [url |-> seed.url, scope |-> seed.scope]

(* What `site-crawler resume <directory>` runs. *)
configForResume(saved, directory) ==
  LET c == replayConfig(saved)
  IN  [c EXCEPT !.seeds = [i \in DOMAIN @ |-> seedInput(@[i])],
                !.storage.resumeFrom = directory]

--------------------------------------------------------------------------------
(* The manifest *)

(* The counters that stand for all those a run keeps. *)
Counters ==
  {"requestsScheduled", "requestsFetched", "requestsFailed", "bytesDownloaded",
   "sitemapFilesDiscovered", "resumedRequests"}

zeroCounters == [n \in Counters |-> 0]

LimitReasons ==
  {"max-scheduled-requests", "max-fetched-resources", "max-run-time",
   "max-downloaded-bytes", "max-queue-size", "max-sitemap-files",
   "max-sitemap-entries", "max-sitemap-index-depth", "max-rendered-pages"}

(* A stop: the limit, the reason or the error it came with is `of`. *)
StopDetails ==
  {[kind |-> None, of |-> None], [kind |-> "frontier-empty", of |-> None],
   [kind |-> "cancelled", of |-> "signal"], [kind |-> "fatal", of |-> "error"]}
  \cup [kind : {"limit"}, of : LimitReasons]

stopReason ==
  [kind \in {None, "frontier-empty", "cancelled", "fatal", "limit"} |->
     CASE kind = None             -> None
       [] kind = "frontier-empty" -> "frontier_empty"
       [] kind = "limit"          -> "limit_reached"
       [] kind = "cancelled"      -> "aborted"
       [] OTHER                   -> "fatal_error"]

(* The rendered pages are counted by the renderer, not by the counters. *)
createCrawlStats(id, counters, renderedPages, stop) ==
  [runId |-> id.runId, startedAt |-> id.startedAt, seeds |-> Len(id.config.seeds),
   renderedPages |-> renderedPages,
   stopReason |-> stopReason[stop.kind], stopDetail |-> stop]
  @@ counters

(* A run that sends credentials is marked as sensitive. *)
isSensitiveRun(c) ==
  \/ c.session.enabled
  \/ c.session.initialCookies # <<>>
  \/ c.session.basicAuth # <<>> \/ c.session.bearerAuth # <<>>
  \/ DOMAIN c.network.headers \cap {"authorization", "cookie"} # {}

createRunManifest(id, status, stop, fatalError, stats) ==
  [runId |-> id.runId, startedAt |-> id.startedAt,
   configFingerprint            |-> id.fingerprints.exact,
   operationalConfigFingerprint |-> id.fingerprints.operational,
   status |-> status, stopReason |-> stopReason[stop.kind], stopDetail |-> stop,
   seeds |-> id.config.seeds, resumedFrom |-> id.config.storage.resumeFrom,
   rawSnapshotsEnabled |-> id.config.storage.storeRawHtml \/ id.config.storage.storeRawXml,
   sensitive |-> isSensitiveRun(id.config),
   fatalError |-> fatalError, stats |-> stats]

(* The limits the reader of the statistics knows. *)
ParsedLimits == LimitReasons \ {"max-sitemap-index-depth"}

(* It leaves a fatal stop to the reader of the manifest... *)
parseStopDetail(stop) ==
  {s \in {stop} : \/ stop.kind \in {None, "frontier-empty", "cancelled"}
                  \/ stop.kind = "limit" /\ stop.of \in ParsedLimits}

(* ...which takes the error from the manifest. *)
parseManifestStopDetail(stop, fatalError) ==
  IF stop.kind = "fatal"
    THEN {[stop EXCEPT !.of = e] : e \in {fatalError} \ {None}}
    ELSE parseStopDetail(stop)

parseStats(stats) ==
  {[stats EXCEPT !.stopDetail = s] : s \in parseStopDetail(stats.stopDetail)}

parseRunManifest(m) ==
  {[m EXCEPT !.stopDetail = d, !.stats = s] :
     d \in parseManifestStopDetail(m.stopDetail, m.fatalError),
     s \in parseStats(m.stats)}

--------------------------------------------------------------------------------
(* Resuming *)

countersFromStats(stats) == [n \in Counters |-> stats[n]]

readResumeState(m, fingerprints, policy) ==
  {[manifest |-> r, counters |-> countersFromStats(r.stats)] :
     r \in {p \in parseRunManifest(m) :
              IF policy = "exact"
                THEN p.configFingerprint = fingerprints.exact
                ELSE p.operationalConfigFingerprint = fingerprints.operational}}

(* A process takes the identity of the run it resumes; a fresh one is the  *)
(* run `now`, named after its clock.                                       *)
createRuntimeIdentity(input, renderer, m, now) ==
  LET config       == resolveConfig(input)
      fingerprints == createConfigFingerprints(config)
      Identity(runId, startedAt, counters) ==
        [config |-> config, fingerprints |-> fingerprints, runId |-> runId,
         startedAt |-> startedAt, counters |-> counters]
  IN  IF ~Valid(config, renderer) THEN {}
      ELSE IF config.storage.resumeFrom = None
        THEN {Identity(now, now, zeroCounters)}
        ELSE {Identity(r.manifest.runId, r.manifest.startedAt, r.counters) :
                r \in readResumeState(m, fingerprints, config.storage.resumePolicy)}

(* A checkpoint is of a run whose manifest can be read. *)
checkpointRun(m, saved) ==
  {[runId |-> r.runId, frontierBackend |-> saved.storage.frontierBackend] :
     r \in parseRunManifest(m)}

(* The seed a URL is handled under: its own, or the first of its origin. *)
forUrl(seeds, url, normalized, origin) ==
  LET First(Is(_)) ==
        {seeds[i] : i \in {i \in DOMAIN seeds :
                             /\ Is(seeds[i].url)
                             /\ \A j \in 1 .. i - 1 : ~Is(seeds[j].url)}}
      exact == First(LAMBDA u : normalized[u] = url \/ u = url)
  IN  IF exact # {} THEN exact ELSE First(LAMBDA u : origin[normalized[u]] = origin[url])
================================================================================
