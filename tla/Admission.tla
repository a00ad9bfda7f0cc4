------------------------------ MODULE Admission ------------------------------
(***************************************************************************)
(* How URLs become requests: RequestScheduler (src/src/crawler/            *)
(* request-scheduler.ts) with the reservations of ScopePolicy, the seed    *)
(* and sitemap bootstrap of a fresh run, the documents whose links and     *)
(* sitemap entries the workers enqueue, the run-wide budget of sitemap     *)
(* entries, and what a resume restores of all this after a crash, a stop   *)
(* or a completed run.                                                     *)
(*                                                                         *)
(* Admissions queue at a FIFO mutex.  The holder decides in one turn of    *)
(* the event loop, then awaits the frontier and the store; each of these   *)
(* calls may be refused.  The frontier is its set of accepted requests     *)
(* (SqliteFrontier and JournalFrontier say how it is kept), the store      *)
(* matters here only as something that takes time and may fail, and the    *)
(* decision of the scope rules is a constant.                              *)
(***************************************************************************)
EXTENDS Integers, Sequences, FiniteSets

CONSTANTS Requests,          \* unique keys: normalized URLs
          NoRequest,         \* a URL that does not normalize
          Workers,
          Main,              \* run() itself, which enqueues seeds and sitemaps
          Seeds,
          Bootstrap,         \* the calls of enqueueSeeds() and discoverSitemaps()
          Content,           \* Content[r]: what fetching r yields
          Hooked,            \* the calls a hook may make with context.enqueue()
          InScope,           \* scope.decide(): pairs of request and seed
          Directory,         \* Directory[r]: origin and directory of r
          Pattern,           \* Pattern[r]: path and query pattern of r
          SeedQuota,         \* seed.maxScheduledRequests, by seed (null: many)
          MaxScheduled,      \* limits.maxScheduledRequests
          MaxSitemapFiles,   \* sitemaps.maxSitemapFiles
          MaxTotalEntries,   \* sitemaps.maxTotalEntries
          MaxIndexDepth,     \* sitemaps.maxSitemapIndexDepth
          MaxPerDirectory,   \* scope.maxUrlsPerDirectory, the same for every seed
          MaxPerPattern,     \* scope.maxUrlsPerPathPattern
          EnqueueEntries,    \* sitemaps.enqueueEntries
          Refusable,         \* the frontier may find these too deep or the queue full
          MaxResumes,        \* bound: how often the run is resumed
          MaxFaults          \* bound: how many store or frontier calls fail

Kinds == {"page", "sitemap", "sitemap-index"}
Callers == Workers \cup {Main}
Directories == {Directory[r] : r \in Requests}
Patterns == {Pattern[r] : r \in Requests}

(* EnqueueInput: file says whether the source is "robots-sitemap" or       *)
(* "sitemap-index", index is sitemapIndexDepth.                            *)
Call == [req : Requests \cup {NoRequest}, seed : Seeds, file : BOOLEAN,
         index : Nat, ancestors : SUBSET Requests]

(* There is a seed (src/src/config/validation.ts:10), and network.         *)
(* maxConcurrency workers.                                                 *)
ASSUME ConfigAssumption ==
    /\ NoRequest \notin Requests \cup Callers
    /\ Main \notin Workers
    /\ IsFiniteSet(Requests) /\ IsFiniteSet(Workers)
    /\ Seeds # {}
    /\ Bootstrap \in Seq(Call)
    /\ Hooked \subseteq Call
    /\ Content \in [Requests -> [kind : Kinds, links : Seq(Requests \cup {NoRequest})]]
    /\ InScope \subseteq Requests \X Seeds
    /\ SeedQuota \in [Seeds -> Nat]
    /\ {MaxScheduled, MaxSitemapFiles, MaxTotalEntries, MaxIndexDepth,
        MaxPerDirectory, MaxPerPattern, MaxResumes, MaxFaults} \subseteq Nat
    /\ EnqueueEntries \in BOOLEAN
    /\ Refusable \subseteq Requests

VARIABLES
    mode,          \* "up", or "down" (the process died or the run finished)
    resumes,       \* how often it was resumed
    faults,        \* how many calls of store or frontier failed
    \* the run directory
    known,         \* frontier: the calls that were accepted
    done,          \* frontier: the requests in a terminal state
    manifest,      \* the counters in manifest.json
    \* the process
    bootstrapped,  \* bootstrapIfFreshRun() has returned
    stopped,       \* the controller leases no more
    counters,      \* the CrawlCounters that admission reads
    seedCounts,    \* RequestScheduler.seedCounts
    directories,   \* ScopePolicy.directoryCounts, by seed and directory
    patterns,      \* ScopePolicy.patternCounts, by seed and pattern
    holder,        \* who runs inside admissionMutex
    waiting,       \* who waits for it, in order
    caller         \* what each caller does

runVars == <<known, done, manifest>>
accounting == <<counters, seedCounts, directories, patterns>>
vars == <<mode, resumes, faults, runVars, bootstrapped, stopped, accounting,
          holder, waiting, caller>>

Nobody == NoRequest
Counters == [scheduled : Nat, files : Nat, entries : Nat]

Places == {"idle",
           "next",         \* between two links of its document
           "recording",    \* awaits writeSitemapEntry()
           "waiting",      \* awaits admissionMutex
           "skipping",     \* awaits writeSkipped()
           "offering",     \* awaits frontier.enqueue()
           "discovering",  \* awaits writeDiscovery()
           "writing",      \* awaits writeRequest() and writeRequestState()
           "notifying"}    \* awaits onRequestEnqueued or onRequestSkipped

(* A caller works through the calls its document makes; reserved is what   *)
(* prepareReservation() computed for the current one, news whether the     *)
(* frontier accepted it, nested whether a hook made it.                    *)
Caller == [at : Places, on : Requests \cup {NoRequest}, todo : Seq(Call), call : Call,
           reserved : [directory : Nat, pattern : Nat], news : BOOLEAN, nested : BOOLEAN]

NoCall == [req |-> NoRequest, seed |-> CHOOSE s \in Seeds : TRUE, file |-> FALSE,
           index |-> 0, ancestors |-> {}]
NothingReserved == [directory |-> 0, pattern |-> 0]
Idle == [at |-> "idle", on |-> NoRequest, todo |-> <<>>, call |-> NoCall,
         reserved |-> NothingReserved, news |-> FALSE, nested |-> FALSE]

TypeOK ==
    /\ mode \in {"up", "down"}
    /\ resumes \in 0..MaxResumes
    /\ faults \in 0..MaxFaults
    /\ known \subseteq Call
    /\ \A i, j \in known : i.req = j.req => i = j
    /\ done \subseteq {i.req : i \in known}
    /\ manifest \in Counters
    /\ bootstrapped \in BOOLEAN
    /\ stopped \in BOOLEAN
    /\ counters \in Counters
    /\ seedCounts \in [Seeds -> Nat]
    /\ directories \in [Seeds \X Directories -> Nat]
    /\ patterns \in [Seeds \X Patterns -> Nat]
    /\ holder \in Callers \cup {Nobody}
    /\ waiting \in Seq(Callers)
    /\ caller \in [Callers -> Caller]

-----------------------------------------------------------------------------
(* What the frontier remembers, as restoreAccounting() counts it.          *)

acceptedFor(s) == {i \in known : i.seed = s}
seedRequestCounts == [s \in Seeds |-> Cardinality(acceptedFor(s))]
DirectoryCounts ==
    [k \in Seeds \X Directories |->
        Cardinality({i \in acceptedFor(k[1]) : Directory[i.req] = k[2]})]
PatternCounts ==
    [k \in Seeds \X Patterns |->
        Cardinality({i \in acceptedFor(k[1]) : Pattern[i.req] = k[2]})]

requestForKey(r) == {i \in known : i.req = r}

Init ==
    /\ mode = "up" /\ resumes = 0 /\ faults = 0
    /\ known = {} /\ done = {}
    /\ manifest = [scheduled |-> 0, files |-> 0, entries |-> 0]
    /\ bootstrapped = FALSE /\ stopped = FALSE
    /\ counters = manifest
    /\ seedCounts = seedRequestCounts
    /\ directories = DirectoryCounts
    /\ patterns = PatternCounts
    /\ holder = Nobody /\ waiting = <<>>
    /\ caller = [c \in Callers |->
                    IF c = Main THEN [Idle EXCEPT !.at = "next", !.todo = Bootstrap]
                                ELSE Idle]

At(c, place) == mode = "up" /\ caller[c].at = place
Goes(c, place) == caller' = [caller EXCEPT ![c].at = place]

-----------------------------------------------------------------------------
(* Documents.                                                              *)

IsSitemap(r) == r # NoRequest /\ Content[r].kind # "page"

(* The call made for a link or an entry of the accepted request i.         *)
CallFor(i, link) ==
    LET index == Content[i.req].kind = "sitemap-index"
    IN  [req |-> link, seed |-> i.seed, file |-> index,
         index |-> IF index THEN i.index + 1 ELSE 0,
         ancestors |-> IF index THEN i.ancestors \cup {i.req} ELSE {}]

CallsFor(i, n) == [l \in 1..n |-> CallFor(i, Content[i.req].links[l])]

Least(a, b) == IF a < b THEN a ELSE b

(* Mutant: the entries of a sitemap are not cut off.                       *)
AppliedWhole(i) == CallsFor(i, Len(Content[i.req].links))

(* apply(): what is left of the run-wide budget cuts off the entries of a  *)
(* sitemap; they are counted one by one, later.                            *)
Applied(i) ==
    LET length == Len(Content[i.req].links)
        remaining == MaxTotalEntries - Least(counters.entries, MaxTotalEntries)
    IN  CallsFor(i, IF IsSitemap(i.req) THEN Least(length, remaining) ELSE length)

(* A worker leases a request and fetches it; what a dead process had       *)
(* leased comes back when the lease has lapsed, which takes no part here.  *)
Process(w, i) ==
    /\ At(w, "idle") /\ bootstrapped /\ ~stopped
    /\ i.req \notin done
    /\ \A v \in Workers : caller[v].on # i.req
    /\ caller' = [caller EXCEPT ![w] = [Idle EXCEPT !.at = "next", !.on = i.req,
                                                    !.todo = Applied(i)]]
    /\ UNCHANGED <<mode, resumes, faults, runVars, bootstrapped, stopped,
                   accounting, holder, waiting>>

(* c turns to the next call of its document.                               *)
Turns(c, place) ==
    caller' = [caller EXCEPT ![c].at = place,
                             ![c].todo = Tail(@),
                             ![c].call = Head(caller[c].todo)]

AsksNext(c) ==
    /\ At(c, "next") /\ caller[c].todo # <<>>
    /\ Turns(c, "waiting")
    /\ waiting' = Append(waiting, c)
    /\ UNCHANGED <<mode, resumes, faults, runVars, bootstrapped, stopped,
                   accounting, holder>>

(* The next seed, or the next sitemap of a seed.                           *)
BootstrapNext == AsksNext(Main)

(* The next link of a page or feed.                                        *)
FollowLink(w) == ~IsSitemap(caller[w].on) /\ AsksNext(w)

(* An entry of a sitemap or a sitemap index is counted and recorded.       *)
RecordEntry(c) ==
    /\ At(c, "next") /\ caller[c].todo # <<>> /\ IsSitemap(caller[c].on)
    /\ Turns(c, "recording")
    /\ counters' = [counters EXCEPT !.entries = @ + 1]
    /\ UNCHANGED <<mode, resumes, faults, runVars, bootstrapped, stopped,
                   seedCounts, directories, patterns, holder, waiting>>

(* Entries without a URL, recursive ones, those of an index that is too    *)
(* deep, and all of them without enqueueEntries are only recorded.         *)
Expands(call) ==
    /\ call.req # NoRequest
    /\ IF call.file THEN call.index <= MaxIndexDepth /\ call.req \notin call.ancestors
                    ELSE EnqueueEntries

EntryRecorded(c) ==
    /\ At(c, "recording")
    /\ IF Expands(caller[c].call)
       THEN Goes(c, "waiting") /\ waiting' = Append(waiting, c)
       ELSE Goes(c, "next") /\ UNCHANGED waiting
    /\ UNCHANGED <<mode, resumes, faults, runVars, bootstrapped, stopped,
                   accounting, holder>>

(* The request is handled.                                                 *)
EndDocument(w) ==
    /\ At(w, "next") /\ caller[w].todo = <<>>
    /\ caller' = [caller EXCEPT ![w] = Idle]
    /\ done' = done \cup {caller[w].on}
    /\ UNCHANGED <<mode, resumes, faults, known, manifest, bootstrapped, stopped,
                   accounting, holder, waiting>>

(* bootstrapIfFreshRun() returns, and the worker pool starts.              *)
EndBootstrap ==
    /\ At(Main, "next") /\ caller[Main].todo = <<>>
    /\ caller' = [caller EXCEPT ![Main] = Idle]
    /\ bootstrapped' = TRUE
    /\ UNCHANGED <<mode, resumes, faults, runVars, stopped, accounting, holder, waiting>>

-----------------------------------------------------------------------------
(* enqueue().                                                              *)

DirectoryKey(call) == <<call.seed, Directory[call.req]>>
PatternKey(call) == <<call.seed, Pattern[call.req]>>

(* prepareReservation()                                                    *)
Reservation(call) == [directory |-> directories[DirectoryKey(call)] + 1,
                      pattern |-> patterns[PatternKey(call)] + 1]

sitemapLimitReached(call) == call.file /\ counters.files >= MaxSitemapFiles
seedLimitReached(seed) == seedCounts[seed] >= SeedQuota[seed]

(* What admit() rejects before it asks the frontier.                       *)
Rejected(call) ==
    \/ sitemapLimitReached(call)
    \/ counters.scheduled >= MaxScheduled
    \/ <<call.req, call.seed>> \notin InScope
    \/ seedLimitReached(call.seed)
    \/ Reservation(call).directory > MaxPerDirectory
    \/ Reservation(call).pattern > MaxPerPattern

(* A URL that is not valid, or not new, goes to the frontier as it is.     *)
IsNew(call) == call.req # NoRequest /\ requestForKey(call.req) = {}

(* admit() up to its first await.                                          *)
Decides(c) ==
    LET call == caller[c].call IN
    /\ holder' = c /\ waiting' = Tail(waiting)
    /\ caller' = [caller EXCEPT
           ![c].at = IF IsNew(call) /\ Rejected(call) THEN "skipping" ELSE "offering",
           ![c].reserved = IF IsNew(call) /\ ~Rejected(call)
                           THEN Reservation(call) ELSE NothingReserved]
    /\ UNCHANGED <<mode, resumes, faults, runVars, bootstrapped, stopped, accounting>>

(* Mutant: admissions do not wait for one another.                         *)
AdmitUnlocked(c) == At(c, "waiting") /\ c = Head(waiting) /\ Decides(c)

(* The mutex comes to the first that waits.                                *)
Admit(c) == At(c, "waiting") /\ holder = Nobody /\ c = Head(waiting) /\ Decides(c)

admitVars == <<mode, resumes, faults, done, manifest, bootstrapped, stopped, waiting>>

(* Mutant: the frontier does not look for the key again.                   *)
AcceptAgain(c) ==
    /\ At(c, "offering") /\ caller[c].call.req # NoRequest
    /\ known' = known \cup {caller[c].call}
    /\ caller' = [caller EXCEPT ![c].at = "discovering", ![c].news = TRUE]
    /\ UNCHANGED <<admitVars, accounting, holder>>

(* frontier.enqueue() accepts the request.                                 *)
Accept(c) ==
    /\ At(c, "offering") /\ IsNew(caller[c].call)
    /\ known' = known \cup {caller[c].call}
    /\ caller' = [caller EXCEPT ![c].at = "discovering", ![c].news = TRUE]
    /\ UNCHANGED <<admitVars, accounting, holder>>

(* It has seen the URL before.                                             *)
AlreadySeen(c) ==
    /\ At(c, "offering") /\ requestForKey(caller[c].call.req) # {}
    /\ Goes(c, "discovering")
    /\ UNCHANGED <<admitVars, known, accounting, holder>>

(* It skips it: the URL is not valid, too deep or the queue is full.       *)
Refuse(c) ==
    /\ At(c, "offering") /\ requestForKey(caller[c].call.req) = {}
    /\ caller[c].call.req \in Refusable \cup {NoRequest}
    /\ Goes(c, "skipping")
    /\ UNCHANGED <<admitVars, known, accounting, holder>>

(* Mutant: a request that the frontier skips has reserved its place.       *)
SkippedReserved(c) ==
    LET call == caller[c].call IN
    /\ At(c, "skipping")
    /\ Goes(c, "notifying") /\ holder' = Nobody
    /\ IF caller[c].reserved = NothingReserved
       THEN UNCHANGED directories
       ELSE directories' = [directories EXCEPT
                               ![DirectoryKey(call)] = caller[c].reserved.directory]
    /\ UNCHANGED <<admitVars, known, counters, seedCounts, patterns>>

(* writeSkipped() is done; the mutex is released, then the hook runs.      *)
Skipped(c) ==
    /\ At(c, "skipping")
    /\ Goes(c, "notifying") /\ holder' = Nobody
    /\ UNCHANGED <<admitVars, known, accounting>>

(* Back in the document, or in the hook that made the call and returns.    *)
Return(record) == [record EXCEPT !.at = "next", !.call = NoCall, !.news = FALSE,
                                 !.reserved = NothingReserved, !.nested = FALSE]

(* writeDiscovery() is done: a new request is counted, an old one is not.  *)
Discovered(c) ==
    LET call == caller[c].call IN
    /\ At(c, "discovering")
    /\ IF caller[c].news
       THEN /\ Goes(c, "writing")
            /\ counters' = [counters EXCEPT !.scheduled = @ + 1,
                                            !.files = IF call.file THEN @ + 1 ELSE @]
            /\ seedCounts' = [seedCounts EXCEPT ![call.seed] = @ + 1]
            /\ UNCHANGED holder
       ELSE /\ caller' = [caller EXCEPT ![c] = Return(@)]
            /\ holder' = Nobody
            /\ UNCHANGED <<counters, seedCounts>>
    /\ UNCHANGED <<admitVars, known, directories, patterns>>

(* writeRequest() and writeRequestState() are done: commit() stores what   *)
(* the reservation had computed, and the mutex is released.                *)
Written(c) ==
    LET call == caller[c].call IN
    /\ At(c, "writing")
    /\ directories' = [directories EXCEPT ![DirectoryKey(call)] = caller[c].reserved.directory]
    /\ patterns' = [patterns EXCEPT ![PatternKey(call)] = caller[c].reserved.pattern]
    /\ Goes(c, "notifying") /\ holder' = Nobody
    /\ UNCHANGED <<admitVars, known, counters, seedCounts>>

(* The hook returns, or there is none.                                     *)
Notified(c) ==
    /\ At(c, "notifying")
    /\ caller' = [caller EXCEPT ![c] = Return(@)]
    /\ UNCHANGED <<admitVars, known, accounting, holder>>

(* Mutant: the hook runs under the mutex.                                  *)
HookEnqueuesLocked(c, call) ==
    /\ At(c, "notifying") /\ ~caller[c].nested /\ holder = Nobody
    /\ holder' = c
    /\ waiting' = Append(waiting, c)
    /\ caller' = [caller EXCEPT ![c] = [Return(@) EXCEPT !.at = "waiting", !.call = call,
                                                         !.nested = TRUE]]
    /\ UNCHANGED <<mode, resumes, faults, runVars, bootstrapped, stopped, accounting>>

(* The hook awaits context.enqueue().  All that is left of the outer call  *)
(* is to return, so that the caller goes on as the inner one; a hook that  *)
(* enqueues from within such a call is left out.                           *)
HookEnqueues(c, call) ==
    /\ At(c, "notifying") /\ ~caller[c].nested
    /\ waiting' = Append(waiting, c)
    /\ caller' = [caller EXCEPT ![c] = [Return(@) EXCEPT !.at = "waiting", !.call = call,
                                                         !.nested = TRUE]]
    /\ UNCHANGED <<mode, resumes, faults, runVars, bootstrapped, stopped,
                   accounting, holder>>

-----------------------------------------------------------------------------
(* What goes wrong, and the ends of a process.                             *)

(* A call of store, frontier or hook is rejected.  That ends the document, *)
(* the bootstrap, and the run, unless it happens in a hook: then the       *)
(* failure mode may confine it to the request, or go on after it.          *)
Ends(c, fatal) ==
    /\ caller' = [caller EXCEPT ![c] = Idle]
    /\ stopped' = (stopped \/ fatal)
    /\ done' = IF c = Main THEN done ELSE done \cup {caller[c].on}

CallFails(c) ==
    /\ faults < MaxFaults
    /\ faults' = faults + 1
    /\ mode = "up"
    /\ caller[c].at \in {"recording", "skipping", "offering", "discovering",
                         "writing", "notifying"}
    /\ \/ Ends(c, TRUE)
       \/ /\ caller[c].at = "notifying" \/ caller[c].nested
          /\ \/ c # Main /\ Ends(c, FALSE)
             \/ caller' = [caller EXCEPT ![c] = Return(@)] /\ UNCHANGED <<stopped, done>>
    /\ holder' = IF holder = c THEN Nobody ELSE holder
    /\ UNCHANGED <<mode, resumes, known, manifest, bootstrapped, accounting, waiting>>

(* A limit is reached, or abort() is called.  (Like a crash, it is left     *)
(* out where no resume follows.)                                           *)
StopLeasing ==
    /\ mode = "up" /\ ~stopped /\ resumes < MaxResumes
    /\ stopped' = TRUE
    /\ UNCHANGED <<mode, resumes, faults, runVars, bootstrapped, accounting,
                   holder, waiting, caller>>

Down ==
    /\ mode = "up" /\ mode' = "down"
    /\ holder' = Nobody /\ waiting' = <<>>
    /\ caller' = [c \in Callers |-> Idle]
    /\ UNCHANGED <<resumes, faults, known, done, bootstrapped, stopped, accounting>>

(* All workers have ended, or the bootstrap has failed: the finalizer      *)
(* writes the manifest and the run directory is closed.                    *)
Finalize ==
    /\ \A c \in Callers : caller[c].at = "idle"
    /\ stopped \/ {i.req : i \in known} = done
    /\ manifest' = counters
    /\ Down

(* The process dies.                                                       *)
Crash == resumes < MaxResumes /\ Down /\ UNCHANGED manifest

(* Mutant: the counts of the seeds are forgotten.                          *)
restoreReservationsOnly ==
    /\ seedCounts' = [s \in Seeds |-> 0]
    /\ directories' = DirectoryCounts
    /\ patterns' = PatternCounts

restoreAccounting ==
    /\ seedCounts' = seedRequestCounts
    /\ directories' = DirectoryCounts
    /\ patterns' = PatternCounts

(* readResumeState(): every counter is taken from the manifest.            *)
countersFromStats == manifest

(* A process with storage.resumeFrom: the counters come from the manifest, *)
(* seed counts and reservations from the frontier, and seeds and sitemaps  *)
(* are not enqueued again.                                                 *)
Resume ==
    /\ mode = "down" /\ resumes < MaxResumes
    /\ mode' = "up" /\ resumes' = resumes + 1
    /\ bootstrapped' = TRUE /\ stopped' = FALSE
    /\ counters' = countersFromStats
    /\ restoreAccounting
    /\ UNCHANGED <<faults, runVars, holder, waiting, caller>>

Admits(c) ==
    \/ Admit(c) \/ Accept(c) \/ AlreadySeen(c) \/ Refuse(c)
    \/ Skipped(c) \/ Discovered(c) \/ Written(c)
    \/ Notified(c) \/ \E call \in Hooked : HookEnqueues(c, call)

Document(w) ==
    \/ \E i \in known : Process(w, i)
    \/ FollowLink(w) \/ RecordEntry(w) \/ EntryRecorded(w) \/ EndDocument(w)

Step(c) ==
    \/ Admits(c)
    \/ c # Main /\ Document(c)
    \/ c = Main /\ (BootstrapNext \/ EndBootstrap)

Next ==
    \/ \E c \in Callers : Step(c) \/ CallFails(c)
    \/ StopLeasing \/ Finalize \/ Crash \/ Resume

Spec == Init /\ [][Next]_vars

(* Calls of store, frontier and hooks return, workers take what is there,  *)
(* and a run without work is finalized.  Nobody has to resume it.          *)
FairSpec == Spec /\ \A c \in Callers : WF_vars(Step(c)) /\ WF_vars(Finalize)

-----------------------------------------------------------------------------
(* Properties.                                                             *)

(* Between two admissions the counts that limit them are those of the      *)
(* frontier, also after a resume and whatever was skipped or refused; a    *)
(* failed write costs one at most (persistAdmission counts and commit()    *)
(* reserves after awaits that may throw).                                  *)
AccountingExact ==
    mode = "up" /\ holder = Nobody =>
        /\ \A s \in Seeds :
              seedRequestCounts[s] - seedCounts[s] \in 0..faults
        /\ \A k \in Seeds \X Directories :
              DirectoryCounts[k] - directories[k] \in 0..faults
        /\ \A k \in Seeds \X Patterns :
              PatternCounts[k] - patterns[k] \in 0..faults

(* No number of concurrent documents, hooks, stops, crashes and resumes    *)
(* brings more requests of a seed, directory or path pattern into the      *)
(* frontier than its limit, but for one per failed call.                   *)
QuotasKept ==
    /\ \A s \in Seeds : seedRequestCounts[s] <= SeedQuota[s] + faults
    /\ \A k \in Seeds \X Directories : DirectoryCounts[k] <= MaxPerDirectory + faults
    /\ \A k \in Seeds \X Patterns : PatternCounts[k] <= MaxPerPattern + faults

(* The limits on requests and on sitemap files bound what one process      *)
(* admits; a resume after a crash starts them again from the last          *)
(* manifest.                                                               *)
ProcessCapped ==
    /\ Cardinality(known) <= (resumes + 1) * MaxScheduled + faults
    /\ Cardinality({i \in known : i.file}) <= (resumes + 1) * MaxSitemapFiles + faults

(* Sitemaps processed at the same time may each take all that is left of   *)
(* the budget (apply() reads the counter that dispatch() advances after    *)
(* awaits), so it is exceeded, but never by more than a budget for each    *)
(* other worker.                                                           *)
EntriesBounded == counters.entries <= MaxTotalEntries * Cardinality(Workers)

(* No limit on what a run admits is exceeded by more than that: with two   *)
(* workers, a hook, and a resume after a crash.                            *)
LimitsKept == QuotasKept /\ ProcessCapped /\ EntriesBounded

(* Every run comes to its end: nobody waits forever for the mutex, not     *)
(* even a hook that enqueues (the comment in enqueue()).                   *)
RunEnds == []<>(mode = "down")
=============================================================================
