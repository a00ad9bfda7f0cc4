------------------------------ MODULE Fetching ------------------------------
(* From a leased request to its response: the policies that are asked before *)
(* every attempt, the robots policies that all requests share, the fetch     *)
(* with its redirects, the HTTP cache on disk, retries, and who disposes of  *)
(* a response body. A step is what a request does between two awaits; the    *)
(* cache directory outlives the process, everything else does not.           *)
EXTENDS Integers, FiniteSets

CONSTANTS
    Requests,          \* the requests that are fetched at the same time
    Urls, Origins,
    NoUrl, NoOrigin,
    Start,             \* the URL of a request
    IsSeed,            \* the requests that are seeds
    OriginOf,          \* of a URL
    RobotsTxt,         \* the robots.txt of an origin, one of Urls
    ScopeAllows,       \* ScopePolicy.decide: the pairs of a request and a URL it may visit (UrlScope)
    RobotsAllow,       \* decisionForPath: what a file says, a URL it allows, to a seed or not (RobotsRules)
    Target,            \* where a URL redirects, NoUrl if it does not
    Validated,         \* URLs whose responses have an ETag or Last-Modified
    Movable,           \* URLs whose host may move to an address that network safety refuses
    Files, Fallback,   \* what a robots.txt may say, and the policy of one that could not be had
    SizeOf,            \* of a version of a resource: its bytes
    MaxBodyBytes,
    MaxVersion, MaxRetries, MaxRedirects,
    UseStaleOnError,
    MaxTroubles, MaxChanges

ASSUME FetchingAssumption ==
    /\ NoUrl \notin Urls /\ NoOrigin \notin Origins
    /\ Start \in [Requests -> Urls] /\ IsSeed \subseteq Requests
    /\ OriginOf \in [Urls -> Origins] /\ RobotsTxt \in [Origins -> Urls]
    /\ Target \in [Urls -> Urls \cup {NoUrl}]
    /\ Validated \subseteq Urls /\ Movable \subseteq Urls
    /\ MaxVersion \in Nat \ {0}
    /\ {MaxRetries, MaxRedirects, MaxTroubles, MaxChanges} \subseteq Nat
    /\ ScopeAllows \subseteq Requests \X Urls
    /\ Fallback \notin Files
    /\ RobotsAllow \subseteq (Files \cup {Fallback}) \X Urls \X BOOLEAN

VARIABLES
    version,   \* of a URL: the version its server has
    robotsNow, \* of an origin: what its robots.txt says
    blocked,   \* URLs whose address network safety refuses
    meta,      \* of a URL: the cache's metadata, a version (0: no entry)
    body,      \* of a URL: the cache's body file, a version (0: none)
    policy,    \* of an origin: the promise in RobotsService.cache
    ask,       \* of a request: the lookup of a robots policy it waits for
    frame,     \* of a request: HttpFetcher.fetch for its URL ("main") and for a robots.txt
    request,   \* of a request: where RetryingFetcher.fetch and handle() are
    spooled,   \* of a request and a fetch: is there a response body to dispose of?
    session,   \* the initialization of the session: "new", "open", "broken"
    cookieFile,\* "none", "saved", "corrupt"
    aborted,   \* the run's signal
    served,    \* history: the versions of body and validator of the last revalidation
    overlapped,\* history: URLs whose entry was written by two at once or half by a dead process
    budget     \* troubles (failures, expiries, crashes) and changes of the site left

site == <<version, robotsNow, blocked>>
cache == <<meta, body, overlapped>>
vars == <<version, robotsNow, blocked, meta, body, policy, ask, frame, request, spooled, session,
          cookieFile, aborted, served, overlapped, budget>>

Kinds == {"main", "robots"}
NoPolicy == [state |-> "none"]
NoAsk == [step |-> "none"]
Idle == [step |-> "idle"]
Ended == {"handled", "failed", "skipped", "cancelled", "threw"}

TypeOK ==
    /\ version \in [Validated -> 1..MaxVersion]
    /\ robotsNow \in [Origins -> Files] /\ blocked \subseteq Movable
    /\ meta \in [Urls -> 0..MaxVersion] /\ body \in [Urls -> 0..MaxVersion]
    /\ \A o \in Origins :
          /\ policy[o].state \in {"none", "pending", "ready", "rejected"}
          /\ policy[o].state = "pending" => policy[o].loader \in Requests
    /\ \A r \in Requests :
          /\ ask[r].step \in {"none", "get", "reload", "wait", "load", "got", "rejected"}
          /\ request[r].step \in Ended \cup {"attempt", "fetch", "backoff", "returned"}
          /\ request[r].attempt \in 0..MaxRetries
          /\ \A k \in Kinds :
                /\ frame[r][k].step \in {"idle", "prepare", "send", "apply", "meta", "settle", "decide", "done"}
                /\ frame[r][k].step \notin {"idle", "done"} =>
                      frame[r][k].url \in frame[r][k].visited /\ Cardinality(frame[r][k].visited) <= MaxRedirects + 1
    /\ spooled \in [Requests -> [Kinds -> BOOLEAN]]
    /\ session \in {"new", "open", "broken"} /\ cookieFile \in {"none", "saved", "corrupt"}
    /\ aborted \in BOOLEAN
    /\ overlapped \subseteq Urls

Init ==
    /\ version = [u \in Validated |-> 1]
    /\ robotsNow \in [Origins -> Files] /\ blocked = {}
    /\ meta = [u \in Urls |-> 0] /\ body = [u \in Urls |-> 0]
    /\ policy = [o \in Origins |-> NoPolicy]
    /\ ask = [r \in Requests |-> NoAsk]
    /\ frame = [r \in Requests |-> [k \in Kinds |-> Idle]]
    /\ request = [r \in Requests |-> [step |-> "attempt", attempt |-> 0]]
    /\ spooled = [r \in Requests |-> [k \in Kinds |-> FALSE]]
    /\ session = "new" /\ cookieFile \in {"none", "corrupt"}
    /\ aborted = FALSE
    /\ served = [body |-> 0, etag |-> 0, url |-> NoUrl]
    /\ overlapped = {}
    /\ budget = [troubles |-> MaxTroubles, changes |-> MaxChanges]

CanFail == budget.troubles > 0
Spent(kind) == [budget EXCEPT ![kind] = @ - 1]

------------------------------------------------------------------------------
(* Mutant: those that wait for a load are not told that it failed.           *)
ThrowsAlone(r) ==
    /\ request' = [request EXCEPT ![r].step = IF aborted THEN "cancelled" ELSE "threw"]
    /\ aborted' = TRUE
    /\ spooled' = [spooled EXCEPT ![r] = [k \in Kinds |-> FALSE]]
    /\ frame' = [frame EXCEPT ![r] = [k \in Kinds |-> Idle]]
    /\ policy' = [o \in Origins |-> IF policy[o].state = "pending" /\ policy[o].loader = r
                                    THEN [state |-> "rejected"] ELSE policy[o]]
    /\ ask' = [ask EXCEPT ![r] = NoAsk]

(* How calls end. An exception leaves fetch() through its finally block,     *)
(* which disposes of the body, and handle() through its catch block: after   *)
(* an abort the request is cancelled, otherwise it and the whole run fail    *)
(* (FatalRequestError), which aborts the signal. A robots load that r ran    *)
(* for others is rejected with it and stays in the cache.                    *)
Throws(r) ==
    /\ request' = [request EXCEPT ![r].step = IF aborted THEN "cancelled" ELSE "threw"]
    /\ aborted' = TRUE
    /\ spooled' = [spooled EXCEPT ![r] = [k \in Kinds |-> FALSE]]
    /\ frame' = [frame EXCEPT ![r] = [k \in Kinds |-> Idle]]
    /\ policy' = [o \in Origins |-> IF policy[o].state = "pending" /\ policy[o].loader = r
                                    THEN [state |-> "rejected"] ELSE policy[o]]
    /\ ask' = [q \in Requests |->
                 CASE q = r -> NoAsk
                   [] q # r /\ ask[q].step = "wait" /\ ask[q].loader = r -> [ask[q] EXCEPT !.step = "rejected"]
                   [] OTHER -> ask[q]]

End(r, how) == request' = [request EXCEPT ![r].step = how]

Starts(r, k, u) == [frame EXCEPT ![r][k] = [step |-> "prepare", url |-> u, visited |-> {u}]]

\* fetch() returns; what became of the body is said beside it.
Returns(r, k, result) == frame' = [frame EXCEPT ![r][k] = [step |-> "done", result |-> result]]

Disposed(r, k) == spooled' = [spooled EXCEPT ![r][k] = FALSE]

------------------------------------------------------------------------------
(* RequestPolicyRunner.decide: scope, network safety, robots. *)
InScope(r, u) == <<r, u>> \in ScopeAllows
Safe(u) == u \notin blocked

\* throwIfAborted() and the decisions up to the robots lookup.
Attempt(r) ==
    /\ request[r].step = "attempt"
    /\ \/ /\ aborted
          /\ End(r, "cancelled")
          /\ UNCHANGED <<ask, frame, budget>>
       \/ /\ ~aborted /\ (~InScope(r, Start[r]) \/ ~Safe(Start[r]))
          /\ End(r, "skipped")
          /\ UNCHANGED <<ask, frame, budget>>
       \/ /\ ~aborted /\ InScope(r, Start[r]) /\ CanFail   \* DNS_ERROR
          /\ End(r, "fetch")
          /\ Returns(r, "main", "retryable")
          /\ budget' = Spent("troubles")
          /\ UNCHANGED ask
       \/ /\ ~aborted /\ InScope(r, Start[r]) /\ Safe(Start[r])
          /\ End(r, "fetch")
          /\ ask' = [ask EXCEPT ![r] = [step |-> "get", origin |-> OriginOf[Start[r]]]]
          /\ UNCHANGED <<frame, budget>>
    /\ UNCHANGED <<site, cache, policy, spooled, session, cookieFile, aborted, served>>

------------------------------------------------------------------------------
(* RobotsService.policyFor and the fetch of a robots.txt. *)

\* loadPolicy() up to its first await and cache.set(), in one turn.
Loads(r, o, stale) ==
    /\ policy' = [policy EXCEPT ![o] = [state |-> "pending", loader |-> r]]
    /\ ask' = [ask EXCEPT ![r] = [step |-> "load", origin |-> o, stale |-> stale]]
    /\ IF Safe(RobotsTxt[o])
       THEN frame' = Starts(r, "robots", RobotsTxt[o])
       ELSE Returns(r, "robots", "error")

(* Mutant: an await between cache.get() and cache.set().                     *)
LookupAwaiting(r) ==
    /\ ask[r].step = "get"
    /\ LET o == ask[r].origin
           found == policy[o]
           next == CASE found.state = "none" -> [step |-> "reload", origin |-> o, stale |-> NoPolicy]
                     [] found.state = "pending" -> [step |-> "wait", origin |-> o, loader |-> found.loader]
                     [] found.state = "rejected" -> [step |-> "rejected", origin |-> o]
                     [] found.state = "ready" /\ found.fresh -> [step |-> "got", origin |-> o, says |-> found.says]
                     [] found.state = "ready" /\ ~found.fresh -> [step |-> "reload", origin |-> o, stale |-> found]
       IN  ask' = [ask EXCEPT ![r] = next]
    /\ UNCHANGED <<site, cache, policy, frame, request, spooled, session, cookieFile, aborted, served, budget>>

\* cache.get() and the first await of what it found.
Lookup(r) ==
    /\ ask[r].step = "get"
    /\ LET o == ask[r].origin
           found == policy[o]
           Now(next) == ask' = [ask EXCEPT ![r] = next] /\ UNCHANGED <<policy, frame>>
       IN  CASE found.state = "none" -> Loads(r, o, NoPolicy)
             [] found.state = "pending" -> Now([step |-> "wait", origin |-> o, loader |-> found.loader])
             [] found.state = "rejected" -> Now([step |-> "rejected", origin |-> o])
             [] found.state = "ready" /\ found.fresh -> Now([step |-> "got", origin |-> o, says |-> found.says])
             [] found.state = "ready" /\ ~found.fresh -> Now([step |-> "reload", origin |-> o, stale |-> found])
    /\ UNCHANGED <<site, cache, request, spooled, session, cookieFile, aborted, served, budget>>

\* The second await of an expired policy is over; another lookup may have seen it too.
Reload(r) ==
    /\ ask[r].step = "reload"
    /\ Loads(r, ask[r].origin, ask[r].stale)
    /\ UNCHANGED <<site, cache, request, spooled, session, cookieFile, aborted, served, budget>>

\* policyFromResult, and the stale policy in place of a fallback. An answer without a body counts as a failure.
Loaded(r) ==
    IF frame[r]["robots"].result = "ok" THEN robotsNow[ask[r].origin]
    ELSE IF ask[r].stale # NoPolicy THEN ask[r].stale.says
    ELSE Fallback

\* The body is read and disposed of, the record written, the promise resolved.
LoadEnds(r) ==
    /\ ask[r].step = "load" /\ frame[r]["robots"].step = "done"
    /\ LET o == ask[r].origin
           got == [step |-> "got", origin |-> o, says |-> Loaded(r)]
       IN  /\ policy' = [policy EXCEPT ![o] = IF @ = [state |-> "pending", loader |-> r]
                                              THEN [state |-> "ready", says |-> Loaded(r), fresh |-> TRUE]
                                              ELSE @]
           /\ ask' = [q \in Requests |-> IF q = r \/ (ask[q].step = "wait" /\ ask[q].loader = r) THEN got ELSE ask[q]]
    /\ frame' = [frame EXCEPT ![r]["robots"] = Idle]
    /\ Disposed(r, "robots")
    /\ UNCHANGED <<site, cache, request, session, cookieFile, aborted, served, budget>>

\* Its record could not be written.
LoadFails(r) ==
    /\ ask[r].step = "load" /\ frame[r]["robots"].step = "done" /\ CanFail
    /\ budget' = Spent("troubles")
    /\ Throws(r)
    /\ UNCHANGED <<site, cache, session, cookieFile, served>>

\* A lookup that waits for a rejected load, or finds one.
LookupFails(r) ==
    /\ ask[r].step = "rejected"
    /\ Throws(r)
    /\ UNCHANGED <<site, cache, session, cookieFile, served, budget>>

------------------------------------------------------------------------------
(* HttpFetcher.fetch, the session and the cache, for a request or a robots.txt. *)

Entry(r, k) == frame[r][k]
Moves(r, k, step) == frame' = [frame EXCEPT ![r][k].step = step]

\* Somebody else has the entry of u in hand, or has written half of it.
Shared(u, r, k) ==
    \E q \in Requests, l \in Kinds :
        /\ <<q, l>> # <<r, k>>
        /\ frame[q][l].step \in {"send", "apply", "meta"} /\ frame[q][l].url = u
        /\ frame[q][l].step = "meta" \/ frame[q][l].cached # 0

\* cache.prepare: the metadata that makes the request conditional.
Prepare(r, k) ==
    /\ Entry(r, k).step = "prepare"
    /\ frame' = [frame EXCEPT ![r][k] = [step |-> "send", url |-> @.url, visited |-> @.visited,
                                         cached |-> meta[@.url]]]
    /\ overlapped' = IF \E q \in Requests, l \in Kinds :
                            frame[q][l].step = "meta" /\ frame[q][l].url = Entry(r, k).url
                     THEN overlapped \cup {Entry(r, k).url} ELSE overlapped
    /\ UNCHANGED <<site, meta, body, policy, ask, request, spooled, session, cookieFile, aborted, served, budget>>

\* ensureInitialized(): one attempt for all requests; a cookie file it cannot read breaks it.
Opened == CASE session # "new" -> session
            [] session = "new" /\ cookieFile = "corrupt" -> "broken"
            [] OTHER -> "open"

NoSession(r, k) ==
    /\ Entry(r, k).step = "send" /\ Opened = "broken"
    /\ session' = Opened
    /\ Throws(r)
    /\ UNCHANGED <<site, cache, cookieFile, served, budget>>

\* The answers a server or the transport may give, with what they cost of the budget.
Answers(u, cached) ==
    IF aborted THEN {<<"aborted", FALSE>>}
    ELSE IF ~Safe(u) THEN {<<"error", FALSE>>}
    ELSE {<<CASE Target[u] # NoUrl -> "redirect"
              [] Target[u] = NoUrl /\ u \in Validated /\ cached # 0 /\ cached = version[u] -> "notModified"
              [] OTHER -> "ok", FALSE>>}
         \cup (IF CanFail THEN {<<"retryable", TRUE>>, <<"busy", TRUE>>} ELSE {})

\* requestBuffered() and session.capture(). A response has a body to dispose of.
Respond(r, k) ==
    /\ Entry(r, k).step = "send" /\ Opened = "open"
    /\ session' = Opened
    /\ \E answer \in Answers(Entry(r, k).url, Entry(r, k).cached) :
          /\ frame' = [frame EXCEPT ![r][k] = [step |-> "apply", url |-> @.url, visited |-> @.visited, cached |-> @.cached,
                                               result |-> answer[1],
                                               etag |-> IF @.url \in Validated THEN version[@.url] ELSE 0]]
          /\ spooled' = [spooled EXCEPT ![r][k] = answer[1] \notin {"aborted", "retryable", "error"}]
          /\ budget' = IF answer[2] THEN Spent("troubles") ELSE budget
    /\ UNCHANGED <<site, cache, policy, ask, request, cookieFile, aborted, served>>

CanStoreBody(v) == SizeOf[v] <= MaxBodyBytes

\* cachedBody() is asked for, and finds a body of the recorded size, none, or another.
Reuses(r, k) ==
    \/ Entry(r, k).result = "notModified"
    \/ Entry(r, k).result \in {"aborted", "retryable", "error"} /\ UseStaleOnError /\ Entry(r, k).cached # 0
BodyFound(r, k) == CanStoreBody(Entry(r, k).cached) /\ body[Entry(r, k).url] # 0
SizeAgrees(r, k) == SizeOf[body[Entry(r, k).url]] = SizeOf[Entry(r, k).cached]

\* A 304 or an error answered from the cache, a 304 without a body if none is stored; the response's own body is disposed of.
ApplyCached(r, k) ==
    /\ Entry(r, k).step = "apply" /\ Reuses(r, k)
    /\ BodyFound(r, k) => SizeAgrees(r, k)
    /\ IF BodyFound(r, k) \/ Entry(r, k).result = "notModified"
       THEN /\ frame' = [frame EXCEPT ![r][k].step = "settle",
                                       ![r][k].result = IF BodyFound(r, k) THEN "ok" ELSE "empty"]
            /\ Disposed(r, k)
       ELSE Moves(r, k, "settle") /\ UNCHANGED spooled
    /\ served' = IF BodyFound(r, k) /\ Entry(r, k).result = "notModified"
                 THEN [url |-> Entry(r, k).url, body |-> body[Entry(r, k).url], etag |-> Entry(r, k).etag]
                 ELSE served
    /\ UNCHANGED <<site, cache, policy, ask, request, session, cookieFile, aborted, budget>>

\* "Cached body size does not match its metadata."
ApplyMismatched(r, k) ==
    /\ Entry(r, k).step = "apply" /\ Reuses(r, k) /\ BodyFound(r, k) /\ ~SizeAgrees(r, k)
    /\ Throws(r)
    /\ UNCHANGED <<site, cache, session, cookieFile, served, budget>>

\* eligibleForStorage: a 2xx with a validator. The body is written before the metadata.
Eligible(r, k) == Entry(r, k).result = "ok" /\ Entry(r, k).url \in Validated

(* Mutant: a body of the same size is taken for the same body.               *)
StoreBodyOnce(r, k) ==
    /\ Entry(r, k).step = "apply" /\ Eligible(r, k)
    /\ body' = [body EXCEPT ![Entry(r, k).url] =
                    IF ~CanStoreBody(Entry(r, k).etag) THEN 0
                    ELSE IF @ # 0 /\ SizeOf[@] = SizeOf[Entry(r, k).etag] THEN @
                    ELSE Entry(r, k).etag]
    /\ Moves(r, k, "meta")
    /\ overlapped' = IF Shared(Entry(r, k).url, r, k) THEN overlapped \cup {Entry(r, k).url} ELSE overlapped
    /\ UNCHANGED <<site, meta, policy, ask, request, spooled, session, cookieFile, aborted, served, budget>>

StoreBody(r, k) ==
    /\ Entry(r, k).step = "apply" /\ Eligible(r, k)
    /\ body' = [body EXCEPT ![Entry(r, k).url] = IF CanStoreBody(Entry(r, k).etag) THEN Entry(r, k).etag ELSE 0]
    /\ Moves(r, k, "meta")
    /\ overlapped' = IF Shared(Entry(r, k).url, r, k) THEN overlapped \cup {Entry(r, k).url} ELSE overlapped
    /\ UNCHANGED <<site, meta, policy, ask, request, spooled, session, cookieFile, aborted, served, budget>>

StoreMetadata(r, k) ==
    /\ Entry(r, k).step = "meta"
    /\ meta' = [meta EXCEPT ![Entry(r, k).url] = Entry(r, k).etag]
    /\ Moves(r, k, "settle")
    /\ UNCHANGED <<site, body, overlapped, policy, ask, request, spooled, session, cookieFile, aborted, served, budget>>

\* Nothing to store and nothing to reuse.
ApplyNothing(r, k) ==
    /\ Entry(r, k).step = "apply" /\ ~Reuses(r, k) /\ ~Eligible(r, k)
    /\ Moves(r, k, "settle")
    /\ UNCHANGED <<site, cache, policy, ask, request, spooled, session, cookieFile, aborted, served, budget>>

\* A write to the cache directory fails: the entry may be left half written.
StoreFails(r, k) ==
    /\ Entry(r, k).step \in {"apply", "meta"} /\ Eligible(r, k) /\ CanFail
    /\ budget' = Spent("troubles")
    /\ overlapped' = IF Entry(r, k).step = "meta" THEN overlapped \cup {Entry(r, k).url} ELSE overlapped
    /\ Throws(r)
    /\ UNCHANGED <<site, meta, body, session, cookieFile, served>>

------------------------------------------------------------------------------
(* Redirects. *)
Hop(r, k) == Target[Entry(r, k).url]
IsLoop(r, k) == Hop(r, k) \in Entry(r, k).visited

\* No redirect: the result keeps its body.
Settle(r, k) ==
    /\ Entry(r, k).step = "settle" /\ Entry(r, k).result # "redirect"
    /\ Returns(r, k, Entry(r, k).result)
    /\ UNCHANGED <<site, cache, policy, ask, request, spooled, session, cookieFile, aborted, served, budget>>

(* Mutant: a redirect that is refused leaves its body behind.                *)
RefuseKeeping(r, k) ==
    /\ Entry(r, k).step = "settle" /\ Entry(r, k).result = "redirect"
    /\ IsLoop(r, k) \/ ~InScope(r, Hop(r, k)) \/ ~Safe(Hop(r, k))
    /\ Returns(r, k, "error")
    /\ UNCHANGED <<site, cache, policy, ask, request, spooled, session, cookieFile, aborted, served, budget>>

\* A loop, or a target refused by scope or network safety: a failure that keeps no body.
Refuse(r, k) ==
    /\ Entry(r, k).step = "settle" /\ Entry(r, k).result = "redirect"
    /\ IsLoop(r, k) \/ ~InScope(r, Hop(r, k)) \/ ~Safe(Hop(r, k))
    /\ Returns(r, k, "error") /\ Disposed(r, k)
    /\ UNCHANGED <<site, cache, policy, ask, request, session, cookieFile, aborted, served, budget>>

\* The target's name does not resolve: DNS_ERROR, which is retryable.
RedirectUnresolved(r, k) ==
    /\ Entry(r, k).step = "settle" /\ Entry(r, k).result = "redirect"
    /\ ~IsLoop(r, k) /\ InScope(r, Hop(r, k)) /\ CanFail
    /\ budget' = Spent("troubles")
    /\ Returns(r, k, "retryable") /\ Disposed(r, k)
    /\ UNCHANGED <<site, cache, policy, ask, request, session, cookieFile, aborted, served>>

\* The loop goes on with the target, or has had its last round (TOO_MANY_REDIRECTS).
Following(r, k) ==
    frame' = [frame EXCEPT ![r][k] = IF Cardinality(@.visited) <= MaxRedirects
                                     THEN [step |-> "prepare", url |-> Hop(r, k), visited |-> @.visited \cup {Hop(r, k)}]
                                     ELSE [step |-> "done", result |-> "error"]]

\* RedirectTargetPolicy asks robots as well, RobotsRedirectPolicy does not.
Redirect(r, k) ==
    /\ Entry(r, k).step = "settle" /\ Entry(r, k).result = "redirect"
    /\ ~IsLoop(r, k) /\ InScope(r, Hop(r, k)) /\ Safe(Hop(r, k))
    /\ IF k = "main"
       THEN /\ Moves(r, k, "decide")
            /\ ask' = [ask EXCEPT ![r] = [step |-> "get", origin |-> OriginOf[Hop(r, k)]]]
            /\ UNCHANGED spooled
       ELSE Following(r, k) /\ Disposed(r, k) /\ UNCHANGED ask
    /\ UNCHANGED <<site, cache, policy, request, session, cookieFile, aborted, served, budget>>

\* The policy has come: the request is sent or skipped, the redirect followed or refused.
Decided(r) ==
    /\ ask[r].step = "got"
    /\ ask' = [ask EXCEPT ![r] = NoAsk]
    /\ IF Entry(r, "main").step = "decide"
       THEN /\ IF <<ask[r].says, Hop(r, "main"), FALSE>> \in RobotsAllow
               THEN Following(r, "main")
               ELSE Returns(r, "main", "error")
            /\ Disposed(r, "main") /\ UNCHANGED request
       ELSE /\ IF <<ask[r].says, Start[r], (r \in IsSeed)>> \in RobotsAllow
               THEN frame' = Starts(r, "main", Start[r]) /\ UNCHANGED request
               ELSE End(r, "skipped") /\ UNCHANGED frame
            /\ UNCHANGED spooled
    /\ UNCHANGED <<site, cache, policy, session, cookieFile, aborted, served, budget>>

------------------------------------------------------------------------------
(* RetryingFetcher.fetch and the end of RequestHandler.handle. *)

Retryable(result) == result \in {"retryable", "busy"}

(* Mutant: the attempts are counted from zero.                               *)
OutcomeOnceMore(r) ==
    /\ request[r].step = "fetch" /\ Entry(r, "main").step = "done"
    /\ LET result == Entry(r, "main").result
       IN  request' = [request EXCEPT
              ![r] = [step |-> IF ~aborted /\ Retryable(result) /\ @.attempt <= MaxRetries THEN "backoff" ELSE "returned",
                      attempt |-> @.attempt, result |-> result]]
    /\ frame' = [frame EXCEPT ![r]["main"] = Idle]
    /\ UNCHANGED <<site, cache, policy, ask, spooled, session, cookieFile, aborted, served, budget>>

Outcome(r) ==
    /\ request[r].step = "fetch" /\ Entry(r, "main").step = "done"
    /\ LET result == Entry(r, "main").result
       IN  request' = [request EXCEPT
              ![r] = [step |-> IF ~aborted /\ Retryable(result) /\ @.attempt < MaxRetries THEN "backoff" ELSE "returned",
                      attempt |-> @.attempt, result |-> result]]
    /\ frame' = [frame EXCEPT ![r]["main"] = Idle]
    /\ UNCHANGED <<site, cache, policy, ask, spooled, session, cookieFile, aborted, served, budget>>

\* The error and the state are written, the delay is over; finally the body goes.
Retry(r) ==
    /\ request[r].step = "backoff" /\ ~aborted
    /\ request' = [request EXCEPT ![r] = [step |-> "attempt", attempt |-> @.attempt + 1]]
    /\ Disposed(r, "main")
    /\ UNCHANGED <<site, cache, policy, ask, frame, session, cookieFile, aborted, served, budget>>

\* A write failed, or the abort interrupts the delay.
RetryFails(r) ==
    /\ request[r].step = "backoff"
    /\ \/ aborted /\ UNCHANGED budget
       \/ CanFail /\ budget' = Spent("troubles")
    /\ Throws(r)
    /\ UNCHANGED <<site, cache, session, cookieFile, served>>

\* A response goes to ResourceProcessor, which disposes of it; a cancelled one is dropped as it is.
Handle(r) ==
    /\ request[r].step = "returned"
    /\ LET result == request[r].result
       IN  IF aborted \/ result = "aborted" THEN End(r, "cancelled") /\ UNCHANGED spooled
           ELSE IF result \in {"error", "retryable"} THEN End(r, "failed") /\ UNCHANGED spooled
           ELSE request' = [request EXCEPT ![r].step = "handled"] /\ Disposed(r, "main")
    /\ UNCHANGED <<site, cache, policy, ask, frame, session, cookieFile, aborted, served, budget>>

------------------------------------------------------------------------------
(* The world around: resources and addresses change, policies expire,       *)
(* somebody aborts the run, the process dies and is resumed.                 *)
Publish ==
    /\ budget.changes > 0 /\ budget' = Spent("changes")
    /\ \/ \E u \in Validated, v \in 1..MaxVersion : v > version[u] /\ version' = [version EXCEPT ![u] = v] /\ UNCHANGED blocked
       \/ \E u \in Movable : blocked' = blocked \cup {u} /\ UNCHANGED version
    /\ UNCHANGED <<robotsNow, cache, policy, ask, frame, request, spooled, session, cookieFile, aborted, served>>

Expire(o) ==
    /\ budget.troubles > 0 /\ policy[o].state = "ready" /\ policy[o].fresh
    /\ policy' = [policy EXCEPT ![o].fresh = FALSE]
    /\ budget' = Spent("troubles")
    /\ UNCHANGED <<site, cache, ask, frame, request, spooled, session, cookieFile, aborted, served>>

Abort ==
    /\ ~aborted /\ aborted' = TRUE
    /\ UNCHANGED <<site, cache, policy, ask, frame, request, spooled, session, cookieFile, served, budget>>

\* Requests that had not ended are leased again, without their attempts; temporary files are the system's.
Crash ==
    /\ budget.troubles > 0 /\ budget' = Spent("troubles")
    /\ overlapped' = overlapped \cup {frame[e[1]][e[2]].url : e \in {e \in Requests \X Kinds : frame[e[1]][e[2]].step = "meta"}}
    /\ policy' = [o \in Origins |-> NoPolicy]
    /\ ask' = [r \in Requests |-> NoAsk]
    /\ frame' = [r \in Requests |-> [k \in Kinds |-> Idle]]
    /\ request' = [r \in Requests |-> IF request[r].step \in Ended THEN request[r] ELSE [step |-> "attempt", attempt |-> 0]]
    /\ spooled' = [r \in Requests |-> [k \in Kinds |-> FALSE]]
    /\ session' = "new" /\ aborted' = FALSE
    /\ UNCHANGED <<site, meta, body, cookieFile, served>>

\* SessionManager.close() after the last request.
Close ==
    /\ \A r \in Requests : request[r].step \in Ended
    /\ session = "open" /\ cookieFile # "saved"
    /\ cookieFile' = "saved"
    /\ UNCHANGED <<site, cache, policy, ask, frame, request, spooled, session, aborted, served, budget>>

Step(r) ==
    \/ Attempt(r) \/ Lookup(r) \/ Reload(r) \/ LoadEnds(r) \/ LoadFails(r) \/ LookupFails(r)
    \/ \E k \in Kinds :
          \/ Prepare(r, k) \/ NoSession(r, k) \/ Respond(r, k)
          \/ ApplyCached(r, k) \/ ApplyMismatched(r, k) \/ StoreBody(r, k) \/ StoreMetadata(r, k)
          \/ ApplyNothing(r, k) \/ StoreFails(r, k)
          \/ Settle(r, k) \/ Refuse(r, k) \/ RedirectUnresolved(r, k) \/ Redirect(r, k)
    \/ Decided(r) \/ Outcome(r) \/ Retry(r) \/ RetryFails(r) \/ Handle(r)

Next ==
    \/ \E r \in Requests : Step(r)
    \/ Publish \/ (\E o \in Origins : Expire(o)) \/ Abort \/ Crash \/ Close

Spec == Init /\ [][Next]_vars

\* Every await ends: calls have timeouts, delays and file operations come back.
FairSpec == Spec /\ \A r \in Requests : WF_vars(Step(r))

------------------------------------------------------------------------------
(* A body served after 304 is the one the validator was stored with, unless  *)
(* two requests had the URL's entry in hand at once or a writer ended halfway *)
(* (HttpCache.apply and store, which no lock covers).                        *)
RevalidatedBody == served.body # served.etag => served.url \in overlapped

(* Whatever way a request ends, through redirects, retries, reuse of a cached *)
(* body or exceptions, the spooled body of every response has been disposed  *)
(* of; the one exception is the cancellation of a request whose response had *)
(* arrived (RequestHandler.handle).                                          *)
BodiesReleased ==
    \A r \in Requests : request[r].step \in Ended =>
        /\ ~spooled[r]["robots"]
        /\ spooled[r]["main"] => request[r].step = "cancelled" /\ request[r].result \in {"ok", "busy"}

(* Requests that need a policy nobody has loaded share one load; only those  *)
(* that saw the same policy expire may load it twice (RobotsService.policyFor).*)
FirstLoadShared ==
    \A r, q \in Requests :
        (r # q /\ ask[r].step = "load" /\ ask[q].step = "load" /\ ask[r].origin = ask[q].origin) =>
            ask[r].stale # NoPolicy /\ ask[q].stale # NoPolicy

(* Every request ends, however redirects, retries, shared robots loads,      *)
(* failures, an abort and a crash fall together.                             *)
FetchEnds == \A r \in Requests : <>[](request[r].step \in Ended)
=============================================================================
