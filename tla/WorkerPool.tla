----------------------------- MODULE WorkerPool -----------------------------
(***************************************************************************)
(* The worker pool of a run: worker-pool.ts with request-handler.ts,       *)
(* request-terminalizer.ts and lease-heartbeat.ts of src/src/crawler, and  *)
(* the politeness controller (src/src/politeness/index.ts) whose           *)
(* reservations the workers take and give back.  An action is what runs    *)
(* between two awaits; every await may reject.                             *)
(*                                                                         *)
(* The frontier is the one JournalFrontier describes, seen from its        *)
(* callers: a lease is in flight between takeNext() and the append, and    *)
(* in-process leases do not expire.  Delays and rate limits of an origin   *)
(* are one bit, ready: the last token taken or release() unsets it.       *)
(***************************************************************************)
EXTENDS RunController, FiniteSets

CONSTANTS Workers,       \* network.maxConcurrency of them
          Requests,
          Seeds,         \* the requests the bootstrap enqueues
          Origins,
          Origin,        \* the origin of each request
          MaxPerOrigin,  \* network.maxConcurrencyPerOrigin
          RateLimited,   \* network.maxRequestsPerMinutePerOrigin is set
          MaxScheduled,  \* limits.maxScheduledRequests
          CrawlDelay,    \* robots.txt sets a crawl delay
          FailureMode,   \* extensions.failureMode
          NoRequest,
          MaxRenewals,   \* bound: how often heartbeats fire
          MaxFaults,     \* bound: how many awaits reject
          MaxExtensionFaults \* bound: how many request-scoped hooks throw

ASSUME PoolAssumption ==
    /\ Seeds \subseteq Requests
    /\ IsFiniteSet(Requests) /\ IsFiniteSet(Workers) /\ Workers # {}
    /\ NoRequest \notin Requests
    /\ Origin \in [Requests -> Origins]
    /\ MaxPerOrigin \in Nat \ {0}
    /\ MaxScheduled \in Nat \ {0}
    /\ RateLimited \in BOOLEAN /\ CrawlDelay \in BOOLEAN
    /\ FailureMode \in {"record", "fail-request", "fail-run"}
    /\ MaxRenewals \in Nat /\ MaxFaults \in Nat /\ MaxExtensionFaults \in Nat

VARIABLES req,           \* req[r]: the state of request r at the frontier
          active,        \* active[o]: OriginSlot.active
          ready,         \* ready[o]: no delay or rate limit holds o back
          activeRequests,
          work,          \* work[w]: where worker w is
          heartbeat,     \* heartbeat[w]: the LeaseHeartbeat of its lease
          renewals, faults, extensionFaults

poolVars == <<req, active, ready, activeRequests, work, heartbeat,
              renewals, faults, extensionFaults>>

TerminalState == {"handled", "failed", "skipped", "cancelled"}
ReqState == {"absent", "pending", "leasing", "leased"} \cup TerminalState

(* The await a worker is at; "released" stands beside the terminal states  *)
(* for frontier.release().                                                 *)
Await == {"idle",       \* none: at the head of workerLoop
          "waiting",    \* waitForWork()
          "leasing",    \* frontier.leaseNext()
          "delaying",   \* crawlDelayMsFor(), applyRobotsDelay()
          "fetching",   \* handle(), until the response is there
          "processing", \* resources.processFetchedResource()
          "marking",    \* frontier.release() or one of mark...()
          "recording",  \* store.writeRequestState() after mark...()
          "reporting",  \* the rest of failed(): writeError, onRequestFailed
          "closing",    \* stopHeartbeat()
          "ended", "rejected"}

Work == [at : Await, req : Requests \cup {NoRequest},
         held : BOOLEAN,      \* its lease is active at the frontier
         started : BOOLEAN,   \* beginRequest() was called
         outcome : TerminalState \cup {"none", "released"},
         terminal : BOOLEAN,  \* an error is rethrown, not turned into failed
         throws : BOOLEAN]    \* processLease() ends with an exception

AtRest(at) == [at |-> at, req |-> NoRequest, held |-> FALSE, started |-> FALSE,
               outcome |-> "none", terminal |-> FALSE, throws |-> FALSE]

PoolTypeOK ==
    /\ req \in [Requests -> ReqState]
    /\ active \in [Origins -> Nat]
    /\ ready \in [Origins -> BOOLEAN]
    /\ activeRequests \in Nat
    /\ work \in [Workers -> Work]
    /\ heartbeat \in [Workers -> {"off", "armed", "renewing", "late", "failed"}]
    /\ renewals \in 0..MaxRenewals
    /\ faults \in 0..MaxFaults
    /\ extensionFaults \in 0..MaxExtensionFaults

PoolInit ==
    /\ req = [r \in Requests |-> "absent"]
    /\ active = [o \in Origins |-> 0]
    /\ ready = [o \in Origins |-> TRUE]
    /\ activeRequests = 0
    /\ work = [w \in Workers |-> AtRest("idle")]
    /\ heartbeat = [w \in Workers |-> "off"]
    /\ renewals = 0 /\ faults = 0 /\ extensionFaults = 0

At(w, at) == work[w].at = at
Job(w) == work[w].req
In(state) == {r \in Requests : req[r] = state}

(* An await rejects for no reason of the crawler's own.                    *)
Fault == faults < MaxFaults /\ faults' = faults + 1 /\ UNCHANGED extensionFaults

(* A request-scoped extension throws and ExtensionRunner.invoke() passes   *)
(* it on, which it does unless the mode is "record".                       *)
ExtensionFault ==
    /\ FailureMode # "record"
    /\ extensionFaults < MaxExtensionFaults
    /\ extensionFaults' = extensionFaults + 1
    /\ UNCHANGED faults

NoFault == UNCHANGED <<faults, extensionFaults>>

-----------------------------------------------------------------------------
(* Leasing.                                                                *)

(* frontier.outstandingCount: a lease in flight is neither queued nor      *)
(* active.                                                                 *)
Outstanding == In("pending") \cup In("leased")

(* tryReserve                                                              *)
Reservable == {r \in In("pending") : ready[Origin[r]] /\ active[Origin[r]] < MaxPerOrigin}

LeaseNext(w, r) ==
    LET c == refreshLimits(ctl, fetched)
        o == Origin[r] IN
    /\ At(w, "idle")
    /\ mayLease(c)
    /\ r \in Reservable
    /\ ctl' = c
    /\ active' = [active EXCEPT ![o] = @ + 1]
    /\ \E lastToken \in BOOLEAN :
          /\ lastToken => RateLimited
          /\ ready' = [ready EXCEPT ![o] = ~lastToken]
    /\ req' = [req EXCEPT ![r] = "leasing"]
    /\ work' = [work EXCEPT ![w].at = "leasing", ![w].req = r]
    /\ NoFault
    /\ UNCHANGED <<fetched, timeUp, activeRequests, heartbeat, renewals>>

(* leaseNext() returns null: the worker ends, or waits for work.           *)
LeaseNothing(w) ==
    LET c == refreshLimits(ctl, fetched) IN
    /\ At(w, "idle")
    /\ mayLease(c)
    /\ Reservable = {}
    /\ ctl' = c
    /\ work' = [work EXCEPT ![w] =
                   AtRest(IF Outstanding = {} THEN "ended" ELSE "waiting")]
    /\ NoFault
    /\ UNCHANGED <<fetched, timeUp, req, active, ready, activeRequests,
                   heartbeat, renewals>>

(* shouldLeaseMore() is false.                                             *)
LeaveLoop(w) ==
    LET c == refreshLimits(ctl, fetched) IN
    /\ At(w, "idle")
    /\ ~mayLease(c)
    /\ ctl' = c
    /\ work' = [work EXCEPT ![w] = AtRest("ended")]
    /\ NoFault
    /\ UNCHANGED <<fetched, timeUp, req, active, ready, activeRequests,
                   heartbeat, renewals>>

(* waitForWork() returns: 250 ms at most, a notification or the signal.    *)
Wake(w) ==
    /\ At(w, "waiting")
    /\ work' = [work EXCEPT ![w] = AtRest("idle")]
    /\ NoFault
    /\ UNCHANGED <<controllerVars, req, active, ready, activeRequests,
                   heartbeat, renewals>>

(* The lease is there; processLease() starts its heartbeat.                *)
LeaseGranted(w) ==
    /\ At(w, "leasing")
    /\ req' = [req EXCEPT ![Job(w)] = "leased"]
    /\ work' = [work EXCEPT ![w].at = "delaying", ![w].held = TRUE]
    /\ heartbeat' = [heartbeat EXCEPT ![w] = "armed"]
    /\ NoFault
    /\ UNCHANGED <<controllerVars, active, ready, activeRequests, renewals>>

(* Mutants: the reservation is kept, or given back by the backend and by   *)
(* the worker.                                                             *)
LeaseFailsReserved(w) ==
    /\ At(w, "leasing")
    /\ Fault
    /\ req' = [req EXCEPT ![Job(w)] = "pending"]
    /\ work' = [work EXCEPT ![w] = AtRest("rejected")]
    /\ UNCHANGED <<controllerVars, active, ready, activeRequests, heartbeat, renewals>>

LeaseFailsTwice(w) ==
    /\ At(w, "leasing")
    /\ Fault
    /\ req' = [req EXCEPT ![Job(w)] = "pending"]
    /\ active' = [active EXCEPT ![Origin[Job(w)]] = @ - 2]
    /\ work' = [work EXCEPT ![w] = AtRest("rejected")]
    /\ UNCHANGED <<controllerVars, ready, activeRequests, heartbeat, renewals>>

(* The append fails: the backend undoes the reservation and the worker     *)
(* leaves workerLoop with the error; nobody tells the controller.          *)
LeaseFails(w) ==
    /\ At(w, "leasing")
    /\ Fault
    /\ req' = [req EXCEPT ![Job(w)] = "pending"]
    /\ active' = [active EXCEPT ![Origin[Job(w)]] = @ - 1]
    /\ work' = [work EXCEPT ![w] = AtRest("rejected")]
    /\ UNCHANGED <<controllerVars, ready, activeRequests, heartbeat, renewals>>

-----------------------------------------------------------------------------
(* processLease() up to the terminal call.                                 *)

ToMark(w, outcome, terminal, throws) ==
    work' = [work EXCEPT ![w].at = "marking", ![w].outcome = outcome,
                         ![w].terminal = terminal, ![w].throws = throws]

BeginRequest(w) ==
    /\ At(w, "delaying")
    /\ ~(CrawlDelay /\ ctl.aborted)
    /\ activeRequests' = activeRequests + 1
    /\ work' = [work EXCEPT ![w].at = "fetching", ![w].started = TRUE]
    /\ NoFault
    /\ UNCHANGED <<controllerVars, req, active, ready, heartbeat, renewals>>

(* abortableDelay() rejects: finishUnstartedLease() cancels the lease, and *)
(* then processLease() fails the run with the AbortDelayError.             *)
DelayAborted(w) ==
    /\ At(w, "delaying")
    /\ CrawlDelay /\ ctl.aborted
    /\ ToMark(w, "cancelled", TRUE, TRUE)
    /\ NoFault
    /\ UNCHANGED <<controllerVars, req, active, ready, activeRequests,
                   heartbeat, renewals>>

(* crawlDelayMsFor() rejects: finishUnstartedLease() gives the lease back. *)
RobotsFail(w) ==
    /\ At(w, "delaying")
    /\ Fault
    /\ ToMark(w, IF ctl.aborted THEN "cancelled" ELSE "released", TRUE, TRUE)
    /\ UNCHANGED <<controllerVars, req, active, ready, activeRequests,
                   heartbeat, renewals>>

(* A page's links, or a hook's context.enqueue(): RequestScheduler.admit() *)
Discover(w, r) ==
    /\ work[w].at \in {"fetching", "processing"}
    /\ req[r] = "absent"
    /\ IF Cardinality(Requests \ In("absent")) < MaxScheduled
       THEN /\ req' = [req EXCEPT ![r] = "pending"]
            /\ UNCHANGED ctl
       ELSE /\ ctl' = noteLimit(ctl, "soft")
            /\ UNCHANGED req
    /\ NoFault
    /\ UNCHANGED <<fetched, timeUp, active, ready, activeRequests, work,
                   heartbeat, renewals>>

(* A response: recordFetched().                                            *)
Fetched(w) ==
    /\ At(w, "fetching")
    /\ ~ctl.aborted
    /\ fetched' = fetched + 1
    /\ ctl' = refreshLimits(ctl, fetched + 1)
    /\ work' = [work EXCEPT ![w].at = "processing"]
    /\ NoFault
    /\ UNCHANGED <<timeUp, req, active, ready, activeRequests, heartbeat, renewals>>

Processed(w) ==
    /\ At(w, "processing")
    /\ ToMark(w, "handled", TRUE, FALSE)
    /\ NoFault
    /\ UNCHANGED <<controllerVars, req, active, ready, activeRequests,
                   heartbeat, renewals>>

(* The other ends of handle(): policy or middleware skip the request, the  *)
(* transport or a middleware fails it, or it was aborted.                  *)
NotFetched(w) ==
    /\ At(w, "fetching")
    /\ \/ \E terminal \in BOOLEAN : ToMark(w, "skipped", terminal, FALSE)
       \/ \E terminal \in BOOLEAN : ToMark(w, "failed", terminal, FALSE)
       \/ ctl.aborted /\ ToMark(w, "cancelled", TRUE, FALSE)
    /\ NoFault
    /\ UNCHANGED <<controllerVars, req, active, ready, activeRequests,
                   heartbeat, renewals>>

(* A middleware cancels the run.                                           *)
MiddlewareCancels(w) ==
    /\ At(w, "fetching")
    /\ ctl' = cancel(ctl)
    /\ ToMark(w, "cancelled", FALSE, FALSE)
    /\ NoFault
    /\ UNCHANGED <<fetched, timeUp, req, active, ready, activeRequests,
                   heartbeat, renewals>>

(* The catch block of handle(): an error ends the request as cancelled     *)
(* under an aborted signal, as failed otherwise, and fails the run unless  *)
(* it comes from an extension in mode "fail-request".                      *)
CaughtIn(w, isExtension) ==
    IF ctl.aborted
    THEN ToMark(w, "cancelled", TRUE, FALSE)
    ELSE ToMark(w, "failed", TRUE, ~(isExtension /\ FailureMode = "fail-request"))

HandlerThrows(w) ==
    /\ work[w].at \in {"fetching", "processing"}
    /\ \/ Fault /\ CaughtIn(w, FALSE)
       \/ ExtensionFault /\ CaughtIn(w, TRUE)
       \/ ctl.aborted /\ NoFault /\ CaughtIn(w, FALSE)
    /\ UNCHANGED <<controllerVars, req, active, ready, activeRequests,
                   heartbeat, renewals>>

-----------------------------------------------------------------------------
(* The terminal call and the end of processLease().                        *)

(* Frontier calls are served in order (AsyncMutex): a renewal asked for    *)
(* during the terminal call is late, and its turn comes when the call has  *)
(* settled.                                                                *)
NoLongerLate(w) ==
    heartbeat' = [heartbeat EXCEPT ![w] = IF @ = "late" THEN "renewing" ELSE @]

(* The finally block also clears the heartbeat's timer.                    *)
ClearTimer(w) ==
    heartbeat' = [heartbeat EXCEPT ![w] = CASE @ = "armed" -> "off"
                                            [] @ = "late"  -> "renewing"
                                            [] OTHER       -> @]

(* handle() or finishUnstartedLease() returns, or throws after all it had  *)
(* to do; then the catch block of processLease() fails the run.            *)
Complete(w) ==
    /\ ctl' = IF work[w].throws THEN fail(ctl) ELSE ctl
    /\ work' = [work EXCEPT ![w].at = "closing", ![w].held = FALSE]
    /\ ClearTimer(w)

(* A terminal call throws.  If it was made inside the try block of         *)
(* handle() with terminal unset, the catch block makes another one; if     *)
(* not, processLease() ends.  An error of finishUnstartedLease() skips the *)
(* controller.                                                             *)
TerminalThrows(w, isExtension) ==
    IF work[w].terminal
    THEN /\ ctl' = IF work[w].started THEN fail(ctl) ELSE ctl
         /\ work' = [work EXCEPT ![w].at = "closing", ![w].throws = TRUE]
         /\ ClearTimer(w)
    ELSE /\ CaughtIn(w, isExtension)
         /\ NoLongerLate(w)
         /\ UNCHANGED ctl

Marked(w) ==
    /\ At(w, "marking")
    /\ work[w].held
    /\ heartbeat[w] # "renewing"
    /\ IF work[w].outcome = "released"
       THEN /\ req' = [req EXCEPT ![Job(w)] = "pending"]
            /\ Complete(w)
       ELSE /\ req' = [req EXCEPT ![Job(w)] = work[w].outcome]
            /\ work' = [work EXCEPT ![w].at = "recording", ![w].held = FALSE]
            /\ NoLongerLate(w)
            /\ UNCHANGED ctl
    /\ NoFault
    /\ UNCHANGED <<fetched, timeUp, active, ready, activeRequests, renewals>>

(* The append fails, or assertActive() throws: the request is terminal     *)
(* already.                                                                *)
MarkFails(w) ==
    /\ At(w, "marking")
    /\ heartbeat[w] # "renewing"
    /\ IF work[w].held THEN Fault ELSE NoFault
    /\ TerminalThrows(w, FALSE)
    /\ UNCHANGED <<fetched, timeUp, req, active, ready, activeRequests, renewals>>

Recorded(w) ==
    /\ At(w, "recording")
    /\ IF work[w].outcome = "failed"
       THEN /\ work' = [work EXCEPT ![w].at = "reporting"]
            /\ UNCHANGED <<ctl, heartbeat>>
       ELSE Complete(w)
    /\ NoFault
    /\ UNCHANGED <<fetched, timeUp, req, active, ready, activeRequests, renewals>>

(* TerminalPersistenceError is always rethrown.                            *)
RecordFails(w) ==
    /\ At(w, "recording")
    /\ Fault
    /\ ctl' = IF work[w].started THEN fail(ctl) ELSE ctl
    /\ work' = [work EXCEPT ![w].at = "closing", ![w].throws = TRUE]
    /\ ClearTimer(w)
    /\ UNCHANGED <<fetched, timeUp, req, active, ready, activeRequests, renewals>>

Reported(w) ==
    /\ At(w, "reporting")
    /\ Complete(w)
    /\ NoFault
    /\ UNCHANGED <<fetched, timeUp, req, active, ready, activeRequests, renewals>>

ReportFails(w) ==
    /\ At(w, "reporting")
    /\ \/ Fault /\ TerminalThrows(w, FALSE)
       \/ ExtensionFault /\ TerminalThrows(w, TRUE)
    /\ UNCHANGED <<fetched, timeUp, req, active, ready, activeRequests, renewals>>

(* Mutant: the origin is not released.                                     *)
CloseReserved(w) ==
    /\ At(w, "closing")
    /\ heartbeat[w] # "renewing"
    /\ ctl' = IF heartbeat[w] = "failed" THEN fail(ctl) ELSE ctl
    /\ heartbeat' = [heartbeat EXCEPT ![w] = "off"]
    /\ activeRequests' = IF work[w].started THEN activeRequests - 1 ELSE activeRequests
    /\ work' = [work EXCEPT ![w] = AtRest(IF @.throws THEN "rejected" ELSE "idle")]
    /\ NoFault
    /\ UNCHANGED <<fetched, timeUp, req, active, ready, renewals>>

(* The heartbeat's chain has settled: the rest of the finally block.       *)
Close(w) ==
    /\ At(w, "closing")
    /\ heartbeat[w] # "renewing"
    /\ ctl' = IF heartbeat[w] = "failed" THEN fail(ctl) ELSE ctl
    /\ heartbeat' = [heartbeat EXCEPT ![w] = "off"]
    /\ activeRequests' = IF work[w].started THEN activeRequests - 1 ELSE activeRequests
    /\ active' = [active EXCEPT ![Origin[Job(w)]] = @ - 1]
    /\ ready' = [ready EXCEPT ![Origin[Job(w)]] = FALSE]
    /\ work' = [work EXCEPT ![w] = AtRest(IF @.throws THEN "rejected" ELSE "idle")]
    /\ NoFault
    /\ UNCHANGED <<fetched, timeUp, req, renewals>>

-----------------------------------------------------------------------------
(* LeaseHeartbeat: renewLease() every leaseRenewalIntervalMs.              *)

RenewalStarts(w) ==
    /\ heartbeat[w] = "armed"
    /\ renewals < MaxRenewals
    /\ renewals' = renewals + 1
    /\ heartbeat' = [heartbeat EXCEPT ![w] =
                         IF At(w, "marking") THEN "late" ELSE "renewing"]
    /\ NoFault
    /\ UNCHANGED <<controllerVars, req, active, ready, activeRequests, work>>

Renewed(w) ==
    /\ heartbeat[w] = "renewing"
    /\ work[w].held
    /\ heartbeat' = [heartbeat EXCEPT ![w] = IF At(w, "closing") THEN "off" ELSE "armed"]
    /\ NoFault
    /\ UNCHANGED <<controllerVars, req, active, ready, activeRequests, work, renewals>>

(* The append fails, or the lease has ended before the renewal came to its *)
(* turn.                                                                   *)
RenewalFails(w) ==
    /\ heartbeat[w] = "renewing"
    /\ IF work[w].held THEN Fault ELSE NoFault
    /\ heartbeat' = [heartbeat EXCEPT ![w] = "failed"]
    /\ ctl' = fail(ctl)
    /\ UNCHANGED <<fetched, timeUp, req, active, ready, activeRequests, work, renewals>>

(* The origin's delay has passed and its tokens are back.                  *)
OriginReady(o) ==
    /\ ~ready[o]
    /\ ready' = [ready EXCEPT ![o] = TRUE]
    /\ NoFault
    /\ UNCHANGED <<controllerVars, req, active, activeRequests, work,
                   heartbeat, renewals>>

-----------------------------------------------------------------------------
(* What a worker goes on to do on its own.                                 *)
Proceed(w) ==
    \/ \E r \in Requests : LeaseNext(w, r)
    \/ LeaseNothing(w) \/ LeaveLoop(w) \/ Wake(w)
    \/ LeaseGranted(w) \/ BeginRequest(w) \/ DelayAborted(w)
    \/ Fetched(w) \/ Processed(w) \/ NotFetched(w)
    \/ Marked(w) \/ Recorded(w) \/ Reported(w) \/ Close(w) \/ Renewed(w)
    \/ MarkFails(w) \/ RenewalFails(w)

Disturb(w) ==
    \/ LeaseFails(w) \/ RobotsFail(w) \/ HandlerThrows(w)
    \/ RecordFails(w) \/ ReportFails(w)
    \/ MiddlewareCancels(w) \/ RenewalStarts(w)
    \/ \E r \in Requests : Discover(w, r)

PoolNext ==
    \/ \E w \in Workers : Proceed(w) \/ Disturb(w)
    \/ \E o \in Origins : OriginReady(o)

Settled == \A w \in Workers : work[w].at \in {"ended", "rejected"}
Rejected == \E w \in Workers : work[w].at = "rejected"
=============================================================================
