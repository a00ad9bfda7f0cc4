------------------------------ MODULE CrawlRun ------------------------------
(***************************************************************************)
(* A whole run: CrawlerRuntime.run() and RuntimeFinalization.finalize()    *)
(* (src/src/crawler/runtime), with the statuses RunFinalizer computes,     *)
(* around the worker pool.  abort() may come at any time, and onEvent      *)
(* hooks run beside everything that emits events.                          *)
(***************************************************************************)
EXTENDS WorkerPool

CONSTANTS MaxHookFaults  \* bound: how many run-scoped hooks throw

ASSUME RunAssumption == MaxHookFaults \in Nat

VARIABLES stage,         \* the await run() or finalize() is at
          storeOpen,     \* storeInitialized
          result,        \* finalize()'s result: its status and stop detail
          manifest,      \* manifest.json: the same
          since,         \* history: what happened since the result was made
          hookFaults

vars == <<controllerVars, poolVars, stage, storeOpen, result, manifest, since, hookFaults>>
runVars == <<stage, storeOpen, result, manifest, since, hookFaults>>

Stage == {"opening",      \* store.init()
          "preparing",    \* frontier.init()
          "bootstrapping",\* onRunStart, enqueueSeeds(), discoverSitemaps()
          "pool",         \* workerPool.run()
          "draining",     \* dispatcher.drain(), onRunFinish
          "closing",      \* closeAuxiliary()
          "persisting", "flushing",       \* persistResult(), drain()
          "announcing",   \* invokeTerminalHook()
          "repersisting", "reflushing",   \* the same again
          "storeClosing", \* closeStore()
          "finished"}

RunStatus == {"completed", "partial", "failed", "aborted", "stopped_by_limit"}

Outcome == [status : RunStatus, stop : Stop]
NoOutcome == [status |-> "none", stop |-> "none"]

(* An abort and a failing hook after the result was made; a write of the   *)
(* manifest that failed, the last one so far.                              *)
LateEvent == {"abort", "hook", "write"}

TypeOK ==
    /\ ControllerTypeOK
    /\ PoolTypeOK
    /\ stage \in Stage
    /\ storeOpen \in BOOLEAN
    /\ result \in Outcome \cup {NoOutcome}
    /\ manifest \in Outcome \cup {NoOutcome}
    /\ since \subseteq LateEvent
    /\ hookFaults \in 0..MaxHookFaults

Init ==
    /\ ControllerInit
    /\ PoolInit
    /\ stage = "opening"
    /\ storeOpen = FALSE
    /\ result = NoOutcome
    /\ manifest = NoOutcome
    /\ since = {}
    /\ hookFaults = 0

(* statusForRun, of the controller's fatal error and stop reason           *)
statusForRun(c) ==
    IF c.stop = "fatal" THEN "failed"
    ELSE IF c.stop = "cancelled" THEN "aborted"
    ELSE IF c.stop \in {"soft", "hard"} THEN "stopped_by_limit"
    ELSE IF In("failed") = {} THEN "completed"
    ELSE IF fetched = 0 THEN "failed"
    ELSE "partial"

(* RunFinalizer.result(), of the controller as it is at the moment          *)
currentResult(c) == [status |-> statusForRun(c), stop |-> c.stop]

(* A run-scoped hook throws and the failure is passed on: "fail-request"   *)
(* counts as "fail-run" here.                                              *)
HookFault ==
    /\ FailureMode # "record"
    /\ hookFaults < MaxHookFaults
    /\ hookFaults' = hookFaults + 1
    /\ NoFault

NoHookFault == UNCHANGED hookFaults

(* Of the worker pool, only the fault counters change outside of it.       *)
OutsidePool == UNCHANGED <<fetched, timeUp, req, active, ready, activeRequests,
                           work, heartbeat, renewals>>

-----------------------------------------------------------------------------
(* run()                                                                   *)

Opened ==
    /\ stage = "opening"
    /\ stage' = "preparing"
    /\ storeOpen' = TRUE
    /\ manifest' = [status |-> "partial", stop |-> ctl.stop]
    /\ OutsidePool /\ NoFault /\ NoHookFault
    /\ UNCHANGED <<ctl, result, since>>

Prepared ==
    /\ stage = "preparing"
    /\ stage' = "bootstrapping"
    /\ ctl' = inPhase(ctl, "running")
    /\ OutsidePool /\ NoFault /\ NoHookFault
    /\ UNCHANGED <<storeOpen, result, manifest, since>>

Bootstrapped ==
    /\ stage = "bootstrapping"
    /\ stage' = "pool"
    /\ \E admitted \in SUBSET Seeds :
          /\ Cardinality(admitted) =
                IF Cardinality(Seeds) <= MaxScheduled THEN Cardinality(Seeds)
                                                      ELSE MaxScheduled
          /\ req' = [r \in Requests |-> IF r \in admitted THEN "pending" ELSE "absent"]
          /\ ctl' = IF admitted = Seeds THEN ctl ELSE noteLimit(ctl, "soft")
    /\ NoFault /\ NoHookFault
    /\ UNCHANGED <<fetched, timeUp, active, ready, activeRequests, work, heartbeat,
                   renewals, storeOpen, result, manifest, since>>

(* captureFatal(), and the start of finalize()                             *)
StartFails ==
    /\ stage \in {"opening", "preparing", "bootstrapping"}
    /\ \/ Fault /\ NoHookFault
       \/ stage = "bootstrapping" /\ HookFault
    /\ ctl' = beginDraining(fail(ctl))
    /\ stage' = "draining"
    /\ OutsidePool
    /\ UNCHANGED <<storeOpen, result, manifest, since>>

PoolStep ==
    /\ stage = "pool"
    /\ PoolNext
    /\ UNCHANGED runVars

(* Mutant: the workers' errors are settled and dropped.                    *)
PoolEndsQuietly ==
    /\ stage = "pool"
    /\ Settled
    /\ ctl' = beginDraining(completeFrontier(ctl))
    /\ stage' = "draining"
    /\ OutsidePool /\ NoFault /\ NoHookFault
    /\ UNCHANGED <<storeOpen, result, manifest, since>>

PoolEnds ==
    /\ stage = "pool"
    /\ Settled
    /\ ctl' = beginDraining(IF Rejected THEN fail(ctl) ELSE completeFrontier(ctl))
    /\ stage' = "draining"
    /\ OutsidePool /\ NoFault /\ NoHookFault
    /\ UNCHANGED <<storeOpen, result, manifest, since>>

-----------------------------------------------------------------------------
(* finalize()                                                              *)

Drained ==
    /\ stage = "draining"
    /\ \/ ctl' = inPhase(ctl, "finalizing") /\ NoFault /\ NoHookFault
       \/ ctl' = inPhase(fail(ctl), "finalizing") /\ HookFault   \* onRunFinish
    /\ stage' = "closing"
    /\ OutsidePool
    /\ UNCHANGED <<storeOpen, result, manifest, since>>

(* The result is made by the controller of this moment, and made again     *)
(* only when something fails on the way; an abort or a hook of             *)
(* "storage-flushed" that fails later is not told by it.                   *)
CloseAuxiliary ==
    /\ stage = "closing"
    /\ \/ NoFault /\ ctl' = ctl
       \/ Fault /\ ctl' = fail(ctl)
    /\ result' = currentResult(ctl')
    /\ since' = {}
    /\ stage' = IF storeOpen THEN "persisting" ELSE "announcing"
    /\ OutsidePool /\ NoHookFault
    /\ UNCHANGED <<storeOpen, manifest>>

(* RunFinalizer.manifest() takes the status of the result it is given and  *)
(* the stop detail of the moment.                                          *)
Written(told, c) == [status |-> told.status, stop |-> c.stop]

(* What a failed write leaves behind, with tryPersistMetadata() after it.  *)
AfterFailedWrite(c) ==
    {manifest, Written(result, ctl), currentResult(c)}

PersistResult(from, to) ==
    /\ stage = from
    /\ \/ /\ NoFault
          /\ manifest' = Written(result, ctl)
          /\ since' = since \ {"write"}
          /\ UNCHANGED <<ctl, result>>
       \/ /\ Fault
          /\ ctl' = fail(ctl)
          /\ result' = currentResult(ctl')
          /\ manifest' \in AfterFailedWrite(ctl')
          /\ since' = {"write"}
    /\ stage' = to
    /\ OutsidePool /\ NoHookFault
    /\ UNCHANGED storeOpen

(* The hooks of "storage-flushed" have been waited for.                    *)
Flushed(from, to) ==
    /\ stage = from
    /\ stage' = to
    /\ OutsidePool /\ NoFault /\ NoHookFault
    /\ UNCHANGED <<ctl, storeOpen, result, manifest, since>>

TerminalHook(next) ==
    LET end(c) == IF storeOpen THEN c ELSE inPhase(c, "closed") IN
    /\ stage = "announcing"
    /\ \/ /\ NoFault /\ NoHookFault
          /\ ctl' = end(ctl)
          /\ UNCHANGED <<result, since>>
       \/ /\ HookFault
          /\ ctl' = end(fail(ctl))
          /\ result' = currentResult(ctl')
          /\ since' = since \cap {"write"}
    /\ stage' = IF storeOpen THEN next ELSE "finished"
    /\ OutsidePool
    /\ UNCHANGED <<storeOpen, manifest>>

(* Mutant: the manifest is not written again after the hook.               *)
InvokeTerminalHookLast == TerminalHook("storeClosing")

(* The phase is closed with the terminal event, in the turn of the last    *)
(* await's end.                                                            *)
InvokeTerminalHook == TerminalHook("repersisting")

(* Mutant: the result is returned as it was.                               *)
CloseStoreIgnored ==
    /\ stage = "storeClosing"
    /\ \/ NoFault /\ ctl' = inPhase(ctl, "closed")
       \/ Fault /\ ctl' = inPhase(fail(ctl), "closed")
    /\ stage' = "finished"
    /\ OutsidePool /\ NoHookFault
    /\ UNCHANGED <<storeOpen, result, manifest, since>>

CloseStore ==
    /\ stage = "storeClosing"
    /\ \/ /\ NoFault
          /\ ctl' = inPhase(ctl, "closed")
          /\ UNCHANGED <<result, manifest, since>>
       \/ /\ Fault
          /\ ctl' = inPhase(fail(ctl), "closed")
          /\ result' = currentResult(ctl')
          /\ manifest' \in {manifest, result'}
          /\ since' = {"write"}
    /\ stage' = "finished"
    /\ OutsidePool /\ NoHookFault
    /\ UNCHANGED storeOpen

-----------------------------------------------------------------------------
(* What comes from outside                                                 *)

Late(event) == since' = IF result = NoOutcome THEN since ELSE since \cup {event}

(* abort(), of the caller, a signal handler or the AbortRequestMonitor     *)
Abort ==
    /\ stage # "finished"
    /\ ~ctl.aborted
    /\ ctl' = cancel(ctl)
    /\ Late("abort")
    /\ OutsidePool /\ NoFault /\ NoHookFault
    /\ UNCHANGED <<stage, storeOpen, result, manifest>>

(* An onEvent hook throws: onFatalExtensionFailure.  Before the hooks are  *)
(* drained, while those of "storage-flushed" are, and whenever abort() has *)
(* emitted "cancellation-requested".                                       *)
EventHookFails ==
    /\ stage # "finished"
    /\ ctl.aborted \/ stage \in {"bootstrapping", "pool", "draining", "flushing", "reflushing"}
    /\ HookFault
    /\ ctl' = fail(ctl)
    /\ Late("hook")
    /\ OutsidePool
    /\ UNCHANGED <<stage, storeOpen, result, manifest>>

RunTimePasses ==
    /\ stage = "pool"
    /\ TimePasses
    /\ UNCHANGED <<poolVars, runVars>>

-----------------------------------------------------------------------------
RunStep ==
    \/ Opened \/ Prepared \/ Bootstrapped \/ PoolEnds
    \/ Drained \/ CloseAuxiliary
    \/ PersistResult("persisting", "flushing") \/ Flushed("flushing", "announcing")
    \/ InvokeTerminalHook
    \/ PersistResult("repersisting", "reflushing") \/ Flushed("reflushing", "storeClosing")
    \/ CloseStore

Next ==
    \/ RunStep \/ StartFails \/ PoolStep
    \/ Abort \/ EventHookFails \/ RunTimePasses

Spec == Init /\ [][Next]_vars

(* The event loop runs what is ready; calls of the transport, the storage  *)
(* and the extensions return.  Nothing is assumed of maxRunTimeMs.         *)
WorkerProceeds(w) == stage = "pool" /\ Proceed(w) /\ UNCHANGED runVars
OriginBecomesReady(o) == stage = "pool" /\ OriginReady(o) /\ UNCHANGED runVars

Fairness ==
    /\ WF_vars(RunStep)
    /\ \A w \in Workers : WF_vars(WorkerProceeds(w))
    /\ \A o \in Origins : WF_vars(OriginBecomesReady(o))

FairSpec == Spec /\ Fairness

-----------------------------------------------------------------------------
Finished == stage = "finished"

(* The politeness controller's counts and the controller's activeRequests  *)
(* are those of the workers: every path through leaseNext() and            *)
(* processLease() that reserved an origin gives it back once, and no       *)
(* origin is ever fetched from more than maxConcurrencyPerOrigin times at  *)
(* once.                                                                   *)
ReservationsBalanced ==
    /\ \A o \in Origins :
          /\ active[o] = Cardinality({w \in Workers : Job(w) # NoRequest
                                                   /\ Origin[Job(w)] = o})
          /\ active[o] <= MaxPerOrigin
    /\ activeRequests = Cardinality({w \in Workers : work[w].started})

(* A request is processed by one worker at a time; a lease nobody works on *)
(* any more is left behind only by a worker that failed, and a run that    *)
(* ends with one ends as fatal, for resume to recover.                     *)
LeasesOwned ==
    /\ \A w, v \in Workers : Job(w) = Job(v) => w = v \/ Job(w) = NoRequest
    /\ \A r \in In("leased") : Rejected \/ \E w \in Workers : Job(w) = r
    /\ Finished /\ In("leased") # {} => ctl.stop = "fatal"

(* A run that says its frontier is empty, or that it only stopped          *)
(* admitting, has brought every request it accepted to a terminal state,   *)
(* although a worker may leave workerLoop while another one's lease is     *)
(* still being appended.                                                   *)
FrontierDrained ==
    Finished /\ ctl.stop \in {"frontier-empty", "soft"}
        => \A r \in Requests : req[r] \in TerminalState \cup {"absent"}

(* A hard limit stops leasing, not the requests in flight: every response  *)
(* that was counted is handled ("it stops admission without discarding the *)
(* response that crossed the boundary", docs/crawling.md), and the limit   *)
(* is crossed by at most one response of each other worker.                *)
LimitKeepsResponses ==
    /\ Finished /\ ctl.stop = "hard" /\ extensionFaults = 0
          => fetched = Cardinality(In("handled"))
    /\ fetched < MaxFetched + Cardinality(Workers)

(* What a stop leaves behind: no lease without an owner and no response    *)
(* unhandled.                                                              *)
WorkKept == LeasesOwned /\ LimitKeepsResponses

Overtaken == since \cap {"abort", "hook"} # {}

(* The result tells why the run stopped, as of its end unless an abort or  *)
(* a hook overtook it; nothing but a hook that fails after it was made     *)
(* hides a failure ("Failures during close or persistence change the final *)
(* status instead of being ignored", docs/crawling.md).                    *)
FailuresReported ==
    Finished => /\ result = currentResult(ctl) \/ Overtaken
                /\ ctl.stop = "fatal" => result.status = "failed" \/ "hook" \in since

(* When run-finished is announced and when the run is over, the manifest   *)
(* on disk says what the result says (tests/lifecycle.test.mjs, the        *)
(* terminal manifest), its stop detail included, unless its last write     *)
(* failed, or the stop detail changed after the result was made.           *)
ManifestAgrees ==
    stage \in {"announcing", "finished"} /\ storeOpen /\ "write" \notin since
        => /\ manifest.status = result.status
           /\ manifest.stop = result.stop \/ Overtaken

(* The result and the manifest tell how the run ended, on every way out of *)
(* finalization.                                                           *)
OutcomeTold == FailuresReported /\ ManifestAgrees

(* Every run ends, without its time limit, unless a worker failed and left *)
(* a lease behind: the others then wait for that request until             *)
(* maxRunTimeMs have passed.                                               *)
LeaseStranded == Rejected /\ \E r \in In("leased") : \A w \in Workers : Job(w) # r
RunEnds == <>Finished \/ <>[](LeaseStranded /\ ~timeUp)

-----------------------------------------------------------------------------
(* Statements of the documents and the tests that the code does not keep.  *)

(* Cancelling a run in which nothing fails ends it as aborted, not as      *)
(* failed: "SIGINT and SIGTERM request graceful cancellation" (README.md), *)
(* "Explicit cancellation aborts active work and terminalizes affected     *)
(* leases as cancelled" (docs/crawling.md).  A worker in its robots delay  *)
(* does terminalize its lease, and then fails the run.                     *)
CancellationIsNotFatal ==
    ctl.stop = "fatal" => faults + extensionFaults + hookFaults > 0
=============================================================================
