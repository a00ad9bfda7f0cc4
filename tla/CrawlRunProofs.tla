--------------------------- MODULE CrawlRunProofs ---------------------------
(***************************************************************************)
(* Proofs about CrawlRun, for any workers, requests, origins, limits and   *)
(* numbers of faults.                                                      *)
(*                                                                         *)
(* What an await of a worker may assume when it returns is what the        *)
(* inductive invariant has to say: where a worker is tells what it has     *)
(* taken (WorkCoherent), no two have the same request (JobsUnique), and    *)
(* where the run is tells the controller's phase and what has begun        *)
(* (Staged).  Counting workers then gives the reservations.                *)
(*                                                                         *)
(* How a run ends -- what it says of the frontier, of its responses and of *)
(* its failures -- is the second half.  A run that ends has forgotten how  *)
(* it came there, so the invariants say it along the way: each lease has   *)
(* its worker until one of them failed (RequestsOwned), the last worker to *)
(* leave saw an empty frontier (PendingServed), and the responses that     *)
(* were counted and not yet handled are with workers (HandledCounted) --   *)
(* unless the run is doomed, that is, a worker has an error with it that   *)
(* will end it as fatal.                                                   *)
(***************************************************************************)
EXTENDS CrawlRun, FiniteSetTheorems, TLAPS

Resting == {"idle", "waiting", "ended", "rejected"}

(* What worker state k says of its request, whose state is s, and of the   *)
(* controller's stop.                                                      *)
Coherent(k, s, stop) ==
    /\ k.at \in Resting => k = AtRest(k.at)
    /\ k.at \notin Resting => k.req \in Requests
    /\ k.at = "leasing" => s = "leasing" /\ ~k.held
    /\ k.at \in {"delaying", "fetching", "processing"} => k.held
    /\ k.at \in {"leasing", "delaying", "fetching", "processing"} => ~k.throws
    /\ k.at \in {"leasing", "delaying"} => ~k.started
    /\ k.held => s = "leased"
    /\ k.at \in {"marking", "recording", "reporting", "closing"} /\ ~k.held
          => s \in TerminalState \/ (k.at = "closing" /\ s = "pending" /\ stop = "fatal")
    /\ k.at \in {"recording", "reporting"} => ~k.held
    /\ k.at \in {"marking", "recording"} => k.outcome # "none"
    /\ k.at = "recording" => k.outcome # "released"
    /\ k.at = "marking" /\ k.outcome = "released" => k.throws
    /\ k.at = "marking" /\ k.outcome = "handled" => k.held
    /\ k.at \in {"marking", "recording", "reporting"} /\ ~k.terminal => ~k.throws
    /\ k.at = "closing" /\ k.held => k.throws

WorkCoherent == \A w \in Workers : Coherent(work[w], req[Job(w)], ctl.stop)

JobsUnique == \A w, v \in Workers : Job(w) = Job(v) => w = v \/ Job(w) = NoRequest

Before == {"opening", "preparing", "bootstrapping"}
AfterResult == {"persisting", "flushing", "announcing", "repersisting", "reflushing",
                "storeClosing", "finished"}

Staged ==
    /\ ctl.aborted => ctl.stop \in {"cancelled", "fatal"}
    /\ stage \in {"opening", "preparing"} => ctl.phase = "initializing"
    /\ stage \in {"bootstrapping", "pool"} => ctl.phase \in {"running", "stopping"}
    /\ stage = "draining" => ctl.phase \in {"initializing", "draining"}
    /\ stage = "closing" \/ stage \in AfterResult \ {"finished"} => ctl.phase = "finalizing"
    /\ stage = "finished" => ctl.phase = "closed"
    /\ stage \in Before => /\ \A w \in Workers : work[w] = AtRest("idle")
                           /\ \A r \in Requests : req[r] = "absent"
                           /\ fetched = 0
    /\ stage \in AfterResult => result \in Outcome

Inv == /\ TypeOK
       /\ WorkCoherent
       /\ JobsUnique
       /\ Staged
       /\ ReservationsBalanced

------------------------------------------------------------------------------
(* The controller.                                                         *)

(* What becomes of controller state c in the turn of a worker.             *)
Later(c, d) ==
    /\ d \in Controller
    /\ stopPriority(d.stop) >= stopPriority(c.stop)
    /\ c.stop = "fatal" => d.stop = "fatal"
    /\ c.aborted => d.aborted
    /\ (c.aborted => c.stop \in {"cancelled", "fatal"})
          => (d.aborted => d.stop \in {"cancelled", "fatal"})
    /\ d.phase = c.phase \/ (c.phase = "running" /\ d.phase = "stopping")

(* A reason to stop takes the place of a weaker one only.                  *)
LEMMA SetStopLater ==
    ASSUME NEW c \in Controller, NEW stop \in Stop, NEW abortActive \in BOOLEAN,
           abortActive => stop \in {"cancelled", "fatal"}
    PROVE  Later(c, setStop(c, stop, abortActive))
<1> DEFINE d == setStop(c, stop, abortActive)
<1>1. /\ c.phase \in RunPhase /\ c.stop \in Stop /\ c.aborted \in BOOLEAN
  BY DEF Controller
<1>2. /\ d.phase = IF c.phase = "running" THEN "stopping" ELSE c.phase
      /\ d.stop = IF stopPriority(stop) > stopPriority(c.stop) THEN stop ELSE c.stop
      /\ d.aborted = (c.aborted \/ abortActive)
      /\ d \in Controller
  BY <1>1 DEF setStop, Controller, RunPhase
<1>3. /\ stopPriority(d.stop) >= stopPriority(c.stop)
      /\ stopPriority(d.stop) >= stopPriority(stop)
  BY <1>1, <1>2 DEF stopPriority, Stop
<1>4. \A x \in Stop : /\ stopPriority(x) >= 4 => x \in {"cancelled", "fatal"}
                      /\ stopPriority(x) >= 5 => x = "fatal"
                      /\ x = "fatal" => stopPriority(x) = 5
                      /\ x \in {"cancelled", "fatal"} => stopPriority(x) >= 4
                      /\ stopPriority(x) \in 0..5
  BY DEF stopPriority, Stop
<1>5. d.stop \in Stop
  BY <1>2 DEF Controller
<1> HIDE DEF d
<1>6. c.stop = "fatal" => d.stop = "fatal"
  BY <1>1, <1>3, <1>4, <1>5
<1>7. (c.aborted => c.stop \in {"cancelled", "fatal"}) => (d.aborted => d.stop \in {"cancelled", "fatal"})
  BY <1>1, <1>2, <1>3, <1>4, <1>5
<1>8. Later(c, d)
  BY <1>1, <1>2, <1>3, <1>6, <1>7 DEF Later
<1>9. QED
  BY <1>8 DEF d

LEMMA ControllerLater ==
    ASSUME NEW c \in Controller, NEW count
    PROVE  /\ Later(c, c) /\ Later(c, refreshLimits(c, count))
           /\ Later(c, noteLimit(c, "soft")) /\ Later(c, cancel(c))
           /\ Later(c, fail(c)) /\ fail(c).stop = "fatal"
<1>1. Later(c, c)
  BY DEF Later, Controller, stopPriority, Stop
<1>2. Later(c, noteLimit(c, "soft")) /\ Later(c, noteLimit(c, "hard"))
  BY SetStopLater DEF noteLimit, Stop
<1>3. Later(c, cancel(c)) /\ Later(c, fail(c))
  BY SetStopLater DEF cancel, fail, Stop
<1>4. fail(c).stop = "fatal"
  BY DEF fail, setStop, Controller, stopPriority, Stop
<1>5. QED
  BY <1>1, <1>2, <1>3, <1>4 DEF refreshLimits

------------------------------------------------------------------------------
(* The pool, one worker at a time.                                         *)

AtOrigin(o) == {w \in Workers : Job(w) # NoRequest /\ Origin[Job(w)] = o}
Started == {w \in Workers : work[w].started}

LEMMA WorkersCounted ==
    \A S \in SUBSET Workers : IsFiniteSet(S) /\ Cardinality(S) \in Nat
BY PoolAssumption, FS_Subset, FS_CardinalityType DEF PoolAssumption

(* Worker w has gone on: what it holds is its own, and it left the others' *)
(* requests alone.                                                         *)
LEMMA WorkerGoesOn ==
    ASSUME Inv, NEW w \in Workers,
           Later(ctl, ctl'),
           work' \in [Workers -> Work],
           \A v \in Workers \ {w} : work'[v] = work[v],
           \A r \in Requests : req'[r] = req[r] \/ r = Job(w) \/ r = work'[w].req \/ req[r] = "absent",
           Coherent(work'[w], req'[work'[w].req], ctl'.stop),
           \/ work'[w].req \in {Job(w), NoRequest}
           \/ \A v \in Workers : Job(v) # work'[w].req
    PROVE  WorkCoherent' /\ JobsUnique'
<1>1. JobsUnique'
  BY DEF Inv, JobsUnique, Job
<1>2. ASSUME NEW v \in Workers \ {w}
      PROVE  Coherent(work[v], req'[Job(v)], ctl'.stop)
  <2>1. Coherent(work[v], req[Job(v)], ctl.stop)
    BY DEF Inv, WorkCoherent
  <2>2. CASE work[v].at \in Resting
    BY <2>1, <2>2 DEF Coherent, AtRest, Resting
  <2>3. CASE work[v].at \notin Resting
    <3>1. Job(v) \in Requests /\ Job(v) # NoRequest
      BY <2>1, <2>3, PoolAssumption DEF Coherent, PoolAssumption, Job
    <3>2. Job(v) # Job(w) /\ Job(v) # work'[w].req
      BY <3>1 DEF Inv, JobsUnique
    <3>3. work[v].at \in Await
      BY DEF Inv, TypeOK, PoolTypeOK, Work
    <3>4. req[Job(v)] # "absent"
      BY <2>1, <2>3, <3>3 DEF Coherent, TerminalState, Await, Resting
    <3>5. req'[Job(v)] = req[Job(v)]
      BY <3>1, <3>2, <3>4
    <3>6. ctl.stop = "fatal" => ctl'.stop = "fatal"
      BY DEF Later
    <3>7. QED
      BY <2>1, <3>5, <3>6 DEF Coherent
  <2>4. QED
    BY <2>2, <2>3
<1>3. WorkCoherent'
  BY <1>2 DEF WorkCoherent, Job
<1>4. QED
  BY <1>1, <1>3

(* Nobody's reservation or request has begun or ended.                     *)
LEMMA BalanceKept ==
    ASSUME Inv, NEW w \in Workers,
           \A v \in Workers \ {w} : work'[v] = work[v],
           work'[w].req = work[w].req, work'[w].started = work[w].started,
           UNCHANGED <<active, activeRequests>>
    PROVE  ReservationsBalanced'
<1>1. \A v \in Workers : work'[v].req = work[v].req /\ work'[v].started = work[v].started
  OBVIOUS
<1>2. \A o : AtOrigin(o)' = AtOrigin(o)
  BY <1>1 DEF AtOrigin, Job
<1>3. Started' = Started
  BY <1>1 DEF Started
<1>4. QED
  BY <1>2, <1>3 DEF Inv, ReservationsBalanced, AtOrigin, Started

(* In the pool, the controller does not leave the phases of the pool.      *)
LEMMA PoolStaged ==
    ASSUME Inv, stage = "pool", UNCHANGED runVars, Later(ctl, ctl')
    PROVE  Staged'
BY DEF Inv, Staged, Later, runVars, Before, AfterResult, TypeOK, ControllerTypeOK

(* A step of worker w that takes and gives back no reservation.            *)
LEMMA WorkerStep ==
    ASSUME Inv, stage = "pool", UNCHANGED runVars, NEW w \in Workers,
           Later(ctl, ctl'),
           work' \in [Workers -> Work],
           \A v \in Workers \ {w} : work'[v] = work[v],
           work'[w].req = work[w].req, work'[w].started = work[w].started,
           \A r \in Requests : req'[r] = req[r] \/ r = Job(w) \/ req[r] = "absent",
           Coherent(work'[w], req'[work'[w].req], ctl'.stop),
           fetched' \in Nat, req' \in [Requests -> ReqState],
           heartbeat' \in [Workers -> {"off", "armed", "renewing", "late", "failed"}],
           renewals' \in 0..MaxRenewals, faults' \in 0..MaxFaults,
           extensionFaults' \in 0..MaxExtensionFaults,
           UNCHANGED <<timeUp, active, ready, activeRequests>>
    PROVE  Inv'
<1>1. WorkCoherent' /\ JobsUnique'
  BY WorkerGoesOn DEF Job
<1>2. ReservationsBalanced'
  BY BalanceKept
<1>3. Staged'
  BY PoolStaged
<1>4. TypeOK'
  BY DEF Inv, TypeOK, ControllerTypeOK, PoolTypeOK, Later, runVars
<1>5. QED
  BY <1>1, <1>2, <1>3, <1>4 DEF Inv

(* What every proof about a step of a worker starts from.                  *)
Typed(w) ==
    /\ ctl \in Controller /\ fetched \in Nat
    /\ work \in [Workers -> Work] /\ work[w] \in Work
    /\ req \in [Requests -> ReqState]
    /\ heartbeat \in [Workers -> {"off", "armed", "renewing", "late", "failed"}]
    /\ renewals \in 0..MaxRenewals /\ faults \in 0..MaxFaults
    /\ extensionFaults \in 0..MaxExtensionFaults
    /\ Coherent(work[w], req[work[w].req], ctl.stop)
    /\ ctl.aborted => ctl.stop \in {"cancelled", "fatal"}

LEMMA WorkerTyped ==
    ASSUME Inv, NEW w \in Workers
    PROVE  Typed(w)
BY DEF Typed, Inv, TypeOK, ControllerTypeOK, PoolTypeOK, WorkCoherent, Staged, Job

(* A worker with nothing to do stays one.                                  *)
LEMMA WorkerRests ==
    ASSUME NEW w \in Workers, Typed(w), work[w].at \in {"idle", "waiting"},
           NEW at \in {"idle", "waiting", "ended"},
           work' = [work EXCEPT ![w] = AtRest(at)]
    PROVE  /\ work' \in [Workers -> Work] /\ work'[w] = AtRest(at)
           /\ \A v \in Workers \ {w} : work'[v] = work[v]
           /\ work'[w].req = work[w].req /\ work'[w].started = work[w].started
           /\ Coherent(work'[w], req'[work'[w].req], ctl'.stop)
<1>1. work[w] = AtRest(work[w].at)
  BY DEF Typed, Coherent, Resting
<1>2. work[w].req = NoRequest /\ work[w].started = FALSE
  BY <1>1 DEF AtRest
<1>3. AtRest(at) \in Work /\ AtRest(at).req = NoRequest /\ AtRest(at).started = FALSE
  BY DEF AtRest, Work, Await
<1>4. \A s, stop : Coherent(AtRest(at), s, stop)
  BY DEF Coherent, AtRest, Resting
<1>5. QED
  BY <1>2, <1>3, <1>4 DEF Typed

(* Faults are counted.                                                     *)
LEMMA FaultCounted ==
    ASSUME Inv, Fault \/ ExtensionFault \/ NoFault
    PROVE  faults' \in 0..MaxFaults /\ extensionFaults' \in 0..MaxExtensionFaults
BY PoolAssumption DEF PoolAssumption, Inv, TypeOK, PoolTypeOK, Fault, ExtensionFault, NoFault

------------------------------------------------------------------------------
(* One lemma per action of a worker.                                       *)

LEMMA LeaseNothingInv ==
    ASSUME Inv, stage = "pool", UNCHANGED runVars, NEW w \in Workers, LeaseNothing(w)
    PROVE  Later(ctl, ctl') /\ Inv'
<1> USE DEF Typed, LeaseNothing, At, controllerVars
<1>1. Typed(w)
  BY WorkerTyped
<1>2. Later(ctl, ctl')
  BY <1>1, ControllerLater
<1>3. /\ work' \in [Workers -> Work] /\ \A v \in Workers \ {w} : work'[v] = work[v]
      /\ work'[w].req = work[w].req /\ work'[w].started = work[w].started
  BY <1>1, WorkerRests
<1>4. req' \in [Requests -> ReqState] /\ \A q \in Requests : req'[q] = req[q] \/ q = Job(w) \/ req[q] = "absent"
  BY <1>1 DEF ReqState, TerminalState, Job, Coherent, Work
<1>5. Coherent(work'[w], req'[work'[w].req], ctl'.stop)
  BY <1>1, WorkerRests
<1>6. /\ fetched' \in Nat /\ renewals' \in 0..MaxRenewals
      /\ heartbeat' \in [Workers -> {"off", "armed", "renewing", "late", "failed"}]
      /\ UNCHANGED <<timeUp, active, ready, activeRequests>>
  BY <1>1, PoolAssumption DEF PoolAssumption
<1>7. faults' \in 0..MaxFaults /\ extensionFaults' \in 0..MaxExtensionFaults
  BY FaultCounted
<1>8. QED
  BY <1>2, <1>3, <1>4, <1>5, <1>6, <1>7, WorkerStep

LEMMA LeaveLoopInv ==
    ASSUME Inv, stage = "pool", UNCHANGED runVars, NEW w \in Workers, LeaveLoop(w)
    PROVE  Later(ctl, ctl') /\ Inv'
<1> USE DEF Typed, LeaveLoop, At, controllerVars
<1>1. Typed(w)
  BY WorkerTyped
<1>2. Later(ctl, ctl')
  BY <1>1, ControllerLater
<1>3. /\ work' \in [Workers -> Work] /\ \A v \in Workers \ {w} : work'[v] = work[v]
      /\ work'[w].req = work[w].req /\ work'[w].started = work[w].started
  BY <1>1, WorkerRests
<1>4. req' \in [Requests -> ReqState] /\ \A q \in Requests : req'[q] = req[q] \/ q = Job(w) \/ req[q] = "absent"
  BY <1>1 DEF ReqState, TerminalState, Job, Coherent, Work
<1>5. Coherent(work'[w], req'[work'[w].req], ctl'.stop)
  BY <1>1, WorkerRests
<1>6. /\ fetched' \in Nat /\ renewals' \in 0..MaxRenewals
      /\ heartbeat' \in [Workers -> {"off", "armed", "renewing", "late", "failed"}]
      /\ UNCHANGED <<timeUp, active, ready, activeRequests>>
  BY <1>1, PoolAssumption DEF PoolAssumption
<1>7. faults' \in 0..MaxFaults /\ extensionFaults' \in 0..MaxExtensionFaults
  BY FaultCounted
<1>8. QED
  BY <1>2, <1>3, <1>4, <1>5, <1>6, <1>7, WorkerStep

LEMMA WakeInv ==
    ASSUME Inv, stage = "pool", UNCHANGED runVars, NEW w \in Workers, Wake(w)
    PROVE  Later(ctl, ctl') /\ Inv'
<1> USE DEF Typed, Wake, At, controllerVars
<1>1. Typed(w)
  BY WorkerTyped
<1>2. Later(ctl, ctl')
  BY <1>1, ControllerLater
<1>3. /\ work' \in [Workers -> Work] /\ \A v \in Workers \ {w} : work'[v] = work[v]
      /\ work'[w].req = work[w].req /\ work'[w].started = work[w].started
  BY <1>1, WorkerRests
<1>4. req' \in [Requests -> ReqState] /\ \A q \in Requests : req'[q] = req[q] \/ q = Job(w) \/ req[q] = "absent"
  BY <1>1 DEF ReqState, TerminalState, Job, Coherent, Work
<1>5. Coherent(work'[w], req'[work'[w].req], ctl'.stop)
  BY <1>1, WorkerRests
<1>6. /\ fetched' \in Nat /\ renewals' \in 0..MaxRenewals
      /\ heartbeat' \in [Workers -> {"off", "armed", "renewing", "late", "failed"}]
      /\ UNCHANGED <<timeUp, active, ready, activeRequests>>
  BY <1>1, PoolAssumption DEF PoolAssumption
<1>7. faults' \in 0..MaxFaults /\ extensionFaults' \in 0..MaxExtensionFaults
  BY FaultCounted
<1>8. QED
  BY <1>2, <1>3, <1>4, <1>5, <1>6, <1>7, WorkerStep

LEMMA LeaseGrantedInv ==
    ASSUME Inv, stage = "pool", UNCHANGED runVars, NEW w \in Workers, LeaseGranted(w)
    PROVE  Later(ctl, ctl') /\ Inv'
<1> USE DEF Typed, LeaseGranted, At, controllerVars
<1>1. Typed(w)
  BY WorkerTyped
<1>2. Later(ctl, ctl')
  BY <1>1, ControllerLater
<1>3. /\ work' \in [Workers -> Work] /\ \A v \in Workers \ {w} : work'[v] = work[v]
      /\ work'[w].req = work[w].req /\ work'[w].started = work[w].started
  BY <1>1 DEF Work, Await, TerminalState, Coherent, Resting, AtRest
<1>4. req' \in [Requests -> ReqState] /\ \A q \in Requests : req'[q] = req[q] \/ q = Job(w) \/ req[q] = "absent"
  BY <1>1 DEF ReqState, TerminalState, Job, Coherent, Work
<1>5. Coherent(work'[w], req'[work'[w].req], ctl'.stop)
  BY <1>1, <1>2, <1>3, ControllerLater DEF Coherent, Work, TerminalState, Resting, Job
<1>6. /\ fetched' \in Nat /\ renewals' \in 0..MaxRenewals
      /\ heartbeat' \in [Workers -> {"off", "armed", "renewing", "late", "failed"}]
      /\ UNCHANGED <<timeUp, active, ready, activeRequests>>
  BY <1>1, PoolAssumption DEF PoolAssumption
<1>7. faults' \in 0..MaxFaults /\ extensionFaults' \in 0..MaxExtensionFaults
  BY FaultCounted
<1>8. QED
  BY <1>2, <1>3, <1>4, <1>5, <1>6, <1>7, WorkerStep

LEMMA DelayAbortedInv ==
    ASSUME Inv, stage = "pool", UNCHANGED runVars, NEW w \in Workers, DelayAborted(w)
    PROVE  Later(ctl, ctl') /\ Inv'
<1> USE DEF Typed, DelayAborted, At, controllerVars, ToMark
<1>1. Typed(w)
  BY WorkerTyped
<1>2. Later(ctl, ctl')
  BY <1>1, ControllerLater
<1>3. /\ work' \in [Workers -> Work] /\ \A v \in Workers \ {w} : work'[v] = work[v]
      /\ work'[w].req = work[w].req /\ work'[w].started = work[w].started
  BY <1>1 DEF Work, Await, TerminalState, Coherent, Resting, AtRest
<1>4. req' \in [Requests -> ReqState] /\ \A q \in Requests : req'[q] = req[q] \/ q = Job(w) \/ req[q] = "absent"
  BY <1>1 DEF ReqState, TerminalState, Job, Coherent, Work
<1>5. Coherent(work'[w], req'[work'[w].req], ctl'.stop)
  BY <1>1, <1>2, <1>3, ControllerLater DEF Coherent, Work, TerminalState, Resting, Job
<1>6. /\ fetched' \in Nat /\ renewals' \in 0..MaxRenewals
      /\ heartbeat' \in [Workers -> {"off", "armed", "renewing", "late", "failed"}]
      /\ UNCHANGED <<timeUp, active, ready, activeRequests>>
  BY <1>1, PoolAssumption DEF PoolAssumption
<1>7. faults' \in 0..MaxFaults /\ extensionFaults' \in 0..MaxExtensionFaults
  BY FaultCounted
<1>8. QED
  BY <1>2, <1>3, <1>4, <1>5, <1>6, <1>7, WorkerStep

LEMMA RobotsFailInv ==
    ASSUME Inv, stage = "pool", UNCHANGED runVars, NEW w \in Workers, RobotsFail(w)
    PROVE  Later(ctl, ctl') /\ Inv'
<1> USE DEF Typed, RobotsFail, At, controllerVars, ToMark
<1>1. Typed(w)
  BY WorkerTyped
<1>2. Later(ctl, ctl')
  BY <1>1, ControllerLater
<1>3. /\ work' \in [Workers -> Work] /\ \A v \in Workers \ {w} : work'[v] = work[v]
      /\ work'[w].req = work[w].req /\ work'[w].started = work[w].started
  BY <1>1 DEF Work, Await, TerminalState, Coherent, Resting, AtRest
<1>4. req' \in [Requests -> ReqState] /\ \A q \in Requests : req'[q] = req[q] \/ q = Job(w) \/ req[q] = "absent"
  BY <1>1 DEF ReqState, TerminalState, Job, Coherent, Work
<1>5. Coherent(work'[w], req'[work'[w].req], ctl'.stop)
  BY <1>1, <1>2, <1>3, ControllerLater DEF Coherent, Work, TerminalState, Resting, Job
<1>6. /\ fetched' \in Nat /\ renewals' \in 0..MaxRenewals
      /\ heartbeat' \in [Workers -> {"off", "armed", "renewing", "late", "failed"}]
      /\ UNCHANGED <<timeUp, active, ready, activeRequests>>
  BY <1>1, PoolAssumption DEF PoolAssumption
<1>7. faults' \in 0..MaxFaults /\ extensionFaults' \in 0..MaxExtensionFaults
  BY FaultCounted
<1>8. QED
  BY <1>2, <1>3, <1>4, <1>5, <1>6, <1>7, WorkerStep

LEMMA DiscoverInv ==
    ASSUME Inv, stage = "pool", UNCHANGED runVars, NEW w \in Workers, NEW r \in Requests, Discover(w, r)
    PROVE  Later(ctl, ctl') /\ Inv'
<1> USE DEF Typed, Discover, At, controllerVars
<1>1. Typed(w)
  BY WorkerTyped
<1>2. Later(ctl, ctl')
  BY <1>1, ControllerLater
<1>3. /\ work' \in [Workers -> Work] /\ \A v \in Workers \ {w} : work'[v] = work[v]
      /\ work'[w].req = work[w].req /\ work'[w].started = work[w].started
  BY <1>1 DEF Work, Await, TerminalState, Coherent, Resting, AtRest
<1>4. req' \in [Requests -> ReqState] /\ \A q \in Requests : req'[q] = req[q] \/ q = Job(w) \/ req[q] = "absent"
  BY <1>1 DEF ReqState, TerminalState, Job, Coherent, Work
<1>5. Coherent(work'[w], req'[work'[w].req], ctl'.stop)
  BY <1>1, <1>2, <1>3, ControllerLater DEF Coherent, Work, TerminalState, Resting, Job
<1>6. /\ fetched' \in Nat /\ renewals' \in 0..MaxRenewals
      /\ heartbeat' \in [Workers -> {"off", "armed", "renewing", "late", "failed"}]
      /\ UNCHANGED <<timeUp, active, ready, activeRequests>>
  BY <1>1, PoolAssumption DEF PoolAssumption
<1>7. faults' \in 0..MaxFaults /\ extensionFaults' \in 0..MaxExtensionFaults
  BY FaultCounted
<1>8. QED
  BY <1>2, <1>3, <1>4, <1>5, <1>6, <1>7, WorkerStep

LEMMA FetchedInv ==
    ASSUME Inv, stage = "pool", UNCHANGED runVars, NEW w \in Workers, Fetched(w)
    PROVE  Later(ctl, ctl') /\ Inv'
<1> USE DEF Typed, Fetched, At, controllerVars
<1>1. Typed(w)
  BY WorkerTyped
<1>2. Later(ctl, ctl')
  BY <1>1, ControllerLater
<1>3. /\ work' \in [Workers -> Work] /\ \A v \in Workers \ {w} : work'[v] = work[v]
      /\ work'[w].req = work[w].req /\ work'[w].started = work[w].started
  BY <1>1 DEF Work, Await, TerminalState, Coherent, Resting, AtRest
<1>4. req' \in [Requests -> ReqState] /\ \A q \in Requests : req'[q] = req[q] \/ q = Job(w) \/ req[q] = "absent"
  BY <1>1 DEF ReqState, TerminalState, Job, Coherent, Work
<1>5. Coherent(work'[w], req'[work'[w].req], ctl'.stop)
  BY <1>1, <1>2, <1>3, ControllerLater DEF Coherent, Work, TerminalState, Resting, Job
<1>6. /\ fetched' \in Nat /\ renewals' \in 0..MaxRenewals
      /\ heartbeat' \in [Workers -> {"off", "armed", "renewing", "late", "failed"}]
      /\ UNCHANGED <<timeUp, active, ready, activeRequests>>
  BY <1>1, PoolAssumption DEF PoolAssumption
<1>7. faults' \in 0..MaxFaults /\ extensionFaults' \in 0..MaxExtensionFaults
  BY FaultCounted
<1>8. QED
  BY <1>2, <1>3, <1>4, <1>5, <1>6, <1>7, WorkerStep

LEMMA ProcessedInv ==
    ASSUME Inv, stage = "pool", UNCHANGED runVars, NEW w \in Workers, Processed(w)
    PROVE  Later(ctl, ctl') /\ Inv'
<1> USE DEF Typed, Processed, At, controllerVars, ToMark
<1>1. Typed(w)
  BY WorkerTyped
<1>2. Later(ctl, ctl')
  BY <1>1, ControllerLater
<1>3. /\ work' \in [Workers -> Work] /\ \A v \in Workers \ {w} : work'[v] = work[v]
      /\ work'[w].req = work[w].req /\ work'[w].started = work[w].started
  BY <1>1 DEF Work, Await, TerminalState, Coherent, Resting, AtRest
<1>4. req' \in [Requests -> ReqState] /\ \A q \in Requests : req'[q] = req[q] \/ q = Job(w) \/ req[q] = "absent"
  BY <1>1 DEF ReqState, TerminalState, Job, Coherent, Work
<1>5. Coherent(work'[w], req'[work'[w].req], ctl'.stop)
  BY <1>1, <1>2, <1>3, ControllerLater DEF Coherent, Work, TerminalState, Resting, Job
<1>6. /\ fetched' \in Nat /\ renewals' \in 0..MaxRenewals
      /\ heartbeat' \in [Workers -> {"off", "armed", "renewing", "late", "failed"}]
      /\ UNCHANGED <<timeUp, active, ready, activeRequests>>
  BY <1>1, PoolAssumption DEF PoolAssumption
<1>7. faults' \in 0..MaxFaults /\ extensionFaults' \in 0..MaxExtensionFaults
  BY FaultCounted
<1>8. QED
  BY <1>2, <1>3, <1>4, <1>5, <1>6, <1>7, WorkerStep

LEMMA NotFetchedInv ==
    ASSUME Inv, stage = "pool", UNCHANGED runVars, NEW w \in Workers, NotFetched(w)
    PROVE  Later(ctl, ctl') /\ Inv'
<1> USE DEF Typed, NotFetched, At, controllerVars, ToMark
<1>1. Typed(w)
  BY WorkerTyped
<1>2. Later(ctl, ctl')
  BY <1>1, ControllerLater
<1>3. /\ work' \in [Workers -> Work] /\ \A v \in Workers \ {w} : work'[v] = work[v]
      /\ work'[w].req = work[w].req /\ work'[w].started = work[w].started
  <2>1. PICK outcome \in {"skipped", "failed", "cancelled"}, terminal \in BOOLEAN : ToMark(w, outcome, terminal, FALSE)
    BY DEF ToMark
  <2>2. QED
    BY <2>1, <1>1 DEF Work, Await, TerminalState
<1>4. req' \in [Requests -> ReqState] /\ \A q \in Requests : req'[q] = req[q] \/ q = Job(w) \/ req[q] = "absent"
  BY <1>1 DEF ReqState, TerminalState, Job, Coherent, Work
<1>5. Coherent(work'[w], req'[work'[w].req], ctl'.stop)
  <2>1. PICK outcome \in {"skipped", "failed", "cancelled"}, terminal \in BOOLEAN : ToMark(w, outcome, terminal, FALSE)
    OBVIOUS
  <2>2. /\ work'[w].at = "marking" /\ work'[w].outcome \in {"skipped", "failed", "cancelled"}
        /\ work'[w].held /\ ~work'[w].throws /\ req' = req
    BY <2>1, <1>1 DEF Coherent, Work
  <2>3. QED
    BY <2>2, <1>3, <1>1 DEF Coherent, Resting
<1>6. /\ fetched' \in Nat /\ renewals' \in 0..MaxRenewals
      /\ heartbeat' \in [Workers -> {"off", "armed", "renewing", "late", "failed"}]
      /\ UNCHANGED <<timeUp, active, ready, activeRequests>>
  BY <1>1, PoolAssumption DEF PoolAssumption
<1>7. faults' \in 0..MaxFaults /\ extensionFaults' \in 0..MaxExtensionFaults
  BY FaultCounted
<1>8. QED
  BY <1>2, <1>3, <1>4, <1>5, <1>6, <1>7, WorkerStep

LEMMA MiddlewareCancelsInv ==
    ASSUME Inv, stage = "pool", UNCHANGED runVars, NEW w \in Workers, MiddlewareCancels(w)
    PROVE  Later(ctl, ctl') /\ Inv'
<1> USE DEF Typed, MiddlewareCancels, At, controllerVars, ToMark
<1>1. Typed(w)
  BY WorkerTyped
<1>2. Later(ctl, ctl')
  BY <1>1, ControllerLater
<1>3. /\ work' \in [Workers -> Work] /\ \A v \in Workers \ {w} : work'[v] = work[v]
      /\ work'[w].req = work[w].req /\ work'[w].started = work[w].started
  BY <1>1 DEF Work, Await, TerminalState, Coherent, Resting, AtRest
<1>4. req' \in [Requests -> ReqState] /\ \A q \in Requests : req'[q] = req[q] \/ q = Job(w) \/ req[q] = "absent"
  BY <1>1 DEF ReqState, TerminalState, Job, Coherent, Work
<1>5. Coherent(work'[w], req'[work'[w].req], ctl'.stop)
  BY <1>1, <1>2, <1>3, ControllerLater DEF Coherent, Work, TerminalState, Resting, Job
<1>6. /\ fetched' \in Nat /\ renewals' \in 0..MaxRenewals
      /\ heartbeat' \in [Workers -> {"off", "armed", "renewing", "late", "failed"}]
      /\ UNCHANGED <<timeUp, active, ready, activeRequests>>
  BY <1>1, PoolAssumption DEF PoolAssumption
<1>7. faults' \in 0..MaxFaults /\ extensionFaults' \in 0..MaxExtensionFaults
  BY FaultCounted
<1>8. QED
  BY <1>2, <1>3, <1>4, <1>5, <1>6, <1>7, WorkerStep

LEMMA HandlerThrowsInv ==
    ASSUME Inv, stage = "pool", UNCHANGED runVars, NEW w \in Workers, HandlerThrows(w)
    PROVE  Later(ctl, ctl') /\ Inv'
<1> USE DEF Typed, HandlerThrows, At, controllerVars, CaughtIn, ToMark
<1>1. Typed(w)
  BY WorkerTyped
<1>2. Later(ctl, ctl')
  BY <1>1, ControllerLater
<1>3. /\ work' \in [Workers -> Work] /\ \A v \in Workers \ {w} : work'[v] = work[v]
      /\ work'[w].req = work[w].req /\ work'[w].started = work[w].started
  BY <1>1 DEF Work, Await, TerminalState, Coherent, Resting, AtRest
<1>4. req' \in [Requests -> ReqState] /\ \A q \in Requests : req'[q] = req[q] \/ q = Job(w) \/ req[q] = "absent"
  BY <1>1 DEF ReqState, TerminalState, Job, Coherent, Work
<1>5. Coherent(work'[w], req'[work'[w].req], ctl'.stop)
  BY <1>1, <1>2, <1>3, ControllerLater DEF Coherent, Work, TerminalState, Resting, Job
<1>6. /\ fetched' \in Nat /\ renewals' \in 0..MaxRenewals
      /\ heartbeat' \in [Workers -> {"off", "armed", "renewing", "late", "failed"}]
      /\ UNCHANGED <<timeUp, active, ready, activeRequests>>
  BY <1>1, PoolAssumption DEF PoolAssumption
<1>7. faults' \in 0..MaxFaults /\ extensionFaults' \in 0..MaxExtensionFaults
  BY FaultCounted
<1>8. QED
  BY <1>2, <1>3, <1>4, <1>5, <1>6, <1>7, WorkerStep

LEMMA MarkedInv ==
    ASSUME Inv, stage = "pool", UNCHANGED runVars, NEW w \in Workers, Marked(w)
    PROVE  Later(ctl, ctl') /\ Inv'
<1> USE DEF Typed, Marked, At, controllerVars, Complete, ClearTimer, NoLongerLate
<1>1. Typed(w)
  BY WorkerTyped
<1>2. Later(ctl, ctl')
  BY <1>1, ControllerLater
<1>3. /\ work' \in [Workers -> Work] /\ \A v \in Workers \ {w} : work'[v] = work[v]
      /\ work'[w].req = work[w].req /\ work'[w].started = work[w].started
  BY <1>1 DEF Work, Await, TerminalState, Coherent, Resting, AtRest
<1>4. req' \in [Requests -> ReqState] /\ \A q \in Requests : req'[q] = req[q] \/ q = Job(w) \/ req[q] = "absent"
  BY <1>1 DEF ReqState, TerminalState, Job, Coherent, Work
<1>5. Coherent(work'[w], req'[work'[w].req], ctl'.stop)
  BY <1>1, <1>2, <1>3, ControllerLater DEF Coherent, Work, TerminalState, Resting, Job
<1>6. /\ fetched' \in Nat /\ renewals' \in 0..MaxRenewals
      /\ heartbeat' \in [Workers -> {"off", "armed", "renewing", "late", "failed"}]
      /\ UNCHANGED <<timeUp, active, ready, activeRequests>>
  BY <1>1, PoolAssumption DEF PoolAssumption
<1>7. faults' \in 0..MaxFaults /\ extensionFaults' \in 0..MaxExtensionFaults
  BY FaultCounted
<1>8. QED
  BY <1>2, <1>3, <1>4, <1>5, <1>6, <1>7, WorkerStep

LEMMA MarkFailsInv ==
    ASSUME Inv, stage = "pool", UNCHANGED runVars, NEW w \in Workers, MarkFails(w)
    PROVE  Later(ctl, ctl') /\ Inv'
<1> USE DEF Typed, MarkFails, At, controllerVars, TerminalThrows, CaughtIn, ToMark, ClearTimer, NoLongerLate
<1>1. Typed(w)
  BY WorkerTyped
<1>2. Later(ctl, ctl')
  BY <1>1, ControllerLater
<1>3. /\ work' \in [Workers -> Work] /\ \A v \in Workers \ {w} : work'[v] = work[v]
      /\ work'[w].req = work[w].req /\ work'[w].started = work[w].started
  BY <1>1 DEF Work, Await, TerminalState, Coherent, Resting, AtRest
<1>4. req' \in [Requests -> ReqState] /\ \A q \in Requests : req'[q] = req[q] \/ q = Job(w) \/ req[q] = "absent"
  BY <1>1 DEF ReqState, TerminalState, Job, Coherent, Work
<1>5. Coherent(work'[w], req'[work'[w].req], ctl'.stop)
  BY <1>1, <1>2, <1>3, ControllerLater DEF Coherent, Work, TerminalState, Resting, Job
<1>6. /\ fetched' \in Nat /\ renewals' \in 0..MaxRenewals
      /\ heartbeat' \in [Workers -> {"off", "armed", "renewing", "late", "failed"}]
      /\ UNCHANGED <<timeUp, active, ready, activeRequests>>
  BY <1>1, PoolAssumption DEF PoolAssumption
<1>7. faults' \in 0..MaxFaults /\ extensionFaults' \in 0..MaxExtensionFaults
  BY FaultCounted
<1>8. QED
  BY <1>2, <1>3, <1>4, <1>5, <1>6, <1>7, WorkerStep

LEMMA RecordedInv ==
    ASSUME Inv, stage = "pool", UNCHANGED runVars, NEW w \in Workers, Recorded(w)
    PROVE  Later(ctl, ctl') /\ Inv'
<1> USE DEF Typed, Recorded, At, controllerVars, Complete, ClearTimer
<1>1. Typed(w)
  BY WorkerTyped
<1>2. Later(ctl, ctl')
  BY <1>1, ControllerLater
<1>3. /\ work' \in [Workers -> Work] /\ \A v \in Workers \ {w} : work'[v] = work[v]
      /\ work'[w].req = work[w].req /\ work'[w].started = work[w].started
  BY <1>1 DEF Work, Await, TerminalState, Coherent, Resting, AtRest
<1>4. req' \in [Requests -> ReqState] /\ \A q \in Requests : req'[q] = req[q] \/ q = Job(w) \/ req[q] = "absent"
  BY <1>1 DEF ReqState, TerminalState, Job, Coherent, Work
<1>5. Coherent(work'[w], req'[work'[w].req], ctl'.stop)
  BY <1>1, <1>2, <1>3, ControllerLater DEF Coherent, Work, TerminalState, Resting, Job
<1>6. /\ fetched' \in Nat /\ renewals' \in 0..MaxRenewals
      /\ heartbeat' \in [Workers -> {"off", "armed", "renewing", "late", "failed"}]
      /\ UNCHANGED <<timeUp, active, ready, activeRequests>>
  BY <1>1, PoolAssumption DEF PoolAssumption
<1>7. faults' \in 0..MaxFaults /\ extensionFaults' \in 0..MaxExtensionFaults
  BY FaultCounted
<1>8. QED
  BY <1>2, <1>3, <1>4, <1>5, <1>6, <1>7, WorkerStep

LEMMA RecordFailsInv ==
    ASSUME Inv, stage = "pool", UNCHANGED runVars, NEW w \in Workers, RecordFails(w)
    PROVE  Later(ctl, ctl') /\ Inv'
<1> USE DEF Typed, RecordFails, At, controllerVars, ClearTimer
<1>1. Typed(w)
  BY WorkerTyped
<1>2. Later(ctl, ctl')
  BY <1>1, ControllerLater
<1>3. /\ work' \in [Workers -> Work] /\ \A v \in Workers \ {w} : work'[v] = work[v]
      /\ work'[w].req = work[w].req /\ work'[w].started = work[w].started
  BY <1>1 DEF Work, Await, TerminalState, Coherent, Resting, AtRest
<1>4. req' \in [Requests -> ReqState] /\ \A q \in Requests : req'[q] = req[q] \/ q = Job(w) \/ req[q] = "absent"
  BY <1>1 DEF ReqState, TerminalState, Job, Coherent, Work
<1>5. Coherent(work'[w], req'[work'[w].req], ctl'.stop)
  BY <1>1, <1>2, <1>3, ControllerLater DEF Coherent, Work, TerminalState, Resting, Job
<1>6. /\ fetched' \in Nat /\ renewals' \in 0..MaxRenewals
      /\ heartbeat' \in [Workers -> {"off", "armed", "renewing", "late", "failed"}]
      /\ UNCHANGED <<timeUp, active, ready, activeRequests>>
  BY <1>1, PoolAssumption DEF PoolAssumption
<1>7. faults' \in 0..MaxFaults /\ extensionFaults' \in 0..MaxExtensionFaults
  BY FaultCounted
<1>8. QED
  BY <1>2, <1>3, <1>4, <1>5, <1>6, <1>7, WorkerStep

LEMMA ReportedInv ==
    ASSUME Inv, stage = "pool", UNCHANGED runVars, NEW w \in Workers, Reported(w)
    PROVE  Later(ctl, ctl') /\ Inv'
<1> USE DEF Typed, Reported, At, controllerVars, Complete, ClearTimer
<1>1. Typed(w)
  BY WorkerTyped
<1>2. Later(ctl, ctl')
  BY <1>1, ControllerLater
<1>3. /\ work' \in [Workers -> Work] /\ \A v \in Workers \ {w} : work'[v] = work[v]
      /\ work'[w].req = work[w].req /\ work'[w].started = work[w].started
  BY <1>1 DEF Work, Await, TerminalState, Coherent, Resting, AtRest
<1>4. req' \in [Requests -> ReqState] /\ \A q \in Requests : req'[q] = req[q] \/ q = Job(w) \/ req[q] = "absent"
  BY <1>1 DEF ReqState, TerminalState, Job, Coherent, Work
<1>5. Coherent(work'[w], req'[work'[w].req], ctl'.stop)
  BY <1>1, <1>2, <1>3, ControllerLater DEF Coherent, Work, TerminalState, Resting, Job
<1>6. /\ fetched' \in Nat /\ renewals' \in 0..MaxRenewals
      /\ heartbeat' \in [Workers -> {"off", "armed", "renewing", "late", "failed"}]
      /\ UNCHANGED <<timeUp, active, ready, activeRequests>>
  BY <1>1, PoolAssumption DEF PoolAssumption
<1>7. faults' \in 0..MaxFaults /\ extensionFaults' \in 0..MaxExtensionFaults
  BY FaultCounted
<1>8. QED
  BY <1>2, <1>3, <1>4, <1>5, <1>6, <1>7, WorkerStep

LEMMA ReportFailsInv ==
    ASSUME Inv, stage = "pool", UNCHANGED runVars, NEW w \in Workers, ReportFails(w)
    PROVE  Later(ctl, ctl') /\ Inv'
<1> USE DEF Typed, ReportFails, At, controllerVars, TerminalThrows, CaughtIn, ToMark, ClearTimer, NoLongerLate
<1>1. Typed(w)
  BY WorkerTyped
<1>2. Later(ctl, ctl')
  BY <1>1, ControllerLater
<1>3. /\ work' \in [Workers -> Work] /\ \A v \in Workers \ {w} : work'[v] = work[v]
      /\ work'[w].req = work[w].req /\ work'[w].started = work[w].started
  BY <1>1 DEF Work, Await, TerminalState, Coherent, Resting, AtRest
<1>4. req' \in [Requests -> ReqState] /\ \A q \in Requests : req'[q] = req[q] \/ q = Job(w) \/ req[q] = "absent"
  BY <1>1 DEF ReqState, TerminalState, Job, Coherent, Work
<1>5. Coherent(work'[w], req'[work'[w].req], ctl'.stop)
  BY <1>1, <1>2, <1>3, ControllerLater DEF Coherent, Work, TerminalState, Resting, Job
<1>6. /\ fetched' \in Nat /\ renewals' \in 0..MaxRenewals
      /\ heartbeat' \in [Workers -> {"off", "armed", "renewing", "late", "failed"}]
      /\ UNCHANGED <<timeUp, active, ready, activeRequests>>
  BY <1>1, PoolAssumption DEF PoolAssumption
<1>7. faults' \in 0..MaxFaults /\ extensionFaults' \in 0..MaxExtensionFaults
  BY FaultCounted
<1>8. QED
  BY <1>2, <1>3, <1>4, <1>5, <1>6, <1>7, WorkerStep

LEMMA RenewalStartsInv ==
    ASSUME Inv, stage = "pool", UNCHANGED runVars, NEW w \in Workers, RenewalStarts(w)
    PROVE  Later(ctl, ctl') /\ Inv'
<1> USE DEF Typed, RenewalStarts, At, controllerVars
<1>1. Typed(w)
  BY WorkerTyped
<1>2. Later(ctl, ctl')
  BY <1>1, ControllerLater
<1>3. /\ work' \in [Workers -> Work] /\ \A v \in Workers \ {w} : work'[v] = work[v]
      /\ work'[w].req = work[w].req /\ work'[w].started = work[w].started
  BY <1>1 DEF Work, Await, TerminalState, Coherent, Resting, AtRest
<1>4. req' \in [Requests -> ReqState] /\ \A q \in Requests : req'[q] = req[q] \/ q = Job(w) \/ req[q] = "absent"
  BY <1>1 DEF ReqState, TerminalState, Job, Coherent, Work
<1>5. Coherent(work'[w], req'[work'[w].req], ctl'.stop)
  BY <1>1, <1>2, <1>3, ControllerLater DEF Coherent, Work, TerminalState, Resting, Job
<1>6. /\ fetched' \in Nat /\ renewals' \in 0..MaxRenewals
      /\ heartbeat' \in [Workers -> {"off", "armed", "renewing", "late", "failed"}]
      /\ UNCHANGED <<timeUp, active, ready, activeRequests>>
  BY <1>1, PoolAssumption DEF PoolAssumption
<1>7. faults' \in 0..MaxFaults /\ extensionFaults' \in 0..MaxExtensionFaults
  BY FaultCounted
<1>8. QED
  BY <1>2, <1>3, <1>4, <1>5, <1>6, <1>7, WorkerStep

LEMMA RenewedInv ==
    ASSUME Inv, stage = "pool", UNCHANGED runVars, NEW w \in Workers, Renewed(w)
    PROVE  Later(ctl, ctl') /\ Inv'
<1> USE DEF Typed, Renewed, At, controllerVars
<1>1. Typed(w)
  BY WorkerTyped
<1>2. Later(ctl, ctl')
  BY <1>1, ControllerLater
<1>3. /\ work' \in [Workers -> Work] /\ \A v \in Workers \ {w} : work'[v] = work[v]
      /\ work'[w].req = work[w].req /\ work'[w].started = work[w].started
  BY <1>1 DEF Work, Await, TerminalState, Coherent, Resting, AtRest
<1>4. req' \in [Requests -> ReqState] /\ \A q \in Requests : req'[q] = req[q] \/ q = Job(w) \/ req[q] = "absent"
  BY <1>1 DEF ReqState, TerminalState, Job, Coherent, Work
<1>5. Coherent(work'[w], req'[work'[w].req], ctl'.stop)
  BY <1>1, <1>2, <1>3, ControllerLater DEF Coherent, Work, TerminalState, Resting, Job
<1>6. /\ fetched' \in Nat /\ renewals' \in 0..MaxRenewals
      /\ heartbeat' \in [Workers -> {"off", "armed", "renewing", "late", "failed"}]
      /\ UNCHANGED <<timeUp, active, ready, activeRequests>>
  BY <1>1, PoolAssumption DEF PoolAssumption
<1>7. faults' \in 0..MaxFaults /\ extensionFaults' \in 0..MaxExtensionFaults
  BY FaultCounted
<1>8. QED
  BY <1>2, <1>3, <1>4, <1>5, <1>6, <1>7, WorkerStep

LEMMA RenewalFailsInv ==
    ASSUME Inv, stage = "pool", UNCHANGED runVars, NEW w \in Workers, RenewalFails(w)
    PROVE  Later(ctl, ctl') /\ Inv'
<1> USE DEF Typed, RenewalFails, At, controllerVars
<1>1. Typed(w)
  BY WorkerTyped
<1>2. Later(ctl, ctl')
  BY <1>1, ControllerLater
<1>3. /\ work' \in [Workers -> Work] /\ \A v \in Workers \ {w} : work'[v] = work[v]
      /\ work'[w].req = work[w].req /\ work'[w].started = work[w].started
  BY <1>1 DEF Work, Await, TerminalState, Coherent, Resting, AtRest
<1>4. req' \in [Requests -> ReqState] /\ \A q \in Requests : req'[q] = req[q] \/ q = Job(w) \/ req[q] = "absent"
  BY <1>1 DEF ReqState, TerminalState, Job, Coherent, Work
<1>5. Coherent(work'[w], req'[work'[w].req], ctl'.stop)
  BY <1>1, <1>2, <1>3, ControllerLater, ZenonT(60) DEF Coherent, Work, TerminalState, Resting, Job
<1>6. /\ fetched' \in Nat /\ renewals' \in 0..MaxRenewals
      /\ heartbeat' \in [Workers -> {"off", "armed", "renewing", "late", "failed"}]
      /\ UNCHANGED <<timeUp, active, ready, activeRequests>>
  BY <1>1, PoolAssumption DEF PoolAssumption
<1>7. faults' \in 0..MaxFaults /\ extensionFaults' \in 0..MaxExtensionFaults
  BY FaultCounted
<1>8. QED
  BY <1>2, <1>3, <1>4, <1>5, <1>6, <1>7, WorkerStep

------------------------------------------------------------------------------
(* The steps that take or give back a reservation, or begin or end a       *)
(* request.                                                                *)

OriginsCounted == \A o \in Origins : active[o] = Cardinality(AtOrigin(o)) /\ active[o] <= MaxPerOrigin
StartedCounted == activeRequests = Cardinality(Started)

LEMMA BalanceSplit == ReservationsBalanced <=> OriginsCounted /\ StartedCounted
BY DEF ReservationsBalanced, OriginsCounted, StartedCounted, AtOrigin, Started

(* Worker w takes a request of an origin that has a place left.            *)
LEMMA OriginTaken ==
    ASSUME Inv, NEW w \in Workers, NEW r \in Requests,
           \A v \in Workers \ {w} : work'[v] = work[v],
           Job(w) = NoRequest, work'[w].req = r,
           active[Origin[r]] < MaxPerOrigin,
           active' = [active EXCEPT ![Origin[r]] = @ + 1]
    PROVE  OriginsCounted' /\ active' \in [Origins -> Nat]
<1>1. /\ active \in [Origins -> Nat] /\ Origin[r] \in Origins /\ r # NoRequest /\ MaxPerOrigin \in Nat
      /\ OriginsCounted
  BY PoolAssumption, BalanceSplit DEF PoolAssumption, Inv, TypeOK, PoolTypeOK
<1>2. AtOrigin(Origin[r])' = AtOrigin(Origin[r]) \cup {w} /\ w \notin AtOrigin(Origin[r])
  BY <1>1 DEF AtOrigin, Job
<1>3. \A o \in Origins \ {Origin[r]} : AtOrigin(o)' = AtOrigin(o)
  BY <1>1 DEF AtOrigin, Job
<1>4. IsFiniteSet(AtOrigin(Origin[r]))
  BY WorkersCounted DEF AtOrigin
<1>5. Cardinality(AtOrigin(Origin[r])') = Cardinality(AtOrigin(Origin[r])) + 1
  BY <1>2, <1>4, FS_AddElement
<1>6. ASSUME NEW o \in Origins
      PROVE  active'[o] = Cardinality(AtOrigin(o)') /\ active'[o] <= MaxPerOrigin
  BY <1>1, <1>3, <1>5 DEF OriginsCounted
<1>7. QED
  BY <1>1, <1>6 DEF OriginsCounted

(* Worker w gives its reservation back.                                    *)
LEMMA OriginGivenBack ==
    ASSUME Inv, NEW w \in Workers,
           \A v \in Workers \ {w} : work'[v] = work[v],
           Job(w) \in Requests, work'[w].req = NoRequest,
           active' = [active EXCEPT ![Origin[Job(w)]] = @ - 1]
    PROVE  OriginsCounted' /\ active' \in [Origins -> Nat]
<1> PICK p : p = Origin[Job(w)]
  OBVIOUS
<1>1. /\ active \in [Origins -> Nat] /\ p \in Origins /\ Job(w) # NoRequest /\ MaxPerOrigin \in Nat
      /\ OriginsCounted
  BY PoolAssumption, BalanceSplit DEF PoolAssumption, Inv, TypeOK, PoolTypeOK
<1>2. AtOrigin(p)' = AtOrigin(p) \ {w} /\ w \in AtOrigin(p)
  BY <1>1 DEF AtOrigin, Job
<1>3. ASSUME NEW o \in Origins, o # p
      PROVE  AtOrigin(o)' = AtOrigin(o)
  <2>1. w \notin AtOrigin(o) /\ w \notin AtOrigin(o)'
    BY <1>3 DEF AtOrigin, Job
  <2>2. \A v \in Workers \ {w} : v \in AtOrigin(o)' <=> v \in AtOrigin(o)
    BY DEF AtOrigin, Job
  <2>3. AtOrigin(o) \subseteq Workers /\ AtOrigin(o)' \subseteq Workers
    BY DEF AtOrigin
  <2>4. QED
    BY <2>1, <2>2, <2>3
<1>4. IsFiniteSet(AtOrigin(p)) /\ AtOrigin(p)' \in SUBSET Workers
  BY WorkersCounted DEF AtOrigin
<1>5. Cardinality(AtOrigin(p)') = Cardinality(AtOrigin(p)) - 1 /\ Cardinality(AtOrigin(p)') \in Nat
  BY <1>2, <1>4, FS_RemoveElement, WorkersCounted
<1>6. ASSUME NEW o \in Origins
      PROVE  active'[o] = Cardinality(AtOrigin(o)') /\ active'[o] <= MaxPerOrigin /\ active'[o] \in Nat
  <2>1. CASE o = p
    BY <1>1, <1>5, <2>1 DEF OriginsCounted
  <2>2. CASE o # p
    BY <1>1, <1>3, <2>2 DEF OriginsCounted
  <2>3. QED
    BY <2>1, <2>2
<1>7. QED
  BY <1>1, <1>6 DEF OriginsCounted

(* Only worker w may begin or end a request.                               *)
LEMMA StartedTold ==
    ASSUME Inv, NEW w \in Workers,
           \A v \in Workers \ {w} : work'[v] = work[v],
           work[w].started \in BOOLEAN, work'[w].started \in BOOLEAN,
           activeRequests' = IF work[w].started = work'[w].started THEN activeRequests
                             ELSE IF work'[w].started THEN activeRequests + 1
                             ELSE activeRequests - 1
    PROVE  StartedCounted' /\ activeRequests' \in Nat
<1>1. StartedCounted
  BY BalanceSplit DEF Inv
<1>2. IsFiniteSet(Started) /\ Cardinality(Started) \in Nat /\ Cardinality(Started') \in Nat
  BY WorkersCounted DEF Started
<1>3. CASE work[w].started = work'[w].started
  <2>1. Started' = Started
    BY <1>3 DEF Started
  <2>2. QED
    BY <1>1, <1>2, <1>3, <2>1 DEF StartedCounted
<1>4. CASE work[w].started # work'[w].started /\ work'[w].started
  <2>1. Started' = Started \cup {w} /\ w \notin Started
    BY <1>4 DEF Started
  <2>2. Cardinality(Started') = Cardinality(Started) + 1
    BY <2>1, <1>2, FS_AddElement
  <2>3. QED
    BY <1>1, <1>2, <1>4, <2>2 DEF StartedCounted
<1>5. CASE work[w].started # work'[w].started /\ work[w].started
  <2>1. Started' = Started \ {w} /\ w \in Started
    BY <1>5 DEF Started
  <2>2. Cardinality(Started') = Cardinality(Started) - 1
    BY <2>1, <1>2, FS_RemoveElement
  <2>3. QED
    BY <1>1, <1>2, <1>5, <2>2 DEF StartedCounted
<1>6. QED
  BY <1>3, <1>4, <1>5

(* A request that can be leased is nobody's.                               *)
LEMMA PendingFree ==
    ASSUME Inv, NEW r \in Requests, req[r] = "pending", ctl.stop # "fatal"
    PROVE  \A v \in Workers : Job(v) # r
<1> SUFFICES ASSUME NEW v \in Workers, Job(v) = r
             PROVE  FALSE
  OBVIOUS
<1>1. Coherent(work[v], "pending", ctl.stop) /\ work[v].at \in Await
  BY DEF Inv, WorkCoherent, TypeOK, PoolTypeOK, Work
<1>2. work[v].at \notin Resting
  BY <1>1, PoolAssumption DEF PoolAssumption, Coherent, AtRest, Job
<1>3. QED
  BY <1>1, <1>2 DEF Coherent, Await, Resting, TerminalState

LEMMA LeaseNextInv ==
    ASSUME Inv, stage = "pool", UNCHANGED runVars, NEW w \in Workers, NEW r \in Requests, LeaseNext(w, r)
    PROVE  Later(ctl, ctl') /\ Inv'
<1> USE DEF Typed, LeaseNext, At, controllerVars
<1>1. Typed(w)
  BY WorkerTyped
<1>2. Later(ctl, ctl')
  BY <1>1, ControllerLater
<1>3. work[w] = AtRest("idle") /\ Job(w) = NoRequest
  BY <1>1 DEF Coherent, Resting, AtRest, Job
<1>4. /\ req[r] = "pending" /\ active[Origin[r]] < MaxPerOrigin
      /\ ctl.stop # "fatal"
  BY <1>2 DEF Reservable, In, mayLease, Later
<1>5. /\ work' \in [Workers -> Work] /\ \A v \in Workers \ {w} : work'[v] = work[v]
      /\ work'[w] = [AtRest("idle") EXCEPT !.at = "leasing", !.req = r]
  BY <1>1, <1>3 DEF Work, Await
<1>6. req' \in [Requests -> ReqState] /\ \A q \in Requests : req'[q] = req[q] \/ q = r
  BY <1>1 DEF ReqState
<1>7. /\ work'[w].at = "leasing" /\ work'[w].req = r /\ ~work'[w].held
      /\ ~work'[w].started /\ ~work'[w].throws /\ req'[r] = "leasing"
  BY <1>1, <1>5, ZenonT(60) DEF AtRest
<1>8. Coherent(work'[w], req'[work'[w].req], ctl'.stop)
  BY <1>7 DEF Coherent, Resting
<1>9. WorkCoherent' /\ JobsUnique'
  BY <1>2, <1>4, <1>5, <1>6, <1>7, <1>8, PendingFree, WorkerGoesOn
<1>10. OriginsCounted' /\ active' \in [Origins -> Nat]
  BY <1>3, <1>4, <1>5, <1>7, OriginTaken
<1>11. StartedCounted' /\ activeRequests' \in Nat
  BY <1>3, <1>5, <1>7, StartedTold DEF AtRest
<1>12. ReservationsBalanced'
  BY <1>10, <1>11 DEF ReservationsBalanced, OriginsCounted, StartedCounted, AtOrigin, Started
<1>13. ready' \in [Origins -> BOOLEAN] /\ UNCHANGED <<fetched, timeUp, heartbeat, renewals>>
  BY DEF Inv, TypeOK, PoolTypeOK
<1>14. faults' \in 0..MaxFaults /\ extensionFaults' \in 0..MaxExtensionFaults
  BY FaultCounted
<1>15. TypeOK'
  BY <1>2, <1>5, <1>6, <1>10, <1>11, <1>13, <1>14 DEF Inv, TypeOK, ControllerTypeOK, PoolTypeOK, Later, runVars
<1>16. QED
  BY <1>2, <1>9, <1>12, <1>15, PoolStaged DEF Inv

LEMMA BeginRequestInv ==
    ASSUME Inv, stage = "pool", UNCHANGED runVars, NEW w \in Workers, BeginRequest(w)
    PROVE  Later(ctl, ctl') /\ Inv'
<1> USE DEF Typed, BeginRequest, At, controllerVars
<1>1. Typed(w)
  BY WorkerTyped
<1>2. Later(ctl, ctl')
  BY <1>1, ControllerLater
<1>3. /\ work' \in [Workers -> Work] /\ \A v \in Workers \ {w} : work'[v] = work[v]
      /\ work'[w].req = work[w].req /\ work[w].started = FALSE /\ work'[w].started = TRUE
  BY <1>1 DEF Work, Await, Coherent
<1>4. Coherent(work'[w], req'[work'[w].req], ctl'.stop)
  BY <1>1 DEF Coherent, Work, Resting
<1>5. WorkCoherent' /\ JobsUnique'
  BY <1>2, <1>3, <1>4, WorkerGoesOn DEF Job
<1>6. StartedCounted' /\ activeRequests' \in Nat
  BY <1>3, StartedTold
<1>7. \A o : AtOrigin(o)' = AtOrigin(o)
  BY <1>3 DEF AtOrigin, Job
<1>8. OriginsCounted'
  BY <1>7, BalanceSplit DEF Inv, OriginsCounted
<1>9. faults' \in 0..MaxFaults /\ extensionFaults' \in 0..MaxExtensionFaults
  BY FaultCounted
<1>10. TypeOK'
  BY <1>2, <1>3, <1>6, <1>9 DEF Inv, TypeOK, ControllerTypeOK, PoolTypeOK, Later, runVars
<1>11. ReservationsBalanced'
  BY <1>6, <1>8 DEF ReservationsBalanced, OriginsCounted, StartedCounted, AtOrigin, Started
<1>12. QED
  BY <1>2, <1>5, <1>10, <1>11, PoolStaged DEF Inv

LEMMA LeaseFailsInv ==
    ASSUME Inv, stage = "pool", UNCHANGED runVars, NEW w \in Workers, LeaseFails(w)
    PROVE  Later(ctl, ctl') /\ Inv'
<1> USE DEF Typed, LeaseFails, At, controllerVars
<1>1. Typed(w)
  BY WorkerTyped
<1>2. Later(ctl, ctl')
  BY <1>1, ControllerLater
<1>3. PICK at \in {"idle", "rejected"} : work' = [work EXCEPT ![w] = AtRest(at)]
  OBVIOUS
<1>4. /\ AtRest(at) \in Work /\ AtRest(at).req = NoRequest /\ AtRest(at).started = FALSE
      /\ \A s, stop : Coherent(AtRest(at), s, stop)
  BY DEF AtRest, Work, Await, Coherent, Resting
<1>5. /\ work' \in [Workers -> Work] /\ \A v \in Workers \ {w} : work'[v] = work[v]
      /\ work'[w] = AtRest(at)
  BY <1>1, <1>3, <1>4
<1>6. Job(w) \in Requests /\ work[w].started \in BOOLEAN /\ ~work[w].started
  BY <1>1 DEF Coherent, Resting, Job, Work
<1>7. req' \in [Requests -> ReqState] /\ \A q \in Requests : req'[q] = req[q] \/ q = Job(w)
  BY <1>1, <1>6 DEF ReqState
<1>8. WorkCoherent' /\ JobsUnique'
  BY <1>2, <1>4, <1>5, <1>7, WorkerGoesOn
<1>9. OriginsCounted' /\ active' \in [Origins -> Nat]
  BY <1>4, <1>5, <1>6, OriginGivenBack
<1>10. StartedCounted' /\ activeRequests' \in Nat
  BY <1>4, <1>5, <1>6, StartedTold
<1>11. /\ ready' \in [Origins -> BOOLEAN] /\ UNCHANGED <<fetched, timeUp, renewals>>
       /\ heartbeat' \in [Workers -> {"off", "armed", "renewing", "late", "failed"}]
  BY <1>1, <1>6, PoolAssumption DEF PoolAssumption, Inv, TypeOK, PoolTypeOK
<1>12. faults' \in 0..MaxFaults /\ extensionFaults' \in 0..MaxExtensionFaults
  BY FaultCounted
<1>13. TypeOK'
  BY <1>2, <1>5, <1>7, <1>9, <1>10, <1>11, <1>12 DEF Inv, TypeOK, ControllerTypeOK, PoolTypeOK, Later, runVars
<1>14. ReservationsBalanced'
  BY <1>9, <1>10 DEF ReservationsBalanced, OriginsCounted, StartedCounted, AtOrigin, Started
<1>15. QED
  BY <1>2, <1>8, <1>13, <1>14, PoolStaged DEF Inv

LEMMA CloseInv ==
    ASSUME Inv, stage = "pool", UNCHANGED runVars, NEW w \in Workers, Close(w)
    PROVE  Later(ctl, ctl') /\ Inv'
<1> USE DEF Typed, Close, At, controllerVars
<1>1. Typed(w)
  BY WorkerTyped
<1>2. Later(ctl, ctl')
  BY <1>1, ControllerLater
<1>3. PICK at \in {"idle", "rejected"} : work' = [work EXCEPT ![w] = AtRest(at)]
  OBVIOUS
<1>4. /\ AtRest(at) \in Work /\ AtRest(at).req = NoRequest /\ AtRest(at).started = FALSE
      /\ \A s, stop : Coherent(AtRest(at), s, stop)
  BY DEF AtRest, Work, Await, Coherent, Resting
<1>5. /\ work' \in [Workers -> Work] /\ \A v \in Workers \ {w} : work'[v] = work[v]
      /\ work'[w] = AtRest(at)
  BY <1>1, <1>3, <1>4
<1>6. Job(w) \in Requests /\ work[w].started \in BOOLEAN
  BY <1>1 DEF Coherent, Resting, Job, Work
<1>7. req' \in [Requests -> ReqState] /\ \A q \in Requests : req'[q] = req[q] \/ q = Job(w)
  BY <1>1, <1>6 DEF ReqState
<1>8. WorkCoherent' /\ JobsUnique'
  BY <1>2, <1>4, <1>5, <1>7, WorkerGoesOn
<1>9. OriginsCounted' /\ active' \in [Origins -> Nat]
  BY <1>4, <1>5, <1>6, OriginGivenBack
<1>10. StartedCounted' /\ activeRequests' \in Nat
  BY <1>4, <1>5, <1>6, StartedTold
<1>11. /\ ready' \in [Origins -> BOOLEAN] /\ UNCHANGED <<fetched, timeUp, renewals>>
       /\ heartbeat' \in [Workers -> {"off", "armed", "renewing", "late", "failed"}]
  BY <1>1, <1>6, PoolAssumption DEF PoolAssumption, Inv, TypeOK, PoolTypeOK
<1>12. faults' \in 0..MaxFaults /\ extensionFaults' \in 0..MaxExtensionFaults
  BY FaultCounted
<1>13. TypeOK'
  BY <1>2, <1>5, <1>7, <1>9, <1>10, <1>11, <1>12 DEF Inv, TypeOK, ControllerTypeOK, PoolTypeOK, Later, runVars
<1>14. ReservationsBalanced'
  BY <1>9, <1>10 DEF ReservationsBalanced, OriginsCounted, StartedCounted, AtOrigin, Started
<1>15. QED
  BY <1>2, <1>8, <1>13, <1>14, PoolStaged DEF Inv

LEMMA OriginReadyInv ==
    ASSUME Inv, stage = "pool", UNCHANGED runVars, NEW o \in Origins, OriginReady(o)
    PROVE  Later(ctl, ctl') /\ Inv'
<1> USE DEF OriginReady, controllerVars
<1>1. Later(ctl, ctl')
  BY ControllerLater DEF Inv, TypeOK, ControllerTypeOK
<1>2. TypeOK'
  BY FaultCounted DEF Inv, TypeOK, ControllerTypeOK, PoolTypeOK, runVars
<1>3. WorkCoherent' /\ JobsUnique' /\ ReservationsBalanced'
  BY DEF Inv, WorkCoherent, JobsUnique, ReservationsBalanced, Job
<1>4. QED
  BY <1>1, <1>2, <1>3, PoolStaged DEF Inv

LEMMA PoolInv ==
    ASSUME Inv, PoolStep
    PROVE  Later(ctl, ctl') /\ Inv'
<1> USE DEF PoolStep
<1>1. ASSUME NEW w \in Workers, Proceed(w)
      PROVE  Later(ctl, ctl') /\ Inv'
  BY <1>1, LeaseNextInv, LeaseNothingInv, LeaveLoopInv, WakeInv, LeaseGrantedInv,
     BeginRequestInv, DelayAbortedInv, FetchedInv, ProcessedInv, NotFetchedInv, MarkedInv,
     RecordedInv, ReportedInv, CloseInv, RenewedInv, MarkFailsInv, RenewalFailsInv DEF Proceed
<1>2. ASSUME NEW w \in Workers, Disturb(w)
      PROVE  Later(ctl, ctl') /\ Inv'
  BY <1>2, LeaseFailsInv, RobotsFailInv, HandlerThrowsInv, RecordFailsInv, ReportFailsInv,
     MiddlewareCancelsInv, RenewalStartsInv, DiscoverInv DEF Disturb
<1>3. QED
  BY <1>1, <1>2, OriginReadyInv DEF PoolNext

------------------------------------------------------------------------------
(* Outside the pool.                                                       *)

Escalated(c, d) ==
    /\ stopPriority(d.stop) >= stopPriority(c.stop)
    /\ phaseOrder(d.phase) >= phaseOrder(c.phase)
    /\ c.aborted => d.aborted
    /\ d.aborted => d.stop \in {"cancelled", "fatal"}

LEMMA LaterEscalates ==
    ASSUME Inv, Later(ctl, ctl')
    PROVE  Escalated(ctl, ctl')
<1>1. ctl.phase \in RunPhase
  BY DEF Inv, TypeOK, ControllerTypeOK, Controller
<1>2. phaseOrder(ctl'.phase) >= phaseOrder(ctl.phase)
  BY <1>1 DEF Later, phaseOrder, RunPhase
<1>3. QED
  BY <1>2 DEF Inv, Staged, Later, Escalated

(* The controller's other methods.                                         *)
LEMMA PhasesSet ==
    ASSUME NEW c \in Controller, NEW phase \in RunPhase
    PROVE  /\ inPhase(c, phase) \in Controller /\ inPhase(c, phase).phase = phase
           /\ inPhase(c, phase).stop = c.stop /\ inPhase(c, phase).aborted = c.aborted
           /\ beginDraining(c) \in Controller
           /\ beginDraining(c).phase = IF c.phase \in {"running", "stopping"} THEN "draining" ELSE c.phase
           /\ beginDraining(c).stop = c.stop /\ beginDraining(c).aborted = c.aborted
           /\ completeFrontier(c) \in Controller /\ completeFrontier(c).phase = c.phase
           /\ completeFrontier(c).stop = IF c.stop = "none" THEN "frontier-empty" ELSE c.stop
           /\ completeFrontier(c).aborted = c.aborted
BY DEF inPhase, beginDraining, completeFrontier, Controller, RunPhase, Stop

LEMMA PrioritiesOrdered ==
    /\ \A s \in Stop : stopPriority(s) \in Nat
    /\ \A p \in RunPhase : phaseOrder(p) \in Nat
    /\ stopPriority("frontier-empty") >= stopPriority("none")
    /\ phaseOrder("initializing") <= phaseOrder("running")
    /\ phaseOrder("running") <= phaseOrder("stopping")
    /\ phaseOrder("stopping") <= phaseOrder("draining")
    /\ phaseOrder("draining") <= phaseOrder("finalizing")
    /\ phaseOrder("finalizing") <= phaseOrder("closed")
BY DEF stopPriority, phaseOrder, Stop, RunPhase

(* A step of run(), of finalize() or from outside that leaves the pool     *)
(* alone.                                                                  *)
LEMMA OutsideStep ==
    ASSUME Inv, OutsidePool, NoFault \/ Fault,
           hookFaults' \in 0..MaxHookFaults,
           ctl' \in Controller, ctl.stop = "fatal" => ctl'.stop = "fatal",
           stage' \in Stage, storeOpen' \in BOOLEAN,
           result' \in Outcome \cup {NoOutcome},
           manifest' \in Outcome \cup {NoOutcome},
           since' \subseteq LateEvent,
           Staged'
    PROVE  Inv'
<1> USE DEF OutsidePool
<1>1. TypeOK'
  BY FaultCounted DEF Inv, TypeOK, ControllerTypeOK, PoolTypeOK
<1>2. WorkCoherent'
  BY DEF Inv, WorkCoherent, Coherent, Job
<1>3. JobsUnique' /\ ReservationsBalanced'
  BY DEF Inv, JobsUnique, ReservationsBalanced, Job
<1>4. QED
  BY <1>1, <1>2, <1>3 DEF Inv

LEMMA HooksCounted ==
    ASSUME Inv, HookFault \/ NoHookFault
    PROVE  hookFaults' \in 0..MaxHookFaults
BY RunAssumption DEF RunAssumption, Inv, TypeOK, HookFault, NoHookFault

LEMMA StatusTyped ==
    /\ NoOutcome \notin Outcome
    /\ \A c : statusForRun(c) \in RunStatus
    /\ \A c : c.stop \in Stop => currentResult(c) \in Outcome
    /\ \A told \in Outcome : \A c : c.stop \in Stop => Written(told, c) \in Outcome
<1>1. \A c : statusForRun(c) \in RunStatus
  BY DEF statusForRun, RunStatus
<1>2. QED
  BY <1>1 DEF currentResult, Written, Outcome, NoOutcome, RunStatus

LEMMA OpenedInv ==
    ASSUME Inv, Opened
    PROVE  Escalated(ctl, ctl') /\ Inv'
<1> USE DEF Opened
<1>1. /\ ctl \in Controller /\ ctl.phase \in RunPhase /\ ctl.stop \in Stop
      /\ stage \in Stage /\ Staged
      /\ storeOpen \in BOOLEAN /\ result \in Outcome \cup {NoOutcome}
      /\ manifest \in Outcome \cup {NoOutcome} /\ since \subseteq LateEvent
  BY DEF Inv, TypeOK, ControllerTypeOK, Controller
<1>2. Later(ctl, fail(ctl)) /\ Later(ctl, cancel(ctl)) /\ fail(ctl).stop = "fatal"
  BY <1>1, ControllerLater
<1>3. ctl' \in Controller /\ (ctl.stop = "fatal" => ctl'.stop = "fatal") /\ Escalated(ctl, ctl')
  BY <1>1, <1>2, PhasesSet, PrioritiesOrdered DEF Escalated, Later, Staged, AfterResult, Controller, RunPhase, Stop
<1>4. NoFault \/ Fault
  BY DEF HookFault
<1>5. stage' \in Stage /\ hookFaults' \in 0..MaxHookFaults
  BY HooksCounted DEF Stage, runVars, NoHookFault
<1>6. storeOpen' \in BOOLEAN /\ result' \in Outcome \cup {NoOutcome} /\ since' \subseteq LateEvent
  BY <1>1, <1>3, StatusTyped DEF runVars, Controller, LateEvent, Late
<1>7. manifest' \in Outcome \cup {NoOutcome}
  BY <1>1 DEF Outcome, RunStatus
<1>8. Staged'
  BY <1>1, <1>2, <1>3, PhasesSet, StatusTyped DEF Staged, Escalated, Later, Before, AfterResult, OutsidePool, runVars, RunPhase
<1>9. QED
  BY <1>3, <1>4, <1>5, <1>6, <1>7, <1>8, OutsideStep

LEMMA PreparedInv ==
    ASSUME Inv, Prepared
    PROVE  Escalated(ctl, ctl') /\ Inv'
<1> USE DEF Prepared
<1>1. /\ ctl \in Controller /\ ctl.phase \in RunPhase /\ ctl.stop \in Stop
      /\ stage \in Stage /\ Staged
      /\ storeOpen \in BOOLEAN /\ result \in Outcome \cup {NoOutcome}
      /\ manifest \in Outcome \cup {NoOutcome} /\ since \subseteq LateEvent
  BY DEF Inv, TypeOK, ControllerTypeOK, Controller
<1>2. Later(ctl, fail(ctl)) /\ Later(ctl, cancel(ctl)) /\ fail(ctl).stop = "fatal"
  BY <1>1, ControllerLater
<1>3. ctl' \in Controller /\ (ctl.stop = "fatal" => ctl'.stop = "fatal") /\ Escalated(ctl, ctl')
  BY <1>1, <1>2, PhasesSet, PrioritiesOrdered DEF Escalated, Later, Staged, AfterResult, Controller, RunPhase, Stop
<1>4. NoFault \/ Fault
  BY DEF HookFault
<1>5. stage' \in Stage /\ hookFaults' \in 0..MaxHookFaults
  BY HooksCounted DEF Stage, runVars, NoHookFault
<1>6. storeOpen' \in BOOLEAN /\ result' \in Outcome \cup {NoOutcome} /\ since' \subseteq LateEvent
  BY <1>1, <1>3, StatusTyped DEF runVars, Controller, LateEvent, Late
<1>7. manifest' \in Outcome \cup {NoOutcome}
  BY <1>1, <1>2, <1>3, <1>6, StatusTyped DEF AfterFailedWrite, runVars, Staged, AfterResult, Controller, Later
<1>8. Staged'
  BY <1>1, <1>2, <1>3, PhasesSet, StatusTyped DEF Staged, Escalated, Later, Before, AfterResult, OutsidePool, runVars, RunPhase
<1>9. QED
  BY <1>3, <1>4, <1>5, <1>6, <1>7, <1>8, OutsideStep

LEMMA StartFailsInv ==
    ASSUME Inv, StartFails
    PROVE  Escalated(ctl, ctl') /\ Inv'
<1> USE DEF StartFails
<1>1. /\ ctl \in Controller /\ ctl.phase \in RunPhase /\ ctl.stop \in Stop
      /\ stage \in Stage /\ Staged
      /\ storeOpen \in BOOLEAN /\ result \in Outcome \cup {NoOutcome}
      /\ manifest \in Outcome \cup {NoOutcome} /\ since \subseteq LateEvent
  BY DEF Inv, TypeOK, ControllerTypeOK, Controller
<1>2. Later(ctl, fail(ctl)) /\ Later(ctl, cancel(ctl)) /\ fail(ctl).stop = "fatal"
  BY <1>1, ControllerLater
<1>3. ctl' \in Controller /\ (ctl.stop = "fatal" => ctl'.stop = "fatal") /\ Escalated(ctl, ctl')
  BY <1>1, <1>2, PhasesSet, PrioritiesOrdered DEF Escalated, Later, Staged, AfterResult, Controller, RunPhase, Stop
<1>4. NoFault \/ Fault
  BY DEF HookFault
<1>5. stage' \in Stage /\ hookFaults' \in 0..MaxHookFaults
  BY HooksCounted DEF Stage, runVars, NoHookFault
<1>6. storeOpen' \in BOOLEAN /\ result' \in Outcome \cup {NoOutcome} /\ since' \subseteq LateEvent
  BY <1>1, <1>3, StatusTyped DEF runVars, Controller, LateEvent, Late
<1>7. manifest' \in Outcome \cup {NoOutcome}
  BY <1>1, <1>2, <1>3, <1>6, StatusTyped DEF AfterFailedWrite, runVars, Staged, AfterResult, Controller, Later
<1>8. Staged'
  BY <1>1, <1>2, <1>3, PhasesSet, StatusTyped DEF Staged, Escalated, Later, Before, AfterResult, OutsidePool, runVars, RunPhase
<1>9. QED
  BY <1>3, <1>4, <1>5, <1>6, <1>7, <1>8, OutsideStep

LEMMA PoolEndsInv ==
    ASSUME Inv, PoolEnds
    PROVE  Escalated(ctl, ctl') /\ Inv'
<1> USE DEF PoolEnds
<1>1. /\ ctl \in Controller /\ ctl.phase \in RunPhase /\ ctl.stop \in Stop
      /\ stage \in Stage /\ Staged
      /\ storeOpen \in BOOLEAN /\ result \in Outcome \cup {NoOutcome}
      /\ manifest \in Outcome \cup {NoOutcome} /\ since \subseteq LateEvent
  BY DEF Inv, TypeOK, ControllerTypeOK, Controller
<1>2. Later(ctl, fail(ctl)) /\ Later(ctl, cancel(ctl)) /\ fail(ctl).stop = "fatal"
  BY <1>1, ControllerLater
<1>3. ctl' \in Controller /\ (ctl.stop = "fatal" => ctl'.stop = "fatal") /\ Escalated(ctl, ctl')
  BY <1>1, <1>2, PhasesSet, PrioritiesOrdered DEF Escalated, Later, Staged, AfterResult, Controller, RunPhase, Stop
<1>4. NoFault \/ Fault
  BY DEF HookFault
<1>5. stage' \in Stage /\ hookFaults' \in 0..MaxHookFaults
  BY HooksCounted DEF Stage, runVars, NoHookFault
<1>6. storeOpen' \in BOOLEAN /\ result' \in Outcome \cup {NoOutcome} /\ since' \subseteq LateEvent
  BY <1>1, <1>3, StatusTyped DEF runVars, Controller, LateEvent, Late
<1>7. manifest' \in Outcome \cup {NoOutcome}
  BY <1>1, <1>2, <1>3, <1>6, StatusTyped DEF AfterFailedWrite, runVars, Staged, AfterResult, Controller, Later
<1>8. Staged'
  BY <1>1, <1>2, <1>3, PhasesSet, StatusTyped DEF Staged, Escalated, Later, Before, AfterResult, OutsidePool, runVars, RunPhase
<1>9. QED
  BY <1>3, <1>4, <1>5, <1>6, <1>7, <1>8, OutsideStep

LEMMA DrainedInv ==
    ASSUME Inv, Drained
    PROVE  Escalated(ctl, ctl') /\ Inv'
<1> USE DEF Drained
<1>1. /\ ctl \in Controller /\ ctl.phase \in RunPhase /\ ctl.stop \in Stop
      /\ stage \in Stage /\ Staged
      /\ storeOpen \in BOOLEAN /\ result \in Outcome \cup {NoOutcome}
      /\ manifest \in Outcome \cup {NoOutcome} /\ since \subseteq LateEvent
  BY DEF Inv, TypeOK, ControllerTypeOK, Controller
<1>2. Later(ctl, fail(ctl)) /\ Later(ctl, cancel(ctl)) /\ fail(ctl).stop = "fatal"
  BY <1>1, ControllerLater
<1>3. ctl' \in Controller /\ (ctl.stop = "fatal" => ctl'.stop = "fatal") /\ Escalated(ctl, ctl')
  BY <1>1, <1>2, PhasesSet, PrioritiesOrdered DEF Escalated, Later, Staged, AfterResult, Controller, RunPhase, Stop
<1>4. NoFault \/ Fault
  BY DEF HookFault
<1>5. stage' \in Stage /\ hookFaults' \in 0..MaxHookFaults
  BY HooksCounted DEF Stage, runVars, NoHookFault
<1>6. storeOpen' \in BOOLEAN /\ result' \in Outcome \cup {NoOutcome} /\ since' \subseteq LateEvent
  BY <1>1, <1>3, StatusTyped DEF runVars, Controller, LateEvent, Late
<1>7. manifest' \in Outcome \cup {NoOutcome}
  BY <1>1, <1>2, <1>3, <1>6, StatusTyped DEF AfterFailedWrite, runVars, Staged, AfterResult, Controller, Later
<1>8. Staged'
  BY <1>1, <1>2, <1>3, PhasesSet, StatusTyped DEF Staged, Escalated, Later, Before, AfterResult, OutsidePool, runVars, RunPhase
<1>9. QED
  BY <1>3, <1>4, <1>5, <1>6, <1>7, <1>8, OutsideStep

LEMMA CloseAuxiliaryInv ==
    ASSUME Inv, CloseAuxiliary
    PROVE  Escalated(ctl, ctl') /\ Inv'
<1> USE DEF CloseAuxiliary
<1>1. /\ ctl \in Controller /\ ctl.phase \in RunPhase /\ ctl.stop \in Stop
      /\ stage \in Stage /\ Staged
      /\ storeOpen \in BOOLEAN /\ result \in Outcome \cup {NoOutcome}
      /\ manifest \in Outcome \cup {NoOutcome} /\ since \subseteq LateEvent
  BY DEF Inv, TypeOK, ControllerTypeOK, Controller
<1>2. Later(ctl, fail(ctl)) /\ Later(ctl, cancel(ctl)) /\ fail(ctl).stop = "fatal"
  BY <1>1, ControllerLater
<1>3. ctl' \in Controller /\ (ctl.stop = "fatal" => ctl'.stop = "fatal") /\ Escalated(ctl, ctl')
  BY <1>1, <1>2, PhasesSet, PrioritiesOrdered DEF Escalated, Later, Staged, AfterResult, Controller, RunPhase, Stop
<1>4. NoFault \/ Fault
  BY DEF HookFault
<1>5. stage' \in Stage /\ hookFaults' \in 0..MaxHookFaults
  BY HooksCounted DEF Stage, runVars, NoHookFault
<1>6. storeOpen' \in BOOLEAN /\ result' \in Outcome \cup {NoOutcome} /\ since' \subseteq LateEvent
  BY <1>1, <1>3, StatusTyped DEF runVars, Controller, LateEvent, Late
<1>7. manifest' \in Outcome \cup {NoOutcome}
  BY <1>1, <1>2, <1>3, <1>6, StatusTyped DEF AfterFailedWrite, runVars, Staged, AfterResult, Controller, Later
<1>8. Staged'
  BY <1>1, <1>2, <1>3, PhasesSet, StatusTyped DEF Staged, Escalated, Later, Before, AfterResult, OutsidePool, runVars, RunPhase, Controller
<1>9. QED
  BY <1>3, <1>4, <1>5, <1>6, <1>7, <1>8, OutsideStep

LEMMA PersistResultInv ==
    ASSUME Inv,
           NEW from, NEW to, <<from, to>> \in {<<"persisting", "flushing">>, <<"repersisting", "reflushing">>}, PersistResult(from, to)
    PROVE  Escalated(ctl, ctl') /\ Inv'
<1> USE DEF PersistResult
<1>1. /\ ctl \in Controller /\ ctl.phase \in RunPhase /\ ctl.stop \in Stop
      /\ stage \in Stage /\ Staged
      /\ storeOpen \in BOOLEAN /\ result \in Outcome \cup {NoOutcome}
      /\ manifest \in Outcome \cup {NoOutcome} /\ since \subseteq LateEvent
  BY DEF Inv, TypeOK, ControllerTypeOK, Controller
<1>2. Later(ctl, fail(ctl)) /\ Later(ctl, cancel(ctl)) /\ fail(ctl).stop = "fatal"
  BY <1>1, ControllerLater
<1>3. ctl' \in Controller /\ (ctl.stop = "fatal" => ctl'.stop = "fatal") /\ Escalated(ctl, ctl')
  BY <1>1, <1>2, PhasesSet, PrioritiesOrdered DEF Escalated, Later, Staged, AfterResult, Controller, RunPhase, Stop
<1>4. NoFault \/ Fault
  BY DEF HookFault
<1>5. stage' \in Stage /\ hookFaults' \in 0..MaxHookFaults
  BY HooksCounted DEF Stage, runVars, NoHookFault
<1>6. storeOpen' \in BOOLEAN /\ result' \in Outcome \cup {NoOutcome} /\ since' \subseteq LateEvent
  BY <1>1, <1>3, StatusTyped, ZenonT(60) DEF runVars, Controller, LateEvent, Late
<1>7. manifest' \in Outcome \cup {NoOutcome}
  BY <1>1, <1>2, <1>3, <1>6, StatusTyped DEF AfterFailedWrite, runVars, Staged, AfterResult, Controller, Later
<1>8. Staged'
  BY <1>1, <1>2, <1>3, PhasesSet, StatusTyped DEF Staged, Escalated, Later, Before, AfterResult, OutsidePool, runVars, RunPhase, Controller
<1>9. QED
  BY <1>3, <1>4, <1>5, <1>6, <1>7, <1>8, OutsideStep

LEMMA FlushedInv ==
    ASSUME Inv,
           NEW from, NEW to, <<from, to>> \in {<<"flushing", "announcing">>, <<"reflushing", "storeClosing">>}, Flushed(from, to)
    PROVE  Escalated(ctl, ctl') /\ Inv'
<1> USE DEF Flushed
<1>1. /\ ctl \in Controller /\ ctl.phase \in RunPhase /\ ctl.stop \in Stop
      /\ stage \in Stage /\ Staged
      /\ storeOpen \in BOOLEAN /\ result \in Outcome \cup {NoOutcome}
      /\ manifest \in Outcome \cup {NoOutcome} /\ since \subseteq LateEvent
  BY DEF Inv, TypeOK, ControllerTypeOK, Controller
<1>2. Later(ctl, fail(ctl)) /\ Later(ctl, cancel(ctl)) /\ fail(ctl).stop = "fatal"
  BY <1>1, ControllerLater
<1>3. ctl' \in Controller /\ (ctl.stop = "fatal" => ctl'.stop = "fatal") /\ Escalated(ctl, ctl')
  BY <1>1, <1>2, PhasesSet, PrioritiesOrdered DEF Escalated, Later, Staged, AfterResult, Controller, RunPhase, Stop
<1>4. NoFault \/ Fault
  BY DEF HookFault
<1>5. stage' \in Stage /\ hookFaults' \in 0..MaxHookFaults
  BY HooksCounted DEF Stage, runVars, NoHookFault
<1>6. storeOpen' \in BOOLEAN /\ result' \in Outcome \cup {NoOutcome} /\ since' \subseteq LateEvent
  BY <1>1, <1>3, StatusTyped DEF runVars, Controller, LateEvent, Late
<1>7. manifest' \in Outcome \cup {NoOutcome}
  BY <1>1, <1>2, <1>3, <1>6, StatusTyped DEF AfterFailedWrite, runVars, Staged, AfterResult, Controller, Later
<1>8. Staged'
  BY <1>1, <1>2, <1>3, PhasesSet, StatusTyped DEF Staged, Escalated, Later, Before, AfterResult, OutsidePool, runVars, RunPhase
<1>9. QED
  BY <1>3, <1>4, <1>5, <1>6, <1>7, <1>8, OutsideStep

LEMMA InvokeTerminalHookInv ==
    ASSUME Inv, InvokeTerminalHook
    PROVE  Escalated(ctl, ctl') /\ Inv'
<1> USE DEF InvokeTerminalHook, TerminalHook
<1>1. /\ ctl \in Controller /\ ctl.phase \in RunPhase /\ ctl.stop \in Stop
      /\ stage \in Stage /\ Staged
      /\ storeOpen \in BOOLEAN /\ result \in Outcome \cup {NoOutcome}
      /\ manifest \in Outcome \cup {NoOutcome} /\ since \subseteq LateEvent
  BY DEF Inv, TypeOK, ControllerTypeOK, Controller
<1>2. Later(ctl, fail(ctl)) /\ Later(ctl, cancel(ctl)) /\ fail(ctl).stop = "fatal"
  BY <1>1, ControllerLater
<1>3. ctl' \in Controller /\ (ctl.stop = "fatal" => ctl'.stop = "fatal") /\ Escalated(ctl, ctl')
  BY <1>1, <1>2, PhasesSet, PrioritiesOrdered DEF Escalated, Later, Staged, AfterResult, Controller, RunPhase, Stop
<1>4. NoFault \/ Fault
  BY DEF HookFault
<1>5. stage' \in Stage /\ hookFaults' \in 0..MaxHookFaults
  BY HooksCounted DEF Stage, runVars, NoHookFault
<1>6. storeOpen' \in BOOLEAN /\ result' \in Outcome \cup {NoOutcome} /\ since' \subseteq LateEvent
  BY <1>1, <1>3, StatusTyped DEF runVars, Controller, LateEvent, Late
<1>7. manifest' \in Outcome \cup {NoOutcome}
  BY <1>1, <1>2, <1>3, <1>6, StatusTyped DEF AfterFailedWrite, runVars, Staged, AfterResult, Controller, Later
<1>8. Staged'
  BY <1>1, <1>2, <1>3, PhasesSet, StatusTyped DEF Staged, Escalated, Later, Before, AfterResult, OutsidePool, runVars, RunPhase, Controller
<1>9. QED
  BY <1>3, <1>4, <1>5, <1>6, <1>7, <1>8, OutsideStep

LEMMA CloseStoreInv ==
    ASSUME Inv, CloseStore
    PROVE  Escalated(ctl, ctl') /\ Inv'
<1> USE DEF CloseStore
<1>1. /\ ctl \in Controller /\ ctl.phase \in RunPhase /\ ctl.stop \in Stop
      /\ stage \in Stage /\ Staged
      /\ storeOpen \in BOOLEAN /\ result \in Outcome \cup {NoOutcome}
      /\ manifest \in Outcome \cup {NoOutcome} /\ since \subseteq LateEvent
  BY DEF Inv, TypeOK, ControllerTypeOK, Controller
<1>2. Later(ctl, fail(ctl)) /\ Later(ctl, cancel(ctl)) /\ fail(ctl).stop = "fatal"
  BY <1>1, ControllerLater
<1>3. ctl' \in Controller /\ (ctl.stop = "fatal" => ctl'.stop = "fatal") /\ Escalated(ctl, ctl')
  BY <1>1, <1>2, PhasesSet, PrioritiesOrdered DEF Escalated, Later, Staged, AfterResult, Controller, RunPhase, Stop
<1>4. NoFault \/ Fault
  BY DEF HookFault
<1>5. stage' \in Stage /\ hookFaults' \in 0..MaxHookFaults
  BY HooksCounted DEF Stage, runVars, NoHookFault
<1>6. storeOpen' \in BOOLEAN /\ result' \in Outcome \cup {NoOutcome} /\ since' \subseteq LateEvent
  BY <1>1, <1>3, StatusTyped, ZenonT(60) DEF runVars, Controller, LateEvent, Late
<1>7. manifest' \in Outcome \cup {NoOutcome}
  BY <1>1, <1>2, <1>3, <1>6, StatusTyped DEF AfterFailedWrite, runVars, Staged, AfterResult, Controller, Later
<1>8. Staged'
  BY <1>1, <1>2, <1>3, PhasesSet, StatusTyped DEF Staged, Escalated, Later, Before, AfterResult, OutsidePool, runVars, RunPhase, Controller
<1>9. QED
  BY <1>3, <1>4, <1>5, <1>6, <1>7, <1>8, OutsideStep

LEMMA AbortInv ==
    ASSUME Inv, Abort
    PROVE  Escalated(ctl, ctl') /\ Inv'
<1> USE DEF Abort
<1>1. /\ ctl \in Controller /\ ctl.phase \in RunPhase /\ ctl.stop \in Stop
      /\ stage \in Stage /\ Staged
      /\ storeOpen \in BOOLEAN /\ result \in Outcome \cup {NoOutcome}
      /\ manifest \in Outcome \cup {NoOutcome} /\ since \subseteq LateEvent
  BY DEF Inv, TypeOK, ControllerTypeOK, Controller
<1>2. Later(ctl, fail(ctl)) /\ Later(ctl, cancel(ctl)) /\ fail(ctl).stop = "fatal"
  BY <1>1, ControllerLater
<1>3. ctl' \in Controller /\ (ctl.stop = "fatal" => ctl'.stop = "fatal") /\ Escalated(ctl, ctl')
  BY <1>1, <1>2, PhasesSet, PrioritiesOrdered DEF Escalated, Later, Staged, AfterResult, Controller, RunPhase, Stop
<1>4. NoFault \/ Fault
  BY DEF HookFault
<1>5. stage' \in Stage /\ hookFaults' \in 0..MaxHookFaults
  BY <1>1, HooksCounted DEF NoHookFault
<1>6. storeOpen' \in BOOLEAN /\ result' \in Outcome \cup {NoOutcome} /\ since' \subseteq LateEvent
  BY <1>1, <1>3, StatusTyped DEF runVars, Controller, LateEvent, Late
<1>7. manifest' \in Outcome \cup {NoOutcome}
  BY <1>1, <1>2, <1>3, <1>6, StatusTyped DEF AfterFailedWrite, runVars, Staged, AfterResult, Controller, Later
<1>8. Staged'
  BY <1>1, <1>2, <1>3, PhasesSet, StatusTyped DEF Staged, Escalated, Later, Before, AfterResult, OutsidePool, runVars, RunPhase
<1>9. QED
  BY <1>3, <1>4, <1>5, <1>6, <1>7, <1>8, OutsideStep

LEMMA EventHookFailsInv ==
    ASSUME Inv, EventHookFails
    PROVE  Escalated(ctl, ctl') /\ Inv'
<1> USE DEF EventHookFails
<1>1. /\ ctl \in Controller /\ ctl.phase \in RunPhase /\ ctl.stop \in Stop
      /\ stage \in Stage /\ Staged
      /\ storeOpen \in BOOLEAN /\ result \in Outcome \cup {NoOutcome}
      /\ manifest \in Outcome \cup {NoOutcome} /\ since \subseteq LateEvent
  BY DEF Inv, TypeOK, ControllerTypeOK, Controller
<1>2. Later(ctl, fail(ctl)) /\ Later(ctl, cancel(ctl)) /\ fail(ctl).stop = "fatal"
  BY <1>1, ControllerLater
<1>3. ctl' \in Controller /\ (ctl.stop = "fatal" => ctl'.stop = "fatal") /\ Escalated(ctl, ctl')
  BY <1>1, <1>2, PhasesSet, PrioritiesOrdered DEF Escalated, Later, Staged, AfterResult, Controller, RunPhase, Stop
<1>4. NoFault \/ Fault
  BY DEF HookFault
<1>5. stage' \in Stage /\ hookFaults' \in 0..MaxHookFaults
  BY <1>1, HooksCounted
<1>6. storeOpen' \in BOOLEAN /\ result' \in Outcome \cup {NoOutcome} /\ since' \subseteq LateEvent
  BY <1>1, <1>3, StatusTyped DEF runVars, Controller, LateEvent, Late
<1>7. manifest' \in Outcome \cup {NoOutcome}
  BY <1>1, <1>2, <1>3, <1>6, StatusTyped DEF AfterFailedWrite, runVars, Staged, AfterResult, Controller, Later
<1>8. Staged'
  BY <1>1, <1>2, <1>3, PhasesSet, StatusTyped DEF Staged, Escalated, Later, Before, AfterResult, OutsidePool, runVars, RunPhase
<1>9. QED
  BY <1>3, <1>4, <1>5, <1>6, <1>7, <1>8, OutsideStep

LEMMA BootstrappedInv ==
    ASSUME Inv, Bootstrapped
    PROVE  Escalated(ctl, ctl') /\ Inv'
<1> USE DEF Bootstrapped
<1>1. Later(ctl, ctl')
  BY ControllerLater DEF Inv, TypeOK, ControllerTypeOK
<1>2. req' \in [Requests -> ReqState]
  BY DEF ReqState
<1>3. \A w \in Workers : work[w] = AtRest("idle")
  BY DEF Inv, Staged, Before
<1>4. \A s, stop : Coherent(AtRest("idle"), s, stop)
  BY DEF Coherent, Resting, AtRest
<1>5. WorkCoherent'
  BY <1>3, <1>4 DEF WorkCoherent
<1>6. JobsUnique' /\ ReservationsBalanced'
  BY DEF Inv, JobsUnique, ReservationsBalanced, Job
<1>7. TypeOK'
  BY <1>1, <1>2, FaultCounted, HooksCounted DEF Inv, TypeOK, ControllerTypeOK, PoolTypeOK, Later, Stage
<1>8. Staged'
  BY <1>1 DEF Inv, Staged, Later, Before, AfterResult
<1>9. QED
  BY <1>1, <1>5, <1>6, <1>7, <1>8, LaterEscalates DEF Inv

LEMMA RunTimePassesInv ==
    ASSUME Inv, RunTimePasses
    PROVE  Escalated(ctl, ctl') /\ Inv'
<1> USE DEF RunTimePasses, TimePasses, poolVars, runVars
<1>1. Later(ctl, ctl')
  BY ControllerLater DEF Inv, TypeOK, ControllerTypeOK
<1>2. TypeOK' /\ Staged'
  BY DEF Inv, TypeOK, ControllerTypeOK, PoolTypeOK, Staged
<1>3. WorkCoherent' /\ JobsUnique' /\ ReservationsBalanced'
  BY DEF Inv, WorkCoherent, JobsUnique, ReservationsBalanced, Job
<1>4. QED
  BY <1>1, <1>2, <1>3, LaterEscalates DEF Inv

LEMMA InitInv == Init => Inv
<1> SUFFICES ASSUME Init PROVE Inv
  OBVIOUS
<1> USE DEF Init, ControllerInit, PoolInit
<1>1. AtRest("idle") \in Work /\ \A s, stop : Coherent(AtRest("idle"), s, stop)
  BY DEF AtRest, Work, Await, Coherent, Resting
<1>2. TypeOK
  <2>1. ControllerTypeOK
    BY DEF ControllerTypeOK, Controller, RunPhase, Stop
  <2>2. PoolTypeOK
    BY <1>1, PoolAssumption DEF PoolAssumption, PoolTypeOK, ReqState
  <2>3. hookFaults \in 0..MaxHookFaults
    BY RunAssumption DEF RunAssumption
  <2>4. QED
    BY <2>1, <2>2, <2>3 DEF TypeOK, Stage
<1>3. WorkCoherent /\ JobsUnique
  BY <1>1 DEF WorkCoherent, JobsUnique, Job, AtRest
<1>4. Staged
  BY DEF Staged, Before, AfterResult
<1>5. ReservationsBalanced
  <2>1. Started = {} /\ \A o : AtOrigin(o) = {}
    BY DEF Started, AtOrigin, Job, AtRest
  <2>2. Cardinality({}) = 0
    BY FS_EmptySet
  <2>3. MaxPerOrigin \in Nat
    BY PoolAssumption DEF PoolAssumption
  <2>4. OriginsCounted /\ StartedCounted
    BY <2>1, <2>2, <2>3 DEF OriginsCounted, StartedCounted
  <2>5. QED
    BY <2>4, BalanceSplit
<1>6. QED
  BY <1>2, <1>3, <1>4, <1>5 DEF Inv

LEMMA StepInv ==
    ASSUME Inv, [Next]_vars
    PROVE  Escalated(ctl, ctl') /\ Inv'
<1>1. CASE RunStep
  BY <1>1, OpenedInv, PreparedInv, BootstrappedInv, PoolEndsInv, DrainedInv, CloseAuxiliaryInv,
     PersistResultInv, FlushedInv, InvokeTerminalHookInv, CloseStoreInv DEF RunStep
<1>2. CASE StartFails \/ PoolStep \/ Abort \/ EventHookFails \/ RunTimePasses
  BY <1>2, StartFailsInv, PoolInv, LaterEscalates, AbortInv, EventHookFailsInv, RunTimePassesInv
<1>3. CASE UNCHANGED vars
  <2> USE <1>3 DEF vars, controllerVars, poolVars
  <2>1. Escalated(ctl, ctl')
    BY ControllerLater, LaterEscalates DEF Inv, TypeOK, ControllerTypeOK
  <2>2. TypeOK' /\ Staged'
    BY DEF Inv, TypeOK, ControllerTypeOK, PoolTypeOK, Staged
  <2>3. WorkCoherent' /\ JobsUnique' /\ ReservationsBalanced'
    BY DEF Inv, WorkCoherent, JobsUnique, ReservationsBalanced, Job
  <2>4. QED
    BY <2>1, <2>2, <2>3 DEF Inv
<1>4. QED
  BY <1>1, <1>2, <1>3 DEF Next

THEOREM Invariance == Spec => []Inv
<1>1. Init => Inv
  BY InitInv
<1>2. Inv /\ [Next]_vars => Inv'
  BY StepInv
<1>3. QED
  BY <1>1, <1>2, PTL DEF Spec

(* The controller, the pool and the run hold only values the code gives    *)
(* them: no count of active fetches or requests ever goes below zero.      *)
THEOREM TypeCorrect == Spec => []TypeOK
<1>1. Inv => TypeOK
  BY DEF Inv
<1>2. QED
  BY <1>1, Invariance, PTL

(* Every path of leaseNext() and processLease() that reserved an origin    *)
(* gives it back once, whatever rejects and whenever the run is aborted:   *)
(* the politeness controller's and the controller's counts are those of    *)
(* the workers, and maxConcurrencyPerOrigin is kept.                       *)
THEOREM ReservationsBalancedHolds == Spec => []ReservationsBalanced
<1>1. Inv => ReservationsBalanced
  BY DEF Inv
<1>2. QED
  BY <1>1, Invariance, PTL

(* No step of a run, in the pool or out of it, weakens the reason to stop, *)
(* takes the phase back or revokes an abort; and only a cancellation or a  *)
(* fatal error aborts what is active (setStop).                            *)
THEOREM StopEscalatesHolds == Spec => StopEscalates
<1>1. Inv /\ [Next]_vars => [Escalated(ctl, ctl')]_ctl
  BY StepInv
<1>2. [][Escalated(ctl, ctl')]_ctl => StopEscalates
  BY PTL DEF StopEscalates, Escalated
<1>3. QED
  BY <1>1, <1>2, Invariance, PTL DEF Spec

-----------------------------------------------------------------------------
(* How a run ends.                                                         *)

Unlimited == {"none", "frontier-empty", "soft"}

(* A lease belongs to a worker, or was left behind by one that failed.     *)
RequestsOwned ==
    \A r \in Requests : /\ req[r] = "leasing" => \E w \in Workers : Job(w) = r
                        /\ req[r] = "leased" => Rejected \/ \E w \in Workers : Job(w) = r

(* When all have left workerLoop() without an error, nothing is pending.   *)
PendingServed ==
    stage \notin Before /\ Settled /\ ~Rejected /\ ctl.stop \in Unlimited => In("pending") = {}

(* A run that went on from the pool without a fatal error had none there.  *)
PoolLeft ==
    stage \notin Before \cup {"pool"} /\ ctl.stop # "fatal" => \A w \in Workers : work[w].at = "ended"

Doomed == \/ ctl.stop \in {"cancelled", "fatal"}
          \/ \E w \in Workers : work[w].throws \/ work[w].at = "rejected"

(* The responses that were counted and are not handled yet.                *)
HasResponse(k) == k.at = "processing" \/ (k.at = "marking" /\ k.outcome = "handled")
InHand == {w \in Workers : HasResponse(work[w])}

HandledCounted ==
    extensionFaults = 0 /\ ~Doomed => fetched = Cardinality(In("handled")) + Cardinality(InHand)

(* The workers whose request may still bring a response.                   *)
MayFetch(k) == k.at \in {"leasing", "delaying", "fetching"}
Flying == {w \in Workers : MayFetch(work[w])}

CrossingBounded ==
    \/ fetched < MaxFetched
    \/ /\ ctl.stop \in {"hard", "cancelled", "fatal"}
       /\ fetched + Cardinality(Flying) < MaxFetched + Cardinality(Workers)

OutcomeInv == /\ RequestsOwned
              /\ PendingServed
              /\ PoolLeft
              /\ HandledCounted
              /\ CrossingBounded

------------------------------------------------------------------------------
(* A step of worker w as far as the outcome goes: it keeps what it has     *)
(* taken or gives it up properly, and leaves for a good reason.            *)
Tidy(w) ==
    /\ \A v \in Workers \ {w} : work'[v] = work[v]
    /\ Later(ctl, ctl')
    /\ work[w].at = "rejected" => work'[w].at = "rejected"
    /\ \A r \in Requests : req'[r] \in {"leasing", "leased"} => req'[r] = req[r] \/ work'[w].req = r
    /\ \/ Job(w) \in {NoRequest, work'[w].req}
       \/ /\ req'[Job(w)] # "leasing"
          /\ req'[Job(w)] = "leased" => work'[w].at = "rejected"
    /\ work'[w].at = "ended" => \/ work[w].at = "ended" /\ req' = req
                                \/ ctl'.stop \notin Unlimited
                                \/ In("pending")' = {}
    /\ work[w].throws => work'[w].throws \/ work'[w].at = "rejected" \/ ctl'.stop = "fatal"
    /\ extensionFaults' = 0 => extensionFaults = 0

(* It neither brings nor loses a response, or the run is doomed.           *)
Neutral(w) ==
    /\ fetched' = fetched
    /\ \/ /\ HasResponse(work'[w]) <=> HasResponse(work[w])
          /\ \A r \in Requests : req'[r] = "handled" <=> req[r] = "handled"
       \/ work'[w].throws \/ ctl'.stop \in {"cancelled", "fatal"} \/ extensionFaults' # 0
    /\ MayFetch(work'[w]) => MayFetch(work[w]) \/ fetched < MaxFetched

LEMMA RejectedStays ==
    ASSUME NEW w \in Workers, Tidy(w)
    PROVE  Rejected => Rejected'
BY DEF Rejected, Tidy

LEMMA StaysDoomed ==
    ASSUME Inv, NEW w \in Workers, Tidy(w)
    PROVE  Doomed => Doomed'
<1>1. ctl.stop \in {"cancelled", "fatal"} => ctl'.stop \in {"cancelled", "fatal"}
  <2>1. ctl'.stop \in Stop /\ stopPriority(ctl'.stop) >= stopPriority(ctl.stop)
    BY DEF Tidy, Later, Controller
  <2>2. QED
    BY <2>1 DEF Stop, stopPriority
<1>2. ctl'.stop = "fatal" => Doomed'
  BY DEF Doomed
<1>3. QED
  BY <1>1, <1>2 DEF Doomed, Tidy

LEMMA TidyOwned ==
    ASSUME Inv, RequestsOwned, NEW w \in Workers, Tidy(w)
    PROVE  RequestsOwned'
<1>1. Rejected => Rejected'
  BY RejectedStays
<1>2. work'[w].at = "rejected" => Rejected'
  BY DEF Rejected
<1>3. ASSUME NEW r \in Requests, req'[r] \in {"leasing", "leased"}, \A v \in Workers : work'[v].req # r
      PROVE  req'[r] = "leased" /\ Rejected'
  <2>1. req'[r] = req[r]
    BY <1>3 DEF Tidy
  <2>2. CASE \E v \in Workers : Job(v) = r
    <3>1. Job(w) = r
      BY <1>3, <2>2 DEF Tidy, Job
    <3>2. QED
      BY <1>2, <1>3, <3>1, PoolAssumption DEF Tidy, PoolAssumption
  <2>3. CASE \A v \in Workers : Job(v) # r
    BY <1>1, <1>3, <2>1, <2>3 DEF RequestsOwned
  <2>4. QED
    BY <2>2, <2>3
<1>4. QED
  BY <1>3 DEF RequestsOwned, Job

LEMMA TidyServed ==
    ASSUME Inv, PendingServed, stage = "pool", UNCHANGED runVars, NEW w \in Workers, Tidy(w)
    PROVE  PendingServed'
<1> SUFFICES ASSUME Settled', ~Rejected', ctl'.stop \in Unlimited
             PROVE  In("pending")' = {}
  BY DEF PendingServed
<1>1. work'[w].at = "ended" /\ ~Rejected
  BY RejectedStays DEF Settled, Rejected
<1>2. CASE work[w].at = "ended" /\ req' = req
  <2>1. Settled
    BY <1>2 DEF Settled, Tidy
  <2>2. ctl.stop \in Unlimited
    <3>1. ctl.stop \in Stop /\ stopPriority(ctl'.stop) >= stopPriority(ctl.stop)
      BY DEF Tidy, Later, Inv, TypeOK, ControllerTypeOK, Controller
    <3>2. QED
      BY <3>1 DEF Stop, stopPriority, Unlimited
  <2>3. In("pending") = {}
    BY <1>1, <2>1, <2>2 DEF PendingServed, Before
  <2>4. QED
    BY <1>2, <2>3 DEF In
<1>3. QED
  BY <1>1, <1>2 DEF Tidy

LEMMA NeutralCounted ==
    ASSUME Inv, HandledCounted, NEW w \in Workers, Tidy(w), Neutral(w)
    PROVE  HandledCounted'
<1> SUFFICES ASSUME extensionFaults' = 0, ~Doomed'
             PROVE  fetched' = Cardinality(In("handled")') + Cardinality(InHand')
  BY DEF HandledCounted
<1>1. extensionFaults = 0 /\ ~Doomed
  BY StaysDoomed DEF Tidy
<1>2. /\ HasResponse(work'[w]) <=> HasResponse(work[w])
      /\ \A r \in Requests : req'[r] = "handled" <=> req[r] = "handled"
  BY DEF Neutral, Doomed
<1>3. In("handled")' = In("handled")
  BY <1>2 DEF In
<1>4. InHand' = InHand
  BY <1>2 DEF InHand, Tidy
<1>5. QED
  BY <1>1, <1>3, <1>4 DEF HandledCounted, Neutral

LEMMA NeutralBounded ==
    ASSUME Inv, CrossingBounded, NEW w \in Workers, Tidy(w), Neutral(w)
    PROVE  CrossingBounded'
<1> SUFFICES ASSUME ~(fetched < MaxFetched)
             PROVE  /\ ctl'.stop \in {"hard", "cancelled", "fatal"}
                    /\ fetched' + Cardinality(Flying') < MaxFetched + Cardinality(Workers)
  BY DEF CrossingBounded, Neutral
<1>1. ctl'.stop \in {"hard", "cancelled", "fatal"}
  <2>1. ctl.stop \in Stop /\ ctl'.stop \in Stop /\ stopPriority(ctl'.stop) >= stopPriority(ctl.stop)
    BY DEF Tidy, Later, Inv, TypeOK, ControllerTypeOK, Controller
  <2>2. QED
    BY <2>1 DEF CrossingBounded, Stop, stopPriority
<1>2. Flying' \in SUBSET Flying /\ Flying \in SUBSET Workers
  BY DEF Flying, Tidy, Neutral
<1>3. /\ IsFiniteSet(Flying) /\ Cardinality(Flying') \in Nat /\ Cardinality(Flying) \in Nat
      /\ Cardinality(Workers) \in Nat
  BY <1>2, WorkersCounted
<1>4. Cardinality(Flying') <= Cardinality(Flying)
  BY <1>2, <1>3, FS_Subset
<1>5. QED
  BY <1>1, <1>3, <1>4, MaxFetchedAssumption
     DEF MaxFetchedAssumption, CrossingBounded, Neutral, Inv, TypeOK, ControllerTypeOK

LEMMA NeutralStep ==
    ASSUME Inv, OutcomeInv, stage = "pool", UNCHANGED runVars, NEW w \in Workers, Tidy(w), Neutral(w)
    PROVE  OutcomeInv'
<1>1. PoolLeft'
  BY DEF PoolLeft, runVars
<1>2. QED
  BY <1>1, TidyOwned, TidyServed, NeutralCounted, NeutralBounded DEF OutcomeInv

(* Whoever may lease is below the limit.                                   *)
LEMMA LeasesUnderLimit ==
    ASSUME ctl \in Controller, fetched \in Nat, mayLease(refreshLimits(ctl, fetched))
    PROVE  fetched < MaxFetched
<1> SUFFICES ASSUME fetched >= MaxFetched
             PROVE  FALSE
  BY MaxFetchedAssumption DEF MaxFetchedAssumption
<1>1. mayLease(noteLimit(ctl, "hard"))
  BY DEF refreshLimits
<1>2. ctl.stop \in Stop
  BY DEF Controller
<1>3. QED
  BY <1>1, <1>2 DEF mayLease, noteLimit, setStop, Stop, stopPriority

------------------------------------------------------------------------------
(* One lemma per action of a worker.                                       *)

LEMMA LeaseNextEnds ==
    ASSUME Inv, OutcomeInv, stage = "pool", UNCHANGED runVars, NEW w \in Workers, NEW r \in Requests, LeaseNext(w, r)
    PROVE  OutcomeInv'
<1> USE DEF Typed, LeaseNext, At, controllerVars, AtRest, Reservable, In
<1>1. Typed(w)
  BY WorkerTyped
<1>2. Later(ctl, ctl')
  BY <1>1, ControllerLater
<1>3. extensionFaults' = 0 => extensionFaults = 0
  BY <1>1 DEF Fault, ExtensionFault, NoFault
<1>4. Tidy(w)
  BY <1>1, <1>2, <1>3 DEF Tidy, Coherent, Work, ReqState, Job, Resting, TerminalState, Unlimited
<1>5. Neutral(w)
  <2>1. fetched < MaxFetched
    BY <1>1, LeasesUnderLimit
  <2>2. work[w] = AtRest("idle")
    BY <1>1 DEF Coherent, Resting
  <2>3. work'[w].at = "leasing" /\ fetched' = fetched /\ \A q \in Requests : req'[q] = req[q] \/ (req[q] = "pending" /\ req'[q] = "leasing")
    BY <1>1
  <2>4. QED
    BY <2>1, <2>2, <2>3 DEF Neutral, HasResponse, MayFetch
<1>6. QED
  BY <1>4, <1>5, NeutralStep

LEMMA LeaseNothingEnds ==
    ASSUME Inv, OutcomeInv, stage = "pool", UNCHANGED runVars, NEW w \in Workers, LeaseNothing(w)
    PROVE  OutcomeInv'
<1> USE DEF Typed, LeaseNothing, At, controllerVars, AtRest, Outstanding, In
<1>1. Typed(w)
  BY WorkerTyped
<1>2. Later(ctl, ctl')
  BY <1>1, ControllerLater
<1>3. extensionFaults' = 0 => extensionFaults = 0
  BY <1>1 DEF Fault, ExtensionFault, NoFault
<1>4. Tidy(w)
  BY <1>1, <1>2, <1>3 DEF Tidy, Coherent, Work, ReqState, Job, Resting, TerminalState, Unlimited
<1>5. Neutral(w)
  BY <1>1, <1>2, <1>3 DEF Neutral, HasResponse, MayFetch, Coherent, Work, Resting, TerminalState, Fault, ExtensionFault, NoFault, Later
<1>6. QED
  BY <1>4, <1>5, NeutralStep

LEMMA LeaveLoopEnds ==
    ASSUME Inv, OutcomeInv, stage = "pool", UNCHANGED runVars, NEW w \in Workers, LeaveLoop(w)
    PROVE  OutcomeInv'
<1> USE DEF Typed, LeaveLoop, At, controllerVars, AtRest, mayLease
<1>1. Typed(w)
  BY WorkerTyped
<1>2. Later(ctl, ctl')
  BY <1>1, ControllerLater
<1>3. extensionFaults' = 0 => extensionFaults = 0
  BY <1>1 DEF Fault, ExtensionFault, NoFault
<1>4. Tidy(w)
  BY <1>1, <1>2, <1>3 DEF Tidy, Coherent, Work, ReqState, Job, Resting, TerminalState, Unlimited
<1>5. Neutral(w)
  BY <1>1, <1>2, <1>3 DEF Neutral, HasResponse, MayFetch, Coherent, Work, Resting, TerminalState, Fault, ExtensionFault, NoFault, Later
<1>6. QED
  BY <1>4, <1>5, NeutralStep

LEMMA WakeEnds ==
    ASSUME Inv, OutcomeInv, stage = "pool", UNCHANGED runVars, NEW w \in Workers, Wake(w)
    PROVE  OutcomeInv'
<1> USE DEF Typed, Wake, At, controllerVars, AtRest
<1>1. Typed(w)
  BY WorkerTyped
<1>2. Later(ctl, ctl')
  BY <1>1, ControllerLater
<1>3. extensionFaults' = 0 => extensionFaults = 0
  BY <1>1 DEF Fault, ExtensionFault, NoFault
<1>4. Tidy(w)
  BY <1>1, <1>2, <1>3 DEF Tidy, Coherent, Work, ReqState, Job, Resting, TerminalState, Unlimited
<1>5. Neutral(w)
  BY <1>1, <1>2, <1>3 DEF Neutral, HasResponse, MayFetch, Coherent, Work, Resting, TerminalState, Fault, ExtensionFault, NoFault, Later
<1>6. QED
  BY <1>4, <1>5, NeutralStep

LEMMA LeaseGrantedEnds ==
    ASSUME Inv, OutcomeInv, stage = "pool", UNCHANGED runVars, NEW w \in Workers, LeaseGranted(w)
    PROVE  OutcomeInv'
<1> USE DEF Typed, LeaseGranted, At, controllerVars
<1>1. Typed(w)
  BY WorkerTyped
<1>2. Later(ctl, ctl')
  BY <1>1, ControllerLater
<1>3. extensionFaults' = 0 => extensionFaults = 0
  BY <1>1 DEF Fault, ExtensionFault, NoFault
<1>4. Tidy(w)
  BY <1>1, <1>2, <1>3 DEF Tidy, Coherent, Work, ReqState, Job, Resting, TerminalState, Unlimited
<1>5. Neutral(w)
  BY <1>1, <1>2, <1>3 DEF Neutral, HasResponse, MayFetch, Coherent, Work, Resting, TerminalState, Fault, ExtensionFault, NoFault, Later
<1>6. QED
  BY <1>4, <1>5, NeutralStep

LEMMA LeaseFailsEnds ==
    ASSUME Inv, OutcomeInv, stage = "pool", UNCHANGED runVars, NEW w \in Workers, LeaseFails(w)
    PROVE  OutcomeInv'
<1> USE DEF Typed, LeaseFails, At, controllerVars, AtRest
<1>1. Typed(w)
  BY WorkerTyped
<1>2. Later(ctl, ctl')
  BY <1>1, ControllerLater
<1>3. extensionFaults' = 0 => extensionFaults = 0
  BY <1>1 DEF Fault, ExtensionFault, NoFault
<1>4. Tidy(w)
  BY <1>1, <1>2, <1>3 DEF Tidy, Coherent, Work, ReqState, Job, Resting, TerminalState, Unlimited
<1>5. Neutral(w)
  <2>1. work'[w].at = "rejected" /\ req[Job(w)] = "leasing" /\ Job(w) \in Requests
    BY <1>1 DEF Coherent, Resting, Job
  <2>2. \A q \in Requests : req'[q] = req[q] \/ (req[q] = "leasing" /\ req'[q] = "pending")
    BY <1>1, <2>1
  <2>3. QED
    BY <2>1, <2>2 DEF Neutral, HasResponse, MayFetch
<1>6. QED
  BY <1>4, <1>5, NeutralStep

LEMMA BeginRequestEnds ==
    ASSUME Inv, OutcomeInv, stage = "pool", UNCHANGED runVars, NEW w \in Workers, BeginRequest(w)
    PROVE  OutcomeInv'
<1> USE DEF Typed, BeginRequest, At, controllerVars
<1>1. Typed(w)
  BY WorkerTyped
<1>2. Later(ctl, ctl')
  BY <1>1, ControllerLater
<1>3. extensionFaults' = 0 => extensionFaults = 0
  BY <1>1 DEF Fault, ExtensionFault, NoFault
<1>4. Tidy(w)
  BY <1>1, <1>2, <1>3 DEF Tidy, Coherent, Work, ReqState, Job, Resting, TerminalState, Unlimited
<1>5. Neutral(w)
  BY <1>1, <1>2, <1>3 DEF Neutral, HasResponse, MayFetch, Coherent, Work, Resting, TerminalState, Fault, ExtensionFault, NoFault, Later
<1>6. QED
  BY <1>4, <1>5, NeutralStep

LEMMA DelayAbortedEnds ==
    ASSUME Inv, OutcomeInv, stage = "pool", UNCHANGED runVars, NEW w \in Workers, DelayAborted(w)
    PROVE  OutcomeInv'
<1> USE DEF Typed, DelayAborted, At, controllerVars, ToMark
<1>1. Typed(w)
  BY WorkerTyped
<1>2. Later(ctl, ctl')
  BY <1>1, ControllerLater
<1>3. extensionFaults' = 0 => extensionFaults = 0
  BY <1>1 DEF Fault, ExtensionFault, NoFault
<1>4. Tidy(w)
  BY <1>1, <1>2, <1>3 DEF Tidy, Coherent, Work, ReqState, Job, Resting, TerminalState, Unlimited
<1>5. Neutral(w)
  BY <1>1, <1>2, <1>3 DEF Neutral, HasResponse, MayFetch, Coherent, Work, Resting, TerminalState, Fault, ExtensionFault, NoFault, Later
<1>6. QED
  BY <1>4, <1>5, NeutralStep

LEMMA RobotsFailEnds ==
    ASSUME Inv, OutcomeInv, stage = "pool", UNCHANGED runVars, NEW w \in Workers, RobotsFail(w)
    PROVE  OutcomeInv'
<1> USE DEF Typed, RobotsFail, At, controllerVars, ToMark
<1>1. Typed(w)
  BY WorkerTyped
<1>2. Later(ctl, ctl')
  BY <1>1, ControllerLater
<1>3. extensionFaults' = 0 => extensionFaults = 0
  BY <1>1 DEF Fault, ExtensionFault, NoFault
<1>4. Tidy(w)
  BY <1>1, <1>2, <1>3 DEF Tidy, Coherent, Work, ReqState, Job, Resting, TerminalState, Unlimited
<1>5. Neutral(w)
  BY <1>1, <1>2, <1>3 DEF Neutral, HasResponse, MayFetch, Coherent, Work, Resting, TerminalState, Fault, ExtensionFault, NoFault, Later
<1>6. QED
  BY <1>4, <1>5, NeutralStep

LEMMA DiscoverEnds ==
    ASSUME Inv, OutcomeInv, stage = "pool", UNCHANGED runVars, NEW w \in Workers, NEW r \in Requests, Discover(w, r)
    PROVE  OutcomeInv'
<1> USE DEF Typed, Discover, At, controllerVars
<1>1. Typed(w)
  BY WorkerTyped
<1>2. Later(ctl, ctl')
  BY <1>1, ControllerLater
<1>3. extensionFaults' = 0 => extensionFaults = 0
  BY <1>1 DEF Fault, ExtensionFault, NoFault
<1>4. Tidy(w)
  BY <1>1, <1>2, <1>3 DEF Tidy, Coherent, Work, ReqState, Job, Resting, TerminalState, Unlimited
<1>5. Neutral(w)
  BY <1>1, <1>2, <1>3 DEF Neutral, HasResponse, MayFetch, Coherent, Work, Resting, TerminalState, Fault, ExtensionFault, NoFault, Later
<1>6. QED
  BY <1>4, <1>5, NeutralStep

LEMMA ProcessedEnds ==
    ASSUME Inv, OutcomeInv, stage = "pool", UNCHANGED runVars, NEW w \in Workers, Processed(w)
    PROVE  OutcomeInv'
<1> USE DEF Typed, Processed, At, controllerVars, ToMark
<1>1. Typed(w)
  BY WorkerTyped
<1>2. Later(ctl, ctl')
  BY <1>1, ControllerLater
<1>3. extensionFaults' = 0 => extensionFaults = 0
  BY <1>1 DEF Fault, ExtensionFault, NoFault
<1>4. Tidy(w)
  BY <1>1, <1>2, <1>3 DEF Tidy, Coherent, Work, ReqState, Job, Resting, TerminalState, Unlimited
<1>5. Neutral(w)
  BY <1>1, <1>2, <1>3 DEF Neutral, HasResponse, MayFetch, Coherent, Work, Resting, TerminalState, Fault, ExtensionFault, NoFault, Later
<1>6. QED
  BY <1>4, <1>5, NeutralStep

LEMMA NotFetchedEnds ==
    ASSUME Inv, OutcomeInv, stage = "pool", UNCHANGED runVars, NEW w \in Workers, NotFetched(w)
    PROVE  OutcomeInv'
<1> USE DEF Typed, NotFetched, At, controllerVars, ToMark
<1>1. Typed(w)
  BY WorkerTyped
<1>2. Later(ctl, ctl')
  BY <1>1, ControllerLater
<1>3. extensionFaults' = 0 => extensionFaults = 0
  BY <1>1 DEF Fault, ExtensionFault, NoFault
<1>4. Tidy(w)
  <2>1. PICK outcome \in {"skipped", "failed", "cancelled"}, terminal \in BOOLEAN : ToMark(w, outcome, terminal, FALSE)
    OBVIOUS
  <2>2. work'[w] = [work[w] EXCEPT !.at = "marking", !.outcome = outcome, !.terminal = terminal, !.throws = FALSE]
        /\ \A v \in Workers \ {w} : work'[v] = work[v]
    BY <2>1, <1>1
  <2>3. QED
    BY <2>2, <1>1, <1>2, <1>3 DEF Tidy, Work, Job, Coherent
<1>5. Neutral(w)
  <2>1. PICK outcome \in {"skipped", "failed", "cancelled"}, terminal \in BOOLEAN : ToMark(w, outcome, terminal, FALSE)
    OBVIOUS
  <2>2. work'[w] = [work[w] EXCEPT !.at = "marking", !.outcome = outcome, !.terminal = terminal, !.throws = FALSE]
        /\ \A v \in Workers \ {w} : work'[v] = work[v]
    BY <2>1, <1>1
  <2>3. work'[w].at = "marking" /\ work'[w].outcome # "handled"
    BY <2>2, <1>1 DEF Work
  <2>4. QED
    BY <2>3 DEF Neutral, HasResponse, MayFetch
<1>6. QED
  BY <1>4, <1>5, NeutralStep

LEMMA MiddlewareCancelsEnds ==
    ASSUME Inv, OutcomeInv, stage = "pool", UNCHANGED runVars, NEW w \in Workers, MiddlewareCancels(w)
    PROVE  OutcomeInv'
<1> USE DEF Typed, MiddlewareCancels, At, controllerVars, ToMark
<1>1. Typed(w)
  BY WorkerTyped
<1>2. Later(ctl, ctl')
  BY <1>1, ControllerLater
<1>3. extensionFaults' = 0 => extensionFaults = 0
  BY <1>1 DEF Fault, ExtensionFault, NoFault
<1>4. Tidy(w)
  BY <1>1, <1>2, <1>3 DEF Tidy, Coherent, Work, ReqState, Job, Resting, TerminalState, Unlimited
<1>5. Neutral(w)
  BY <1>1, <1>2, <1>3 DEF Neutral, HasResponse, MayFetch, Coherent, Work, Resting, TerminalState, Fault, ExtensionFault, NoFault, Later
<1>6. QED
  BY <1>4, <1>5, NeutralStep

LEMMA HandlerThrowsEnds ==
    ASSUME Inv, OutcomeInv, stage = "pool", UNCHANGED runVars, NEW w \in Workers, HandlerThrows(w)
    PROVE  OutcomeInv'
<1> USE DEF Typed, HandlerThrows, At, controllerVars, CaughtIn, ToMark
<1>1. Typed(w)
  BY WorkerTyped
<1>2. Later(ctl, ctl')
  BY <1>1, ControllerLater
<1>3. extensionFaults' = 0 => extensionFaults = 0
  BY <1>1 DEF Fault, ExtensionFault, NoFault
<1>4. Tidy(w)
  BY <1>1, <1>2, <1>3 DEF Tidy, Coherent, Work, ReqState, Job, Resting, TerminalState, Unlimited
<1>5. Neutral(w)
  BY <1>1, <1>2, <1>3 DEF Neutral, HasResponse, MayFetch, Coherent, Work, Resting, TerminalState, Fault, ExtensionFault, NoFault, Later
<1>6. QED
  BY <1>4, <1>5, NeutralStep

LEMMA MarkFailsEnds ==
    ASSUME Inv, OutcomeInv, stage = "pool", UNCHANGED runVars, NEW w \in Workers, MarkFails(w)
    PROVE  OutcomeInv'
<1> USE DEF Typed, MarkFails, At, controllerVars, TerminalThrows, CaughtIn, ToMark, ClearTimer, NoLongerLate
<1>1. Typed(w)
  BY WorkerTyped
<1>2. Later(ctl, ctl')
  BY <1>1, ControllerLater
<1>3. extensionFaults' = 0 => extensionFaults = 0
  BY <1>1 DEF Fault, ExtensionFault, NoFault
<1>4. Tidy(w)
  BY <1>1, <1>2, <1>3 DEF Tidy, Coherent, Work, ReqState, Job, Resting, TerminalState, Unlimited
<1>5. Neutral(w)
  BY <1>1, <1>2, <1>3 DEF Neutral, HasResponse, MayFetch, Coherent, Work, Resting, TerminalState, Fault, ExtensionFault, NoFault, Later
<1>6. QED
  BY <1>4, <1>5, NeutralStep

LEMMA RecordedEnds ==
    ASSUME Inv, OutcomeInv, stage = "pool", UNCHANGED runVars, NEW w \in Workers, Recorded(w)
    PROVE  OutcomeInv'
<1> USE DEF Typed, Recorded, At, controllerVars, Complete, ClearTimer
<1>1. Typed(w)
  BY WorkerTyped
<1>2. Later(ctl, ctl')
  BY <1>1, ControllerLater
<1>3. extensionFaults' = 0 => extensionFaults = 0
  BY <1>1 DEF Fault, ExtensionFault, NoFault
<1>4. Tidy(w)
  BY <1>1, <1>2, <1>3 DEF Tidy, Coherent, Work, ReqState, Job, Resting, TerminalState, Unlimited
<1>5. Neutral(w)
  BY <1>1, <1>2, <1>3 DEF Neutral, HasResponse, MayFetch, Coherent, Work, Resting, TerminalState, Fault, ExtensionFault, NoFault, Later
<1>6. QED
  BY <1>4, <1>5, NeutralStep

LEMMA RecordFailsEnds ==
    ASSUME Inv, OutcomeInv, stage = "pool", UNCHANGED runVars, NEW w \in Workers, RecordFails(w)
    PROVE  OutcomeInv'
<1> USE DEF Typed, RecordFails, At, controllerVars, ClearTimer
<1>1. Typed(w)
  BY WorkerTyped
<1>2. Later(ctl, ctl')
  BY <1>1, ControllerLater
<1>3. extensionFaults' = 0 => extensionFaults = 0
  BY <1>1 DEF Fault, ExtensionFault, NoFault
<1>4. Tidy(w)
  BY <1>1, <1>2, <1>3 DEF Tidy, Coherent, Work, ReqState, Job, Resting, TerminalState, Unlimited
<1>5. Neutral(w)
  BY <1>1, <1>2, <1>3 DEF Neutral, HasResponse, MayFetch, Coherent, Work, Resting, TerminalState, Fault, ExtensionFault, NoFault, Later
<1>6. QED
  BY <1>4, <1>5, NeutralStep

LEMMA ReportedEnds ==
    ASSUME Inv, OutcomeInv, stage = "pool", UNCHANGED runVars, NEW w \in Workers, Reported(w)
    PROVE  OutcomeInv'
<1> USE DEF Typed, Reported, At, controllerVars, Complete, ClearTimer
<1>1. Typed(w)
  BY WorkerTyped
<1>2. Later(ctl, ctl')
  BY <1>1, ControllerLater
<1>3. extensionFaults' = 0 => extensionFaults = 0
  BY <1>1 DEF Fault, ExtensionFault, NoFault
<1>4. Tidy(w)
  BY <1>1, <1>2, <1>3 DEF Tidy, Coherent, Work, ReqState, Job, Resting, TerminalState, Unlimited
<1>5. Neutral(w)
  BY <1>1, <1>2, <1>3 DEF Neutral, HasResponse, MayFetch, Coherent, Work, Resting, TerminalState, Fault, ExtensionFault, NoFault, Later
<1>6. QED
  BY <1>4, <1>5, NeutralStep

LEMMA ReportFailsEnds ==
    ASSUME Inv, OutcomeInv, stage = "pool", UNCHANGED runVars, NEW w \in Workers, ReportFails(w)
    PROVE  OutcomeInv'
<1> USE DEF Typed, ReportFails, At, controllerVars, TerminalThrows, CaughtIn, ToMark, ClearTimer, NoLongerLate
<1>1. Typed(w)
  BY WorkerTyped
<1>2. Later(ctl, ctl')
  BY <1>1, ControllerLater
<1>3. extensionFaults' = 0 => extensionFaults = 0
  BY <1>1 DEF Fault, ExtensionFault, NoFault
<1>4. Tidy(w)
  BY <1>1, <1>2, <1>3 DEF Tidy, Coherent, Work, ReqState, Job, Resting, TerminalState, Unlimited
<1>5. Neutral(w)
  BY <1>1, <1>2, <1>3 DEF Neutral, HasResponse, MayFetch, Coherent, Work, Resting, TerminalState, Fault, ExtensionFault, NoFault, Later
<1>6. QED
  BY <1>4, <1>5, NeutralStep

LEMMA CloseEnds ==
    ASSUME Inv, OutcomeInv, stage = "pool", UNCHANGED runVars, NEW w \in Workers, Close(w)
    PROVE  OutcomeInv'
<1> USE DEF Typed, Close, At, controllerVars, AtRest
<1>1. Typed(w)
  BY WorkerTyped
<1>2. Later(ctl, ctl')
  BY <1>1, ControllerLater
<1>3. extensionFaults' = 0 => extensionFaults = 0
  BY <1>1 DEF Fault, ExtensionFault, NoFault
<1>4. Tidy(w)
  BY <1>1, <1>2, <1>3 DEF Tidy, Coherent, Work, ReqState, Job, Resting, TerminalState, Unlimited
<1>5. Neutral(w)
  BY <1>1, <1>2, <1>3 DEF Neutral, HasResponse, MayFetch, Coherent, Work, Resting, TerminalState, Fault, ExtensionFault, NoFault, Later
<1>6. QED
  BY <1>4, <1>5, NeutralStep

LEMMA RenewalStartsEnds ==
    ASSUME Inv, OutcomeInv, stage = "pool", UNCHANGED runVars, NEW w \in Workers, RenewalStarts(w)
    PROVE  OutcomeInv'
<1> USE DEF Typed, RenewalStarts, At, controllerVars
<1>1. Typed(w)
  BY WorkerTyped
<1>2. Later(ctl, ctl')
  BY <1>1, ControllerLater
<1>3. extensionFaults' = 0 => extensionFaults = 0
  BY <1>1 DEF Fault, ExtensionFault, NoFault
<1>4. Tidy(w)
  BY <1>1, <1>2, <1>3 DEF Tidy, Coherent, Work, ReqState, Job, Resting, TerminalState, Unlimited
<1>5. Neutral(w)
  BY <1>1, <1>2, <1>3 DEF Neutral, HasResponse, MayFetch, Coherent, Work, Resting, TerminalState, Fault, ExtensionFault, NoFault, Later
<1>6. QED
  BY <1>4, <1>5, NeutralStep

LEMMA RenewedEnds ==
    ASSUME Inv, OutcomeInv, stage = "pool", UNCHANGED runVars, NEW w \in Workers, Renewed(w)
    PROVE  OutcomeInv'
<1> USE DEF Typed, Renewed, At, controllerVars
<1>1. Typed(w)
  BY WorkerTyped
<1>2. Later(ctl, ctl')
  BY <1>1, ControllerLater
<1>3. extensionFaults' = 0 => extensionFaults = 0
  BY <1>1 DEF Fault, ExtensionFault, NoFault
<1>4. Tidy(w)
  BY <1>1, <1>2, <1>3 DEF Tidy, Coherent, Work, ReqState, Job, Resting, TerminalState, Unlimited
<1>5. Neutral(w)
  BY <1>1, <1>2, <1>3 DEF Neutral, HasResponse, MayFetch, Coherent, Work, Resting, TerminalState, Fault, ExtensionFault, NoFault, Later
<1>6. QED
  BY <1>4, <1>5, NeutralStep

LEMMA RenewalFailsEnds ==
    ASSUME Inv, OutcomeInv, stage = "pool", UNCHANGED runVars, NEW w \in Workers, RenewalFails(w)
    PROVE  OutcomeInv'
<1> USE DEF Typed, RenewalFails, At, controllerVars
<1>1. Typed(w)
  BY WorkerTyped
<1>2. Later(ctl, ctl')
  BY <1>1, ControllerLater
<1>3. extensionFaults' = 0 => extensionFaults = 0
  BY <1>1 DEF Fault, ExtensionFault, NoFault
<1>4. Tidy(w)
  BY <1>1, <1>2, <1>3 DEF Tidy, Coherent, Work, ReqState, Job, Resting, TerminalState, Unlimited
<1>5. Neutral(w)
  BY <1>1, <1>2, <1>3 DEF Neutral, HasResponse, MayFetch, Coherent, Work, Resting, TerminalState, Fault, ExtensionFault, NoFault, Later
<1>6. QED
  BY <1>4, <1>5, NeutralStep

(* A response is counted; whoever crosses the limit is in flight no more.  *)
LEMMA FetchedEnds ==
    ASSUME Inv, OutcomeInv, stage = "pool", UNCHANGED runVars, NEW w \in Workers, Fetched(w)
    PROVE  OutcomeInv'
<1> USE DEF Typed, Fetched, At, controllerVars
<1>1. Typed(w)
  BY WorkerTyped
<1>2. Later(ctl, ctl') /\ extensionFaults' = extensionFaults
  BY <1>1, ControllerLater DEF NoFault
<1>3. Tidy(w)
  BY <1>1, <1>2 DEF Tidy, Coherent, Work, Job
<1>4. work'[w].at = "processing" /\ work[w].at = "fetching" /\ fetched' = fetched + 1 /\ req' = req
  BY <1>1
<1>5. HandledCounted'
  <2> SUFFICES ASSUME extensionFaults' = 0, ~Doomed'
               PROVE  fetched' = Cardinality(In("handled")') + Cardinality(InHand')
    BY DEF HandledCounted
  <2>1. fetched = Cardinality(In("handled")) + Cardinality(InHand)
    BY <1>2, <1>3, StaysDoomed DEF OutcomeInv, HandledCounted
  <2>2. In("handled")' = In("handled")
    BY <1>4 DEF In
  <2>3. InHand' = InHand \cup {w} /\ w \notin InHand
    BY <1>3, <1>4 DEF InHand, HasResponse, Tidy
  <2>4. IsFiniteSet(InHand) /\ Cardinality(InHand) \in Nat
    BY WorkersCounted DEF InHand
  <2>5. Cardinality(InHand') = Cardinality(InHand) + 1
    BY <2>3, <2>4, FS_AddElement
  <2>6. Cardinality(In("handled")) \in Nat
    BY PoolAssumption, FS_Subset, FS_CardinalityType DEF PoolAssumption, In
  <2>7. QED
    BY <1>4, <2>1, <2>2, <2>4, <2>5, <2>6
<1>6. CrossingBounded'
  <2> SUFFICES ASSUME ~(fetched + 1 < MaxFetched)
               PROVE  /\ ctl'.stop \in {"hard", "cancelled", "fatal"}
                      /\ fetched + 1 + Cardinality(Flying') < MaxFetched + Cardinality(Workers)
    BY <1>4 DEF CrossingBounded
  <2>1. ctl'.stop \in {"hard", "cancelled", "fatal"}
    <3>1. ctl' = refreshLimits(ctl, fetched + 1) /\ fetched + 1 >= MaxFetched
      BY <1>1, MaxFetchedAssumption DEF MaxFetchedAssumption
    <3>2. ctl' = setStop(ctl, "hard", FALSE) /\ ctl.stop \in Stop
      BY <1>1, <3>1 DEF refreshLimits, noteLimit, Controller
    <3>3. QED
      BY <3>2 DEF setStop, Stop, stopPriority
  <2>2. Flying' = Flying \ {w} /\ w \in Flying
    BY <1>3, <1>4 DEF Flying, MayFetch, Tidy
  <2>3. /\ IsFiniteSet(Flying) /\ IsFiniteSet(Workers) /\ Cardinality(Workers) \in Nat
        /\ Flying \in SUBSET Workers /\ Cardinality(Flying) \in Nat
    BY WorkersCounted DEF Flying
  <2>4. Cardinality(Flying') = Cardinality(Flying) - 1 /\ Cardinality(Flying) <= Cardinality(Workers)
    BY <2>2, <2>3, FS_RemoveElement, FS_Subset
  <2>5. QED
    BY <1>1, <2>1, <2>3, <2>4, MaxFetchedAssumption DEF MaxFetchedAssumption, OutcomeInv, CrossingBounded
<1>7. PoolLeft'
  BY DEF PoolLeft, runVars
<1>8. QED
  BY <1>3, <1>5, <1>6, <1>7, TidyOwned, TidyServed DEF OutcomeInv

(* The terminal state of a request whose response was counted.             *)
LEMMA MarkedEnds ==
    ASSUME Inv, OutcomeInv, stage = "pool", UNCHANGED runVars, NEW w \in Workers, Marked(w)
    PROVE  OutcomeInv'
<1> USE DEF Typed, Marked, At, controllerVars, Complete, ClearTimer, NoLongerLate
<1>1. Typed(w)
  BY WorkerTyped
<1>2. Later(ctl, ctl') /\ extensionFaults' = extensionFaults
  BY <1>1, ControllerLater DEF NoFault
<1>3. Job(w) \in Requests /\ req[Job(w)] = "leased"
  BY <1>1 DEF Coherent, Resting, Job
<1>4. Tidy(w)
  BY <1>1, <1>2, <1>3 DEF Tidy, Coherent, Work, Job, TerminalState
<1>5. CASE work[w].outcome # "handled"
  <2>1. work'[w].at \in {"closing", "recording"} /\ fetched' = fetched
    <3>1. \/ work' = [work EXCEPT ![w].at = "closing", ![w].held = FALSE]
          \/ work' = [work EXCEPT ![w].at = "recording", ![w].held = FALSE]
      OBVIOUS
    <3>2. w \in DOMAIN work /\ work[w] \in Work
      BY <1>1
    <3>3. work'[w].at \in {"closing", "recording"}
      BY <3>1, <3>2 DEF Work
    <3>4. fetched' = fetched
      OBVIOUS
    <3>5. QED
      BY <3>3, <3>4
  <2>2. \A r \in Requests : req'[r] = req[r] \/ (req[r] = "leased" /\ req'[r] # "handled")
    BY <1>1, <1>3, <1>5
  <2>3. Neutral(w)
    BY <1>5, <2>1, <2>2 DEF Neutral, HasResponse, MayFetch
  <2>4. QED
    BY <1>4, <2>3, NeutralStep
<1>6. CASE work[w].outcome = "handled"
  <2>1. /\ req' = [req EXCEPT ![Job(w)] = "handled"] /\ work'[w].at = "recording"
        /\ fetched' = fetched /\ ctl' = ctl
    <3>1. work[w].outcome # "released"
      BY <1>6
    <3>2. req' = [req EXCEPT ![Job(w)] = work[w].outcome] /\ work' = [work EXCEPT ![w].at = "recording", ![w].held = FALSE]
          /\ ctl' = ctl
      BY <3>1
    <3>3. QED
      BY <1>1, <1>6, <3>2
  <2>2. HandledCounted'
    <3> SUFFICES ASSUME extensionFaults' = 0, ~Doomed'
                 PROVE  fetched' = Cardinality(In("handled")') + Cardinality(InHand')
      BY DEF HandledCounted
    <3>1. fetched = Cardinality(In("handled")) + Cardinality(InHand)
      BY <1>2, <1>4, StaysDoomed DEF OutcomeInv, HandledCounted
    <3>2. PICK r \in Requests : r = Job(w)
      BY <1>3
    <3>3. In("handled")' = In("handled") \cup {r} /\ r \notin In("handled")
      BY <1>1, <1>3, <2>1, <3>2 DEF In
    <3>4. InHand' = InHand \ {w} /\ w \in InHand
      BY <1>1, <1>4, <1>6, <2>1 DEF InHand, HasResponse, Tidy
    <3>5. /\ IsFiniteSet(InHand) /\ Cardinality(InHand) \in Nat
          /\ IsFiniteSet(In("handled")) /\ Cardinality(In("handled")) \in Nat
      BY WorkersCounted, PoolAssumption, FS_Subset, FS_CardinalityType DEF PoolAssumption, InHand, In
    <3>6. Cardinality(InHand') = Cardinality(InHand) - 1
      BY <3>4, <3>5, FS_RemoveElement
    <3>7. Cardinality(In("handled")') = Cardinality(In("handled")) + 1
      BY <3>3, <3>5, FS_AddElement
    <3>8. QED
      BY <2>1, <3>1, <3>5, <3>6, <3>7
  <2>3. CrossingBounded'
    <3>1. Flying' = Flying
      BY <1>1, <1>4, <2>1 DEF Flying, MayFetch, Tidy
    <3>2. QED
      BY <2>1, <3>1 DEF OutcomeInv, CrossingBounded
  <2>4. PoolLeft'
    BY DEF PoolLeft, runVars
  <2>5. QED
    BY <1>4, <2>2, <2>3, <2>4, TidyOwned, TidyServed DEF OutcomeInv
<1>7. QED
  BY <1>5, <1>6

LEMMA PoolEndsWell ==
    ASSUME Inv, OutcomeInv, PoolStep
    PROVE  OutcomeInv'
<1> USE DEF PoolStep
<1>1. ASSUME NEW w \in Workers, Proceed(w)
      PROVE  OutcomeInv'
  BY <1>1, LeaseNextEnds, LeaseNothingEnds, LeaveLoopEnds, WakeEnds, LeaseGrantedEnds,
     BeginRequestEnds, DelayAbortedEnds, FetchedEnds, ProcessedEnds, NotFetchedEnds, MarkedEnds,
     RecordedEnds, ReportedEnds, CloseEnds, RenewedEnds, MarkFailsEnds, RenewalFailsEnds DEF Proceed
<1>2. ASSUME NEW w \in Workers, Disturb(w)
      PROVE  OutcomeInv'
  BY <1>2, LeaseFailsEnds, RobotsFailEnds, HandlerThrowsEnds, RecordFailsEnds, ReportFailsEnds,
     MiddlewareCancelsEnds, RenewalStartsEnds, DiscoverEnds DEF Disturb
<1>3. ASSUME NEW p \in Origins, OriginReady(p)
      PROVE  OutcomeInv'
  BY <1>3 DEF OriginReady, controllerVars, runVars, NoFault, OutcomeInv, RequestsOwned, PendingServed,
     PoolLeft, HandledCounted, CrossingBounded, Rejected, Settled, Job, In, Doomed, InHand, Flying
<1>4. QED
  BY <1>1, <1>2, <1>3 DEF PoolNext

------------------------------------------------------------------------------
(* Outside the pool: nobody works any more, or yet.                        *)

LEMMA StopsEscalate ==
    ASSUME Inv, Inv', Escalated(ctl, ctl')
    PROVE  /\ ctl'.stop \in Unlimited => ctl.stop \in Unlimited
           /\ ctl'.stop # "fatal" => ctl.stop # "fatal"
           /\ ctl.stop \in {"cancelled", "fatal"} => ctl'.stop \in {"cancelled", "fatal"}
           /\ ctl.stop \in {"hard", "cancelled", "fatal"} => ctl'.stop \in {"hard", "cancelled", "fatal"}
<1>1. /\ ctl.stop \in Stop /\ ctl'.stop \in Stop
      /\ stopPriority(ctl'.stop) >= stopPriority(ctl.stop)
  BY DEF Inv, TypeOK, ControllerTypeOK, Controller, Escalated
<1>2. QED
  BY <1>1 DEF Stop, stopPriority, Unlimited

LEMMA OutsideEnds ==
    ASSUME Inv, Inv', OutcomeInv, OutsidePool, Escalated(ctl, ctl'),
           extensionFaults' = extensionFaults,
           stage \notin Before \/ stage' \in Before \/ ctl'.stop = "fatal",
           \/ stage' \in Before \cup {"pool"} \/ stage \notin Before \cup {"pool"}
           \/ ctl'.stop = "fatal"
           \/ \A w \in Workers : work[w].at = "ended"
    PROVE  OutcomeInv'
<1> USE StopsEscalate DEF OutsidePool, OutcomeInv
<1>1. RequestsOwned'
  BY DEF RequestsOwned, Rejected, Job
<1>2. PendingServed'
  BY DEF PendingServed, Settled, Rejected, In, Unlimited
<1>3. PoolLeft'
  BY DEF PoolLeft
<1>4. Doomed => Doomed'
  BY DEF Doomed
<1>5. HandledCounted'
  BY <1>4 DEF HandledCounted, In, InHand
<1>6. CrossingBounded'
  BY DEF CrossingBounded, Flying
<1>7. QED
  BY <1>1, <1>2, <1>3, <1>5, <1>6

LEMMA BootstrappedEnds ==
    ASSUME Inv, Inv', OutcomeInv, Bootstrapped
    PROVE  OutcomeInv'
<1> USE DEF Bootstrapped
<1>1. /\ \A w \in Workers : work[w].at = "idle" /\ ~work[w].throws
      /\ fetched = 0 /\ \A r \in Requests : req[r] = "absent"
  BY DEF Inv, Staged, Before, AtRest
<1>2. \A r \in Requests : req'[r] \in {"pending", "absent"}
  OBVIOUS
<1>3. RequestsOwned'
  BY <1>2 DEF RequestsOwned
<1>4. PendingServed'
  BY <1>1, PoolAssumption DEF PoolAssumption, PendingServed, Settled
<1>5. PoolLeft'
  BY DEF PoolLeft
<1>6. HandledCounted'
  <2>1. In("handled")' = {} /\ InHand' = {}
    BY <1>1, <1>2 DEF In, InHand, HasResponse
  <2>2. QED
    BY <1>1, <2>1, FS_EmptySet DEF HandledCounted
<1>7. CrossingBounded'
  BY <1>1, MaxFetchedAssumption DEF MaxFetchedAssumption, CrossingBounded
<1>8. QED
  BY <1>3, <1>4, <1>5, <1>6, <1>7 DEF OutcomeInv

(* All have ended without an error, or the run is failed.                  *)
LEMMA PoolEndsEnds ==
    ASSUME Inv, Inv', Escalated(ctl, ctl'), OutcomeInv, PoolEnds
    PROVE  OutcomeInv'
<1> USE DEF PoolEnds
<1>1. ctl \in Controller /\ fail(ctl) \in Controller /\ fail(ctl).stop = "fatal"
  BY ControllerLater DEF Inv, TypeOK, ControllerTypeOK, Later
<1>2. Rejected => ctl'.stop = "fatal"
  BY <1>1 DEF beginDraining, Controller
<1>3. ~Rejected => \A w \in Workers : work[w].at = "ended"
  BY DEF Rejected, Settled
<1>4. QED
  BY <1>2, <1>3, OutsideEnds DEF NoFault, Before

LEMMA StepEnds ==
    ASSUME Inv, OutcomeInv, [Next]_vars
    PROVE  OutcomeInv'
<1>1. Inv' /\ Escalated(ctl, ctl')
  BY StepInv
<1>2. CASE Bootstrapped
  BY <1>1, <1>2, BootstrappedEnds
<1>3. CASE PoolEnds
  BY <1>1, <1>3, PoolEndsEnds
<1>4. CASE \/ Opened \/ Prepared \/ Drained \/ CloseAuxiliary
           \/ PersistResult("persisting", "flushing") \/ Flushed("flushing", "announcing")
           \/ InvokeTerminalHook
           \/ PersistResult("repersisting", "reflushing") \/ Flushed("reflushing", "storeClosing")
           \/ CloseStore \/ Abort \/ EventHookFails
  <2>1. OutsidePool /\ extensionFaults' = extensionFaults
    BY <1>4 DEF Opened, Prepared, Drained, CloseAuxiliary, PersistResult, Flushed, InvokeTerminalHook, TerminalHook,
                CloseStore, Abort, EventHookFails, NoFault, Fault, HookFault
  <2>2. stage' = stage \/ (stage \in Before /\ stage' \in Before) \/ stage \notin Before \cup {"pool"}
    BY <1>4 DEF Opened, Prepared, Drained, CloseAuxiliary, PersistResult, Flushed, InvokeTerminalHook, TerminalHook,
                CloseStore, Abort, EventHookFails, runVars, Before
  <2>3. QED
    BY <1>1, <2>1, <2>2, OutsideEnds
<1>5. CASE StartFails
  <2>1. OutsidePool /\ extensionFaults' = extensionFaults
    BY <1>5 DEF StartFails, NoFault, Fault, HookFault
  <2>2. ctl'.stop = "fatal"
    <3>1. fail(ctl) \in Controller /\ fail(ctl).stop = "fatal"
      BY ControllerLater DEF Inv, TypeOK, ControllerTypeOK, Later
    <3>2. QED
      BY <1>5, <3>1 DEF StartFails, beginDraining, Controller
  <2>3. QED
    BY <1>1, <2>1, <2>2, OutsideEnds
<1>6. CASE PoolStep
  BY <1>6, PoolEndsWell
<1>7. CASE RunTimePasses \/ UNCHANGED vars
  <2>1. UNCHANGED <<stage, ctl, fetched, req, work, extensionFaults>>
    BY <1>7 DEF RunTimePasses, TimePasses, vars, controllerVars, poolVars, runVars
  <2>2. QED
    BY <2>1 DEF OutcomeInv, RequestsOwned, PendingServed, PoolLeft, HandledCounted, CrossingBounded,
       Rejected, Settled, Job, In, Doomed, InHand, Flying
<1>8. QED
  BY <1>2, <1>3, <1>4, <1>5, <1>6, <1>7 DEF Next, RunStep

LEMMA InitEnds == Init => OutcomeInv
<1> SUFFICES ASSUME Init PROVE OutcomeInv
  OBVIOUS
<1> USE DEF Init, ControllerInit, PoolInit
<1>1. RequestsOwned /\ PendingServed /\ PoolLeft
  BY DEF RequestsOwned, PendingServed, PoolLeft, Before
<1>2. HandledCounted
  <2>1. In("handled") = {} /\ InHand = {}
    BY DEF In, InHand, HasResponse, AtRest
  <2>2. QED
    BY <2>1, FS_EmptySet, SMTT(30) DEF HandledCounted
<1>3. CrossingBounded
  BY MaxFetchedAssumption DEF MaxFetchedAssumption, CrossingBounded
<1>4. QED
  BY <1>1, <1>2, <1>3 DEF OutcomeInv

LEMMA OutcomeInvariance == Spec => [](Inv /\ OutcomeInv)
<1>1. Init => Inv /\ OutcomeInv
  BY InitInv, InitEnds
<1>2. Inv /\ OutcomeInv /\ [Next]_vars => Inv' /\ OutcomeInv'
  BY StepInv, StepEnds
<1>3. QED
  BY <1>1, <1>2, PTL DEF Spec

(* When a run has ended without a fatal error, its workers have.           *)
LEMMA WorkersEnded ==
    ASSUME Inv, OutcomeInv, Finished, ctl.stop # "fatal"
    PROVE  \A w \in Workers : work[w] = AtRest("ended") /\ Job(w) = NoRequest
<1>1. \A w \in Workers : work[w].at = "ended"
  BY DEF OutcomeInv, PoolLeft, Finished, Before
<1>2. \A w \in Workers : work[w] = AtRest("ended")
  BY <1>1 DEF Inv, WorkCoherent, Coherent, Resting
<1>3. AtRest("ended").req = NoRequest
  BY DEF AtRest
<1>4. QED
  BY <1>2, <1>3 DEF Job

(* A run that reports an empty frontier, or that it stopped admitting only,*)
(* leaves no accepted request behind: however the workers' last looks at   *)
(* the queue and their leases in flight fall together.                     *)
THEOREM FrontierDrainedHolds == Spec => []FrontierDrained
<1>1. Inv /\ OutcomeInv => FrontierDrained
  <2> SUFFICES ASSUME Inv, OutcomeInv, Finished, ctl.stop \in {"frontier-empty", "soft"}, NEW r \in Requests
               PROVE  req[r] \in TerminalState \cup {"absent"}
    BY DEF FrontierDrained
  <2>1. \A w \in Workers : work[w].at = "ended" /\ Job(w) = NoRequest
    BY WorkersEnded DEF AtRest
  <2>2. Settled /\ ~Rejected
    BY <2>1 DEF Settled, Rejected
  <2>3. r \notin In("pending")
    BY <2>2 DEF OutcomeInv, PendingServed, Finished, Before, Unlimited
  <2>4. req[r] \notin {"leasing", "leased"}
    BY <2>1, <2>2, PoolAssumption DEF PoolAssumption, OutcomeInv, RequestsOwned
  <2>5. req[r] \in ReqState
    BY DEF Inv, TypeOK, PoolTypeOK
  <2>6. QED
    BY <2>3, <2>4, <2>5 DEF In, ReqState
<1>2. QED
  BY <1>1, OutcomeInvariance, PTL

(* No request is with two workers and no lease without one, but after a    *)
(* worker failed; a run that stops at a hard limit has handled every       *)
(* response it counted, and crossed the limit by less than a response per  *)
(* worker.                                                                 *)
THEOREM WorkKeptHolds == Spec => []WorkKept
<1>1. Inv /\ OutcomeInv => LeasesOwned
  <2> SUFFICES ASSUME Inv, OutcomeInv
               PROVE  LeasesOwned
    OBVIOUS
  <2>1. ASSUME Finished, NEW r \in In("leased"), ctl.stop # "fatal"
        PROVE  FALSE
    <3>1. \A w \in Workers : work[w].at = "ended" /\ Job(w) = NoRequest
      BY <2>1, WorkersEnded DEF AtRest
    <3>2. QED
      BY <2>1, <3>1, PoolAssumption DEF PoolAssumption, OutcomeInv, RequestsOwned, Rejected, In
  <2>2. QED
    BY <2>1 DEF LeasesOwned, Inv, JobsUnique, OutcomeInv, RequestsOwned, In
<1>2. Inv /\ OutcomeInv => LimitKeepsResponses
  <2> SUFFICES ASSUME Inv, OutcomeInv
               PROVE  LimitKeepsResponses
    OBVIOUS
  <2>1. ASSUME Finished, ctl.stop = "hard", extensionFaults = 0
        PROVE  fetched = Cardinality(In("handled"))
    <3>1. \A w \in Workers : work[w] = AtRest("ended")
      BY <2>1, WorkersEnded
    <3>2. ~Doomed /\ InHand = {}
      BY <2>1, <3>1 DEF Doomed, InHand, HasResponse, AtRest
    <3>3. Cardinality(In("handled")) \in Nat
      BY PoolAssumption, FS_Subset, FS_CardinalityType DEF PoolAssumption, In
    <3>4. QED
      BY <2>1, <3>2, <3>3, FS_EmptySet DEF OutcomeInv, HandledCounted
  <2>2. fetched < MaxFetched + Cardinality(Workers)
    <3>1. Flying \in SUBSET Workers
      BY DEF Flying
    <3>2. Cardinality(Workers) \in Nat /\ Cardinality(Flying) \in Nat
      BY <3>1, WorkersCounted
    <3>3. fetched \in Nat
      BY DEF Inv, TypeOK, ControllerTypeOK
    <3>4. QED
      BY <3>2, <3>3, MaxFetchedAssumption DEF MaxFetchedAssumption, OutcomeInv, CrossingBounded
  <2>3. QED
    BY <2>1, <2>2 DEF LimitKeepsResponses
<1>3. QED
  BY <1>1, <1>2, OutcomeInvariance, PTL DEF WorkKept

------------------------------------------------------------------------------
(* The result and the manifest.                                            *)

(* The result is the controller's of the moment it was last made, and what *)
(* has changed the controller since is told by the history.                *)
ResultTold ==
    IF stage \in AfterResult
    THEN /\ result \in Outcome
         /\ result = currentResult(ctl) \/ Overtaken
         /\ ctl.stop = "fatal" => result.status = "failed" \/ "hook" \in since
    ELSE result = NoOutcome

(* Between a write of the manifest and the next result, from the terminal  *)
(* hook.                                                                   *)
ManifestTold ==
    storeOpen /\ "write" \notin since /\ stage \in AfterResult \ {"persisting", "repersisting"}
        => /\ manifest.status = result.status
           /\ manifest.stop = result.stop \/ Overtaken

EndInv == ResultTold /\ ManifestTold

(* What an abort or a failing hook changes after the result is made is     *)
(* told by the history.                                                    *)
LEMMA LateTold ==
    ASSUME Inv, EndInv, NEW event \in {"abort", "hook"}, Late(event), OutsidePool,
           ctl'.stop = "fatal" => ctl.stop = "fatal" \/ event = "hook",
           UNCHANGED <<stage, storeOpen, result, manifest>>
    PROVE  EndInv'
<1>1. CASE result = NoOutcome
  BY <1>1, StatusTyped DEF EndInv, ResultTold, ManifestTold, AfterResult
<1>2. CASE result # NoOutcome
  <2>1. since' = since \cup {event} /\ Overtaken'
    BY <1>2 DEF Late, Overtaken
  <2>2. QED
    BY <2>1 DEF EndInv, ResultTold, ManifestTold
<1>3. QED
  BY <1>1, <1>2

LEMMA StepEndInv ==
    ASSUME Inv, EndInv, [Next]_vars
    PROVE  EndInv'
<1> USE DEF EndInv
<1>0. ctl \in Controller /\ ctl.phase \in RunPhase /\ ctl.stop \in Stop /\ Staged
  BY DEF Inv, TypeOK, ControllerTypeOK, Controller
<1>1. fail(ctl) \in Controller /\ fail(ctl).stop = "fatal"
  BY <1>0, ControllerLater DEF Later
<1>2. CASE stage \notin AfterResult /\ stage' \notin AfterResult /\ result' = result
  BY <1>2 DEF ResultTold, ManifestTold
<1>3. CASE UNCHANGED vars
  BY <1>3 DEF vars, controllerVars, poolVars, ResultTold, ManifestTold, currentResult, statusForRun, In, Overtaken
<1>4. CASE Opened \/ Prepared \/ Bootstrapped \/ PoolEnds \/ StartFails \/ Drained
  BY <1>2, <1>4 DEF Opened, Prepared, Bootstrapped, PoolEnds, StartFails, Drained, AfterResult
<1>5. ASSUME OutsidePool, result' = currentResult(ctl'), ctl'.stop \in Stop, stage' \in AfterResult
      PROVE  ResultTold'
  <2>1. result' = currentResult(ctl)' /\ result' \in Outcome
    BY <1>5, StatusTyped DEF OutsidePool, currentResult, statusForRun, In
  <2>2. ctl'.stop = "fatal" => result'.status = "failed"
    BY <1>5 DEF currentResult, statusForRun
  <2>3. QED
    BY <1>5, <2>1, <2>2 DEF ResultTold
<1>6. ASSUME OutsidePool, ctl'.stop = ctl.stop, stage \in AfterResult, stage' \in AfterResult,
             result' = result, since' \in {since, since \ {"write"}}
      PROVE  ResultTold'
  BY <1>6 DEF ResultTold, OutsidePool, currentResult, statusForRun, In, Overtaken
<1>7. CASE CloseAuxiliary
  <2>1. ResultTold'
    BY <1>0, <1>1, <1>5, <1>7 DEF CloseAuxiliary, AfterResult, Stop
  <2>2. ManifestTold'
    BY <1>7 DEF CloseAuxiliary, ManifestTold
  <2>3. QED
    BY <2>1, <2>2
<1>8. ASSUME NEW from, NEW to, PersistResult(from, to),
             <<from, to>> \in {<<"persisting", "flushing">>, <<"repersisting", "reflushing">>}
      PROVE  EndInv'
  <2>1. OutsidePool /\ stage \in AfterResult /\ stage' \in AfterResult
    BY <1>8 DEF PersistResult, AfterResult
  <2>2. CASE ctl' = ctl /\ result' = result /\ since' = since \ {"write"} /\ manifest' = Written(result, ctl)
    <3>1. ResultTold'
      BY <1>6, <2>1, <2>2
    <3>2. ManifestTold'
      BY <2>1, <2>2 DEF ManifestTold, ResultTold, Written, currentResult, Overtaken
    <3>3. QED
      BY <3>1, <3>2
  <2>3. CASE ctl' = fail(ctl) /\ result' = currentResult(ctl') /\ since' = {"write"}
    <3>1. ctl'.stop = "fatal"
      BY <1>1, <2>3
    <3>2. ResultTold'
      BY <1>5, <2>1, <2>3, <3>1 DEF Stop
    <3>3. QED
      BY <2>3, <3>2 DEF ManifestTold
  <2>4. QED
    BY <1>8, <2>2, <2>3 DEF PersistResult
<1>9. ASSUME NEW from, NEW to, Flushed(from, to),
             <<from, to>> \in {<<"flushing", "announcing">>, <<"reflushing", "storeClosing">>}
      PROVE  EndInv'
  <2>1. /\ stage \in AfterResult \ {"persisting", "repersisting"}
        /\ stage' \in AfterResult
        /\ OutsidePool
        /\ UNCHANGED <<ctl, storeOpen, result, manifest, since>>
    BY <1>9 DEF Flushed, AfterResult
  <2>2. ResultTold'
    BY <1>6, <2>1
  <2>3. QED
    BY <2>1, <2>2 DEF ManifestTold, Overtaken
<1>10. CASE InvokeTerminalHook
  <2>1. /\ stage = "announcing" /\ stage' = IF storeOpen THEN "repersisting" ELSE "finished"
        /\ OutsidePool /\ storeOpen' = storeOpen
    BY <1>10 DEF InvokeTerminalHook, TerminalHook
  <2>0. stage \in AfterResult /\ stage' \in AfterResult
    BY <2>1 DEF AfterResult
  <2>2. ManifestTold'
    BY <2>1 DEF ManifestTold
  <2>3. \A c \in Controller : /\ c.phase \in RunPhase /\ c.stop \in Stop
                              /\ inPhase(c, "closed") \in Controller
                              /\ inPhase(c, "closed").stop = c.stop
    BY PhasesSet DEF Controller, RunPhase
  <2>4. CASE /\ ctl' = IF storeOpen THEN ctl ELSE inPhase(ctl, "closed")
             /\ UNCHANGED <<result, since>>
    <3>1. ctl' \in {ctl, inPhase(ctl, "closed")}
      BY <2>4
    <3>2. ctl'.stop = ctl.stop
      BY <1>0, <2>3, <3>1
    <3>3. QED
      BY <1>6, <2>0, <2>1, <2>2, <2>4, <3>2
  <2>5. CASE /\ ctl' = IF storeOpen THEN fail(ctl) ELSE inPhase(fail(ctl), "closed")
             /\ result' = currentResult(ctl')
    <3>1. ctl' \in {fail(ctl), inPhase(fail(ctl), "closed")}
      BY <2>5
    <3>2. ctl'.stop = "fatal"
      BY <1>1, <2>3, <3>1
    <3>3. QED
      BY <1>5, <2>0, <2>1, <2>2, <2>5, <3>2 DEF Stop
  <2>6. QED
    BY <1>10, <2>2, <2>4, <2>5 DEF InvokeTerminalHook, TerminalHook
<1>11. CASE CloseStore
  <2>1. stage = "storeClosing" /\ stage' = "finished" /\ OutsidePool /\ storeOpen' = storeOpen
    BY <1>11 DEF CloseStore
  <2>2. \A c \in Controller : inPhase(c, "closed").stop = c.stop
    BY PhasesSet DEF Controller, RunPhase
  <2>3. CASE ctl' = inPhase(ctl, "closed") /\ UNCHANGED <<result, manifest, since>>
    <3>1. ResultTold'
      BY <1>0, <1>6, <2>1, <2>2, <2>3 DEF AfterResult
    <3>2. QED
      BY <2>1, <2>3, <3>1 DEF ManifestTold, AfterResult, Overtaken
  <2>4. CASE ctl' = inPhase(fail(ctl), "closed") /\ result' = currentResult(ctl') /\ since' = {"write"}
    BY <1>1, <1>5, <2>1, <2>2, <2>4 DEF AfterResult, Stop, ManifestTold
  <2>5. QED
    BY <1>11, <2>3, <2>4 DEF CloseStore
<1>12. CASE Abort
  <2>1. ctl'.stop = "fatal" => ctl.stop = "fatal"
    BY <1>0, <1>12 DEF Abort, cancel, setStop, Controller
  <2>2. QED
    BY <1>12, <2>1, LateTold DEF Abort
<1>13. CASE EventHookFails
  BY <1>13, LateTold DEF EventHookFails
<1>14. CASE PoolStep \/ RunTimePasses
  BY <1>2, <1>14 DEF PoolStep, RunTimePasses, runVars, AfterResult
<1>15. QED
  BY <1>3, <1>4, <1>7, <1>8, <1>9, <1>10, <1>11, <1>12, <1>13, <1>14 DEF Next, RunStep

LEMMA EndInvariance == Spec => []EndInv
<1>1. Init => EndInv
  BY DEF Init, EndInv, ResultTold, ManifestTold, AfterResult
<1>2. Inv /\ EndInv /\ [Next]_vars => EndInv'
  BY StepEndInv
<1>3. QED
  BY <1>1, <1>2, Invariance, PTL DEF Spec

(* Whatever fails on the way out, and whenever: the result tells why the   *)
(* run stopped and a failure makes it "failed", unless an abort or a hook  *)
(* came after it was made; and the manifest on disk agrees with it in its  *)
(* status and its stop detail, unless its last write failed or the stop    *)
(* detail changed after the result was made.                               *)
THEOREM OutcomeToldHolds == Spec => []OutcomeTold
<1>1. EndInv => OutcomeTold
  BY DEF EndInv, ResultTold, ManifestTold, OutcomeTold, FailuresReported, ManifestAgrees, Finished, AfterResult
<1>2. QED
  BY <1>1, EndInvariance, PTL
=============================================================================
