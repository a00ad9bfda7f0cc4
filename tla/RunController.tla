---------------------------- MODULE RunController ----------------------------
(***************************************************************************)
(* The run controller (src/src/runtime/run-controller.ts): the phase of    *)
(* the run, why it stops, the cancellation signal and the hard limits.     *)
(* Its methods run inside the turns of their callers, so they are          *)
(* operators from one controller state to the next, and the modules that   *)
(* call them apply as many as the turn does.                               *)
(*                                                                         *)
(* The nine limits are two here, a soft one (SOFT_LIMITS) and a hard one,  *)
(* and reasons and errors are left out.  The limit on bytes is reached in  *)
(* recordFetched() like the one on resources, which stands for both.       *)
(***************************************************************************)
EXTENDS Integers

CONSTANTS MaxFetched     \* config.limits.maxFetchedResources

ASSUME MaxFetchedAssumption == MaxFetched \in Nat \ {0}

VARIABLES ctl,           \* the fields phaseValue, stopValue, abortController
          fetched,       \* counters.requestsFetched
          timeUp         \* maxRunTimeMs have passed since startClock()

controllerVars == <<ctl, fetched, timeUp>>

(* StopDetail, with "none" for null *)
Stop == {"none", "frontier-empty", "soft", "hard", "cancelled", "fatal"}

RunPhase == {"created", "initializing", "running", "stopping", "draining",
             "finalizing", "closed"}

Controller == [phase : RunPhase, stop : Stop, aborted : BOOLEAN]

ControllerTypeOK ==
    /\ ctl \in Controller
    /\ fetched \in Nat
    /\ timeUp \in BOOLEAN

ControllerInit ==
    /\ ctl = [phase |-> "initializing", stop |-> "none", aborted |-> FALSE]
    /\ fetched = 0
    /\ timeUp = FALSE

(* stopPriority                                                            *)
stopPriority(stop) ==
    CASE stop = "none"           -> 0
      [] stop = "frontier-empty" -> 1
      [] stop = "soft"           -> 2
      [] stop = "hard"           -> 3
      [] stop = "cancelled"      -> 4
      [] stop = "fatal"          -> 5

(* Mutant: the last reason wins.                                           *)
setStopToLast(c, stop, abortActive) ==
    [phase |-> IF c.phase = "running" THEN "stopping" ELSE c.phase,
     stop |-> stop,
     aborted |-> c.aborted \/ abortActive]

(* setStop(detail, abortActive)                                            *)
setStop(c, stop, abortActive) ==
    [phase |-> IF c.phase = "running" THEN "stopping" ELSE c.phase,
     stop |-> IF stopPriority(stop) > stopPriority(c.stop) THEN stop ELSE c.stop,
     aborted |-> c.aborted \/ abortActive]

(* Mutant: a limit aborts what is active.                                  *)
noteLimitAborting(c, limit) == setStop(c, limit, TRUE)

noteLimit(c, limit) == setStop(c, limit, FALSE)

(* cancel(reason), fail(error) and failFromUnknown(cause)                   *)
cancel(c) == setStop(c, "cancelled", TRUE)

fail(c) == setStop(c, "fatal", TRUE)

(* refreshLimits()                                                         *)
refreshLimits(c, count) ==
    IF count >= MaxFetched \/ timeUp THEN noteLimit(c, "hard") ELSE c

(* Mutant: soft limits stop leasing.                                       *)
mayLeaseUnlimited(c) == c.stop \in {"none", "frontier-empty"}

(* shouldLeaseMore(), after its refreshLimits()                            *)
mayLease(c) == c.stop \in {"none", "frontier-empty", "soft"}

(* completeFrontier()                                                      *)
completeFrontier(c) ==
    IF c.stop = "none" THEN [c EXCEPT !.stop = "frontier-empty"] ELSE c

(* beginDraining()                                                         *)
beginDraining(c) ==
    IF c.phase \in {"running", "stopping"} THEN [c EXCEPT !.phase = "draining"] ELSE c

inPhase(c, phase) == [c EXCEPT !.phase = phase]

TimePasses ==
    /\ ~timeUp
    /\ timeUp' = TRUE
    /\ UNCHANGED <<ctl, fetched>>

-----------------------------------------------------------------------------
(* A run's reason to stop only ever gets stronger, phases only move        *)
(* forward, and active requests are aborted only under a cancellation or a *)
(* fatal error -- never by a limit, which keeps the response that crossed  *)
(* it (crawling.md: "Limit shutdown is different"; CHANGELOG.md: "Made     *)
(* fatal errors, cancellation, and hard limits take precedence over soft   *)
(* admission limits").                                                     *)
phaseOrder(phase) ==
    CASE phase = "created"      -> 0
      [] phase = "initializing" -> 1
      [] phase = "running"      -> 2
      [] phase = "stopping"     -> 3
      [] phase = "draining"     -> 4
      [] phase = "finalizing"   -> 5
      [] phase = "closed"       -> 6

StopEscalates ==
    [][/\ stopPriority(ctl'.stop) >= stopPriority(ctl.stop)
       /\ phaseOrder(ctl'.phase) >= phaseOrder(ctl.phase)
       /\ ctl.aborted => ctl'.aborted
       /\ ctl'.aborted => ctl'.stop \in {"cancelled", "fatal"}]_ctl
=============================================================================
