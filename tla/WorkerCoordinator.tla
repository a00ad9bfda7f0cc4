------------------------- MODULE WorkerCoordinator -------------------------
(***************************************************************************)
(* Local worker processes that share one coordination.sqlite               *)
(* (src/src/workers/coordinator.ts, session.ts).  Every call is one        *)
(* statement or one BEGIN IMMEDIATE transaction, so it is one action; the  *)
(* calls of the processes, the clock they share and their deaths           *)
(* interleave.                                                             *)
(*                                                                         *)
(* A call that throws rolls back and changes nothing, so it is no step:    *)
(* heartbeat() and acquireOrigin() of a worker nobody registered,          *)
(* renewOrigin() of a permit that is gone.                                 *)
(***************************************************************************)
EXTENDS Integers, FiniteSets

CONSTANTS Workers,         \* worker ids
          Origins,
          MaxConcurrency,  \* options.maxConcurrency of acquireOrigin()
          MinDelay,        \* options.minDelayMs
          LeaseDuration,   \* options.leaseDurationMs
          StaleAfter,      \* the argument of recoverStale()
          MaxTime          \* bound: the clock stops here

ASSUME OptionsAssumption ==
    /\ MaxConcurrency \in Nat \ {0}
    /\ MinDelay \in Nat
    /\ LeaseDuration \in Nat \ {0}
    /\ StaleAfter \in Nat
    /\ MaxTime \in Nat \ {0}

VARIABLES now,          \* Date.now(), the same for all local processes
          session,      \* the WorkerSession of each worker, or its death
          status,       \* crawler_workers.status; "none": no row
          heartbeatAt,  \* crawler_workers.heartbeat_at
          expiresAt,    \* origin_permits.expires_at by permit; 0: no row
          nextAllowed,  \* origin_state.next_allowed_at; 0: no row
          held,         \* expiresAt of the OriginPermit objects in memory
          forfeit,      \* history: permits held since before their worker was
                        \* late, or stopped
          taken         \* history: when the last two permits of each origin
                        \* were taken; 0: not yet

workersTable == <<session, status, heartbeatAt>>
history == <<forfeit, taken>>
vars == <<now, workersTable, expiresAt, nextAllowed, held, history>>

Times == 0..(MaxTime + LeaseDuration)

(* permit_id hashes origin, worker and millisecond.                        *)
Permit == [origin : Origins, worker : Workers, at : 1..MaxTime]

SessionState == {"off", "on", "dead"}
WorkerStatus == {"none", "active", "stopped", "stale"}

TypeOK ==
    /\ now \in 1..MaxTime
    /\ session \in [Workers -> SessionState]
    /\ status \in [Workers -> WorkerStatus]
    /\ heartbeatAt \in [Workers -> 0..MaxTime]
    /\ expiresAt \in [Permit -> Times]
    /\ nextAllowed \in [Origins -> 0..(MaxTime + MinDelay)]
    /\ held \in [Permit -> Times]
    /\ forfeit \subseteq Permit
    /\ taken \in [Origins -> [last : 0..MaxTime, before : 0..MaxTime]]

Init ==
    /\ now = 1
    /\ session = [w \in Workers |-> "off"]
    /\ status = [w \in Workers |-> "none"]
    /\ heartbeatAt = [w \in Workers |-> 0]
    /\ expiresAt = [p \in Permit |-> 0]
    /\ nextAllowed = [o \in Origins |-> 0]
    /\ held = [p \in Permit |-> 0]
    /\ forfeit = {}
    /\ taken = [o \in Origins |-> [last |-> 0, before |-> 0]]

-----------------------------------------------------------------------------
(* The worker table.                                                       *)

Late(w, t) == status[w] = "active" /\ heartbeatAt[w] + StaleAfter < t

DroppedFrom(table, w) ==
    [p \in Permit |-> IF p.worker = w THEN 0 ELSE table[p]]

(* start(): register() keeps the permits of an earlier process.            *)
Start(w) ==
    /\ session[w] # "on"
    /\ session' = [session EXCEPT ![w] = "on"]
    /\ status' = [status EXCEPT ![w] = "active"]
    /\ heartbeatAt' = [heartbeatAt EXCEPT ![w] = now]
    /\ UNCHANGED <<now, expiresAt, nextAllowed, held, history>>

(* The timer of the session; it may fire as late as it likes.              *)
Heartbeat(w) ==
    /\ session[w] = "on"
    /\ status' = [status EXCEPT ![w] = "active"]
    /\ heartbeatAt' = [heartbeatAt EXCEPT ![w] = now]
    /\ UNCHANGED <<now, session, expiresAt, nextAllowed, held, history>>

(* stop(), with any of its three statuses.  The rows go; the OriginPermit  *)
(* objects stay with whoever holds them.                                   *)
Stop(w) ==
    /\ session[w] = "on"
    /\ session' = [session EXCEPT ![w] = "off"]
    /\ status' = [status EXCEPT ![w] = "stopped"]
    /\ heartbeatAt' = [heartbeatAt EXCEPT ![w] = now]
    /\ expiresAt' = DroppedFrom(expiresAt, w)
    /\ forfeit' = forfeit \cup {p \in Permit : p.worker = w /\ held[p] # 0}
    /\ UNCHANGED <<now, nextAllowed, held, taken>>

(* Fault: the cutoff itself counts as stale.                               *)
RecoverStaleEarly ==
    LET stale == {w \in Workers : status[w] = "active" /\ heartbeatAt[w] + StaleAfter <= now}
    IN  /\ stale # {}
        /\ expiresAt' = [p \in Permit |-> IF p.worker \in stale THEN 0 ELSE expiresAt[p]]
        /\ status' = [w \in Workers |-> IF w \in stale THEN "stale" ELSE status[w]]
        /\ UNCHANGED <<now, session, heartbeatAt, nextAllowed, held, history>>

(* recoverStale(), called by whichever process looks after the others.     *)
RecoverStale ==
    LET stale == {w \in Workers : Late(w, now)}
    IN  /\ stale # {}
        /\ expiresAt' = [p \in Permit |-> IF p.worker \in stale THEN 0 ELSE expiresAt[p]]
        /\ status' = [w \in Workers |-> IF w \in stale THEN "stale" ELSE status[w]]
        /\ UNCHANGED <<now, session, heartbeatAt, nextAllowed, held, history>>

-----------------------------------------------------------------------------
(* Origin permits.                                                         *)

PermitsOf(table, o) == {p \in Permit : p.origin = o /\ table[p] # 0}

(* Fault: lapsed permits are not counted, and not deleted either.          *)
WithoutLapsedKept(table) == table

(* DELETE FROM origin_permits WHERE expires_at <= now                      *)
WithoutLapsed(table) ==
    [p \in Permit |-> IF table[p] <= now THEN 0 ELSE table[p]]

Active(table, o) == {p \in PermitsOf(table, o) : table[p] > now}

Asks(w) == session[w] # "dead" /\ status[w] # "none"

(* What acquireOrigin() leaves in the histories.  A worker that is late    *)
(* may lose the permit at once.                                            *)
Remember(permit) ==
    /\ forfeit' = IF Late(permit.worker, now) THEN forfeit \cup {permit} ELSE forfeit \ {permit}
    /\ taken' = [taken EXCEPT ![permit.origin] = [last |-> permit.at, before |-> @.last]]

(* Fault: lapsed permits count as well, and stay.                          *)
AcquireOriginExpiryIgnored(w, o) ==
    LET permit == [origin |-> o, worker |-> w, at |-> now]
    IN  /\ Asks(w)
        /\ nextAllowed[o] <= now
        /\ Cardinality(PermitsOf(expiresAt, o)) < MaxConcurrency
        /\ expiresAt[permit] = 0
        /\ expiresAt' = [expiresAt EXCEPT ![permit] = now + LeaseDuration]
        /\ nextAllowed' = [nextAllowed EXCEPT ![o] = now + MinDelay]
        /\ held' = [held EXCEPT ![permit] = now + LeaseDuration]
        /\ Remember(permit)
        /\ UNCHANGED <<now, workersTable>>

(* acquireOrigin() with a permit.  A permit of the same worker, origin and *)
(* millisecond violates the primary key; the status of the worker is not   *)
(* looked at.                                                              *)
AcquireOrigin(w, o) ==
    LET table == WithoutLapsed(expiresAt)
        permit == [origin |-> o, worker |-> w, at |-> now]
    IN  /\ Asks(w)
        /\ nextAllowed[o] <= now
        /\ Cardinality(Active(table, o)) < MaxConcurrency
        /\ table[permit] = 0
        /\ expiresAt' = [table EXCEPT ![permit] = now + LeaseDuration]
        /\ nextAllowed' = [nextAllowed EXCEPT ![o] = now + MinDelay]
        /\ held' = [held EXCEPT ![permit] = now + LeaseDuration]
        /\ Remember(permit)
        /\ UNCHANGED <<now, workersTable>>

(* acquireOrigin() without one: the transaction commits all the same, and  *)
(* with it the deletion of what has lapsed, of every origin.               *)
RefuseOrigin(w, o) ==
    LET table == WithoutLapsed(expiresAt)
    IN  /\ Asks(w)
        /\ \/ nextAllowed[o] > now
           \/ Cardinality(Active(table, o)) >= MaxConcurrency
        /\ expiresAt' = table
        /\ UNCHANGED <<now, workersTable, nextAllowed, held, history>>

(* Fault: the new expiry is counted from the old one.                      *)
RenewOriginFromExpiry(p) ==
    /\ held[p] # 0 /\ expiresAt[p] # 0
    /\ expiresAt' = [expiresAt EXCEPT ![p] = @ + LeaseDuration]
    /\ held' = [held EXCEPT ![p] = expiresAt[p] + LeaseDuration]
    /\ UNCHANGED <<now, workersTable, nextAllowed, history>>

(* renewOrigin(): a permit that has lapsed but is still there is renewed.  *)
RenewOrigin(p) ==
    /\ held[p] # 0 /\ expiresAt[p] # 0
    /\ expiresAt' = [expiresAt EXCEPT ![p] = now + LeaseDuration]
    /\ held' = [held EXCEPT ![p] = now + LeaseDuration]
    /\ UNCHANGED <<now, workersTable, nextAllowed, history>>

(* Fault: with its last permit the origin's row of origin_state goes too.  *)
ReleaseOriginForgets(p) ==
    /\ held[p] # 0
    /\ expiresAt' = [expiresAt EXCEPT ![p] = 0]
    /\ held' = [held EXCEPT ![p] = 0]
    /\ forfeit' = forfeit \ {p}
    /\ nextAllowed' = [nextAllowed EXCEPT ![p.origin] =
                          IF PermitsOf(expiresAt, p.origin) \subseteq {p} THEN 0 ELSE @]
    /\ UNCHANGED <<now, workersTable, taken>>

(* releaseOrigin(), whether the permit is still there or not.              *)
ReleaseOrigin(p) ==
    /\ held[p] # 0
    /\ expiresAt' = [expiresAt EXCEPT ![p] = 0]
    /\ held' = [held EXCEPT ![p] = 0]
    /\ forfeit' = forfeit \ {p}
    /\ UNCHANGED <<now, workersTable, nextAllowed, taken>>

-----------------------------------------------------------------------------
(* The environment.                                                        *)

(* The process of a worker dies; a new one may Start under its id.         *)
Crash(w) ==
    /\ session[w] # "dead"
    /\ session' = [session EXCEPT ![w] = "dead"]
    /\ held' = DroppedFrom(held, w)
    /\ forfeit' = {p \in forfeit : p.worker # w}
    /\ UNCHANGED <<now, status, heartbeatAt, expiresAt, nextAllowed, taken>>

Tick ==
    /\ now < MaxTime
    /\ now' = now + 1
    /\ forfeit' = forfeit \cup {p \in Permit : held[p] # 0 /\ Late(p.worker, now + 1)}
    /\ UNCHANGED <<workersTable, expiresAt, nextAllowed, held, taken>>

Ask == \E w \in Workers, o \in Origins : AcquireOrigin(w, o) \/ RefuseOrigin(w, o)

Next ==
    \/ \E w \in Workers : Start(w) \/ Heartbeat(w) \/ Stop(w) \/ Crash(w)
    \/ RecoverStale
    \/ Ask
    \/ \E p \in Permit : RenewOrigin(p) \/ ReleaseOrigin(p)
    \/ Tick

Spec == Init /\ [][Next]_vars

(* Time passes, and as long as there are workers some of them ask for      *)
(* origins.  Nothing else is fair: no renewal, release or recovery.        *)
FairSpec == Spec /\ WF_vars(Tick) /\ WF_vars(Ask)

-----------------------------------------------------------------------------
(* Properties.                                                             *)

(* What a worker may rightly rely on: its permit has not lapsed, and since *)
(* it took it the worker was never late and did not stop its session.      *)
Punctual(p) == held[p] > now /\ p \notin forfeit

(* At most maxConcurrency processes work on an origin under a permit that  *)
(* has not lapsed (acquireOrigin counts rows while renewOrigin may revive  *)
(* a lapsed one), unless a worker was silent for longer than staleAfterMs  *)
(* and works on without knowing that its permits were taken, or works on   *)
(* under permits it gave up by stop().                                     *)
OwnershipBounded ==
    \A o \in Origins :
        Cardinality({p \in Permit : p.origin = o /\ Punctual(p)}) <= MaxConcurrency

(* recoverStale() and the deletion of lapsed permits never take one from   *)
(* a worker that kept its heartbeats up: what its permit says holds.       *)
PermitHonoured == \A p \in Permit : Punctual(p) => expiresAt[p] = held[p]

(* A permit of an origin is taken at least minDelayMs after the one before *)
(* it, whichever worker took that one and whether it is still held, was    *)
(* released, lapsed or was recovered, or its worker stopped or died        *)
(* (origin_state outlives the permits).                                    *)
PermitsSpaced ==
    \A o \in Origins :
        taken[o].before # 0 => taken[o].before + MinDelay <= taken[o].last

(* All permits of an origin belong to processes that died.                 *)
Abandoned(o) ==
    /\ Cardinality(PermitsOf(expiresAt, o)) >= MaxConcurrency
    /\ \A p \in PermitsOf(expiresAt, o) : held[p] = 0

(* An origin whose permits belong to dead processes comes free again, also *)
(* when a new process under the same worker id keeps its heartbeats up and *)
(* nobody calls recoverStale(); the deletion in acquireOrigin() sees to    *)
(* it.  (Nothing is promised while no process is there, nor beyond the     *)
(* bound of the clock.)                                                    *)
DeadWorkersLetGo ==
    \A o \in Origins :
        Abandoned(o) ~> \/ ~Abandoned(o)
                        \/ \A w \in Workers : ~Asks(w)
                        \/ \E p \in PermitsOf(expiresAt, o) : expiresAt[p] > MaxTime
=============================================================================
