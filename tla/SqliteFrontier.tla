--------------------------- MODULE SqliteFrontier ---------------------------
(***************************************************************************)
(* The SQLite frontier backend (src/src/frontier/backends/sqlite-*.ts).    *)
(* Every backend call runs its SQL statements in one synchronous turn of   *)
(* the event loop, so each call is one action; what interleaves is the     *)
(* calls of the workers, their heartbeats, the clock and a process that    *)
(* dies and is resumed on the same database.                               *)
(*                                                                         *)
(* available_at is left out: it is set to the current time whenever a row  *)
(* returns to 'pending', so under a clock that does not run backwards      *)
(* "available_at <= now" always holds.                                     *)
(***************************************************************************)
EXTENDS Integers, FiniteSets

CONSTANTS Requests,        \* unique keys (the request id is a hash of it)
          Clients,         \* the workers of the process
          Origins,
          Origin,          \* the origin of each request
          Rank,            \* (priority DESC, depth ASC) of each request
          Order,           \* config.storage.frontierOrder
          LeaseDuration,   \* config.storage.leaseDurationMs
          MaxQueueSize,    \* config.limits.maxQueueSize
          CandidateLimit,  \* the LIMIT of readyCandidates (128 in the code)
          NoRequest,
          MaxTime,         \* bound: the clock stops here
          MaxCrashes       \* bound: how often the process dies

(* The process refuses to start with any other configuration               *)
(* (src/src/config/validation-runtime.ts, positive(...)).                  *)
ASSUME ConfigAssumption ==
    /\ LeaseDuration \in Nat \ {0}
    /\ MaxQueueSize \in Nat \ {0}
    /\ CandidateLimit \in Nat \ {0}
    /\ MaxTime \in Nat \ {0}
    /\ MaxCrashes \in Nat
    /\ IsFiniteSet(Requests)
    /\ NoRequest \notin Requests
    /\ Origin \in [Requests -> Origins]
    /\ Rank \in [Requests -> Int]
    /\ Order \in {"bfs", "dfs", "priority"}

VARIABLES now,      \* Date.now()
          running,  \* a process has the database open
          crashes,  \* how often it died
          row,      \* the frontier_requests table
          lease     \* lease[c]: the RequestLease object worker c holds

vars == <<now, running, crashes, row, lease>>

Times == 0..(MaxTime + LeaseDuration)

(* lease_id hashes the request id and the millisecond of the lease, so the *)
(* millisecond identifies it among the leases of one request.              *)
NoId == 0
NoLease == [req |-> NoRequest, id |-> NoId]

RowState == {"absent", "pending", "in_progress", "terminal"}
Row == [state : RowState, leaseId : Times, expiresAt : Times, rowid : Nat]
AbsentRow == [state |-> "absent", leaseId |-> NoId, expiresAt |-> 0, rowid |-> 0]

TypeOK ==
    /\ now \in 1..MaxTime
    /\ running \in BOOLEAN
    /\ crashes \in 0..MaxCrashes
    /\ row \in [Requests -> Row]
    /\ lease \in [Clients -> [req : Requests \cup {NoRequest}, id : Times]]

Init ==
    /\ now = 1
    /\ running = TRUE
    /\ crashes = 0
    /\ row = [r \in Requests |-> AbsentRow]
    /\ lease = [c \in Clients |-> NoLease]

-----------------------------------------------------------------------------
(* The statements.                                                         *)

InState(rows, s) == {r \in Requests : rows[r].state = s}

(* pendingCount, outstandingCount                                          *)
pendingCount == Cardinality(InState(row, "pending"))

AsPending(x) == [x EXCEPT !.state = "pending", !.leaseId = NoId, !.expiresAt = 0]

(* Fault: lapsed leases are never recovered.                               *)
RecoveredNever == row

(* recoverExpired / recover: every lapsed lease goes back to pending.      *)
Recovered ==
    [r \in Requests |->
        IF row[r].state = "in_progress" /\ row[r].expiresAt <= now
        THEN AsPending(row[r]) ELSE row[r]]

(* requestOrderSql                                                         *)
Precedes(rows, a, b) ==
    CASE Order = "dfs"      -> rows[a].rowid > rows[b].rowid
      [] Order = "bfs"      -> rows[a].rowid < rows[b].rowid
      [] Order = "priority" -> \/ Rank[a] < Rank[b]
                               \/ Rank[a] = Rank[b] /\ rows[a].rowid < rows[b].rowid

(* Fault: the query is not partitioned by origin.                          *)
OriginHeadsUnpartitioned(rows) == InState(rows, "pending")

(* readyCandidatesSql: the first pending request of each origin ...        *)
OriginHeads(rows) ==
    {r \in InState(rows, "pending") :
        \A q \in InState(rows, "pending") :
            Origin[q] = Origin[r] => q = r \/ Precedes(rows, r, q)}

(* ... and of these the first CandidateLimit.  firstReadyCandidate is the  *)
(* first of them all, so it is always among them.                          *)
readyCandidates(rows) ==
    {r \in OriginHeads(rows) :
        Cardinality({q \in OriginHeads(rows) : Precedes(rows, q, r)}) < CandidateLimit}

(* leaseNext offers the candidates in order to selection.tryReserve, which *)
(* refuses the origins in blocked, and claims the first that is let        *)
(* through; nothing can change a row in between, so claim() succeeds.      *)
Claimed(rows, blocked) ==
    LET open == {r \in readyCandidates(rows) : Origin[r] \notin blocked}
    IN  {r \in open : \A q \in open : q = r \/ Precedes(rows, r, q)}

(* The WHERE clause of renew and transition: the row is still leased under *)
(* the lease the caller shows.                                             *)
Current(c, r) ==
    /\ lease[c].req = r
    /\ row[r].state = "in_progress"
    /\ row[r].leaseId = lease[c].id

-----------------------------------------------------------------------------
(* The calls.                                                              *)

(* enqueue() of a new key within maxDepth; any other call changes nothing. *)
Enqueue(r) ==
    /\ running
    /\ row[r].state = "absent"
    /\ pendingCount < MaxQueueSize
    /\ row' = [row EXCEPT ![r].state = "pending",
                          ![r].rowid = Cardinality(Requests \ InState(row, "absent")) + 1]
    /\ UNCHANGED <<now, running, crashes, lease>>

LeaseNext(c, blocked) ==
    /\ running
    /\ lease[c] = NoLease
    /\ \E r \in Claimed(Recovered, blocked) :
         /\ row' = [Recovered EXCEPT ![r].state = "in_progress",
                                     ![r].leaseId = now,
                                     ![r].expiresAt = now + LeaseDuration]
         /\ lease' = [lease EXCEPT ![c] = [req |-> r, id |-> now]]
    /\ UNCHANGED <<now, running, crashes>>

(* leaseNext() returns null; the lapsed leases are recovered all the same. *)
LeaseNextNull(c, blocked) ==
    /\ running
    /\ lease[c] = NoLease
    /\ Claimed(Recovered, blocked) = {}
    /\ row' = Recovered
    /\ UNCHANGED <<now, running, crashes, lease>>

(* Fault: the renewal counts from the old expiry.                          *)
RenewFromExpiry(c) ==
    \E r \in Requests :
        /\ running
        /\ Current(c, r)
        /\ row' = [row EXCEPT ![r].expiresAt = @ + LeaseDuration]
        /\ UNCHANGED <<now, running, crashes, lease>>

(* Fault: the renewal forgets the duration.                                *)
RenewWithoutDuration(c) ==
    \E r \in Requests :
        /\ running
        /\ Current(c, r)
        /\ row' = [row EXCEPT ![r].expiresAt = now]
        /\ UNCHANGED <<now, running, crashes, lease>>

(* renewLease(): the statement does not look at the expiry, so a lapsed    *)
(* lease that nobody recovered yet comes back to life.                     *)
Renew(c) ==
    \E r \in Requests :
        /\ running
        /\ Current(c, r)
        /\ row' = [row EXCEPT ![r].expiresAt = now + LeaseDuration]
        /\ UNCHANGED <<now, running, crashes, lease>>

(* transition(lease, "pending") of release()                               *)
Release(c) ==
    \E r \in Requests :
        /\ running
        /\ Current(c, r)
        /\ row' = [row EXCEPT ![r] = AsPending(@)]
        /\ lease' = [lease EXCEPT ![c] = NoLease]
        /\ UNCHANGED <<now, running, crashes>>

(* Fault: the WHERE clause checks the request but not the lease.           *)
FinishByRequest(c) ==
    \E r \in Requests :
        /\ running
        /\ lease[c].req = r
        /\ row[r].state = "in_progress"
        /\ row' = [row EXCEPT ![r].state = "terminal", ![r].leaseId = NoId,
                              ![r].expiresAt = 0]
        /\ lease' = [lease EXCEPT ![c] = NoLease]
        /\ UNCHANGED <<now, running, crashes>>

(* transition(lease, terminal state): markHandled, markFailed, markSkipped *)
(* and markCancelled.                                                      *)
Finish(c) ==
    \E r \in Requests :
        /\ running
        /\ Current(c, r)
        /\ row' = [row EXCEPT ![r].state = "terminal", ![r].leaseId = NoId,
                              ![r].expiresAt = 0]
        /\ lease' = [lease EXCEPT ![c] = NoLease]
        /\ UNCHANGED <<now, running, crashes>>

(* staleLease(): the statement changes no row, the call throws and the     *)
(* worker drops the lease.                                                 *)
RejectStale(c) ==
    /\ running
    /\ lease[c] # NoLease
    /\ ~Current(c, lease[c].req)
    /\ lease' = [lease EXCEPT ![c] = NoLease]
    /\ UNCHANGED <<now, running, crashes, row>>

(* The process dies, or closes with leases still out.                      *)
Crash ==
    /\ running
    /\ crashes < MaxCrashes
    /\ running' = FALSE
    /\ crashes' = crashes + 1
    /\ lease' = [c \in Clients |-> NoLease]
    /\ UNCHANGED <<now, row>>

(* init() of the next process on this database                             *)
Resume ==
    /\ ~running
    /\ running' = TRUE
    /\ row' = Recovered
    /\ UNCHANGED <<now, crashes, lease>>

Tick ==
    /\ now < MaxTime
    /\ now' = now + 1
    /\ UNCHANGED <<running, crashes, row, lease>>

Next ==
    \/ \E r \in Requests : Enqueue(r)
    \/ \E c \in Clients, blocked \in SUBSET Origins :
           LeaseNext(c, blocked) \/ LeaseNextNull(c, blocked)
    \/ \E c \in Clients : Renew(c) \/ Release(c) \/ Finish(c) \/ RejectStale(c)
    \/ Crash
    \/ Resume
    \/ Tick

Spec == Init /\ [][Next]_vars

(* The clock moves, an operator resumes a dead run, a worker without a     *)
(* lease keeps calling leaseNext() while anything is outstanding, and the  *)
(* request timeouts bring every worker to the end of its request           *)
(* (src/src/crawler/worker-pool.ts).                                       *)
Fairness ==
    /\ WF_vars(Tick)
    /\ WF_vars(Resume)
    /\ \A c \in Clients : WF_vars(Release(c) \/ Finish(c) \/ RejectStale(c))
    /\ WF_vars(\E c \in Clients, blocked \in SUBSET Origins :
                   LeaseNext(c, blocked) \/ LeaseNextNull(c, blocked))

FairSpec == Spec /\ Fairness

-----------------------------------------------------------------------------
(* Properties.                                                             *)

(* A lapsed lease is told from its successor: however leases expire, are   *)
(* revived by a late renewal, recovered in-process and handed out again    *)
(* within one millisecond, at most one worker's lease passes the WHERE     *)
(* clause of renew and transition for a row, and a worker whose lease does *)
(* not pass took it at an earlier millisecond (crawling.md: "Terminal      *)
(* transitions reject stale leases and duplicate completion").             *)
SingleHolder ==
    /\ \A c, d \in Clients : \A r \in Requests :
           Current(c, r) /\ Current(d, r) => c = d
    /\ \A c \in Clients :
           lease[c] # NoLease =>
               Current(c, lease[c].req) \/ lease[c].id < now

(* leaseNext() returns null only when no request could have been started:  *)
(* whichever origins refuse a reservation, a pending request of an origin  *)
(* that does not is found, although only the first request of each origin  *)
(* is ever offered -- as long as CandidateLimit covers the origins with    *)
(* pending work (crawling.md: "Ready work is selected by origin before it  *)
(* is leased").                                                            *)
NoReadyOriginOverlooked ==
    \A blocked \in SUBSET Origins :
        LET ready == InState(Recovered, "pending")
        IN  /\ Cardinality({Origin[r] : r \in ready}) <= CandidateLimit
            /\ \E r \in ready : Origin[r] \notin blocked
            => Claimed(Recovered, blocked) # {}

(* The work of a worker that died is picked up again, without a resume     *)
(* too, once its lease has run out (crawling.md: "Lease ownership and      *)
(* expiry make abandoned work recoverable").  The clock of the model stops *)
(* at MaxTime, so leases that end later are left out.                      *)
Abandoned(r) ==
    /\ row[r].state = "in_progress"
    /\ row[r].expiresAt <= MaxTime
    /\ \A c \in Clients : ~Current(c, r)

AbandonedWorkRecovered ==
    \A r \in Requests :
        Abandoned(r) ~> \/ row[r].state = "pending"
                        \/ \E c \in Clients : Current(c, r)

(* The refinement mapping to FrontierContract: a worker holds what the     *)
(* database would let it complete.                                         *)
ContractStatus ==
    [r \in Requests |->
        IF row[r].state = "absent" THEN "unknown" ELSE row[r].state]
ContractWorking == [c \in Clients |-> {r \in Requests : lease[c].req = r}]
ContractHolds == [c \in Clients |-> {r \in Requests : Current(c, r)}]

Contract == INSTANCE FrontierContract
                WITH status <- ContractStatus, working <- ContractWorking,
                     holds <- ContractHolds

(* The backend implements the frontier contract.                           *)
ImplementsContract == Contract!ContractSpec
=============================================================================
