-------------------------- MODULE JournalFrontier --------------------------
(***************************************************************************)
(* The journal frontier backend (src/src/frontier/backends/                *)
(* journal-backend.ts with journal.ts, journal-validation.ts, recovery.ts, *)
(* state.ts, lease-manager.ts and enqueuer.ts): requests live in memory,   *)
(* every transition is appended to frontier.ndjson before it takes effect, *)
(* and a later process rebuilds the frontier from that file.               *)
(*                                                                         *)
(* Transitions wait at a FIFO mutex; enqueues wait at another one; both    *)
(* hand records to one drain loop that writes them one at a time.  A write *)
(* has landed in the file some time before its promise resolves; it may    *)
(* tear, be refused after it landed (a failed fsync), or be cut off by a   *)
(* crash.  The checksum chain advances with the sequence number in the     *)
(* same two assignments (journal.ts:151-152), so the sequence number       *)
(* stands for both.                                                        *)
(***************************************************************************)
EXTENDS Integers, Sequences, FiniteSets, Functions

CONSTANTS Requests,       \* unique keys (the request id is a hash of it)
          Clients,        \* the workers of the process
          LeaseDuration,  \* config.storage.leaseDurationMs
          MaxQueueSize,   \* config.limits.maxQueueSize
          NoRequest,
          MaxTime,        \* bound: the clock stops here
          MaxRecords,     \* bound: calls are made until this many records
          MaxCrashes,     \* bound: how often the process dies
          MaxFaults       \* bound: how many writes tear or fail

ASSUME ConfigAssumption ==
    /\ LeaseDuration \in Nat \ {0}
    /\ MaxQueueSize \in Nat \ {0}
    /\ MaxTime \in Nat \ {0}
    /\ MaxRecords \in Nat
    /\ MaxCrashes \in Nat
    /\ MaxFaults \in Nat
    /\ NoRequest \notin Requests

VARIABLES
    now,          \* Date.now()
    mode,         \* "up", "down" (dead or closed) or "refused" (init() threw)
    crashes,      \* how often the process died
    faults,       \* how many writes tore or failed
    \* frontier.ndjson
    lines,        \* the newline-terminated lines
    tail,         \* what follows the last newline
    \* FrontierJournal
    sequence,     \* the last sequence number it believes written
    pending,      \* records handed to append(), oldest first
    landed,       \* how far the oldest of them got: "no", "full" or "torn"
    \* FrontierState
    known,        \* the keys of requestsByKey
    queued,       \* queued[r]: copies of r in queue
    deferred,     \* deferred[r]: when the old lease of r ends, or NoTime
    \* FrontierLeaseManager
    active,       \* active[r]: the id of the active lease of r, or NoTime
    transitions,  \* calls at transitionMutex; the first one holds it
    \* callers
    lease,        \* lease[c]: the RequestLease object worker c holds
    acked,        \* requests whose enqueue() has returned "enqueued"
    done,         \* requests reported terminal, by mark...() or a resume
    \* history, for the properties only
    damaged,      \* a record was spliced onto an unterminated line, or
                  \* reported as failed after it had landed
    inherited     \* requests taken over with the lease of a dead process

clockVars == <<now, mode, crashes>>
fileVars == <<lines, tail>>
journalVars == <<sequence, pending, landed>>
stateVars == <<known, queued, deferred>>
callerVars == <<lease, acked, done>>
historyVars == <<damaged, inherited>>
vars == <<clockVars, faults, fileVars, journalVars, stateVars,
          active, transitions, callerVars, historyVars>>

NoTime == 0
Times == 0..(MaxTime + LeaseDuration)
NoLease == [req |-> NoRequest, id |-> NoTime]

(* FrontierJournalRecord; the four terminal types behave alike.  "garbage" *)
(* is a line that does not parse and "none" the absence of a tail.         *)
RecordType == {"enqueued", "leased", "renewed", "released", "terminal",
               "garbage", "none"}
Record == [type : RecordType, req : Requests \cup {NoRequest},
           id : Times, exp : Times, seq : Nat]
NonRecord(t) == [type |-> t, req |-> NoRequest, id |-> NoTime, exp |-> NoTime, seq |-> 0]
Garbage == NonRecord("garbage")
NoTail == NonRecord("none")

(* A call of lease, renew, release or finish at transitionMutex.           *)
Call == [kind : {"leased", "renewed", "released", "terminal"},
         client : Clients, req : Requests, id : Times]

TypeOK ==
    /\ now \in 1..MaxTime
    /\ mode \in {"up", "down", "refused"}
    /\ crashes \in 0..MaxCrashes
    /\ faults \in 0..MaxFaults
    /\ lines \in Seq(Record)
    /\ tail \in Record
    /\ sequence \in Nat
    /\ pending \in Seq(Record)
    /\ landed \in {"no", "full", "torn"}
    /\ known \subseteq Requests
    /\ queued \in [Requests -> Nat]
    /\ deferred \in [Requests -> Times]
    /\ active \in [Requests -> Times]
    /\ transitions \in Seq(Call)
    /\ lease \in [Clients -> [req : Requests \cup {NoRequest}, id : Times]]
    /\ acked \subseteq Requests
    /\ done \subseteq Requests
    /\ damaged \in BOOLEAN
    /\ inherited \subseteq Requests

Init ==
    /\ now = 1 /\ mode = "up" /\ crashes = 0 /\ faults = 0
    /\ lines = <<>> /\ tail = NoTail
    /\ sequence = 0 /\ pending = <<>> /\ landed = "no"
    /\ known = {}
    /\ queued = [r \in Requests |-> 0]
    /\ deferred = [r \in Requests |-> NoTime]
    /\ active = [r \in Requests |-> NoTime]
    /\ transitions = <<>>
    /\ lease = [c \in Clients |-> NoLease]
    /\ acked = {} /\ done = {}
    /\ damaged = FALSE /\ inherited = {}

-----------------------------------------------------------------------------
(* Reading the journal back.                                               *)

(* parseRecords: an unparsable line is forgiven only as an unterminated    *)
(* tail; a complete record without its newline counts.                     *)
Parsable == \A i \in 1..Len(lines) : lines[i].type # "garbage"
Parsed == IF tail.type \in {"none", "garbage"} THEN lines ELSE Append(lines, tail)

(* The records of one request before position i.                           *)
Earlier(recs, i) == {j \in 1..(i - 1) : recs[j].req = recs[i].req}

LastOf(S) == CHOOSE i \in S : \A j \in S : j <= i

(* RequestJournalState.leaseId after the records before position i         *)
LeaseBefore(recs, i) ==
    LET changes == {j \in Earlier(recs, i) : recs[j].type \in {"leased", "released"}}
    IN  IF changes = {} \/ recs[LastOf(changes)].type = "released"
        THEN NoTime ELSE recs[LastOf(changes)].id

(* applyTransition                                                         *)
ValidTransition(recs, i) ==
    LET types == {recs[j].type : j \in Earlier(recs, i)}
    IN  IF recs[i].type = "enqueued"
        THEN "enqueued" \notin types
        ELSE /\ "enqueued" \in types
             /\ "terminal" \notin types
             /\ LeaseBefore(recs, i) =
                    IF recs[i].type = "leased" THEN NoTime ELSE recs[i].id

(* validateJournal                                                         *)
ValidJournal(recs) ==
    \A i \in 1..Len(recs) : recs[i].seq = i /\ ValidTransition(recs, i)

(* recoverFrontier                                                         *)
RecordedRequests(recs) ==
    {recs[i].req : i \in {j \in 1..Len(recs) : recs[j].type = "enqueued"}}
TerminalRequests(recs) ==
    {recs[i].req : i \in {j \in 1..Len(recs) : recs[j].type = "terminal"}}
LeaseEnd(recs, r) ==
    LET changes == {i \in 1..Len(recs) :
                      recs[i].req = r /\ recs[i].type \in {"leased", "renewed", "released"}}
    IN  IF changes = {} \/ recs[LastOf(changes)].type = "released"
        THEN NoTime ELSE recs[LastOf(changes)].exp
Unfinished(recs) == RecordedRequests(recs) \ TerminalRequests(recs)

-----------------------------------------------------------------------------
(* Calls of the workers and of the scheduler.                              *)

(* FrontierState.size: leased requests do not count.                       *)
Size == SumFunction(queued) + Cardinality({r \in Requests : deferred[r] # NoTime})

(* bound: no further call once MaxRecords records exist or are on their way *)
MayCall ==
    /\ mode = "up"
    /\ Len(lines) + Len(pending) + Len(transitions) < MaxRecords

Enqueuing == \E i \in 1..Len(pending) : pending[i].type = "enqueued"
InTransition == \E i \in 1..Len(pending) : pending[i].type # "enqueued"

CallsOf(c) == {i \in 1..Len(transitions) : transitions[i].client = c}
Renewing(c) == \E i \in CallsOf(c) : transitions[i].kind = "renewed"
Busy(c) == \E i \in CallsOf(c) : transitions[i].kind # "renewed"

(* promoteDeferred: leases of the dead process that have run out by now    *)
Promoted == {r \in Requests : deferred[r] # NoTime /\ deferred[r] <= now}
WithPromoted == [r \in Requests |-> queued[r] + IF r \in Promoted THEN 1 ELSE 0]
WithoutPromoted == [r \in Requests |-> IF r \in Promoted THEN NoTime ELSE deferred[r]]

(* enqueue() of a key within maxDepth, when its turn at the mutex comes;   *)
(* an invalid, known, too deep or surplus key changes nothing.             *)
Enqueue(r) ==
    /\ MayCall
    /\ ~Enqueuing
    /\ r \notin known
    /\ Size < MaxQueueSize
    /\ pending' = Append(pending, [NonRecord("enqueued") EXCEPT !.req = r])
    /\ UNCHANGED <<clockVars, faults, fileVars, sequence, landed, stateVars,
                   active, transitions, callerVars, historyVars>>

(* Fault: takeNext hands out a request without finding it in the queue.    *)
LeaseNextUnqueued(c, r) ==
    /\ MayCall
    /\ lease[c] = NoLease
    /\ ~Busy(c)
    /\ r \in known
    /\ queued' = [WithPromoted EXCEPT ![r] = @ - 1]
    /\ deferred' = WithoutPromoted
    /\ transitions' = Append(transitions,
            [kind |-> "leased", client |-> c, req |-> r, id |-> NoTime])
    /\ UNCHANGED <<clockVars, faults, fileVars, journalVars, known, active,
                   callerVars, historyVars>>

(* leaseNext(): takeNext removes a queued request that tryReserve accepts; *)
(* which one depends on the frontier order and on politeness and is left   *)
(* open.                                                                   *)
LeaseNext(c, r) ==
    /\ MayCall
    /\ lease[c] = NoLease
    /\ ~Busy(c)
    /\ WithPromoted[r] > 0
    /\ queued' = [WithPromoted EXCEPT ![r] = @ - 1]
    /\ deferred' = WithoutPromoted
    /\ transitions' = Append(transitions,
            [kind |-> "leased", client |-> c, req |-> r, id |-> NoTime])
    /\ UNCHANGED <<clockVars, faults, fileVars, journalVars, known, active,
                   callerVars, historyVars>>

(* leaseNext() that reserves nothing and returns null                      *)
LeaseNextNull(c) ==
    /\ mode = "up"
    /\ lease[c] = NoLease
    /\ ~Busy(c)
    /\ queued' = WithPromoted
    /\ deferred' = WithoutPromoted
    /\ UNCHANGED <<clockVars, faults, fileVars, journalVars, known, active,
                   transitions, callerVars, historyVars>>

(* renewLease() from the heartbeat timer, release() and the four mark...() *)
(* calls of the worker: they queue up at transitionMutex.                  *)
CallWithLease(c, kind) ==
    /\ MayCall
    /\ lease[c] # NoLease
    /\ IF kind = "renewed" THEN ~Renewing(c) ELSE ~Busy(c)
    /\ transitions' = Append(transitions,
            [kind |-> kind, client |-> c, req |-> lease[c].req, id |-> lease[c].id])
    /\ UNCHANGED <<clockVars, faults, fileVars, journalVars, stateVars, active,
                   callerVars, historyVars>>

(* Fault: assertActive is left out.                                        *)
StartTransitionUnasserted ==
    /\ transitions # <<>> /\ ~InTransition
    /\ LET call == Head(transitions) IN
         pending' = Append(pending,
                [type |-> call.kind, req |-> call.req, seq |-> 0,
                 id |-> IF call.kind = "leased" THEN now ELSE call.id,
                 exp |-> IF call.kind \in {"leased", "renewed"}
                         THEN now + LeaseDuration ELSE NoTime])
    /\ UNCHANGED <<clockVars, faults, fileVars, sequence, landed, stateVars,
                   active, transitions, callerVars, historyVars>>

(* The call that holds the mutex builds its record ...                     *)
StartTransition ==
    /\ transitions # <<>> /\ ~InTransition
    /\ LET call == Head(transitions) IN
         /\ call.kind = "leased" \/ active[call.req] = call.id
         /\ pending' = Append(pending,
                [type |-> call.kind, req |-> call.req, seq |-> 0,
                 id |-> IF call.kind = "leased" THEN now ELSE call.id,
                 exp |-> IF call.kind \in {"leased", "renewed"}
                         THEN now + LeaseDuration ELSE NoTime])
    /\ UNCHANGED <<clockVars, faults, fileVars, sequence, landed, stateVars,
                   active, transitions, callerVars, historyVars>>

(* Fault: the mutex is not passed on when the call throws.                 *)
RejectTransitionHolding ==
    /\ transitions # <<>> /\ ~InTransition
    /\ LET call == Head(transitions) IN
         /\ call.kind # "leased"
         /\ active[call.req] # call.id
    /\ UNCHANGED vars

(* ... or fails assertActive.                                              *)
RejectTransition ==
    /\ transitions # <<>> /\ ~InTransition
    /\ LET call == Head(transitions) IN
         /\ call.kind # "leased"
         /\ active[call.req] # call.id
         /\ lease' = IF call.kind = "renewed" THEN lease
                     ELSE [lease EXCEPT ![call.client] = NoLease]
    /\ transitions' = Tail(transitions)
    /\ UNCHANGED <<clockVars, faults, fileVars, journalVars, stateVars, active,
                   acked, done, historyVars>>

-----------------------------------------------------------------------------
(* The drain loop: appendSerialized() of the oldest pending record.        *)

Sequenced == [Head(pending) EXCEPT !.seq = sequence + 1]

(* The whole line is in the file; if the file ended in an unterminated     *)
(* line, that line and the record have become one unreadable line.         *)
LandWrite ==
    /\ pending # <<>> /\ landed = "no"
    /\ lines' = Append(lines, IF tail = NoTail THEN Sequenced ELSE Garbage)
    /\ tail' = NoTail
    /\ landed' = "full"
    /\ damaged' = (damaged \/ tail # NoTail)
    /\ UNCHANGED <<clockVars, faults, sequence, pending, stateVars, active,
                   transitions, callerVars, inherited>>

(* Only part of the line gets into the file: some of the record, or all of *)
(* it but the newline.                                                     *)
TearWrite(whole) ==
    /\ pending # <<>> /\ landed = "no"
    /\ faults < MaxFaults
    /\ faults' = faults + 1
    /\ tail' = IF whole /\ tail = NoTail THEN Sequenced ELSE Garbage
    /\ landed' = "torn"
    /\ damaged' = (damaged \/ tail # NoTail)
    /\ UNCHANGED <<clockVars, lines, sequence, pending, stateVars, active,
                   transitions, callerVars, inherited>>

(* Fault: the caller goes on before the record is written.                 *)
ResolveUnwritten(type) ==
    /\ pending # <<>>
    /\ Head(pending).type = type
    /\ sequence' = sequence + 1
    /\ pending' = Tail(pending)
    /\ landed' = "no"
    /\ UNCHANGED <<clockVars, faults, fileVars, deferred, historyVars>>

(* The promise resolves: the journal advances and the caller goes on, in   *)
(* the same turn.                                                          *)
Resolve(type) ==
    /\ landed = "full"
    /\ Head(pending).type = type
    /\ sequence' = sequence + 1
    /\ pending' = Tail(pending)
    /\ landed' = "no"
    /\ UNCHANGED <<clockVars, faults, fileVars, deferred, historyVars>>

ResolveEnqueue ==
    /\ Resolve("enqueued")
    /\ known' = known \cup {Head(pending).req}
    /\ queued' = [queued EXCEPT ![Head(pending).req] = @ + 1]
    /\ acked' = acked \cup {Head(pending).req}
    /\ UNCHANGED <<active, transitions, lease, done>>

ResolveLease ==
    LET call == Head(transitions) IN
    /\ Resolve("leased")
    /\ active' = [active EXCEPT ![call.req] = Head(pending).id]
    /\ lease' = [lease EXCEPT ![call.client] =
                    [req |-> call.req, id |-> Head(pending).id]]
    /\ transitions' = Tail(transitions)
    /\ UNCHANGED <<known, queued, acked, done>>

ResolveRenewal ==
    /\ Resolve("renewed")
    /\ transitions' = Tail(transitions)
    /\ UNCHANGED <<known, queued, active, callerVars>>

ResolveRelease ==
    LET call == Head(transitions) IN
    /\ Resolve("released")
    /\ active' = [active EXCEPT ![call.req] = NoTime]
    /\ queued' = [queued EXCEPT ![call.req] = @ + 1]
    /\ lease' = [lease EXCEPT ![call.client] = NoLease]
    /\ transitions' = Tail(transitions)
    /\ UNCHANGED <<known, acked, done>>

ResolveFinish ==
    LET call == Head(transitions) IN
    /\ Resolve("terminal")
    /\ active' = [active EXCEPT ![call.req] = NoTime]
    /\ lease' = [lease EXCEPT ![call.client] = NoLease]
    /\ done' = done \cup {call.req}
    /\ transitions' = Tail(transitions)
    /\ UNCHANGED <<known, queued, acked>>

(* Fault: leaseNext() does not put the request back.                       *)
FailWriteLosing ==
    /\ pending # <<>>
    /\ landed = "torn" \/ faults < MaxFaults
    /\ faults' = IF landed = "torn" THEN faults ELSE faults + 1
    /\ pending' = Tail(pending)
    /\ landed' = "no"
    /\ damaged' = (damaged \/ landed = "full")
    /\ transitions' = IF Head(pending).type = "enqueued"
                      THEN transitions ELSE Tail(transitions)
    /\ UNCHANGED <<clockVars, fileVars, sequence, known, queued, deferred, active,
                   callerVars, inherited>>

(* Fault: release() has put the request back before its record fails.      *)
FailWriteRequeuing ==
    /\ pending # <<>>
    /\ landed = "torn" \/ faults < MaxFaults
    /\ faults' = IF landed = "torn" THEN faults ELSE faults + 1
    /\ pending' = Tail(pending)
    /\ landed' = "no"
    /\ damaged' = (damaged \/ landed = "full")
    /\ queued' = IF Head(pending).type \in {"leased", "released"}
                 THEN [queued EXCEPT ![Head(pending).req] = @ + 1] ELSE queued
    /\ transitions' = IF Head(pending).type = "enqueued"
                      THEN transitions ELSE Tail(transitions)
    /\ UNCHANGED <<clockVars, fileVars, sequence, known, deferred, active,
                   callerVars, inherited>>

(* writeFile() or the sync() after it rejects.  Only leaseNext() undoes    *)
(* what it did: it puts the request back.                                  *)
FailWrite ==
    /\ pending # <<>>
    /\ landed = "torn" \/ faults < MaxFaults
    /\ faults' = IF landed = "torn" THEN faults ELSE faults + 1
    /\ pending' = Tail(pending)
    /\ landed' = "no"
    /\ damaged' = (damaged \/ landed = "full")
    /\ queued' = IF Head(pending).type = "leased"
                 THEN [queued EXCEPT ![Head(pending).req] = @ + 1] ELSE queued
    /\ transitions' = IF Head(pending).type = "enqueued"
                      THEN transitions ELSE Tail(transitions)
    /\ UNCHANGED <<clockVars, fileVars, sequence, known, deferred, active,
                   callerVars, inherited>>

-----------------------------------------------------------------------------
(* The end of a process, the next one, and the clock.                      *)

(* The process dies, or ends through close().                              *)
Crash ==
    /\ mode = "up"
    /\ crashes < MaxCrashes
    /\ mode' = "down"
    /\ crashes' = crashes + 1
    /\ pending' = <<>> /\ landed' = "no" /\ sequence' = 0
    /\ known' = {}
    /\ queued' = [r \in Requests |-> 0]
    /\ deferred' = [r \in Requests |-> NoTime]
    /\ active' = [r \in Requests |-> NoTime]
    /\ transitions' = <<>>
    /\ lease' = [c \in Clients |-> NoLease]
    /\ UNCHANGED <<now, faults, fileVars, acked, done, historyVars>>

(* init() with storage.resumeFrom: load(), then recoverFrontier().  Nothing *)
(* is written: the open leases and a torn tail stay in the file.           *)
Resume ==
    /\ mode = "down"
    /\ Parsable /\ ValidJournal(Parsed)
    /\ mode' = "up"
    /\ sequence' = Len(Parsed)
    /\ known' = RecordedRequests(Parsed)
    /\ queued' = [r \in Requests |->
           IF r \in Unfinished(Parsed) /\ LeaseEnd(Parsed, r) <= now THEN 1 ELSE 0]
    /\ deferred' = [r \in Requests |->
           IF r \in Unfinished(Parsed) /\ LeaseEnd(Parsed, r) > now
           THEN LeaseEnd(Parsed, r) ELSE NoTime]
    /\ done' = done \cup TerminalRequests(Parsed)
    /\ inherited' = inherited \cup
           {r \in Unfinished(Parsed) : LeaseEnd(Parsed, r) # NoTime}
    /\ UNCHANGED <<now, crashes, faults, fileVars, pending, landed, active,
                   transitions, lease, acked, damaged>>

(* load() throws FrontierJournalError.                                     *)
RefuseResume ==
    /\ mode = "down"
    /\ ~(Parsable /\ ValidJournal(Parsed))
    /\ mode' = "refused"
    /\ UNCHANGED <<now, crashes, faults, fileVars, journalVars, stateVars, active,
                   transitions, callerVars, historyVars>>

Tick ==
    /\ now < MaxTime
    /\ now' = now + 1
    /\ UNCHANGED <<mode, crashes, faults, fileVars, journalVars, stateVars, active,
                   transitions, callerVars, historyVars>>

Drain ==
    \/ LandWrite
    \/ ResolveEnqueue \/ ResolveLease \/ ResolveRenewal \/ ResolveRelease
    \/ ResolveFinish
    \/ FailWrite

Next ==
    \/ \E r \in Requests : Enqueue(r)
    \/ \E c \in Clients, r \in Requests : LeaseNext(c, r)
    \/ \E c \in Clients : LeaseNextNull(c)
    \/ \E c \in Clients, kind \in {"renewed", "released", "terminal"} :
           CallWithLease(c, kind)
    \/ StartTransition \/ RejectTransition
    \/ Drain
    \/ \E whole \in BOOLEAN : TearWrite(whole)
    \/ Crash \/ Resume \/ RefuseResume
    \/ Tick

Spec == Init /\ [][Next]_vars

(* Node.js runs the mutex continuations and completes or fails the writes. *)
Fairness == WF_vars(StartTransition \/ RejectTransition) /\ WF_vars(Drain)

FairSpec == Spec /\ Fairness

-----------------------------------------------------------------------------
(* Properties.                                                             *)

BeingLeased(r) ==
    Cardinality({i \in 1..Len(transitions) :
                    transitions[i].kind = "leased" /\ transitions[i].req = r})
Places(r) ==
    queued[r] + BeingLeased(r) + (IF deferred[r] # NoTime THEN 1 ELSE 0)
              + (IF active[r] # NoTime THEN 1 ELSE 0)

(* A request the process knows is in exactly one of the queue, the         *)
(* deferred list, a leaseNext() on its way and the active leases, until it *)
(* is terminal: failed writes, renewals that race a release and recovered  *)
(* leases neither lose it nor put it in two places, where two workers      *)
(* would fetch it at once (delivery.ts: activeLeaseOwnership               *)
(* "single-owner").                                                        *)
OnePlace ==
    mode = "up" =>
        \A r \in Requests :
            /\ Places(r) <= 1
            /\ r \notin known => Places(r) = 0
            /\ r \in known /\ r \notin done => Places(r) = 1

(* What a caller was told is in the journal and what is in the journal is  *)
(* known, but for the record being written: whenever the process dies, the *)
(* next one neither forgets an accepted request nor repeats a finished one *)
(* (delivery.ts: terminalState "idempotent").                              *)
InFlight == IF landed = "no" THEN {} ELSE {Head(pending).req}
JournalMatchesMemory ==
    ~damaged =>
        /\ acked \subseteq RecordedRequests(Parsed)
        /\ done \subseteq TerminalRequests(Parsed)
        /\ mode = "up" =>
              \/ tail # NoTail
              \/ /\ known \subseteq RecordedRequests(Parsed)
                 /\ RecordedRequests(Parsed) \subseteq known \cup InFlight
                 /\ TerminalRequests(Parsed) \subseteq done \cup InFlight

(* A later process can load the journal at any instant, a torn write       *)
(* included, as long as no request was taken over with an open lease and   *)
(* no record was spliced or refused after landing.                         *)
JournalValid ==
    ~damaged /\ inherited = {} => Parsable /\ ValidJournal(Parsed)

(* A worker's call returns: the two mutexes and the drain loop never wait  *)
(* for one another, whatever writes fail.                                  *)
CallsReturn == \A c \in Clients : Busy(c) ~> ~Busy(c)

(* Every run can be resumed from its journal after a crash                 *)
(* (docs/storage-and-operations.md:24: "Resume reconstructs scheduling     *)
(* reservations from durable requests, recovers expired leases, ...").     *)
AlwaysResumable == mode # "refused"

(* The refinement mapping to FrontierContract.                             *)
ContractStatus ==
    [r \in Requests |->
        IF r \notin RecordedRequests(Parsed) THEN "unknown"
        ELSE IF r \in TerminalRequests(Parsed) THEN "terminal"
        ELSE IF active[r] # NoTime THEN "in_progress" ELSE "pending"]
ContractWorking ==
    [c \in Clients |-> {lease[c].req} \cap (Requests \ TerminalRequests(Parsed))]
ContractHolds ==
    [c \in Clients |-> {r \in ContractWorking[c] : active[r] = lease[c].id}]

Contract == INSTANCE FrontierContract
                WITH status <- ContractStatus, working <- ContractWorking,
                     holds <- ContractHolds

(* Until a record is spliced or refused after landing, the backend         *)
(* implements the frontier contract through crashes and resumes.           *)
ImplementsContract ==
    /\ Contract!ContractInit
    /\ [][damaged' \/ Contract!ContractNext]_<<ContractStatus, ContractWorking, ContractHolds>>
=============================================================================
