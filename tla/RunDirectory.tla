---------------------------- MODULE RunDirectory ----------------------------
(* One run directory that several processes open, as a resume does: the lock *)
(* file (RunLock), the request to abort (requestRunAbort and its monitor) and *)
(* the frontier, which the lock is to keep for one process. A step is one    *)
(* call on the file system. A process opens the directory once; what comes   *)
(* back after a crash is another process.                                    *)
EXTENDS Integers, FiniteSets

CONSTANTS
    Procs,
    Host,          \* of a process: the machine it runs on
    Nobody,
    MaxMishaps     \* bound: processes that die or are suspended

ASSUME DirectoryAssumption ==
    /\ Nobody \notin Procs
    /\ MaxMishaps \in Nat

VARIABLES
    pc,        \* of a process: where it is
    saw,       \* of a process: the lock it judged
    beat,      \* the processes whose heartbeat has read the lock and not written it
    using,     \* the processes that have the frontier open
    lock,      \* run.lock.json
    request,   \* abort.request.json: "none", or for whom it is, "run" or "any"
    aborted,   \* the processes that were told to abort and still run
    slipped,   \* something has gone past the lock (history)
    mishaps    \* what is left of the bound

vars == <<pc, saw, beat, using, lock, request, aborted, slipped, mishaps>>
abortVars == <<request, aborted>>

NoLock == [by |-> Nobody, says |-> Nobody, fresh |-> FALSE]
Empty(p) == [by |-> p, says |-> Nobody, fresh |-> TRUE]
LockOf(p) == [by |-> p, says |-> p, fresh |-> TRUE]
Alive(p) == pc[p] \notin {"off", "dead"}

TypeOK ==
    /\ pc \in [Procs -> {"off", "create", "fill", "judge", "remove", "recreate", "running",
                         "releasing", "removing", "closed", "dead"}]
    /\ using \subseteq {p \in Procs : pc[p] \in {"running", "releasing", "removing", "closed"}}
    /\ lock \in [by : Procs \cup {Nobody}, says : Procs \cup {Nobody}, fresh : BOOLEAN]
    /\ saw \in [Procs -> [by : Procs \cup {Nobody}, says : Procs \cup {Nobody}, fresh : BOOLEAN]]
    /\ request \in {"none", "run", "any"}
    /\ beat \subseteq {p \in Procs : Alive(p)} /\ aborted \subseteq Procs
    /\ slipped \in BOOLEAN

Init ==
    /\ pc = [p \in Procs |-> "off"] /\ saw = [p \in Procs |-> NoLock]
    /\ beat = {} /\ using = {} /\ lock = NoLock
    /\ request = "none" /\ aborted = {}
    /\ slipped = FALSE
    /\ mishaps = MaxMishaps

Goes(p, where) == pc' = [pc EXCEPT ![p] = where]
Slips(how) == slipped' = (slipped \/ how)

\* A process that is refused the lock ends, and its monitor with it.
Refused(p) == Goes(p, "closed") /\ aborted' = aborted \ {p}

------------------------------------------------------------------------------
(* RunLock.acquire. *)

\* CrawlerRuntime.run: the store is opened and the manifest written before the lock is taken.
Start(p) ==
    /\ pc[p] = "off"
    /\ Goes(p, "create")
    /\ UNCHANGED <<saw, beat, using, lock, abortVars, slipped, mishaps>>

\* Mutant: a second process that finds the directory locked has opened the backend already.
CreateOpen(p) ==
    /\ pc[p] \in {"create", "recreate"}
    /\ IF lock = NoLock
       THEN lock' = Empty(p) /\ Goes(p, "fill") /\ UNCHANGED aborted
       ELSE /\ UNCHANGED lock
            /\ IF pc[p] = "create" THEN Goes(p, "judge") /\ UNCHANGED aborted ELSE Refused(p)
    /\ using' = using \cup {p}
    /\ UNCHANGED <<saw, beat, request, slipped, mishaps>>

\* open with "wx". The second attempt fails for good if another process was faster.
Create(p) ==
    /\ pc[p] \in {"create", "recreate"}
    /\ IF lock = NoLock
       THEN lock' = Empty(p) /\ Goes(p, "fill") /\ UNCHANGED aborted
       ELSE /\ UNCHANGED lock
            /\ IF pc[p] = "create" THEN Goes(p, "judge") /\ UNCHANGED aborted ELSE Refused(p)
    /\ UNCHANGED <<saw, beat, using, request, slipped, mishaps>>

\* The record goes into the file this process created, which may not be there any more.
\* Frontier.init goes on to open the backend.
Fill(p) ==
    /\ pc[p] = "fill"
    /\ lock' = IF lock = Empty(p) THEN LockOf(p) ELSE lock
    /\ Goes(p, "running")
    /\ using' = using \cup {p}
    /\ UNCHANGED <<saw, beat, abortVars, slipped, mishaps>>

\* Mutant: a process of another machine is looked for on this one.
isActiveHere(record, host) ==
    /\ record.says # Nobody /\ record.fresh
    /\ Host[record.says] = host /\ Alive(record.says)

\* Mutant: the age of the heartbeat is forgotten.
isActiveEver(record, host) ==
    /\ record.says # Nobody
    /\ Host[record.says] # host \/ Alive(record.says)

\* A process of another machine cannot be asked whether it lives.
isActive(record, host) ==
    /\ record.says # Nobody /\ record.fresh
    /\ Host[record.says] # host \/ Alive(record.says)

Judge(p) ==
    /\ pc[p] = "judge"
    /\ IF isActive(lock, Host[p])
       THEN Refused(p) /\ UNCHANGED saw
       ELSE Goes(p, "remove") /\ saw' = [saw EXCEPT ![p] = lock] /\ UNCHANGED aborted
    /\ UNCHANGED <<beat, using, lock, request, slipped, mishaps>>

\* The file is removed by name. It may be empty because its writer is not there yet, or not the one judged.
Remove(p) ==
    /\ pc[p] = "remove"
    /\ lock' = NoLock
    /\ Goes(p, "recreate")
    /\ Slips(lock # NoLock /\ (lock # saw[p] \/ (lock.says = Nobody /\ pc[lock.by] = "fill")))
    /\ saw' = [saw EXCEPT ![p] = NoLock]
    /\ UNCHANGED <<beat, using, abortVars, mishaps>>

------------------------------------------------------------------------------
(* RunLock.writeHeartbeat: read, and write what was read. *)

Heartbeat(p) ==
    /\ pc[p] = "running" /\ p \notin beat
    /\ lock.says = p
    /\ beat' = beat \cup {p}
    /\ UNCHANGED <<pc, saw, using, lock, abortVars, slipped, mishaps>>

\* The file is replaced, whatever it is by now.
HeartbeatWrites(p) ==
    /\ p \in beat
    /\ beat' = beat \ {p}
    /\ lock' = LockOf(p)
    /\ Slips(lock.says # p)
    /\ UNCHANGED <<pc, saw, using, abortVars, mishaps>>

\* Time passes: staleMs since the heartbeat of a process that writes none any more,
Expires ==
    /\ lock.says # Nobody /\ lock.fresh
    /\ pc[lock.says] \in {"closed", "dead"} /\ lock.says \notin beat
    /\ lock' = [lock EXCEPT !.fresh = FALSE]
    /\ UNCHANGED <<pc, saw, beat, using, abortVars, slipped, mishaps>>

\* or of one that is suspended.
Stalls ==
    /\ lock.says # Nobody /\ lock.fresh /\ Alive(lock.says) /\ mishaps > 0
    /\ lock' = [lock EXCEPT !.fresh = FALSE]
    /\ mishaps' = mishaps - 1
    /\ Slips(TRUE)
    /\ UNCHANGED <<pc, saw, beat, using, abortVars>>

------------------------------------------------------------------------------
(* The end: Frontier.close closes the backend and releases the lock at the   *)
(* same time. The last records and the manifest are written after that.      *)

\* The frontier is empty, a limit is reached, the run is aborted.
Finishes(p) ==
    /\ pc[p] = "running"
    /\ Goes(p, "releasing")
    /\ aborted' = aborted \ {p}
    /\ UNCHANGED <<saw, beat, using, lock, request, slipped, mishaps>>

CloseBackend(p) ==
    /\ pc[p] \in {"releasing", "removing", "closed"} /\ p \in using
    /\ using' = using \ {p}
    /\ UNCHANGED <<pc, saw, beat, lock, abortVars, slipped, mishaps>>

\* RunLock.release: read,
ReleaseReads(p) ==
    /\ pc[p] = "releasing"
    /\ Goes(p, IF lock.says = p THEN "removing" ELSE "closed")
    /\ UNCHANGED <<saw, beat, using, lock, abortVars, slipped, mishaps>>

\* and remove.
ReleaseRemoves(p) ==
    /\ pc[p] = "removing"
    /\ lock' = NoLock
    /\ Goes(p, "closed")
    /\ Slips(p \in using \/ (lock # NoLock /\ lock.says # p))
    /\ UNCHANGED <<saw, beat, using, abortVars, mishaps>>

Die(p) ==
    /\ Alive(p) /\ mishaps > 0
    /\ Goes(p, "dead")
    /\ beat' = beat \ {p} /\ using' = using \ {p}
    /\ saw' = [saw EXCEPT ![p] = NoLock]
    /\ aborted' = aborted \ {p}
    /\ mishaps' = mishaps - 1
    /\ UNCHANGED <<lock, request, slipped>>

------------------------------------------------------------------------------
(* The request to abort. *)

\* It names the run if there is a manifest to read its name from, and replaces a request that nobody took.
requestRunAbort ==
    /\ request' = IF \A p \in Procs : pc[p] = "off" THEN "any" ELSE "run"
    /\ UNCHANGED <<pc, saw, beat, using, lock, aborted, slipped, mishaps>>

\* A monitor runs from the opening of the store to the end of the run.
Monitors == {p \in Procs : pc[p] \in {"create", "fill", "judge", "remove", "recreate", "running"}}

\* Mutant: a request that names no run is removed and forgotten.
PollNamed ==
    /\ request # "none"
    /\ \E readers \in SUBSET Monitors \ {{}} : aborted' = IF request = "run" THEN aborted \cup readers ELSE aborted
    /\ request' = "none"
    /\ UNCHANGED <<pc, saw, beat, using, lock, slipped, mishaps>>

\* All who have read the request before one of them removed it abort.
Poll ==
    /\ request # "none"
    /\ \E readers \in SUBSET Monitors \ {{}} : aborted' = aborted \cup readers
    /\ request' = "none"
    /\ UNCHANGED <<pc, saw, beat, using, lock, slipped, mishaps>>

Acquire(p) == Start(p) \/ Create(p) \/ Fill(p) \/ Judge(p) \/ Remove(p)
Close(p) == CloseBackend(p) \/ ReleaseReads(p) \/ ReleaseRemoves(p)

Next ==
    \/ \E p \in Procs : \/ Acquire(p) \/ Heartbeat(p) \/ HeartbeatWrites(p)
                        \/ Finishes(p) \/ Close(p) \/ Die(p)
    \/ Expires \/ Stalls \/ requestRunAbort \/ Poll

Spec == Init /\ [][Next]_vars

(* Calls return and timers fire while a process lives; a run need not end    *)
(* unless it is aborted, and time passes.                                    *)
FairSpec ==
    /\ Spec
    /\ \A p \in Procs : /\ WF_vars(Acquire(p) \/ HeartbeatWrites(p) \/ Close(p))
                        /\ WF_vars(Finishes(p) /\ p \in aborted)
    /\ WF_vars(Expires) /\ WF_vars(Poll)

------------------------------------------------------------------------------
(* Run directory ownership is exclusive (tests/frontier-concurrency.test.mjs *)
(* :150), but for five windows: an empty lock that its creator has yet to    *)
(* fill is removed; a lock other than the one that was judged is removed; a  *)
(* heartbeat puts back a lock that was given up; a process is suspended for  *)
(* longer than staleMs; the lock is released before the backend is closed.   *)
ExclusiveButWindows == Cardinality(using) > 1 => slipped

(* A lock never outlives its owner for good, wherever it ran: again and      *)
(* again somebody uses the directory or whoever comes may have it            *)
(* (RunLock.isActive).                                                       *)
DirectoryFreed == []<>(using # {} \/ \A p \in Procs : ~isActive(lock, Host[p]))

Running == \E p \in Procs : pc[p] = "running"

(* A request to abort reaches a process: it does not stay while runs go on,  *)
(* and is not lost. Another process that has the directory open may be the   *)
(* one that takes it (AbortRequestMonitor.poll).                             *)
AbortHeard == (request # "none" /\ Running) ~> (aborted # {} \/ ~Running)
=============================================================================
