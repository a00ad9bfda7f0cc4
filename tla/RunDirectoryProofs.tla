------------------------- MODULE RunDirectoryProofs -------------------------
(***************************************************************************)
(* Proofs about RunDirectory, for any processes, machines and mishaps.     *)
(*                                                                         *)
(* ExclusiveButWindows speaks of who has the frontier open.  Nothing in    *)
(* the code ties that to run.lock.json but the order of its calls, so the  *)
(* inductive invariant says it: as long as nothing went past the lock, the *)
(* file is that of whoever is filling it in or running (LockKept), and a   *)
(* lock that was judged inactive while fresh is that of a dead process     *)
(* (JudgedDead), which is why removing it by name harms nobody.            *)
(***************************************************************************)
EXTENDS RunDirectory, FiniteSetTheorems, TLAPS

Owns(p) == pc[p] \in {"running", "releasing", "removing"}

(* The lock is in the hands of whoever needs it.                           *)
LockKept ==
    ~slipped => \A p \in Procs : /\ pc[p] = "fill" => lock = Empty(p)
                                 /\ Owns(p) => lock = LockOf(p)
                                 /\ p \in using => Owns(p)

(* Only a process that started has put its name into the file.             *)
NamedStarted == lock.says # Nobody => pc[lock.says] # "off"

(* A fresh lock is judged inactive only if its process does not live.      *)
JudgedDead ==
    \A p \in Procs : (saw[p].says # Nobody /\ saw[p].fresh) => pc[saw[p].says] = "dead"

Inv == /\ TypeOK
       /\ LockKept
       /\ NamedStarted
       /\ JudgedDead

LEMMA InitInv == Init => Inv
<1> SUFFICES ASSUME Init PROVE Inv
  OBVIOUS
<1> USE DEF Init
<1>1. TypeOK
  BY DEF TypeOK, NoLock, Alive
<1>2. LockKept /\ NamedStarted /\ JudgedDead
  BY DEF LockKept, NamedStarted, JudgedDead, NoLock, Owns
<1>3. QED
  BY <1>1, <1>2 DEF Inv

------------------------------------------------------------------------------
(* One lemma per action.                                                   *)
LEMMA StartInv ==
    ASSUME Inv, NEW p \in Procs, Start(p)
    PROVE  Inv'
<1> USE DirectoryAssumption DEF DirectoryAssumption, Inv, Start, Goes, Slips, abortVars
<1>1. TypeOK'
  BY DEF TypeOK, Alive, NoLock, Empty, LockOf, Monitors
<1>2. LockKept'
  BY DEF TypeOK, LockKept, NamedStarted, JudgedDead, Owns, Alive, NoLock, Empty, LockOf
<1>3. NamedStarted'
  BY DEF TypeOK, NamedStarted, Alive, NoLock, Empty, LockOf
<1>4. JudgedDead'
  BY DEF TypeOK, NamedStarted, JudgedDead, isActive, Alive, NoLock, Empty, LockOf
<1>5. QED
  BY <1>1, <1>2, <1>3, <1>4

LEMMA CreateInv ==
    ASSUME Inv, NEW p \in Procs, Create(p)
    PROVE  Inv'
<1> USE DirectoryAssumption DEF DirectoryAssumption, Inv, Create, Refused, Goes, Slips, abortVars
<1>1. TypeOK'
  <2>1. pc[p] \in {"create", "recreate"} /\ p \notin using
    BY DEF TypeOK
  <2>2. CASE lock = NoLock
    <3>1. lock' = Empty(p) /\ pc' = [pc EXCEPT ![p] = "fill"]
      BY <2>2
    <3>2. lock' \in [by : Procs \cup {Nobody}, says : Procs \cup {Nobody}, fresh : BOOLEAN]
      BY <3>1 DEF Empty
    <3>3. QED
      BY <2>1, <3>1, <3>2 DEF TypeOK, Alive
  <2>3. CASE lock # NoLock
    BY <2>1, <2>3 DEF TypeOK, Alive
  <2>4. QED
    BY <2>2, <2>3
<1>2. LockKept'
  BY DEF TypeOK, LockKept, NamedStarted, JudgedDead, Owns, Alive, NoLock, Empty, LockOf
<1>3. NamedStarted'
  BY DEF TypeOK, NamedStarted, Alive, NoLock, Empty, LockOf
<1>4. JudgedDead'
  BY DEF TypeOK, NamedStarted, JudgedDead, isActive, Alive, NoLock, Empty, LockOf
<1>5. QED
  BY <1>1, <1>2, <1>3, <1>4

LEMMA FillInv ==
    ASSUME Inv, NEW p \in Procs, Fill(p)
    PROVE  Inv'
<1> USE DirectoryAssumption DEF DirectoryAssumption, Inv, Fill, Goes, Slips, abortVars
<1>1. TypeOK'
  BY DEF TypeOK, Alive, NoLock, Empty, LockOf, Monitors
<1>2. LockKept'
  <2> SUFFICES ASSUME ~slipped
               PROVE  LockKept'
    BY DEF LockKept
  <2>1. lock = Empty(p) /\ lock' = LockOf(p)
    BY DEF TypeOK, LockKept
  <2>2. \A q \in Procs \ {p} : pc[q] # "fill" /\ ~Owns(q) /\ q \notin using
    BY <2>1 DEF TypeOK, LockKept, Empty, LockOf
  <2>3. QED
    BY <2>1, <2>2 DEF TypeOK, LockKept, Owns
<1>3. NamedStarted'
  BY DEF TypeOK, NamedStarted, Alive, NoLock, Empty, LockOf
<1>4. JudgedDead'
  BY DEF TypeOK, NamedStarted, JudgedDead, isActive, Alive, NoLock, Empty, LockOf
<1>5. QED
  BY <1>1, <1>2, <1>3, <1>4

LEMMA JudgeInv ==
    ASSUME Inv, NEW p \in Procs, Judge(p)
    PROVE  Inv'
<1> USE DirectoryAssumption DEF DirectoryAssumption, Inv, Judge, Refused, Goes, Slips, abortVars
<1>1. TypeOK'
  BY DEF TypeOK, Alive, NoLock, Empty, LockOf, Monitors
<1>2. LockKept'
  BY DEF TypeOK, LockKept, NamedStarted, JudgedDead, Owns, Alive, NoLock, Empty, LockOf
<1>3. NamedStarted'
  BY DEF TypeOK, NamedStarted, Alive, NoLock, Empty, LockOf
<1>4. JudgedDead'
  BY DEF TypeOK, NamedStarted, JudgedDead, isActive, Alive, NoLock, Empty, LockOf
<1>5. QED
  BY <1>1, <1>2, <1>3, <1>4

(* A lock that is in use is not the one that was judged, or is gone past.  *)
LEMMA RemoveInv ==
    ASSUME Inv, NEW p \in Procs, Remove(p)
    PROVE  Inv'
<1> USE DirectoryAssumption DEF DirectoryAssumption, Inv, Remove, Goes, Slips, abortVars
<1>1. TypeOK'
  BY DEF TypeOK, Alive, NoLock, Empty, LockOf, Monitors
<1>2. LockKept'
  BY DEF TypeOK, LockKept, NamedStarted, JudgedDead, Owns, Alive, NoLock, Empty, LockOf
<1>3. NamedStarted'
  BY DEF TypeOK, NamedStarted, Alive, NoLock, Empty, LockOf
<1>4. JudgedDead'
  BY DEF TypeOK, NamedStarted, JudgedDead, isActive, Alive, NoLock, Empty, LockOf
<1>5. QED
  BY <1>1, <1>2, <1>3, <1>4

LEMMA HeartbeatInv ==
    ASSUME Inv, NEW p \in Procs, Heartbeat(p)
    PROVE  Inv'
<1> USE DirectoryAssumption DEF DirectoryAssumption, Inv, Heartbeat, Goes, Slips, abortVars
<1>1. TypeOK'
  BY DEF TypeOK, Alive, NoLock, Empty, LockOf, Monitors
<1>2. LockKept'
  BY DEF TypeOK, LockKept, NamedStarted, JudgedDead, Owns, Alive, NoLock, Empty, LockOf
<1>3. NamedStarted'
  BY DEF TypeOK, NamedStarted, Alive, NoLock, Empty, LockOf
<1>4. JudgedDead'
  BY DEF TypeOK, NamedStarted, JudgedDead, isActive, Alive, NoLock, Empty, LockOf
<1>5. QED
  BY <1>1, <1>2, <1>3, <1>4

(* A heartbeat that finds its own name writes what was there.              *)
LEMMA HeartbeatWritesInv ==
    ASSUME Inv, NEW p \in Procs, HeartbeatWrites(p)
    PROVE  Inv'
<1> USE DirectoryAssumption DEF DirectoryAssumption, Inv, HeartbeatWrites, Goes, Slips, abortVars
<1>1. TypeOK'
  BY DEF TypeOK, Alive, NoLock, Empty, LockOf, Monitors
<1>2. LockKept'
  <2> SUFFICES ASSUME ~slipped, lock.says = p
               PROVE  LockKept'
    BY DEF LockKept, TypeOK
  <2>1. p \in Procs /\ lock' = LockOf(p)
    BY DEF TypeOK
  <2>2. \A q \in Procs : pc[q] # "fill" /\ (q # p => ~Owns(q))
    BY <2>1 DEF LockKept, Empty, LockOf
  <2>3. QED
    BY <2>1, <2>2 DEF LockKept, Owns
<1>3. NamedStarted'
  BY DEF TypeOK, NamedStarted, Alive, NoLock, Empty, LockOf
<1>4. JudgedDead'
  BY DEF TypeOK, NamedStarted, JudgedDead, isActive, Alive, NoLock, Empty, LockOf
<1>5. QED
  BY <1>1, <1>2, <1>3, <1>4

LEMMA FinishesInv ==
    ASSUME Inv, NEW p \in Procs, Finishes(p)
    PROVE  Inv'
<1> USE DirectoryAssumption DEF DirectoryAssumption, Inv, Finishes, Goes, Slips, abortVars
<1>1. TypeOK'
  BY DEF TypeOK, Alive, NoLock, Empty, LockOf, Monitors
<1>2. LockKept'
  BY DEF TypeOK, LockKept, NamedStarted, JudgedDead, Owns, Alive, NoLock, Empty, LockOf
<1>3. NamedStarted'
  BY DEF TypeOK, NamedStarted, Alive, NoLock, Empty, LockOf
<1>4. JudgedDead'
  BY DEF TypeOK, NamedStarted, JudgedDead, isActive, Alive, NoLock, Empty, LockOf
<1>5. QED
  BY <1>1, <1>2, <1>3, <1>4

LEMMA CloseBackendInv ==
    ASSUME Inv, NEW p \in Procs, CloseBackend(p)
    PROVE  Inv'
<1> USE DirectoryAssumption DEF DirectoryAssumption, Inv, CloseBackend, Goes, Slips, abortVars
<1>1. TypeOK'
  BY DEF TypeOK, Alive, NoLock, Empty, LockOf, Monitors
<1>2. LockKept'
  BY DEF TypeOK, LockKept, NamedStarted, JudgedDead, Owns, Alive, NoLock, Empty, LockOf
<1>3. NamedStarted'
  BY DEF TypeOK, NamedStarted, Alive, NoLock, Empty, LockOf
<1>4. JudgedDead'
  BY DEF TypeOK, NamedStarted, JudgedDead, isActive, Alive, NoLock, Empty, LockOf
<1>5. QED
  BY <1>1, <1>2, <1>3, <1>4

LEMMA ReleaseReadsInv ==
    ASSUME Inv, NEW p \in Procs, ReleaseReads(p)
    PROVE  Inv'
<1> USE DirectoryAssumption DEF DirectoryAssumption, Inv, ReleaseReads, Goes, Slips, abortVars
<1>1. TypeOK'
  BY DEF TypeOK, Alive, NoLock, Empty, LockOf, Monitors
<1>2. LockKept'
  BY DEF TypeOK, LockKept, NamedStarted, JudgedDead, Owns, Alive, NoLock, Empty, LockOf
<1>3. NamedStarted'
  BY DEF TypeOK, NamedStarted, Alive, NoLock, Empty, LockOf
<1>4. JudgedDead'
  BY DEF TypeOK, NamedStarted, JudgedDead, isActive, Alive, NoLock, Empty, LockOf
<1>5. QED
  BY <1>1, <1>2, <1>3, <1>4

(* Whoever removes its lock has closed the backend, or goes past it.       *)
LEMMA ReleaseRemovesInv ==
    ASSUME Inv, NEW p \in Procs, ReleaseRemoves(p)
    PROVE  Inv'
<1> USE DirectoryAssumption DEF DirectoryAssumption, Inv, ReleaseRemoves, Goes, Slips, abortVars
<1>1. TypeOK'
  BY DEF TypeOK, Alive, NoLock, Empty, LockOf, Monitors
<1>2. LockKept'
  BY DEF TypeOK, LockKept, NamedStarted, JudgedDead, Owns, Alive, NoLock, Empty, LockOf
<1>3. NamedStarted'
  BY DEF TypeOK, NamedStarted, Alive, NoLock, Empty, LockOf
<1>4. JudgedDead'
  BY DEF TypeOK, NamedStarted, JudgedDead, isActive, Alive, NoLock, Empty, LockOf
<1>5. QED
  BY <1>1, <1>2, <1>3, <1>4

LEMMA DieInv ==
    ASSUME Inv, NEW p \in Procs, Die(p)
    PROVE  Inv'
<1> USE DirectoryAssumption DEF DirectoryAssumption, Inv, Die, Goes, Slips, abortVars
<1>1. TypeOK'
  BY DEF TypeOK, Alive, NoLock, Empty, LockOf, Monitors
<1>2. LockKept'
  BY DEF TypeOK, LockKept, NamedStarted, JudgedDead, Owns, Alive, NoLock, Empty, LockOf
<1>3. NamedStarted'
  BY DEF TypeOK, NamedStarted, Alive, NoLock, Empty, LockOf
<1>4. JudgedDead'
  BY DEF TypeOK, NamedStarted, JudgedDead, isActive, Alive, NoLock, Empty, LockOf
<1>5. QED
  BY <1>1, <1>2, <1>3, <1>4

LEMMA ExpiresInv ==
    ASSUME Inv, Expires
    PROVE  Inv'
<1> USE DirectoryAssumption DEF DirectoryAssumption, Inv, Expires, Goes, Slips, abortVars
<1>1. TypeOK'
  BY DEF TypeOK, Alive, NoLock, Empty, LockOf, Monitors
<1>2. LockKept'
  BY DEF TypeOK, LockKept, NamedStarted, JudgedDead, Owns, Alive, NoLock, Empty, LockOf
<1>3. NamedStarted'
  BY DEF TypeOK, NamedStarted, Alive, NoLock, Empty, LockOf
<1>4. JudgedDead'
  BY DEF TypeOK, NamedStarted, JudgedDead, isActive, Alive, NoLock, Empty, LockOf
<1>5. QED
  BY <1>1, <1>2, <1>3, <1>4

LEMMA StallsInv ==
    ASSUME Inv, Stalls
    PROVE  Inv'
<1> USE DirectoryAssumption DEF DirectoryAssumption, Inv, Stalls, Goes, Slips, abortVars
<1>1. TypeOK'
  BY DEF TypeOK, Alive, NoLock, Empty, LockOf, Monitors
<1>2. LockKept'
  BY DEF TypeOK, LockKept, NamedStarted, JudgedDead, Owns, Alive, NoLock, Empty, LockOf
<1>3. NamedStarted'
  BY DEF TypeOK, NamedStarted, Alive, NoLock, Empty, LockOf
<1>4. JudgedDead'
  BY DEF TypeOK, NamedStarted, JudgedDead, isActive, Alive, NoLock, Empty, LockOf
<1>5. QED
  BY <1>1, <1>2, <1>3, <1>4

LEMMA requestRunAbortInv ==
    ASSUME Inv, requestRunAbort
    PROVE  Inv'
<1> USE DirectoryAssumption DEF DirectoryAssumption, Inv, requestRunAbort, Goes, Slips, abortVars
<1>1. TypeOK'
  BY DEF TypeOK, Alive, NoLock, Empty, LockOf, Monitors
<1>2. LockKept'
  BY DEF TypeOK, LockKept, NamedStarted, JudgedDead, Owns, Alive, NoLock, Empty, LockOf
<1>3. NamedStarted'
  BY DEF TypeOK, NamedStarted, Alive, NoLock, Empty, LockOf
<1>4. JudgedDead'
  BY DEF TypeOK, NamedStarted, JudgedDead, isActive, Alive, NoLock, Empty, LockOf
<1>5. QED
  BY <1>1, <1>2, <1>3, <1>4

LEMMA PollInv ==
    ASSUME Inv, Poll
    PROVE  Inv'
<1> USE DirectoryAssumption DEF DirectoryAssumption, Inv, Poll, Goes, Slips, abortVars
<1>1. TypeOK'
  BY DEF TypeOK, Alive, NoLock, Empty, LockOf, Monitors
<1>2. LockKept'
  BY DEF TypeOK, LockKept, NamedStarted, JudgedDead, Owns, Alive, NoLock, Empty, LockOf
<1>3. NamedStarted'
  BY DEF TypeOK, NamedStarted, Alive, NoLock, Empty, LockOf
<1>4. JudgedDead'
  BY DEF TypeOK, NamedStarted, JudgedDead, isActive, Alive, NoLock, Empty, LockOf
<1>5. QED
  BY <1>1, <1>2, <1>3, <1>4

------------------------------------------------------------------------------
LEMMA StepInv ==
    ASSUME Inv, [Next]_vars
    PROVE  Inv'
<1>1. CASE UNCHANGED vars
  BY <1>1 DEF Inv, TypeOK, LockKept, NamedStarted, JudgedDead, Owns, Alive, vars, Empty, LockOf
<1>2. ASSUME NEW p \in Procs, Acquire(p) \/ Heartbeat(p) \/ HeartbeatWrites(p)
                               \/ Finishes(p) \/ Close(p) \/ Die(p)
      PROVE  Inv'
  BY <1>2, StartInv, CreateInv, FillInv, JudgeInv, RemoveInv, HeartbeatInv, HeartbeatWritesInv,
     FinishesInv, CloseBackendInv, ReleaseReadsInv, ReleaseRemovesInv, DieInv DEF Acquire, Close
<1>3. CASE Expires \/ Stalls \/ requestRunAbort \/ Poll
  BY <1>3, ExpiresInv, StallsInv, requestRunAbortInv, PollInv
<1>4. QED
  BY <1>1, <1>2, <1>3 DEF Next

THEOREM Invariance == Spec => []Inv
<1>1. Init => Inv
  BY InitInv
<1>2. Inv /\ [Next]_vars => Inv'
  BY StepInv
<1>3. QED
  BY <1>1, <1>2, PTL DEF Spec

(* The variables hold what the files and the processes can hold; only a    *)
(* process that lives has a heartbeat under way, and only one that has     *)
(* acquired the lock has the frontier open.                                *)
THEOREM TypeCorrect == Spec => []TypeOK
<1>1. Inv => TypeOK
  BY DEF Inv
<1>2. QED
  BY <1>1, Invariance, PTL

(* Two processes have the frontier open only if something went past the    *)
(* lock, by one of the five windows: RunLock.acquire and Frontier.close    *)
(* let through no other, however many processes and machines there are.    *)
THEOREM ExclusiveButWindowsHolds == Spec => []ExclusiveButWindows
<1>1. Inv => ExclusiveButWindows
  <2> SUFFICES ASSUME Inv, ~slipped, NEW p \in using
               PROVE  Cardinality(using) = 1
    <3>1. using = {} => Cardinality(using) = 0
      BY FS_EmptySet
    <3>2. QED
      BY <3>1 DEF ExclusiveButWindows
  <2>1. \A q \in using : q \in Procs /\ lock = LockOf(q)
    BY DEF Inv, TypeOK, LockKept
  <2>2. \A q \in using : q = p
    BY <2>1 DEF LockOf
  <2>3. using = {p}
    BY <2>2
  <2>4. QED
    BY <2>3, FS_Singleton
<1>2. QED
  BY <1>1, Invariance, PTL
=============================================================================
