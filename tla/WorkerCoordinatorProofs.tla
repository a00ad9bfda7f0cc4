---------------------- MODULE WorkerCoordinatorProofs ----------------------
(***************************************************************************)
(* Proofs about WorkerCoordinator, for any workers and origins, any        *)
(* durations and any maxConcurrency.                                       *)
(*                                                                         *)
(* OwnershipBounded speaks of what processes believe, acquireOrigin() of   *)
(* rows.  The inductive invariant bounds the rows (a lapsed one counts     *)
(* until it is deleted, since renewOrigin() may revive it), ties each      *)
(* punctual belief to its row (PermitHonoured), and, for that, says that   *)
(* a permit which recoverStale() may take is forfeit.  PermitsSpaced rests *)
(* on origin_state, which outlives every permit (DelaysRemembered).        *)
(***************************************************************************)
EXTENDS WorkerCoordinator, FiniteSetTheorems, TLAPS

RowsBounded ==
    \A o \in Origins : /\ IsFiniteSet(PermitsOf(expiresAt, o))
                       /\ Cardinality(PermitsOf(expiresAt, o)) <= MaxConcurrency

(* What recoverStale() may take away now, its holder forfeited.            *)
ForfeitsKnown ==
    \A p \in Permit : held[p] # 0 /\ Late(p.worker, now) => p \in forfeit

(* origin_state remembers the latest permit of its origin, held or not.    *)
DelaysRemembered ==
    \A o \in Origins : taken[o].last # 0 => taken[o].last + MinDelay <= nextAllowed[o]

Inv == /\ TypeOK
       /\ RowsBounded
       /\ ForfeitsKnown
       /\ PermitHonoured
       /\ DelaysRemembered
       /\ PermitsSpaced

(* Deleting permits keeps the bound.                                       *)
LEMMA FewerRows ==
    ASSUME RowsBounded, OptionsAssumption,
           \A p \in Permit : expiresAt'[p] # 0 => expiresAt[p] # 0
    PROVE  RowsBounded'
<1> SUFFICES ASSUME NEW o \in Origins
             PROVE  /\ IsFiniteSet(PermitsOf(expiresAt', o))
                    /\ Cardinality(PermitsOf(expiresAt', o)) <= MaxConcurrency
  BY DEF RowsBounded, PermitsOf
<1>1. PermitsOf(expiresAt', o) \in SUBSET PermitsOf(expiresAt, o)
  BY DEF PermitsOf
<1>2. /\ IsFiniteSet(PermitsOf(expiresAt, o))
      /\ Cardinality(PermitsOf(expiresAt, o)) <= MaxConcurrency
  BY DEF RowsBounded
<1>3. /\ IsFiniteSet(PermitsOf(expiresAt', o))
      /\ Cardinality(PermitsOf(expiresAt', o)) <= Cardinality(PermitsOf(expiresAt, o))
  BY <1>1, <1>2, FS_Subset
<1>4. /\ Cardinality(PermitsOf(expiresAt', o)) \in Nat
      /\ Cardinality(PermitsOf(expiresAt, o)) \in Nat
  BY <1>2, <1>3, FS_CardinalityType
<1>5. QED
  BY <1>2, <1>3, <1>4 DEF OptionsAssumption

LEMMA TimeFacts ==
    ASSUME TypeOK
    PROVE  /\ now \in Times /\ now + LeaseDuration \in Times /\ 0 \in Times
           /\ now + MinDelay \in 0..(MaxTime + MinDelay)
           /\ now + LeaseDuration # 0 /\ now \in 0..MaxTime
  BY OptionsAssumption DEF TypeOK, Times, OptionsAssumption

LEMMA InitInv == Init => Inv
<1> SUFFICES ASSUME Init PROVE Inv
  OBVIOUS
<1>1. TypeOK
  BY OptionsAssumption
  DEF Init, TypeOK, OptionsAssumption, SessionState, WorkerStatus, Times
<1>2. RowsBounded
  <2>1. \A o \in Origins : PermitsOf(expiresAt, o) = {}
    BY DEF Init, PermitsOf
  <2>2. QED
    BY <2>1, FS_EmptySet, OptionsAssumption DEF RowsBounded, OptionsAssumption
<1>3. ForfeitsKnown
  BY DEF Init, ForfeitsKnown
<1>4. PermitHonoured /\ DelaysRemembered /\ PermitsSpaced
  BY DEF Init, PermitHonoured, Punctual, DelaysRemembered, PermitsSpaced
<1>5. QED
  BY <1>1, <1>2, <1>3, <1>4 DEF Inv

LEMMA StartInv ==
    ASSUME Inv, NEW w \in Workers, Start(w)
    PROVE  Inv'
<1> USE DEF Inv
<1>1. TypeOK'
  BY TimeFacts DEF TypeOK, Start, SessionState, WorkerStatus, history
<1>2. RowsBounded'
  BY FewerRows, OptionsAssumption DEF Start
<1>3. ForfeitsKnown'
  BY OptionsAssumption DEF ForfeitsKnown, Late, Start, TypeOK, OptionsAssumption, Permit, history
<1>4. PermitHonoured'
  BY DEF PermitHonoured, Punctual, Start, history
<1>5. DelaysRemembered' /\ PermitsSpaced'
  BY DEF DelaysRemembered, PermitsSpaced, Start, history
<1>6. QED
  BY <1>1, <1>2, <1>3, <1>4, <1>5

LEMMA HeartbeatInv ==
    ASSUME Inv, NEW w \in Workers, Heartbeat(w)
    PROVE  Inv'
<1> USE DEF Inv
<1>1. TypeOK'
  BY TimeFacts DEF TypeOK, Heartbeat, WorkerStatus, history
<1>2. RowsBounded'
  BY FewerRows, OptionsAssumption DEF Heartbeat
<1>3. ForfeitsKnown'
  BY OptionsAssumption DEF ForfeitsKnown, Late, Heartbeat, TypeOK, OptionsAssumption, Permit, history
<1>4. PermitHonoured'
  BY DEF PermitHonoured, Punctual, Heartbeat, history
<1>5. DelaysRemembered' /\ PermitsSpaced'
  BY DEF DelaysRemembered, PermitsSpaced, Heartbeat, history
<1>6. QED
  BY <1>1, <1>2, <1>3, <1>4, <1>5

LEMMA StopInv ==
    ASSUME Inv, NEW w \in Workers, Stop(w)
    PROVE  Inv'
<1> USE DEF Inv
<1>0. \A p \in Permit : expiresAt'[p] = IF p.worker = w THEN 0 ELSE expiresAt[p]
  BY DEF Stop, DroppedFrom
<1>1. TypeOK'
  BY TimeFacts DEF TypeOK, Stop, SessionState, WorkerStatus, DroppedFrom
<1>2. RowsBounded'
  BY <1>0, FewerRows, OptionsAssumption
<1>3. ForfeitsKnown'
  BY DEF ForfeitsKnown, Late, Stop, TypeOK
<1>4. PermitHonoured'
  BY <1>0 DEF PermitHonoured, Punctual, Stop, TypeOK, Times
<1>5. DelaysRemembered' /\ PermitsSpaced'
  BY DEF DelaysRemembered, PermitsSpaced, Stop
<1>6. QED
  BY <1>1, <1>2, <1>3, <1>4, <1>5

LEMMA RecoverStaleInv ==
    ASSUME Inv, RecoverStale
    PROVE  Inv'
<1> USE DEF Inv
<1> DEFINE stale == {w \in Workers : Late(w, now)}
<1>0. /\ \A p \in Permit : expiresAt'[p] = IF p.worker \in stale THEN 0 ELSE expiresAt[p]
      /\ \A w \in Workers : status'[w] = IF w \in stale THEN "stale" ELSE status[w]
  BY DEF RecoverStale
<1>1. TypeOK'
  BY TimeFacts DEF TypeOK, RecoverStale, WorkerStatus, history
<1>2. RowsBounded'
  BY <1>0, FewerRows, OptionsAssumption
<1>3. ForfeitsKnown'
  BY <1>0 DEF ForfeitsKnown, Late, RecoverStale, Permit, history
<1>4. PermitHonoured'
  BY <1>0 DEF PermitHonoured, Punctual, ForfeitsKnown, RecoverStale, TypeOK, Times, history
<1>5. DelaysRemembered' /\ PermitsSpaced'
  BY DEF DelaysRemembered, PermitsSpaced, RecoverStale, history
<1>6. QED
  BY <1>1, <1>2, <1>3, <1>4, <1>5

LEMMA CrashInv ==
    ASSUME Inv, NEW w \in Workers, Crash(w)
    PROVE  Inv'
<1> USE DEF Inv
<1>0. \A p \in Permit : held'[p] = IF p.worker = w THEN 0 ELSE held[p]
  BY DEF Crash, DroppedFrom
<1>1. TypeOK'
  BY TimeFacts DEF TypeOK, Crash, SessionState, DroppedFrom
<1>2. RowsBounded'
  BY FewerRows, OptionsAssumption DEF Crash
<1>3. ForfeitsKnown'
  BY <1>0 DEF ForfeitsKnown, Late, Crash
<1>4. PermitHonoured'
  BY <1>0, TimeFacts DEF PermitHonoured, Punctual, Crash, TypeOK
<1>5. DelaysRemembered' /\ PermitsSpaced'
  BY DEF DelaysRemembered, PermitsSpaced, Crash
<1>6. QED
  BY <1>1, <1>2, <1>3, <1>4, <1>5

(* DELETE ... WHERE expires_at <= now leaves the rows that have not lapsed *)
(* as they are.                                                            *)
LEMMA LapsedDeleted ==
    ASSUME TypeOK
    PROVE  /\ WithoutLapsed(expiresAt) \in [Permit -> Times]
           /\ \A p \in Permit :
                WithoutLapsed(expiresAt)[p] = IF expiresAt[p] <= now THEN 0 ELSE expiresAt[p]
           /\ \A o \in Origins :
                Active(WithoutLapsed(expiresAt), o) = PermitsOf(WithoutLapsed(expiresAt), o)
<1>1. \A p \in Permit :
         WithoutLapsed(expiresAt)[p] = IF expiresAt[p] <= now THEN 0 ELSE expiresAt[p]
  BY DEF WithoutLapsed
<1>2. WithoutLapsed(expiresAt) \in [Permit -> Times]
  BY TimeFacts DEF WithoutLapsed, TypeOK
<1>3. ASSUME NEW p \in Permit, WithoutLapsed(expiresAt)[p] # 0
      PROVE  WithoutLapsed(expiresAt)[p] > now
  BY <1>1, <1>3 DEF TypeOK, Times
<1>4. QED
  BY <1>1, <1>2, <1>3 DEF Active, PermitsOf

LEMMA AcquireOriginInv ==
    ASSUME Inv, NEW w \in Workers, NEW o \in Origins, AcquireOrigin(w, o)
    PROVE  Inv'
<1> USE DEF Inv
<1> DEFINE table == WithoutLapsed(expiresAt)
           permit == [origin |-> o, worker |-> w, at |-> now]
<1>1. /\ permit \in Permit
      /\ expiresAt'[permit] = now + LeaseDuration
      /\ held'[permit] = now + LeaseDuration
      /\ \A p \in Permit : p # permit => /\ expiresAt'[p] = table[p]
                                         /\ held'[p] = held[p]
      /\ nextAllowed'[o] = now + MinDelay
      /\ \A q \in Origins : q # o => nextAllowed'[q] = nextAllowed[q]
      /\ taken'[o] = [last |-> now, before |-> taken[o].last]
      /\ \A q \in Origins : q # o => taken'[q] = taken[q]
      /\ forfeit' = IF Late(w, now) THEN forfeit \cup {permit} ELSE forfeit \ {permit}
  <2>1. permit \in Permit
    BY DEF Permit, TypeOK
  <2>2. QED
    BY <2>1, LapsedDeleted DEF AcquireOrigin, Remember, TypeOK
<1>2. TypeOK'
  <2>1. expiresAt' \in [Permit -> Times]
    BY LapsedDeleted, TimeFacts DEF AcquireOrigin
  <2>2. held' \in [Permit -> Times] /\ nextAllowed' \in [Origins -> 0..(MaxTime + MinDelay)]
    BY TimeFacts DEF AcquireOrigin, TypeOK
  <2>3. /\ forfeit' \subseteq Permit
        /\ taken' \in [Origins -> [last : 0..MaxTime, before : 0..MaxTime]]
    BY <1>1, TimeFacts DEF AcquireOrigin, Remember, TypeOK
  <2>4. QED
    BY <2>1, <2>2, <2>3 DEF AcquireOrigin, TypeOK, workersTable
<1>3. RowsBounded'
  <2> SUFFICES ASSUME NEW q \in Origins
               PROVE  /\ IsFiniteSet(PermitsOf(expiresAt', q))
                      /\ Cardinality(PermitsOf(expiresAt', q)) <= MaxConcurrency
    BY DEF RowsBounded, PermitsOf
  <2>1. PermitsOf(table, q) \in SUBSET PermitsOf(expiresAt, q)
    BY LapsedDeleted DEF PermitsOf
  <2>2. /\ IsFiniteSet(PermitsOf(expiresAt, q))
        /\ Cardinality(PermitsOf(expiresAt, q)) <= MaxConcurrency
    BY DEF RowsBounded
  <2>3. /\ IsFiniteSet(PermitsOf(table, q))
        /\ Cardinality(PermitsOf(table, q)) <= Cardinality(PermitsOf(expiresAt, q))
        /\ Cardinality(PermitsOf(table, q)) \in Nat
        /\ Cardinality(PermitsOf(expiresAt, q)) \in Nat
    BY <2>1, <2>2, FS_Subset, FS_CardinalityType
  <2>4. CASE q = o
    <3>1. PermitsOf(expiresAt', q) = PermitsOf(table, q) \cup {permit}
      <4>1. expiresAt'[permit] # 0 /\ permit.origin = o
        BY <1>1, TimeFacts
      <4>2. QED
        BY <1>1, <2>4, <4>1 DEF PermitsOf
    <3>2. Cardinality(PermitsOf(table, q)) < MaxConcurrency
      BY <2>4, LapsedDeleted DEF AcquireOrigin
    <3>3. /\ IsFiniteSet(PermitsOf(expiresAt', q))
          /\ Cardinality(PermitsOf(expiresAt', q)) <= Cardinality(PermitsOf(table, q)) + 1
      <4> HIDE DEF table, permit
      <4>1. /\ IsFiniteSet(PermitsOf(table, q) \cup {permit})
            /\ Cardinality(PermitsOf(table, q) \cup {permit}) =
                 IF permit \in PermitsOf(table, q)
                 THEN Cardinality(PermitsOf(table, q))
                 ELSE Cardinality(PermitsOf(table, q)) + 1
        BY <2>3, FS_AddElement
      <4>2. QED
        BY <2>3, <3>1, <4>1
    <3>4. Cardinality(PermitsOf(expiresAt', q)) \in Nat
      BY <3>3, FS_CardinalityType
    <3>5. QED
      BY <2>3, <3>2, <3>3, <3>4, OptionsAssumption DEF OptionsAssumption
  <2>5. CASE q # o
    <3>1. PermitsOf(expiresAt', q) = PermitsOf(table, q)
      BY <1>1, <2>5 DEF PermitsOf
    <3>2. QED
      BY <2>2, <2>3, <3>1, OptionsAssumption DEF OptionsAssumption
  <2>6. QED
    BY <2>4, <2>5
<1>5. ForfeitsKnown'
  <2> SUFFICES ASSUME NEW p \in Permit, held'[p] # 0, Late(p.worker, now)
               PROVE  p \in forfeit'
    BY DEF ForfeitsKnown, Late, AcquireOrigin, workersTable
  <2>1. CASE p = permit
    BY <1>1, <2>1
  <2>2. CASE p # permit
    BY <1>1, <2>2 DEF ForfeitsKnown
  <2>3. QED
    BY <2>1, <2>2
<1>6. PermitHonoured'
  <2> SUFFICES ASSUME NEW p \in Permit, Punctual(p)'
               PROVE  expiresAt'[p] = held'[p]
    BY DEF PermitHonoured
  <2>1. CASE p = permit
    BY <1>1, <2>1
  <2>2. CASE p # permit
    <3>1. expiresAt[p] = held[p] /\ held[p] > now
      BY <1>1, <2>2 DEF PermitHonoured, Punctual, AcquireOrigin
    <3>2. QED
      BY <1>1, <2>2, <3>1, LapsedDeleted DEF TypeOK, Times
  <2>3. QED
    BY <2>1, <2>2
<1>7. DelaysRemembered'
  <2> SUFFICES ASSUME NEW q \in Origins, taken'[q].last # 0
               PROVE  taken'[q].last + MinDelay <= nextAllowed'[q]
    BY DEF DelaysRemembered
  <2>1. CASE q = o
    BY <1>1, <2>1, OptionsAssumption DEF TypeOK, OptionsAssumption
  <2>2. CASE q # o
    BY <1>1, <2>2 DEF DelaysRemembered
  <2>3. QED
    BY <2>1, <2>2
<1>8. PermitsSpaced'
  <2> SUFFICES ASSUME NEW q \in Origins, taken'[q].before # 0
               PROVE  taken'[q].before + MinDelay <= taken'[q].last
    BY DEF PermitsSpaced
  <2>1. CASE q = o
    <3>1. taken[o].last + MinDelay <= nextAllowed[o] /\ nextAllowed[o] <= now
      BY <1>1, <2>1 DEF DelaysRemembered, AcquireOrigin
    <3>2. taken[o].last \in Int /\ nextAllowed[o] \in Int /\ now \in Int /\ MinDelay \in Int
      BY OptionsAssumption DEF TypeOK, OptionsAssumption
    <3>3. QED
      BY <1>1, <2>1, <3>1, <3>2
  <2>2. CASE q # o
    BY <1>1, <2>2 DEF PermitsSpaced
  <2>3. QED
    BY <2>1, <2>2
<1>9. QED
  BY <1>2, <1>3, <1>5, <1>6, <1>7, <1>8

LEMMA RefuseOriginInv ==
    ASSUME Inv, NEW w \in Workers, NEW o \in Origins, RefuseOrigin(w, o)
    PROVE  Inv'
<1> USE DEF Inv
<1>1. TypeOK'
  BY LapsedDeleted DEF TypeOK, RefuseOrigin, workersTable, history
<1>2. RowsBounded'
  BY LapsedDeleted, FewerRows, OptionsAssumption DEF RefuseOrigin
<1>3. ForfeitsKnown'
  BY DEF ForfeitsKnown, Late, RefuseOrigin, workersTable, history
<1>4. PermitHonoured'
  BY LapsedDeleted DEF PermitHonoured, Punctual, RefuseOrigin, TypeOK, Times, history
<1>5. DelaysRemembered' /\ PermitsSpaced'
  BY DEF DelaysRemembered, PermitsSpaced, RefuseOrigin, history
<1>6. QED
  BY <1>1, <1>2, <1>3, <1>4, <1>5

LEMMA RenewOriginInv ==
    ASSUME Inv, NEW q \in Permit, RenewOrigin(q)
    PROVE  Inv'
<1> USE DEF Inv
<1>0. /\ expiresAt'[q] = now + LeaseDuration /\ held'[q] = now + LeaseDuration
      /\ \A p \in Permit : p # q => expiresAt'[p] = expiresAt[p] /\ held'[p] = held[p]
      /\ held[q] # 0 /\ expiresAt[q] # 0
  BY DEF RenewOrigin, TypeOK
<1>1. TypeOK'
  BY TimeFacts DEF TypeOK, RenewOrigin, workersTable, history
<1>2. RowsBounded'
  BY <1>0, FewerRows, OptionsAssumption
<1>3. ForfeitsKnown'
  BY <1>0 DEF ForfeitsKnown, Late, RenewOrigin, workersTable, history
<1>4. PermitHonoured'
  BY <1>0 DEF PermitHonoured, Punctual, RenewOrigin, history
<1>5. DelaysRemembered' /\ PermitsSpaced'
  BY DEF DelaysRemembered, PermitsSpaced, RenewOrigin, history
<1>6. QED
  BY <1>1, <1>2, <1>3, <1>4, <1>5

LEMMA ReleaseOriginInv ==
    ASSUME Inv, NEW q \in Permit, ReleaseOrigin(q)
    PROVE  Inv'
<1> USE DEF Inv
<1>0. /\ expiresAt'[q] = 0 /\ held'[q] = 0
      /\ \A p \in Permit : p # q => expiresAt'[p] = expiresAt[p] /\ held'[p] = held[p]
  BY DEF ReleaseOrigin, TypeOK
<1>1. TypeOK'
  BY TimeFacts DEF TypeOK, ReleaseOrigin, workersTable
<1>2. RowsBounded'
  BY <1>0, FewerRows, OptionsAssumption
<1>3. ForfeitsKnown'
  BY <1>0 DEF ForfeitsKnown, Late, ReleaseOrigin, workersTable
<1>4. PermitHonoured'
  BY <1>0, TimeFacts DEF PermitHonoured, Punctual, ReleaseOrigin, TypeOK
<1>5. DelaysRemembered' /\ PermitsSpaced'
  BY DEF DelaysRemembered, PermitsSpaced, ReleaseOrigin
<1>6. QED
  BY <1>1, <1>2, <1>3, <1>4, <1>5

LEMMA TickInv ==
    ASSUME Inv, Tick
    PROVE  Inv'
<1> USE DEF Inv
<1>1. TypeOK'
  BY OptionsAssumption DEF TypeOK, Tick, workersTable, OptionsAssumption
<1>2. RowsBounded'
  BY FewerRows, OptionsAssumption DEF Tick
<1>3. ForfeitsKnown'
  BY DEF ForfeitsKnown, Late, Tick, workersTable, Permit
<1>4. PermitHonoured'
  <2> SUFFICES ASSUME NEW p \in Permit, Punctual(p)'
               PROVE  Punctual(p)
    BY DEF PermitHonoured, Tick
  <2>1. held[p] > now + 1 /\ p \notin forfeit
    BY DEF Punctual, Tick
  <2>2. QED
    BY <2>1 DEF Punctual, TypeOK, Times
<1>5. DelaysRemembered' /\ PermitsSpaced'
  BY DEF DelaysRemembered, PermitsSpaced, Tick
<1>6. QED
  BY <1>1, <1>2, <1>3, <1>4, <1>5

LEMMA StutterInv == Inv /\ UNCHANGED vars => Inv'
  BY DEF Inv, TypeOK, RowsBounded, PermitsOf, ForfeitsKnown, Late, PermitHonoured, Punctual,
         DelaysRemembered, PermitsSpaced, vars, workersTable, history

(* The inductive invariant holds in every reachable state.                 *)
THEOREM Invariance == Spec => []Inv
<1>1. Inv /\ [Next]_vars => Inv'
  <2> SUFFICES ASSUME Inv, [Next]_vars PROVE Inv'
    OBVIOUS
  <2>1. CASE \E w \in Workers : Start(w) \/ Heartbeat(w) \/ Stop(w) \/ Crash(w)
    BY <2>1, StartInv, HeartbeatInv, StopInv, CrashInv
  <2>2. CASE RecoverStale
    BY <2>2, RecoverStaleInv
  <2>3. CASE Ask
    BY <2>3, AcquireOriginInv, RefuseOriginInv DEF Ask
  <2>4. CASE \E p \in Permit : RenewOrigin(p) \/ ReleaseOrigin(p)
    BY <2>4, RenewOriginInv, ReleaseOriginInv
  <2>5. CASE Tick
    BY <2>5, TickInv
  <2>6. CASE UNCHANGED vars
    BY <2>6, StutterInv
  <2>7. QED
    BY <2>1, <2>2, <2>3, <2>4, <2>5, <2>6 DEF Next
<1>2. QED
  BY <1>1, InitInv, PTL DEF Spec

(* Every reachable state of the coordination database, and of what the     *)
(* workers believe about it, is well typed.                                *)
THEOREM TypeCorrect == Spec => []TypeOK
<1>1. Inv => TypeOK
  BY DEF Inv
<1>2. QED
  BY <1>1, Invariance, PTL

(* Stale recovery and expiry never take a permit from a worker that kept   *)
(* its heartbeats up and its session open.                                 *)
THEOREM PermitHonouredHolds == Spec => []PermitHonoured
<1>1. Inv => PermitHonoured
  BY DEF Inv
<1>2. QED
  BY <1>1, Invariance, PTL

(* Consecutive permits of an origin are taken minDelayMs apart, whoever    *)
(* takes them and whatever becomes of the first before the second.         *)
THEOREM PermitsSpacedHolds == Spec => []PermitsSpaced
<1>1. Inv => PermitsSpaced
  BY DEF Inv
<1>2. QED
  BY <1>1, Invariance, PTL

(* No more than maxConcurrency processes believe, with reason, that they   *)
(* own an origin.                                                          *)
THEOREM OwnershipBoundedHolds == Spec => []OwnershipBounded
<1>1. Inv => OwnershipBounded
  <2> SUFFICES ASSUME Inv, NEW o \in Origins
               PROVE  Cardinality({p \in Permit : p.origin = o /\ Punctual(p)}) <= MaxConcurrency
    BY DEF OwnershipBounded
  <2> DEFINE owners == {p \in Permit : p.origin = o /\ Punctual(p)}
  <2>1. owners \in SUBSET PermitsOf(expiresAt, o)
    BY DEF Inv, PermitHonoured, Punctual, PermitsOf, TypeOK, Times
  <2>2. /\ IsFiniteSet(PermitsOf(expiresAt, o))
        /\ Cardinality(PermitsOf(expiresAt, o)) <= MaxConcurrency
    BY DEF Inv, RowsBounded
  <2>3. IsFiniteSet(owners) /\ Cardinality(owners) <= Cardinality(PermitsOf(expiresAt, o))
    BY <2>1, <2>2, FS_Subset
  <2>4. Cardinality(owners) \in Nat /\ Cardinality(PermitsOf(expiresAt, o)) \in Nat
    BY <2>2, <2>3, FS_CardinalityType
  <2>5. QED
    BY <2>2, <2>3, <2>4, OptionsAssumption DEF OptionsAssumption
<1>2. QED
  BY <1>1, Invariance, PTL
=============================================================================
