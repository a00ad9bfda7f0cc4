------------------------ MODULE SqliteFrontierProofs ------------------------
(***************************************************************************)
(* Proofs about SqliteFrontier, for every set of requests, workers and     *)
(* origins, every order, lease duration, queue size and candidate limit.   *)
(*                                                                         *)
(* The inductive invariant adds to TypeOK and SingleHolder that a leased   *)
(* row carries the millisecond of its lease and ends a whole lease         *)
(* duration later, and that a worker's lease is not from the future.  That *)
(* is why a lease that can be recovered is older than the one that         *)
(* replaces it: a row handed out at `now` cannot have lapsed at `now`.     *)
(* Then come the order of the candidates, which rests on distinct rowids,  *)
(* and the refinement of FrontierContract.                                 *)
(***************************************************************************)
EXTENDS SqliteFrontier, FiniteSetTheorems, WellFoundedInduction, TLAPS

(* A row has a lease exactly while it is in progress, and the lease ends   *)
(* no sooner than LeaseDuration after it was taken.                        *)
RowsCoherent ==
    \A r \in Requests :
        IF row[r].state = "in_progress"
        THEN /\ row[r].leaseId \in 1..now
             /\ row[r].leaseId + LeaseDuration <= row[r].expiresAt
        ELSE row[r].leaseId = NoId

(* A worker has no lease, or one it took at some time up to now.           *)
LeasesCoherent ==
    \A c \in Clients :
        lease[c] # NoLease =>
            lease[c].req \in Requests /\ lease[c].id \in 1..now

Inv == TypeOK /\ RowsCoherent /\ LeasesCoherent /\ SingleHolder

(* The statement that recovers lapsed leases keeps the table well typed,   *)
(* touches only lapsed rows and leaves no lapsed row in progress.          *)
LEMMA RecoveredRows ==
    ASSUME TypeOK
    PROVE  /\ Recovered \in [Requests -> Row]
           /\ \A r \in Requests :
                \/ Recovered[r] = row[r]
                \/ /\ row[r].state = "in_progress"
                   /\ row[r].expiresAt <= now
                   /\ Recovered[r].state = "pending"
                   /\ Recovered[r].leaseId = NoId
<1>1. ASSUME NEW r \in Requests
      PROVE  /\ AsPending(row[r]) \in Row
             /\ AsPending(row[r]).state = "pending"
             /\ AsPending(row[r]).leaseId = NoId
  <2>1. row[r] \in Row
    BY DEF TypeOK
  <2>2. 0 \in Times
    BY ConfigAssumption DEF Times
  <2>3. QED
    BY <2>1, <2>2 DEF Row, AsPending, RowState, NoId
<1>2. QED
  BY <1>1 DEF Recovered, TypeOK

(* A request that leaseNext() claims was pending or its lease had lapsed.  *)
LEMMA ClaimedIsPending ==
    ASSUME TypeOK, NEW blocked, NEW r \in Claimed(Recovered, blocked)
    PROVE  /\ r \in Requests
           /\ Recovered[r].state = "pending"
           /\ \/ row[r].state = "pending"
              \/ row[r].state = "in_progress" /\ row[r].expiresAt <= now
  BY RecoveredRows
  DEF Claimed, readyCandidates, OriginHeads, InState

LEMMA InitInv == Init => Inv
<1> SUFFICES ASSUME Init PROVE Inv
  OBVIOUS
<1>1. 0 \in Times /\ 1 \in 1..MaxTime /\ 0 \in 0..MaxCrashes
  BY ConfigAssumption DEF Times
<1>2. AbsentRow \in Row /\ NoLease \in [req : Requests \cup {NoRequest}, id : Times]
  BY <1>1 DEF AbsentRow, Row, RowState, NoId, NoLease
<1>3. TypeOK
  BY <1>1, <1>2 DEF Init, TypeOK
<1>4. RowsCoherent /\ LeasesCoherent /\ SingleHolder
  BY ConfigAssumption
  DEF Init, RowsCoherent, LeasesCoherent, SingleHolder, Current, AbsentRow, NoId, NoLease
<1>5. QED
  BY <1>3, <1>4 DEF Inv

(* now is a lawful lease id, and a lease taken now ends within Times.      *)
LEMMA TimeFacts ==
    ASSUME TypeOK
    PROVE  /\ now \in Times
           /\ now + LeaseDuration \in Times
           /\ NoId \in Times
           /\ now # NoId
  BY ConfigAssumption DEF TypeOK, Times, NoId

LEMMA EnqueueInv ==
    ASSUME Inv, NEW q \in Requests, Enqueue(q)
    PROVE  Inv'
<1> USE DEF Inv
<1>1. Cardinality(Requests \ InState(row, "absent")) + 1 \in Nat
  <2>1. IsFiniteSet(Requests \ InState(row, "absent"))
    BY ConfigAssumption, FS_Subset
  <2>2. QED
    BY <2>1, FS_CardinalityType
<1>2. row' \in [Requests -> Row]
  BY <1>1 DEF TypeOK, Enqueue, Row, RowState
<1>3. TypeOK'
  BY <1>2 DEF TypeOK, Enqueue
<1>4. \A r \in Requests : /\ r # q => row'[r] = row[r]
                          /\ row'[q].state = "pending"
                          /\ row'[q].leaseId = row[q].leaseId
  BY DEF TypeOK, Enqueue
<1>5. RowsCoherent'
  BY <1>4 DEF RowsCoherent, Enqueue
<1>6. LeasesCoherent'
  BY DEF LeasesCoherent, Enqueue
<1>7. \A c \in Clients, r \in Requests : Current(c, r)' <=> Current(c, r)
  BY <1>4 DEF Current, Enqueue
<1>8. SingleHolder'
  BY <1>7 DEF SingleHolder, Enqueue, LeasesCoherent
<1>9. QED
  BY <1>3, <1>5, <1>6, <1>8

LEMMA LeaseNextInv ==
    ASSUME Inv, NEW w \in Clients, NEW blocked \in SUBSET Origins,
           LeaseNext(w, blocked)
    PROVE  Inv'
<1> USE DEF Inv
<1>1. PICK q \in Claimed(Recovered, blocked) :
         /\ row' = [Recovered EXCEPT ![q].state = "in_progress",
                                     ![q].leaseId = now,
                                     ![q].expiresAt = now + LeaseDuration]
         /\ lease' = [lease EXCEPT ![w] = [req |-> q, id |-> now]]
  BY DEF LeaseNext
<1>2. /\ q \in Requests
      /\ \/ row[q].state = "pending"
         \/ row[q].state = "in_progress" /\ row[q].expiresAt <= now
  BY ClaimedIsPending
<1>3. /\ now \in 1..MaxTime /\ now \in Times /\ now + LeaseDuration \in Times
      /\ NoId \in Times /\ now # NoId
      /\ now' = now
  BY TimeFacts DEF LeaseNext, TypeOK
<1>4. /\ row' \in [Requests -> Row]
      /\ row'[q].state = "in_progress"
      /\ row'[q].leaseId = now
      /\ row'[q].expiresAt = now + LeaseDuration
      /\ \A r \in Requests : r # q => row'[r] = Recovered[r]
  <2>1. Recovered \in [Requests -> Row]
    BY RecoveredRows
  <2>2. QED
    BY <1>1, <1>2, <1>3, <2>1 DEF Row, RowState
<1>5. /\ lease'[w] = [req |-> q, id |-> now]
      /\ \A c \in Clients : c # w => lease'[c] = lease[c]
      /\ lease' \in [Clients -> [req : Requests \cup {NoRequest}, id : Times]]
  BY <1>1, <1>2, <1>3 DEF TypeOK
<1>6. TypeOK'
  BY <1>4, <1>5 DEF TypeOK, LeaseNext
<1>7. RowsCoherent'
  <2> SUFFICES ASSUME NEW r \in Requests
               PROVE  IF row'[r].state = "in_progress"
                      THEN /\ row'[r].leaseId \in 1..now
                           /\ row'[r].leaseId + LeaseDuration <= row'[r].expiresAt
                      ELSE row'[r].leaseId = NoId
    BY <1>3 DEF RowsCoherent
  <2>1. CASE r = q
    BY <2>1, <1>3, <1>4, ConfigAssumption DEF TypeOK
  <2>2. CASE r # q
    BY <2>2, <1>4, RecoveredRows DEF RowsCoherent
  <2>3. QED
    BY <2>1, <2>2
<1>8. LeasesCoherent'
  BY <1>2, <1>3, <1>5 DEF LeasesCoherent
<1>9. ASSUME NEW c \in Clients, c # w, lease[c].req = q
      PROVE  lease[c].id < now
  <2>1. lease[c] # NoLease /\ lease[c].id \in 1..now
    BY <1>2, <1>9, ConfigAssumption DEF LeasesCoherent, NoLease
  <2>2. CASE Current(c, q)
    <3>1. row[q].leaseId + LeaseDuration <= now /\ row[q].leaseId \in 1..now
      BY <1>2, <2>2, ConfigAssumption
      DEF Current, RowsCoherent, TypeOK, Row, Times
    <3>2. QED
      BY <2>2, <3>1, <1>3, ConfigAssumption DEF Current
  <2>3. CASE ~Current(c, q)
    BY <2>1, <2>3, <1>9 DEF SingleHolder
  <2>4. QED
    BY <2>2, <2>3
<1>10. ASSUME NEW c \in Clients, NEW r \in Requests
       PROVE  /\ c # w /\ r = q => ~Current(c, r)'
              /\ c = w => (Current(c, r)' <=> r = q)
              /\ c # w /\ r # q /\ Current(c, r)' => Current(c, r)
              /\ c # w /\ r # q /\ Current(c, r) =>
                    Current(c, r)' \/ row[r].expiresAt <= now
  <2>1. CASE c = w
    BY <2>1, <1>4, <1>5 DEF Current
  <2>2. CASE c # w /\ r = q
    BY <2>2, <1>3, <1>4, <1>5, <1>9 DEF Current, TypeOK, Times
  <2>3. CASE c # w /\ r # q
    BY <2>3, <1>4, <1>5, RecoveredRows DEF Current
  <2>4. QED
    BY <2>1, <2>2, <2>3
<1>11. SingleHolder'
  <2>1. \A c, d \in Clients : \A r \in Requests :
            Current(c, r)' /\ Current(d, r)' => c = d
    BY <1>10 DEF SingleHolder
  <2>2. ASSUME NEW c \in Clients, lease'[c] # NoLease
        PROVE  Current(c, lease[c].req)' \/ lease'[c].id < now
    <3>1. CASE c = w
      BY <3>1, <1>2, <1>4, <1>5 DEF Current
    <3>2. CASE c # w
      <4>1. lease'[c] = lease[c] /\ lease[c].req \in Requests
        BY <3>2, <2>2, <1>5 DEF LeasesCoherent
      <4>2. CASE lease[c].req = q
        BY <3>2, <4>1, <4>2, <1>9
      <4>3. CASE lease[c].req # q /\ ~Current(c, lease[c].req)
        BY <2>2, <4>1, <4>3 DEF SingleHolder
      <4>4. CASE lease[c].req # q /\ Current(c, lease[c].req)
        <5>1. CASE Current(c, lease[c].req)'
          BY <5>1
        <5>2. CASE ~Current(c, lease[c].req)'
          <6> DEFINE r == lease[c].req
          <6>1. row[r].state = "in_progress" /\ row[r].leaseId = lease[c].id
            BY <4>4 DEF Current
          <6>2. row[r].expiresAt <= now
            BY <4>1, <4>4, <5>2, <1>10, <3>2, <1>4, RecoveredRows DEF Current
          <6>3. row[r].leaseId + LeaseDuration <= row[r].expiresAt
                /\ row[r].leaseId \in 1..now
            BY <4>1, <6>1 DEF RowsCoherent
          <6>4. row[r].expiresAt \in Int
            BY <4>1, ConfigAssumption DEF TypeOK, Row, Times
          <6>5. QED
            BY <6>1, <6>2, <6>3, <6>4, <4>1, <1>3, ConfigAssumption
        <5>3. QED
          BY <5>1, <5>2
      <4>5. QED
        BY <4>2, <4>3, <4>4
    <3>3. QED
      BY <3>1, <3>2
  <2>3. QED
    BY <2>1, <2>2, <1>3 DEF SingleHolder
<1>12. QED
  BY <1>6, <1>7, <1>8, <1>11

(* leaseNext() returning null and init() of a resumed run only recover     *)
(* lapsed leases, whose holders took them at an earlier millisecond.       *)
LEMMA RecoverInv ==
    ASSUME Inv, row' = Recovered, UNCHANGED <<now, crashes, lease>>,
           running' \in BOOLEAN
    PROVE  Inv'
<1> USE DEF Inv
<1>1. TypeOK'
  BY RecoveredRows DEF TypeOK
<1>2. RowsCoherent'
  BY RecoveredRows DEF RowsCoherent
<1>3. LeasesCoherent'
  BY DEF LeasesCoherent
<1>4. \A c \in Clients, r \in Requests : Current(c, r)' => Current(c, r)
  BY RecoveredRows DEF Current
<1>5. ASSUME NEW c \in Clients, NEW r \in Requests,
             Current(c, r), ~Current(c, r)'
      PROVE  lease[c].id < now
  <2>1. row[r].state = "in_progress" /\ row[r].leaseId = lease[c].id
    BY <1>5 DEF Current
  <2>2. row[r].expiresAt <= now
    BY <1>5, RecoveredRows DEF Current
  <2>3. row[r].leaseId + LeaseDuration <= row[r].expiresAt /\ row[r].leaseId \in 1..now
    BY <2>1 DEF RowsCoherent
  <2>4. row[r].expiresAt \in Int /\ now \in Int
    BY ConfigAssumption DEF TypeOK, Row, Times
  <2>5. QED
    BY <2>1, <2>2, <2>3, <2>4, ConfigAssumption
<1>6. SingleHolder'
  <2>1. ASSUME NEW c \in Clients, lease[c] # NoLease
        PROVE  Current(c, lease[c].req)' \/ lease[c].id < now
    <3>1. lease[c].req \in Requests
      BY <2>1 DEF LeasesCoherent
    <3>2. Current(c, lease[c].req)' <=> (Current(c, lease[c].req))'
      OBVIOUS
    <3>3. CASE Current(c, lease[c].req)
      BY <1>5, <3>1, <3>3
    <3>4. CASE ~Current(c, lease[c].req)
      BY <2>1, <3>4 DEF SingleHolder
    <3>5. QED
      BY <3>3, <3>4
  <2>2. QED
    BY <1>4, <2>1 DEF SingleHolder
<1>7. QED
  BY <1>1, <1>2, <1>3, <1>6

LEMMA RenewInv ==
    ASSUME Inv, NEW w \in Clients, Renew(w)
    PROVE  Inv'
<1> USE DEF Inv
<1>1. PICK q \in Requests :
         /\ Current(w, q)
         /\ row' = [row EXCEPT ![q].expiresAt = now + LeaseDuration]
         /\ UNCHANGED <<now, running, crashes, lease>>
  BY DEF Renew
<1>2. /\ row' \in [Requests -> Row]
      /\ row'[q].state = row[q].state /\ row'[q].leaseId = row[q].leaseId
      /\ row'[q].expiresAt = now + LeaseDuration
      /\ \A r \in Requests : r # q => row'[r] = row[r]
  BY <1>1, TimeFacts DEF TypeOK, Row
<1>3. TypeOK'
  BY <1>1, <1>2 DEF TypeOK
<1>4. RowsCoherent'
  <2>1. row[q].leaseId \in 1..now /\ row[q].state = "in_progress"
    BY <1>1 DEF RowsCoherent, Current
  <2>2. row'[q].leaseId + LeaseDuration <= row'[q].expiresAt
    BY <1>2, <2>1, ConfigAssumption DEF TypeOK
  <2>3. QED
    BY <1>1, <1>2, <2>1, <2>2 DEF RowsCoherent
<1>5. LeasesCoherent'
  BY <1>1 DEF LeasesCoherent
<1>6. \A c \in Clients, r \in Requests : Current(c, r)' <=> Current(c, r)
  BY <1>1, <1>2 DEF Current
<1>7. SingleHolder'
  BY <1>1, <1>6 DEF SingleHolder, LeasesCoherent
<1>8. QED
  BY <1>3, <1>4, <1>5, <1>7

(* release() and the mark...() calls: the row of the caller's current      *)
(* lease leaves in_progress and the caller has no lease any more.          *)
LEMMA EndLeaseInv ==
    ASSUME Inv, NEW w \in Clients, NEW q \in Requests, Current(w, q),
           row' \in [Requests -> Row],
           row'[q].state # "in_progress", row'[q].leaseId = NoId,
           \A r \in Requests : r # q => row'[r] = row[r],
           lease' = [lease EXCEPT ![w] = NoLease],
           UNCHANGED <<now, running, crashes>>
    PROVE  Inv'
<1> USE DEF Inv
<1>1. /\ lease'[w] = NoLease
      /\ \A c \in Clients : c # w => lease'[c] = lease[c]
      /\ lease' \in [Clients -> [req : Requests \cup {NoRequest}, id : Times]]
  BY TimeFacts DEF TypeOK, NoLease
<1>2. TypeOK'
  BY <1>1 DEF TypeOK
<1>3. RowsCoherent'
  BY DEF RowsCoherent
<1>4. LeasesCoherent'
  BY <1>1 DEF LeasesCoherent
<1>5. \A c \in Clients, r \in Requests :
         /\ Current(c, r)' => Current(c, r)
         /\ c # w /\ Current(c, r) => Current(c, r)'
  <2> TAKE c \in Clients, r \in Requests
  <2>1. CASE r = q
    BY <2>1, <1>1 DEF Current, SingleHolder
  <2>2. CASE r # q /\ c = w
    BY <2>2, <1>1, ConfigAssumption DEF Current, NoLease
  <2>3. CASE r # q /\ c # w
    BY <2>3, <1>1 DEF Current
  <2>4. QED
    BY <2>1, <2>2, <2>3
<1>6. SingleHolder'
  <2>1. ASSUME NEW c \in Clients, lease'[c] # NoLease
        PROVE  Current(c, lease[c].req)' \/ lease'[c].id < now
    <3>1. c # w /\ lease'[c] = lease[c] /\ lease[c].req \in Requests
      BY <2>1, <1>1 DEF LeasesCoherent
    <3>2. CASE Current(c, lease[c].req)
      <4>1. row'[lease[c].req] = row[lease[c].req]
        BY <3>1, <3>2 DEF SingleHolder, Current
      <4>2. QED
        BY <3>1, <3>2, <4>1 DEF Current
    <3>3. CASE ~Current(c, lease[c].req)
      BY <2>1, <3>1, <3>3 DEF SingleHolder
    <3>4. QED
      BY <3>2, <3>3
  <2>2. QED
    BY <1>5, <2>1 DEF SingleHolder
<1>7. QED
  BY <1>2, <1>3, <1>4, <1>6

LEMMA ReleaseInv ==
    ASSUME Inv, NEW w \in Clients, Release(w)
    PROVE  Inv'
<1>1. PICK q \in Requests :
         /\ Current(w, q)
         /\ row' = [row EXCEPT ![q] = AsPending(@)]
         /\ lease' = [lease EXCEPT ![w] = NoLease]
         /\ UNCHANGED <<now, running, crashes>>
  BY DEF Release
<1>2. /\ row' \in [Requests -> Row]
      /\ row'[q].state # "in_progress" /\ row'[q].leaseId = NoId
      /\ \A r \in Requests : r # q => row'[r] = row[r]
  <2>1. row \in [Requests -> Row] /\ row[q] \in Row /\ 0 \in Times
    BY TimeFacts DEF Inv, TypeOK, NoId
  <2>2. /\ AsPending(row[q]) \in Row
        /\ AsPending(row[q]).state = "pending"
        /\ AsPending(row[q]).leaseId = NoId
    BY <2>1 DEF AsPending, Row, RowState, NoId
  <2>3. QED
    BY <1>1, <2>1, <2>2
<1>3. QED
  BY <1>1, <1>2, EndLeaseInv

LEMMA FinishInv ==
    ASSUME Inv, NEW w \in Clients, Finish(w)
    PROVE  Inv'
<1>1. PICK q \in Requests :
         /\ Current(w, q)
         /\ row' = [row EXCEPT ![q].state = "terminal", ![q].leaseId = NoId,
                               ![q].expiresAt = 0]
         /\ lease' = [lease EXCEPT ![w] = NoLease]
         /\ UNCHANGED <<now, running, crashes>>
  BY DEF Finish
<1>2. /\ row' \in [Requests -> Row]
      /\ row'[q].state # "in_progress" /\ row'[q].leaseId = NoId
      /\ \A r \in Requests : r # q => row'[r] = row[r]
  <2>1. row \in [Requests -> Row] /\ 0 \in Times
    BY TimeFacts DEF Inv, TypeOK, NoId
  <2>2. QED
    BY <1>1, <2>1 DEF Row, RowState, NoId
<1>3. QED
  BY <1>1, <1>2, EndLeaseInv

(* A stale caller loses its lease; a crash takes the leases of all.        *)
LEMMA DropInv ==
    ASSUME Inv, NEW dropped \in SUBSET Clients,
           lease' = [c \in Clients |-> IF c \in dropped THEN NoLease ELSE lease[c]],
           UNCHANGED <<now, row>>, running' \in BOOLEAN, crashes' \in 0..MaxCrashes
    PROVE  Inv'
<1> USE DEF Inv
<1>1. /\ TypeOK'
      /\ \A c \in Clients : lease'[c] = NoLease \/ lease'[c] = lease[c]
  BY TimeFacts DEF TypeOK, NoLease
<1>2. RowsCoherent' /\ LeasesCoherent'
  BY <1>1 DEF RowsCoherent, LeasesCoherent
<1>3. \A c \in Clients, r \in Requests :
         /\ Current(c, r)' => Current(c, r)
         /\ lease'[c] # NoLease /\ Current(c, r) => Current(c, r)'
  BY <1>1, ConfigAssumption DEF Current, NoLease
<1>4. SingleHolder'
  <2>1. ASSUME NEW c \in Clients, lease'[c] # NoLease
        PROVE  Current(c, lease[c].req)' \/ lease'[c].id < now
    <3>1. lease'[c] = lease[c] /\ lease[c].req \in Requests
      BY <2>1, <1>1 DEF LeasesCoherent
    <3>2. QED
      BY <2>1, <3>1, <1>3 DEF SingleHolder, Current
  <2>2. QED
    BY <1>3, <2>1 DEF SingleHolder
<1>5. QED
  BY <1>1, <1>2, <1>4

LEMMA TickInv == ASSUME Inv, Tick PROVE Inv'
<1> USE DEF Inv
<1>1. now \in 1..MaxTime /\ now' \in 1..MaxTime /\ now' = now + 1
  BY ConfigAssumption DEF Tick, TypeOK
<1>2. TypeOK'
  BY <1>1 DEF Tick, TypeOK
<1>3. RowsCoherent' /\ LeasesCoherent'
  BY <1>1 DEF Tick, RowsCoherent, LeasesCoherent
<1>4. \A c \in Clients, r \in Requests : Current(c, r)' <=> Current(c, r)
  BY DEF Tick, Current
<1>5. SingleHolder'
  <2>1. ASSUME NEW c \in Clients, lease[c] # NoLease
        PROVE  lease[c].id \in 1..now
    BY <2>1 DEF LeasesCoherent
  <2>2. QED
    BY <1>1, <1>4, <2>1 DEF SingleHolder, Tick, Current
<1>6. QED
  BY <1>2, <1>3, <1>5

LEMMA NextInv == Inv /\ [Next]_vars => Inv'
<1> SUFFICES ASSUME Inv, [Next]_vars PROVE Inv'
  OBVIOUS
<1>1. ASSUME NEW r \in Requests, Enqueue(r) PROVE Inv'
  BY <1>1, EnqueueInv
<1>2. ASSUME NEW c \in Clients, NEW b \in SUBSET Origins, LeaseNext(c, b) PROVE Inv'
  BY <1>2, LeaseNextInv
<1>3. ASSUME NEW c \in Clients, NEW b \in SUBSET Origins, LeaseNextNull(c, b) PROVE Inv'
  <2>1. row' = Recovered /\ UNCHANGED <<now, running, crashes, lease>>
    BY <1>3 DEF LeaseNextNull
  <2>2. running' \in BOOLEAN
    BY <2>1 DEF Inv, TypeOK
  <2>3. QED
    BY <2>1, <2>2, RecoverInv
<1>4. ASSUME NEW c \in Clients, Renew(c) PROVE Inv'
  BY <1>4, RenewInv
<1>5. ASSUME NEW c \in Clients, Release(c) PROVE Inv'
  BY <1>5, ReleaseInv
<1>6. ASSUME NEW c \in Clients, Finish(c) PROVE Inv'
  BY <1>6, FinishInv
<1>7. ASSUME NEW c \in Clients, RejectStale(c) PROVE Inv'
  <2>1. lease' = [d \in Clients |-> IF d \in {c} THEN NoLease ELSE lease[d]]
    BY <1>7 DEF RejectStale, Inv, TypeOK
  <2>2. QED
    BY <1>7, <2>1, DropInv DEF RejectStale, Inv, TypeOK
<1>8. CASE Crash
  <2>1. lease' = [d \in Clients |-> IF d \in Clients THEN NoLease ELSE lease[d]]
    BY <1>8 DEF Crash
  <2>2. running' = FALSE /\ UNCHANGED <<now, row>>
    BY <1>8 DEF Crash
  <2>3. crashes < MaxCrashes /\ crashes' = crashes + 1
    BY <1>8 DEF Crash
  <2>4. crashes' \in 0..MaxCrashes
    BY <2>3, ConfigAssumption DEF Inv, TypeOK
  <2>5. QED
    BY <2>1, <2>2, <2>4, DropInv
<1>9. CASE Resume
  BY <1>9, RecoverInv DEF Resume, Inv, TypeOK
<1>10. CASE Tick
  BY <1>10, TickInv
<1>11. CASE UNCHANGED vars
  BY <1>11 DEF vars, Inv, TypeOK, RowsCoherent, LeasesCoherent, SingleHolder, Current
<1>12. QED
  BY <1>1, <1>2, <1>3, <1>4, <1>5, <1>6, <1>7, <1>8, <1>9, <1>10, <1>11 DEF Next

(* The four parts of the invariant hold in every reachable state.          *)
THEOREM Invariance == Spec => []Inv
  BY InitInv, NextInv, PTL DEF Spec

(* Every variable keeps its type in every run of the SQLite frontier.      *)
THEOREM TypeCorrect == Spec => []TypeOK
  BY Invariance, PTL DEF Inv

(* At most one worker's lease on a request is accepted by the database,    *)
(* and every other lease on it is from an earlier millisecond.             *)
THEOREM SingleHolderHolds == Spec => []SingleHolder
  BY Invariance, PTL DEF Inv
-----------------------------------------------------------------------------
(* The order of the candidates.  rowid is the order of insertion: no two   *)
(* rows share one, so requestOrderSql never ties.                          *)

Accepted == {r \in Requests : row[r].state # "absent"}

RowidsCoherent ==
    /\ \A r \in Accepted : row[r].rowid \in 1..Cardinality(Accepted)
    /\ \A q, r \in Accepted : row[q].rowid = row[r].rowid => q = r

(* Every statement but the INSERT leaves the rowids of the table alone.    *)
LEMMA RowidsKept ==
    ASSUME RowidsCoherent,
           \A r \in Requests : /\ row'[r].rowid = row[r].rowid
                               /\ row'[r].state = "absent" <=> row[r].state = "absent"
    PROVE  RowidsCoherent'
<1>1. Accepted' = Accepted
  BY DEF Accepted
<1>2. \A r \in Accepted : row'[r].rowid = row[r].rowid
  BY DEF Accepted
<1>3. QED
  BY <1>1, <1>2 DEF RowidsCoherent

(* Recovery keeps the rowids.                                              *)
LEMMA RecoveredRowids ==
    ASSUME TypeOK, NEW r \in Requests
    PROVE  /\ Recovered[r].rowid = row[r].rowid
           /\ Recovered[r].state = "absent" <=> row[r].state = "absent"
<1>1. row[r] \in Row
  BY DEF TypeOK
<1>2. /\ AsPending(row[r]).rowid = row[r].rowid
      /\ AsPending(row[r]).state = "pending"
  BY <1>1 DEF AsPending, Row
<1>3. QED
  BY <1>2 DEF Recovered

LEMMA EnqueueRowids ==
    ASSUME TypeOK, RowidsCoherent, NEW q \in Requests, Enqueue(q)
    PROVE  RowidsCoherent'
<1> DEFINE n == Cardinality(Accepted)
<1>1. Accepted = Requests \ InState(row, "absent")
  BY DEF Accepted, InState
<1>2. IsFiniteSet(Accepted) /\ n \in Nat
  BY <1>1, ConfigAssumption, FS_Subset, FS_CardinalityType
<1>3. /\ row'[q].state = "pending"
      /\ row'[q].rowid = n + 1
      /\ \A r \in Requests \ {q} : row'[r] = row[r]
  <2>1. row[q] \in Row /\ row \in [Requests -> Row]
    BY DEF TypeOK
  <2>2. QED
    BY <1>1, <2>1 DEF Enqueue, Row
<1>4. q \notin Accepted /\ Accepted' = Accepted \cup {q}
  BY <1>3 DEF Enqueue, Accepted
<1>5. Cardinality(Accepted') = n + 1
  BY <1>2, <1>4, FS_AddElement
<1>6. \A r \in Accepted : row'[r].rowid = row[r].rowid /\ row[r].rowid \in 1..n
  BY <1>3, <1>4 DEF RowidsCoherent, Accepted
<1>7. \A r \in Accepted' : row'[r].rowid \in 1..(n + 1)
  BY <1>2, <1>3, <1>4, <1>6
<1>8. \A r, s \in Accepted' : row'[r].rowid = row'[s].rowid => r = s
  <2> SUFFICES ASSUME NEW r \in Accepted', NEW s \in Accepted',
                      row'[r].rowid = row'[s].rowid
               PROVE  r = s
    OBVIOUS
  <2>1. CASE r = q \/ s = q
    BY <2>1, <1>2, <1>3, <1>4, <1>6
  <2>2. CASE r # q /\ s # q
    BY <2>2, <1>4, <1>6 DEF RowidsCoherent
  <2>3. QED
    BY <2>1, <2>2
<1>9. QED
  BY <1>5, <1>7, <1>8 DEF RowidsCoherent

LEMMA LeaseNextRowids ==
    ASSUME TypeOK, RowidsCoherent, NEW c \in Clients, NEW blocked, LeaseNext(c, blocked)
    PROVE  RowidsCoherent'
<1>1. PICK q \in Claimed(Recovered, blocked) :
         row' = [Recovered EXCEPT ![q].state = "in_progress",
                                  ![q].leaseId = now,
                                  ![q].expiresAt = now + LeaseDuration]
  BY DEF LeaseNext
<1>2. q \in Requests /\ Recovered[q].state = "pending"
  BY ClaimedIsPending
<1>3. Recovered \in [Requests -> Row] /\ Recovered[q] \in Row
  BY <1>2, RecoveredRows
<1>4. \A r \in Requests : /\ row'[r].rowid = Recovered[r].rowid
                          /\ row'[r].state = "absent" <=> Recovered[r].state = "absent"
  BY <1>1, <1>2, <1>3 DEF Row
<1>5. QED
  BY <1>4, RecoveredRowids, RowidsKept

LEMMA NextRowids == TypeOK /\ RowidsCoherent /\ [Next]_vars => RowidsCoherent'
<1> SUFFICES ASSUME TypeOK, RowidsCoherent, [Next]_vars PROVE RowidsCoherent'
  OBVIOUS
<1>1. ASSUME row' = Recovered PROVE RowidsCoherent'
  BY <1>1, RecoveredRowids, RowidsKept
<1>2. ASSUME row' = row PROVE RowidsCoherent'
  BY <1>2, RowidsKept
<1>3. ASSUME NEW r \in Requests, Enqueue(r) PROVE RowidsCoherent'
  BY <1>3, EnqueueRowids
<1>4. ASSUME NEW c \in Clients, NEW b \in SUBSET Origins, LeaseNext(c, b)
      PROVE  RowidsCoherent'
  BY <1>4, LeaseNextRowids
<1>5. ASSUME NEW c \in Clients, NEW q \in Requests, Current(c, q),
             \/ row' = [row EXCEPT ![q].expiresAt = now + LeaseDuration]
             \/ row' = [row EXCEPT ![q] = AsPending(@)]
             \/ row' = [row EXCEPT ![q].state = "terminal", ![q].leaseId = NoId,
                                   ![q].expiresAt = 0]
      PROVE  RowidsCoherent'
  <2>1. row \in [Requests -> Row] /\ row[q] \in Row /\ row[q].state = "in_progress"
    BY <1>5 DEF TypeOK, Current
  <2>2. \A r \in Requests \ {q} : row'[r] = row[r]
    BY <1>5, <2>1
  <2>3. row'[q].rowid = row[q].rowid /\ row'[q].state # "absent"
    <3>1. CASE row' = [row EXCEPT ![q].expiresAt = now + LeaseDuration]
      BY <3>1, <2>1 DEF Row
    <3>2. CASE row' = [row EXCEPT ![q] = AsPending(@)]
      BY <3>2, <2>1 DEF Row, AsPending
    <3>3. CASE row' = [row EXCEPT ![q].state = "terminal", ![q].leaseId = NoId,
                                  ![q].expiresAt = 0]
      BY <3>3, <2>1 DEF Row
    <3>4. QED
      BY <1>5, <3>1, <3>2, <3>3
  <2>4. \A r \in Requests : /\ row'[r].rowid = row[r].rowid
                            /\ row'[r].state = "absent" <=> row[r].state = "absent"
    BY <2>1, <2>2, <2>3
  <2>5. QED
    BY <2>4, RowidsKept
<1>6. ASSUME NEW c \in Clients, Renew(c) \/ Release(c) \/ Finish(c)
      PROVE  RowidsCoherent'
  BY <1>5, <1>6 DEF Renew, Release, Finish
<1>7. QED
  BY <1>1, <1>2, <1>3, <1>4, <1>6
  DEF Next, vars, LeaseNextNull, RejectStale, Crash, Resume, Tick

(* On the accepted rows requestOrderSql is a strict total order, in each   *)
(* of the three frontier orders.                                           *)
LEMMA PrecedesIsTotalOrder ==
    ASSUME TypeOK, RowidsCoherent
    PROVE  \A a, b, c \in Accepted :
             /\ ~Precedes(Recovered, a, a)
             /\ Precedes(Recovered, a, b) /\ Precedes(Recovered, b, c)
                  => Precedes(Recovered, a, c)
             /\ a # b => Precedes(Recovered, a, b) \/ Precedes(Recovered, b, a)
<1> SUFFICES ASSUME NEW a \in Accepted, NEW b \in Accepted, NEW c \in Accepted
             PROVE  /\ ~Precedes(Recovered, a, a)
                    /\ Precedes(Recovered, a, b) /\ Precedes(Recovered, b, c)
                         => Precedes(Recovered, a, c)
                    /\ a # b => Precedes(Recovered, a, b) \/ Precedes(Recovered, b, a)
  OBVIOUS
<1> DEFINE id(r) == Recovered[r].rowid
<1>1. \A r \in Accepted : id(r) = row[r].rowid /\ id(r) \in Nat
  BY RecoveredRowids DEF Accepted, TypeOK, Row
<1>2. a # b => id(a) # id(b)
  BY <1>1 DEF RowidsCoherent
<1>3. Rank[a] \in Int /\ Rank[b] \in Int /\ Rank[c] \in Int
  BY ConfigAssumption DEF Accepted
<1>4. id(a) \in Nat /\ id(b) \in Nat /\ id(c) \in Nat
  BY <1>1
<1> HIDE DEF id
<1>5. CASE Order = "dfs"
  <2>1. \A x, y : Precedes(Recovered, x, y) <=> id(x) > id(y)
    BY <1>5 DEF Precedes, id
  <2>2. QED
    BY <2>1, <1>2, <1>4
<1>6. CASE Order = "bfs"
  <2>1. \A x, y : Precedes(Recovered, x, y) <=> id(x) < id(y)
    BY <1>6 DEF Precedes, id
  <2>2. QED
    BY <2>1, <1>2, <1>4
<1>7. CASE Order = "priority"
  <2>1. \A x, y : Precedes(Recovered, x, y) <=>
            Rank[x] < Rank[y] \/ (Rank[x] = Rank[y] /\ id(x) < id(y))
    BY <1>7 DEF Precedes, id
  <2>2. QED
    BY <2>1, <1>2, <1>3, <1>4
<1>8. QED
  BY <1>5, <1>6, <1>7, ConfigAssumption

(* So any accepted requests have a first one: the request that the fewest  *)
(* others precede is preceded by none.                                     *)
LEMMA FirstExists ==
    ASSUME TypeOK, RowidsCoherent, NEW S \in SUBSET Accepted, S # {}
    PROVE  \E m \in S : \A q \in S : q = m \/ Precedes(Recovered, m, q)
<1> DEFINE before(r) == {q \in S : Precedes(Recovered, q, r)}
           counts == {Cardinality(before(r)) : r \in S}
           lt == {ss \in Nat \X Nat : ss[1] < ss[2]}
<1>1. IsFiniteSet(S)
  BY ConfigAssumption, FS_Subset DEF Accepted
<1>2. \A r \in S : IsFiniteSet(before(r)) /\ Cardinality(before(r)) \in Nat
  BY <1>1, FS_Subset, FS_CardinalityType
<1>3. IsWellFoundedOn(lt, Nat)
  BY NatLessThanWellFounded DEF OpToRel
<1>4. counts \subseteq Nat /\ counts # {}
  BY <1>2
<1>5. PICK x \in counts : \A y \in counts : ~(<<y, x>> \in lt)
  <2> HIDE DEF lt, counts
  <2>1. QED
    BY <1>3, <1>4, WFMin
<1>6. PICK m \in S : x = Cardinality(before(m))
  OBVIOUS
<1>7. ASSUME NEW q \in S, q # m PROVE Precedes(Recovered, m, q)
  <2> SUFFICES ASSUME ~Precedes(Recovered, m, q) PROVE FALSE
    OBVIOUS
  <2>1. Precedes(Recovered, q, m)
    BY <1>7, PrecedesIsTotalOrder
  <2>2. before(q) \subseteq before(m)
    BY <2>1, PrecedesIsTotalOrder
  <2>3. q \in before(m) /\ q \notin before(q)
    BY <2>1, PrecedesIsTotalOrder
  <2>4. /\ Cardinality(before(q)) <= Cardinality(before(m))
        /\ Cardinality(before(q)) # Cardinality(before(m))
    <3> HIDE DEF before
    <3>1. QED
      BY <1>2, <2>2, <2>3, FS_Subset
  <2>5. Cardinality(before(q)) \in counts
    OBVIOUS
  <2>6. <<Cardinality(before(q)), x>> \in lt
    <3> HIDE DEF before, counts
    <3>1. QED
      BY <1>2, <1>6, <2>4
  <2>7. QED
    BY <1>5, <2>5, <2>6
<1>8. QED
  BY <1>7

(* The heads of the origins are at most as many as the origins with ready  *)
(* work, so a limit that covers those cuts no head off.                    *)
LEMMA AllHeadsOffered ==
    ASSUME TypeOK, RowidsCoherent,
           Cardinality({Origin[r] : r \in InState(Recovered, "pending")}) <= CandidateLimit
    PROVE  readyCandidates(Recovered) = OriginHeads(Recovered)
<1> DEFINE ready == InState(Recovered, "pending")
           heads == OriginHeads(Recovered)
           from == {Origin[r] : r \in ready}
           f == [h \in heads |-> Origin[h]]
<1>1. heads \subseteq ready /\ ready \subseteq Requests /\ ready \subseteq Accepted
  BY RecoveredRowids DEF OriginHeads, InState, Accepted
<1>2. IsFiniteSet(ready) /\ IsFiniteSet(heads)
  BY <1>1, ConfigAssumption, FS_Subset
<1>3. IsFiniteSet(from)
  <2>1. [r \in ready |-> Origin[r]] \in Surjection(ready, from)
    BY DEF Surjection
  <2>2. QED
    BY <1>2, <2>1, FS_Surjection
<1>4. f \in Injection(heads, from)
  <2>1. \A h \in heads : Origin[h] \in from
    BY <1>1
  <2>2. f \in [heads -> from]
    BY <2>1
  <2>3. ASSUME NEW g \in heads, NEW h \in heads, Origin[g] = Origin[h], g # h
        PROVE  FALSE
    <3>1. Precedes(Recovered, g, h) /\ Precedes(Recovered, h, g)
      BY <2>3, <1>1 DEF OriginHeads
    <3>2. QED
      BY <3>1, <1>1, PrecedesIsTotalOrder
  <2>4. QED
    BY <2>2, <2>3 DEF Injection, IsInjective
<1>5. Cardinality(heads) <= Cardinality(from)
  BY <1>3, <1>4, FS_Injection
<1>6. ASSUME NEW h \in heads
      PROVE  Cardinality({q \in heads : Precedes(Recovered, q, h)}) < CandidateLimit
  <2> DEFINE before == {q \in heads : Precedes(Recovered, q, h)}
  <2>1. h \notin before
    BY <1>1, PrecedesIsTotalOrder
  <2>2. before \subseteq heads /\ before # heads
    BY <2>1
  <2>3. Cardinality(before) <= Cardinality(heads) /\ Cardinality(before) # Cardinality(heads)
    <3> HIDE DEF before, heads
    <3>1. QED
      BY <1>2, <2>2, FS_Subset
  <2>4. /\ Cardinality(before) \in Nat /\ Cardinality(heads) \in Nat
        /\ Cardinality(from) \in Nat /\ CandidateLimit \in Nat
    BY <1>2, <1>3, FS_Subset, FS_CardinalityType, ConfigAssumption
  <2>5. Cardinality(from) <= CandidateLimit
    OBVIOUS
  <2> HIDE DEF before, heads, from
  <2>6. Cardinality(before) < CandidateLimit
    BY <2>3, <2>4, <2>5, <1>5
  <2>7. QED
    BY <2>6 DEF before
<1>7. QED
  BY <1>6 DEF readyCandidates

(* leaseNext() finds work whenever an origin that is let through has some. *)
LEMMA ReadyWorkClaimed ==
    TypeOK /\ RowidsCoherent => NoReadyOriginOverlooked
<1> SUFFICES ASSUME TypeOK, RowidsCoherent, NEW blocked \in SUBSET Origins,
                    Cardinality({Origin[r] : r \in InState(Recovered, "pending")})
                        <= CandidateLimit,
                    NEW r \in InState(Recovered, "pending"), Origin[r] \notin blocked
             PROVE  Claimed(Recovered, blocked) # {}
  BY DEF NoReadyOriginOverlooked
<1> DEFINE ready == InState(Recovered, "pending")
           mine == {q \in ready : Origin[q] = Origin[r]}
           open == {h \in readyCandidates(Recovered) : Origin[h] \notin blocked}
<1>1. ready \subseteq Accepted
  BY RecoveredRowids DEF InState, Accepted
<1>2. PICK h \in mine : \A q \in mine : q = h \/ Precedes(Recovered, h, q)
  <2>1. mine \in SUBSET Accepted /\ mine # {}
    BY <1>1
  <2> HIDE DEF mine
  <2>2. QED
    BY <2>1, FirstExists
<1>3. h \in OriginHeads(Recovered)
  BY <1>2 DEF OriginHeads
<1>4. h \in open
  BY <1>2, <1>3, AllHeadsOffered
<1>5. open \in SUBSET Accepted
  BY <1>1 DEF readyCandidates, OriginHeads
<1>6. PICK m \in open : \A q \in open : q = m \/ Precedes(Recovered, m, q)
  <2> HIDE DEF open
  <2>1. QED
    BY <1>4, <1>5, FirstExists
<1>7. QED
  BY <1>6 DEF Claimed

(* The rowids of the table stay apart in every run.                        *)
THEOREM RowidsApart == Spec => []RowidsCoherent
<1>1. Init => RowidsCoherent
  BY DEF Init, RowidsCoherent, Accepted, AbsentRow
<1>2. QED
  BY <1>1, NextRowids, TypeCorrect, PTL DEF Spec

(* leaseNext() never returns null while a request of an origin that would  *)
(* be reserved is ready, and the candidates cover the origins.             *)
THEOREM NoReadyOriginOverlookedHolds == Spec => []NoReadyOriginOverlooked
  BY RowidsApart, TypeCorrect, ReadyWorkClaimed, PTL

-----------------------------------------------------------------------------
(* The implementation of FrontierContract.  A call of the backend is one   *)
(* step of the contract: an accepted key, a batch of lapses with at most   *)
(* one new lease, a lease given back, a completion, a refusal; renewals    *)
(* and the clock are stuttering.  That the new holder of a recovered       *)
(* request is its only holder rests on Inv.                                *)

Lapsed == {r \in Requests : row[r].state = "in_progress" /\ row[r].expiresAt <= now}

(* A worker whose lease is not NoLease holds at most the one request it    *)
(* names; a worker without a lease holds none.                             *)
LEMMA HolderNamesRequest ==
    \A c \in Clients :
        /\ \A r \in Requests : Current(c, r) => r = lease[c].req
        /\ lease[c] = NoLease => \A r \in Requests : ~Current(c, r)
  BY ConfigAssumption DEF Current, NoLease

LEMMA InitRefines == Init => Contract!ContractInit
<1> SUFFICES ASSUME Init PROVE Contract!ContractInit
  OBVIOUS
<1>1. \A r \in Requests : row[r].state = "absent"
  BY DEF Init, AbsentRow
<1>2. \A c \in Clients, r \in Requests : ~Current(c, r)
  BY <1>1 DEF Current
<1>3. ContractStatus = [r \in Requests |-> "unknown"]
  BY <1>1 DEF ContractStatus
<1>4. ContractHolds = [c \in Clients |-> {}]
  BY <1>2 DEF ContractHolds
<1>5. ContractWorking = [c \in Clients |-> {}]
  BY ConfigAssumption DEF ContractWorking, Init, NoLease
<1>6. QED
  BY <1>3, <1>4, <1>5 DEF Contract!ContractInit

(* Leases that end because of S and only those leave the holders' hands.   *)
LEMMA HoldsShrink ==
    ASSUME NEW S \in SUBSET Requests,
           \A c \in Clients, r \in Requests :
               Current(c, r)' <=> Current(c, r) /\ r \notin S
    PROVE  ContractHolds' = Contract!WithoutRequests(S)
  BY DEF ContractHolds, Contract!WithoutRequests

LEMMA EnqueueRefines ==
    ASSUME Inv, NEW r \in Requests, Enqueue(r)
    PROVE  Contract!Accept(r)
<1>1. /\ row[r].state = "absent"
      /\ \A q \in Requests \ {r} : row'[q] = row[q]
      /\ row'[r].state = "pending"
      /\ lease' = lease
  BY DEF Enqueue, Inv, TypeOK, Row
<1>2. \A c \in Clients, q \in Requests : Current(c, q)' <=> Current(c, q)
  BY <1>1 DEF Current
<1>3. ContractHolds' = ContractHolds
  BY <1>2 DEF ContractHolds
<1>4. ContractStatus[r] = "unknown"
  BY <1>1 DEF ContractStatus
<1>5. ContractStatus' = [ContractStatus EXCEPT ![r] = "pending"]
  BY <1>1 DEF ContractStatus
<1>6. ContractWorking' = ContractWorking
  BY <1>1 DEF ContractWorking
<1>7. QED
  BY <1>3, <1>4, <1>5, <1>6 DEF Contract!Accept

(* What recovering the lapsed leases does to one row.                      *)
LEMMA RecoveredState ==
    ASSUME TypeOK, NEW r \in Requests
    PROVE  IF r \in Lapsed THEN Recovered[r].state = "pending"
                           ELSE Recovered[r] = row[r]
<1>1. row[r] \in Row
  BY DEF TypeOK
<1>2. AsPending(row[r]).state = "pending"
  BY <1>1 DEF AsPending, Row
<1>3. QED
  BY <1>2 DEF Recovered, Lapsed

LEMMA RecoverRefines ==
    ASSUME Inv, row' = Recovered, lease' = lease
    PROVE  Contract!Lapse(Lapsed)
<1>1. \A c \in Clients, r \in Requests :
          Current(c, r)' <=> Current(c, r) /\ r \notin Lapsed
  BY RecoveredState DEF Current, Inv
<1>2. ContractHolds' = Contract!WithoutRequests(Lapsed)
  BY <1>1, HoldsShrink DEF Lapsed
<1>3. \A r \in Lapsed : ContractStatus[r] = "in_progress"
  BY DEF Lapsed, ContractStatus
<1>4. ContractStatus' =
          [r \in Requests |-> IF r \in Lapsed THEN "pending" ELSE ContractStatus[r]]
  BY RecoveredState DEF ContractStatus, Inv
<1>5. ContractWorking' = ContractWorking
  BY DEF ContractWorking
<1>6. QED
  BY <1>2, <1>3, <1>4, <1>5 DEF Contract!Lapse

(* A recovered request that is handed out at once has one holder: whoever  *)
(* held it before has a lease from an earlier millisecond.                 *)
LEMMA LeaseNextRefines ==
    ASSUME Inv, NEW c \in Clients, NEW blocked \in SUBSET Origins,
           LeaseNext(c, blocked)
    PROVE  \E r \in Requests : Contract!Lease(c, r, Lapsed)
<1> USE DEF Inv
<1>1. PICK r \in Claimed(Recovered, blocked) :
        /\ row' = [Recovered EXCEPT ![r].state = "in_progress",
                                    ![r].leaseId = now,
                                    ![r].expiresAt = now + LeaseDuration]
        /\ lease' = [lease EXCEPT ![c] = [req |-> r, id |-> now]]
        /\ lease[c] = NoLease
  BY DEF LeaseNext
<1>2. r \in Requests /\ (row[r].state = "pending" \/ r \in Lapsed)
  BY ClaimedIsPending DEF Lapsed
<1>3. /\ row'[r].state = "in_progress" /\ row'[r].leaseId = now
      /\ \A q \in Requests \ {r} : row'[q] = Recovered[q]
  <2>1. Recovered \in [Requests -> Row]
    BY RecoveredRows
  <2>2. QED
    BY <1>1, <1>2, <2>1 DEF Row
<1>4. /\ lease'[c].req = r /\ lease'[c].id = now
      /\ \A d \in Clients \ {c} : lease'[d] = lease[d]
  BY <1>1 DEF TypeOK
<1>5. \A q \in Requests : Current(c, q)' <=> q = r
  BY <1>3, <1>4 DEF Current
<1>6. \A q \in Requests : ~Current(c, q)
  BY <1>1, HolderNamesRequest
<1>7. ASSUME NEW d \in Clients \ {c}, NEW q \in Requests \ {r}
      PROVE  Current(d, q)' <=> Current(d, q) /\ q \notin Lapsed
  BY <1>3, <1>4, RecoveredState DEF Current
<1>8. ASSUME NEW d \in Clients \ {c}
      PROVE  ~Current(d, r)' /\ ~(Current(d, r) /\ r \notin Lapsed)
  <2>1. ~(Current(d, r) /\ r \notin Lapsed)
    BY <1>2 DEF Current
  <2>2. ASSUME lease[d].req = r, lease[d].id = now PROVE FALSE
    <3>1. lease[d] # NoLease
      BY <1>2, <2>2, ConfigAssumption DEF NoLease
    <3>2. Current(d, r)
      BY <2>2, <3>1, ConfigAssumption DEF SingleHolder, TypeOK
    <3>3. row[r].state = "in_progress" /\ row[r].leaseId = now /\ row[r].expiresAt <= now
      BY <1>2, <2>2, <3>2 DEF Current, Lapsed
    <3>4. row[r].leaseId + LeaseDuration <= row[r].expiresAt
      BY <1>2, <3>3 DEF RowsCoherent
    <3>5. row[r].expiresAt \in Int /\ now \in Int
      BY <1>2, ConfigAssumption DEF TypeOK, Row, Times
    <3>6. QED
      BY <3>3, <3>4, <3>5, ConfigAssumption
  <2>3. ~Current(d, r)'
    BY <1>3, <1>4, <2>2 DEF Current
  <2>4. QED
    BY <2>1, <2>3
<1>9. ContractHolds' = [Contract!WithoutRequests(Lapsed) EXCEPT ![c] = @ \cup {r}]
  <2>1. ASSUME NEW d \in Clients \ {c}
        PROVE  {q \in Requests : Current(d, q)'} = {q \in Requests : Current(d, q)} \ Lapsed
    BY <1>7, <1>8
  <2>2. {q \in Requests : Current(c, q)'} = {r}
    BY <1>2, <1>5
  <2>3. {q \in Requests : Current(c, q)} = {}
    BY <1>6
  <2>4. QED
    BY ZenonT(30), <2>1, <2>2, <2>3 DEF ContractHolds, Contract!WithoutRequests
<1>10. ContractStatus' =
          [q \in Requests |-> IF q = r THEN "in_progress"
                              ELSE IF q \in Lapsed THEN "pending"
                              ELSE ContractStatus[q]]
  <2>1. \A q \in Requests \ {r} :
            row'[q].state = IF q \in Lapsed THEN "pending" ELSE row[q].state
    BY <1>3, RecoveredState
  <2>2. QED
    BY <1>3, <2>1 DEF ContractStatus
<1>11. /\ \A q \in Lapsed : ContractStatus[q] = "in_progress"
       /\ ContractStatus[r] = "pending" \/ r \in Lapsed
  BY <1>2 DEF ContractStatus, Lapsed
<1>12. ContractWorking' = [ContractWorking EXCEPT ![c] = @ \cup {r}]
  <2>1. {q \in Requests : lease'[c].req = q} = {r}
    BY <1>2, <1>4
  <2>2. {q \in Requests : lease[c].req = q} = {}
    BY <1>1, ConfigAssumption DEF NoLease
  <2>3. QED
    BY <1>4, <2>1, <2>2 DEF ContractWorking
<1>13. QED
  BY <1>2, <1>9, <1>10, <1>11, <1>12 DEF Contract!Lease

(* release() and the four mark...() calls end the holder's lease only.     *)
LEMMA EndLeaseHolds ==
    ASSUME Inv, NEW c \in Clients, NEW r \in Requests, Current(c, r),
           lease' = [lease EXCEPT ![c] = NoLease],
           row'[r].state # "in_progress",
           \A q \in Requests \ {r} : row'[q] = row[q]
    PROVE  ContractHolds' = Contract!WithoutRequests({r})
<1>1. lease'[c] = NoLease /\ \A d \in Clients \ {c} : lease'[d] = lease[d]
  BY DEF Inv, TypeOK
<1>2. \A q \in Requests : ~Current(c, q)'
  BY <1>1, ConfigAssumption DEF Current, NoLease
<1>3. \A q \in Requests : Current(c, q) => q = r
  BY DEF Current
<1>4. \A d \in Clients \ {c}, q \in Requests :
          Current(d, q)' <=> Current(d, q) /\ q \notin {r}
  <2>1. \A d \in Clients \ {c} : ~Current(d, r)
    BY DEF Inv, SingleHolder
  <2>2. QED
    BY <1>1, <2>1 DEF Current
<1>5. QED
  BY <1>2, <1>3, <1>4, HoldsShrink

(* A worker that drops its lease is no longer at work on its request.      *)
LEMMA DropWorking ==
    ASSUME Inv, NEW c \in Clients, lease' = [lease EXCEPT ![c] = NoLease]
    PROVE  ContractWorking' = [ContractWorking EXCEPT ![c] = @ \ {lease[c].req}]
<1>1. lease'[c] = NoLease /\ \A d \in Clients \ {c} : lease'[d] = lease[d]
  BY DEF Inv, TypeOK
<1>2. {q \in Requests : lease'[c].req = q} = {}
  BY <1>1, ConfigAssumption DEF NoLease
<1>3. {q \in Requests : lease[c].req = q} \ {lease[c].req} = {}
  OBVIOUS
<1>4. QED
  BY ZenonT(30), <1>1, <1>2, <1>3 DEF ContractWorking

LEMMA ReleaseRefines ==
    ASSUME Inv, NEW c \in Clients, Release(c)
    PROVE  \E r \in Requests : Contract!GiveBack(c, r)
<1>1. PICK r \in Requests :
        /\ Current(c, r)
        /\ row' = [row EXCEPT ![r] = AsPending(@)]
        /\ lease' = [lease EXCEPT ![c] = NoLease]
  BY DEF Release
<1>2. row'[r].state = "pending" /\ \A q \in Requests \ {r} : row'[q] = row[q]
  <2>1. row[r] \in Row /\ row'[r] = AsPending(row[r])
    BY <1>1 DEF Inv, TypeOK
  <2>2. QED
    BY <1>1, <2>1 DEF AsPending, Row, Inv, TypeOK
<1>3. ContractHolds' = Contract!WithoutRequests({r})
  BY <1>1, <1>2, EndLeaseHolds
<1>4. ContractStatus' = [ContractStatus EXCEPT ![r] = "pending"]
  BY <1>2 DEF ContractStatus
<1>5. r \in ContractHolds[c]
  BY <1>1 DEF ContractHolds
<1>6. ContractWorking' = [ContractWorking EXCEPT ![c] = @ \ {r}]
  BY <1>1, DropWorking DEF Current
<1>7. QED
  BY <1>3, <1>4, <1>5, <1>6 DEF Contract!GiveBack

LEMMA FinishRefines ==
    ASSUME Inv, NEW c \in Clients, Finish(c)
    PROVE  \E r \in Requests : Contract!Complete(c, r)
<1>1. PICK r \in Requests :
        /\ Current(c, r)
        /\ row' = [row EXCEPT ![r].state = "terminal", ![r].leaseId = NoId,
                              ![r].expiresAt = 0]
        /\ lease' = [lease EXCEPT ![c] = NoLease]
  BY DEF Finish
<1>2. row'[r].state = "terminal" /\ \A q \in Requests \ {r} : row'[q] = row[q]
  BY <1>1 DEF Inv, TypeOK, Row
<1>3. ContractHolds' = Contract!WithoutRequests({r})
  BY <1>1, <1>2, EndLeaseHolds
<1>4. ContractStatus' = [ContractStatus EXCEPT ![r] = "terminal"]
  BY <1>2 DEF ContractStatus
<1>5. r \in ContractHolds[c]
  BY <1>1 DEF ContractHolds
<1>6. ContractWorking' = [ContractWorking EXCEPT ![c] = @ \ {r}]
  BY <1>1, DropWorking DEF Current
<1>7. QED
  BY <1>3, <1>4, <1>5, <1>6 DEF Contract!Complete

(* A renewal changes neither who holds a row nor its state.                *)
LEMMA RenewRefines ==
    ASSUME Inv, NEW c \in Clients, Renew(c)
    PROVE  UNCHANGED <<ContractStatus, ContractWorking, ContractHolds>>
<1>1. PICK r \in Requests :
        /\ row' = [row EXCEPT ![r].expiresAt = now + LeaseDuration]
        /\ lease' = lease
  BY DEF Renew
<1>2. \A q \in Requests : row'[q].state = row[q].state /\ row'[q].leaseId = row[q].leaseId
  BY <1>1 DEF Inv, TypeOK, Row
<1>3. QED
  BY <1>1, <1>2 DEF ContractStatus, ContractWorking, ContractHolds, Current

(* A refused worker held nothing to begin with.                            *)
LEMMA RejectStaleRefines ==
    ASSUME Inv, NEW c \in Clients, RejectStale(c)
    PROVE  \E r \in Requests : Contract!Refuse(c, r)
<1>1. /\ row' = row /\ lease'[c] = NoLease
      /\ \A d \in Clients \ {c} : lease'[d] = lease[d]
  BY DEF RejectStale, Inv, TypeOK
<1>2. \A q \in Requests : ~Current(c, q) /\ ~Current(c, q)'
  BY <1>1, ConfigAssumption DEF RejectStale, Current, NoLease
<1>3. \A d \in Clients \ {c}, q \in Requests : Current(d, q)' <=> Current(d, q)
  BY <1>1 DEF Current
<1>4. UNCHANGED <<ContractStatus, ContractHolds>>
  BY <1>1, <1>2, <1>3 DEF ContractStatus, ContractHolds
<1>5. ContractWorking' = [ContractWorking EXCEPT ![c] = @ \ {lease[c].req}]
  BY DropWorking DEF RejectStale
<1>6. lease[c].req \in Requests
  BY DEF RejectStale, Inv, LeasesCoherent
<1>7. lease[c].req \in ContractWorking[c] \ ContractHolds[c]
  BY <1>2, <1>6 DEF ContractWorking, ContractHolds
<1>8. QED
  BY <1>4, <1>5, <1>6, <1>7 DEF Contract!Refuse

LEMMA CrashRefines ==
    ASSUME Inv, Crash
    PROVE  Contract!Forget(Clients, {})
<1>1. \A c \in Clients, r \in Requests : ~Current(c, r)'
  BY ConfigAssumption DEF Crash, Current, NoLease
<1>2. ContractHolds' = [c \in Clients |-> {}]
  BY <1>1 DEF ContractHolds
<1>3. ContractStatus' = ContractStatus
  BY DEF Crash, ContractStatus
<1>4. ContractWorking' = [c \in Clients |-> {}]
  BY ConfigAssumption DEF Crash, ContractWorking, NoLease
<1>5. ContractStatus = [r \in Requests |-> ContractStatus[r]]
  BY DEF ContractStatus
<1>6. QED
  BY <1>2, <1>3, <1>4, <1>5 DEF Contract!Forget

LEMMA StepRefines ==
    Inv /\ [Next]_vars => [Contract!ContractNext]_(Contract!contractVars)
<1> SUFFICES ASSUME Inv, [Next]_vars
             PROVE  \/ Contract!ContractNext
                    \/ UNCHANGED <<ContractStatus, ContractWorking, ContractHolds>>
  BY DEF Contract!contractVars
<1> USE DEF Contract!ContractNext
<1>1. ASSUME NEW r \in Requests, Enqueue(r) PROVE Contract!ContractNext
  BY <1>1, EnqueueRefines
<1>2. ASSUME NEW c \in Clients, NEW b \in SUBSET Origins, LeaseNext(c, b)
      PROVE  Contract!ContractNext
  BY <1>2, LeaseNextRefines DEF Lapsed
<1>3. ASSUME NEW c \in Clients, NEW b \in SUBSET Origins, LeaseNextNull(c, b)
      PROVE  Contract!ContractNext
  BY <1>3, RecoverRefines DEF LeaseNextNull, Lapsed
<1>4. ASSUME NEW c \in Clients, Renew(c)
      PROVE  UNCHANGED <<ContractStatus, ContractWorking, ContractHolds>>
  BY <1>4, RenewRefines
<1>5. ASSUME NEW c \in Clients, Release(c) PROVE Contract!ContractNext
  BY <1>5, ReleaseRefines
<1>6. ASSUME NEW c \in Clients, Finish(c) PROVE Contract!ContractNext
  BY <1>6, FinishRefines
<1>7. ASSUME NEW c \in Clients, RejectStale(c) PROVE Contract!ContractNext
  BY <1>7, RejectStaleRefines
<1>8. ASSUME Crash PROVE Contract!ContractNext
  BY <1>8, CrashRefines
<1>9. ASSUME Resume PROVE Contract!ContractNext
  BY <1>9, RecoverRefines DEF Resume, Lapsed
<1>10. ASSUME Tick \/ UNCHANGED vars
       PROVE  UNCHANGED <<ContractStatus, ContractWorking, ContractHolds>>
  BY <1>10 DEF Tick, vars, ContractStatus, ContractWorking, ContractHolds, Current
<1>11. QED
  BY <1>1, <1>2, <1>3, <1>4, <1>5, <1>6, <1>7, <1>8, <1>9, <1>10 DEF Next

(* The SQLite backend is a single-owner frontier whose terminal states are *)
(* final, through lapses, late renewals, crashes and resumes.              *)
THEOREM Refinement == Spec => ImplementsContract
  BY InitRefines, StepRefines, Invariance, PTL
  DEF Spec, ImplementsContract, Contract!ContractSpec

-----------------------------------------------------------------------------
(* What the contract guarantees, so what this backend does.                *)
ContractInv == Contract!ContractTypeOK /\ Contract!SingleOwner

LEMMA ContractStep ==
    ContractInv /\ [Contract!ContractNext]_(Contract!contractVars) => ContractInv'
<1> SUFFICES ASSUME ContractInv, [Contract!ContractNext]_(Contract!contractVars)
             PROVE  ContractInv'
  OBVIOUS
<1> USE DEF ContractInv, Contract!ContractTypeOK, Contract!SingleOwner, Contract!Status, Contract!WithoutRequests
<1>1. ASSUME NEW r \in Requests, Contract!Accept(r) PROVE ContractInv'
  BY <1>1 DEF Contract!Accept
<1>2. ASSUME NEW S \in SUBSET Requests, Contract!Lapse(S) PROVE ContractInv'
  BY <1>2 DEF Contract!Lapse
<1>3. ASSUME NEW c \in Clients, NEW r \in Requests, NEW S \in SUBSET Requests,
             Contract!Lease(c, r, S)
      PROVE  ContractInv'
  <2>1. /\ ContractStatus'[r] = "in_progress"
        /\ \A q \in Requests \ S : q # r => ContractStatus'[q] = ContractStatus[q]
    BY <1>3 DEF Contract!Lease
  <2>2. /\ ContractHolds'[c] = (ContractHolds[c] \ S) \cup {r}
        /\ ContractWorking'[c] = ContractWorking[c] \cup {r}
        /\ \A d \in Clients \ {c} : ContractHolds'[d] = ContractHolds[d] \ S /\ ContractWorking'[d] = ContractWorking[d]
    BY <1>3 DEF Contract!Lease
  <2>3. \A d \in Clients : r \notin ContractHolds[d] \ S
    BY <1>3 DEF Contract!Lease
  <2>4. Contract!ContractTypeOK'
    BY <1>3 DEF Contract!Lease
  <2>5. Contract!SingleOwner'
    BY <2>1, <2>2, <2>3
  <2>6. QED
    BY <2>4, <2>5
<1>4. ASSUME NEW c \in Clients, NEW r \in Requests, Contract!GiveBack(c, r) PROVE ContractInv'
  BY <1>4 DEF Contract!GiveBack
<1>5. ASSUME NEW c \in Clients, NEW r \in Requests, Contract!Complete(c, r) PROVE ContractInv'
  BY <1>5 DEF Contract!Complete
<1>6. ASSUME NEW c \in Clients, NEW r \in Requests, Contract!Refuse(c, r) PROVE ContractInv'
  BY <1>6 DEF Contract!Refuse
<1>7. ASSUME NEW dead \in SUBSET Clients, NEW S \in SUBSET Requests, Contract!Forget(dead, S)
      PROVE  ContractInv'
  BY <1>7 DEF Contract!Forget
<1>8. CASE UNCHANGED Contract!contractVars
  BY <1>8 DEF Contract!contractVars
<1>9. QED
  BY <1>1, <1>2, <1>3, <1>4, <1>5, <1>6, <1>7, <1>8 DEF Contract!ContractNext

(* No two workers own one request, however leases lapse and move.          *)
THEOREM ContractSingleOwner == Contract!ContractSpec => []Contract!SingleOwner
<1>1. Contract!ContractInit => ContractInv
  BY DEF Contract!ContractInit, ContractInv, Contract!ContractTypeOK, Contract!SingleOwner, Contract!Status
<1>2. QED
  BY <1>1, ContractStep, PTL DEF Contract!ContractSpec, ContractInv

(* Terminal requests stay terminal and accepted ones stay known.           *)
THEOREM ContractLifecycle == Contract!ContractSpec => Contract!LifecycleMonotone
<1>1. ASSUME ContractInv, [Contract!ContractNext]_(Contract!contractVars)
      PROVE  [\A r \in Requests :
                /\ ContractStatus[r] = "terminal" => ContractStatus'[r] = "terminal"
                /\ ContractStatus[r] # "unknown" => ContractStatus'[r] # "unknown"]_(Contract!contractVars)
  <2> DEFINE Forward(r) == /\ ContractStatus[r] = "terminal" => ContractStatus'[r] = "terminal"
                           /\ ContractStatus[r] # "unknown" => ContractStatus'[r] # "unknown"
  <2> SUFFICES ASSUME NEW r \in Requests PROVE Forward(r)
    BY Zenon
  <2> USE DEF ContractInv, Contract!ContractTypeOK, Contract!SingleOwner
  <2>1. ASSUME NEW q \in Requests, Contract!Accept(q) PROVE Forward(r)
    BY <2>1 DEF Contract!Accept
  <2>2. ASSUME NEW S \in SUBSET Requests, Contract!Lapse(S) PROVE Forward(r)
    BY <2>2 DEF Contract!Lapse
  <2>3. ASSUME NEW c \in Clients, NEW q \in Requests, NEW S \in SUBSET Requests,
               Contract!Lease(c, q, S)
        PROVE  Forward(r)
    BY <2>3 DEF Contract!Lease
  <2>4. ASSUME NEW c \in Clients, NEW q \in Requests, Contract!GiveBack(c, q) PROVE Forward(r)
    <3>1. q \in ContractHolds[c] /\ ContractStatus' = [ContractStatus EXCEPT ![q] = "pending"]
      BY <2>4 DEF Contract!GiveBack
    <3>2. ContractStatus[q] = "in_progress"
      BY <1>1, <3>1
    <3>3. QED
      BY <3>1, <3>2
  <2>5. ASSUME NEW c \in Clients, NEW q \in Requests, Contract!Complete(c, q) PROVE Forward(r)
    <3>1. ContractStatus' = [ContractStatus EXCEPT ![q] = "terminal"]
      BY <2>5 DEF Contract!Complete
    <3>2. QED
      BY <3>1
  <2>6. ASSUME NEW dead \in SUBSET Clients, NEW S \in SUBSET Requests, Contract!Forget(dead, S)
        PROVE  Forward(r)
    BY <2>6 DEF Contract!Forget
  <2>7. ASSUME NEW c \in Clients, NEW q \in Requests, Contract!Refuse(c, q) PROVE Forward(r)
    BY <2>7 DEF Contract!Refuse
  <2>8. ASSUME UNCHANGED Contract!contractVars PROVE Forward(r)
    BY <2>8 DEF Contract!contractVars
  <2> HIDE DEF Forward
  <2>9. QED
    BY <1>1, <2>1, <2>2, <2>3, <2>4, <2>5, <2>6, <2>7, <2>8 DEF Contract!ContractNext
<1>2. Contract!ContractInit => ContractInv
  BY DEF Contract!ContractInit, ContractInv, Contract!ContractTypeOK, Contract!SingleOwner, Contract!Status
<1>3. QED
  BY <1>1, <1>2, ContractStep, PTL DEF Contract!ContractSpec, Contract!LifecycleMonotone

(* Through lapses, late renewals, crashes and resumes no request is in the *)
(* hands of two workers, and what a worker holds is leased in the database *)
(* (activeLeaseOwnership "single-owner").                                  *)
THEOREM SingleOwnerHolds == Spec => []Contract!SingleOwner
  BY Refinement, ContractSingleOwner, PTL DEF ImplementsContract

(* A request that was finished stays so, and an accepted one stays known   *)
(* (terminalState "idempotent").                                           *)
THEOREM LifecycleHolds == Spec => Contract!LifecycleMonotone
  BY Refinement, ContractLifecycle, PTL DEF ImplementsContract
=============================================================================
