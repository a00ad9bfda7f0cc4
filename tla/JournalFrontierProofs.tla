----------------------- MODULE JournalFrontierProofs -----------------------
(***************************************************************************)
(* Proofs about JournalFrontier, for any requests, workers, lease duration *)
(* and queue size, and for any number of crashes, torn writes and failed   *)
(* writes.                                                                 *)
(*                                                                         *)
(* A call takes its turn at the transition mutex, hands a record to the    *)
(* drain loop and changes the memory only when that record is written.     *)
(* MemoryInv says what stays true while it waits: the record is that of    *)
(* the call at the head of the mutex, and the lease it was checked against *)
(* is still the active one.  It needs no assumption on the file.           *)
(*                                                                         *)
(* FileCoherent and LogCoherent then say what the file tells of that       *)
(* memory: it is one landed record ahead at most, and its last word on a   *)
(* lease is the memory's, so that a record the memory allows is one that a *)
(* later load() accepts.  They hold until a record is spliced onto an      *)
(* unterminated line or refused after it landed (damaged).                 *)
(***************************************************************************)
EXTENDS JournalFrontier, FiniteSetTheorems, WellFoundedInduction, TLAPS

(* The process is not there.                                               *)
Absent ==
    mode # "up" =>
        /\ transitions = <<>> /\ pending = <<>> /\ landed = "no" /\ known = {}
        /\ \A r \in Requests : queued[r] = 0 /\ deferred[r] = NoTime /\ active[r] = NoTime
        /\ \A c \in Clients : lease[c] = NoLease

Written == {"enqueued", "leased", "renewed", "released", "terminal"}

(* A transition on its way to the file is that of the call which holds the *)
(* mutex; what assertActive found is still so.                             *)
OfTheHolder(rec) ==
    /\ transitions # <<>>
    /\ rec.type = Head(transitions).kind /\ rec.req = Head(transitions).req
    /\ rec.type # "leased" => rec.id = Head(transitions).id /\ active[rec.req] = rec.id
    /\ rec.id # NoTime
    /\ rec.type \in {"leased", "renewed"} => rec.exp # NoTime

(* Of the records on their way to the file one at most is an enqueue, and  *)
(* one at most a transition.                                               *)
PendingCoherent ==
    /\ \A i, j \in 1..Len(pending) :
          (pending[i].type = "enqueued" <=> pending[j].type = "enqueued") => i = j
    /\ \A i \in 1..Len(pending) :
          /\ pending[i].type \in Written
          /\ pending[i].type = "enqueued" => pending[i].req \in Requests \ known
          /\ pending[i].type # "enqueued" => OfTheHolder(pending[i])
    /\ landed # "no" => pending # <<>>

(* A worker has one call at a time under way, but for its heartbeat.       *)
CallsCoherent ==
    /\ \A i \in 1..Len(transitions) :
          LET call == transitions[i] IN
          /\ call.kind = "leased" => lease[call.client] = NoLease
          /\ call.kind # "leased" => call.id # NoTime
          /\ call.kind \in {"released", "terminal"}
                => lease[call.client] = [req |-> call.req, id |-> call.id]
    /\ \A i, j \in 1..Len(transitions) :
          /\ transitions[i].client = transitions[j].client
          /\ transitions[i].kind # "renewed" /\ transitions[j].kind # "renewed"
          => i = j

(* A lease a worker holds is active, and no other worker's.                *)
LeasesActive ==
    /\ \A c \in Clients : lease[c] # NoLease =>
          /\ lease[c].req \in Requests /\ lease[c].id # NoTime
          /\ active[lease[c].req] = lease[c].id
    /\ \A c, d \in Clients : lease[c].req = lease[d].req => c = d \/ lease[c] = NoLease

(* Every request stays in as many places as it was.                        *)
PlacesKept == \A q \in Requests : Places(q)' = Places(q)

MemoryInv ==
    TypeOK /\ Absent /\ PendingCoherent /\ CallsCoherent /\ LeasesActive /\ OnePlace

-----------------------------------------------------------------------------
(* Sets of positions.                                                      *)

(* A non-empty set of positions has a last one.                            *)
LEMMA LastOfPositions ==
    ASSUME NEW n \in Nat, NEW S, S \subseteq 1..n, S # {}
    PROVE  LastOf(S) \in S /\ \A j \in S : j <= LastOf(S)
<1> DEFINE R == {ss \in Nat \X Nat : ss[1] < ss[2]}
           T == {n - i : i \in S}
<1>1. IsWellFoundedOn(R, Nat)
  BY NatLessThanWellFounded DEF OpToRel
<1>2. T \subseteq Nat
  OBVIOUS
<1>3. T # {}
  OBVIOUS
<1>4. PICK x \in T : \A y \in T : ~ (<<y, x>> \in R)
  <2> HIDE DEF R, T
  <2> QED
    BY <1>1, <1>2, <1>3, WFMin
<1>5. PICK i \in S : x = n - i
  OBVIOUS
<1>6. ASSUME NEW j \in S PROVE j <= i
  <2>1. n - j \in T /\ n - j \in Nat /\ x \in Nat
    BY <1>2
  <2>2. ~ (<<n - j, x>> \in R)
    BY <1>4, <2>1
  <2>3. ~ (n - j < x)
    BY <2>1, <2>2
  <2> QED
    BY <2>3, <1>5
<1> QED
  BY <1>6 DEF LastOf

(* The calls of leaseNext() for request r in the queue s of the mutex.     *)
LeasesOf(s, r) == {i \in 1..Len(s) : s[i].kind = "leased" /\ s[i].req = r}
Counts(call, r) == IF call.kind = "leased" /\ call.req = r THEN 1 ELSE 0

LEMMA LeasesCounted ==
    ASSUME NEW s \in Seq(Call), NEW r
    PROVE  IsFiniteSet(LeasesOf(s, r)) /\ Cardinality(LeasesOf(s, r)) \in Nat
<1>1. LeasesOf(s, r) \subseteq 1..Len(s) /\ Len(s) \in Nat
  BY DEF LeasesOf
<1> QED
  <2>1. IsFiniteSet(1..Len(s))
    BY <1>1, FS_Interval
  <2> QED
    BY <1>1, <2>1, FS_Subset, FS_CardinalityType

(* A call that joins the queue of the mutex is one more.                   *)
LEMMA LeasesAfterCall ==
    ASSUME NEW s \in Seq(Call), NEW call \in Call, NEW r
    PROVE  Cardinality(LeasesOf(Append(s, call), r))
               = Cardinality(LeasesOf(s, r)) + Counts(call, r)
<1>1. LeasesOf(Append(s, call), r) =
        LeasesOf(s, r) \cup (IF Counts(call, r) = 1 THEN {Len(s) + 1} ELSE {})
  BY DEF LeasesOf, Counts
<1>2. Len(s) + 1 \notin LeasesOf(s, r)
  BY DEF LeasesOf
<1>3. CASE Counts(call, r) = 1
  <2>1. LeasesOf(Append(s, call), r) = LeasesOf(s, r) \cup {Len(s) + 1}
    BY <1>1, <1>3
  <2> QED
    BY <1>2, <1>3, <2>1, LeasesCounted, FS_AddElement
<1>4. CASE Counts(call, r) # 1
  <2>1. LeasesOf(Append(s, call), r) = LeasesOf(s, r)
    BY <1>1, <1>4
  <2>2. Counts(call, r) = 0
    BY <1>4 DEF Counts
  <2> QED
    BY <2>1, <2>2, LeasesCounted
<1> QED
  BY <1>3, <1>4

(* The call that held the mutex leaves it.                                 *)
LEMMA LeasesAfterTurn ==
    ASSUME NEW s \in Seq(Call), s # <<>>, NEW r
    PROVE  Cardinality(LeasesOf(s, r))
               = Cardinality(LeasesOf(Tail(s), r)) + Counts(Head(s), r)
<1> DEFINE Later == LeasesOf(s, r) \ {1}
           f == [i \in Later |-> i - 1]
<1>0. Tail(s) \in Seq(Call) /\ Len(Tail(s)) = Len(s) - 1
      /\ \A i \in 1..Len(Tail(s)) : Tail(s)[i] = s[i + 1]
      /\ Len(s) \in Nat \ {0} /\ Head(s) = s[1]
  OBVIOUS
<1>1. f \in Bijection(Later, LeasesOf(Tail(s), r))
  <2>1. \A i \in Later : f[i] \in LeasesOf(Tail(s), r)
    BY <1>0 DEF LeasesOf
  <2>2. \A i \in LeasesOf(Tail(s), r) : i + 1 \in Later /\ f[i + 1] = i
    BY <1>0 DEF LeasesOf
  <2>3. \A i, j \in Later : f[i] = f[j] => i = j
    BY DEF LeasesOf
  <2> HIDE DEF Later
  <2>4. f \in [Later -> LeasesOf(Tail(s), r)]
    BY <2>1
  <2> HIDE DEF f
  <2> QED
    BY <2>1, <2>2, <2>3, <2>4 DEF Bijection, Injection, Surjection, IsInjective
<1>2. IsFiniteSet(LeasesOf(s, r)) /\ IsFiniteSet(Later)
  BY LeasesCounted, FS_Subset
<1>3. Cardinality(Later) = Cardinality(LeasesOf(Tail(s), r))
  BY <1>1, <1>2, FS_Bijection DEF ExistsBijection
<1>4. CASE Counts(Head(s), r) = 1
  <2>1. 1 \in LeasesOf(s, r)
    BY <1>0, <1>4 DEF LeasesOf, Counts
  <2>2. Cardinality(Later) = Cardinality(LeasesOf(s, r)) - 1
    BY <2>1, LeasesCounted, FS_RemoveElement
  <2> QED
    BY <2>2, <1>3, <1>4, LeasesCounted
<1>5. CASE Counts(Head(s), r) # 1
  <2>1. 1 \notin LeasesOf(s, r)
    BY <1>0, <1>5 DEF LeasesOf, Counts
  <2>2. Later = LeasesOf(s, r) /\ Counts(Head(s), r) = 0
    BY <2>1, <1>5 DEF Counts
  <2>3. Cardinality(LeasesOf(s, r)) = Cardinality(LeasesOf(Tail(s), r))
    BY <2>2, <1>3
  <2>4. Cardinality(LeasesOf(Tail(s), r)) \in Nat
    BY <1>0, LeasesCounted
  <2> QED
    BY <2>2, <2>3, <2>4
<1> QED
  BY <1>4, <1>5

-----------------------------------------------------------------------------
(* The steps that change no lease: enqueueing, leasing nothing, and the    *)
(* writes themselves.                                                      *)

LEMMA InitMemory == Init => MemoryInv
<1> SUFFICES ASSUME Init PROVE MemoryInv
  OBVIOUS
<1> USE ConfigAssumption
<1>1. TypeOK
  <2>1. NoTime \in Times /\ 1 \in 1..MaxTime
    BY DEF Times, NoTime
  <2>2. tail \in Record /\ lease \in [Clients -> [req : Requests \cup {NoRequest}, id : Times]]
    BY <2>1 DEF Init, NoTail, NonRecord, Record, RecordType, NoLease
  <2>3. lines \in Seq(Record) /\ pending \in Seq(Record) /\ transitions \in Seq(Call)
    BY DEF Init
  <2>4. /\ now \in 1..MaxTime /\ crashes \in 0..MaxCrashes /\ faults \in 0..MaxFaults
        /\ sequence \in Nat
        /\ mode \in {"up", "down", "refused"} /\ landed \in {"no", "full", "torn"}
    BY <2>1 DEF Init
  <2>6. damaged \in BOOLEAN
    BY Zenon DEF Init
  <2>5. /\ queued \in [Requests -> Nat] /\ deferred \in [Requests -> Times]
        /\ active \in [Requests -> Times]
        /\ known = {} /\ acked = {} /\ done = {} /\ inherited = {}
    BY <2>1 DEF Init
  <2> QED
    BY <2>2, <2>3, <2>4, <2>5, <2>6 DEF TypeOK
<1>2. Absent /\ PendingCoherent /\ CallsCoherent
  BY DEF Init, Absent, PendingCoherent, CallsCoherent
<1>3. LeasesActive
  BY DEF Init, LeasesActive, NoLease
<1>4. OnePlace
  <2> SUFFICES ASSUME NEW r \in Requests PROVE Places(r) = 0
    BY DEF OnePlace, Init
  <2>1. {i \in 1..Len(transitions) :
            transitions[i].kind = "leased" /\ transitions[i].req = r} = {}
    BY DEF Init
  <2>2. BeingLeased(r) = 0
    BY <2>1, FS_EmptySet DEF BeingLeased
  <2> QED
    BY <2>2 DEF Places, Init, NoTime
<1> QED
  BY <1>1, <1>2, <1>3, <1>4 DEF MemoryInv

LEMMA EnqueueMemory ==
    ASSUME MemoryInv, NEW r \in Requests, Enqueue(r)
    PROVE  MemoryInv'
<1> DEFINE rec == [NonRecord("enqueued") EXCEPT !.req = r]
<1>0. rec \in Record /\ rec.type = "enqueued" /\ rec.req = r
  BY ConfigAssumption DEF NonRecord, Record, RecordType, Times, NoTime
<1> HIDE DEF rec
<1>1. pending' = Append(pending, rec) /\ pending \in Seq(Record)
  BY DEF Enqueue, MemoryInv, TypeOK, rec
<1>2. TypeOK'
  BY <1>0, <1>1 DEF Enqueue, MemoryInv, TypeOK, clockVars, fileVars, stateVars, callerVars, historyVars
<1>3. Absent' /\ CallsCoherent' /\ LeasesActive'
  BY DEF Enqueue, MayCall, MemoryInv, Absent, CallsCoherent, LeasesActive,
         clockVars, fileVars, stateVars, callerVars, historyVars
<1>4. PendingCoherent'
  <2>1. /\ Len(pending') = Len(pending) + 1 /\ pending'[Len(pending) + 1] = rec
        /\ \A i \in 1..Len(pending) : pending'[i] = pending[i]
        /\ Len(pending) \in Nat
    BY <1>1
  <2>2. \A i \in 1..Len(pending) : pending[i].type # "enqueued"
    BY DEF Enqueue, Enqueuing
  <2>3. r \notin known /\ UNCHANGED <<known, transitions, active, landed>>
    BY DEF Enqueue, stateVars
  <2>4. PendingCoherent
    BY DEF MemoryInv
  <2>5. \A i, j \in 1..Len(pending') :
           (pending'[i].type = "enqueued" <=> pending'[j].type = "enqueued") => i = j
    BY <1>0, <2>1, <2>2, <2>4 DEF PendingCoherent
  <2>6. ASSUME NEW i \in 1..Len(pending')
        PROVE  /\ pending'[i].type \in Written
               /\ pending'[i].type = "enqueued" => pending'[i].req \in Requests \ known'
               /\ pending'[i].type # "enqueued" => OfTheHolder(pending[i])'
    <3>1. CASE i = Len(pending) + 1
      BY <1>0, <2>1, <2>3, <3>1 DEF Written
    <3>2. CASE i \in 1..Len(pending)
      BY <2>1, <2>3, <2>4, <3>2 DEF PendingCoherent, OfTheHolder
    <3> QED
      BY <2>1, <3>1, <3>2
  <2> QED
    BY <1>1, <2>3, <2>4, <2>5, <2>6 DEF PendingCoherent
<1>5. OnePlace'
  BY DEF Enqueue, MemoryInv, OnePlace, Places, BeingLeased,
         clockVars, fileVars, stateVars, callerVars, historyVars
<1> QED
  BY <1>2, <1>3, <1>4, <1>5 DEF MemoryInv

(* A lease of the dead process that has run out moves its request from the *)
(* deferred list to the queue.                                             *)
LEMMA PromotionMoves ==
    ASSUME MemoryInv
    PROVE  /\ WithPromoted \in [Requests -> Nat]
           /\ WithoutPromoted \in [Requests -> Times]
           /\ \A r \in Requests :
                WithPromoted[r] + (IF WithoutPromoted[r] # NoTime THEN 1 ELSE 0)
                    = queued[r] + (IF deferred[r] # NoTime THEN 1 ELSE 0)
<1>1. queued \in [Requests -> Nat] /\ deferred \in [Requests -> Times] /\ NoTime \in Times
  BY ConfigAssumption DEF MemoryInv, TypeOK, Times, NoTime
<1> QED
  BY <1>1 DEF WithPromoted, WithoutPromoted, Promoted

LEMMA LeaseNextNullMemory ==
    ASSUME MemoryInv, NEW c \in Clients, LeaseNextNull(c)
    PROVE  MemoryInv' /\ PlacesKept
<1> USE DEF clockVars, fileVars, journalVars, callerVars, historyVars
<1>1. TypeOK'
  BY PromotionMoves DEF LeaseNextNull, MemoryInv, TypeOK
<1>2. Absent' /\ CallsCoherent' /\ LeasesActive'
  BY DEF LeaseNextNull, MemoryInv, Absent, CallsCoherent, LeasesActive
<1>3. PendingCoherent'
  BY DEF LeaseNextNull, MemoryInv, PendingCoherent, OfTheHolder
<1>p. PlacesKept
  <2> SUFFICES ASSUME NEW r \in Requests PROVE Places(r)' = Places(r)
    BY DEF PlacesKept
  <2>1. BeingLeased(r)' = BeingLeased(r)
    BY DEF LeaseNextNull, BeingLeased
  <2>2. BeingLeased(r) \in Nat
    BY LeasesCounted DEF BeingLeased, LeasesOf, MemoryInv, TypeOK
  <2>3. queued[r] \in Nat /\ WithPromoted[r] \in Nat
    BY PromotionMoves DEF MemoryInv, TypeOK
  <2> QED
    BY <2>1, <2>2, <2>3, PromotionMoves DEF LeaseNextNull, Places
<1>4. OnePlace'
  BY <1>p DEF LeaseNextNull, MemoryInv, OnePlace, PlacesKept
<1> QED
  BY <1>p, <1>1, <1>2, <1>3, <1>4 DEF MemoryInv

LEMMA LeaseNextMemory ==
    ASSUME MemoryInv, NEW c \in Clients, NEW r \in Requests, LeaseNext(c, r)
    PROVE  MemoryInv' /\ PlacesKept
<1> USE DEF clockVars, fileVars, journalVars, callerVars, historyVars
<1> DEFINE call == [kind |-> "leased", client |-> c, req |-> r, id |-> NoTime]
<1>0. call \in Call /\ call.kind = "leased" /\ call.client = c /\ call.req = r
  BY ConfigAssumption DEF Call, Times, NoTime
<1> HIDE DEF call
<1>1. transitions' = Append(transitions, call) /\ transitions \in Seq(Call)
  BY DEF LeaseNext, MemoryInv, TypeOK, call
<1>2. /\ Len(transitions') = Len(transitions) + 1 /\ transitions'[Len(transitions) + 1] = call
      /\ \A i \in 1..Len(transitions) : transitions'[i] = transitions[i]
      /\ Len(transitions) \in Nat
      /\ transitions # <<>> => Head(transitions') = Head(transitions)
      /\ transitions' # <<>>
  BY <1>1
<1>3. TypeOK'
  <2>1. transitions' \in Seq(Call)
    BY <1>0, <1>1
  <2>2. queued' \in [Requests -> Nat] /\ deferred' \in [Requests -> Times]
    BY PromotionMoves DEF LeaseNext
  <2> QED
    BY <2>1, <2>2 DEF LeaseNext, MemoryInv, TypeOK
<1>4. Absent' /\ LeasesActive'
  BY DEF LeaseNext, MayCall, MemoryInv, Absent, LeasesActive
<1>5. CallsCoherent'
  <2>1. \A i \in 1..Len(transitions) :
            transitions[i].client = c => transitions[i].kind = "renewed"
    BY DEF LeaseNext, Busy, CallsOf
  <2>2. lease[c] = NoLease /\ lease' = lease /\ CallsCoherent
    BY DEF LeaseNext, MemoryInv
  <2>3. ASSUME NEW i \in 1..Len(transitions')
        PROVE  /\ transitions'[i].kind = "leased" => lease[transitions'[i].client] = NoLease
               /\ transitions'[i].kind # "leased" => transitions'[i].id # NoTime
               /\ transitions'[i].kind \in {"released", "terminal"}
                    => lease[transitions'[i].client] =
                          [req |-> transitions'[i].req, id |-> transitions'[i].id]
    <3>1. CASE i = Len(transitions) + 1
      BY <1>0, <1>2, <2>2, <3>1
    <3>2. CASE i \in 1..Len(transitions)
      BY <1>2, <2>2, <3>2 DEF CallsCoherent
    <3> QED
      BY <1>2, <3>1, <3>2
  <2>4. \A i, j \in 1..Len(transitions') :
           /\ transitions'[i].client = transitions'[j].client
           /\ transitions'[i].kind # "renewed" /\ transitions'[j].kind # "renewed"
           => i = j
    BY <1>0, <1>2, <2>1, <2>2 DEF CallsCoherent
  <2> QED
    BY <2>2, <2>3, <2>4 DEF CallsCoherent
<1>6. PendingCoherent'
  BY <1>2 DEF LeaseNext, MemoryInv, PendingCoherent, OfTheHolder
<1>p. PlacesKept
  <2> SUFFICES ASSUME NEW q \in Requests PROVE Places(q)' = Places(q)
    BY DEF PlacesKept
  <2>1. BeingLeased(q)' = BeingLeased(q) + Counts(call, q)
    BY <1>0, <1>1, LeasesAfterCall DEF BeingLeased, LeasesOf
  <2>2. BeingLeased(q) \in Nat
    BY LeasesCounted DEF BeingLeased, LeasesOf, MemoryInv, TypeOK
  <2>3. queued[q] \in Nat /\ WithPromoted[q] \in Nat
        /\ queued'[q] = WithPromoted[q] - Counts(call, q)
    BY <1>0, PromotionMoves DEF LeaseNext, MemoryInv, TypeOK, Counts
  <2>4. deferred'[q] = WithoutPromoted[q] /\ active' = active
        /\ Counts(call, q) \in {0, 1}
    BY DEF LeaseNext, Counts
  <2> QED
    BY <2>1, <2>2, <2>3, <2>4, PromotionMoves DEF Places
<1>7. OnePlace'
  BY <1>p DEF LeaseNext, MemoryInv, OnePlace, PlacesKept
<1> QED
  BY <1>p, <1>3, <1>4, <1>5, <1>6, <1>7 DEF MemoryInv

-----------------------------------------------------------------------------
(* The steps that leave the memory to the file: it changes when the write  *)
(* is reported only.                                                       *)

LEMMA LandWriteMemory ==
    ASSUME MemoryInv, LandWrite
    PROVE  MemoryInv'
<1> USE DEF clockVars, stateVars, callerVars
<1>1. TypeOK'
  <2>1. Garbage \in Record /\ NoTail \in Record
    BY ConfigAssumption DEF Garbage, NoTail, NonRecord, Record, RecordType, Times, NoTime
  <2>2. Sequenced \in Record
    <3>1. Head(pending) \in Record /\ sequence + 1 \in Nat
      BY DEF LandWrite, MemoryInv, TypeOK
    <3> QED
      BY <3>1 DEF Sequenced, Record
  <2>3. lines' \in Seq(Record)
    BY <2>1, <2>2 DEF LandWrite, MemoryInv, TypeOK
  <2>4. damaged' \in BOOLEAN
    BY Zenon DEF LandWrite
  <2>5. tail' \in Record /\ landed' \in {"no", "full", "torn"}
    BY <2>1 DEF LandWrite
  <2> QED
    BY <2>3, <2>4, <2>5 DEF LandWrite, MemoryInv, TypeOK
<1>2. Absent' /\ CallsCoherent' /\ LeasesActive'
  BY DEF LandWrite, MemoryInv, Absent, CallsCoherent, LeasesActive
<1>3. PendingCoherent'
  BY DEF LandWrite, MemoryInv, PendingCoherent, OfTheHolder
<1>4. OnePlace'
  BY DEF LandWrite, MemoryInv, OnePlace, Places, BeingLeased
<1> QED
  BY <1>1, <1>2, <1>3, <1>4 DEF MemoryInv

LEMMA TearWriteMemory ==
    ASSUME MemoryInv, NEW whole \in BOOLEAN, TearWrite(whole)
    PROVE  MemoryInv'
<1> USE DEF clockVars, stateVars, callerVars
<1>1. TypeOK'
  <2>1. Garbage \in Record
    BY ConfigAssumption DEF Garbage, NonRecord, Record, RecordType, Times, NoTime
  <2>2. Sequenced \in Record
    <3>1. Head(pending) \in Record /\ sequence + 1 \in Nat
      BY DEF TearWrite, MemoryInv, TypeOK
    <3> QED
      BY <3>1 DEF Sequenced, Record
  <2>3. faults' \in 0..MaxFaults
    BY ConfigAssumption DEF TearWrite, MemoryInv, TypeOK
  <2>4. damaged' \in BOOLEAN
    BY Zenon DEF TearWrite
  <2>5. tail' \in Record /\ landed' \in {"no", "full", "torn"}
    BY <2>1, <2>2 DEF TearWrite
  <2> QED
    BY <2>3, <2>4, <2>5 DEF TearWrite, MemoryInv, TypeOK
<1>2. Absent' /\ CallsCoherent' /\ LeasesActive'
  BY DEF TearWrite, MemoryInv, Absent, CallsCoherent, LeasesActive
<1>3. PendingCoherent'
  BY DEF TearWrite, MemoryInv, PendingCoherent, OfTheHolder
<1>4. OnePlace'
  BY DEF TearWrite, MemoryInv, OnePlace, Places, BeingLeased
<1> QED
  BY <1>1, <1>2, <1>3, <1>4 DEF MemoryInv

LEMMA TickMemory ==
    ASSUME MemoryInv, Tick
    PROVE  MemoryInv'
<1> USE DEF fileVars, journalVars, stateVars, callerVars, historyVars
<1>1. TypeOK'
  BY ConfigAssumption DEF Tick, MemoryInv, TypeOK
<1>2. Absent' /\ CallsCoherent' /\ LeasesActive'
  BY DEF Tick, MemoryInv, Absent, CallsCoherent, LeasesActive
<1>3. PendingCoherent'
  BY DEF Tick, MemoryInv, PendingCoherent, OfTheHolder
<1>4. OnePlace'
  BY DEF Tick, MemoryInv, OnePlace, Places, BeingLeased
<1> QED
  BY <1>1, <1>2, <1>3, <1>4 DEF MemoryInv

LEMMA RefuseResumeMemory ==
    ASSUME MemoryInv, RefuseResume
    PROVE  MemoryInv'
<1> USE DEF fileVars, journalVars, stateVars, callerVars, historyVars
<1>1. TypeOK'
  BY DEF RefuseResume, MemoryInv, TypeOK
<1>2. Absent' /\ CallsCoherent' /\ LeasesActive'
  BY DEF RefuseResume, MemoryInv, Absent, CallsCoherent, LeasesActive
<1>3. PendingCoherent'
  BY DEF RefuseResume, MemoryInv, PendingCoherent, OfTheHolder
<1>4. OnePlace'
  BY DEF RefuseResume, OnePlace
<1> QED
  BY <1>1, <1>2, <1>3, <1>4 DEF MemoryInv

LEMMA CrashMemory ==
    ASSUME MemoryInv, Crash
    PROVE  MemoryInv'
<1> USE DEF fileVars, historyVars
<1>0. NoTime \in Times
  BY ConfigAssumption DEF Times, NoTime
<1>1. TypeOK'
  <2>1. crashes' \in 0..MaxCrashes /\ sequence' \in Nat /\ mode' \in {"up", "down", "refused"}
        /\ landed' \in {"no", "full", "torn"}
    BY ConfigAssumption DEF Crash, MemoryInv, TypeOK
  <2>2. pending' \in Seq(Record) /\ transitions' \in Seq(Call)
    BY DEF Crash
  <2>3. queued' \in [Requests -> Nat] /\ deferred' \in [Requests -> Times]
        /\ active' \in [Requests -> Times] /\ known' \subseteq Requests
    BY <1>0 DEF Crash
  <2>4. lease' \in [Clients -> [req : Requests \cup {NoRequest}, id : Times]]
    BY <1>0 DEF Crash, NoLease
  <2> QED
    BY <2>1, <2>2, <2>3, <2>4 DEF Crash, MemoryInv, TypeOK
<1>2. Absent' /\ CallsCoherent'
  BY DEF Crash, Absent, CallsCoherent
<1>3. PendingCoherent'
  BY DEF Crash, PendingCoherent
<1>4. OnePlace' /\ LeasesActive'
  BY DEF Crash, OnePlace, LeasesActive
<1> QED
  BY <1>1, <1>2, <1>3, <1>4 DEF MemoryInv

-----------------------------------------------------------------------------
(* The transition mutex.                                                   *)

LEMMA CallWithLeaseMemory ==
    ASSUME MemoryInv, NEW c \in Clients, NEW kind \in {"renewed", "released", "terminal"},
           CallWithLease(c, kind)
    PROVE  MemoryInv' /\ PlacesKept
<1> USE DEF clockVars, fileVars, journalVars, stateVars, callerVars, historyVars
<1> DEFINE call == [kind |-> kind, client |-> c, req |-> lease[c].req, id |-> lease[c].id]
<1>0. /\ call \in Call /\ call.kind = kind /\ call.client = c /\ call.id # NoTime
      /\ lease[c] = [req |-> call.req, id |-> call.id]
  <2>1. lease[c] # NoLease /\ lease[c] \in [req : Requests \cup {NoRequest}, id : Times]
    BY DEF CallWithLease, MemoryInv, TypeOK
  <2>2. lease[c].req \in Requests /\ lease[c].id # NoTime
    BY <2>1 DEF MemoryInv, LeasesActive
  <2> QED
    BY <2>1, <2>2 DEF Call
<1>1. transitions' = Append(transitions, call) /\ transitions \in Seq(Call)
  BY DEF CallWithLease, MemoryInv, TypeOK
<1>u. UNCHANGED <<now, mode, crashes, faults, lines, tail, sequence, pending, landed,
                 known, queued, deferred, active, lease, acked, done, damaged, inherited>>
      /\ mode = "up"
  BY DEF CallWithLease, MayCall
<1>b. kind # "renewed" => \A i \in 1..Len(transitions) :
                             transitions[i].client = c => transitions[i].kind = "renewed"
  BY DEF CallWithLease, Busy, CallsOf
<1>c. lease[c] # NoLease
  BY DEF CallWithLease
<1> HIDE DEF call
<1>2. /\ Len(transitions') = Len(transitions) + 1 /\ transitions'[Len(transitions) + 1] = call
      /\ \A i \in 1..Len(transitions) : transitions'[i] = transitions[i]
      /\ Len(transitions) \in Nat
      /\ transitions # <<>> => Head(transitions') = Head(transitions)
      /\ transitions' # <<>>
  BY <1>1
<1>3. TypeOK'
  <2>1. transitions' \in Seq(Call)
    BY <1>0, <1>1
  <2> QED
    BY <2>1, <1>u DEF MemoryInv, TypeOK
<1>4. Absent' /\ LeasesActive'
  BY <1>u DEF MemoryInv, Absent, LeasesActive
<1>5. CallsCoherent'
  <2>2. CallsCoherent
    BY DEF MemoryInv
  <2>3. ASSUME NEW i \in 1..Len(transitions')
        PROVE  /\ transitions'[i].kind = "leased" => lease[transitions'[i].client] = NoLease
               /\ transitions'[i].kind # "leased" => transitions'[i].id # NoTime
               /\ transitions'[i].kind \in {"released", "terminal"}
                    => lease[transitions'[i].client] =
                          [req |-> transitions'[i].req, id |-> transitions'[i].id]
    <3>1. CASE i = Len(transitions) + 1
      BY <1>0, <1>2, <3>1
    <3>2. CASE i \in 1..Len(transitions)
      BY <1>2, <2>2, <3>2 DEF CallsCoherent
    <3> QED
      BY <1>2, <3>1, <3>2
  <2>4. \A i, j \in 1..Len(transitions') :
           /\ transitions'[i].client = transitions'[j].client
           /\ transitions'[i].kind # "renewed" /\ transitions'[j].kind # "renewed"
           => i = j
    BY <1>0, <1>2, <1>b, <2>2 DEF CallsCoherent
  <2> QED
    BY <1>u, <2>3, <2>4 DEF CallsCoherent
<1>6. PendingCoherent'
  BY <1>2, <1>u DEF MemoryInv, PendingCoherent, OfTheHolder
<1>p. PlacesKept
  <2> SUFFICES ASSUME NEW q \in Requests PROVE Places(q)' = Places(q)
    BY DEF PlacesKept
  <2>1. BeingLeased(q)' = BeingLeased(q) + Counts(call, q)
    BY <1>0, <1>1, LeasesAfterCall DEF BeingLeased, LeasesOf
  <2>2. BeingLeased(q) \in Nat /\ Counts(call, q) = 0
    BY <1>0, LeasesCounted DEF BeingLeased, LeasesOf, MemoryInv, TypeOK, Counts
  <2> QED
    BY <2>1, <2>2, <1>u DEF Places
<1>7. OnePlace'
  BY <1>p, <1>u DEF MemoryInv, OnePlace, PlacesKept
<1> QED
  BY <1>p, <1>3, <1>4, <1>5, <1>6, <1>7 DEF MemoryInv

(* The record of the call that holds the mutex is its own.                 *)
LEMMA StartTransitionMemory ==
    ASSUME MemoryInv, StartTransition
    PROVE  MemoryInv'
<1> USE DEF clockVars, fileVars, stateVars, callerVars, historyVars
<1> DEFINE call == Head(transitions)
           rec == [type |-> call.kind, req |-> call.req, seq |-> 0,
                   id |-> IF call.kind = "leased" THEN now ELSE call.id,
                   exp |-> IF call.kind \in {"leased", "renewed"}
                           THEN now + LeaseDuration ELSE NoTime]
<1>0. call \in Call /\ call = transitions[1] /\ 1 \in 1..Len(transitions)
  BY DEF StartTransition, MemoryInv, TypeOK
<1>1. call.kind # "leased" => call.id # NoTime /\ active[call.req] = call.id
  BY <1>0 DEF StartTransition, MemoryInv, CallsCoherent
<1>2. rec \in Record /\ OfTheHolder(rec)
  <2>1. now \in Nat \ {0} /\ now \in Times /\ now + LeaseDuration \in Times /\ NoTime \in Times
    BY ConfigAssumption DEF MemoryInv, TypeOK, Times, NoTime
  <2>2. call.kind \in {"leased", "renewed", "released", "terminal"}
        /\ call.req \in Requests /\ call.id \in Times
    BY <1>0 DEF Call
  <2>3. rec \in Record
    BY <2>1, <2>2 DEF Record, RecordType
  <2>4. OfTheHolder(rec)
    BY <1>1, <2>1, ConfigAssumption DEF OfTheHolder, StartTransition, NoTime
  <2> QED
    BY <2>3, <2>4
<1>3. rec.type \in {"leased", "renewed", "released", "terminal"}
  BY <1>0 DEF Call
<1>4. pending' = Append(pending, rec) /\ pending \in Seq(Record)
  BY DEF StartTransition, MemoryInv, TypeOK
<1>u. UNCHANGED <<now, mode, crashes, faults, lines, tail, sequence, transitions, landed,
                 known, queued, deferred, active, lease, acked, done, damaged, inherited>>
      /\ transitions # <<>>
  BY DEF StartTransition
<1>v. PICK r : r = rec
  OBVIOUS
<1>5. r \in Record /\ OfTheHolder(r) /\ pending' = Append(pending, r)
      /\ r.type \in {"leased", "renewed", "released", "terminal"}
  BY <1>2, <1>3, <1>4, <1>v
<1> HIDE DEF rec, call
<1>6. TypeOK'
  <2>1. pending' \in Seq(Record)
    BY <1>4, <1>5
  <2> QED
    BY <2>1, <1>u DEF MemoryInv, TypeOK
<1>7. Absent' /\ CallsCoherent' /\ LeasesActive'
  BY <1>u DEF MemoryInv, Absent, CallsCoherent, LeasesActive
<1>8. PendingCoherent'
  <2>1. /\ Len(pending') = Len(pending) + 1 /\ pending'[Len(pending) + 1] = r
        /\ \A i \in 1..Len(pending) : pending'[i] = pending[i]
        /\ Len(pending) \in Nat /\ pending' # <<>>
    BY <1>4, <1>5
  <2>2. \A i \in 1..Len(pending) : pending[i].type = "enqueued"
    BY DEF StartTransition, InTransition
  <2>4. PendingCoherent
    BY DEF MemoryInv
  <2>5. \A i, j \in 1..Len(pending') :
           (pending'[i].type = "enqueued" <=> pending'[j].type = "enqueued") => i = j
    BY <1>5, <2>1, <2>2, <2>4 DEF PendingCoherent
  <2>6. ASSUME NEW i \in 1..Len(pending')
        PROVE  /\ pending'[i].type \in Written
               /\ pending'[i].type = "enqueued" => pending'[i].req \in Requests \ known'
               /\ pending'[i].type # "enqueued" => OfTheHolder(pending[i])'
    <3>1. CASE i = Len(pending) + 1
      BY <1>5, <1>u, <2>1, <3>1 DEF Written, OfTheHolder
    <3>2. CASE i \in 1..Len(pending)
      BY <2>1, <1>u, <2>4, <3>2 DEF PendingCoherent, OfTheHolder
    <3> QED
      BY <2>1, <3>1, <3>2
  <2> QED
    BY <2>1, <2>5, <2>6 DEF PendingCoherent
<1>9. OnePlace'
  BY <1>u DEF MemoryInv, OnePlace, Places, BeingLeased
<1> QED
  BY <1>6, <1>7, <1>8, <1>9 DEF MemoryInv

-----------------------------------------------------------------------------
(* The call that holds the mutex, and the record at the head of the drain. *)

LEMMA Turned ==
    ASSUME NEW S, NEW s \in Seq(S), s # <<>>
    PROVE  /\ Len(s) \in Nat \ {0} /\ Head(s) = s[1] /\ Head(s) \in S
           /\ Tail(s) \in Seq(S) /\ Len(Tail(s)) = Len(s) - 1
           /\ \A i \in 1..Len(Tail(s)) : i + 1 \in 1..Len(s) /\ Tail(s)[i] = s[i + 1]
  OBVIOUS

(* When a call leaves the mutex, what it set its worker's lease to is of   *)
(* no concern to the calls behind it.                                      *)
LEMMA CallsAfterTurn ==
    ASSUME MemoryInv, transitions # <<>>, transitions' = Tail(transitions),
           \/ lease' = lease
           \/ /\ Head(transitions).kind # "renewed"
              /\ \A c \in Clients : c # Head(transitions).client => lease'[c] = lease[c]
    PROVE  CallsCoherent'
<1>0. CallsCoherent /\ transitions \in Seq(Call)
  BY DEF MemoryInv, TypeOK
<1>1. /\ Len(transitions) \in Nat \ {0} /\ Head(transitions) = transitions[1]
      /\ Len(transitions') = Len(transitions) - 1
      /\ \A i \in 1..Len(transitions') :
           i + 1 \in 1..Len(transitions) /\ transitions'[i] = transitions[i + 1]
      /\ \A i \in 1..Len(transitions) : transitions[i] \in Call
  BY <1>0, Turned
<1>2. ASSUME NEW i \in 1..Len(transitions')
      PROVE  /\ transitions'[i].kind = "leased" => lease'[transitions'[i].client] = NoLease
             /\ transitions'[i].kind # "leased" => transitions'[i].id # NoTime
             /\ transitions'[i].kind \in {"released", "terminal"}
                  => lease'[transitions'[i].client] =
                        [req |-> transitions'[i].req, id |-> transitions'[i].id]
  <2>1. /\ transitions'[i] = transitions[i + 1] /\ i + 1 \in 1..Len(transitions)
        /\ transitions[i + 1] \in Call /\ i + 1 # 1 /\ 1 \in 1..Len(transitions)
    BY <1>1
  <2>2. transitions[i + 1].kind # "renewed"
          => lease'[transitions[i + 1].client] = lease[transitions[i + 1].client]
    <3>1. CASE lease' = lease
      BY <3>1
    <3>2. CASE lease' # lease
      <4>1. transitions[i + 1].kind # "renewed"
              => transitions[i + 1].client # transitions[1].client
        BY <1>0, <1>1, <2>1, <3>2 DEF CallsCoherent
      <4>2. transitions[i + 1].client \in Clients
        BY <2>1 DEF Call
      <4> QED
        BY <1>1, <3>2, <4>1, <4>2
    <3> QED
      BY <3>1, <3>2
  <2> QED
    BY <1>0, <2>1, <2>2 DEF CallsCoherent
<1>3. \A i, j \in 1..Len(transitions') :
         /\ transitions'[i].client = transitions'[j].client
         /\ transitions'[i].kind # "renewed" /\ transitions'[j].kind # "renewed"
         => i = j
  BY <1>0, <1>1 DEF CallsCoherent
<1> QED
  BY <1>2, <1>3 DEF CallsCoherent

(* The oldest record on its way, and what it says of those behind it.      *)
LEMMA OldestRecord ==
    ASSUME MemoryInv, pending # <<>>
    PROVE  /\ mode = "up" /\ pending \in Seq(Record)
           /\ Head(pending) \in Record /\ Head(pending).type \in Written
           /\ Head(pending).type = "enqueued" => Head(pending).req \in Requests \ known
           /\ Head(pending).type # "enqueued" => OfTheHolder(Head(pending))
           /\ \A i \in 1..Len(Tail(pending)) :
                (Tail(pending)[i].type = "enqueued") # (Head(pending).type = "enqueued")
<1>1. pending \in Seq(Record) /\ mode = "up" /\ PendingCoherent
  BY DEF MemoryInv, TypeOK, Absent
<1>2. /\ Len(pending) \in Nat \ {0} /\ Head(pending) = pending[1] /\ Head(pending) \in Record
      /\ \A i \in 1..Len(Tail(pending)) :
            i + 1 \in 1..Len(pending) /\ Tail(pending)[i] = pending[i + 1]
      /\ 1 \in 1..Len(pending)
  BY <1>1, Turned
<1>3. ASSUME NEW i \in 1..Len(Tail(pending))
      PROVE  (Tail(pending)[i].type = "enqueued") # (Head(pending).type = "enqueued")
  <2>1. i + 1 # 1 /\ i + 1 \in 1..Len(pending) /\ Tail(pending)[i] = pending[i + 1]
    BY <1>2
  <2>2. ~ (pending[i + 1].type = "enqueued" <=> pending[1].type = "enqueued")
    BY <1>1, <1>2, <2>1 DEF PendingCoherent
  <2> QED
    BY <1>2, <2>1, <2>2
<1> QED
  BY <1>1, <1>2, <1>3 DEF PendingCoherent

(* When a record leaves the drain loop, what its caller does next is of no *)
(* concern to the record behind it.                                        *)
LEMMA PendingAfterWrite ==
    ASSUME MemoryInv, pending # <<>>, pending' = Tail(pending), landed' = "no",
           IF Head(pending).type = "enqueued"
           THEN transitions' = transitions /\ active' = active
           ELSE known' = known
    PROVE  PendingCoherent'
<1>1. /\ pending \in Seq(Record) /\ PendingCoherent
      /\ \A i \in 1..Len(pending') :
            (pending'[i].type = "enqueued") # (Head(pending).type = "enqueued")
  BY OldestRecord DEF MemoryInv
<1>2. /\ Len(pending) \in Nat \ {0}
      /\ \A i \in 1..Len(pending') :
            i + 1 \in 1..Len(pending) /\ pending'[i] = pending[i + 1]
  BY <1>1, Turned
<1>3. \A i, j \in 1..Len(pending') :
         (pending'[i].type = "enqueued" <=> pending'[j].type = "enqueued") => i = j
  BY <1>1, <1>2 DEF PendingCoherent
<1>4. ASSUME NEW i \in 1..Len(pending')
      PROVE  /\ pending'[i].type \in Written
             /\ pending'[i].type = "enqueued" => pending'[i].req \in Requests \ known'
             /\ pending'[i].type # "enqueued" => OfTheHolder(pending[i])'
  <2>1. pending'[i] = pending[i + 1] /\ i + 1 \in 1..Len(pending)
    BY <1>2
  <2>2. CASE Head(pending).type = "enqueued"
    BY <1>1, <2>1, <2>2 DEF PendingCoherent, OfTheHolder
  <2>3. CASE Head(pending).type # "enqueued"
    BY <1>1, <2>1, <2>3 DEF PendingCoherent
  <2> QED
    BY <2>2, <2>3
<1> QED
  BY <1>3, <1>4 DEF PendingCoherent

LEMMA RejectTransitionMemory ==
    ASSUME MemoryInv, RejectTransition
    PROVE  MemoryInv' /\ PlacesKept
<1> USE DEF clockVars, fileVars, journalVars, stateVars, historyVars
<1>u. UNCHANGED <<now, mode, crashes, faults, lines, tail, sequence, pending, landed,
                 known, queued, deferred, active, acked, done, damaged, inherited>>
      /\ transitions # <<>> /\ transitions' = Tail(transitions)
  BY DEF RejectTransition
<1>v. PICK call \in Call : call = Head(transitions)
  BY <1>u, Turned DEF MemoryInv, TypeOK
<1>w. /\ call.kind # "leased"
      /\ lease' = IF call.kind = "renewed" THEN lease
                  ELSE [lease EXCEPT ![call.client] = NoLease]
  BY <1>v DEF RejectTransition
<1>1. TypeOK'
  <2>1. transitions' \in Seq(Call)
    BY <1>u, Turned DEF MemoryInv, TypeOK
  <2>2. lease' \in [Clients -> [req : Requests \cup {NoRequest}, id : Times]]
    <3>1. NoLease \in [req : Requests \cup {NoRequest}, id : Times]
      BY ConfigAssumption DEF NoLease, Times, NoTime
    <3> QED
      BY <1>w, <3>1 DEF MemoryInv, TypeOK
  <2> QED
    BY <2>1, <2>2, <1>u DEF MemoryInv, TypeOK
<1>2. Absent'
  BY <1>u DEF MemoryInv, Absent
<1>3. CallsCoherent'
  <2>1. \/ lease' = lease
        \/ /\ Head(transitions).kind # "renewed"
           /\ \A c \in Clients : c # Head(transitions).client => lease'[c] = lease[c]
    BY <1>v, <1>w DEF MemoryInv, TypeOK
  <2> QED
    BY <1>u, <2>1, CallsAfterTurn
<1>4. LeasesActive'
  <2>1. \A c \in Clients : lease'[c] = lease[c] \/ lease'[c] = NoLease
    BY <1>w DEF MemoryInv, TypeOK
  <2>2. \A c, d \in Clients : lease'[c].req = lease'[d].req => c = d \/ lease'[c] = NoLease
    <3> SUFFICES ASSUME NEW c \in Clients, NEW d \in Clients, lease'[c].req = lease'[d].req,
                        lease'[c] # NoLease
                 PROVE  c = d
      OBVIOUS
    <3>1. lease[c] = lease'[c] /\ lease[c].req \in Requests
      BY <2>1 DEF MemoryInv, LeasesActive
    <3>2. lease'[d] # NoLease
      BY <3>1, ConfigAssumption DEF NoLease
    <3> QED
      BY <2>1, <3>1, <3>2 DEF MemoryInv, LeasesActive
  <2> QED
    BY <2>1, <2>2, <1>u DEF MemoryInv, LeasesActive
<1>5. PendingCoherent'
  BY <1>u DEF RejectTransition, InTransition, MemoryInv, PendingCoherent
<1>p. PlacesKept
  <2> SUFFICES ASSUME NEW q \in Requests PROVE Places(q)' = Places(q)
    BY DEF PlacesKept
  <2>1. transitions \in Seq(Call) /\ transitions' \in Seq(Call)
    BY <1>u, Turned DEF MemoryInv, TypeOK
  <2>2. BeingLeased(q) = BeingLeased(q)' + Counts(call, q)
    BY <1>u, <1>v, <2>1, LeasesAfterTurn DEF BeingLeased, LeasesOf
  <2>3. BeingLeased(q)' \in Nat
    BY <2>1, LeasesCounted DEF BeingLeased, LeasesOf
  <2>4. Counts(call, q) = 0
    BY <1>w DEF Counts
  <2> QED
    BY <2>2, <2>3, <2>4, <1>u DEF Places
<1>6. OnePlace'
  BY <1>p, <1>u DEF MemoryInv, OnePlace, PlacesKept
<1> QED
  BY <1>p, <1>1, <1>2, <1>3, <1>4, <1>5, <1>6 DEF MemoryInv

-----------------------------------------------------------------------------
(* A write is reported.                                                    *)

(* A worker that drops its lease leaves the others theirs.                 *)
LEMMA LeasesAfterDrop ==
    ASSUME MemoryInv,
           \A c \in Clients : lease'[c] = lease[c] \/ lease'[c] = NoLease,
           \A c \in Clients : lease'[c] # NoLease
              => active'[lease[c].req] = active[lease[c].req]
    PROVE  LeasesActive'
<1>1. \A c, d \in Clients : lease'[c].req = lease'[d].req => c = d \/ lease'[c] = NoLease
  <2> SUFFICES ASSUME NEW c \in Clients, NEW d \in Clients, lease'[c].req = lease'[d].req,
                      lease'[c] # NoLease
               PROVE  c = d
    OBVIOUS
  <2>1. lease[c] = lease'[c] /\ lease[c].req \in Requests
    BY DEF MemoryInv, LeasesActive
  <2>2. lease'[d] # NoLease
    BY <2>1, ConfigAssumption DEF NoLease
  <2> QED
    BY <2>1, <2>2 DEF MemoryInv, LeasesActive
<1> QED
  BY <1>1 DEF MemoryInv, LeasesActive

(* What a transition finds at the head of the mutex when it is written.    *)
LEMMA HolderOfRecord ==
    ASSUME MemoryInv, pending # <<>>, Head(pending).type # "enqueued"
    PROVE  /\ transitions # <<>> /\ transitions \in Seq(Call)
           /\ Head(transitions) \in Call /\ Tail(transitions) \in Seq(Call)
           /\ Head(pending).type = Head(transitions).kind
           /\ Head(pending).req = Head(transitions).req
           /\ Head(pending).id \in Times \ {NoTime}
           /\ Head(transitions).kind = "leased"
                => lease[Head(transitions).client] = NoLease
           /\ Head(transitions).kind \in {"released", "terminal"}
                => /\ lease[Head(transitions).client] =
                        [req |-> Head(transitions).req, id |-> Head(transitions).id]
                   /\ active[Head(transitions).req] \in Times \ {NoTime}
<1>1. OfTheHolder(Head(pending)) /\ Head(pending) \in Record
  BY OldestRecord
<1>2. transitions # <<>> /\ transitions \in Seq(Call)
  BY <1>1 DEF OfTheHolder, MemoryInv, TypeOK
<1>3. Head(transitions) = transitions[1] /\ 1 \in 1..Len(transitions)
      /\ Head(transitions) \in Call /\ Tail(transitions) \in Seq(Call)
  BY <1>2, Turned
<1>4. CallsCoherent
  BY DEF MemoryInv
<1>5. /\ Head(transitions).kind = "leased" => lease[Head(transitions).client] = NoLease
      /\ Head(transitions).kind \in {"released", "terminal"}
           => lease[Head(transitions).client] =
                 [req |-> Head(transitions).req, id |-> Head(transitions).id]
  BY <1>3, <1>4 DEF CallsCoherent
<1>6. Head(pending).id \in Times \ {NoTime}
  BY <1>1 DEF OfTheHolder, Record
<1>7. Head(transitions).kind \in {"released", "terminal"}
         => active[Head(transitions).req] \in Times \ {NoTime}
  BY <1>1, <1>6 DEF OfTheHolder
<1> QED
  BY <1>1, <1>2, <1>3, <1>5, <1>6, <1>7 DEF OfTheHolder

(* How a call that leaves the mutex changes the number of places.          *)
LEMMA CountedAfterTurn ==
    ASSUME MemoryInv, transitions # <<>>, transitions' = Tail(transitions),
           NEW q \in Requests
    PROVE  /\ BeingLeased(q)' \in Nat
           /\ BeingLeased(q) = BeingLeased(q)' + Counts(Head(transitions), q)
<1>1. transitions \in Seq(Call) /\ transitions' \in Seq(Call)
  BY Turned DEF MemoryInv, TypeOK
<1> QED
  BY <1>1, LeasesAfterTurn, LeasesCounted DEF BeingLeased, LeasesOf

LEMMA ResolveEnqueueMemory ==
    ASSUME MemoryInv, ResolveEnqueue
    PROVE  MemoryInv'
<1> USE DEF clockVars, fileVars, historyVars
<1>0. pending # <<>> /\ Head(pending).type = "enqueued"
  BY DEF ResolveEnqueue, Resolve, MemoryInv, PendingCoherent
<1>v. PICK r \in Requests : r = Head(pending).req /\ r \notin known
  BY <1>0, OldestRecord
<1>u. /\ UNCHANGED <<now, mode, crashes, faults, lines, tail, transitions, deferred,
                    active, lease, done, damaged, inherited>>
      /\ sequence' = sequence + 1 /\ pending' = Tail(pending) /\ landed' = "no"
      /\ known' = known \cup {r} /\ queued' = [queued EXCEPT ![r] = @ + 1]
      /\ acked' = acked \cup {r}
  BY <1>v DEF ResolveEnqueue, Resolve
<1>1. TypeOK'
  <2>1. pending' \in Seq(Record)
    BY <1>0, <1>u, Turned DEF MemoryInv, TypeOK
  <2> QED
    BY <1>u, <2>1 DEF MemoryInv, TypeOK
<1>2. mode = "up"
  BY <1>0 DEF MemoryInv, Absent
<1>3. Absent' /\ CallsCoherent' /\ LeasesActive'
  BY <1>2, <1>u DEF MemoryInv, Absent, CallsCoherent, LeasesActive
<1>4. PendingCoherent'
  BY <1>0, <1>u, PendingAfterWrite
<1>5. OnePlace'
  <2>1. ASSUME NEW q \in Requests
        PROVE  /\ Places(q)' = Places(q) + IF q = r THEN 1 ELSE 0
               /\ Places(q) \in Nat
    <3>1. BeingLeased(q)' = BeingLeased(q) /\ BeingLeased(q) \in Nat
      BY <1>u, LeasesCounted DEF BeingLeased, LeasesOf, MemoryInv, TypeOK
    <3>2. queued[q] \in Nat /\ queued'[q] = queued[q] + IF q = r THEN 1 ELSE 0
      BY <1>u DEF MemoryInv, TypeOK
    <3> QED
      BY <3>1, <3>2, <1>u DEF Places
  <2> QED
    BY <2>1, <1>2, <1>u, <1>v DEF MemoryInv, OnePlace
<1> QED
  BY <1>1, <1>3, <1>4, <1>5 DEF MemoryInv

LEMMA ResolveRenewalMemory ==
    ASSUME MemoryInv, ResolveRenewal
    PROVE  MemoryInv' /\ PlacesKept
<1> USE DEF clockVars, fileVars, historyVars, callerVars
<1>0. pending # <<>> /\ Head(pending).type = "renewed"
  BY DEF ResolveRenewal, Resolve, MemoryInv, PendingCoherent
<1>v. PICK call \in Call : /\ call = Head(transitions) /\ call.kind = "renewed"
                           /\ transitions # <<>> /\ Tail(transitions) \in Seq(Call)
  BY <1>0, HolderOfRecord
<1>u. /\ UNCHANGED <<now, mode, crashes, faults, lines, tail, known, queued, deferred,
                    active, lease, acked, done, damaged, inherited>>
      /\ sequence' = sequence + 1 /\ pending' = Tail(pending) /\ landed' = "no"
      /\ transitions' = Tail(transitions)
  BY DEF ResolveRenewal, Resolve
<1>1. TypeOK'
  <2>1. pending' \in Seq(Record) /\ transitions' \in Seq(Call)
    BY <1>0, <1>u, <1>v, Turned DEF MemoryInv, TypeOK
  <2> QED
    BY <1>u, <2>1 DEF MemoryInv, TypeOK
<1>2. mode = "up"
  BY <1>0 DEF MemoryInv, Absent
<1>3. Absent' /\ LeasesActive'
  BY <1>2, <1>u DEF MemoryInv, Absent, LeasesActive
<1>4. CallsCoherent'
  BY <1>u, <1>v, CallsAfterTurn
<1>5. PendingCoherent'
  BY <1>0, <1>u, PendingAfterWrite
<1>p. PlacesKept
  <2> SUFFICES ASSUME NEW q \in Requests PROVE Places(q)' = Places(q)
    BY DEF PlacesKept
  <2>1. Counts(Head(transitions), q) = 0
    BY <1>v DEF Counts
  <2>2. BeingLeased(q)' = BeingLeased(q)
    BY <1>u, <1>v, <2>1, CountedAfterTurn
  <2> QED
    BY <2>2, <1>u DEF Places
<1>6. OnePlace'
  BY <1>p, <1>u DEF MemoryInv, OnePlace, PlacesKept
<1> QED
  BY <1>p, <1>1, <1>3, <1>4, <1>5, <1>6 DEF MemoryInv

LEMMA ResolveLeaseMemory ==
    ASSUME MemoryInv, ResolveLease
    PROVE  MemoryInv' /\ PlacesKept
<1> USE DEF clockVars, fileVars, historyVars
<1>0. pending # <<>> /\ Head(pending).type = "leased"
  BY DEF ResolveLease, Resolve, MemoryInv, PendingCoherent
<1>v. PICK call \in Call : /\ call = Head(transitions) /\ call.kind = "leased"
                           /\ transitions # <<>> /\ Tail(transitions) \in Seq(Call)
                           /\ lease[call.client] = NoLease
  BY <1>0, HolderOfRecord
<1>w. PICK id \in Times \ {NoTime} : id = Head(pending).id
  BY <1>0, HolderOfRecord
<1>u. /\ UNCHANGED <<now, mode, crashes, faults, lines, tail, known, queued, deferred,
                    acked, done, damaged, inherited>>
      /\ sequence' = sequence + 1 /\ pending' = Tail(pending) /\ landed' = "no"
      /\ transitions' = Tail(transitions)
      /\ active' = [active EXCEPT ![call.req] = id]
      /\ lease' = [lease EXCEPT ![call.client] = [req |-> call.req, id |-> id]]
  BY <1>v, <1>w DEF ResolveLease, Resolve
<1>c. call.req \in Requests /\ call.client \in Clients
  BY DEF Call
<1>1. TypeOK'
  <2>1. pending' \in Seq(Record) /\ transitions' \in Seq(Call)
    BY <1>0, <1>u, <1>v, Turned DEF MemoryInv, TypeOK
  <2> QED
    BY <1>u, <1>c, <2>1 DEF MemoryInv, TypeOK
<1>2. mode = "up"
  BY <1>0 DEF MemoryInv, Absent
<1>3. Absent'
  BY <1>2, <1>u DEF Absent
<1>4. CallsCoherent'
  <2>1. \A c \in Clients : c # Head(transitions).client => lease'[c] = lease[c]
    BY <1>u, <1>v DEF MemoryInv, TypeOK
  <2> QED
    BY <1>u, <1>v, <2>1, CallsAfterTurn
<1>5. PendingCoherent'
  BY <1>0, <1>u, PendingAfterWrite
<1>6. ASSUME NEW q \in Requests
      PROVE  /\ Places(q)' = Places(q)
             /\ q = call.req => active[q] = NoTime
  <2>1. /\ BeingLeased(q)' \in Nat
        /\ BeingLeased(q) = BeingLeased(q)' + IF q = call.req THEN 1 ELSE 0
    BY <1>u, <1>v, CountedAfterTurn DEF Counts
  <2>2. queued[q] \in Nat /\ queued' = queued /\ deferred' = deferred
        /\ active'[q] = IF q = call.req THEN id ELSE active[q]
    BY <1>u DEF MemoryInv, TypeOK
  <2>3. Places(q) <= 1
    BY <1>2 DEF MemoryInv, OnePlace
  <2>4. q = call.req => active[q] = NoTime
    BY <2>1, <2>2, <2>3 DEF Places
  <2> QED
    BY <2>1, <2>2, <2>4, <1>w DEF Places
<1>p. PlacesKept
  BY <1>6 DEF PlacesKept
<1>7. OnePlace'
  BY <1>6, <1>u DEF MemoryInv, OnePlace
<1>8. LeasesActive'
  <2>1. \A c \in Clients : c # call.client => lease'[c] = lease[c]
    BY <1>u DEF MemoryInv, TypeOK
  <2>2. lease'[call.client] = [req |-> call.req, id |-> id]
    BY <1>u, <1>c DEF MemoryInv, TypeOK
  <2>3. \A c \in Clients : lease[c].req # call.req
    <3> SUFFICES ASSUME NEW c \in Clients, lease[c].req = call.req PROVE FALSE
      OBVIOUS
    <3>1. lease[c] # NoLease
      BY <1>c, ConfigAssumption DEF NoLease
    <3>2. active[call.req] # NoTime
      BY <3>1 DEF MemoryInv, LeasesActive
    <3> QED
      BY <1>6, <1>c, <3>2
  <2>4. \A q \in Requests : active'[q] = IF q = call.req THEN id ELSE active[q]
    BY <1>u DEF MemoryInv, TypeOK
  <2>5. \A c \in Clients : lease'[c] # NoLease =>
          /\ lease'[c].req \in Requests /\ lease'[c].id # NoTime
          /\ active'[lease'[c].req] = lease'[c].id
    BY <2>1, <2>2, <2>3, <2>4, <1>c, <1>w DEF MemoryInv, LeasesActive
  <2>6. \A c, d \in Clients : lease'[c].req = lease'[d].req => c = d \/ lease'[c] = NoLease
    BY <2>1, <2>2, <2>3 DEF MemoryInv, LeasesActive
  <2> QED
    BY <2>5, <2>6 DEF LeasesActive
<1> QED
  BY <1>p, <1>1, <1>3, <1>4, <1>5, <1>7, <1>8 DEF MemoryInv

(* A release or a mark...() takes the request out of the active leases.    *)
LEMMA LeaseEnds ==
    ASSUME MemoryInv, pending # <<>>, NEW call \in Call, call = Head(transitions),
           Head(pending).type = call.kind, call.kind \in {"released", "terminal"},
           transitions' = Tail(transitions),
           active' = [active EXCEPT ![call.req] = NoTime],
           lease' = [lease EXCEPT ![call.client] = NoLease]
    PROVE  /\ CallsCoherent' /\ LeasesActive'
           /\ transitions' \in Seq(Call) /\ active' \in [Requests -> Times]
           /\ lease' \in [Clients -> [req : Requests \cup {NoRequest}, id : Times]]
           /\ \A q \in Requests : BeingLeased(q)' = BeingLeased(q) /\ BeingLeased(q) \in Nat
           /\ \A q \in Requests : active'[q] = IF q = call.req THEN NoTime ELSE active[q]
           /\ active[call.req] # NoTime
<1>0. /\ transitions # <<>> /\ transitions' \in Seq(Call)
      /\ lease[call.client] = [req |-> call.req, id |-> call.id]
      /\ active[call.req] # NoTime
  BY HolderOfRecord
<1>1. call.req \in Requests /\ call.client \in Clients /\ NoLease # lease[call.client]
  BY <1>0, ConfigAssumption DEF Call, NoLease
<1>2. NoLease \in [req : Requests \cup {NoRequest}, id : Times] /\ NoTime \in Times
  BY ConfigAssumption DEF NoLease, Times, NoTime
<1>3. active' \in [Requests -> Times]
      /\ lease' \in [Clients -> [req : Requests \cup {NoRequest}, id : Times]]
      /\ \A q \in Requests : active'[q] = IF q = call.req THEN NoTime ELSE active[q]
  BY <1>2 DEF MemoryInv, TypeOK
<1>4. CallsCoherent'
  <2>1. \A c \in Clients : c # Head(transitions).client => lease'[c] = lease[c]
    BY DEF MemoryInv, TypeOK
  <2> QED
    BY <1>0, <2>1, CallsAfterTurn
<1>5. LeasesActive'
  <2>1. \A c \in Clients : lease'[c] = IF c = call.client THEN NoLease ELSE lease[c]
    BY DEF MemoryInv, TypeOK
  <2>2. \A c \in Clients : lease'[c] # NoLease => lease[c].req # call.req
    BY <2>1, <1>0, <1>1 DEF MemoryInv, LeasesActive
  <2>3. \A c \in Clients : lease'[c] # NoLease => lease[c].req \in Requests
    BY <2>1 DEF MemoryInv, LeasesActive
  <2>4. \A c \in Clients : lease'[c] # NoLease
            => active'[lease[c].req] = active[lease[c].req]
    BY <1>3, <2>2, <2>3
  <2> QED
    BY <2>1, <2>4, LeasesAfterDrop
<1>6. ASSUME NEW q \in Requests
      PROVE  BeingLeased(q)' = BeingLeased(q) /\ BeingLeased(q) \in Nat
  <2>1. Counts(Head(transitions), q) = 0
    BY DEF Counts
  <2> QED
    BY <1>0, <2>1, CountedAfterTurn
<1> QED
  BY <1>0, <1>3, <1>4, <1>5, <1>6

LEMMA ResolveReleaseMemory ==
    ASSUME MemoryInv, ResolveRelease
    PROVE  MemoryInv' /\ PlacesKept
<1> USE DEF clockVars, fileVars, historyVars
<1>0. pending # <<>> /\ Head(pending).type = "released"
  BY DEF ResolveRelease, Resolve, MemoryInv, PendingCoherent
<1>v. PICK call \in Call : call = Head(transitions) /\ call.kind = "released"
  BY <1>0, HolderOfRecord
<1>w. call.req \in Requests
  BY DEF Call
<1>u. /\ UNCHANGED <<now, mode, crashes, faults, lines, tail, known, deferred,
                    acked, done, damaged, inherited>>
      /\ sequence' = sequence + 1 /\ pending' = Tail(pending) /\ landed' = "no"
      /\ transitions' = Tail(transitions)
      /\ active' = [active EXCEPT ![call.req] = NoTime]
      /\ lease' = [lease EXCEPT ![call.client] = NoLease]
      /\ queued' = [queued EXCEPT ![call.req] = @ + 1]
  BY <1>v DEF ResolveRelease, Resolve
<1>c. /\ CallsCoherent' /\ LeasesActive'
      /\ transitions' \in Seq(Call) /\ active' \in [Requests -> Times]
      /\ lease' \in [Clients -> [req : Requests \cup {NoRequest}, id : Times]]
      /\ \A q \in Requests : BeingLeased(q)' = BeingLeased(q) /\ BeingLeased(q) \in Nat
      /\ \A q \in Requests : active'[q] = IF q = call.req THEN NoTime ELSE active[q]
      /\ active[call.req] # NoTime
  BY <1>0, <1>u, <1>v, LeaseEnds
<1>1. TypeOK'
  <2>1. pending' \in Seq(Record)
    BY <1>0, <1>u, Turned DEF MemoryInv, TypeOK
  <2>2. queued' \in [Requests -> Nat]
    BY <1>u, <1>w DEF MemoryInv, TypeOK
  <2>3. sequence' \in Nat /\ landed' \in {"no", "full", "torn"}
    BY <1>u DEF MemoryInv, TypeOK
  <2>4. TypeOK
    BY DEF MemoryInv
  <2> QED
    BY <1>u, <1>c, <2>1, <2>2, <2>3, <2>4 DEF TypeOK
<1>2. mode = "up"
  BY <1>0 DEF MemoryInv, Absent
<1>3. Absent'
  BY <1>2, <1>u DEF Absent
<1>4. PendingCoherent'
  BY <1>0, <1>u, PendingAfterWrite
<1>p. PlacesKept
  <2> SUFFICES ASSUME NEW q \in Requests PROVE Places(q)' = Places(q)
    BY DEF PlacesKept
  <2>1. queued[q] \in Nat /\ queued'[q] = queued[q] + IF q = call.req THEN 1 ELSE 0
    BY <1>u DEF MemoryInv, TypeOK
  <2>2. deferred' = deferred /\ BeingLeased(q)' = BeingLeased(q) /\ BeingLeased(q) \in Nat
    BY <1>u, <1>c
  <2> QED
    BY <2>1, <2>2, <1>c DEF Places
<1>5. OnePlace'
  BY <1>p, <1>u DEF MemoryInv, OnePlace, PlacesKept
<1> QED
  BY <1>p, <1>1, <1>3, <1>4, <1>5, <1>c DEF MemoryInv

LEMMA ResolveFinishMemory ==
    ASSUME MemoryInv, ResolveFinish
    PROVE  MemoryInv' /\ \A q \in Requests : q = Head(transitions).req => Places(q)' = 0
<1> USE DEF clockVars, fileVars, historyVars
<1>0. pending # <<>> /\ Head(pending).type = "terminal"
  BY DEF ResolveFinish, Resolve, MemoryInv, PendingCoherent
<1>v. PICK call \in Call : call = Head(transitions) /\ call.kind = "terminal"
  BY <1>0, HolderOfRecord
<1>w. call.req \in Requests
  BY DEF Call
<1>u. /\ UNCHANGED <<now, mode, crashes, faults, lines, tail, known, queued, deferred,
                    acked, damaged, inherited>>
      /\ sequence' = sequence + 1 /\ pending' = Tail(pending) /\ landed' = "no"
      /\ transitions' = Tail(transitions)
      /\ active' = [active EXCEPT ![call.req] = NoTime]
      /\ lease' = [lease EXCEPT ![call.client] = NoLease]
      /\ done' = done \cup {call.req}
  BY <1>v DEF ResolveFinish, Resolve
<1>c. /\ CallsCoherent' /\ LeasesActive'
      /\ transitions' \in Seq(Call) /\ active' \in [Requests -> Times]
      /\ lease' \in [Clients -> [req : Requests \cup {NoRequest}, id : Times]]
      /\ \A q \in Requests : BeingLeased(q)' = BeingLeased(q) /\ BeingLeased(q) \in Nat
      /\ \A q \in Requests : active'[q] = IF q = call.req THEN NoTime ELSE active[q]
      /\ active[call.req] # NoTime
  BY <1>0, <1>u, <1>v, LeaseEnds
<1>1. TypeOK'
  <2>1. pending' \in Seq(Record)
    BY <1>0, <1>u, Turned DEF MemoryInv, TypeOK
  <2> QED
    BY SMTT(30), <1>u, <1>c, <1>w, <2>1 DEF MemoryInv, TypeOK
<1>2. mode = "up"
  BY <1>0 DEF MemoryInv, Absent
<1>3. Absent'
  BY <1>2, <1>u DEF Absent
<1>4. PendingCoherent'
  BY <1>0, <1>u, PendingAfterWrite
<1>5. ASSUME NEW q \in Requests
      PROVE  /\ q # call.req => Places(q)' = Places(q)
             /\ q = call.req => Places(q)' = 0
  <2>1. queued[q] \in Nat /\ queued' = queued /\ deferred' = deferred
        /\ BeingLeased(q)' = BeingLeased(q) /\ BeingLeased(q) \in Nat
    BY <1>u, <1>c DEF MemoryInv, TypeOK
  <2>2. Places(q) <= 1
    BY <1>2 DEF MemoryInv, OnePlace
  <2>3. CASE q # call.req
    BY <2>1, <2>3, <1>c DEF Places
  <2>4. CASE q = call.req
    <3>1. active[q] # NoTime /\ active'[q] = NoTime
      BY <2>4, <1>c
    <3> QED
      BY <2>1, <2>2, <2>4, <3>1 DEF Places
  <2> QED
    BY <2>3, <2>4
<1>6. OnePlace'
  BY <1>5, <1>u DEF MemoryInv, OnePlace
<1> QED
  BY <1>1, <1>3, <1>4, <1>5, <1>6, <1>c, <1>v, <1>w DEF MemoryInv

(* A failed leaseNext() puts its request back; no other call undoes        *)
(* anything.                                                               *)
LEMMA FailWriteMemory ==
    ASSUME MemoryInv, FailWrite
    PROVE  MemoryInv' /\ PlacesKept
<1> USE DEF clockVars, fileVars, callerVars
<1>0. pending # <<>> /\ pending' = Tail(pending) /\ landed' = "no" /\ pending \in Seq(Record)
  BY DEF FailWrite, MemoryInv, TypeOK
<1>v. PICK rec \in Record : /\ rec = Head(pending) /\ rec.type \in Written
                            /\ rec.type # "leased" \/ rec.req \in Requests
  <2>1. Head(pending).type = "leased" => Head(pending).req \in Requests
    BY <1>0, HolderOfRecord DEF Call
  <2> QED
    BY <1>0, <2>1, OldestRecord
<1>u. UNCHANGED <<now, mode, crashes, lines, tail, sequence, known, deferred, active,
                 lease, acked, done, inherited>>
  BY DEF FailWrite
<1>w. /\ queued' = IF rec.type = "leased"
                   THEN [queued EXCEPT ![rec.req] = @ + 1] ELSE queued
      /\ transitions' = IF rec.type = "enqueued" THEN transitions ELSE Tail(transitions)
  BY <1>v DEF FailWrite
<1>x. rec.type # "enqueued" =>
        /\ transitions # <<>> /\ Tail(transitions) \in Seq(Call)
        /\ Head(transitions).kind = rec.type /\ Head(transitions).req = rec.req
  BY <1>0, <1>v, HolderOfRecord
<1>1. TypeOK'
  <2>1. pending' \in Seq(Record)
    BY <1>0, Turned
  <2>2. transitions' \in Seq(Call)
    BY <1>w, <1>x DEF MemoryInv, TypeOK
  <2>3. queued' \in [Requests -> Nat]
    BY <1>v, <1>w DEF MemoryInv, TypeOK
  <2>4. faults' \in 0..MaxFaults
    BY ConfigAssumption DEF FailWrite, MemoryInv, TypeOK
  <2>5. damaged' \in BOOLEAN
    BY Zenon DEF FailWrite
  <2> QED
    BY <1>0, <1>u, <2>1, <2>2, <2>3, <2>4, <2>5 DEF MemoryInv, TypeOK
<1>2. mode = "up"
  BY <1>0 DEF MemoryInv, Absent
<1>3. Absent' /\ LeasesActive'
  BY <1>2, <1>u DEF MemoryInv, Absent, LeasesActive
<1>4. CallsCoherent'
  <2>1. CASE rec.type = "enqueued"
    BY <2>1, <1>u, <1>w DEF MemoryInv, CallsCoherent
  <2>2. CASE rec.type # "enqueued"
    BY <2>2, <1>u, <1>w, <1>x, CallsAfterTurn
  <2> QED
    BY <2>1, <2>2
<1>5. PendingCoherent'
  BY <1>0, <1>u, <1>v, <1>w, PendingAfterWrite
<1>p. PlacesKept
  <2> SUFFICES ASSUME NEW q \in Requests PROVE Places(q)' = Places(q)
    BY DEF PlacesKept
  <2>1. queued[q] \in Nat
        /\ queued'[q] = queued[q] + IF rec.type = "leased" /\ rec.req = q THEN 1 ELSE 0
    BY <1>v, <1>w DEF MemoryInv, TypeOK
  <2>2. /\ BeingLeased(q)' \in Nat
        /\ BeingLeased(q) = BeingLeased(q)'
              + IF rec.type = "leased" /\ rec.req = q THEN 1 ELSE 0
    <3>1. CASE rec.type = "enqueued"
      <4>1. transitions' = transitions /\ transitions \in Seq(Call)
        BY <3>1, <1>w DEF MemoryInv, TypeOK
      <4>2. BeingLeased(q)' = BeingLeased(q) /\ BeingLeased(q) \in Nat
        BY <4>1, LeasesCounted DEF BeingLeased, LeasesOf
      <4> QED
        BY <3>1, <4>2
    <3>2. CASE rec.type # "enqueued"
      <4>1. transitions' = Tail(transitions) /\ transitions # <<>>
        BY <3>2, <1>w, <1>x
      <4> QED
        BY <3>2, <4>1, <1>x, CountedAfterTurn DEF Counts
    <3> QED
      BY <3>1, <3>2
  <2> QED
    BY <2>1, <2>2, <1>u DEF Places
<1>6. OnePlace'
  BY <1>p, <1>u DEF MemoryInv, OnePlace, PlacesKept
<1> QED
  BY <1>p, <1>1, <1>3, <1>4, <1>5, <1>6 DEF MemoryInv

-----------------------------------------------------------------------------
(* Reading the journal back.                                               *)

(* The records in the file are of requests, and the leases among them end. *)
WellFormed(rec) ==
    rec.type \in Written =>
        /\ rec.req \in Requests
        /\ rec.type \in {"leased", "renewed"} => rec.exp # NoTime

FileWellFormed ==
    /\ \A i \in 1..Len(lines) : WellFormed(lines[i])
    /\ WellFormed(tail)
    /\ tail.type = "none" => tail = NoTail

LEMMA ParsedRecords ==
    ASSUME lines \in Seq(Record), tail \in Record, FileWellFormed
    PROVE  /\ Parsed \in Seq(Record) /\ Len(Parsed) \in Nat
           /\ \A i \in 1..Len(Parsed) : WellFormed(Parsed[i])
<1>1. CASE tail.type \in {"none", "garbage"}
  BY <1>1 DEF Parsed, FileWellFormed
<1>2. CASE tail.type \notin {"none", "garbage"}
  <2>1. Parsed = Append(lines, tail)
    BY <1>2 DEF Parsed
  <2> QED
    BY <2>1 DEF FileWellFormed
<1> QED
  BY <1>1, <1>2

LEMMA LeaseEndTime ==
    ASSUME NEW recs \in Seq(Record), NEW r
    PROVE  LeaseEnd(recs, r) \in Times
<1> DEFINE changes == {i \in 1..Len(recs) :
                         recs[i].req = r /\ recs[i].type \in {"leased", "renewed", "released"}}
<1>1. NoTime \in Times
  BY ConfigAssumption DEF Times, NoTime
<1>2. CASE changes = {}
  BY <1>1, <1>2 DEF LeaseEnd
<1>3. CASE changes # {}
  <2>1. Len(recs) \in Nat /\ changes \subseteq 1..Len(recs)
    OBVIOUS
  <2>2. LastOf(changes) \in changes
    <3> HIDE DEF changes
    <3> QED
      BY <1>3, <2>1, LastOfPositions
  <2>3. recs[LastOf(changes)] \in Record
    BY <2>1, <2>2
  <2>4. recs[LastOf(changes)].exp \in Times
    BY <2>3 DEF Record
  <2> QED
    BY <1>1, <2>4 DEF LeaseEnd
<1> QED
  BY <1>2, <1>3

(* A resume puts every unfinished request in the queue or, while the lease *)
(* of the dead process lasts, in the deferred list.                        *)
LEMMA ResumeMemory ==
    ASSUME MemoryInv, FileWellFormed, Resume
    PROVE  /\ MemoryInv'
           /\ \A q \in Requests :
                Places(q)' = IF q \in Unfinished(Parsed) THEN 1 ELSE 0
<1>0. /\ Parsed \in Seq(Record)
      /\ \A i \in 1..Len(Parsed) : Parsed[i].type \in Written => Parsed[i].req \in Requests
  BY ParsedRecords DEF MemoryInv, TypeOK, WellFormed
<1>a. PICK recs \in Seq(Record) : recs = Parsed
  BY <1>0
<1>b. RecordedRequests(recs) \subseteq Requests /\ TerminalRequests(recs) \subseteq Requests
  <2>1. ASSUME NEW i \in 1..Len(recs), recs[i].type \in {"enqueued", "terminal"}
        PROVE  recs[i].req \in Requests
    BY <2>1, <1>0, <1>a DEF Written
  <2> QED
    BY <2>1 DEF RecordedRequests, TerminalRequests
<1>c. PICK ends \in [Requests -> Times] : \A r \in Requests : ends[r] = LeaseEnd(recs, r)
  <2> DEFINE e == [r \in Requests |-> LeaseEnd(recs, r)]
  <2>1. e \in [Requests -> Times] /\ \A r \in Requests : e[r] = LeaseEnd(recs, r)
    BY LeaseEndTime
  <2> HIDE DEF e
  <2> QED
    BY <2>1
<1>d. PICK open \in SUBSET Requests :
          open = RecordedRequests(recs) \ TerminalRequests(recs)
  BY <1>b
<1>u. /\ UNCHANGED <<now, crashes, faults, lines, tail, pending, landed, active,
                    transitions, lease, acked, damaged>>
      /\ mode = "down" /\ mode' = "up"
      /\ sequence' = Len(recs)
      /\ known' = RecordedRequests(recs)
      /\ queued' = [r \in Requests |-> IF r \in open /\ ends[r] <= now THEN 1 ELSE 0]
      /\ deferred' = [r \in Requests |-> IF r \in open /\ ends[r] > now THEN ends[r] ELSE NoTime]
      /\ done' = done \cup TerminalRequests(recs)
  BY <1>a, <1>c, <1>d DEF Resume, Unfinished, fileVars
<1>v. inherited' \subseteq Requests
  BY <1>a, <1>d DEF Resume, Unfinished, MemoryInv, TypeOK
<1>1. TypeOK'
  <2>1. NoTime \in Times /\ Len(recs) \in Nat
    BY ConfigAssumption DEF Times, NoTime
  <2>2. queued' \in [Requests -> Nat] /\ deferred' \in [Requests -> Times]
    BY <1>u, <2>1
  <2>3. known' \subseteq Requests /\ done' \subseteq Requests /\ sequence' \in Nat
        /\ mode' \in {"up", "down", "refused"}
    BY <1>b, <1>u, <2>1 DEF MemoryInv, TypeOK
  <2>4. TypeOK
    BY DEF MemoryInv
  <2> QED
    BY <1>u, <1>v, <2>2, <2>3, <2>4 DEF TypeOK
<1>2. Absent'
  BY <1>u DEF Absent
<1>3. CallsCoherent' /\ LeasesActive'
  BY <1>u DEF MemoryInv, CallsCoherent, LeasesActive
<1>4. PendingCoherent'
  BY <1>u DEF MemoryInv, Absent, PendingCoherent
<1>5. ASSUME NEW q \in Requests PROVE Places(q)' = IF q \in open THEN 1 ELSE 0
  <2>1. BeingLeased(q)' = 0
    <3>1. transitions' = <<>>
      BY <1>u DEF MemoryInv, Absent
    <3>2. {i \in 1..Len(transitions') :
              transitions'[i].kind = "leased" /\ transitions'[i].req = q} = {}
      BY <3>1
    <3> QED
      BY <3>2, FS_EmptySet DEF BeingLeased
  <2>2. active'[q] = NoTime
    BY <1>u DEF MemoryInv, Absent
  <2>3. queued'[q] + (IF deferred'[q] # NoTime THEN 1 ELSE 0) = IF q \in open THEN 1 ELSE 0
    <3>1. now \in Nat /\ ends[q] \in Nat /\ (ends[q] > now => ends[q] # NoTime)
      BY ConfigAssumption DEF MemoryInv, TypeOK, Times, NoTime
    <3> QED
      BY <3>1, <1>u
  <2>4. queued'[q] \in Nat
    BY <1>u
  <2> QED
    BY <2>1, <2>2, <2>3, <2>4 DEF Places
<1>6. OnePlace'
  BY <1>5, <1>d, <1>u DEF OnePlace
<1> QED
  BY <1>1, <1>2, <1>3, <1>4, <1>5, <1>6, <1>a, <1>d DEF MemoryInv, Unfinished

(* The record a write takes from the drain loop.                           *)
LEMMA SequencedRecord ==
    ASSUME MemoryInv, pending # <<>>
    PROVE  /\ Sequenced \in Record /\ Sequenced.type \in Written
           /\ Sequenced.req \in Requests /\ WellFormed(Sequenced)
           /\ Sequenced.type = Head(pending).type /\ Sequenced.req = Head(pending).req
           /\ Sequenced.id = Head(pending).id /\ Sequenced.exp = Head(pending).exp
           /\ Sequenced.seq = sequence + 1
<1>1. Head(pending) \in Record /\ Head(pending).type \in Written /\ sequence \in Nat
  BY OldestRecord DEF MemoryInv, TypeOK
<1>2. Head(pending).req \in Requests
  BY OldestRecord, HolderOfRecord DEF Call
<1>3. Head(pending).type \in {"leased", "renewed"} => Head(pending).exp # NoTime
  BY OldestRecord DEF OfTheHolder
<1> QED
  BY <1>1, <1>2, <1>3 DEF Sequenced, Record, WellFormed

LEMMA FileWellFormedKept ==
    ASSUME MemoryInv, FileWellFormed, [Next]_vars
    PROVE  FileWellFormed'
<1>0. WellFormed(Garbage) /\ WellFormed(NoTail) /\ Garbage.type # "none"
  BY DEF Garbage, NoTail, NonRecord, Written, WellFormed
<1>1. CASE LandWrite
  <2>1. /\ lines \in Seq(Record) /\ tail' = NoTail
        /\ lines' = Append(lines, IF tail = NoTail THEN Sequenced ELSE Garbage)
    BY <1>1 DEF LandWrite, MemoryInv, TypeOK
  <2>2. WellFormed(Sequenced)
    BY <1>1, SequencedRecord DEF LandWrite
  <2>3. PICK rec : rec = (IF tail = NoTail THEN Sequenced ELSE Garbage)
    OBVIOUS
  <2>4. WellFormed(rec) /\ lines' = Append(lines, rec)
    BY <1>0, <2>1, <2>2, <2>3
  <2>5. \A i \in 1..Len(lines') : WellFormed(lines'[i])
    BY <2>1, <2>4 DEF FileWellFormed
  <2> QED
    BY <1>0, <2>1, <2>5 DEF FileWellFormed, WellFormed
<1>2. ASSUME NEW whole \in BOOLEAN, TearWrite(whole) PROVE FileWellFormed'
  <2>1. lines' = lines /\ tail' \in {Sequenced, Garbage}
    BY <1>2 DEF TearWrite
  <2>2. WellFormed(Sequenced) /\ Sequenced.type # "none"
    BY <1>2, SequencedRecord DEF TearWrite, Written
  <2> QED
    BY <1>0, <2>1, <2>2 DEF FileWellFormed, WellFormed
<1>3. CASE UNCHANGED fileVars
  BY <1>3 DEF fileVars, FileWellFormed, WellFormed
<1>4. ASSUME Next, ~LandWrite, ~ \E whole \in BOOLEAN : TearWrite(whole)
      PROVE  UNCHANGED fileVars
  BY <1>4 DEF Next, Drain, Enqueue, LeaseNext, LeaseNextNull, CallWithLease, StartTransition,
              RejectTransition, ResolveEnqueue, ResolveLease, ResolveRenewal, ResolveRelease,
              ResolveFinish, Resolve, FailWrite, Crash, Resume, RefuseResume, Tick
<1>5. UNCHANGED vars => UNCHANGED fileVars
  BY DEF vars
<1> QED
  BY <1>1, <1>2, <1>3, <1>4, <1>5

LEMMA StepMemory ==
    ASSUME MemoryInv, FileWellFormed, [Next]_vars
    PROVE  MemoryInv' /\ FileWellFormed'
<1> SUFFICES MemoryInv'
  BY FileWellFormedKept
<1>1. CASE UNCHANGED vars
  <2>u. UNCHANGED <<now, mode, crashes, faults, lines, tail, sequence, pending, landed, known,
                   queued, deferred, active, transitions, lease, acked, done, damaged, inherited>>
    BY <1>1 DEF vars, clockVars, fileVars, journalVars, stateVars, callerVars, historyVars
  <2>1. TypeOK'
    BY <2>u DEF MemoryInv, TypeOK
  <2>2. Absent' /\ CallsCoherent' /\ LeasesActive'
    BY <2>u DEF MemoryInv, Absent, CallsCoherent, LeasesActive
  <2>3. PendingCoherent'
    BY <2>u DEF MemoryInv, PendingCoherent, OfTheHolder
  <2>4. OnePlace'
    BY <2>u DEF MemoryInv, OnePlace, Places, BeingLeased
  <2> QED
    BY <2>1, <2>2, <2>3, <2>4 DEF MemoryInv
<1>2. ASSUME NEW r \in Requests, Enqueue(r) PROVE MemoryInv'
  BY <1>2, EnqueueMemory
<1>3. ASSUME NEW c \in Clients, NEW r \in Requests, LeaseNext(c, r) PROVE MemoryInv'
  BY <1>3, LeaseNextMemory
<1>4. ASSUME NEW c \in Clients, LeaseNextNull(c) PROVE MemoryInv'
  BY <1>4, LeaseNextNullMemory
<1>5. ASSUME NEW c \in Clients, NEW kind \in {"renewed", "released", "terminal"},
             CallWithLease(c, kind)
      PROVE  MemoryInv'
  BY <1>5, CallWithLeaseMemory
<1>6. CASE StartTransition
  BY <1>6, StartTransitionMemory
<1>7. CASE RejectTransition
  BY <1>7, RejectTransitionMemory
<1>8. CASE Drain
  BY <1>8, LandWriteMemory, ResolveEnqueueMemory, ResolveLeaseMemory, ResolveRenewalMemory,
     ResolveReleaseMemory, ResolveFinishMemory, FailWriteMemory DEF Drain
<1>9. ASSUME NEW whole \in BOOLEAN, TearWrite(whole) PROVE MemoryInv'
  BY <1>9, TearWriteMemory
<1>10. CASE Crash
  BY <1>10, CrashMemory
<1>11. CASE Resume
  BY <1>11, ResumeMemory
<1>12. CASE RefuseResume
  BY <1>12, RefuseResumeMemory
<1>13. CASE Tick
  BY <1>13, TickMemory
<1> QED
  BY <1>1, <1>2, <1>3, <1>4, <1>5, <1>6, <1>7, <1>8, <1>9, <1>10, <1>11, <1>12, <1>13
     DEF Next

-----------------------------------------------------------------------------
(* What the file says of the requests.                                     *)

(* The record that has landed but whose caller does not know it yet.       *)
Landed(type) == landed = "full" /\ Head(pending).type = type
LandedRequests(type) == IF Landed(type) THEN {Head(pending).req} ELSE {}

(* What a caller was told is in the file; while the process lives and no   *)
(* write tore, the file says what the memory says but for the record that  *)
(* has just landed; and what is finished is nowhere in the memory.         *)
FileCoherent ==
    ~damaged =>
        /\ acked \subseteq RecordedRequests(Parsed)
        /\ done \subseteq TerminalRequests(Parsed)
        /\ landed = "full" => tail = NoTail
        /\ mode = "up" =>
              /\ known \subseteq RecordedRequests(Parsed)
              /\ done \subseteq known
              /\ \A r \in done : Places(r) = 0
        /\ mode = "up" /\ tail = NoTail =>
              /\ RecordedRequests(Parsed) = known \cup LandedRequests("enqueued")
              /\ TerminalRequests(Parsed) = done \cup LandedRequests("terminal")

(* A record at the end of the file adds what it says to what was there.    *)
LEMMA RequestsAfterRecord ==
    ASSUME NEW recs \in Seq(Record), NEW rec
    PROVE  /\ RecordedRequests(Append(recs, rec)) =
                 RecordedRequests(recs) \cup IF rec.type = "enqueued" THEN {rec.req} ELSE {}
           /\ TerminalRequests(Append(recs, rec)) =
                 TerminalRequests(recs) \cup IF rec.type = "terminal" THEN {rec.req} ELSE {}
<1> DEFINE more == Append(recs, rec)
<1>1. /\ Len(more) = Len(recs) + 1 /\ Len(recs) \in Nat /\ more[Len(recs) + 1] = rec
      /\ \A i \in 1..Len(recs) : more[i] = recs[i]
  OBVIOUS
<1> HIDE DEF more
<1>2. ASSUME NEW type
      PROVE  {more[i].req : i \in {j \in 1..Len(more) : more[j].type = type}} =
             {recs[i].req : i \in {j \in 1..Len(recs) : recs[j].type = type}}
                \cup IF rec.type = type THEN {rec.req} ELSE {}
  <2> DEFINE A == {more[i].req : i \in {j \in 1..Len(more) : more[j].type = type}}
             B == {recs[i].req : i \in {j \in 1..Len(recs) : recs[j].type = type}}
  <2>1. ASSUME NEW x \in A
        PROVE  x \in B \/ (rec.type = type /\ x = rec.req)
    <3>1. PICK i \in 1..Len(more) : more[i].type = type /\ x = more[i].req
      OBVIOUS
    <3>2. CASE i = Len(recs) + 1
      BY <1>1, <3>1, <3>2
    <3>3. CASE i \in 1..Len(recs)
      BY <1>1, <3>1, <3>3
    <3> QED
      BY <1>1, <3>2, <3>3
  <2>2. ASSUME NEW x \in B PROVE x \in A
    <3>1. PICK i \in 1..Len(recs) : recs[i].type = type /\ x = recs[i].req
      OBVIOUS
    <3>2. i \in 1..Len(more) /\ more[i] = recs[i]
      BY <1>1
    <3> QED
      BY <3>1, <3>2
  <2>3. rec.type = type => rec.req \in A
    <3>1. Len(recs) + 1 \in 1..Len(more)
      BY <1>1
    <3> QED
      BY <1>1, <3>1
  <2> HIDE DEF A, B
  <2>4. A = B \cup IF rec.type = type THEN {rec.req} ELSE {}
    BY <2>1, <2>2, <2>3
  <2> QED
    BY <2>4 DEF A, B
<1> QED
  BY <1>2 DEF RecordedRequests, TerminalRequests, more

(* Of the records a write may leave, a whole one is the next.              *)
LEMMA ParsedAfterWrite ==
    ASSUME MemoryInv, FileWellFormed, tail = NoTail, NEW whole \in BOOLEAN,
           LandWrite \/ TearWrite(whole)
    PROVE  /\ Parsed = lines /\ lines \in Seq(Record)
           /\ LandWrite => Parsed' = Append(lines, Sequenced) /\ lines' = Parsed'
           /\ TearWrite(whole) =>
                /\ tail' # NoTail
                /\ Parsed' = IF whole THEN Append(lines, Sequenced) ELSE lines
<1>1. lines \in Seq(Record) /\ pending # <<>> /\ NoTail.type = "none" /\ Garbage.type = "garbage"
  BY DEF MemoryInv, TypeOK, LandWrite, TearWrite, NoTail, Garbage, NonRecord
<1>2. Sequenced.type \notin {"none", "garbage"}
  BY <1>1, SequencedRecord DEF Written
<1>3. Parsed = lines
  BY <1>1 DEF Parsed
<1>4. CASE LandWrite
  BY <1>1, <1>3, <1>4 DEF LandWrite, TearWrite, Parsed
<1>5. CASE TearWrite(whole)
  <2>1. tail' = (IF whole THEN Sequenced ELSE Garbage) /\ lines' = lines /\ landed' = "torn"
    BY <1>5 DEF TearWrite
  <2>2. ~LandWrite
    BY <2>1 DEF LandWrite
  <2> QED
    BY <1>1, <1>2, <1>3, <2>1, <2>2 DEF Parsed
<1> QED
  BY <1>4, <1>5

LEMMA InitFile == Init => FileWellFormed /\ FileCoherent
<1> SUFFICES ASSUME Init PROVE FileWellFormed /\ FileCoherent
  OBVIOUS
<1>1. NoTail.type = "none"
  BY DEF NoTail, NonRecord
<1>2. Parsed = <<>>
  BY <1>1 DEF Init, Parsed
<1>3. RecordedRequests(Parsed) = {} /\ TerminalRequests(Parsed) = {}
  BY <1>2 DEF RecordedRequests, TerminalRequests
<1>4. FileCoherent
  BY <1>1, <1>3 DEF Init, FileCoherent, LandedRequests, Landed
<1>5. FileWellFormed
  BY <1>1 DEF Init, FileWellFormed, WellFormed, Written
<1> QED
  BY <1>4, <1>5

(* A step that neither writes nor tells a caller leaves file and memory    *)
(* as they are to each other.                                              *)
LEMMA FileUntouched ==
    ASSUME FileCoherent,
           UNCHANGED <<mode, lines, tail, landed, known, acked, done, damaged>>,
           landed = "full" => Head(pending)' = Head(pending),
           \A r \in Requests : Places(r)' = Places(r), done \subseteq Requests
    PROVE  FileCoherent'
<1>1. Parsed' = Parsed
  BY DEF Parsed
<1>2. /\ LandedRequests("enqueued")' = LandedRequests("enqueued")
      /\ LandedRequests("terminal")' = LandedRequests("terminal")
  BY DEF LandedRequests, Landed
<1>3. /\ RecordedRequests(Parsed)' = RecordedRequests(Parsed)
      /\ TerminalRequests(Parsed)' = TerminalRequests(Parsed)
  BY <1>1 DEF RecordedRequests, TerminalRequests
<1> QED
  BY <1>2, <1>3 DEF FileCoherent

(* A record is reported that is neither an enqueue nor a terminal one, or  *)
(* the write failed before it landed.                                      *)
LEMMA FileAfterOther ==
    ASSUME FileCoherent, ~damaged' => ~damaged,
           UNCHANGED <<mode, lines, tail, known, acked, done>>, landed' = "no",
           ~damaged' => ~Landed("enqueued") /\ ~Landed("terminal"),
           \A r \in Requests : Places(r)' = Places(r), done \subseteq Requests
    PROVE  FileCoherent'
<1>1. Parsed' = Parsed
  BY DEF Parsed
<1>2. ~damaged' => /\ LandedRequests("enqueued") = {} /\ LandedRequests("enqueued")' = {}
                   /\ LandedRequests("terminal") = {} /\ LandedRequests("terminal")' = {}
  BY DEF LandedRequests, Landed
<1>3. /\ RecordedRequests(Parsed)' = RecordedRequests(Parsed)
      /\ TerminalRequests(Parsed)' = TerminalRequests(Parsed)
  BY <1>1 DEF RecordedRequests, TerminalRequests
<1> QED
  BY <1>2, <1>3 DEF FileCoherent

LEMMA WriteFile ==
    ASSUME MemoryInv, FileWellFormed, FileCoherent, NEW whole \in BOOLEAN,
           LandWrite \/ TearWrite(whole)
    PROVE  FileCoherent'
<1> SUFFICES ASSUME ~damaged' PROVE FileCoherent'
  BY DEF FileCoherent
<1>0. /\ tail = NoTail /\ ~damaged /\ pending # <<>> /\ landed = "no"
      /\ UNCHANGED <<mode, known, acked, done, pending, queued, deferred, active, transitions>>
  BY DEF LandWrite, TearWrite, clockVars, stateVars, callerVars
<1>1. /\ mode = "up" /\ Sequenced.type = Head(pending).type /\ Sequenced.req = Head(pending).req
  BY <1>0, OldestRecord, SequencedRecord
<1>2. /\ acked \subseteq RecordedRequests(Parsed) /\ done \subseteq TerminalRequests(Parsed)
      /\ RecordedRequests(Parsed) = known /\ TerminalRequests(Parsed) = done
      /\ done \subseteq known /\ \A r \in done : Places(r) = 0
  BY <1>0, <1>1 DEF FileCoherent, LandedRequests, Landed
<1>3. \A r \in Requests : Places(r)' = Places(r)
  BY <1>0 DEF Places, BeingLeased
<1>4. Parsed = lines /\ lines \in Seq(Record)
  BY <1>0, ParsedAfterWrite
<1>5. done \subseteq Requests
  BY DEF MemoryInv, TypeOK
<1>6. CASE LandWrite
  <2>1. Parsed' = Append(Parsed, Sequenced) /\ landed' = "full" /\ tail' = NoTail
    BY <1>0, <1>4, <1>6, ParsedAfterWrite DEF LandWrite
  <2>2. /\ RecordedRequests(Parsed)' =
              known \cup IF Sequenced.type = "enqueued" THEN {Sequenced.req} ELSE {}
        /\ TerminalRequests(Parsed)' =
              done \cup IF Sequenced.type = "terminal" THEN {Sequenced.req} ELSE {}
    BY <1>2, <1>4, <2>1, RequestsAfterRecord DEF RecordedRequests, TerminalRequests
  <2>3. /\ LandedRequests("enqueued")' = IF Sequenced.type = "enqueued" THEN {Sequenced.req} ELSE {}
        /\ LandedRequests("terminal")' = IF Sequenced.type = "terminal" THEN {Sequenced.req} ELSE {}
    BY <1>0, <1>1, <2>1 DEF LandedRequests, Landed
  <2> QED
    BY <1>0, <1>2, <1>3, <1>5, <2>1, <2>2, <2>3 DEF FileCoherent
<1>7. CASE TearWrite(whole)
  <2>1. /\ Parsed' = IF whole THEN Append(Parsed, Sequenced) ELSE Parsed
        /\ tail' # NoTail /\ landed' = "torn"
    BY <1>0, <1>4, <1>7, ParsedAfterWrite DEF TearWrite
  <2>2. /\ known \subseteq RecordedRequests(Parsed)'
        /\ done \subseteq TerminalRequests(Parsed)'
    BY <1>2, <1>4, <2>1, RequestsAfterRecord DEF RecordedRequests, TerminalRequests
  <2> QED
    BY <1>0, <1>2, <1>3, <1>5, <2>1, <2>2 DEF FileCoherent
<1> QED
  BY <1>6, <1>7

LEMMA ResolveEnqueueFile ==
    ASSUME MemoryInv, FileCoherent, ResolveEnqueue
    PROVE  FileCoherent'
<1> SUFFICES ASSUME ~damaged' PROVE FileCoherent'
  BY DEF FileCoherent
<1>0. /\ pending # <<>> /\ landed = "full" /\ Head(pending).type = "enqueued" /\ ~damaged
      /\ UNCHANGED <<mode, lines, tail, done, deferred, active, transitions>>
      /\ landed' = "no"
  BY DEF ResolveEnqueue, Resolve, MemoryInv, PendingCoherent, clockVars, fileVars, historyVars
<1>v. PICK r \in Requests : r = Head(pending).req /\ r \notin known
  BY <1>0, OldestRecord
<1>u. /\ known' = known \cup {r} /\ queued' = [queued EXCEPT ![r] = @ + 1]
      /\ acked' = acked \cup {r}
  BY <1>v DEF ResolveEnqueue
<1>1. mode = "up" /\ tail = NoTail
  BY <1>0, OldestRecord DEF FileCoherent
<1>2. Parsed' = Parsed
  BY <1>0 DEF Parsed
<1>3. /\ RecordedRequests(Parsed) = known \cup {r} /\ TerminalRequests(Parsed) = done
      /\ acked \subseteq RecordedRequests(Parsed)
      /\ done \subseteq known /\ \A q \in done : Places(q) = 0
  BY <1>0, <1>1, <1>v DEF FileCoherent, LandedRequests, Landed
<1>4. \A q \in done : Places(q)' = 0
  <2> SUFFICES ASSUME NEW q \in done PROVE Places(q)' = Places(q)
    BY <1>3
  <2>1. q # r /\ q \in Requests
    BY <1>3, <1>v DEF MemoryInv, TypeOK
  <2>2. queued'[q] = queued[q]
    BY <1>u, <2>1 DEF MemoryInv, TypeOK
  <2> QED
    BY <1>0, <2>2 DEF Places, BeingLeased
<1>5. LandedRequests("enqueued")' = {} /\ LandedRequests("terminal")' = {}
  BY <1>0 DEF LandedRequests, Landed
<1>6. /\ RecordedRequests(Parsed)' = RecordedRequests(Parsed)
      /\ TerminalRequests(Parsed)' = TerminalRequests(Parsed)
  BY <1>2 DEF RecordedRequests, TerminalRequests
<1>7. acked' \subseteq RecordedRequests(Parsed)
  BY <1>u, <1>3
<1> QED
  BY <1>0, <1>u, <1>3, <1>4, <1>5, <1>6, <1>7 DEF FileCoherent

LEMMA ResolveFinishFile ==
    ASSUME MemoryInv, FileCoherent, ResolveFinish
    PROVE  FileCoherent'
<1> SUFFICES ASSUME ~damaged' PROVE FileCoherent'
  BY DEF FileCoherent
<1>0. /\ pending # <<>> /\ landed = "full" /\ Head(pending).type = "terminal" /\ ~damaged
      /\ UNCHANGED <<mode, lines, tail, known, acked, queued, deferred>>
      /\ transitions' = Tail(transitions) /\ landed' = "no"
  BY DEF ResolveFinish, Resolve, MemoryInv, PendingCoherent, clockVars, fileVars, historyVars
<1>v. PICK call \in Call : call = Head(transitions) /\ call.kind = "terminal"
                           /\ call.req = Head(pending).req /\ active[call.req] # NoTime
  BY <1>0, HolderOfRecord
<1>w. call.req \in Requests
  BY DEF Call
<1>u. /\ done' = done \cup {call.req}
      /\ active' = [active EXCEPT ![call.req] = NoTime]
      /\ lease' = [lease EXCEPT ![call.client] = NoLease]
  BY <1>v DEF ResolveFinish
<1>1. mode = "up" /\ tail = NoTail
  BY <1>0, OldestRecord DEF FileCoherent
<1>2. Parsed' = Parsed
  BY <1>0 DEF Parsed
<1>3. /\ RecordedRequests(Parsed) = known /\ TerminalRequests(Parsed) = done \cup {call.req}
      /\ acked \subseteq RecordedRequests(Parsed)
      /\ done \subseteq known /\ \A q \in done : Places(q) = 0
  BY <1>0, <1>1, <1>v DEF FileCoherent, LandedRequests, Landed
<1>4. ASSUME NEW q \in Requests
      PROVE  BeingLeased(q)' = BeingLeased(q) /\ BeingLeased(q) \in Nat
             /\ active'[q] = IF q = call.req THEN NoTime ELSE active[q]
  BY <1>0, <1>u, <1>v, LeaseEnds
<1>5. call.req \in known
  <2>1. Places(call.req) # 0
    <3>1. queued[call.req] \in Nat /\ BeingLeased(call.req) \in Nat
      BY <1>w, <1>4 DEF MemoryInv, TypeOK
    <3> QED
      BY <1>v, <3>1 DEF Places
  <2> QED
    BY <1>1, <1>w, <2>1 DEF MemoryInv, OnePlace
<1>6. ASSUME NEW q \in done' PROVE Places(q)' = 0
  <2>1. CASE q = call.req
    BY <1>w, <2>1, <1>v, ResolveFinishMemory
  <2>2. CASE q # call.req
    <3>1. q \in done /\ q \in Requests
      BY <1>u, <2>2 DEF MemoryInv, TypeOK
    <3>2. Places(q)' = Places(q)
      BY <1>0, <1>4, <2>2, <3>1 DEF Places
    <3> QED
      BY <1>3, <3>1, <3>2
  <2> QED
    BY <2>1, <2>2
<1>7. LandedRequests("enqueued")' = {} /\ LandedRequests("terminal")' = {}
  BY <1>0 DEF LandedRequests, Landed
<1>8. /\ RecordedRequests(Parsed)' = RecordedRequests(Parsed)
      /\ TerminalRequests(Parsed)' = TerminalRequests(Parsed)
  BY <1>2 DEF RecordedRequests, TerminalRequests
<1>9. done' \subseteq known
  BY <1>u, <1>3, <1>5
<1> QED
  BY <1>0, <1>u, <1>3, <1>6, <1>7, <1>8, <1>9 DEF FileCoherent

(* A valid journal finishes only what was enqueued.                        *)
LEMMA TerminalWasRecorded ==
    ASSUME NEW recs \in Seq(Record), ValidJournal(recs)
    PROVE  TerminalRequests(recs) \subseteq RecordedRequests(recs)
<1> SUFFICES ASSUME NEW i \in 1..Len(recs), recs[i].type = "terminal"
             PROVE  recs[i].req \in RecordedRequests(recs)
  BY DEF TerminalRequests
<1>1. ValidTransition(recs, i)
  BY DEF ValidJournal
<1>2. PICK j \in Earlier(recs, i) : recs[j].type = "enqueued"
  BY <1>1 DEF ValidTransition
<1>3. j \in 1..Len(recs) /\ recs[j].req = recs[i].req
  BY DEF Earlier
<1> QED
  BY <1>2, <1>3 DEF RecordedRequests

LEMMA ResumeFile ==
    ASSUME MemoryInv, FileWellFormed, FileCoherent, Resume
    PROVE  FileCoherent'
<1> SUFFICES ASSUME ~damaged' PROVE FileCoherent'
  BY DEF FileCoherent
<1>0. /\ Parsed \in Seq(Record) /\ ValidJournal(Parsed)
      /\ UNCHANGED <<lines, tail, landed, acked, damaged>> /\ mode # "up" /\ ~damaged
      /\ known' = RecordedRequests(Parsed) /\ done' = done \cup TerminalRequests(Parsed)
  BY ParsedRecords DEF Resume, fileVars, MemoryInv, TypeOK
<1>1. Parsed' = Parsed /\ landed = "no"
  BY <1>0 DEF Parsed, MemoryInv, Absent
<1>2. done' = TerminalRequests(Parsed) /\ acked \subseteq RecordedRequests(Parsed)
  BY <1>0 DEF FileCoherent
<1>3. done' \subseteq known'
  BY <1>0, <1>2, TerminalWasRecorded
<1>4. \A r \in done' : Places(r)' = 0
  <2>1. done' \subseteq Requests
    BY ResumeMemory DEF MemoryInv, TypeOK
  <2> QED
    BY <1>2, <2>1, ResumeMemory DEF Unfinished
<1>5. LandedRequests("enqueued")' = {} /\ LandedRequests("terminal")' = {}
  BY <1>0, <1>1 DEF LandedRequests, Landed
<1>6. /\ RecordedRequests(Parsed)' = RecordedRequests(Parsed)
      /\ TerminalRequests(Parsed)' = TerminalRequests(Parsed)
  BY <1>1 DEF RecordedRequests, TerminalRequests
<1> QED
  BY <1>0, <1>1, <1>2, <1>3, <1>4, <1>5, <1>6 DEF FileCoherent

LEMMA FileCoherentKept ==
    ASSUME MemoryInv, FileWellFormed, FileCoherent, [Next]_vars
    PROVE  FileCoherent'
<1> USE DEF clockVars, fileVars, journalVars, stateVars, callerVars, historyVars
<1>0. done \subseteq Requests
  BY DEF MemoryInv, TypeOK
<1>1. CASE UNCHANGED vars
  <2>1. \A r \in Requests : Places(r)' = Places(r)
    BY <1>1 DEF vars, Places, BeingLeased
  <2>2. UNCHANGED <<mode, lines, tail, landed, known, acked, done, damaged, pending>>
    BY <1>1 DEF vars
  <2> QED
    BY <1>0, <2>1, <2>2, FileUntouched
<1>2. ASSUME NEW r \in Requests, Enqueue(r) PROVE FileCoherent'
  <2>1. landed = "full" => Head(pending)' = Head(pending)
    <3>1. landed = "full" => pending # <<>>
      BY DEF MemoryInv, PendingCoherent
    <3> QED
      BY <1>2, <3>1 DEF Enqueue, MemoryInv, TypeOK
  <2>2. \A q \in Requests : Places(q)' = Places(q)
    BY <1>2 DEF Enqueue, Places, BeingLeased
  <2> QED
    BY <1>0, <1>2, <2>1, <2>2, FileUntouched DEF Enqueue
<1>3. ASSUME NEW c \in Clients, NEW r \in Requests, LeaseNext(c, r) PROVE FileCoherent'
  BY <1>0, <1>3, LeaseNextMemory, FileUntouched DEF LeaseNext, PlacesKept
<1>4. ASSUME NEW c \in Clients, LeaseNextNull(c) PROVE FileCoherent'
  BY <1>0, <1>4, LeaseNextNullMemory, FileUntouched DEF LeaseNextNull, PlacesKept
<1>5. ASSUME NEW c \in Clients, NEW kind \in {"renewed", "released", "terminal"},
             CallWithLease(c, kind)
      PROVE  FileCoherent'
  BY <1>0, <1>5, CallWithLeaseMemory, FileUntouched DEF CallWithLease, PlacesKept
<1>6. CASE StartTransition
  <2>1. landed = "full" => Head(pending)' = Head(pending)
    <3>1. landed = "full" => pending # <<>>
      BY DEF MemoryInv, PendingCoherent
    <3> QED
      BY <1>6, <3>1 DEF StartTransition, MemoryInv, TypeOK
  <2>2. \A q \in Requests : Places(q)' = Places(q)
    BY <1>6 DEF StartTransition, Places, BeingLeased
  <2> QED
    BY <1>0, <1>6, <2>1, <2>2, FileUntouched DEF StartTransition
<1>7. CASE RejectTransition
  BY <1>0, <1>7, RejectTransitionMemory, FileUntouched DEF RejectTransition, PlacesKept
<1>8. ASSUME NEW whole \in BOOLEAN, LandWrite \/ TearWrite(whole) PROVE FileCoherent'
  BY <1>8, WriteFile
<1>9. CASE ResolveEnqueue
  BY <1>9, ResolveEnqueueFile
<1>10. CASE ResolveLease
  BY <1>0, <1>10, ResolveLeaseMemory, FileAfterOther
     DEF ResolveLease, Resolve, Landed, PlacesKept
<1>11. CASE ResolveRenewal
  BY <1>0, <1>11, ResolveRenewalMemory, FileAfterOther
     DEF ResolveRenewal, Resolve, Landed, PlacesKept
<1>12. CASE ResolveRelease
  BY <1>0, <1>12, ResolveReleaseMemory, FileAfterOther
     DEF ResolveRelease, Resolve, Landed, PlacesKept
<1>13. CASE ResolveFinish
  BY <1>13, ResolveFinishFile
<1>14. CASE FailWrite
  BY <1>0, <1>14, FailWriteMemory, FileAfterOther DEF FailWrite, Landed, PlacesKept
<1>15. CASE Crash
  <2>1. Parsed' = Parsed /\ mode' # "up" /\ landed' # "full"
        /\ UNCHANGED <<acked, done, damaged, tail>>
    BY <1>15 DEF Crash, Parsed
  <2>2. /\ RecordedRequests(Parsed)' = RecordedRequests(Parsed)
        /\ TerminalRequests(Parsed)' = TerminalRequests(Parsed)
    BY <2>1 DEF RecordedRequests, TerminalRequests
  <2> QED
    BY <2>1, <2>2 DEF FileCoherent
<1>16. CASE Resume
  BY <1>16, ResumeFile
<1>17. CASE RefuseResume
  <2>1. Parsed' = Parsed /\ mode' # "up" /\ landed' = landed
        /\ UNCHANGED <<acked, done, damaged, tail>>
    BY <1>17 DEF RefuseResume, Parsed
  <2>2. /\ RecordedRequests(Parsed)' = RecordedRequests(Parsed)
        /\ TerminalRequests(Parsed)' = TerminalRequests(Parsed)
    BY <2>1 DEF RecordedRequests, TerminalRequests
  <2> QED
    BY <2>1, <2>2 DEF FileCoherent
<1>18. CASE Tick
  <2>1. \A r \in Requests : Places(r)' = Places(r)
    BY <1>18 DEF Tick, Places, BeingLeased
  <2> QED
    BY <1>0, <1>18, <2>1, FileUntouched DEF Tick
<1> QED
  BY <1>1, <1>2, <1>3, <1>4, <1>5, <1>6, <1>7, <1>8, <1>9, <1>10, <1>11, <1>12, <1>13,
     <1>14, <1>15, <1>16, <1>17, <1>18 DEF Next, Drain

-----------------------------------------------------------------------------
(* What the file says of the leases.                                       *)

(* RequestJournalState.leaseId of request r after all of recs              *)
LeaseChanges(recs, r) ==
    {j \in 1..Len(recs) : recs[j].req = r /\ recs[j].type \in {"leased", "released"}}
LeaseAfter(recs, r) ==
    IF LeaseChanges(recs, r) = {} \/ recs[LastOf(LeaseChanges(recs, r))].type = "released"
    THEN NoTime ELSE recs[LastOf(LeaseChanges(recs, r))].id

(* The active lease of r once the record that has landed is reported.      *)
Told(r) ==
    IF Landed("leased") /\ Head(pending).req = r THEN Head(pending).id
    ELSE IF Landed("released") /\ Head(pending).req = r THEN NoTime
    ELSE active[r]

(* The file is a valid journal, numbered as the process numbers it, and    *)
(* its last word on a lease is the memory's.                               *)
LogCoherent ==
    ~damaged /\ inherited = {} =>
        /\ Parsable /\ ValidJournal(Parsed)
        /\ mode = "up" /\ tail = NoTail =>
              /\ Len(lines) = sequence + IF landed = "full" THEN 1 ELSE 0
              /\ \A r \in Requests \ TerminalRequests(Parsed) : LeaseAfter(Parsed, r) = Told(r)

LEMMA LastOfMore ==
    ASSUME NEW n \in Nat, NEW S, S \subseteq 1..n
    PROVE  LastOf(S \cup {n + 1}) = n + 1
<1>1. S \cup {n + 1} \subseteq 1..(n + 1)
  OBVIOUS
<1>2. LastOf(S \cup {n + 1}) \in S \cup {n + 1}
      /\ \A j \in S \cup {n + 1} : j <= LastOf(S \cup {n + 1})
  BY <1>1, LastOfPositions, n + 1 \in Nat
<1>3. PICK last : last = LastOf(S \cup {n + 1})
  OBVIOUS
<1>4. last \in S \cup {n + 1} /\ n + 1 <= last
  BY <1>2, <1>3
<1>5. last = n + 1
  BY <1>4
<1> QED
  BY <1>3, <1>5

LEMMA LeaseAfterRecord ==
    ASSUME NEW recs \in Seq(Record), NEW rec, NEW r
    PROVE  LeaseAfter(Append(recs, rec), r) =
             IF rec.req = r /\ rec.type = "leased" THEN rec.id
             ELSE IF rec.req = r /\ rec.type = "released" THEN NoTime
             ELSE LeaseAfter(recs, r)
<1> DEFINE more == Append(recs, rec)
<1>1. /\ Len(more) = Len(recs) + 1 /\ Len(recs) \in Nat /\ more[Len(recs) + 1] = rec
      /\ \A i \in 1..Len(recs) : more[i] = recs[i]
  OBVIOUS
<1> HIDE DEF more
<1>2. LeaseChanges(recs, r) \subseteq 1..Len(recs)
  BY DEF LeaseChanges
<1>3. CASE rec.req = r /\ rec.type \in {"leased", "released"}
  <2>1. LeaseChanges(more, r) = LeaseChanges(recs, r) \cup {Len(recs) + 1}
    BY <1>1, <1>3 DEF LeaseChanges
  <2>2. LastOf(LeaseChanges(more, r)) = Len(recs) + 1
    BY <1>1, <1>2, <2>1, LastOfMore
  <2>3. LeaseChanges(more, r) # {}
    BY <2>1
  <2>4. more[LastOf(LeaseChanges(more, r))] = rec
    BY <1>1, <2>2
  <2>5. LeaseAfter(more, r) = IF rec.type = "released" THEN NoTime ELSE rec.id
    BY <2>3, <2>4 DEF LeaseAfter
  <2> QED
    BY <1>3, <2>5 DEF more
<1>4. CASE ~(rec.req = r /\ rec.type \in {"leased", "released"})
  <2>1. LeaseChanges(more, r) = LeaseChanges(recs, r)
    BY <1>1, <1>4 DEF LeaseChanges
  <2>2. LeaseChanges(recs, r) # {} =>
          more[LastOf(LeaseChanges(recs, r))] = recs[LastOf(LeaseChanges(recs, r))]
    BY <1>1, <1>2, LastOfPositions
  <2>3. LeaseAfter(more, r) = LeaseAfter(recs, r)
    BY <2>1, <2>2 DEF LeaseAfter
  <2> QED
    BY <1>4, <2>3 DEF more
<1> QED
  BY <1>3, <1>4

(* A record that applyTransition accepts after a valid journal makes a     *)
(* valid journal.                                                          *)
Acceptable(recs, rec) ==
    IF rec.type = "enqueued" THEN rec.req \notin RecordedRequests(recs)
    ELSE /\ rec.req \in RecordedRequests(recs) \ TerminalRequests(recs)
         /\ LeaseAfter(recs, rec.req) = IF rec.type = "leased" THEN NoTime ELSE rec.id

LEMMA ValidAfterRecord ==
    ASSUME NEW recs \in Seq(Record), ValidJournal(recs), NEW rec \in Record,
           rec.seq = Len(recs) + 1, Acceptable(recs, rec)
    PROVE  ValidJournal(Append(recs, rec))
<1> DEFINE more == Append(recs, rec)
           n == Len(recs)
<1>1. /\ Len(more) = n + 1 /\ n \in Nat /\ more[n + 1] = rec
      /\ \A i \in 1..n : more[i] = recs[i]
  OBVIOUS
<1> HIDE DEF more, n
<1>2. ASSUME NEW i \in 1..(n + 1)
      PROVE  /\ Earlier(more, i) \subseteq 1..n /\ n \in Nat
             /\ \A j \in Earlier(more, i) : more[j] = recs[j]
  BY <1>1 DEF Earlier
<1>3. ASSUME NEW i \in 1..n
      PROVE  more[i].seq = i /\ ValidTransition(more, i)
  <2>1. ValidTransition(recs, i) /\ recs[i].seq = i
    BY DEF ValidJournal, n
  <2>2. Earlier(more, i) = Earlier(recs, i) /\ more[i] = recs[i]
    BY <1>1 DEF Earlier
  <2>3. Earlier(recs, i) \subseteq 1..n /\ \A j \in Earlier(recs, i) : more[j] = recs[j]
    BY <1>1, <1>2, <2>2
  <2>4. {more[j].type : j \in Earlier(more, i)} = {recs[j].type : j \in Earlier(recs, i)}
    BY <2>2, <2>3
  <2>5. LeaseBefore(more, i) = LeaseBefore(recs, i)
    <3> DEFINE S == {j \in Earlier(recs, i) : recs[j].type \in {"leased", "released"}}
               T == {j \in Earlier(more, i) : more[j].type \in {"leased", "released"}}
    <3>1. S = T
      BY <2>2, <2>3
    <3>2. S \subseteq Earlier(recs, i) /\ S \subseteq 1..n
      BY <2>3
    <3> HIDE DEF S, T
    <3>3. S # {} => LastOf(S) \in S
      BY <1>1, <3>2, LastOfPositions
    <3>4. S # {} => more[LastOf(S)] = recs[LastOf(S)]
      BY <2>3, <3>2, <3>3
    <3>5. /\ LeaseBefore(recs, i) = IF S = {} \/ recs[LastOf(S)].type = "released"
                                    THEN NoTime ELSE recs[LastOf(S)].id
          /\ LeaseBefore(more, i) = IF T = {} \/ more[LastOf(T)].type = "released"
                                    THEN NoTime ELSE more[LastOf(T)].id
      BY DEF LeaseBefore, S, T
    <3> QED
      BY <3>1, <3>4, <3>5
  <2> QED
    BY <1>1, <2>1, <2>2, <2>4, <2>5 DEF ValidTransition
<1>4. ValidTransition(more, n + 1)
  <2> DEFINE types == {more[j].type : j \in Earlier(more, n + 1)}
             S == {j \in Earlier(more, n + 1) : more[j].type \in {"leased", "released"}}
  <2>1. n + 1 \in 1..(n + 1)
    BY <1>1
  <2>2. Earlier(more, n + 1) = {j \in 1..n : recs[j].req = rec.req}
    BY <1>1 DEF Earlier
  <2>3. "enqueued" \in types <=> rec.req \in RecordedRequests(recs)
    BY <1>1, <2>2 DEF RecordedRequests, n
  <2>4. "terminal" \in types <=> rec.req \in TerminalRequests(recs)
    BY <1>1, <2>2 DEF TerminalRequests, n
  <2>5. LeaseBefore(more, n + 1) = LeaseAfter(recs, rec.req)
    <3>1. S = LeaseChanges(recs, rec.req)
      BY <1>1, <2>2 DEF LeaseChanges, n
    <3>2. LeaseChanges(recs, rec.req) \subseteq 1..n
      BY DEF LeaseChanges, n
    <3>3. S # {} => more[LastOf(S)] = recs[LastOf(S)]
      <4> HIDE DEF S
      <4> QED
        BY <1>1, <3>1, <3>2, LastOfPositions
    <3>4. LeaseBefore(more, n + 1) = IF S = {} \/ more[LastOf(S)].type = "released"
                                     THEN NoTime ELSE more[LastOf(S)].id
      BY DEF LeaseBefore
    <3> HIDE DEF S
    <3> QED
      BY <3>1, <3>3, <3>4 DEF LeaseAfter
  <2>6. ValidTransition(more, n + 1) =
          IF rec.type = "enqueued" THEN "enqueued" \notin types
          ELSE /\ "enqueued" \in types /\ "terminal" \notin types
               /\ LeaseBefore(more, n + 1) = IF rec.type = "leased" THEN NoTime ELSE rec.id
    BY <1>1 DEF ValidTransition
  <2> HIDE DEF types
  <2> QED
    BY <2>3, <2>4, <2>5, <2>6 DEF Acceptable
<1> QED
  BY <1>1, <1>3, <1>4 DEF ValidJournal, more, n

(* The record a write is about to add is one a later load() accepts: what  *)
(* the call checked in the memory is what the file says.                   *)
LEMMA NextRecordAccepted ==
    ASSUME MemoryInv, FileWellFormed, FileCoherent, LogCoherent, ~damaged, inherited = {},
           pending # <<>>, landed = "no", tail = NoTail
    PROVE  /\ Parsed = lines /\ ValidJournal(lines) /\ lines \in Seq(Record)
           /\ Sequenced.seq = Len(lines) + 1 /\ Sequenced \in Record
           /\ Acceptable(lines, Sequenced)
           /\ ValidJournal(Append(lines, Sequenced))
<1>0. Parsed = lines /\ lines \in Seq(Record) /\ mode = "up"
  BY OldestRecord DEF Parsed, NoTail, NonRecord, MemoryInv, TypeOK
<1>1. /\ ValidJournal(lines) /\ Len(lines) = sequence /\ sequence \in Nat
      /\ \A r \in Requests \ TerminalRequests(lines) : LeaseAfter(lines, r) = active[r]
  BY <1>0 DEF LogCoherent, Told, Landed, MemoryInv, TypeOK
<1>2. /\ RecordedRequests(lines) = known /\ TerminalRequests(lines) = done
      /\ \A r \in done : Places(r) = 0
  BY <1>0 DEF FileCoherent, LandedRequests, Landed
<1>3. PICK rec \in Record : /\ rec = Sequenced /\ rec.seq = sequence + 1 /\ rec.req \in Requests
                            /\ rec.type = Head(pending).type /\ rec.req = Head(pending).req
                            /\ rec.id = Head(pending).id
  BY SequencedRecord
<1>4. CASE rec.type = "enqueued"
  <2>1. rec.req \notin known
    BY <1>3, <1>4, OldestRecord
  <2> QED
    BY <1>0, <1>1, <1>2, <1>3, <1>4, <2>1, ValidAfterRecord DEF Acceptable
<1>5. CASE rec.type # "enqueued"
  <2>1. /\ OfTheHolder(Head(pending)) /\ transitions # <<>> /\ transitions \in Seq(Call)
        /\ Head(transitions).kind = rec.type /\ Head(transitions).req = rec.req
    BY <1>3, <1>5, OldestRecord, HolderOfRecord
  <2>2. rec.type # "leased" => active[rec.req] = rec.id /\ rec.id # NoTime
    BY <1>3, <2>1 DEF OfTheHolder
  <2>3. /\ queued[rec.req] \in Nat /\ BeingLeased(rec.req) \in Nat
        /\ rec.type = "leased" => BeingLeased(rec.req) > 0
    <3>1. Cardinality(LeasesOf(transitions, rec.req)) =
            Cardinality(LeasesOf(Tail(transitions), rec.req))
               + Counts(Head(transitions), rec.req)
      BY <2>1, LeasesAfterTurn
    <3>2. Cardinality(LeasesOf(Tail(transitions), rec.req)) \in Nat
      BY <2>1, Turned, LeasesCounted
    <3>3. BeingLeased(rec.req) = Cardinality(LeasesOf(transitions, rec.req))
      BY DEF BeingLeased, LeasesOf
    <3>4. Counts(Head(transitions), rec.req) = IF rec.type = "leased" THEN 1 ELSE 0
      BY <2>1 DEF Counts
    <3>5. queued[rec.req] \in Nat
      BY <1>3 DEF MemoryInv, TypeOK
    <3> QED
      BY <3>1, <3>2, <3>3, <3>4, <3>5
  <2>4. Places(rec.req) # 0 /\ (rec.type = "leased" => active[rec.req] = NoTime)
    <3>1. Places(rec.req) <= 1
      BY <1>0, <1>3 DEF MemoryInv, OnePlace
    <3> QED
      BY <2>2, <2>3, <3>1 DEF Places
  <2>5. rec.req \in known /\ rec.req \notin done
    BY <1>0, <1>2, <1>3, <2>4 DEF MemoryInv, OnePlace
  <2>6. LeaseAfter(lines, rec.req) = IF rec.type = "leased" THEN NoTime ELSE rec.id
    BY <1>1, <1>2, <1>3, <2>2, <2>4, <2>5
  <2>7. Acceptable(lines, rec)
    BY <1>2, <1>5, <2>5, <2>6 DEF Acceptable
  <2> QED
    BY <1>0, <1>1, <1>3, <2>7, ValidAfterRecord
<1> QED
  BY <1>4, <1>5

LEMMA WriteLog ==
    ASSUME MemoryInv, FileWellFormed, FileCoherent, LogCoherent, NEW whole \in BOOLEAN,
           LandWrite \/ TearWrite(whole)
    PROVE  LogCoherent'
<1> SUFFICES ASSUME ~damaged', inherited' = {} PROVE LogCoherent'
  BY DEF LogCoherent
<1>0. /\ tail = NoTail /\ ~damaged /\ inherited = {} /\ pending # <<>> /\ landed = "no"
      /\ UNCHANGED <<mode, pending, active, sequence>>
  BY DEF LandWrite, TearWrite, clockVars, stateVars, callerVars
<1>1. /\ Parsed = lines /\ ValidJournal(lines) /\ lines \in Seq(Record)
      /\ ValidJournal(Append(lines, Sequenced)) /\ Sequenced.seq = Len(lines) + 1
  BY <1>0, NextRecordAccepted
<1>2. mode = "up" /\ Parsable /\ Len(lines) = sequence /\ sequence \in Nat
      /\ \A r \in Requests \ TerminalRequests(lines) : LeaseAfter(lines, r) = active[r]
  BY <1>0, <1>1, OldestRecord DEF LogCoherent, Told, Landed, MemoryInv, TypeOK
<1>3. /\ Sequenced.type # "garbage" /\ Sequenced.type = Head(pending).type
      /\ Sequenced.req = Head(pending).req /\ Sequenced.id = Head(pending).id
  BY <1>0, SequencedRecord DEF Written
<1>4. CASE LandWrite
  <2>1. Parsed' = Append(lines, Sequenced) /\ lines' = Append(lines, Sequenced)
        /\ landed' = "full"
    BY <1>0, <1>4, ParsedAfterWrite DEF LandWrite
  <2>2. Parsable' /\ Len(lines') = sequence + 1
    BY <1>1, <1>2, <1>3, <2>1 DEF Parsable
  <2>3. ASSUME NEW r \in Requests \ TerminalRequests(Parsed)'
        PROVE  LeaseAfter(Parsed, r)' = Told(r)'
    <3>1. r \in Requests \ TerminalRequests(lines)
      BY <1>1, <2>1, RequestsAfterRecord DEF TerminalRequests
    <3>2. LeaseAfter(Append(lines, Sequenced), r) =
            IF Sequenced.req = r /\ Sequenced.type = "leased" THEN Sequenced.id
            ELSE IF Sequenced.req = r /\ Sequenced.type = "released" THEN NoTime
            ELSE active[r]
      BY <1>1, <1>2, <3>1, LeaseAfterRecord
    <3>3. Told(r)' = IF Sequenced.req = r /\ Sequenced.type = "leased" THEN Sequenced.id
                     ELSE IF Sequenced.req = r /\ Sequenced.type = "released" THEN NoTime
                     ELSE active[r]
      BY <1>0, <1>3, <2>1 DEF Told, Landed
    <3>4. LeaseAfter(Parsed, r)' = LeaseAfter(Append(lines, Sequenced), r)
      BY <2>1 DEF LeaseAfter, LeaseChanges
    <3> QED
      BY <3>2, <3>3, <3>4
  <2>4. ValidJournal(Parsed')
    BY <1>1, <2>1
  <2> QED
    BY <1>0, <2>1, <2>2, <2>3, <2>4 DEF LogCoherent
<1>5. CASE TearWrite(whole)
  <2>1. /\ Parsed' = IF whole THEN Append(lines, Sequenced) ELSE lines
        /\ lines' = lines /\ tail' # NoTail
    BY <1>0, <1>5, ParsedAfterWrite DEF TearWrite
  <2>2. ValidJournal(Parsed')
    BY <1>1, <2>1
  <2> QED
    BY <1>2, <2>1, <2>2 DEF LogCoherent, Parsable
<1> QED
  BY <1>4, <1>5

(* A step that changes neither the file nor what the memory will say of    *)
(* the leases.                                                             *)
LEMMA LogKept ==
    ASSUME LogCoherent, ~damaged' => ~damaged, inherited' = inherited,
           UNCHANGED <<lines, tail>>, mode' = "up" => mode = "up",
           ~damaged' /\ mode' = "up" =>
             /\ sequence' + (IF landed' = "full" THEN 1 ELSE 0)
                    = sequence + (IF landed = "full" THEN 1 ELSE 0)
             /\ tail = NoTail => \A r \in Requests \ TerminalRequests(Parsed) : Told(r)' = Told(r)
    PROVE  LogCoherent'
<1> SUFFICES ASSUME ~damaged', inherited' = {} PROVE LogCoherent'
  BY DEF LogCoherent
<1>1. PICK recs : recs = Parsed /\ recs = Parsed'
  BY DEF Parsed
<1>2. /\ ValidJournal(Parsed)' <=> ValidJournal(Parsed)
      /\ TerminalRequests(Parsed)' = TerminalRequests(Parsed)
      /\ \A r : LeaseAfter(Parsed, r)' = LeaseAfter(Parsed, r)
  BY <1>1 DEF ValidJournal, ValidTransition, LeaseBefore, Earlier, TerminalRequests,
              LeaseAfter, LeaseChanges
<1>3. Parsable' <=> Parsable
  BY DEF Parsable
<1> QED
  BY <1>2, <1>3 DEF LogCoherent

(* A request whose last lease was given back has no lease in the file.     *)
LEMMA LeaseOver ==
    ASSUME NEW recs \in Seq(Record), \A i \in 1..Len(recs) : WellFormed(recs[i]),
           NEW r, LeaseEnd(recs, r) = NoTime
    PROVE  LeaseAfter(recs, r) = NoTime
<1> DEFINE E == {i \in 1..Len(recs) :
                   recs[i].req = r /\ recs[i].type \in {"leased", "renewed", "released"}}
           C == LeaseChanges(recs, r)
<1>1. /\ C \subseteq E /\ C \subseteq 1..Len(recs) /\ E \subseteq 1..Len(recs)
      /\ Len(recs) \in Nat
  BY DEF LeaseChanges
<1>2. SUFFICES ASSUME C # {} PROVE recs[LastOf(C)].type = "released"
  BY DEF LeaseAfter
<1>3. LeaseEnd(recs, r) = IF E = {} \/ recs[LastOf(E)].type = "released"
                          THEN NoTime ELSE recs[LastOf(E)].exp
  BY DEF LeaseEnd
<1>4. /\ \A i \in E : recs[i].type \in {"leased", "renewed", "released"}
      /\ \A i \in E : recs[i].type \in {"leased", "renewed"} => recs[i].exp # NoTime
      /\ \A i \in E : recs[i].type = "released" => i \in C
  BY DEF LeaseChanges, WellFormed, Written
<1> HIDE DEF E, C
<1>5. /\ LastOf(C) \in C /\ \A j \in C : j <= LastOf(C)
      /\ LastOf(E) \in E /\ \A j \in E : j <= LastOf(E)
  BY <1>1, <1>2, LastOfPositions
<1>6. recs[LastOf(E)].type = "released"
  BY <1>1, <1>2, <1>3, <1>4, <1>5
<1>7. LastOf(E) \in C
  BY <1>4, <1>5, <1>6
<1>8. LastOf(C) = LastOf(E)
  <2>1. LastOf(E) <= LastOf(C) /\ LastOf(C) <= LastOf(E)
    BY <1>1, <1>5, <1>7
  <2>2. LastOf(E) \in 1..Len(recs) /\ LastOf(C) \in 1..Len(recs)
    BY <1>1, <1>5
  <2>3. \A x, y \in 1..Len(recs) : x <= y /\ y <= x => x = y
    BY <1>1
  <2> QED
    BY <2>1, <2>2, <2>3
<1> QED
  BY <1>6, <1>8

(* A valid journal leases only what was enqueued.                          *)
LEMMA NoLeaseUnrecorded ==
    ASSUME NEW recs \in Seq(Record), ValidJournal(recs), NEW r,
           r \notin RecordedRequests(recs)
    PROVE  LeaseAfter(recs, r) = NoTime
<1>1. ASSUME NEW i \in LeaseChanges(recs, r) PROVE FALSE
  <2>1. i \in 1..Len(recs) /\ recs[i].req = r /\ recs[i].type # "enqueued"
    BY DEF LeaseChanges
  <2>2. ValidTransition(recs, i)
    BY <2>1 DEF ValidJournal
  <2>3. PICK j \in Earlier(recs, i) : recs[j].type = "enqueued"
    BY <2>1, <2>2 DEF ValidTransition
  <2>4. j \in 1..Len(recs) /\ recs[j].req = r
    BY <2>1, <2>3 DEF Earlier
  <2> QED
    BY <2>3, <2>4 DEF RecordedRequests
<1>2. LeaseChanges(recs, r) = {}
  BY <1>1
<1> QED
  BY <1>2 DEF LeaseAfter

LEMMA ResumeLog ==
    ASSUME MemoryInv, FileWellFormed, Resume
    PROVE  LogCoherent'
<1> SUFFICES ASSUME inherited' = {} PROVE LogCoherent'
  BY DEF LogCoherent
<1>0. /\ Parsed \in Seq(Record) /\ \A i \in 1..Len(Parsed) : WellFormed(Parsed[i])
      /\ ValidJournal(Parsed) /\ Parsable
      /\ UNCHANGED <<lines, tail, landed, active, pending>> /\ mode = "down"
      /\ sequence' = Len(Parsed)
  BY ParsedRecords DEF Resume, fileVars, MemoryInv, TypeOK
<1>1. landed = "no" /\ \A r \in Requests : active[r] = NoTime
  BY <1>0 DEF MemoryInv, Absent
<1>2. PICK recs \in Seq(Record) :
         recs = Parsed /\ recs = Parsed' /\ \A i \in 1..Len(recs) : WellFormed(recs[i])
  BY <1>0 DEF Parsed
<1>3. ASSUME NEW r \in Requests \ TerminalRequests(recs) PROVE LeaseAfter(recs, r) = NoTime
  <2>1. CASE r \in RecordedRequests(recs)
    <3>1. r \in Unfinished(Parsed)
      BY <1>2, <2>1 DEF Unfinished
    <3>2. LeaseEnd(Parsed, r) = NoTime
      BY <3>1 DEF Resume
    <3> QED
      BY <1>2, <3>2, LeaseOver
  <2>2. CASE r \notin RecordedRequests(recs)
    BY <1>0, <1>2, <2>2, NoLeaseUnrecorded
  <2> QED
    BY <2>1, <2>2
<1>4. \A r \in Requests : Told(r)' = NoTime
  BY <1>0, <1>1 DEF Told, Landed
<1>5. ValidJournal(Parsed') /\ Parsable'
  BY <1>0, <1>2 DEF Parsable
<1>6. tail' = NoTail => Len(lines') = sequence'
  BY <1>0 DEF Parsed, NoTail, NonRecord
<1>7. Len(lines') \in Nat /\ landed' # "full"
  BY <1>0, <1>1 DEF MemoryInv, TypeOK
<1>8. \A r \in Requests \ TerminalRequests(Parsed') : LeaseAfter(Parsed', r) = Told(r)'
  BY <1>2, <1>3, <1>4
<1> QED
  BY <1>5, <1>6, <1>7, <1>8 DEF LogCoherent

LEMMA LogCoherentKept ==
    ASSUME MemoryInv, FileWellFormed, FileCoherent, LogCoherent, [Next]_vars
    PROVE  LogCoherent'
<1> USE DEF clockVars, fileVars, journalVars, stateVars, callerVars, historyVars
<1>0. /\ landed = "full" => pending # <<>>
      /\ pending \in Seq(Record) /\ sequence \in Nat /\ active \in [Requests -> Times]
  BY DEF MemoryInv, PendingCoherent, TypeOK
<1>1. ASSUME UNCHANGED <<mode, lines, tail, sequence, landed, active, damaged, inherited>>,
             landed = "full" => Head(pending') = Head(pending)
      PROVE  LogCoherent'
  <2>1. \A r \in Requests : Told(r)' = Told(r)
    BY <1>1 DEF Told, Landed
  <2> QED
    BY <1>1, <2>1, LogKept
<1>2. CASE UNCHANGED vars
  BY <1>1, <1>2 DEF vars
<1>3. ASSUME NEW r \in Requests, Enqueue(r) PROVE LogCoherent'
  BY <1>0, <1>1, <1>3 DEF Enqueue
<1>4. ASSUME NEW c \in Clients, NEW r \in Requests, LeaseNext(c, r) PROVE LogCoherent'
  BY <1>1, <1>4 DEF LeaseNext
<1>5. ASSUME NEW c \in Clients, LeaseNextNull(c) PROVE LogCoherent'
  BY <1>1, <1>5 DEF LeaseNextNull
<1>6. ASSUME NEW c \in Clients, NEW kind \in {"renewed", "released", "terminal"},
             CallWithLease(c, kind)
      PROVE  LogCoherent'
  BY <1>1, <1>6 DEF CallWithLease
<1>7. CASE StartTransition
  BY <1>0, <1>1, <1>7 DEF StartTransition
<1>8. CASE RejectTransition
  BY <1>1, <1>8 DEF RejectTransition
<1>9. ASSUME NEW whole \in BOOLEAN, LandWrite \/ TearWrite(whole) PROVE LogCoherent'
  BY <1>9, WriteLog
<1>10. ASSUME NEW type \in Written, Resolve(type),
              ~damaged /\ mode = "up" /\ tail = NoTail =>
                  \A r \in Requests \ TerminalRequests(Parsed) : active'[r] = Told(r)
       PROVE  LogCoherent'
  <2>1. /\ UNCHANGED <<mode, lines, tail, damaged, inherited>>
        /\ landed = "full" /\ landed' = "no" /\ sequence' = sequence + 1
    BY <1>10 DEF Resolve
  <2>2. \A r \in Requests : Told(r)' = active'[r]
    BY <2>1 DEF Told, Landed
  <2> QED
    BY <1>0, <1>10, <2>1, <2>2, LogKept
<1>11. CASE ResolveEnqueue \/ ResolveRenewal
  <2>1. active' = active /\ (Resolve("enqueued") \/ Resolve("renewed"))
    BY <1>11 DEF ResolveEnqueue, ResolveRenewal
  <2>2. \A r \in Requests : active'[r] = Told(r)
    BY <2>1 DEF Resolve, Told, Landed
  <2> QED
    BY <1>10, <2>1, <2>2 DEF Written
<1>12. CASE ResolveLease
  <2>1. Resolve("leased") /\ landed = "full" /\ Head(pending).type = "leased"
        /\ active' = [active EXCEPT ![Head(transitions).req] = Head(pending).id]
    BY <1>12 DEF ResolveLease, Resolve
  <2>2. Head(pending).req = Head(transitions).req
    BY <1>0, <2>1, HolderOfRecord
  <2>3. \A r \in Requests : active'[r] = Told(r)
    BY <1>0, <2>1, <2>2 DEF Told, Landed
  <2> QED
    BY <1>10, <2>1, <2>3 DEF Written
<1>13. CASE ResolveRelease
  <2>1. Resolve("released") /\ landed = "full" /\ Head(pending).type = "released"
        /\ active' = [active EXCEPT ![Head(transitions).req] = NoTime]
    BY <1>13 DEF ResolveRelease, Resolve
  <2>2. Head(pending).req = Head(transitions).req
    BY <1>0, <2>1, HolderOfRecord
  <2>3. \A r \in Requests : active'[r] = Told(r)
    BY <1>0, <2>1, <2>2 DEF Told, Landed
  <2> QED
    BY <1>10, <2>1, <2>3 DEF Written
<1>14. CASE ResolveFinish
  <2>1. Resolve("terminal") /\ landed = "full" /\ Head(pending).type = "terminal"
        /\ active' = [active EXCEPT ![Head(transitions).req] = NoTime]
    BY <1>14 DEF ResolveFinish, Resolve
  <2>2. Head(pending).req = Head(transitions).req
    BY <1>0, <2>1, HolderOfRecord
  <2>3. ~damaged /\ mode = "up" /\ tail = NoTail => Head(pending).req \in TerminalRequests(Parsed)
    BY <2>1 DEF FileCoherent, LandedRequests, Landed
  <2>4. \A r \in Requests : r # Head(pending).req => active'[r] = Told(r)
    BY <1>0, <2>1, <2>2 DEF Told, Landed
  <2> QED
    BY <1>10, <2>1, <2>3, <2>4 DEF Written
<1>15. CASE FailWrite
  <2>1. /\ UNCHANGED <<mode, lines, tail, sequence, active, inherited>> /\ landed' = "no"
        /\ ~damaged' => ~damaged /\ landed # "full"
    BY <1>15 DEF FailWrite
  <2>2. ~damaged' => \A r \in Requests : Told(r)' = Told(r)
    BY <2>1 DEF Told, Landed
  <2> QED
    BY <1>0, <2>1, <2>2, LogKept
<1>16. CASE Crash \/ RefuseResume
  <2>1. mode' # "up" /\ UNCHANGED <<lines, tail, damaged, inherited>>
    BY <1>16 DEF Crash, RefuseResume
  <2> QED
    BY <2>1, LogKept
<1>17. CASE Resume
  BY <1>17, ResumeLog
<1>18. CASE Tick
  BY <1>1, <1>18 DEF Tick
<1> QED
  BY <1>2, <1>3, <1>4, <1>5, <1>6, <1>7, <1>8, <1>9, <1>11, <1>12, <1>13, <1>14, <1>15,
     <1>16, <1>17, <1>18 DEF Next, Drain

-----------------------------------------------------------------------------
(* The theorems.                                                           *)

Inv == MemoryInv /\ FileWellFormed /\ FileCoherent /\ LogCoherent

LEMMA InitInv == Init => Inv
<1> SUFFICES ASSUME Init PROVE LogCoherent
  BY InitMemory, InitFile DEF Inv
<1>1. /\ Parsed = <<>> /\ lines = <<>> /\ sequence = 0 /\ landed = "no"
      /\ \A r \in Requests : active[r] = NoTime
  BY DEF Init, Parsed, NoTail, NonRecord
<1>2. ValidJournal(Parsed) /\ Parsable
  BY <1>1 DEF ValidJournal, Parsable
<1>3. \A r \in Requests : LeaseAfter(Parsed, r) = NoTime /\ Told(r) = NoTime
  BY <1>1 DEF LeaseAfter, LeaseChanges, Told, Landed
<1> QED
  BY <1>1, <1>2, <1>3 DEF LogCoherent

THEOREM Invariance == Spec => []Inv
<1>1. Init => Inv
  BY InitInv
<1>2. Inv /\ [Next]_vars => Inv'
  BY StepMemory, FileCoherentKept, LogCoherentKept DEF Inv
<1>3. QED
  BY <1>1, <1>2, PTL DEF Spec

(* Every variable of the journal backend keeps its type: in particular no  *)
(* request leaves the queue more often than it entered it (takeNext).      *)
THEOREM TypeCorrect == Spec => []TypeOK
<1>1. Inv => TypeOK
  BY DEF Inv, MemoryInv
<1> QED
  BY <1>1, Invariance, PTL

(* A request the process knows is in one place at a time (the queue, the   *)
(* deferred list, a leaseNext() on its way or the active leases) until it  *)
(* is terminal, whatever writes fail or tear, however heartbeats race      *)
(* releases and after any number of crashes and resumes.                   *)
THEOREM OnePlaceHolds == Spec => []OnePlace
<1>1. Inv => OnePlace
  BY DEF Inv, MemoryInv
<1> QED
  BY <1>1, Invariance, PTL

(* What enqueue() and mark...() told their callers is in frontier.ndjson   *)
(* whenever the process dies, and what is there the memory knows, but for  *)
(* the record being written.                                               *)
THEOREM JournalMatchesMemoryHolds == Spec => []JournalMatchesMemory
<1>1. ASSUME Inv PROVE JournalMatchesMemory
  <2>1. FileCoherent
    BY <1>1 DEF Inv
  <2>2. LandedRequests("enqueued") \subseteq InFlight /\ LandedRequests("terminal") \subseteq InFlight
    BY DEF LandedRequests, Landed, InFlight
  <2> QED
    BY <2>1, <2>2 DEF FileCoherent, JournalMatchesMemory
<1> QED
  BY <1>1, Invariance, PTL

(* load() accepts the journal at every instant, in the middle of a write   *)
(* too, until a request is taken over with an open lease or a record is    *)
(* spliced or refused after landing.                                       *)
THEOREM JournalValidHolds == Spec => []JournalValid
<1>1. Inv => JournalValid
  BY DEF Inv, LogCoherent, JournalValid
<1> QED
  BY <1>1, Invariance, PTL

-----------------------------------------------------------------------------
(* The refinement of FrontierContract, until a record is spliced or refused *)
(* after landing: a request is accepted and completed when its record has  *)
(* landed, leased and given back when the caller goes on.                  *)

contractView == <<ContractStatus, ContractWorking, ContractHolds>>

(* What a worker is at work on, and what it holds, is its lease, unless    *)
(* the terminal record of that request has landed.                         *)
LEMMA WorkIsLease ==
    ASSUME Inv, NEW c \in Clients
    PROVE  /\ ContractHolds[c] = ContractWorking[c]
           /\ ContractWorking[c] = IF lease[c] = NoLease \/ lease[c].req \in TerminalRequests(Parsed)
                                   THEN {} ELSE {lease[c].req}
           /\ lease[c] # NoLease => /\ lease[c].req \in Requests
                                    /\ active[lease[c].req] = lease[c].id
                                    /\ lease[c].id # NoTime
<1>1. lease[c] # NoLease => /\ lease[c].req \in Requests
                            /\ active[lease[c].req] = lease[c].id
                            /\ lease[c].id # NoTime
  BY DEF Inv, MemoryInv, LeasesActive
<1>2. lease[c] = NoLease => lease[c].req \notin Requests
  BY ConfigAssumption DEF NoLease
<1>3. ContractWorking[c] = {lease[c].req} \cap (Requests \ TerminalRequests(Parsed))
  BY DEF ContractWorking
<1>4. ContractHolds[c] = {r \in ContractWorking[c] : active[r] = lease[c].id}
  BY DEF ContractHolds
<1> QED
  BY <1>1, <1>2, <1>3, <1>4

LEMMA ContractUnchanged ==
    ASSUME UNCHANGED <<active, lease>>, Parsed' = Parsed
    PROVE  UNCHANGED contractView
<1>1. /\ RecordedRequests(Parsed)' = RecordedRequests(Parsed)
      /\ TerminalRequests(Parsed)' = TerminalRequests(Parsed)
  BY DEF RecordedRequests, TerminalRequests
<1>2. ContractStatus' = ContractStatus
  BY <1>1 DEF ContractStatus
<1>3. ContractWorking' = ContractWorking
  BY <1>1 DEF ContractWorking
<1>4. ContractHolds' = ContractHolds
  BY <1>3 DEF ContractHolds
<1> QED
  BY <1>2, <1>3, <1>4 DEF contractView

LEMMA InitRefines == Init => Contract!ContractInit
<1> SUFFICES ASSUME Init PROVE Contract!ContractInit
  OBVIOUS
<1>1. Parsed = <<>>
  BY DEF Init, Parsed, NoTail, NonRecord
<1>2. RecordedRequests(Parsed) = {} /\ TerminalRequests(Parsed) = {}
  BY <1>1 DEF RecordedRequests, TerminalRequests
<1>3. ContractStatus = [r \in Requests |-> "unknown"]
  BY <1>2 DEF ContractStatus
<1>4. \A c \in Clients : lease[c].req \notin Requests
  BY ConfigAssumption DEF Init, NoLease
<1>5. ContractWorking = [c \in Clients |-> {}]
  BY <1>4 DEF ContractWorking
<1>6. ContractHolds = [c \in Clients |-> {}]
  BY <1>5 DEF ContractHolds
<1> QED
  BY <1>3, <1>5, <1>6 DEF Contract!ContractInit

(* What the file says of the requests before and after a write.            *)
LEMMA WrittenRequests ==
    ASSUME Inv, ~damaged', NEW whole \in BOOLEAN, LandWrite \/ TearWrite(whole)
    PROVE  /\ pending # <<>> /\ mode = "up" /\ UNCHANGED <<active, lease>>
           /\ RecordedRequests(Parsed) = known /\ TerminalRequests(Parsed) = done
           /\ done \subseteq known /\ \A r \in done : Places(r) = 0
           /\ \/ Parsed' = Parsed
              \/ /\ RecordedRequests(Parsed)' = known
                      \cup IF Head(pending).type = "enqueued" THEN {Head(pending).req} ELSE {}
                 /\ TerminalRequests(Parsed)' = done
                      \cup IF Head(pending).type = "terminal" THEN {Head(pending).req} ELSE {}
<1> USE DEF Inv
<1>0. /\ tail = NoTail /\ ~damaged /\ pending # <<>> /\ landed = "no"
      /\ UNCHANGED <<active, lease>>
  BY DEF LandWrite, TearWrite, callerVars
<1>1. mode = "up" /\ Sequenced.type = Head(pending).type /\ Sequenced.req = Head(pending).req
  BY <1>0, OldestRecord, SequencedRecord
<1>2. /\ RecordedRequests(Parsed) = known /\ TerminalRequests(Parsed) = done
      /\ done \subseteq known /\ \A r \in done : Places(r) = 0
  BY <1>0, <1>1 DEF FileCoherent, LandedRequests, Landed
<1>3. Parsed = lines /\ lines \in Seq(Record)
      /\ (Parsed' = Parsed \/ Parsed' = Append(Parsed, Sequenced))
  BY <1>0, ParsedAfterWrite
<1>4. Parsed' = Append(Parsed, Sequenced) =>
        /\ RecordedRequests(Parsed)' =
              known \cup IF Sequenced.type = "enqueued" THEN {Sequenced.req} ELSE {}
        /\ TerminalRequests(Parsed)' =
              done \cup IF Sequenced.type = "terminal" THEN {Sequenced.req} ELSE {}
  BY <1>2, <1>3, RequestsAfterRecord DEF RecordedRequests, TerminalRequests
<1> QED
  BY <1>0, <1>1, <1>2, <1>3, <1>4

LEMMA WriteRefines ==
    ASSUME Inv, ~damaged', NEW whole \in BOOLEAN, LandWrite \/ TearWrite(whole)
    PROVE  Contract!ContractNext \/ UNCHANGED contractView
<1> USE DEF Inv
<1>0. /\ pending # <<>> /\ mode = "up" /\ UNCHANGED <<active, lease>>
      /\ RecordedRequests(Parsed) = known /\ TerminalRequests(Parsed) = done
      /\ done \subseteq known /\ \A r \in done : Places(r) = 0
  BY WrittenRequests
<1>1. CASE Parsed' = Parsed
  BY <1>0, <1>1, ContractUnchanged
<1>2. SUFFICES ASSUME Parsed' # Parsed PROVE Contract!ContractNext \/ UNCHANGED contractView
  BY <1>1
<1>3. PICK type, r : type = Head(pending).type /\ r = Head(pending).req
  OBVIOUS
<1>4. /\ RecordedRequests(Parsed)' = known \cup IF type = "enqueued" THEN {r} ELSE {}
      /\ TerminalRequests(Parsed)' = done \cup IF type = "terminal" THEN {r} ELSE {}
  BY <1>2, <1>3, WrittenRequests
<1>s. ContractStatus = [q \in Requests |->
         IF q \notin known THEN "unknown"
         ELSE IF q \in done THEN "terminal"
         ELSE IF active[q] # NoTime THEN "in_progress" ELSE "pending"]
  BY <1>0 DEF ContractStatus
<1>5. CASE type = "enqueued"
  <2>1. r \in Requests \ known
    BY <1>0, <1>3, <1>5, OldestRecord
  <2>2. active[r] = NoTime
    <3>1. Places(r) = 0 /\ queued[r] \in Nat
      BY <1>0, <2>1 DEF MemoryInv, OnePlace, TypeOK
    <3>2. BeingLeased(r) \in Nat
      BY LeasesCounted DEF BeingLeased, LeasesOf, MemoryInv, TypeOK
    <3> QED
      BY <3>1, <3>2 DEF Places
  <2>3. ContractStatus' = [ContractStatus EXCEPT ![r] = "pending"]
    BY <1>0, <1>4, <1>5, <1>s, <2>1, <2>2 DEF ContractStatus
  <2>4. ContractStatus[r] = "unknown"
    BY <1>s, <2>1
  <2>5. ContractWorking' = ContractWorking
    BY <1>0, <1>4, <1>5 DEF ContractWorking
  <2>6. ContractHolds' = ContractHolds
    BY <1>0, <2>5 DEF ContractHolds
  <2>7. Contract!Accept(r)
    BY <2>3, <2>4, <2>5, <2>6 DEF Contract!Accept
  <2> QED
    BY <2>1, <2>7 DEF Contract!ContractNext
<1>6. CASE type = "terminal"
  <2>1. PICK call \in Call : /\ call.req = r /\ lease[call.client] = [req |-> r, id |-> call.id]
                             /\ active[r] # NoTime
    BY <1>0, <1>3, <1>6, HolderOfRecord
  <2>2. PICK c \in Clients : c = call.client /\ lease[c] # NoLease /\ lease[c].req = r
                             /\ r \in Requests
    BY <2>1, ConfigAssumption DEF Call, NoLease
  <2>3. r \in known /\ r \notin done
    <3>1. Places(r) # 0
      <4>1. queued[r] \in Nat
        BY <2>2 DEF MemoryInv, TypeOK
      <4>2. BeingLeased(r) \in Nat
        BY LeasesCounted DEF BeingLeased, LeasesOf, MemoryInv, TypeOK
      <4> QED
        BY <2>1, <4>1, <4>2 DEF Places
    <3> QED
      BY <1>0, <2>2, <3>1 DEF MemoryInv, OnePlace
  <2>4. r \in ContractHolds[c]
    BY <1>0, <2>2, <2>3, WorkIsLease
  <2>5. ContractStatus' = [ContractStatus EXCEPT ![r] = "terminal"]
    BY <1>0, <1>4, <1>6, <1>s, <2>2, <2>3 DEF ContractStatus
  <2>6. ASSUME NEW d \in Clients
        PROVE  ContractWorking'[d] = ContractWorking[d] \ {r}
               /\ (d # c => r \notin ContractWorking[d])
    <3>1. ContractWorking[d] = {lease[d].req} \cap (Requests \ done)
      BY <1>0 DEF ContractWorking
    <3>2. ContractWorking'[d] = {lease[d].req} \cap (Requests \ (done \cup {r}))
      BY <1>0, <1>4, <1>6 DEF ContractWorking
    <3>3. d # c => lease[d].req # r
      BY <2>2 DEF MemoryInv, LeasesActive
    <3> QED
      BY <3>1, <3>2, <3>3
  <2>7. ContractWorking' = [ContractWorking EXCEPT ![c] = @ \ {r}]
    <3>1. ContractWorking' = [d \in Clients |-> ContractWorking'[d]]
          /\ ContractWorking = [d \in Clients |-> ContractWorking[d]]
      BY DEF ContractWorking
    <3> QED
      BY <2>6, <3>1
  <2>8. ContractHolds' = Contract!WithoutRequests({r})
    <3>1. ASSUME NEW d \in Clients
          PROVE  {q \in ContractWorking'[d] : active'[q] = lease'[d].id}
                     = {q \in ContractWorking[d] : active[q] = lease[d].id} \ {r}
      BY <1>0, <2>6
    <3>2. ContractHolds' = [d \in Clients |->
                              {q \in ContractWorking'[d] : active'[q] = lease'[d].id}]
      BY DEF ContractHolds
    <3>3. \A d \in Clients : ContractHolds[d] = {q \in ContractWorking[d] : active[q] = lease[d].id}
      BY DEF ContractHolds
    <3> QED
      BY <3>1, <3>2, <3>3 DEF Contract!WithoutRequests
  <2>9. Contract!Complete(c, r)
    BY <2>4, <2>5, <2>7, <2>8 DEF Contract!Complete
  <2> QED
    BY <2>2, <2>9 DEF Contract!ContractNext
<1>7. CASE type \notin {"enqueued", "terminal"}
  <2>1. /\ RecordedRequests(Parsed)' = RecordedRequests(Parsed)
        /\ TerminalRequests(Parsed)' = TerminalRequests(Parsed)
    BY <1>0, <1>4, <1>7
  <2>2. ContractStatus' = ContractStatus /\ ContractWorking' = ContractWorking
    BY <1>0, <2>1 DEF ContractStatus, ContractWorking
  <2>3. ContractHolds' = ContractHolds
    BY <1>0, <2>2 DEF ContractHolds
  <2> QED
    BY <2>2, <2>3 DEF contractView
<1> QED
  BY <1>5, <1>6, <1>7

(* The file stays as it is, and is what the memory says it is.             *)
LEMMA ReportedRequests ==
    ASSUME Inv, ~damaged, landed = "full"
    PROVE  /\ pending # <<>> /\ mode = "up"
           /\ RecordedRequests(Parsed) = known \cup LandedRequests("enqueued")
           /\ TerminalRequests(Parsed) = done \cup LandedRequests("terminal")
           /\ \A r \in done : Places(r) = 0
<1>1. pending # <<>>
  BY DEF Inv, MemoryInv, PendingCoherent
<1>2. mode = "up"
  BY <1>1, OldestRecord DEF Inv
<1> QED
  BY <1>1, <1>2 DEF Inv, FileCoherent

LEMMA LeaseRefines ==
    ASSUME Inv, ~damaged', ResolveLease
    PROVE  Contract!ContractNext
<1> USE DEF Inv
<1>0. /\ ~damaged /\ landed = "full" /\ Head(pending).type = "leased"
      /\ UNCHANGED <<lines, tail>>
  BY DEF ResolveLease, Resolve, fileVars, historyVars
<1>1. /\ pending # <<>> /\ mode = "up"
      /\ RecordedRequests(Parsed) = known /\ TerminalRequests(Parsed) = done
      /\ \A r \in done : Places(r) = 0
  BY <1>0, ReportedRequests DEF LandedRequests, Landed
<1>v. PICK call \in Call : /\ call = Head(transitions) /\ call.kind = "leased"
                           /\ transitions # <<>> /\ transitions \in Seq(Call)
                           /\ lease[call.client] = NoLease
  BY <1>0, <1>1, HolderOfRecord
<1>w. PICK id \in Times \ {NoTime} : id = Head(pending).id
  BY <1>0, <1>1, HolderOfRecord
<1>c. PICK c \in Clients, r \in Requests : c = call.client /\ r = call.req
  BY DEF Call
<1>u. /\ active' = [active EXCEPT ![r] = id]
      /\ lease' = [lease EXCEPT ![c] = [req |-> r, id |-> id]]
  BY <1>v, <1>w, <1>c DEF ResolveLease
<1>2. r \in known /\ r \notin done /\ active[r] = NoTime
  <2>1. Cardinality(LeasesOf(transitions, r)) =
          Cardinality(LeasesOf(Tail(transitions), r)) + 1
    BY <1>v, <1>c, LeasesAfterTurn DEF Counts
  <2>2. Cardinality(LeasesOf(Tail(transitions), r)) \in Nat
    BY <1>v, Turned, LeasesCounted
  <2>3. BeingLeased(r) \in Nat \ {0} /\ queued[r] \in Nat
    <3>1. BeingLeased(r) = Cardinality(LeasesOf(transitions, r))
      BY DEF BeingLeased, LeasesOf
    <3>2. queued[r] \in Nat
      BY DEF MemoryInv, TypeOK
    <3> QED
      BY <2>1, <2>2, <3>1, <3>2
  <2>4. Places(r) <= 1
    BY <1>1 DEF MemoryInv, OnePlace
  <2>5. Places(r) # 0 /\ active[r] = NoTime
    BY <2>3, <2>4 DEF Places
  <2> QED
    BY <1>1, <2>5 DEF MemoryInv, OnePlace
<1>3. Parsed' = Parsed
  BY <1>0 DEF Parsed
<1>4. /\ RecordedRequests(Parsed)' = known /\ TerminalRequests(Parsed)' = done
  BY <1>1, <1>3 DEF RecordedRequests, TerminalRequests
<1>s. /\ ContractStatus = [q \in Requests |->
           IF q \notin known THEN "unknown"
           ELSE IF q \in done THEN "terminal"
           ELSE IF active[q] # NoTime THEN "in_progress" ELSE "pending"]
      /\ ContractStatus' = [q \in Requests |->
           IF q \notin known THEN "unknown"
           ELSE IF q \in done THEN "terminal"
           ELSE IF active'[q] # NoTime THEN "in_progress" ELSE "pending"]
  BY <1>1, <1>4 DEF ContractStatus
<1>5. \A q \in Requests : active'[q] = IF q = r THEN id ELSE active[q]
  BY <1>u DEF MemoryInv, TypeOK
<1>6. \A d \in Clients : lease'[d] = IF d = c THEN [req |-> r, id |-> id] ELSE lease[d]
  BY <1>u DEF MemoryInv, TypeOK
<1>7. ContractStatus' = [q \in Requests |-> IF q = r THEN "in_progress"
                                            ELSE IF q \in {} THEN "pending"
                                            ELSE ContractStatus[q]]
  BY <1>s, <1>2, <1>5, <1>w
<1>8. ContractStatus[r] = "pending"
  BY <1>s, <1>2
<1>9. ASSUME NEW d \in Clients
      PROVE  /\ ContractWorking'[d] = IF d = c THEN {r} ELSE ContractWorking[d]
             /\ ContractHolds'[d] = IF d = c THEN {r} ELSE ContractHolds[d]
             /\ d = c => ContractWorking[d] = {} /\ ContractHolds[d] = {}
  <2>1. ContractWorking[d] = {lease[d].req} \cap (Requests \ done)
        /\ ContractHolds[d] = {q \in ContractWorking[d] : active[q] = lease[d].id}
    BY <1>1 DEF ContractWorking, ContractHolds
  <2>2. ContractWorking'[d] = {lease'[d].req} \cap (Requests \ done)
        /\ ContractHolds'[d] = {q \in ContractWorking'[d] : active'[q] = lease'[d].id}
    BY <1>4 DEF ContractWorking, ContractHolds
  <2>3. CASE d = c
    <3>1. lease[d].req \notin Requests
      BY <1>v, <1>c, <2>3, ConfigAssumption DEF NoLease
    <3> QED
      BY <1>2, <1>5, <1>6, <2>1, <2>2, <2>3, <3>1
  <2>4. CASE d # c
    <3>1. lease[d].req # r
      BY <1>2, <1>c, ConfigAssumption DEF MemoryInv, LeasesActive, NoLease
    <3> QED
      BY <1>5, <1>6, <2>1, <2>2, <2>4, <3>1
  <2> QED
    BY <2>3, <2>4
<1>10. ContractHolds' = [Contract!WithoutRequests({}) EXCEPT ![c] = @ \cup {r}]
  <2>1. ContractHolds' = [d \in Clients |-> ContractHolds'[d]]
    BY DEF ContractHolds
  <2> QED
    BY <1>9, <2>1 DEF Contract!WithoutRequests
<1>11. ContractWorking' = [ContractWorking EXCEPT ![c] = @ \cup {r}]
  <2>1. ContractWorking' = [d \in Clients |-> ContractWorking'[d]]
        /\ ContractWorking = [d \in Clients |-> ContractWorking[d]]
    BY DEF ContractWorking
  <2> QED
    BY <1>9, <2>1
<1>12. Contract!Lease(c, r, {})
  BY <1>7, <1>8, <1>10, <1>11 DEF Contract!Lease
<1> QED
  BY <1>12 DEF Contract!ContractNext

(* The lease a release or a mark...() has ended.                           *)
LEMMA EndedLease ==
    ASSUME Inv, pending # <<>>, NEW call \in Call, call = Head(transitions),
           Head(pending).type = call.kind, call.kind \in {"released", "terminal"},
           active' = [active EXCEPT ![call.req] = NoTime],
           lease' = [lease EXCEPT ![call.client] = NoLease],
           NEW S \in SUBSET Requests, TerminalRequests(Parsed) = S,
           TerminalRequests(Parsed)' = S
    PROVE  /\ lease[call.client].req = call.req /\ lease[call.client] # NoLease
           /\ \A q \in Requests : active'[q] = IF q = call.req THEN NoTime ELSE active[q]
           /\ \A d \in Clients :
                /\ ContractWorking'[d] = IF d = call.client THEN {} ELSE ContractWorking[d]
                /\ ContractHolds'[d] = IF d = call.client THEN {} ELSE ContractHolds[d]
                /\ ContractWorking[d] \subseteq {lease[d].req}
                /\ d # call.client => call.req \notin ContractHolds[d]
<1> USE DEF Inv
<1>1. lease[call.client] = [req |-> call.req, id |-> call.id]
      /\ call.client \in Clients /\ call.req \in Requests
  BY HolderOfRecord DEF Call
<1>2. lease[call.client].req = call.req /\ lease[call.client] # NoLease
  BY <1>1, ConfigAssumption DEF NoLease
<1>3. \A q \in Requests : active'[q] = IF q = call.req THEN NoTime ELSE active[q]
  BY DEF MemoryInv, TypeOK
<1>4. \A d \in Clients : lease'[d] = IF d = call.client THEN NoLease ELSE lease[d]
  BY DEF MemoryInv, TypeOK
<1>5. ASSUME NEW d \in Clients
      PROVE  /\ ContractWorking'[d] = IF d = call.client THEN {} ELSE ContractWorking[d]
             /\ ContractHolds'[d] = IF d = call.client THEN {} ELSE ContractHolds[d]
             /\ ContractWorking[d] \subseteq {lease[d].req}
             /\ d # call.client => call.req \notin ContractHolds[d]
  <2>1. ContractWorking[d] = {lease[d].req} \cap (Requests \ S)
        /\ ContractHolds[d] = {q \in ContractWorking[d] : active[q] = lease[d].id}
    BY DEF ContractWorking, ContractHolds
  <2>2. ContractWorking'[d] = {lease'[d].req} \cap (Requests \ S)
        /\ ContractHolds'[d] = {q \in ContractWorking'[d] : active'[q] = lease'[d].id}
    BY DEF ContractWorking, ContractHolds
  <2>3. CASE d = call.client
    <3>1. lease'[d].req \notin Requests
      BY <1>4, <2>3, ConfigAssumption DEF NoLease
    <3> QED
      BY <2>1, <2>2, <2>3, <3>1
  <2>4. CASE d # call.client
    <3>1. lease[d].req # call.req
      BY <1>1, <1>2, <2>4 DEF MemoryInv, LeasesActive
    <3>2. ContractWorking'[d] = ContractWorking[d] /\ call.req \notin ContractWorking[d]
      BY <1>4, <2>1, <2>2, <2>4, <3>1
    <3> QED
      BY <1>3, <1>4, <2>1, <2>2, <2>4, <3>2
  <2> QED
    BY <2>3, <2>4
<1> QED
  BY <1>2, <1>3, <1>5

LEMMA ReleaseRefines ==
    ASSUME Inv, ~damaged', ResolveRelease
    PROVE  Contract!ContractNext
<1> USE DEF Inv
<1>0. /\ ~damaged /\ landed = "full" /\ Head(pending).type = "released"
      /\ UNCHANGED <<lines, tail>>
  BY DEF ResolveRelease, Resolve, fileVars, historyVars
<1>1. /\ pending # <<>> /\ mode = "up"
      /\ RecordedRequests(Parsed) = known /\ TerminalRequests(Parsed) = done
      /\ \A r \in done : Places(r) = 0
  BY <1>0, ReportedRequests DEF LandedRequests, Landed
<1>v. PICK call \in Call : /\ call = Head(transitions) /\ call.kind = "released"
                           /\ active[call.req] # NoTime
  BY <1>0, <1>1, HolderOfRecord
<1>c. PICK c \in Clients, r \in Requests : c = call.client /\ r = call.req
  BY DEF Call
<1>u. /\ active' = [active EXCEPT ![call.req] = NoTime]
      /\ lease' = [lease EXCEPT ![call.client] = NoLease]
  BY <1>v DEF ResolveRelease
<1>2. r \in known /\ r \notin done
  <2>1. queued[r] \in Nat
    BY DEF MemoryInv, TypeOK
  <2>2. BeingLeased(r) \in Nat
    BY LeasesCounted DEF BeingLeased, LeasesOf, MemoryInv, TypeOK
  <2>3. Places(r) # 0
    BY <1>v, <1>c, <2>1, <2>2 DEF Places
  <2> QED
    BY <1>1, <2>3 DEF MemoryInv, OnePlace
<1>3. Parsed' = Parsed
  BY <1>0 DEF Parsed
<1>4. /\ RecordedRequests(Parsed)' = known /\ TerminalRequests(Parsed)' = done
      /\ done \in SUBSET Requests
  BY <1>1, <1>3 DEF RecordedRequests, TerminalRequests, MemoryInv, TypeOK
<1>5. /\ lease[c].req = r /\ lease[c] # NoLease
      /\ \A q \in Requests : active'[q] = IF q = r THEN NoTime ELSE active[q]
      /\ \A d \in Clients :
           /\ ContractWorking'[d] = IF d = c THEN {} ELSE ContractWorking[d]
           /\ ContractHolds'[d] = IF d = c THEN {} ELSE ContractHolds[d]
           /\ ContractWorking[d] \subseteq {lease[d].req}
           /\ d # c => r \notin ContractHolds[d]
  <2>1. pending # <<>> /\ Head(pending).type = call.kind /\ call.kind \in {"released", "terminal"}
    BY <1>0, <1>1, <1>v
  <2>2. TerminalRequests(Parsed) = done /\ TerminalRequests(Parsed)' = done /\ done \in SUBSET Requests
    BY <1>1, <1>4
  <2>3. /\ lease[call.client].req = call.req /\ lease[call.client] # NoLease
        /\ \A q \in Requests : active'[q] = IF q = call.req THEN NoTime ELSE active[q]
        /\ \A d \in Clients :
             /\ ContractWorking'[d] = IF d = call.client THEN {} ELSE ContractWorking[d]
             /\ ContractHolds'[d] = IF d = call.client THEN {} ELSE ContractHolds[d]
             /\ ContractWorking[d] \subseteq {lease[d].req}
             /\ d # call.client => call.req \notin ContractHolds[d]
    BY <1>u, <1>v, <2>1, <2>2, EndedLease
  <2> QED
    BY <1>c, <2>3
<1>6. ContractHolds[c] = {r} /\ ContractWorking[c] = {r}
  BY <1>1, <1>2, <1>5, WorkIsLease
<1>7. ContractStatus' = [ContractStatus EXCEPT ![r] = "pending"]
  <2>1. /\ ContractStatus = [q \in Requests |->
             IF q \notin known THEN "unknown"
             ELSE IF q \in done THEN "terminal"
             ELSE IF active[q] # NoTime THEN "in_progress" ELSE "pending"]
        /\ ContractStatus' = [q \in Requests |->
             IF q \notin known THEN "unknown"
             ELSE IF q \in done THEN "terminal"
             ELSE IF active'[q] # NoTime THEN "in_progress" ELSE "pending"]
    BY <1>1, <1>4 DEF ContractStatus
  <2> QED
    BY <1>2, <1>5, <2>1
<1>8. ContractHolds' = Contract!WithoutRequests({r})
  <2>1. ContractHolds' = [d \in Clients |-> ContractHolds'[d]]
    BY DEF ContractHolds
  <2> QED
    BY <1>5, <1>6, <2>1 DEF Contract!WithoutRequests
<1>9. ContractWorking' = [ContractWorking EXCEPT ![c] = @ \ {r}]
  <2>1. ContractWorking' = [d \in Clients |-> ContractWorking'[d]]
        /\ ContractWorking = [d \in Clients |-> ContractWorking[d]]
    BY DEF ContractWorking
  <2> QED
    BY <1>5, <1>6, <2>1
<1>10. Contract!GiveBack(c, r)
  BY <1>6, <1>7, <1>8, <1>9 DEF Contract!GiveBack
<1> QED
  BY <1>10 DEF Contract!ContractNext

(* The request was completed when its terminal record landed.              *)
LEMMA FinishRefines ==
    ASSUME Inv, ~damaged', ResolveFinish
    PROVE  UNCHANGED contractView
<1> USE DEF Inv
<1>0. /\ ~damaged /\ landed = "full" /\ Head(pending).type = "terminal"
      /\ UNCHANGED <<lines, tail>>
  BY DEF ResolveFinish, Resolve, fileVars, historyVars
<1>1. /\ pending # <<>> /\ mode = "up"
      /\ RecordedRequests(Parsed) = known
      /\ TerminalRequests(Parsed) = done \cup {Head(pending).req}
  BY <1>0, ReportedRequests DEF LandedRequests, Landed
<1>v. PICK call \in Call : /\ call = Head(transitions) /\ call.kind = "terminal"
                           /\ call.req = Head(pending).req
  BY <1>0, <1>1, HolderOfRecord
<1>c. PICK c \in Clients, r \in Requests : c = call.client /\ r = call.req
  BY DEF Call
<1>u. /\ active' = [active EXCEPT ![call.req] = NoTime]
      /\ lease' = [lease EXCEPT ![call.client] = NoLease]
  BY <1>v DEF ResolveFinish
<1>3. Parsed' = Parsed
  BY <1>0 DEF Parsed
<1>4. PICK S \in SUBSET Requests :
         /\ S = TerminalRequests(Parsed) /\ S = TerminalRequests(Parsed)' /\ r \in S
         /\ RecordedRequests(Parsed)' = RecordedRequests(Parsed)
  <2>1. TerminalRequests(Parsed) \subseteq Requests /\ r \in TerminalRequests(Parsed)
    BY <1>1, <1>v, <1>c DEF MemoryInv, TypeOK
  <2>2. TerminalRequests(Parsed)' = TerminalRequests(Parsed)
        /\ RecordedRequests(Parsed)' = RecordedRequests(Parsed)
    BY <1>3 DEF TerminalRequests, RecordedRequests
  <2> QED
    BY <2>1, <2>2
<1>5. /\ lease[c].req = r /\ lease[c] # NoLease
      /\ \A q \in Requests : active'[q] = IF q = r THEN NoTime ELSE active[q]
      /\ \A d \in Clients :
           /\ ContractWorking'[d] = IF d = c THEN {} ELSE ContractWorking[d]
           /\ ContractHolds'[d] = IF d = c THEN {} ELSE ContractHolds[d]
  <2>1. pending # <<>> /\ Head(pending).type = call.kind /\ call.kind \in {"released", "terminal"}
    BY <1>0, <1>1, <1>v
  <2>2. TerminalRequests(Parsed) = S /\ TerminalRequests(Parsed)' = S /\ S \in SUBSET Requests
    BY <1>1, <1>4
  <2>3. /\ lease[call.client].req = call.req /\ lease[call.client] # NoLease
        /\ \A q \in Requests : active'[q] = IF q = call.req THEN NoTime ELSE active[q]
        /\ \A d \in Clients :
             /\ ContractWorking'[d] = IF d = call.client THEN {} ELSE ContractWorking[d]
             /\ ContractHolds'[d] = IF d = call.client THEN {} ELSE ContractHolds[d]
             /\ ContractWorking[d] \subseteq {lease[d].req}
             /\ d # call.client => call.req \notin ContractHolds[d]
    BY <1>u, <1>v, <2>1, <2>2, EndedLease
  <2> QED
    BY <1>c, <2>3
<1>6. ContractHolds[c] = {} /\ ContractWorking[c] = {}
  BY <1>4, <1>5, WorkIsLease
<1>7. ContractStatus' = ContractStatus
  BY <1>4, <1>5 DEF ContractStatus
<1>8. ContractHolds' = ContractHolds
  <2>1. ContractHolds' = [d \in Clients |-> ContractHolds'[d]]
        /\ ContractHolds = [d \in Clients |-> ContractHolds[d]]
    BY DEF ContractHolds
  <2> QED
    BY <1>5, <1>6, <2>1
<1>9. ContractWorking' = ContractWorking
  <2>1. ContractWorking' = [d \in Clients |-> ContractWorking'[d]]
        /\ ContractWorking = [d \in Clients |-> ContractWorking[d]]
    BY DEF ContractWorking
  <2> QED
    BY <1>5, <1>6, <2>1
<1> QED
  BY <1>7, <1>8, <1>9 DEF contractView

(* Only a heartbeat can fail assertActive: a worker whose release or       *)
(* mark...() waits at the mutex keeps its lease.                           *)
LEMMA OnlyRenewalsRejected ==
    ASSUME Inv, RejectTransition
    PROVE  lease' = lease /\ UNCHANGED <<lines, tail, active>>
<1> USE DEF Inv
<1>v. PICK call \in Call : /\ call = Head(transitions) /\ call = transitions[1]
                           /\ 1 \in 1..Len(transitions)
  BY Turned DEF RejectTransition, MemoryInv, TypeOK
<1>1. call.kind # "leased" /\ active[call.req] # call.id
  BY <1>v DEF RejectTransition
<1>2. call.kind \in {"released", "terminal"}
        => lease[call.client] = [req |-> call.req, id |-> call.id] /\ call.id # NoTime
  BY <1>v DEF MemoryInv, CallsCoherent
<1>3. call.client \in Clients
  BY DEF Call
<1>4. call.kind \notin {"released", "terminal"}
  BY <1>1, <1>2, <1>3, ConfigAssumption DEF MemoryInv, LeasesActive, NoLease, Call
<1>5. call.kind = "renewed"
  BY <1>1, <1>4 DEF Call
<1> QED
  BY <1>v, <1>5 DEF RejectTransition, fileVars

LEMMA CrashRefines ==
    ASSUME Inv, Crash
    PROVE  Contract!ContractNext
<1> DEFINE S == {r \in Requests : ContractStatus[r] = "in_progress"}
<1>1. Parsed' = Parsed
      /\ \A r \in Requests : active'[r] = NoTime
      /\ \A c \in Clients : lease'[c] = NoLease
  BY DEF Crash, fileVars, Parsed
<1>2. /\ RecordedRequests(Parsed)' = RecordedRequests(Parsed)
      /\ TerminalRequests(Parsed)' = TerminalRequests(Parsed)
  BY <1>1 DEF RecordedRequests, TerminalRequests
<1>3. ContractStatus' = [r \in Requests |-> IF r \in S THEN "pending" ELSE ContractStatus[r]]
  BY <1>1, <1>2 DEF ContractStatus
<1>4. NoLease.req \notin Requests
  BY ConfigAssumption DEF NoLease
<1>5. ContractWorking' = [c \in Clients |-> {}]
  BY <1>1, <1>2, <1>4 DEF ContractWorking
<1>6. ContractHolds' = [c \in Clients |-> {}]
  BY <1>5 DEF ContractHolds
<1>7. Contract!Forget(Clients, S)
  BY <1>3, <1>5, <1>6 DEF Contract!Forget
<1>8. S \in SUBSET Requests
  OBVIOUS
<1> HIDE DEF S
<1> QED
  BY <1>7, <1>8 DEF Contract!ContractNext

LEMMA StepRefines ==
    Inv /\ [Next]_vars => [damaged' \/ Contract!ContractNext]_contractView
<1> SUFFICES ASSUME Inv, [Next]_vars, ~damaged'
             PROVE  Contract!ContractNext \/ UNCHANGED contractView
  OBVIOUS
<1> USE DEF clockVars, fileVars, journalVars, stateVars, callerVars, historyVars
<1>1. ASSUME UNCHANGED <<lines, tail, active, lease>>
      PROVE  UNCHANGED contractView
  <2>1. Parsed' = Parsed
    BY <1>1 DEF Parsed
  <2> QED
    BY <1>1, <2>1, ContractUnchanged
<1>2. CASE UNCHANGED vars
  BY <1>1, <1>2 DEF vars
<1>3. ASSUME NEW r \in Requests, Enqueue(r) PROVE UNCHANGED contractView
  BY <1>1, <1>3 DEF Enqueue
<1>4. ASSUME NEW c \in Clients, NEW r \in Requests, LeaseNext(c, r)
      PROVE  UNCHANGED contractView
  BY <1>1, <1>4 DEF LeaseNext
<1>5. ASSUME NEW c \in Clients, LeaseNextNull(c) PROVE UNCHANGED contractView
  BY <1>1, <1>5 DEF LeaseNextNull
<1>6. ASSUME NEW c \in Clients, NEW kind \in {"renewed", "released", "terminal"},
             CallWithLease(c, kind)
      PROVE  UNCHANGED contractView
  BY <1>1, <1>6 DEF CallWithLease
<1>7. CASE StartTransition
  BY <1>1, <1>7 DEF StartTransition
<1>8. CASE RejectTransition
  BY <1>1, <1>8, OnlyRenewalsRejected
<1>9. ASSUME NEW whole \in BOOLEAN, LandWrite \/ TearWrite(whole)
      PROVE  Contract!ContractNext \/ UNCHANGED contractView
  BY <1>9, WriteRefines
<1>10. CASE ResolveEnqueue \/ ResolveRenewal
  BY <1>1, <1>10 DEF ResolveEnqueue, ResolveRenewal, Resolve
<1>11. CASE ResolveLease
  BY <1>11, LeaseRefines
<1>12. CASE ResolveRelease
  BY <1>12, ReleaseRefines
<1>13. CASE ResolveFinish
  BY <1>13, FinishRefines
<1>14. CASE FailWrite
  BY <1>1, <1>14 DEF FailWrite
<1>15. CASE Crash
  BY <1>15, CrashRefines
<1>16. CASE Resume \/ RefuseResume \/ Tick
  BY <1>1, <1>16 DEF Resume, RefuseResume, Tick
<1> QED
  BY <1>2, <1>3, <1>4, <1>5, <1>6, <1>7, <1>8, <1>9, <1>10, <1>11, <1>12, <1>13, <1>14,
     <1>15, <1>16 DEF Next, Drain

(* Through torn and failed writes, crashes and resumes, the journal        *)
(* backend keeps the promises of FrontierBackend: until a record is        *)
(* spliced onto an unterminated line or refused after it had landed, every *)
(* step of it is one step of FrontierContract, or none.                    *)
THEOREM Refinement == Spec => ImplementsContract
<1>1. Inv /\ [Next]_vars =>
        [damaged' \/ Contract!ContractNext]_<<ContractStatus, ContractWorking, ContractHolds>>
  BY StepRefines DEF contractView
<1> QED
  BY <1>1, InitRefines, Invariance, PTL DEF Spec, ImplementsContract

-----------------------------------------------------------------------------
(* What the contract guarantees, so what this backend does.                *)

LEMMA ActiveIsAPlace ==
    ASSUME MemoryInv, NEW r \in Requests, active[r] # NoTime
    PROVE  Places(r) # 0
<1>1. BeingLeased(r) \in Nat
  BY LeasesCounted DEF BeingLeased, LeasesOf, MemoryInv, TypeOK
<1>2. queued[r] \in Nat
  BY DEF MemoryInv, TypeOK
<1> QED
  BY <1>1, <1>2 DEF Places

(* A file that was damaged is so for good.                                 *)
LEMMA DamageStays ==
    ASSUME [Next]_vars, ~damaged'
    PROVE  ~damaged
<1> USE DEF clockVars, fileVars, journalVars, stateVars, callerVars, historyVars
<1>1. ASSUME NEW r \in Requests, Enqueue(r) PROVE ~damaged
  BY <1>1 DEF Enqueue
<1>2. ASSUME NEW c \in Clients, NEW r \in Requests, LeaseNext(c, r) PROVE ~damaged
  BY <1>2 DEF LeaseNext
<1>3. ASSUME NEW c \in Clients, LeaseNextNull(c) PROVE ~damaged
  BY <1>3 DEF LeaseNextNull
<1>4. ASSUME NEW c \in Clients, NEW kind \in {"renewed", "released", "terminal"}, CallWithLease(c, kind)
      PROVE  ~damaged
  BY <1>4 DEF CallWithLease
<1>5. CASE StartTransition \/ RejectTransition
  BY <1>5 DEF StartTransition, RejectTransition
<1>6. CASE LandWrite
  BY <1>6 DEF LandWrite
<1>7. ASSUME NEW whole \in BOOLEAN, TearWrite(whole) PROVE ~damaged
  BY <1>7 DEF TearWrite
<1>8. CASE ResolveEnqueue \/ ResolveRenewal \/ ResolveLease
  BY <1>8 DEF ResolveEnqueue, ResolveRenewal, ResolveLease, Resolve
<1>9. CASE ResolveRelease \/ ResolveFinish
  BY <1>9 DEF ResolveRelease, ResolveFinish, Resolve
<1>10. CASE FailWrite
  BY <1>10 DEF FailWrite
<1>11. CASE Crash \/ Resume
  BY <1>11 DEF Crash, Resume
<1>12. CASE RefuseResume \/ Tick \/ UNCHANGED vars
  BY <1>12 DEF RefuseResume, Tick, vars
<1> QED
  BY <1>1, <1>2, <1>3, <1>4, <1>5, <1>6, <1>7, <1>8, <1>9, <1>10, <1>11, <1>12 DEF Next, Drain

(* A request a worker holds is leased in the file and in memory.           *)
LEMMA HeldInProgress ==
    ASSUME Inv, ~damaged, NEW c \in Clients, NEW r \in ContractHolds[c]
    PROVE  r \in ContractWorking[c] /\ ContractStatus[r] = "in_progress"
<1>1. /\ r \in ContractWorking[c] /\ r = lease[c].req /\ r \in Requests /\ r \notin TerminalRequests(Parsed)
      /\ lease[c] # NoLease /\ active[r] # NoTime
  <2> DEFINE terminals == TerminalRequests(Parsed)
             W == ContractWorking[c]
  <2>1. r \in W /\ W = IF lease[c] = NoLease \/ lease[c].req \in terminals THEN {} ELSE {lease[c].req}
    BY WorkIsLease
  <2>2. lease[c] # NoLease => /\ lease[c].req \in Requests
                              /\ active[lease[c].req] = lease[c].id
                              /\ lease[c].id # NoTime
    BY WorkIsLease
  <2> HIDE DEF terminals, W
  <2>3. lease[c] # NoLease /\ lease[c].req \notin terminals /\ r = lease[c].req
    BY <2>1
  <2> QED
    BY <2>1, <2>2, <2>3 DEF terminals, W
<1>2. mode = "up"
  BY <1>1 DEF Inv, MemoryInv, Absent
<1>3. r \in known
  <2>1. Places(r) # 0
    BY <1>1, ActiveIsAPlace DEF Inv, MemoryInv
  <2> QED
    BY <1>1, <1>2, <2>1 DEF Inv, MemoryInv, OnePlace
<1>4. r \in RecordedRequests(Parsed)
  BY <1>2, <1>3 DEF Inv, FileCoherent
<1> QED
  BY <1>1, <1>4 DEF ContractStatus

(* Through failed writes, racing renewals, crashes and recovered leases no *)
(* request is in the hands of two workers, and until a record is spliced   *)
(* or refused after landing what a worker holds is leased in the journal   *)
(* (activeLeaseOwnership "single-owner").                                  *)
THEOREM SingleOwnerHolds ==
    Spec => /\ [](\A c, d \in Clients : c # d => ContractHolds[c] \cap ContractHolds[d] = {})
            /\ [](damaged \/ Contract!SingleOwner)
<1>1. Inv => \A c, d \in Clients : c # d => ContractHolds[c] \cap ContractHolds[d] = {}
  <2> SUFFICES ASSUME Inv, NEW c \in Clients, NEW d \in Clients, NEW r, r \in ContractHolds[c], r \in ContractHolds[d]
               PROVE  c = d
    OBVIOUS
  <2>1. r = lease[c].req /\ r = lease[d].req /\ lease[c] # NoLease
    BY WorkIsLease
  <2> QED
    BY <2>1 DEF Inv, MemoryInv, LeasesActive
<1>2. Inv => damaged \/ Contract!SingleOwner
  BY <1>1, HeldInProgress DEF Contract!SingleOwner
<1> QED
  BY <1>1, <1>2, Invariance, PTL

(* Until then a request whose terminal record is in the file stays         *)
(* terminal, and an accepted one stays known (terminalState "idempotent"). *)
THEOREM LifecycleHolds ==
    Spec => [][damaged' \/ \A r \in Requests :
                 /\ ContractStatus[r] = "terminal" => ContractStatus'[r] = "terminal"
                 /\ ContractStatus[r] # "unknown" => ContractStatus'[r] # "unknown"]_contractView
<1> DEFINE Forward(r) == /\ ContractStatus[r] = "terminal" => ContractStatus'[r] = "terminal"
                         /\ ContractStatus[r] # "unknown" => ContractStatus'[r] # "unknown"
<1>1. ASSUME Inv, ~damaged, Contract!ContractNext, NEW r \in Requests PROVE Forward(r)
  <2> DEFINE S == ContractStatus
  <2>1. DOMAIN S = Requests
    BY DEF ContractStatus
  <2>2. ASSUME NEW q \in Requests, Contract!Accept(q) PROVE Forward(r)
    BY <2>1, <2>2 DEF Contract!Accept
  <2>3. ASSUME NEW T \in SUBSET Requests, Contract!Lapse(T) PROVE Forward(r)
    BY <2>3 DEF Contract!Lapse
  <2>4. ASSUME NEW c \in Clients, NEW q \in Requests, NEW T \in SUBSET Requests, Contract!Lease(c, q, T)
        PROVE  Forward(r)
    BY <2>4 DEF Contract!Lease
  <2>5. ASSUME NEW c \in Clients, NEW q \in Requests, Contract!GiveBack(c, q) PROVE Forward(r)
    <3>1. q \in ContractHolds[c] /\ S' = [S EXCEPT ![q] = "pending"]
      BY <2>5 DEF Contract!GiveBack
    <3>2. S[q] = "in_progress"
      BY <1>1, <3>1, HeldInProgress
    <3> QED
      BY <2>1, <3>1, <3>2
  <2>6. ASSUME NEW c \in Clients, NEW q \in Requests, Contract!Complete(c, q) PROVE Forward(r)
    BY <2>1, <2>6 DEF Contract!Complete
  <2>7. ASSUME NEW c \in Clients, NEW q \in Requests, Contract!Refuse(c, q) PROVE Forward(r)
    BY <2>7 DEF Contract!Refuse
  <2>8. ASSUME NEW dead \in SUBSET Clients, NEW T \in SUBSET Requests, Contract!Forget(dead, T)
        PROVE  Forward(r)
    BY <2>8 DEF Contract!Forget
  <2> QED
    BY <1>1, <2>2, <2>3, <2>4, <2>5, <2>6, <2>7, <2>8 DEF Contract!ContractNext
<1>2. Inv /\ [Next]_vars => [damaged' \/ \A r \in Requests : Forward(r)]_contractView
  <2> SUFFICES ASSUME Inv, [Next]_vars, ~damaged', Contract!ContractNext
               PROVE  \A r \in Requests : Forward(r)
    BY StepRefines
  <2>1. ~damaged
    BY DamageStays
  <2> QED
    BY <1>1, <2>1
<1> QED
  BY <1>2, Invariance, PTL DEF Spec
=============================================================================
