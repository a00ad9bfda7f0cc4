-------------------------- MODULE ProcessingProofs --------------------------
(***************************************************************************)
(* Proofs about Processing, for any responses, files, contents, limits,    *)
(* batch sizes and numbers of faults.                                      *)
(*                                                                         *)
(* A file that failed holds more than what was accepted: parts of batches  *)
(* that were written again, and parts of lines.  What saves the order is   *)
(* that there is a reading of the file -- the record each of its lines is  *)
(* a copy of -- in which the batch to be written next comes after all that *)
(* is done with, and whatever stands behind a later record stands there    *)
(* once more (ReadAs).  A sink keeps such a reading however often it fails *)
(* (SinkKept).                                                             *)
(*                                                                         *)
(* A record of a body is the next call of its response only once the body  *)
(* is in the store (EvidenceNext).  Who starts a browser server is at the     *)
(* head of the mutex, behind which the renderer's close comes last: of the *)
(* servers that nobody closes, and that were not lost, there is at most    *)
(* the one that is launched or shared (Starts, Quiet).                     *)
(***************************************************************************)
EXTENDS Processing, FiniteSetTheorems, SequenceTheorems, TLAPS

------------------------------------------------------------------------------
(* Who calls the store, what numbers a record, and what a caller is in.    *)
Named == Callers \cup {Closer}
Numbers == Contents \cup ({"page", "header", "text"} \X Nat) \cup Nat
Records == Pages \X Numbers
Tasks == [do : {"write"}, file : Files, n : Numbers] \cup [do : {"object"}, content : Contents]
         \cup [do : {"call", "render"}]
InCall == {Idle, Threw} \cup [at : {"flush", "wait"}, file : Files]
          \cup [at : {"object", "compare"}, content : Contents]

StoreShapes ==
    /\ flushEvery \in Nat
    /\ accepted \in [Files -> Seq(Records)]
    /\ buffer \in [Files -> Seq(Records)]
    /\ flushing \in [Files -> [by : Named, batch : Seq(Records)]]
    /\ waiters \in [Files -> Seq(Named)]
    /\ closed \subseteq Files
    /\ lines \in [Files -> Seq(Records \cup {Torn})]
    /\ broken \subseteq Files
    /\ object \in [Contents -> {"none", "partial", "whole"}]
    /\ call \in [Named -> InCall]
    /\ faults \in 0..MaxFaults

(* Who is in an operation on a file, or waits for it, is in that call.     *)
CallsCoherent ==
    \A f \in Files :
        /\ flushing[f] # NoFlush => flushing[f].batch # <<>> /\ call[flushing[f].by] = [at |-> "flush", file |-> f]
        /\ \A i \in DOMAIN waiters[f] : flushing[f] # NoFlush /\ call[waiters[f][i]] = [at |-> "wait", file |-> f]

(* `at` reads the lines L as copies of the records A, of which `done` are  *)
(* done with and none after `last` has been tried.                         *)
ReadAs(at, A, L, done, last) ==
    /\ at \in [1..Len(L) -> 0..last]
    /\ \A i \in 1..Len(L) : IF at[i] = 0 THEN L[i] = Torn ELSE L[i] = A[at[i]]
    /\ \A i, j \in 1..Len(L) : i < j /\ at[i] > done /\ at[j] # 0 => at[j] > done
    /\ \A i, j \in 1..Len(L) :
          i < j /\ Legible(L, i) /\ Legible(L, j) /\ at[i] > at[j] /\ at[i] <= done
             => \E k \in 1..Len(L) : j < k /\ Legible(L, k) /\ at[k] = at[i]
    /\ \A x \in 1..done : \E i \in 1..Len(L) : at[i] = x

(* M is L, E and tail in a row, sequences over S.                          *)
FollowEachOther(M, L, E, tail, S) ==
    /\ M \in Seq(S) /\ Len(M) = Len(L) + Len(E) + Len(tail)
    /\ M = L \o (E \o tail) /\ E \o tail \in Seq(S)
    /\ \A i \in 1..Len(L) : M[i] = L[i]
    /\ \A i \in 1..Len(E) : M[Len(L) + i] = E[i]
    /\ \A i \in 1..Len(tail) : M[Len(L) + Len(E) + i] = tail[i]

(* M goes on from L with n records, and `on` reads it as `at` reads L.     *)
ReadFurther(far, at, A, L, M, n, done) ==
    /\ \A i \in 1..Len(L) : M[i] = L[i] /\ (Legible(M, i) <=> Legible(L, i))
    /\ \A i \in 1..n : M[Len(L) + i] = A[done + i]
    /\ \A i \in 1..Len(M) : i > Len(L) + n => M[i] = Torn
    /\ far \in [1..Len(M) -> Int]
    /\ \A i \in 1..Len(M) : far[i] = IF i <= Len(L) THEN at[i] ELSE IF i <= Len(L) + n THEN done + (i - Len(L)) ELSE 0

(* Read without its parts of lines, M holds the records A in their order.  *)
SaysAll(A, M) ==
    /\ \A i \in DOMAIN M : Legible(M, i) => M[i] \in ToSet(A)
    /\ \A x \in ToSet(A) : x \in Swallowed(M) \/ \E i \in DOMAIN M : Legible(M, i) /\ M[i] = x
    /\ \A i, j \in DOMAIN M :
          LastCopy(M, i) /\ LastCopy(M, j) /\ i < j => \E k, l \in DOMAIN A : k < l /\ A[k] = M[i] /\ A[l] = M[j]

(* The batch B and then the buffer U are the records A from done + 1 on.   *)
Remain(A, B, U, done) ==
    /\ done \in Nat /\ Len(A) = done + Len(B) + Len(U)
    /\ \A i \in 1..Len(B) : B[i] = A[done + i]
    /\ \A i \in 1..Len(U) : U[i] = A[done + Len(B) + i]

SinkKept(A, B, U, L, flows, failed) ==
    \E done \in Nat :
        /\ Remain(A, B, U, done)
        /\ \E at \in [1..Len(L) -> 0..Len(A)] : ReadAs(at, A, L, done, IF flows THEN done + Len(B) ELSE Len(A))
        /\ failed \/ L \o B \o U = A

Sinks == \A f \in Files : SinkKept(accepted[f], flushing[f].batch, buffer[f], lines[f], flushing[f] # NoFlush, f \in broken)

StoreInv == StoreShapes /\ CallsCoherent /\ Sinks

IsEvidence(t) == t.do = "write" /\ t.file = "evidence"
ObjectOf(t) == [do |-> "object", content |-> t.n]

(* Each record of a body follows the call that stores the body.            *)
Ordered(s) == \A i \in 1..Len(s) : IsEvidence(s[i]) => s[i].n \in Contents /\ (i > 1 => s[i - 1] = ObjectOf(s[i]))

(* If such a record is next, the body is there, or the call that stores it *)
(* goes on or has failed.                                                  *)
EvidenceNext(r) ==
    todo[r] # <<>> /\ IsEvidence(Head(todo[r])) =>
        \/ call[r] = Threw \/ object[Head(todo[r]).n] = "whole"
        \/ call[r].at \in {"object", "compare"} /\ call[r].content = Head(todo[r]).n

(* The body of each record that was accepted is there.                     *)
EvidenceStored ==
    \A i \in DOMAIN accepted["evidence"] :
        accepted["evidence"][i][2] \in Contents /\ object[accepted["evidence"][i][2]] = "whole"

TodoInv ==
    /\ todo \in [Pages -> Seq(Tasks)]
    /\ \A r \in Pages : Ordered(todo[r]) /\ EvidenceNext(r)
    /\ EvidenceStored

Launching == {r \in Pages : op[r] = "launch"}
Begun == {r \in Pages : op[r] \in {"launch", "page", "done", "failed"}}
Turns == [is : {"get"}, request : Pages] \cup {VoidClose, LastClose}

(* The servers that somebody may use, or has yet to close.                 *)
Kept == alive \ (closing \cup awaited \cup lost)

ServerShapes ==
    /\ launched \in Nat /\ browser \in 0..launched /\ on \in [Pages -> 0..launched]
    /\ alive \cup closing \cup awaited \cup lost \subseteq 1..launched /\ connected \subseteq alive

RenderShapes ==
    /\ render \in [Pages -> {"none", "waiting", "rendering", "rendered", "failed"}]
    /\ op \in [Pages -> {"none", "get", "launch", "page", "done", "failed"}]
    /\ queue \in Seq(Turns)
    /\ ServerShapes
    /\ launched <= Cardinality(Begun)
    /\ Cardinality(Active) <= MaxConcurrency

(* Who launches a server is at the head of the mutex, and only the last    *)
(* one launched, or the one that is shared, is kept.                       *)
Starts ==
    /\ \A r \in Pages : op[r] = "launch" => queue[1] = Get(r) /\ Kept \subseteq {launched} /\ launched # 0 /\ launched \notin connected
    /\ Launching = {} => Kept \subseteq {browser} \cap connected

(* Who wants the browser has its place in the mutex.                       *)
OneServer ==
    /\ \A r \in Pages : render[r] \in {"none", "waiting"} => op[r] = "none"
    /\ \A r \in Pages : op[r] \in {"get", "launch"} => \E i \in 1..Len(queue) : queue[i] = Get(r)
    /\ Starts

RenderInv == RenderShapes /\ OneServer

(* A response that waits for its page is in that call.                     *)
AwaitsPage(r) ==
    render[r] \in {"waiting", "rendering"} =>
        r \notin ended /\ call[r] = Idle /\ todo[r] # <<>> /\ Head(todo[r]).do = "render"

(* After the last response the renderer's close is the last in the mutex,  *)
(* and it is waited for.                                                   *)
Quiet ==
    finishing # "no" =>
        /\ ended = Pages
        /\ queue # <<>> => queue[Len(queue)] = LastClose
        /\ queue = <<>> => Kept = {}
        /\ finishing # "closing" => queue = <<>> /\ awaited = {}

(* Responses that are done with are in no call, and sinks close together,  *)
(* with nothing left to write.                                             *)
AtRest ==
    /\ \A r \in ended : call[r] = Idle
    /\ closed # {} => closed = Files /\ ended = Pages /\ \A f \in Files : buffer[f] = <<>> /\ flushing[f] = NoFlush

EndInv ==
    /\ ended \subseteq Pages
    /\ renderedPages \in 0..MaxRenderedPages
    /\ finishing \in {"no", "closing", "storing", "failed", "closed"}
    /\ \A r \in Pages : AwaitsPage(r)
    /\ Quiet /\ AtRest

ProcessingInv == StoreInv /\ TodoInv /\ RenderInv /\ EndInv

------------------------------------------------------------------------------
(* Legible is about a line and the one before it (what a reader of a file  *)
(* of records makes of it), so it does not change when a file grows.       *)
LEMMA LegibleStays ==
    ASSUME NEW T, NEW L \in Seq(T), NEW M \in Seq(T), NEW i \in 1..Len(L)
    PROVE  Legible(L \o M, i) <=> Legible(L, i)
<1>1. \A j \in 1..Len(L) : (L \o M)[j] = L[j]
    OBVIOUS
<1>2. i > 1 => i - 1 \in 1..Len(L)
    OBVIOUS
<1> QED
    BY <1>1, <1>2 DEF Legible

(* A sink that takes a record in reads its file as before                  *)
(* (JsonLineSink.write).                                                   *)
LEMMA MoreAccepted ==
    ASSUME NEW T, NEW A \in Seq(T), NEW x \in T, NEW L, NEW done \in Nat, NEW last \in 0..Len(A),
           NEW more \in Nat, last <= more, Len(L) \in Nat, NEW at, ReadAs(at, A, L, done, last)
    PROVE  ReadAs(at, Append(A, x), L, done, more)
<1>1. \A i \in 1..Len(A) : Append(A, x)[i] = A[i]
    OBVIOUS
<1>2. at \in [1..Len(L) -> 0..last]
    BY DEF ReadAs
<1>3. at \in [1..Len(L) -> 0..more]
    BY <1>2
<1>4. \A i \in 1..Len(L) : at[i] # 0 => Append(A, x)[at[i]] = A[at[i]]
    BY <1>1, <1>2
<1> QED
    BY <1>3, <1>4 DEF ReadAs

(* Three sequences in a row.                                               *)
LEMMA InARow ==
    ASSUME NEW S, NEW L \in Seq(S), NEW E \in Seq(S), NEW tail \in Seq(S)
    PROVE  FollowEachOther((L \o E) \o tail, L, E, tail, S)
<1>1. (L \o E) \o tail = L \o (E \o tail)
    BY SMTT(30), ConcatAssociative
<1>2. E \o tail \in Seq(S)
    BY ConcatProperties
<1> DEFINE F == L \o E
<1>3. F \in Seq(S) /\ Len(F) = Len(L) + Len(E)
    BY ConcatProperties
<1>4. \A i \in 1..Len(L) : F[i] = L[i]
    OBVIOUS
<1>5. \A i \in 1..Len(E) : F[Len(L) + i] = E[i]
    OBVIOUS
<1> HIDE DEF F
<1>6. F \o tail \in Seq(S) /\ Len(F \o tail) = Len(F) + Len(tail)
    BY <1>3, ConcatProperties
<1>7. \A i \in 1..Len(F) : (F \o tail)[i] = F[i]
    BY <1>3
<1>8. \A i \in 1..Len(tail) : (F \o tail)[Len(F) + i] = tail[i]
    BY <1>3
<1>9. /\ \A i \in 1..Len(L) : i \in 1..Len(F)
      /\ \A i \in 1..Len(E) : Len(L) + i \in 1..Len(F)
    BY <1>3
<1> QED
    BY <1>1, <1>2, <1>3, <1>4, <1>5, <1>6, <1>7, <1>8, <1>9 DEF F, FollowEachOther

(* A file M that begins as L and goes on with n records and parts of lines *)
(* is read as L is, then as those records.                                 *)
LEMMA ReadOn ==
    ASSUME NEW A, NEW L, NEW M, NEW n \in Nat, NEW a \in Nat, NEW last \in Nat, NEW done \in Nat,
           Len(L) \in Nat, Len(M) \in Nat, Len(L) + n <= Len(M), done + n <= a, last <= a,
           NEW at, ReadAs(at, A, L, done, last), NEW far, ReadFurther(far, at, A, L, M, n, done)
    PROVE  ReadAs(far, A, M, done, a)
<1>0. PICK l \in Nat, m \in Nat : l = Len(L) /\ m = Len(M)
    OBVIOUS
<1>1. /\ l + n <= m
      /\ \A i \in 1..l : M[i] = L[i] /\ (Legible(M, i) <=> Legible(L, i))
      /\ \A i \in 1..n : M[l + i] = A[done + i]
      /\ \A i \in 1..m : i > l + n => M[i] = Torn
      /\ far \in [1..m -> Int]
      /\ \A i \in 1..m : far[i] = IF i <= l THEN at[i] ELSE IF i <= l + n THEN done + (i - l) ELSE 0
    BY <1>0 DEF ReadFurther
<1>5. /\ at \in [1..l -> 0..last]
      /\ \A i \in 1..l : IF at[i] = 0 THEN L[i] = Torn ELSE L[i] = A[at[i]]
      /\ \A i, j \in 1..l : i < j /\ at[i] > done /\ at[j] # 0 => at[j] > done
      /\ \A i, j \in 1..l :
            i < j /\ Legible(L, i) /\ Legible(L, j) /\ at[i] > at[j] /\ at[i] <= done
               => \E k \in 1..l : j < k /\ Legible(L, k) /\ at[k] = at[i]
      /\ \A x \in 1..done : \E i \in 1..l : at[i] = x
    BY <1>0 DEF ReadAs
<1>5a. \A i \in 1..m : far[i] = IF i <= l THEN at[i] ELSE IF i <= l + n THEN done + (i - l) ELSE 0
    BY <1>1
<1>5b. l + n <= m
    BY <1>1
<1>6. /\ far \in [1..m -> 0..a]
      /\ \A i \in 1..l : i \in 1..m /\ far[i] = at[i]
      /\ \A i \in 1..n : far[l + i] = done + i
      /\ \A i \in 1..m : i > l + n => far[i] = 0
    <2>2. \A i \in 1..l : at[i] \in 0..a
        BY <1>5, <1>1
    <2>4. \A i \in 1..m : far[i] \in 0..a
        BY <2>2, <1>5a, <1>5b
    <2>5. far \in [1..m -> 0..a]
        BY <2>4, <1>1
    <2>6. \A i \in 1..l : i \in 1..m /\ i <= l
        BY <1>1
    <2>7. \A i \in 1..n : l + i \in 1..m /\ ~(l + i <= l) /\ l + i <= l + n /\ done + ((l + i) - l) = done + i
        BY <1>1
    <2>8. \A i \in 1..n : far[l + i] = done + i
        BY <2>7, <1>1
    <2> QED
        <3>1. \A i \in 1..l : far[i] = at[i]
            BY <2>6, <1>5a, SMTT(30)
        <3>2. \A i \in 1..m : i > l + n => far[i] = 0
            BY <1>5a, <1>5b
        <3> QED
            BY <2>5, <2>6, <2>8, <3>1, <3>2
<1>6a. \A i \in 1..m : l < i /\ i <= l + n => \E j \in 1..n : i = l + j
    <2> TAKE i \in 1..m
    <2> HAVE l < i /\ i <= l + n
    <2>1. i - l \in 1..n /\ i = l + (i - l)
        BY <1>1
    <2> QED
        BY <2>1
<1>7. \A i \in 1..m : IF far[i] = 0 THEN M[i] = Torn ELSE M[i] = A[far[i]]
    <2> TAKE i \in 1..m
    <2>1. CASE i <= l
        <3>1. i \in 1..l /\ M[i] = L[i] /\ far[i] = at[i]
            BY <2>1, <1>1, <1>6
        <3>2. IF at[i] = 0 THEN L[i] = Torn ELSE L[i] = A[at[i]]
            BY <3>1, <1>5
        <3> QED
            BY <3>1, <3>2
    <2>2. CASE l < i /\ i <= l + n
        <3>1. PICK j \in 1..n : i = l + j
            BY <1>1, <2>2, <1>6a
        <3>2. M[l + j] = A[done + j] /\ far[l + j] = done + j
            BY <1>1, <1>6
        <3> QED
            BY <1>1, <3>1, <3>2
    <2>3. CASE i > l + n
        BY <1>1, <2>3, <1>6
    <2> QED
        BY <1>1, <2>1, <2>2, <2>3
<1>8. \A i \in 1..m : i > l => far[i] = 0 \/ far[i] > done
    <2> TAKE i \in 1..m
    <2>1. CASE l < i /\ i <= l + n
        <3>1. PICK j \in 1..n : i = l + j
            BY <1>1, <2>1, <1>6a
        <3> QED
            BY <1>1, <3>1, <1>6
    <2> QED
        BY <1>1, <2>1, <1>6
<1>9. ASSUME NEW i \in 1..m, NEW j \in 1..m, i < j, far[i] > done, far[j] # 0
      PROVE  far[j] > done
    <2>1. CASE j > l
        BY <1>1, <2>1, <1>8, <1>9
    <2>2. CASE j <= l
        <3>1. i \in 1..l /\ j \in 1..l /\ at[i] > done /\ at[j] # 0
            BY <1>1, <2>2, <1>6, <1>9
        <3> QED
            BY <1>1, <3>1, <1>5, <1>6, <1>9
    <2> QED
        BY <1>1, <2>1, <2>2
<1>10. ASSUME NEW i \in 1..m, NEW j \in 1..m, i < j, Legible(M, i), Legible(M, j), far[i] > far[j], far[i] <= done
       PROVE  \E k \in 1..m : j < k /\ Legible(M, k) /\ far[k] = far[i]
    <2>1. far[j] # 0
        <3>1. M[j] # Torn
            BY <1>1, <1>10 DEF Legible
        <3> QED
            BY <1>1, <3>1, <1>7
    <2>2. far[i] \in Nat /\ far[j] \in Nat
        BY <1>1, <1>6
    <2>3. i \in 1..l /\ j \in 1..l
        BY <1>1, <2>2, <2>1, <1>8, <1>10
    <2>4. /\ Legible(L, i) /\ Legible(L, j) /\ at[i] > at[j] /\ at[i] <= done
        BY <1>1, <2>3, <1>6, <1>10
    <2>5. PICK k \in 1..l : j < k /\ Legible(L, k) /\ at[k] = at[i]
        BY <1>1, <2>3, <2>4, <1>5, <1>10
    <2> QED
        BY <1>1, <2>3, <2>5, <1>6
<1>11. \A x \in 1..done : \E i \in 1..m : far[i] = x
    <2> TAKE x \in 1..done
    <2>1. PICK i \in 1..l : at[i] = x
        BY <1>1, <1>5
    <2> QED
        BY <1>1, <2>1, <1>6
<1>12. far \in [1..Len(M) -> 0..a]
    BY <1>6, <1>0
<1> QED
    BY <1>12, <1>7, <1>9, <1>10, <1>11, <1>0 DEF ReadAs

------------------------------------------------------------------------------
(* Once all the records up to `last` are there as the last lines of the    *)
(* file they are done with: whatever stood out of order stands again,      *)
(* legible, behind.  Only the first of them may share its line with a part *)
(* of one; it stands in no other place that comes too early.               *)
LEMMA ReadDone ==
    ASSUME NEW A, NEW M, NEW l \in Nat, NEW m \in Nat, NEW b \in Nat, NEW done \in Nat,
           Len(M) = m, m = l + b, \A x \in 1..(done + b) : A[x] # Torn,
           NEW far, ReadAs(far, A, M, done, done + b), \A i \in 1..b : far[l + i] = done + i
    PROVE  ReadAs(far, A, M, done + b, done + b)
<1>1. /\ far \in [1..m -> 0..(done + b)]
      /\ \A i \in 1..m : IF far[i] = 0 THEN M[i] = Torn ELSE M[i] = A[far[i]]
      /\ \A i, j \in 1..m : i < j /\ far[i] > done /\ far[j] # 0 => far[j] > done
      /\ \A i, j \in 1..m :
            i < j /\ Legible(M, i) /\ Legible(M, j) /\ far[i] > far[j] /\ far[i] <= done
               => \E k \in 1..m : j < k /\ Legible(M, k) /\ far[k] = far[i]
      /\ \A x \in 1..done : \E i \in 1..m : far[i] = x
    BY DEF ReadAs
<1>2. \A i \in 1..b : l + i \in 1..m /\ far[l + i] = done + i /\ M[l + i] = A[done + i] /\ M[l + i] # Torn
    <2> TAKE i \in 1..b
    <2>1. l + i \in 1..m /\ far[l + i] = done + i /\ done + i \in 1..(done + b) /\ done + i # 0
        OBVIOUS
    <2> QED
        BY <2>1, <1>1
<1>3. \A i \in 1..m : ~(far[i] > done + b)
    BY <1>1
<1>4. ASSUME NEW i \in 1..m, NEW j \in 1..m, i < j, Legible(M, i), Legible(M, j), far[i] > far[j], far[i] <= done + b
      PROVE  \E k \in 1..m : j < k /\ Legible(M, k) /\ far[k] = far[i]
    <2>1. CASE far[i] <= done
        BY <2>1, <1>1, <1>4
    <2>2. CASE far[i] > done
        <3>1. far[i] \in Nat /\ far[j] \in Nat
            BY <1>1
        <3>2. far[j] # 0
            <4>1. M[j] # Torn
                BY <1>4 DEF Legible
            <4> QED
                BY <4>1, <1>1
        <3>3. far[j] > done
            BY <2>2, <3>2, <1>1, <1>4
        <3> DEFINE d == far[i] - done
        <3>4. d \in 1..b /\ d - 1 \in 1..b /\ far[i] = done + d
            BY <2>2, <3>1, <3>3, <1>4
        <3> HIDE DEF d
        <3>5. l + d \in 1..m /\ far[l + d] = far[i] /\ M[l + d] # Torn
            BY <3>4, <1>2
        <3>6. M[l + (d - 1)] # Torn
            BY <3>4, <1>2
        <3>7. Legible(M, l + d)
            <4>1. l + (d - 1) = (l + d) - 1
                BY <3>4
            <4> QED
                BY <3>5, <3>6, <4>1 DEF Legible
        <3>8. j < l + d
            <4>1. CASE j <= l
                BY <4>1, <3>4
            <4>2. CASE j > l
                <5>1. j - l \in 1..b /\ j = l + (j - l)
                    BY <4>2
                <5>2. far[j] = done + (j - l)
                    BY <5>1, <1>2
                <5> QED
                    BY <4>2, <5>2, <3>1, <3>4, <1>4
            <4> QED
                BY <4>1, <4>2
        <3> QED
            BY <3>5, <3>7, <3>8
    <2> QED
        <3>1. far[i] \in Nat
            BY <1>1
        <3> QED
            BY <2>1, <2>2, <3>1
<1>5. \A x \in 1..(done + b) : \E i \in 1..m : far[i] = x
    <2> TAKE x \in 1..(done + b)
    <2>1. CASE x <= done
        BY <2>1, <1>1
    <2>2. CASE x > done
        <3>1. x - done \in 1..b /\ x = done + (x - done)
            BY <2>2
        <3>2. l + (x - done) \in 1..m /\ far[l + (x - done)] = x
            BY <3>1, <1>2
        <3> QED
            BY <3>2
    <2> QED
        BY <2>1, <2>2
<1> QED
    BY <1>1, <1>3, <1>4, <1>5 DEF ReadAs

(* What a whole reading says of a file (SinksComplete).                    *)
LEMMA ReadSays ==
    ASSUME NEW A, NEW M, NEW a \in Nat, NEW m \in Nat, Len(M) = m, Len(A) = a, DOMAIN A = 1..a, DOMAIN M = 1..m,
           \A x \in 1..a : A[x] # Torn, NEW far, ReadAs(far, A, M, a, a)
    PROVE  SaysAll(A, M)
<1>1. /\ far \in [1..m -> 0..a]
      /\ \A i \in 1..m : IF far[i] = 0 THEN M[i] = Torn ELSE M[i] = A[far[i]]
      /\ \A i, j \in 1..m :
            i < j /\ Legible(M, i) /\ Legible(M, j) /\ far[i] > far[j] /\ far[i] <= a
               => \E k \in 1..m : j < k /\ Legible(M, k) /\ far[k] = far[i]
      /\ \A x \in 1..a : \E i \in 1..m : far[i] = x
    BY DEF ReadAs
<1>1a. \A i \in 1..m : far[i] # 0 => M[i] = A[far[i]]
    BY <1>1
<1>2. \A i \in 1..m : Legible(M, i) => far[i] \in 1..a /\ M[i] = A[far[i]]
    BY <1>1 DEF Legible
<1>3. \A i \in DOMAIN M : Legible(M, i) => M[i] \in ToSet(A)
    BY <1>2 DEF ToSet
<1>4. \A x \in ToSet(A) : x \in Swallowed(M) \/ \E i \in DOMAIN M : Legible(M, i) /\ M[i] = x
    <2> TAKE x \in ToSet(A)
    <2>1. PICK n \in 1..a : x = A[n]
        BY DEF ToSet
    <2>2. PICK i \in 1..m : far[i] = n
        BY <1>1
    <2>3. M[i] = x /\ M[i] # Torn
        <3>1. n # 0 /\ A[n] # Torn /\ M[i] = A[far[i]]
            BY <2>2, <1>1a
        <3> QED
            BY <3>1, <2>1, <2>2
    <2>4. CASE i > 1 /\ M[i - 1] = Torn
        BY <2>3, <2>4 DEF Swallowed
    <2>5. CASE ~(i > 1 /\ M[i - 1] = Torn)
        BY <2>3, <2>5 DEF Legible
    <2> QED
        BY <2>4, <2>5
<1>5. ASSUME NEW i \in 1..m, NEW j \in 1..m, LastCopy(M, i), LastCopy(M, j), i < j
      PROVE  \E k, n \in 1..a : k < n /\ A[k] = M[i] /\ A[n] = M[j]
    <2>1. /\ far[i] \in 1..a /\ M[i] = A[far[i]] /\ Legible(M, i)
          /\ far[j] \in 1..a /\ M[j] = A[far[j]] /\ Legible(M, j)
        BY <1>2, <1>5 DEF LastCopy
    <2>2. \A k \in 1..m : i < k /\ Legible(M, k) => M[k] # M[i]
        BY <1>5 DEF LastCopy
    <2>3. ~(far[i] > far[j])
        <3> SUFFICES ASSUME far[i] > far[j] PROVE FALSE
            OBVIOUS
        <3>1. PICK k \in 1..m : j < k /\ Legible(M, k) /\ far[k] = far[i]
            BY <2>1, <1>1, <1>5
        <3>2. M[k] = M[i]
            BY <3>1, <2>1, <1>1
        <3> QED
            BY <3>1, <3>2, <2>2, <1>5
    <2>4. far[i] # far[j]
        BY <2>1, <2>2, <1>5
    <2> QED
        BY <2>1, <2>3, <2>4
<1> QED
    BY <1>3, <1>4, <1>5 DEF SaysAll

------------------------------------------------------------------------------
(* The sink of a file to be written begins, and goes on when it takes in a *)
(* record, when a flush starts, ends or fails (JsonLineSink).              *)
LEMMA SinkRead ==
    ASSUME NEW A, NEW B, NEW U, NEW L, NEW flows \in BOOLEAN, NEW failed \in BOOLEAN, NEW done \in Nat, Remain(A, B, U, done),
           NEW at \in [1..Len(L) -> 0..Len(A)], NEW last, last = IF flows THEN done + Len(B) ELSE Len(A),
           ReadAs(at, A, L, done, last), failed \/ L \o B \o U = A
    PROVE  SinkKept(A, B, U, L, flows, failed)
BY DEF SinkKept

LEMMA SinkBegins == SinkKept(<<>>, <<>>, <<>>, <<>>, FALSE, FALSE)
<1>1. Remain(<<>>, <<>>, <<>>, 0)
    BY DEF Remain
<1>2. ReadAs(<<>>, <<>>, <<>>, 0, 0)
    BY DEF ReadAs
<1>3. <<>> \in [1..Len(<<>>) -> 0..Len(<<>>)]
    OBVIOUS
<1>4. Len(<<>>) = 0 /\ <<>> \o <<>> \o <<>> = <<>> /\ 0 \in Nat
    OBVIOUS
<1> QED
    <2> DEFINE last == 0 none == <<>>
    <2>1. last = IF FALSE THEN 0 + Len(<<>>) ELSE Len(<<>>)
        BY <1>4
    <2>2. FALSE \/ <<>> \o <<>> \o <<>> = <<>>
        BY <1>4
    <2>3. ReadAs(none, <<>>, <<>>, 0, last) /\ none \in [1..Len(<<>>) -> 0..Len(<<>>)]
        BY <1>2, <1>3
    <2> HIDE DEF last, none
    <2> QED
        BY <1>1, <1>4, <2>1, <2>2, <2>3, SinkRead

LEMMA SinkGrows ==
    ASSUME NEW T, NEW A \in Seq(T), NEW B \in Seq(T), NEW U \in Seq(T), NEW L \in Seq(T \cup {Torn}), NEW x \in T,
           NEW flows \in BOOLEAN, NEW failed \in BOOLEAN, SinkKept(A, B, U, L, flows, failed)
    PROVE  SinkKept(Append(A, x), B, Append(U, x), L, flows, failed)
<1>0. Len(A) \in Nat /\ Len(B) \in Nat /\ Len(U) \in Nat /\ Len(L) \in Nat
    OBVIOUS
<1> DEFINE C == Append(A, x) W == Append(U, x)
           last(d) == IF flows THEN d + Len(B) ELSE Len(A)
           more(d) == IF flows THEN d + Len(B) ELSE Len(C)
<1>1. /\ C \in Seq(T) /\ Len(C) = Len(A) + 1 /\ C[Len(A) + 1] = x /\ \A i \in 1..Len(A) : C[i] = A[i]
      /\ W \in Seq(T) /\ Len(W) = Len(U) + 1 /\ W[Len(U) + 1] = x /\ \A i \in 1..Len(U) : W[i] = U[i]
    OBVIOUS
<1> HIDE DEF C, W
<1>2. PICK done \in Nat :
        /\ Remain(A, B, U, done)
        /\ \E at \in [1..Len(L) -> 0..Len(A)] : ReadAs(at, A, L, done, IF flows THEN done + Len(B) ELSE Len(A))
        /\ failed \/ L \o B \o U = A
    BY DEF SinkKept
<1>3. PICK at \in [1..Len(L) -> 0..Len(A)] : ReadAs(at, A, L, done, last(done))
    BY <1>2
<1>4. /\ Len(A) = done + Len(B) + Len(U)
      /\ \A i \in 1..Len(B) : B[i] = A[done + i]
      /\ \A i \in 1..Len(U) : U[i] = A[done + Len(B) + i]
    BY <1>2 DEF Remain
<1>5. Remain(C, B, W, done)
    <2>1. Len(C) = done + Len(B) + Len(W)
        BY <1>0, <1>1, <1>4
    <2>2. \A i \in 1..Len(B) : B[i] = C[done + i]
        BY <1>0, <1>1, <1>4
    <2>3. ASSUME NEW i \in 1..Len(W) PROVE W[i] = C[done + Len(B) + i]
        <3>1. CASE i \in 1..Len(U)
            <4>1. done + Len(B) + i \in 1..Len(A)
                BY <3>1, <1>0, <1>4
            <4> QED
                BY <3>1, <4>1, <1>1, <1>4
        <3>2. CASE i = Len(U) + 1
            <4>1. done + Len(B) + i = Len(A) + 1
                BY <3>2, <1>0, <1>4
            <4> QED
                BY <3>2, <4>1, <1>1
        <3> QED
            BY <3>1, <3>2, <1>0, <1>1
    <2> QED
        BY <2>1, <2>2, <2>3 DEF Remain
<1>6. ReadAs(at, C, L, done, more(done))
    <2>1. last(done) \in 0..Len(A) /\ more(done) \in Nat /\ last(done) <= more(done)
        BY <1>0, <1>1, <1>4
    <2> HIDE DEF last, more
    <2> QED
        BY <2>1, <1>3, MoreAccepted, <1>0 DEF C
<1>7. at \in [1..Len(L) -> 0..Len(C)]
    BY <1>0, <1>1, <1>3
<1>8. ASSUME ~failed PROVE L \o B \o W = C
    <2>1. L \o B \o U = A
        BY <1>2, <1>8
    <2> DEFINE K == L \o B
    <2>2. K \in Seq(T \cup {Torn}) /\ U \in Seq(T \cup {Torn}) /\ x \in T \cup {Torn}
        BY SeqMonotonic, ConcatProperties
    <2> HIDE DEF K
    <2>3. K \o Append(U, x) = Append(K \o U, x)
        BY <2>2
    <2> QED
        BY <2>1, <2>3 DEF K, C, W
<1> QED
    <2>1. failed \/ L \o B \o W = C
        BY <1>8
    <2>2. more(done) = IF flows THEN done + Len(B) ELSE Len(C)
        OBVIOUS
    <2> DEFINE end == more(done)
    <2>4. end = (IF flows THEN done + Len(B) ELSE Len(C)) /\ ReadAs(at, C, L, done, end)
        BY <1>6, <2>2
    <2> HIDE DEF end
    <2> QED
        <3>1. SinkKept(C, B, W, L, flows, failed)
            BY <1>5, <1>7, <2>1, <2>4, SinkRead
        <3> QED
            BY <3>1 DEF C, W

LEMMA SinkStarts ==
    ASSUME NEW T, NEW A \in Seq(T), NEW U \in Seq(T), NEW L \in Seq(T \cup {Torn}),
           NEW failed \in BOOLEAN, SinkKept(A, <<>>, U, L, FALSE, failed)
    PROVE  SinkKept(A, U, <<>>, L, TRUE, failed)
<1>0. Len(A) \in Nat /\ Len(U) \in Nat /\ Len(L) \in Nat /\ Len(<<>>) = 0
    OBVIOUS
<1>1. PICK done \in Nat :
        /\ Remain(A, <<>>, U, done)
        /\ \E at \in [1..Len(L) -> 0..Len(A)] : ReadAs(at, A, L, done, Len(A))
        /\ failed \/ L \o <<>> \o U = A
    BY DEF SinkKept
<1>2. Len(A) = done + Len(U) /\ \A i \in 1..Len(U) : U[i] = A[done + i]
    BY <1>0, <1>1 DEF Remain
<1>3. Remain(A, U, <<>>, done)
    BY <1>0, <1>2 DEF Remain
<1>4. failed \/ L \o U \o <<>> = A
    <2>1. U \in Seq(T \cup {Torn}) /\ L \o U \in Seq(T \cup {Torn})
        BY SeqMonotonic, ConcatProperties
    <2>2. L \o <<>> = L /\ (L \o U) \o <<>> = L \o U
        BY <2>1, ConcatEmptySeq
    <2> QED
        BY <2>2, <1>1
<1>5. done + Len(U) = Len(A)
    BY <1>2
<1> QED
    BY <1>1, <1>3, <1>4, <1>5 DEF SinkKept

LEMMA SinkEnds ==
    ASSUME NEW T, Torn \notin T, NEW A \in Seq(T), NEW B \in Seq(T), NEW U \in Seq(T), NEW L \in Seq(T \cup {Torn}),
           NEW failed \in BOOLEAN, SinkKept(A, B, U, L, TRUE, failed)
    PROVE  SinkKept(A, <<>>, U, L \o B, FALSE, failed)
<1> DEFINE a == Len(A) b == Len(B) u == Len(U) l == Len(L) M == L \o B m == Len(M)
<1>0. a \in Nat /\ b \in Nat /\ u \in Nat /\ l \in Nat
    OBVIOUS
<1>1. PICK done \in Nat :
        /\ Remain(A, B, U, done)
        /\ \E at \in [1..Len(L) -> 0..Len(A)] : ReadAs(at, A, L, done, done + Len(B))
        /\ failed \/ L \o B \o U = A
    BY DEF SinkKept
<1>2. PICK at \in [1..Len(L) -> 0..Len(A)] : ReadAs(at, A, L, done, done + Len(B))
    BY <1>1
<1>3. /\ a = done + b + u
      /\ \A i \in 1..b : B[i] = A[done + i]
      /\ \A i \in 1..u : U[i] = A[done + b + i]
    BY <1>1 DEF Remain
<1>4. B \in Seq(T \cup {Torn}) /\ U \in Seq(T \cup {Torn})
    BY SeqMonotonic
<1>5. /\ M \in Seq(T \cup {Torn}) /\ m = l + b
      /\ \A i \in 1..(l + b) : M[i] = IF i <= l THEN L[i] ELSE B[i - l]
    BY <1>4, ConcatProperties
<1>6. \A i \in 1..l : Legible(M, i) <=> Legible(L, i)
    BY <1>4, LegibleStays
<1>7. \A x \in 1..a : A[x] \in T /\ A[x] # Torn
    BY Torn \notin T
<1>7a. \A i \in 1..b : B[i] = A[done + i]
    BY <1>3
<1>8. failed \/ M \o <<>> \o U = A
    <2>1. M \o <<>> = M
        BY <1>5, ConcatEmptySeq
    <2> HIDE DEF M
    <2> QED
        BY <1>1, <2>1 DEF M
<1> DEFINE far == [i \in 1..m |-> IF i <= l THEN at[i] ELSE IF i <= l + b THEN done + (i - l) ELSE 0]
           now == done + b
<1>9. ReadAs(at, A, L, done, done + b) /\ Len(L) = l /\ Len(M) = m
    BY <1>2
<1> HIDE DEF a, b, u, l, m, M
<1>10. m \in Nat /\ l + b <= m /\ \A i \in 1..m : i > l + b => M[i] = Torn
    BY <1>0, <1>5
<1>11. \A i \in 1..b : M[l + i] = A[done + i]
    <2> TAKE i \in 1..b
    <2>1. l + i \in 1..(l + b) /\ ~(l + i <= l) /\ (l + i) - l = i
        BY <1>0
    <2>2. M[l + i] = B[i]
        BY <2>1, <1>5
    <2> QED
        BY <2>2, <1>7a
<1>12. \A i \in 1..l : M[i] = L[i] /\ (Legible(M, i) <=> Legible(L, i))
    BY <1>0, <1>5, <1>6
<1>13. now \in Nat /\ now = done + b /\ b <= b
    BY <1>0
<1> HIDE DEF now
<1>14. /\ far \in [1..m -> Int]
       /\ \A i \in 1..m : far[i] = IF i <= l THEN at[i] ELSE IF i <= l + b THEN done + (i - l) ELSE 0
    <2>1. \A i \in 1..l : at[i] \in Int
        BY <1>2 DEF a, l
    <2>2. \A i \in 1..m : (IF i <= l THEN at[i] ELSE IF i <= l + b THEN done + (i - l) ELSE 0) \in Int
        BY <1>0, <1>10, <2>1
    <2> QED
        BY <2>2
<1> HIDE DEF far
<1>15. done + b <= now /\ ReadAs(at, A, L, done, done + b)
    BY <1>0, <1>9, <1>13
<1>16. ReadAs(far, A, M, done, now)
    <2>1. Len(L) = l /\ Len(M) = m
        BY <1>9
    <2>2. ReadFurther(far, at, A, L, M, b, done)
        BY <2>1, <1>10, <1>11, <1>12, <1>14 DEF ReadFurther
    <2>3. Len(L) \in Nat /\ Len(M) \in Nat /\ Len(L) + b <= Len(M) /\ done + b <= now /\ now <= now
        BY <2>1, <1>0, <1>10, <1>13
    <2>4. ReadAs(at, A, L, done, now)
        BY <1>9, <1>13
    <2> QED
        BY <2>2, <2>3, <2>4, <1>0, <1>13, ReadOn
<1>17. \A i \in 1..b : far[l + i] = done + i
    <2> TAKE i \in 1..b
    <2>1. l + i \in 1..m /\ ~(l + i <= l) /\ l + i <= l + b /\ done + ((l + i) - l) = done + i
        BY <1>0, <1>10
    <2> QED
        BY <2>1, <1>14
<1>18. ReadAs(far, A, M, now, now)
    <2>1. \A x \in 1..(done + b) : A[x] # Torn
        BY <1>0, <1>3, <1>7
    <2>2. ReadAs(far, A, M, done, done + b) /\ m = l + b
        BY <1>5, <1>13, <1>16
    <2>3. ReadAs(far, A, M, done + b, done + b)
        BY <1>0, <1>9, <1>10, <1>17, <2>1, <2>2, ReadDone
    <2> QED
        BY <1>13, <2>3
<1>19. now \in 0..a
    BY <1>0, <1>3, <1>13
<1>20. ReadAs(far, A, M, now, a)
    BY <1>0, <1>18, <1>19 DEF ReadAs
<1>21. Remain(A, <<>>, U, now)
    <2>1. Len(<<>>) = 0 /\ Len(A) = a /\ Len(U) = u
        BY DEF a, u
    <2>2. now + 0 = now
        BY <1>13
    <2>3. \A i \in 1..u : U[i] = A[now + Len(<<>>) + i]
        BY <1>3, <1>13, <2>1, <2>2
    <2> QED
        BY <2>1, <2>3, <1>0, <1>3, <1>13 DEF Remain
<1>22. far \in [1..Len(M) -> 0..Len(A)]
    BY <1>20 DEF ReadAs, a
<1>23. a = IF FALSE THEN now + Len(<<>>) ELSE Len(A)
    BY DEF a
<1>24. SinkKept(A, <<>>, U, M, FALSE, failed)
    BY ZenonT(30), <1>8, <1>13, <1>20, <1>21, <1>22, <1>23, SinkRead
<1> QED
    BY <1>24 DEF M

LEMMA SinkFails ==
    ASSUME NEW T, Torn \notin T, NEW A \in Seq(T), NEW B \in Seq(T), NEW U \in Seq(T), NEW L \in Seq(T \cup {Torn}),
           NEW failed \in BOOLEAN, SinkKept(A, B, U, L, TRUE, failed),
           NEW n \in 0..Len(B), NEW tail \in Seq({Torn})
    PROVE  SinkKept(A, <<>>, B \o U, L \o SubSeq(B, 1, n) \o tail, FALSE, TRUE)
<1> DEFINE a == Len(A) b == Len(B) u == Len(U) l == Len(L) t == Len(tail) M == L \o SubSeq(B, 1, n) \o tail m == Len(M)
<1>0. a \in Nat /\ b \in Nat /\ u \in Nat /\ l \in Nat /\ n \in Nat /\ n <= b
    OBVIOUS
<1>1. PICK done \in Nat :
        /\ Remain(A, B, U, done)
        /\ \E at \in [1..Len(L) -> 0..Len(A)] : ReadAs(at, A, L, done, done + Len(B))
    BY DEF SinkKept
<1>2. PICK at \in [1..Len(L) -> 0..Len(A)] : ReadAs(at, A, L, done, done + Len(B))
    BY <1>1
<1>3. /\ a = done + b + u
      /\ \A i \in 1..b : B[i] = A[done + i]
      /\ \A i \in 1..u : U[i] = A[done + b + i]
    BY <1>1 DEF Remain
<1>4. tail \in Seq(T \cup {Torn}) /\ t \in Nat /\ \A i \in 1..t : tail[i] = Torn
    <2>1. t \in Nat /\ \A i \in 1..t : tail[i] \in {Torn}
        OBVIOUS
    <2>2. tail \in Seq(T \cup {Torn})
        BY SeqMonotonic
    <2> QED
        BY <2>1, <2>2
<1>5. B \in Seq(T \cup {Torn}) /\ U \in Seq(T \cup {Torn})
    BY SeqMonotonic
<1>6. /\ \E C \in Seq(T \cup {Torn}) : M = L \o C
      /\ m = l + n + t
      /\ \A i \in 1..l : M[i] = L[i]
      /\ \A i \in 1..n : M[l + i] = B[i]
      /\ \A i \in 1..t : M[l + n + i] = tail[i]
    <2> DEFINE S == T \cup {Torn}
    <2>1. L \in Seq(S) /\ B \in Seq(S) /\ tail \in Seq(S)
        BY <1>4, <1>5
    <2> HIDE DEF S
    <2> DEFINE E == SubSeq(B, 1, n)
    <2>2. E \in Seq(S) /\ Len(E) = n /\ \A i \in 1..n : E[i] = B[i]
        BY <2>1, <1>0
    <2>3. M = (L \o E) \o tail
        OBVIOUS
    <2> HIDE DEF M, E
    <2>4. FollowEachOther((L \o E) \o tail, L, E, tail, S)
        BY <2>1, <2>2, InARow
    <2>5. FollowEachOther(M, L, E, tail, S)
        BY <2>3, <2>4
    <2> QED
        BY <2>2, <2>5 DEF S, FollowEachOther
<1> HIDE DEF M
<1>7. \A i \in 1..l : Legible(M, i) <=> Legible(L, i)
    BY <1>6, LegibleStays
<1> DEFINE far == [i \in 1..m |-> IF i <= l THEN at[i] ELSE IF i <= l + n THEN done + (i - l) ELSE 0]
<1>8. Len(L) = l /\ Len(M) = m /\ Len(A) = a /\ Len(B) = b /\ Len(U) = u
    OBVIOUS
<1>9. at \in [1..l -> 0..a] /\ ReadAs(at, A, L, done, done + b)
    BY <1>2
<1> HIDE DEF a, b, u, l, m, t
<1>10. m \in Nat /\ l + n <= m
    BY <1>0, <1>4, <1>6
<1>11. \A i \in 1..m : i > l + n => M[i] = Torn
    <2> TAKE i \in 1..m
    <2> HAVE i > l + n
    <2>1. i - (l + n) \in 1..t /\ l + n + (i - (l + n)) = i
        BY <1>0, <1>4, <1>6
    <2> QED
        BY <2>1, <1>4, <1>6
<1>12. \A i \in 1..n : M[l + i] = A[done + i]
    <2>1. \A i \in 1..n : i \in 1..b
        BY <1>0
    <2> QED
        BY <2>1, <1>3, <1>6
<1>13. far \in [1..m -> Int]
    <2>1. \A i \in 1..m : (IF i <= l THEN at[i] ELSE IF i <= l + n THEN done + (i - l) ELSE 0) \in Int
        BY <1>0, <1>9, <1>10
    <2> QED
        BY <2>1
<1>14. \A i \in 1..m : far[i] = IF i <= l THEN at[i] ELSE IF i <= l + n THEN done + (i - l) ELSE 0
    OBVIOUS
<1> HIDE DEF far
<1>15. ReadFurther(far, at, A, L, M, n, done)
    BY <1>6, <1>7, <1>8, <1>11, <1>12, <1>13, <1>14 DEF ReadFurther
<1>16. ReadAs(far, A, M, done, a)
    <2> DEFINE last == done + b
    <2>1. last \in Nat /\ last <= a /\ done + n <= a /\ ReadAs(at, A, L, done, last)
        BY <1>0, <1>3, <1>9
    <2> HIDE DEF last
    <2>2. Len(L) \in Nat /\ Len(M) \in Nat /\ Len(L) + n <= Len(M)
        BY <1>0, <1>8, <1>10
    <2> QED
        BY <1>0, <1>15, <2>1, <2>2, ReadOn
<1> DEFINE W == B \o U
<1>17. Len(W) = b + u /\ \A i \in 1..(b + u) : W[i] = IF i <= b THEN B[i] ELSE U[i - b]
    BY ZenonT(30), <1>8, ConcatProperties
<1> HIDE DEF W
<1>18. \A i \in 1..(b + u) : W[i] = A[done + i]
    <2> TAKE i \in 1..(b + u)
    <2>1. CASE i <= b
        <3>1. i \in 1..b /\ W[i] = B[i]
            BY <2>1, <1>0, <1>17
        <3> QED
            BY <3>1, <1>3
    <2>2. CASE i > b
        <3>1. i - b \in 1..u /\ done + b + (i - b) = done + i
            BY <2>2, <1>0
        <3>2. W[i] = U[i - b]
            BY <2>2, <1>0, <1>17
        <3> QED
            BY <3>1, <3>2, <1>3
    <2> QED
        BY <2>1, <2>2, <1>0
<1>19. Remain(A, <<>>, W, done)
    <2>1. Len(<<>>) = 0 /\ \A i \in 1..0 : FALSE
        OBVIOUS
    <2>2. \A i \in 1..Len(W) : W[i] = A[done + Len(<<>>) + i]
        BY <2>1, <1>17, <1>18
    <2>3. Len(A) = done + Len(<<>>) + Len(W)
        BY <2>1, <1>0, <1>3, <1>8, <1>17
    <2> QED
        BY <2>1, <2>2, <2>3 DEF Remain
<1>20. far \in [1..Len(M) -> 0..Len(A)]
    BY <1>16, <1>8 DEF ReadAs
<1>21. a = (IF FALSE THEN done + Len(<<>>) ELSE Len(A)) /\ (TRUE \/ M \o <<>> \o W = A)
    BY <1>8
<1>22. SinkKept(A, <<>>, W, M, FALSE, TRUE)
    BY <1>16, <1>19, <1>20, <1>21, SinkRead
<1> QED
    BY <1>22 DEF M, W

(* What a sink that is kept says of its file (SinksComplete): all that is  *)
(* in flight or buffered, written once more, reads as all that was         *)
(* accepted.                                                               *)
LEMMA SinkSays ==
    ASSUME NEW T, Torn \notin T, NEW A \in Seq(T), NEW B \in Seq(T), NEW U \in Seq(T), NEW L \in Seq(T \cup {Torn}),
           NEW flows \in BOOLEAN, NEW failed \in BOOLEAN, SinkKept(A, B, U, L, flows, failed)
    PROVE  LET all == L \o B \o U
           IN  (failed \/ all = A) /\ SaysAll(A, all)
<1> DEFINE a == Len(A) b == Len(B) u == Len(U) l == Len(L) D == B \o U M == L \o D m == Len(M)
<1>0. a \in Nat /\ b \in Nat /\ u \in Nat /\ l \in Nat
    OBVIOUS
<1>1. PICK done \in Nat :
        /\ Remain(A, B, U, done)
        /\ \E at \in [1..Len(L) -> 0..Len(A)] : ReadAs(at, A, L, done, IF flows THEN done + Len(B) ELSE Len(A))
        /\ failed \/ L \o B \o U = A
    BY DEF SinkKept
<1>2. PICK at \in [1..Len(L) -> 0..Len(A)] : ReadAs(at, A, L, done, IF flows THEN done + Len(B) ELSE Len(A))
    BY <1>1
<1>3. /\ a = done + b + u
      /\ \A i \in 1..b : B[i] = A[done + i]
      /\ \A i \in 1..u : U[i] = A[done + b + i]
    BY <1>1 DEF Remain
<1>4. B \in Seq(T \cup {Torn}) /\ U \in Seq(T \cup {Torn})
    BY SeqMonotonic
<1>5. M = L \o B \o U
    BY SMTT(30), <1>4, ConcatAssociative
<1>6. D \in Seq(T \cup {Torn}) /\ Len(D) = b + u /\ \A i \in 1..(b + u) : D[i] = IF i <= b THEN B[i] ELSE U[i - b]
    BY <1>4, ConcatProperties
<1> DEFINE c == b + u
<1> HIDE DEF D
<1>7. /\ M \in Seq(T \cup {Torn}) /\ m = l + Len(D)
      /\ \A i \in 1..(l + Len(D)) : M[i] = IF i <= l THEN L[i] ELSE D[i - l]
    BY ZenonT(30), <1>6, ConcatProperties
<1>8. \A i \in 1..l : Legible(M, i) <=> Legible(L, i)
    BY <1>6, LegibleStays
<1> HIDE DEF M
<1> DEFINE far == [i \in 1..m |-> IF i <= l THEN at[i] ELSE IF i <= l + c THEN done + (i - l) ELSE 0]
<1>9. Len(L) = l /\ Len(M) = m /\ Len(A) = a /\ Len(B) = b /\ DOMAIN M = 1..m /\ DOMAIN A = 1..a
    BY <1>7
<1>10. at \in [1..l -> 0..a]
    BY <1>2
<1>11. \A x \in 1..a : A[x] # Torn
    BY Torn \notin T
<1>11a. M \in Seq(T \cup {Torn})
    BY <1>7
<1> HIDE DEF a, b, u, l, m
<1>12. c \in Nat /\ c = b + u /\ m \in Nat /\ m = l + c /\ a = done + c
    BY <1>0, <1>3, <1>6, <1>7
<1> HIDE DEF c
<1>13. \A i \in 1..l : M[i] = L[i]
    <2> TAKE i \in 1..l
    <2>1. i \in 1..(l + Len(D)) /\ i <= l
        BY <1>0, <1>6
    <2> QED
        BY <2>1, <1>7
<1>14. \A i \in 1..c : M[l + i] = A[done + i]
    <2> TAKE i \in 1..c
    <2>1. M[l + i] = D[i]
        <3>1. l + i \in 1..(l + Len(D)) /\ ~(l + i <= l) /\ (l + i) - l = i
            BY <1>0, <1>6, <1>12
        <3> QED
            BY <3>1, <1>7
    <2>2. CASE i <= b
        BY <2>1, <2>2, <1>0, <1>3, <1>6, <1>12
    <2>3. CASE i > b
        <3>1. i - b \in 1..u /\ done + b + (i - b) = done + i
            BY <2>3, <1>0, <1>12
        <3>2. D[i] = U[i - b]
            BY <2>3, <1>0, <1>6, <1>12
        <3> QED
            BY <2>1, <3>1, <3>2, <1>3
    <2> QED
        BY <2>2, <2>3, <1>0
<1>15. \A i \in 1..m : far[i] = IF i <= l THEN at[i] ELSE IF i <= l + c THEN done + (i - l) ELSE 0
    OBVIOUS
<1>16. far \in [1..m -> Int]
    <2>1. \A i \in 1..m : (IF i <= l THEN at[i] ELSE IF i <= l + c THEN done + (i - l) ELSE 0) \in Int
        BY <1>0, <1>10, <1>12
    <2> QED
        BY <2>1
<1> HIDE DEF far
<1>17. ReadFurther(far, at, A, L, M, c, done)
    <2>1. \A i \in 1..m : ~(i > l + c)
        BY <1>0, <1>12
    <2> QED
        BY <2>1, <1>8, <1>9, <1>13, <1>14, <1>15, <1>16 DEF ReadFurther
<1>18. ReadAs(far, A, M, done, a)
    <2> DEFINE last == IF flows THEN done + Len(B) ELSE Len(A)
    <2>1. last \in Nat /\ last <= a /\ ReadAs(at, A, L, done, last)
        BY <1>0, <1>2, <1>3, <1>9
    <2> HIDE DEF last
    <2>2. Len(L) \in Nat /\ Len(M) \in Nat /\ Len(L) + c <= Len(M) /\ done + c <= a
        BY <1>0, <1>9, <1>12
    <2> QED
        BY <1>0, <1>12, <1>17, <2>1, <2>2, ReadOn
<1>19. ReadAs(far, A, M, a, a)
    <2>1. \A i \in 1..c : far[l + i] = done + i
        <3> TAKE i \in 1..c
        <3>1. l + i \in 1..m /\ ~(l + i <= l) /\ l + i <= l + c /\ done + ((l + i) - l) = done + i
            BY <1>0, <1>12
        <3> QED
            BY <3>1, <1>15
    <2>2. ReadAs(far, A, M, done, done + c) /\ \A x \in 1..(done + c) : A[x] # Torn
        BY <1>11, <1>12, <1>18
    <2>3. ReadAs(far, A, M, done + c, done + c)
        BY <1>0, <1>9, <1>12, <2>1, <2>2, ReadDone
    <2> QED
        BY <2>3, <1>12
<1>20. SaysAll(A, M)
    <2>1. a \in Nat /\ m \in Nat /\ Len(M) = m /\ Len(A) = a /\ DOMAIN A = 1..a /\ DOMAIN M = 1..m
        BY <1>0, <1>9, <1>12
    <2> QED
        BY <2>1, <1>11, <1>19, ReadSays
<1> QED
    BY <1>1, <1>5, <1>20

------------------------------------------------------------------------------
(* The parts of lines are told from the records by who wrote them.         *)
LEMMA TornNoRecord == Torn \notin Records
    BY StoreAssumption, ProcessingAssumption DEF Torn, Records

(* A caller that is in no call takes the batch or waits (JsonLineSink.     *)
(* flush).                                                                 *)
LEMMA FlushesCoherent ==
    ASSUME StoreShapes, CallsCoherent, NEW c \in Named, NEW f \in Files, call[c] = Idle,
           NEW pending \in Seq(Records), pending # <<>>, Flushes(c, f, pending)
    PROVE  /\ CallsCoherent'
           /\ buffer' \in [Files -> Seq(Records)] /\ flushing' \in [Files -> [by : Named, batch : Seq(Records)]]
           /\ waiters' \in [Files -> Seq(Named)] /\ call' \in [Named -> InCall]
           /\ \A g \in Files \ {f} : buffer'[g] = buffer[g] /\ flushing'[g] = flushing[g]
           /\ \A d \in Named \ {c} : call'[d] = call[d]
           /\ call'[c] \in [at : {"flush", "wait"}, file : Files]
<1>1. /\ flushing \in [Files -> [by : Named, batch : Seq(Records)]] /\ buffer \in [Files -> Seq(Records)]
      /\ waiters \in [Files -> Seq(Named)] /\ call \in [Named -> InCall]
    BY DEF StoreShapes
<1>2. \A g \in Files :
        /\ flushing[g] # NoFlush => flushing[g].batch # <<>> /\ call[flushing[g].by] = [at |-> "flush", file |-> g]
        /\ \A i \in DOMAIN waiters[g] : flushing[g] # NoFlush /\ call[waiters[g][i]] = [at |-> "wait", file |-> g]
    BY DEF CallsCoherent
<1>3. \A g \in Files : [at |-> "flush", file |-> g] \in InCall /\ [at |-> "wait", file |-> g] \in InCall
    BY DEF InCall
<1>4. \A g \in Files : [at |-> "flush", file |-> g] # Idle /\ [at |-> "wait", file |-> g] # Idle
    BY DEF Idle
<1>5. ASSUME NEW g \in Files, flushing[g] # NoFlush
      PROVE  flushing[g].by # c
    <2>1. call[flushing[g].by] = [at |-> "flush", file |-> g]
        BY <1>2, <1>5
    <2>2. call[flushing[g].by] # call[c]
        BY <1>4, <2>1
    <2> QED
        BY <2>2
<1>6. \A g \in Files : \A i \in DOMAIN waiters[g] : waiters[g][i] # c
    <2> TAKE g \in Files
    <2> TAKE i \in DOMAIN waiters[g]
    <2>1. call[waiters[g][i]] = [at |-> "wait", file |-> g]
        BY <1>2
    <2> QED
        BY <2>1, <1>4
<1>7. \A g \in Files : flushing[g].by \in Named /\ \A i \in DOMAIN waiters[g] : waiters[g][i] \in Named
    BY <1>1
<1>8. CASE flushing[f] # NoFlush
    <2>1. /\ waiters' = [waiters EXCEPT ![f] = Append(@, c)] /\ buffer' = [buffer EXCEPT ![f] = pending]
          /\ call' = [call EXCEPT ![c] = [at |-> "wait", file |-> f]] /\ flushing' = flushing
        BY <1>8 DEF Flushes
    <2>2. /\ buffer' \in [Files -> Seq(Records)] /\ flushing' \in [Files -> [by : Named, batch : Seq(Records)]]
          /\ waiters' \in [Files -> Seq(Named)] /\ call' \in [Named -> InCall]
        <3>1. waiters' \in [Files -> Seq(Named)]
            BY <1>1, <2>1
        <3>2. call' \in [Named -> InCall]
            <4>1. [at |-> "wait", file |-> f] \in InCall
                BY <1>3
            <4> QED
                BY <1>1, <2>1, <4>1
        <3>3. buffer' \in [Files -> Seq(Records)]
            BY <1>1, <2>1
        <3> QED
            BY <1>1, <2>1, <3>1, <3>2, <3>3
    <2>3. \A d \in Named : call'[d] = IF d = c THEN [at |-> "wait", file |-> f] ELSE call[d]
        BY <1>1, <2>1
    <2>4. \A g \in Files : g # f => waiters'[g] = waiters[g]
        BY <1>1, <2>1
    <2>5. \A i \in DOMAIN waiters'[f] :
              (i \in DOMAIN waiters[f] /\ waiters'[f][i] = waiters[f][i]) \/ waiters'[f][i] = c
        <3>1. waiters'[f] = Append(waiters[f], c) /\ waiters[f] \in Seq(Named)
            BY <1>1, <2>1
        <3> QED
            BY <3>1
    <2>6. ASSUME NEW g \in Files, flushing[g] # NoFlush
          PROVE  flushing[g].batch # <<>> /\ call'[flushing[g].by] = [at |-> "flush", file |-> g]
        BY <2>6, <1>2, <1>5, <1>7, <2>3
    <2>7. ASSUME NEW g \in Files, NEW i \in DOMAIN waiters'[g]
          PROVE  flushing[g] # NoFlush /\ call'[waiters'[g][i]] = [at |-> "wait", file |-> g]
        <3>1. CASE g = f
            <4>1. CASE waiters'[f][i] = c
                BY <4>1, <3>1, <2>3, <1>8
            <4>2. CASE i \in DOMAIN waiters[f] /\ waiters'[f][i] = waiters[f][i]
                <5>1. /\ call[waiters[f][i]] = [at |-> "wait", file |-> f] /\ waiters[f][i] # c
                      /\ waiters[f][i] \in Named
                    BY <4>2, <1>2, <1>6, <1>7
                <5> QED
                    BY <5>1, <4>2, <3>1, <2>3, <1>8
            <4> QED
                BY <4>1, <4>2, <3>1, <2>5
        <3>2. CASE g # f
            <4>1. i \in DOMAIN waiters[g] /\ waiters'[g][i] = waiters[g][i]
                BY <3>2, <2>4
            <4>2. /\ flushing[g] # NoFlush
                  /\ call[waiters[g][i]] = [at |-> "wait", file |-> g] /\ waiters[g][i] # c
                  /\ waiters[g][i] \in Named
                BY <4>1, <1>2, <1>6, <1>7
            <4> QED
                BY <4>1, <4>2, <2>3
        <3> QED
            BY <3>1, <3>2
    <2>8. CallsCoherent'
        BY <2>1, <2>6, <2>7 DEF CallsCoherent
    <2>9. call'[c] \in [at : {"flush", "wait"}, file : Files]
        BY <2>3
    <2> QED
        BY <2>1, <2>2, <2>3, <2>8, <2>9, <1>1
<1>9. CASE ~(flushing[f] # NoFlush)
    <2>1. /\ flushing' = [flushing EXCEPT ![f] = [by |-> c, batch |-> pending]]
          /\ buffer' = [buffer EXCEPT ![f] = <<>>]
          /\ call' = [call EXCEPT ![c] = [at |-> "flush", file |-> f]] /\ waiters' = waiters
        BY <1>9 DEF Flushes
    <2>2. /\ buffer' \in [Files -> Seq(Records)] /\ flushing' \in [Files -> [by : Named, batch : Seq(Records)]]
          /\ waiters' \in [Files -> Seq(Named)] /\ call' \in [Named -> InCall]
        <3>1. flushing' \in [Files -> [by : Named, batch : Seq(Records)]]
            <4>1. [by |-> c, batch |-> pending] \in [by : Named, batch : Seq(Records)]
                OBVIOUS
            <4> QED
                BY <1>1, <2>1, <4>1
        <3>2. call' \in [Named -> InCall]
            <4>1. [at |-> "flush", file |-> f] \in InCall
                BY <1>3
            <4> QED
                BY <1>1, <2>1, <4>1
        <3>3. buffer' \in [Files -> Seq(Records)]
            <4>1. <<>> \in Seq(Records)
                OBVIOUS
            <4> QED
                BY <1>1, <2>1, <4>1
        <3> QED
            BY <1>1, <2>1, <3>1, <3>2, <3>3
    <2>3. \A d \in Named : call'[d] = IF d = c THEN [at |-> "flush", file |-> f] ELSE call[d]
        BY <1>1, <2>1
    <2>4. \A g \in Files : flushing'[g] = IF g = f THEN [by |-> c, batch |-> pending] ELSE flushing[g]
        BY <1>1, <2>1
    <2>5. ASSUME NEW g \in Files, flushing'[g] # NoFlush
          PROVE  flushing'[g].batch # <<>> /\ call'[flushing'[g].by] = [at |-> "flush", file |-> g]
        <3>1. CASE g = f
            <4>1. flushing'[f].batch = pending /\ flushing'[f].by = c
                BY <2>4
            <4> QED
                BY <3>1, <4>1, <2>3
        <3>2. CASE g # f
            BY ZenonT(30), <3>2, <2>5, <1>2, <1>5, <1>7, <2>3, <2>4
        <3> QED
            BY <3>1, <3>2
    <2>6. ASSUME NEW g \in Files, NEW i \in DOMAIN waiters[g]
          PROVE  flushing'[g] # NoFlush /\ call'[waiters[g][i]] = [at |-> "wait", file |-> g]
        <3>1. g # f
            BY <1>2, <1>9, <2>6
        <3> QED
            BY <3>1, <1>2, <1>6, <1>7, <2>3, <2>4
    <2>7. CallsCoherent'
        BY <2>1, <2>5, <2>6 DEF CallsCoherent
    <2>8. call'[c] \in [at : {"flush", "wait"}, file : Files]
        BY <2>3
    <2> QED
        BY <2>1, <2>2, <2>3, <2>4, <2>7, <2>8, <1>1
<1> QED
    BY <1>8, <1>9

LEMMA FlushesKept ==
    ASSUME StoreShapes, NEW c \in Named, NEW f \in Files, NEW pending \in Seq(Records), pending # <<>>, Flushes(c, f, pending),
           NEW A \in Seq(Records), SinkKept(A, flushing[f].batch, pending, lines[f], flushing[f] # NoFlush, f \in broken)
    PROVE  SinkKept(A, flushing'[f].batch, buffer'[f], lines[f], flushing'[f] # NoFlush, f \in broken)
<1>1. /\ flushing \in [Files -> [by : Named, batch : Seq(Records)]] /\ buffer \in [Files -> Seq(Records)]
      /\ lines[f] \in Seq(Records \cup {Torn})
    BY DEF StoreShapes
<1>2. CASE flushing[f] # NoFlush
    BY <1>1, <1>2 DEF Flushes
<1>3. CASE ~(flushing[f] # NoFlush)
    <2>1. flushing'[f] = [by |-> c, batch |-> pending] /\ buffer'[f] = <<>>
        BY <1>1, <1>3 DEF Flushes
    <2>2. flushing[f].batch = <<>>
        BY <1>3 DEF NoFlush
    <2>3. flushing'[f].batch = pending /\ flushing'[f] # NoFlush
        BY <2>1 DEF NoFlush
    <2> DEFINE failed == f \in broken
    <2>4. SinkKept(A, <<>>, pending, lines[f], FALSE, failed)
        BY <1>3, <2>2
    <2>5. failed \in BOOLEAN
        OBVIOUS
    <2> HIDE DEF failed
    <2> DEFINE L == lines[f]
    <2>6. L \in Seq(Records \cup {Torn}) /\ SinkKept(A, <<>>, pending, L, FALSE, failed)
        BY <1>1, <2>4
    <2> HIDE DEF L
    <2>7. SinkKept(A, pending, <<>>, L, TRUE, failed)
        BY <2>5, <2>6, SinkStarts
    <2>8. (flushing'[f] # NoFlush) = TRUE
        BY <2>3
    <2> QED
        BY <2>1, <2>3, <2>7, <2>8 DEF failed, L
<1> QED
    BY <1>2, <1>3

(* When an operation on a file is over those who owned it or waited for it *)
(* go on, one of them perhaps with the next, or all of them throw          *)
(* (JsonLineSink.flush).                                                   *)
Resumed(f, was, now) ==
    /\ now \in [Named -> InCall]
    /\ \A d \in Named : now[d] = was[d] \/ was[d] \in [at : {"flush", "wait"}, file : {f}]

LEMMA OthersCoherent ==
    ASSUME StoreShapes, CallsCoherent, NEW f \in Files, Resumed(f, call, call'), NEW g \in Files, g # f
    PROVE  /\ flushing[g] # NoFlush => flushing[g].batch # <<>> /\ call'[flushing[g].by] = [at |-> "flush", file |-> g]
           /\ \A i \in DOMAIN waiters[g] : flushing[g] # NoFlush /\ call'[waiters[g][i]] = [at |-> "wait", file |-> g]
<1>1. /\ flushing[g] \in [by : Named, batch : Seq(Records)] /\ waiters[g] \in Seq(Named)
    BY DEF StoreShapes
<1>2. /\ flushing[g] # NoFlush => flushing[g].batch # <<>> /\ call[flushing[g].by] = [at |-> "flush", file |-> g]
      /\ \A i \in DOMAIN waiters[g] : flushing[g] # NoFlush /\ call[waiters[g][i]] = [at |-> "wait", file |-> g]
    BY DEF CallsCoherent
<1>3. /\ [at |-> "flush", file |-> g] \notin [at : {"flush", "wait"}, file : {f}]
      /\ [at |-> "wait", file |-> g] \notin [at : {"flush", "wait"}, file : {f}]
    <2>1. [at |-> "flush", file |-> g].file # f /\ [at |-> "wait", file |-> g].file # f
        OBVIOUS
    <2> QED
        BY <2>1
<1>4. flushing[g].by \in Named /\ \A i \in DOMAIN waiters[g] : waiters[g][i] \in Named
    BY <1>1
<1>5. \A d \in Named : call'[d] = call[d] \/ call[d] \in [at : {"flush", "wait"}, file : {f}]
    BY DEF Resumed
<1>6. flushing[g] # NoFlush => call'[flushing[g].by] = [at |-> "flush", file |-> g]
    BY <1>2, <1>3, <1>4, <1>5
<1>7. ASSUME NEW i \in DOMAIN waiters[g] PROVE call'[waiters[g][i]] = [at |-> "wait", file |-> g]
    <2>1. call[waiters[g][i]] = [at |-> "wait", file |-> g] /\ waiters[g][i] \in Named
        BY <1>2, <1>4
    <2> QED
        BY <2>1, <1>3, <1>5
<1> QED
    BY <1>2, <1>6, <1>7

LEMMA ContinueCoherent ==
    ASSUME StoreShapes, CallsCoherent, NEW f \in Files, flushing[f] # NoFlush, NEW left \in Seq(Records), Continue(f, left)
    PROVE  /\ CallsCoherent'
           /\ buffer' \in [Files -> Seq(Records)] /\ flushing' \in [Files -> [by : Named, batch : Seq(Records)]]
           /\ waiters' \in [Files -> Seq(Named)] /\ Resumed(f, call, call')
           /\ \A g \in Files \ {f} : buffer'[g] = buffer[g] /\ flushing'[g] = flushing[g]
           /\ \/ flushing'[f] = NoFlush /\ buffer'[f] = left
              \/ flushing'[f] # NoFlush /\ flushing'[f].batch = left /\ buffer'[f] = <<>>
<1>1. /\ flushing \in [Files -> [by : Named, batch : Seq(Records)]] /\ buffer \in [Files -> Seq(Records)]
      /\ waiters \in [Files -> Seq(Named)] /\ call \in [Named -> InCall]
    BY DEF StoreShapes
<1> DEFINE owner == flushing[f].by W == waiters[f]
           taker == IF left # <<>> /\ W # <<>> THEN {Head(W)} ELSE {}
<1>2. /\ call[owner] = [at |-> "flush", file |-> f] /\ owner \in Named
      /\ \A i \in DOMAIN W : call[W[i]] = [at |-> "wait", file |-> f] /\ W[i] \in Named
    <2>1. owner \in Named /\ W \in Seq(Named)
        BY <1>1
    <2> QED
        BY <2>1 DEF CallsCoherent
<1>3. taker \subseteq ToSet(W)
    <2>1. W \in Seq(Named)
        BY <1>1
    <2>2. W # <<>> => Head(W) = W[1] /\ 1 \in DOMAIN W
        BY <2>1
    <2> QED
        BY <2>2 DEF ToSet
<1>4. /\ flushing' = [flushing EXCEPT ![f] = IF taker = {} THEN NoFlush ELSE [by |-> Head(W), batch |-> left]]
      /\ buffer' = [buffer EXCEPT ![f] = IF taker = {} THEN left ELSE <<>>]
      /\ waiters' = [waiters EXCEPT ![f] = <<>>]
      /\ call' = [c \in DOMAIN call |->
                      CASE c \in taker -> [at |-> "flush", file |-> f]
                        [] c \notin taker /\ (c = owner \/ c \in ToSet(waiters[f])) -> Idle
                        [] OTHER -> call[c]]
    BY DEF Continue
<1>5. \A d \in ToSet(W) : call[d] = [at |-> "wait", file |-> f] /\ d \in Named
    BY <1>2 DEF ToSet
<1>6. taker # {} => left # <<>> /\ W # <<>> /\ taker = {Head(W)} /\ Head(W) \in Named
    BY <1>3, <1>5
<1>7. NoFlush \in [by : Named, batch : Seq(Records)]
    BY DEF NoFlush, Named
<1> HIDE DEF taker, owner, W
<1>8. \A d \in Named :
        call'[d] = IF d \in taker THEN [at |-> "flush", file |-> f] ELSE IF d = owner \/ d \in ToSet(W) THEN Idle ELSE call[d]
    BY <1>1, <1>4 DEF W
<1>9. Resumed(f, call, call')
    <2>1. [at |-> "flush", file |-> f] \in InCall /\ Idle \in InCall
        BY DEF InCall
    <2>2. DOMAIN call' = Named /\ call' = [d \in DOMAIN call' |-> call'[d]]
        BY <1>1, <1>4
    <2>3. \A d \in Named : call'[d] \in InCall
        BY <1>1, <1>8, <2>1
    <2>4. call' \in [Named -> InCall]
        BY <2>2, <2>3
    <2>5. ASSUME NEW d \in Named, call'[d] # call[d] PROVE call[d] \in [at : {"flush", "wait"}, file : {f}]
        <3>1. d \in taker \/ d = owner \/ d \in ToSet(W)
            BY <1>8, <2>5
        <3>2. call[d] = [at |-> "flush", file |-> f] \/ call[d] = [at |-> "wait", file |-> f]
            BY <3>1, <1>2, <1>3, <1>5
        <3> QED
            BY <3>2
    <2> QED
        BY <2>4, <2>5 DEF Resumed
<1>10. waiters' \in [Files -> Seq(Named)] /\ waiters'[f] = <<>> /\ \A g \in Files : g # f => waiters'[g] = waiters[g]
    <2>1. <<>> \in Seq(Named)
        OBVIOUS
    <2> QED
        BY <1>1, <1>4, <2>1
<1>11. \A g \in Files : g # f => buffer'[g] = buffer[g] /\ flushing'[g] = flushing[g]
    BY <1>1, <1>4
<1>12. CASE taker = {}
    <2>1. flushing' = [flushing EXCEPT ![f] = NoFlush] /\ buffer' = [buffer EXCEPT ![f] = left]
        BY <1>4, <1>12
    <2>2. flushing' \in [Files -> [by : Named, batch : Seq(Records)]] /\ buffer' \in [Files -> Seq(Records)]
        BY <1>1, <1>7, <2>1
    <2>3. flushing'[f] = NoFlush /\ buffer'[f] = left
        BY <1>1, <2>1
    <2>4. ASSUME NEW g \in Files
          PROVE  /\ flushing'[g] # NoFlush => flushing'[g].batch # <<>> /\ call'[flushing'[g].by] = [at |-> "flush", file |-> g]
                 /\ \A i \in DOMAIN waiters'[g] : flushing'[g] # NoFlush /\ call'[waiters'[g][i]] = [at |-> "wait", file |-> g]
        <3>1. CASE g = f
            <4>1. DOMAIN waiters'[f] = {}
                BY <1>10
            <4> QED
                BY <2>3, <3>1, <4>1
        <3>2. CASE g # f
            <4>1. flushing'[g] = flushing[g] /\ waiters'[g] = waiters[g]
                BY <3>2, <1>10, <1>11
            <4> QED
                BY <3>2, <4>1, <1>9, OthersCoherent
        <3> QED
            BY <3>1, <3>2
    <2>5. CallsCoherent'
        BY <2>4 DEF CallsCoherent
    <2> QED
        BY <1>9, <1>10, <1>11, <2>2, <2>3, <2>5
<1>13. CASE taker # {}
    <2> DEFINE next == [by |-> Head(W), batch |-> left]
    <2>1. flushing' = [flushing EXCEPT ![f] = next] /\ buffer' = [buffer EXCEPT ![f] = <<>>]
        BY <1>4, <1>13
    <2>2. next \in [by : Named, batch : Seq(Records)] /\ <<>> \in Seq(Records)
        BY <1>6, <1>13
    <2>2a. next.batch = left /\ next.by = Head(W) /\ next # NoFlush
        BY <1>6, <1>13 DEF NoFlush
    <2> HIDE DEF next
    <2>3. flushing' \in [Files -> [by : Named, batch : Seq(Records)]] /\ buffer' \in [Files -> Seq(Records)]
        BY <1>1, <2>1, <2>2
    <2>4. flushing'[f] = next /\ buffer'[f] = <<>>
        BY <1>1, <2>1
    <2>5. call'[Head(W)] = [at |-> "flush", file |-> f]
        BY <1>6, <1>8, <1>13
    <2>6. ASSUME NEW g \in Files
          PROVE  /\ flushing'[g] # NoFlush => flushing'[g].batch # <<>> /\ call'[flushing'[g].by] = [at |-> "flush", file |-> g]
                 /\ \A i \in DOMAIN waiters'[g] : flushing'[g] # NoFlush /\ call'[waiters'[g][i]] = [at |-> "wait", file |-> g]
        <3>1. CASE g = f
            <4>1. DOMAIN waiters'[f] = {}
                BY <1>10
            <4> QED
                BY <1>6, <1>13, <2>2a, <2>4, <2>5, <3>1, <4>1
        <3>2. CASE g # f
            <4>1. flushing'[g] = flushing[g] /\ waiters'[g] = waiters[g]
                BY <3>2, <1>10, <1>11
            <4> QED
                BY <3>2, <4>1, <1>9, OthersCoherent
        <3> QED
            BY <3>1, <3>2
    <2>7. CallsCoherent'
        BY <2>6 DEF CallsCoherent
    <2> QED
        BY <1>9, <1>10, <1>11, <2>2a, <2>3, <2>4, <2>7
<1> QED
    BY <1>12, <1>13

------------------------------------------------------------------------------
(* One step of a caller or of a file operation keeps the store coherent    *)
(* (FileSystemStore).                                                      *)
LEMMA StoreBegins ==
    ASSUME StoreInit, flushEvery \in Nat
    PROVE  StoreInv
<1>1. /\ accepted = [f \in Files |-> <<>>] /\ buffer = [f \in Files |-> <<>>]
      /\ flushing = [f \in Files |-> NoFlush] /\ waiters = [f \in Files |-> <<>>]
      /\ closed = {} /\ lines = [f \in Files |-> <<>>] /\ broken = {}
      /\ object = [x \in Contents |-> "none"]
      /\ call = [c \in Callers \cup {Closer} |-> Idle]
      /\ faults = MaxFaults
    BY DEF StoreInit
<1>2. StoreShapes
    <2>1. NoFlush \in [by : Named, batch : Seq(Records)] /\ Idle \in InCall
        BY DEF NoFlush, Named, InCall
    <2>2. <<>> \in Seq(Records) /\ <<>> \in Seq(Named) /\ <<>> \in Seq(Records \cup {Torn})
        OBVIOUS
    <2>3. flushing \in [Files -> [by : Named, batch : Seq(Records)]]
        BY <1>1, <2>1
    <2>4. call \in [Named -> InCall]
        BY <1>1, <2>1 DEF Named
    <2>5. faults \in 0..MaxFaults
        BY <1>1, StoreAssumption
    <2> QED
        BY <1>1, <2>2, <2>3, <2>4, <2>5 DEF StoreShapes
<1>3. CallsCoherent
    <2> SUFFICES ASSUME NEW f \in Files PROVE flushing[f] = NoFlush /\ DOMAIN waiters[f] = {}
        BY DEF CallsCoherent
    <2> QED
        BY <1>1
<1>4. Sinks
    <2> SUFFICES ASSUME NEW f \in Files
                 PROVE  SinkKept(accepted[f], flushing[f].batch, buffer[f], lines[f], flushing[f] # NoFlush, f \in broken)
        BY DEF Sinks
    <2>1. accepted[f] = <<>> /\ flushing[f].batch = <<>> /\ buffer[f] = <<>> /\ lines[f] = <<>>
        BY <1>1 DEF NoFlush
    <2>2. (flushing[f] # NoFlush) = FALSE /\ (f \in broken) = FALSE
        BY <1>1
    <2> QED
        BY <2>1, <2>2, SinkBegins
<1> QED
    BY <1>2, <1>3, <1>4 DEF StoreInv

LEMMA WriteKept ==
    ASSUME StoreInv, NEW c \in Named, NEW f \in Files, NEW record \in Records, call[c] = Idle, Write(c, f, record)
    PROVE  /\ StoreInv'
           /\ \A d \in Named \ {c} : call'[d] = call[d]
           /\ call'[c] = Idle \/ call'[c] \in [at : {"flush", "wait"}, file : Files]
<1>1. StoreShapes /\ CallsCoherent /\ Sinks
    BY DEF StoreInv
<1>2. /\ flushing \in [Files -> [by : Named, batch : Seq(Records)]] /\ buffer \in [Files -> Seq(Records)]
      /\ waiters \in [Files -> Seq(Named)] /\ call \in [Named -> InCall] /\ accepted \in [Files -> Seq(Records)]
      /\ lines \in [Files -> Seq(Records \cup {Torn})]
    BY <1>1 DEF StoreShapes
<1> DEFINE pending == Append(buffer[f], record) more == Append(accepted[f], record)
<1>3. pending \in Seq(Records) /\ pending # <<>> /\ more \in Seq(Records)
    <2>1. buffer[f] \in Seq(Records) /\ accepted[f] \in Seq(Records)
        BY <1>2
    <2>2. /\ pending \in Seq(Records) /\ more \in Seq(Records)
          /\ Len(pending) = Len(buffer[f]) + 1 /\ Len(buffer[f]) \in Nat
        BY <2>1
    <2>3. Len(pending) # 0
        BY <2>2
    <2> HIDE DEF pending, more
    <2> QED
        BY <2>2, <2>3
<1>4. accepted' = [accepted EXCEPT ![f] = more] /\ UNCHANGED <<flushEvery, closed, lines, broken, object, faults>>
    BY DEF Write
<1>5. /\ accepted' \in [Files -> Seq(Records)] /\ accepted'[f] = more
      /\ \A g \in Files : g # f => accepted'[g] = accepted[g]
    BY <1>2, <1>3, <1>4
<1>6. SinkKept(more, flushing[f].batch, pending, lines[f], flushing[f] # NoFlush, f \in broken)
    <2> DEFINE A == accepted[f] B == flushing[f].batch U == buffer[f] L == lines[f]
               flows == flushing[f] # NoFlush failed == f \in broken
    <2>1. A \in Seq(Records) /\ B \in Seq(Records) /\ U \in Seq(Records) /\ L \in Seq(Records \cup {Torn})
        BY <1>2
    <2>2. flows \in BOOLEAN /\ failed \in BOOLEAN
        OBVIOUS
    <2>3. SinkKept(A, B, U, L, flows, failed)
        BY <1>1 DEF Sinks
    <2> HIDE DEF A, B, U, L, flows, failed
    <2>4. SinkKept(Append(A, record), B, Append(U, record), L, flows, failed)
        BY <2>1, <2>2, <2>3, SinkGrows
    <2> QED
        BY <2>4 DEF A, B, U, L, flows, failed
<1> HIDE DEF pending, more
<1>7. CASE Len(buffer[f]) + 1 >= flushEvery
    <2>1. Flushes(c, f, pending)
        BY <1>7 DEF Write, pending
    <2>2. /\ CallsCoherent'
          /\ buffer' \in [Files -> Seq(Records)] /\ flushing' \in [Files -> [by : Named, batch : Seq(Records)]]
          /\ waiters' \in [Files -> Seq(Named)] /\ call' \in [Named -> InCall]
          /\ \A g \in Files \ {f} : buffer'[g] = buffer[g] /\ flushing'[g] = flushing[g]
          /\ \A d \in Named \ {c} : call'[d] = call[d]
          /\ call'[c] \in [at : {"flush", "wait"}, file : Files]
        BY <1>1, <1>3, <2>1, FlushesCoherent
    <2>3. SinkKept(more, flushing'[f].batch, buffer'[f], lines[f], flushing'[f] # NoFlush, f \in broken)
        BY <1>1, <1>3, <1>6, <2>1, FlushesKept
    <2>4. ASSUME NEW g \in Files
          PROVE  SinkKept(accepted'[g], flushing'[g].batch, buffer'[g], lines'[g], flushing'[g] # NoFlush, g \in broken')
        <3>1. CASE g = f
            BY <3>1, <1>4, <1>5, <2>3
        <3>2. CASE g # f
            <4>1. /\ accepted'[g] = accepted[g] /\ flushing'[g] = flushing[g]
                  /\ buffer'[g] = buffer[g] /\ lines' = lines /\ broken' = broken
                BY <3>2, <1>4, <1>5, <2>2
            <4>2. SinkKept(accepted[g], flushing[g].batch, buffer[g], lines[g], flushing[g] # NoFlush, g \in broken)
                BY <1>1 DEF Sinks
            <4> QED
                BY <4>1, <4>2
        <3> QED
            BY <3>1, <3>2
    <2>5. StoreShapes'
        BY <1>1, <1>4, <1>5, <2>2 DEF StoreShapes
    <2>6. Sinks'
        BY <2>4 DEF Sinks
    <2> QED
        BY <2>2, <2>5, <2>6 DEF StoreInv
<1>8. CASE ~(Len(buffer[f]) + 1 >= flushEvery)
    <2>1. buffer' = [buffer EXCEPT ![f] = pending] /\ UNCHANGED <<flushing, waiters, call>>
        BY <1>8 DEF Write, pending
    <2>2. /\ buffer' \in [Files -> Seq(Records)] /\ buffer'[f] = pending
          /\ \A g \in Files : g # f => buffer'[g] = buffer[g]
        BY <1>2, <1>3, <2>1
    <2>3. ASSUME NEW g \in Files
          PROVE  SinkKept(accepted'[g], flushing'[g].batch, buffer'[g], lines'[g], flushing'[g] # NoFlush, g \in broken')
        <3>0. flushing' = flushing /\ lines' = lines /\ broken' = broken
            BY <1>4, <2>1
        <3>1. CASE g = f
            BY <3>0, <3>1, <1>5, <1>6, <2>2
        <3>2. CASE g # f
            <4>1. accepted'[g] = accepted[g] /\ buffer'[g] = buffer[g]
                BY <3>2, <1>5, <2>2
            <4>2. SinkKept(accepted[g], flushing[g].batch, buffer[g], lines[g], flushing[g] # NoFlush, g \in broken)
                BY <1>1 DEF Sinks
            <4> QED
                BY <3>0, <4>1, <4>2
        <3> QED
            BY <3>1, <3>2
    <2>4. StoreShapes'
        BY <1>1, <1>4, <1>5, <2>1, <2>2 DEF StoreShapes
    <2>5. Sinks'
        BY <2>3 DEF Sinks
    <2>6. CallsCoherent'
        BY <1>1, <2>1 DEF CallsCoherent
    <2> QED
        BY <2>1, <2>4, <2>5, <2>6 DEF StoreInv
<1> QED
    BY <1>7, <1>8

LEMMA CloseSinksKept ==
    ASSUME StoreInv, CloseSinks
    PROVE  StoreInv' /\ UNCHANGED <<accepted, object>> /\ \A d \in Named \ {Closer} : call'[d] = call[d]
<1>1. StoreShapes /\ CallsCoherent /\ Sinks
    BY DEF StoreInv
<1>2. call[Closer] = Idle /\ UNCHANGED <<flushEvery, accepted, lines, broken, object, faults>> /\ Closer \in Named
    BY DEF CloseSinks, Named
<1> DEFINE open == Files \ closed
           full == {f \in open : buffer[f] # <<>>}
<1>3. CASE full = {}
    <2>1. closed' = Files /\ UNCHANGED <<buffer, flushing, waiters, call>>
        BY <1>3 DEF CloseSinks
    <2>2. StoreShapes'
        BY <1>1, <1>2, <2>1 DEF StoreShapes
    <2>3. CallsCoherent'
        BY <1>1, <2>1 DEF CallsCoherent
    <2>4. Sinks'
        BY <1>1, <1>2, <2>1 DEF Sinks
    <2> QED
        BY <1>2, <2>1, <2>2, <2>3, <2>4 DEF StoreInv
<1>4. CASE full # {}
    <2>1. PICK f \in full : Flushes(Closer, f, buffer[f]) /\ UNCHANGED closed
        <3> DEFINE f == CHOOSE f \in full : TRUE
        <3>1. f \in full
            BY <1>4
        <3>2. Flushes(Closer, f, buffer[f]) /\ UNCHANGED closed
            BY <1>4 DEF CloseSinks
        <3> QED
            BY <3>1, <3>2
    <2>2. f \in Files /\ buffer[f] # <<>>
        OBVIOUS
    <2> DEFINE pending == buffer[f] A == accepted[f]
    <2>3. pending \in Seq(Records) /\ pending # <<>> /\ A \in Seq(Records)
        BY <1>1, <2>2 DEF StoreShapes
    <2>4. SinkKept(A, flushing[f].batch, pending, lines[f], flushing[f] # NoFlush, f \in broken)
        BY <1>1, <2>2 DEF Sinks
    <2>5. Flushes(Closer, f, pending)
        BY <2>1
    <2> HIDE DEF pending, full, open
    <2>6. /\ CallsCoherent'
          /\ buffer' \in [Files -> Seq(Records)] /\ flushing' \in [Files -> [by : Named, batch : Seq(Records)]]
          /\ waiters' \in [Files -> Seq(Named)] /\ call' \in [Named -> InCall]
          /\ \A g \in Files \ {f} : buffer'[g] = buffer[g] /\ flushing'[g] = flushing[g]
          /\ \A d \in Named \ {Closer} : call'[d] = call[d]
        BY <1>1, <1>2, <2>2, <2>3, <2>5, FlushesCoherent
    <2>7. SinkKept(A, flushing'[f].batch, buffer'[f], lines[f], flushing'[f] # NoFlush, f \in broken)
        BY <1>1, <1>2, <2>2, <2>3, <2>4, <2>5, FlushesKept
    <2>8. ASSUME NEW g \in Files
          PROVE  SinkKept(accepted'[g], flushing'[g].batch, buffer'[g], lines'[g], flushing'[g] # NoFlush, g \in broken')
        <3>1. CASE g = f
            BY <3>1, <1>2, <2>7
        <3>2. CASE g # f
            <4>1. /\ accepted' = accepted /\ flushing'[g] = flushing[g]
                  /\ buffer'[g] = buffer[g] /\ lines' = lines /\ broken' = broken
                BY <3>2, <1>2, <2>6
            <4>2. SinkKept(accepted[g], flushing[g].batch, buffer[g], lines[g], flushing[g] # NoFlush, g \in broken)
                BY <1>1 DEF Sinks
            <4> QED
                BY <4>1, <4>2
        <3> QED
            BY <3>1, <3>2
    <2>9. StoreShapes'
        BY <1>1, <1>2, <2>1, <2>6 DEF StoreShapes
    <2>10. Sinks'
        BY <2>8 DEF Sinks
    <2> QED
        BY <1>2, <2>6, <2>9, <2>10 DEF StoreInv
<1> QED
    BY <1>3, <1>4

LEMMA FlushEndsKept ==
    ASSUME StoreInv, NEW f \in Files, FlushEnds(f)
    PROVE  StoreInv' /\ UNCHANGED <<accepted, object>> /\ Resumed(f, call, call')
<1>1. StoreShapes /\ CallsCoherent /\ Sinks
    BY DEF StoreInv
<1>2. /\ flushing \in [Files -> [by : Named, batch : Seq(Records)]] /\ buffer \in [Files -> Seq(Records)]
      /\ accepted \in [Files -> Seq(Records)] /\ lines \in [Files -> Seq(Records \cup {Torn})]
    BY <1>1 DEF StoreShapes
<1>3. /\ flushing[f] # NoFlush /\ lines' = [lines EXCEPT ![f] = @ \o flushing[f].batch] /\ Continue(f, buffer[f])
      /\ UNCHANGED <<flushEvery, accepted, closed, broken, object, faults>>
    BY DEF FlushEnds
<1> DEFINE A == accepted[f] B == flushing[f].batch U == buffer[f] L == lines[f] failed == f \in broken M == L \o B
<1>4. /\ A \in Seq(Records) /\ B \in Seq(Records) /\ U \in Seq(Records)
      /\ L \in Seq(Records \cup {Torn}) /\ failed \in BOOLEAN
    BY <1>2
<1>5. SinkKept(A, B, U, L, TRUE, failed)
    <2>1. (flushing[f] # NoFlush) = TRUE
        BY <1>3
    <2>2. SinkKept(A, B, U, L, flushing[f] # NoFlush, failed)
        BY <1>1 DEF Sinks
    <2> QED
        BY <2>1, <2>2
<1>6. /\ CallsCoherent'
      /\ buffer' \in [Files -> Seq(Records)] /\ flushing' \in [Files -> [by : Named, batch : Seq(Records)]]
      /\ waiters' \in [Files -> Seq(Named)] /\ Resumed(f, call, call')
      /\ \A g \in Files \ {f} : buffer'[g] = buffer[g] /\ flushing'[g] = flushing[g]
      /\ \/ flushing'[f] = NoFlush /\ buffer'[f] = U
         \/ flushing'[f] # NoFlush /\ flushing'[f].batch = U /\ buffer'[f] = <<>>
    <2> HIDE DEF U
    <2>1. Continue(f, U)
        BY <1>3 DEF U
    <2> QED
        BY <1>1, <1>3, <1>4, <2>1, ContinueCoherent
<1>7. lines' = [lines EXCEPT ![f] = M]
    BY <1>2, <1>3
<1> HIDE DEF A, B, U, L, failed
<1>8. M \in Seq(Records \cup {Torn})
    <2>1. B \in Seq(Records \cup {Torn})
        BY <1>4, SeqMonotonic
    <2> QED
        BY <1>4, <2>1, ConcatProperties
<1>9. SinkKept(A, <<>>, U, M, FALSE, failed)
    BY <1>4, <1>5, TornNoRecord, SinkEnds
<1> HIDE DEF M
<1>10. /\ lines' \in [Files -> Seq(Records \cup {Torn})] /\ lines'[f] = M
       /\ \A g \in Files : g # f => lines'[g] = lines[g]
    BY <1>2, <1>7, <1>8
<1>11. SinkKept(A, flushing'[f].batch, buffer'[f], M, flushing'[f] # NoFlush, failed)
    <2>1. CASE flushing'[f] = NoFlush /\ buffer'[f] = U
        <3>1. flushing'[f].batch = <<>> /\ (flushing'[f] # NoFlush) = FALSE
            BY <2>1 DEF NoFlush
        <3> QED
            BY <2>1, <3>1, <1>9
    <2>2. CASE flushing'[f] # NoFlush /\ flushing'[f].batch = U /\ buffer'[f] = <<>>
        <3>1. SinkKept(A, U, <<>>, M, TRUE, failed)
            BY <1>4, <1>8, <1>9, SinkStarts
        <3>2. (flushing'[f] # NoFlush) = TRUE
            BY <2>2
        <3> QED
            BY <2>2, <3>1, <3>2
    <2> QED
        BY <1>6, <2>1, <2>2
<1>12. ASSUME NEW g \in Files
       PROVE  SinkKept(accepted'[g], flushing'[g].batch, buffer'[g], lines'[g], flushing'[g] # NoFlush, g \in broken')
    <2>0. accepted' = accepted /\ broken' = broken
        BY <1>3
    <2>1. CASE g = f
        BY <2>0, <2>1, <1>10, <1>11 DEF A, failed
    <2>2. CASE g # f
        <3>1. flushing'[g] = flushing[g] /\ buffer'[g] = buffer[g] /\ lines'[g] = lines[g]
            BY <2>2, <1>6, <1>10
        <3>2. SinkKept(accepted[g], flushing[g].batch, buffer[g], lines[g], flushing[g] # NoFlush, g \in broken)
            BY <1>1 DEF Sinks
        <3> QED
            BY <2>0, <3>1, <3>2
    <2> QED
        BY <2>1, <2>2
<1>13. StoreShapes'
    BY <1>1, <1>3, <1>6, <1>10 DEF StoreShapes, Resumed
<1>14. Sinks'
    BY <1>12 DEF Sinks
<1> QED
    BY <1>3, <1>6, <1>13, <1>14 DEF StoreInv

LEMMA FlushFailsKept ==
    ASSUME StoreInv, NEW f \in Files, FlushFails(f)
    PROVE  StoreInv' /\ UNCHANGED <<accepted, object>> /\ Resumed(f, call, call')
<1>1. StoreShapes /\ CallsCoherent /\ Sinks
    BY DEF StoreInv
<1>2. /\ flushing \in [Files -> [by : Named, batch : Seq(Records)]] /\ buffer \in [Files -> Seq(Records)]
      /\ accepted \in [Files -> Seq(Records)] /\ lines \in [Files -> Seq(Records \cup {Torn})]
      /\ waiters \in [Files -> Seq(Named)] /\ call \in [Named -> InCall] /\ faults \in 0..MaxFaults /\ broken \subseteq Files
    BY <1>1 DEF StoreShapes
<1>3. /\ flushing[f] # NoFlush /\ faults > 0
      /\ buffer' = [buffer EXCEPT ![f] = flushing[f].batch \o @]
      /\ flushing' = [flushing EXCEPT ![f] = NoFlush]
      /\ call' = [c \in DOMAIN call |-> IF c = flushing[f].by \/ c \in ToSet(waiters[f]) THEN Threw ELSE call[c]]
      /\ waiters' = [waiters EXCEPT ![f] = <<>>]
      /\ broken' = broken \cup {f}
      /\ faults' = faults - 1
      /\ UNCHANGED <<flushEvery, accepted, closed, object>>
    BY DEF FlushFails, CanFail
<1> DEFINE A == accepted[f] B == flushing[f].batch U == buffer[f] L == lines[f] failed == f \in broken W == B \o U
<1>4. /\ A \in Seq(Records) /\ B \in Seq(Records) /\ U \in Seq(Records)
      /\ L \in Seq(Records \cup {Torn}) /\ failed \in BOOLEAN
    BY <1>2
<1>5. SinkKept(A, B, U, L, TRUE, failed)
    <2>1. (flushing[f] # NoFlush) = TRUE
        BY <1>3
    <2>2. SinkKept(A, B, U, L, flushing[f] # NoFlush, failed)
        BY <1>1 DEF Sinks
    <2> QED
        BY <2>1, <2>2
<1>6. PICK n \in 0..Len(B), tail \in {<<>>, <<Torn>>} : lines' = [lines EXCEPT ![f] = @ \o SubSeq(B, 1, n) \o tail]
    BY DEF FlushFails
<1>7. tail \in Seq({Torn})
    <2> DEFINE torn == Torn
    <2>1. <<>> \in Seq({torn}) /\ <<torn>> \in Seq({torn})
        <3> HIDE DEF torn
        <3> QED
            OBVIOUS
    <2> QED
        BY <2>1
<1> DEFINE M == L \o SubSeq(B, 1, n) \o tail
<1>8. lines' = [lines EXCEPT ![f] = M] /\ buffer' = [buffer EXCEPT ![f] = W]
    BY <1>2, <1>3, <1>6
<1> HIDE DEF A, B, U, L, failed
<1>9. W \in Seq(Records)
    BY <1>4, ConcatProperties
<1>10. M \in Seq(Records \cup {Torn})
    <2> DEFINE S == Records \cup {Torn} E == SubSeq(B, 1, n)
    <2>1. L \in Seq(S) /\ E \in Seq(S) /\ tail \in Seq(S)
        <3>1. E \in Seq(Records)
            BY <1>4
        <3> HIDE DEF E
        <3>2. E \in Seq(Records \cup {Torn}) /\ tail \in Seq(Records \cup {Torn})
            BY <1>7, <3>1, SeqMonotonic
        <3> QED
            BY <1>4, <3>2
    <2>2. M = (L \o E) \o tail
        OBVIOUS
    <2> HIDE DEF S, E, M
    <2>3. FollowEachOther((L \o E) \o tail, L, E, tail, S)
        BY <2>1, InARow
    <2> QED
        BY <2>2, <2>3 DEF S, FollowEachOther
<1>11. SinkKept(A, <<>>, W, M, FALSE, TRUE)
    BY <1>4, <1>5, <1>7, TornNoRecord, SinkFails
<1> HIDE DEF M, W
<1>12. /\ lines' \in [Files -> Seq(Records \cup {Torn})] /\ lines'[f] = M
       /\ \A g \in Files : g # f => lines'[g] = lines[g]
       /\ buffer' \in [Files -> Seq(Records)] /\ buffer'[f] = W /\ \A g \in Files : g # f => buffer'[g] = buffer[g]
    BY <1>2, <1>8, <1>9, <1>10
<1>13. /\ flushing' \in [Files -> [by : Named, batch : Seq(Records)]] /\ flushing'[f] = NoFlush
       /\ \A g \in Files : g # f => flushing'[g] = flushing[g]
    <2>1. NoFlush \in [by : Named, batch : Seq(Records)]
        BY DEF NoFlush, Named
    <2> QED
        BY <1>2, <1>3, <2>1
<1>14. waiters' \in [Files -> Seq(Named)] /\ waiters'[f] = <<>> /\ \A g \in Files : g # f => waiters'[g] = waiters[g]
    <2>1. <<>> \in Seq(Named)
        OBVIOUS
    <2> QED
        BY <1>2, <1>3, <2>1
<1>15. Resumed(f, call, call')
    <2> DEFINE owner == flushing[f].by V == waiters[f]
    <2>1. \A d \in ToSet(V) : call[d] = [at |-> "wait", file |-> f]
        BY ZenonT(30), <1>1 DEF CallsCoherent, ToSet
    <2>2. call[owner] = [at |-> "flush", file |-> f]
        BY <1>1, <1>3 DEF CallsCoherent
    <2>3. \A d \in Named : call'[d] = IF d = owner \/ d \in ToSet(V) THEN Threw ELSE call[d]
        BY <1>2, <1>3
    <2>4. DOMAIN call' = Named /\ call' = [d \in DOMAIN call' |-> call'[d]]
        BY <1>2, <1>3
    <2> HIDE DEF owner, V
    <2>5. \A d \in Named : call'[d] \in InCall
        <3>1. Threw \in InCall
            BY DEF InCall
        <3> QED
            BY <1>2, <2>3, <3>1
    <2>6. call' \in [Named -> InCall]
        BY <2>4, <2>5
    <2>7. \A d \in Named : call'[d] = call[d] \/ call[d] \in [at : {"flush", "wait"}, file : {f}]
        BY <2>1, <2>2, <2>3
    <2> QED
        BY <2>6, <2>7 DEF Resumed
<1>16. ASSUME NEW g \in Files
       PROVE  SinkKept(accepted'[g], flushing'[g].batch, buffer'[g], lines'[g], flushing'[g] # NoFlush, g \in broken')
    <2>0. accepted' = accepted /\ broken' = broken \cup {f}
        BY <1>3
    <2>1. CASE g = f
        <3>1. flushing'[f].batch = <<>> /\ (flushing'[f] # NoFlush) = FALSE /\ (f \in broken') = TRUE
            BY <1>13, <2>0 DEF NoFlush
        <3>2. accepted'[f] = A
            BY <2>0 DEF A
        <3> QED
            BY <2>1, <3>1, <3>2, <1>11, <1>12
    <2>2. CASE g # f
        <3>1. /\ flushing'[g] = flushing[g] /\ buffer'[g] = buffer[g]
              /\ lines'[g] = lines[g] /\ (g \in broken') = (g \in broken)
            BY <2>0, <2>2, <1>12, <1>13
        <3>2. SinkKept(accepted[g], flushing[g].batch, buffer[g], lines[g], flushing[g] # NoFlush, g \in broken)
            BY <1>1 DEF Sinks
        <3> QED
            BY <2>0, <3>1, <3>2
    <2> QED
        BY <2>1, <2>2
<1>17. CallsCoherent'
    <2> SUFFICES ASSUME NEW g \in Files
                 PROVE  /\ flushing'[g] # NoFlush => flushing'[g].batch # <<>> /\ call'[flushing'[g].by] = [at |-> "flush", file |-> g]
                        /\ \A i \in DOMAIN waiters'[g] : flushing'[g] # NoFlush /\ call'[waiters'[g][i]] = [at |-> "wait", file |-> g]
        BY DEF CallsCoherent
    <2>1. CASE g = f
        <3>1. DOMAIN waiters'[f] = {}
            BY <1>14
        <3> QED
            BY <2>1, <3>1, <1>13
    <2>2. CASE g # f
        <3>1. flushing'[g] = flushing[g] /\ waiters'[g] = waiters[g]
            BY <2>2, <1>13, <1>14
        <3> QED
            BY <2>2, <3>1, <1>1, <1>15, OthersCoherent
    <2> QED
        BY <2>1, <2>2
<1>18. StoreShapes'
    <2>1. faults' \in 0..MaxFaults /\ broken' \subseteq Files
        <3>1. MaxFaults \in Nat
            BY StoreAssumption
        <3> QED
            BY <1>2, <1>3, <3>1
    <2> QED
        BY <1>1, <1>3, <1>12, <1>13, <1>14, <1>15, <2>1 DEF StoreShapes, Resumed
<1>19. Sinks'
    BY <1>16 DEF Sinks
<1> QED
    BY <1>3, <1>15, <1>17, <1>18, <1>19 DEF StoreInv

(* A caller in no file operation moves on and the files stay as they are   *)
(* (ContentAddressedEvidenceStore.writeOnce, and the end of a response).   *)
LEMMA CallerMoves ==
    ASSUME StoreInv, UNCHANGED sinks, NEW c \in Named, call[c] \notin [at : {"flush", "wait"}, file : Files],
           NEW v \in InCall, call' = [call EXCEPT ![c] = v],
           object' \in [Contents -> {"none", "partial", "whole"}], faults' \in 0..MaxFaults
    PROVE  StoreInv'
<1>1. StoreShapes /\ CallsCoherent /\ Sinks
    BY DEF StoreInv
<1>2. UNCHANGED <<flushEvery, accepted, buffer, flushing, waiters, closed, lines, broken>>
    BY DEF sinks
<1>3. /\ flushing \in [Files -> [by : Named, batch : Seq(Records)]]
      /\ waiters \in [Files -> Seq(Named)] /\ call \in [Named -> InCall]
    BY <1>1 DEF StoreShapes
<1>4. call' \in [Named -> InCall] /\ \A d \in Named : d # c => call'[d] = call[d]
    BY <1>3
<1>5. StoreShapes'
    BY <1>1, <1>2, <1>4 DEF StoreShapes
<1>6. Sinks'
    BY <1>1, <1>2 DEF Sinks
<1>7. CallsCoherent'
    <2> SUFFICES ASSUME NEW f \in Files
                 PROVE  /\ flushing[f] # NoFlush => flushing[f].batch # <<>> /\ call'[flushing[f].by] = [at |-> "flush", file |-> f]
                        /\ \A i \in DOMAIN waiters[f] : flushing[f] # NoFlush /\ call'[waiters[f][i]] = [at |-> "wait", file |-> f]
        BY <1>2 DEF CallsCoherent
    <2>1. /\ flushing[f] # NoFlush => flushing[f].batch # <<>> /\ call[flushing[f].by] = [at |-> "flush", file |-> f]
          /\ \A i \in DOMAIN waiters[f] : flushing[f] # NoFlush /\ call[waiters[f][i]] = [at |-> "wait", file |-> f]
        BY <1>1 DEF CallsCoherent
    <2>2. /\ [at |-> "flush", file |-> f] \in [at : {"flush", "wait"}, file : Files]
          /\ [at |-> "wait", file |-> f] \in [at : {"flush", "wait"}, file : Files]
        OBVIOUS
    <2>3. flushing[f].by \in Named /\ \A i \in DOMAIN waiters[f] : waiters[f][i] \in Named
        BY <1>3
    <2>4. flushing[f] # NoFlush => call'[flushing[f].by] = [at |-> "flush", file |-> f]
        BY <1>4, <2>1, <2>2, <2>3
    <2>5. ASSUME NEW i \in DOMAIN waiters[f] PROVE call'[waiters[f][i]] = [at |-> "wait", file |-> f]
        <3>1. call[waiters[f][i]] = [at |-> "wait", file |-> f] /\ waiters[f][i] \in Named
            BY <2>1, <2>3
        <3> QED
            BY <3>1, <1>4, <2>2
    <2> QED
        BY <2>1, <2>4, <2>5
<1> QED
    BY <1>5, <1>6, <1>7 DEF StoreInv

LEMMA StoreInvStays ==
    ASSUME StoreInv, UNCHANGED storeVars
    PROVE  StoreInv'
<1>1. StoreShapes' /\ CallsCoherent'
    BY DEF StoreInv, storeVars, StoreShapes, CallsCoherent
<1>2. Sinks'
    BY DEF StoreInv, storeVars, Sinks, SinkKept
<1> QED
    BY <1>1, <1>2 DEF StoreInv

------------------------------------------------------------------------------
(* The calls that are left of a response when it comes, after a rendering  *)
(* and for a page are in order, and the first is no record of a body       *)
(* (ResourceProcessor and the processors it chooses from).                 *)
Orderly(s) == s \in Seq(Tasks) /\ Ordered(s) /\ (s # <<>> => ~IsEvidence(s[1]))

LEMMA PlainOrderly ==
    ASSUME NEW s \in Seq(Tasks), \A i \in 1..Len(s) : ~IsEvidence(s[i])
    PROVE  Orderly(s)
<1>1. s # <<>> => 1 \in 1..Len(s)
    OBVIOUS
<1> QED
    BY <1>1 DEF Orderly, Ordered

LEMMA OrderlyConcat ==
    ASSUME NEW s, NEW t, Orderly(s), Orderly(t)
    PROVE  Orderly(s \o t)
<1>1. s \in Seq(Tasks) /\ t \in Seq(Tasks)
    BY DEF Orderly
<1>2. PICK m \in Nat, n \in Nat : m = Len(s) /\ n = Len(t)
    BY <1>1
<1> DEFINE q == s \o t
<1>3. q \in Seq(Tasks) /\ Len(q) = m + n /\ \A i \in 1..(m + n) : q[i] = IF i <= m THEN s[i] ELSE t[i - m]
    BY <1>1, <1>2, ConcatProperties
<1>4. (m # 0 => ~IsEvidence(s[1])) /\ (n # 0 => ~IsEvidence(t[1]))
    BY <1>1, <1>2 DEF Orderly
<1>5. /\ \A i \in 1..m : IsEvidence(s[i]) => s[i].n \in Contents /\ (i > 1 => s[i - 1] = ObjectOf(s[i]))
      /\ \A i \in 1..n : IsEvidence(t[i]) => t[i].n \in Contents /\ (i > 1 => t[i - 1] = ObjectOf(t[i]))
    BY <1>2 DEF Orderly, Ordered
<1> HIDE DEF q
<1>6. ASSUME NEW i \in 1..(m + n), IsEvidence(q[i])
      PROVE  q[i].n \in Contents /\ (i > 1 => q[i - 1] = ObjectOf(q[i]))
    <2>1. CASE i <= m
        <3>1. i \in 1..m /\ q[i] = s[i] /\ (i > 1 => i - 1 \in 1..(m + n) /\ i - 1 <= m)
            BY <2>1, <1>3
        <3>2. i > 1 => q[i - 1] = s[i - 1]
            BY <3>1, <1>3
        <3> QED
            BY <3>1, <3>2, <1>5, <1>6
    <2>2. CASE i > m
        <3>1. i - m \in 1..n /\ q[i] = t[i - m]
            BY <2>2, <1>3
        <3>2. i - m # 1
            BY <3>1, <1>4, <1>6
        <3>3. i - m > 1 /\ i - 1 \in 1..(m + n) /\ ~(i - 1 <= m) /\ (i - 1) - m = (i - m) - 1
            BY <3>1, <3>2
        <3>4. q[i - 1] = t[(i - m) - 1]
            BY <3>3, <1>3
        <3> QED
            BY <3>1, <3>3, <3>4, <1>5, <1>6
    <2> QED
        BY <2>1, <2>2
<1>7. q # <<>> => ~IsEvidence(q[1])
    <2>1. CASE m + n = 0
        BY <2>1, <1>3
    <2>2. CASE m # 0
        <3>1. 1 \in 1..(m + n) /\ 1 <= m
            BY <2>2
        <3> QED
            BY <3>1, <2>2, <1>3, <1>4
    <2>3. CASE m = 0 /\ n # 0
        <3>1. 1 \in 1..(m + n) /\ ~(1 <= m) /\ 1 - m = 1
            BY <2>3
        <3> QED
            BY <3>1, <2>3, <1>3, <1>4
    <2> QED
        BY <2>1, <2>2, <2>3
<1>8. Ordered(q)
    BY <1>3, <1>6 DEF Ordered
<1> QED
    BY <1>3, <1>7, <1>8 DEF Orderly, q

LEMMA RecordTask ==
    ASSUME NEW f \in Files, NEW n \in Numbers
    PROVE  Record(f, n) \in Tasks /\ (f # "evidence" => ~IsEvidence(Record(f, n)))
BY DEF Record, Tasks, IsEvidence

LEMMA Numbered == /\ (\A x \in Contents : x \in Numbers) /\ (\A i \in Nat : i \in Numbers)
                  /\ (\A w \in {"page", "header", "text"}, i \in Nat : <<w, i>> \in Numbers)
<1>1. \A w \in {"page", "header", "text"}, i \in Nat : <<w, i>> \in {"page", "header", "text"} \X Nat
    OBVIOUS
<1>2. ({"page", "header", "text"} \X Nat) \subseteq Numbers
    BY DEF Numbers
<1>3. \A w \in {"page", "header", "text"}, i \in Nat : <<w, i>> \in Numbers
    BY <1>1, <1>2
<1>4. Contents \subseteq Numbers /\ Nat \subseteq Numbers
    BY DEF Numbers
<1> QED
    BY <1>3, <1>4

LEMMA FilesNamed == /\ "resources" \in Files /\ "links" \in Files /\ "pages" \in Files /\ "xml" \in Files
                    /\ "entries" \in Files /\ "errors" \in Files /\ "evidence" \in Files
BY ProcessingAssumption

LEMMA OneOrderly ==
    ASSUME NEW t \in Tasks, ~IsEvidence(t)
    PROVE  Orderly(<<t>>)
<1> DEFINE s == <<t>>
<1>1. s \in Seq(Tasks) /\ Len(s) = 1 /\ s[1] = t
    OBVIOUS
<1> HIDE DEF s
<1>2. \A i \in 1..Len(s) : ~IsEvidence(s[i])
    BY <1>1
<1>3. Orderly(s)
    BY <1>1, <1>2, PlainOrderly
<1> QED
    BY <1>3 DEF s

LEMMA EmptyOrderly == Orderly(<<>>)
BY DEF Orderly, Ordered

LEMMA EvidenceOrderly ==
    ASSUME NEW r, NEW x \in Contents
    PROVE  Orderly(Evidence(r, x))
<1>1. CASE ~StoreRaw
    BY <1>1, EmptyOrderly DEF Evidence
<1>2. CASE StoreRaw
    <2> DEFINE o == [do |-> "object", content |-> x] e == Record("evidence", x) s == <<o, e>>
    <2>1. o \in Tasks /\ e \in Tasks /\ ~IsEvidence(o) /\ e.n = x /\ ObjectOf(e) = o
        BY RecordTask, Numbered, FilesNamed DEF Tasks, IsEvidence, Record, ObjectOf
    <2>2. Evidence(r, x) = s
        BY <1>2 DEF Evidence
    <2> HIDE DEF o, e
    <2>3. s \in Seq(Tasks) /\ Len(s) = 2 /\ s[1] = o /\ s[2] = e
        BY <2>1
    <2> HIDE DEF s
    <2>4. ASSUME NEW i \in 1..Len(s), IsEvidence(s[i])
          PROVE  s[i].n \in Contents /\ (i > 1 => s[i - 1] = ObjectOf(s[i]))
        <3>1. i = 2
            BY <2>1, <2>3, <2>4
        <3> QED
            BY <3>1, <2>1, <2>3
    <2> QED
        BY <2>1, <2>2, <2>3, <2>4 DEF Orderly, Ordered
<1> QED
    BY <1>1, <1>2

(* A list of records, numbered from 1, none of a body.                     *)
LEMMA ListOrderly ==
    ASSUME NEW n \in Nat, NEW s, s = [i \in 1..n |-> s[i]], \A i \in 1..n : s[i] \in Tasks /\ ~IsEvidence(s[i])
    PROVE  Orderly(s)
<1>1. s \in Seq(Tasks) /\ Len(s) = n
    OBVIOUS
<1> QED
    BY <1>1, PlainOrderly

LEMMA LinksOrderly ==
    ASSUME NEW r \in Pages, NEW source \in {"page", "header"}, NEW n \in Nat
    PROVE  Orderly(processLinks(r, source, n))
<1> DEFINE m == Least(n, MaxLinksPerPage) s == processLinks(r, source, n)
<1>1. m \in Nat
    BY ProcessingAssumption DEF Least
<1>2. s = [i \in 1..m |-> Record("links", <<source, i>>)]
    BY DEF processLinks
<1> HIDE DEF m, s
<1>3. \A i \in 1..m : s[i] \in Tasks /\ ~IsEvidence(s[i])
    <2> TAKE i \in 1..m
    <2>1. source \in {"page", "header", "text"} /\ i \in Nat
        BY <1>1
    <2>2. <<source, i>> \in Numbers
        BY <2>1, Numbered
    <2>3. s[i] = Record("links", <<source, i>>)
        BY <1>2
    <2>4. Record("links", <<source, i>>) \in Tasks /\ ~IsEvidence(Record("links", <<source, i>>))
        BY <2>2, RecordTask, FilesNamed
    <2> QED
        BY <2>3, <2>4
<1>4. s = [i \in 1..m |-> s[i]]
    BY <1>2
<1> QED
    BY <1>1, <1>3, <1>4, ListOrderly DEF s

LEMMA PersistOrderly ==
    ASSUME NEW r \in Pages
    PROVE  Orderly(Persist(r))
<1>1. Orderly(processLinks(r, "page", Links[r]))
    BY LinksOrderly, ProcessingAssumption
<1>2. Orderly(<<Record("pages", 1)>>)
    BY RecordTask, Numbered, FilesNamed, OneOrderly
<1> QED
    BY <1>1, <1>2, OrderlyConcat DEF Persist

LEMMA OutsideTask == Outside \in Tasks /\ ~IsEvidence(Outside)
BY DEF Outside, Tasks, IsEvidence

LEMMA DispatchOrderly ==
    ASSUME NEW r \in Pages
    PROVE  Orderly(dispatchEntries(r))
<1> DEFINE m == 2 * Links[r] s == dispatchEntries(r)
<1>1. m \in Nat
    BY ProcessingAssumption
<1>2. s = [i \in 1..m |-> IF i % 2 = 1 THEN Outside ELSE Record("entries", i \div 2)]
    BY DEF dispatchEntries
<1> HIDE DEF m, s
<1>3. \A i \in 1..m : s[i] \in Tasks /\ ~IsEvidence(s[i])
    <2> TAKE i \in 1..m
    <2>1. CASE i % 2 = 1
        <3>1. s[i] = Outside
            BY <1>2, <2>1
        <3> QED
            BY <3>1, OutsideTask
    <2>2. CASE i % 2 # 1
        <3>1. i \div 2 \in Nat
            OBVIOUS
        <3>2. s[i] = Record("entries", i \div 2)
            BY <1>2, <2>2
        <3> QED
            BY <3>1, <3>2, RecordTask, Numbered, FilesNamed
    <2> QED
        BY <2>1, <2>2
<1>4. s = [i \in 1..m |-> s[i]]
    BY <1>2
<1> QED
    BY <1>1, <1>3, <1>4, ListOrderly DEF s

LEMMA TextOrderly ==
    ASSUME NEW r \in Pages
    PROVE  Orderly(processText(r))
<1> DEFINE m == Links[r] s == processText(r)
<1>1. m \in Nat
    BY ProcessingAssumption
<1>2. s = [i \in 1..m |-> Record("links", <<"text", i>>)]
    BY DEF processText
<1> HIDE DEF m, s
<1>3. \A i \in 1..m : s[i] \in Tasks /\ ~IsEvidence(s[i])
    <2> TAKE i \in 1..m
    <2>1. "text" \in {"page", "header", "text"} /\ i \in Nat
        BY <1>1
    <2>2. <<"text", i>> \in Numbers
        BY <2>1, Numbered
    <2>3. s[i] = Record("links", <<"text", i>>)
        BY <1>2
    <2>4. Record("links", <<"text", i>>) \in Tasks /\ ~IsEvidence(Record("links", <<"text", i>>))
        BY <2>2, RecordTask, FilesNamed
    <2> QED
        BY <2>3, <2>4
<1>4. s = [i \in 1..m |-> s[i]]
    BY <1>2
<1> QED
    BY <1>1, <1>3, <1>4, ListOrderly DEF s

LEMMA PreparedOrderly ==
    ASSUME NEW r \in Pages
    PROVE  Orderly(processPrepared(r))
<1>1. /\ Orderly(<<Record("resources", 1)>>) /\ Orderly(<<Record("errors", 1)>>) /\ Orderly(<<Record("xml", 1)>>)
      /\ Orderly(<<Outside>>)
    BY RecordTask, Numbered, FilesNamed, OneOrderly, OutsideTask
<1>2. Orderly(<<[do |-> "render"]>>)
    <2>1. [do |-> "render"] \in Tasks /\ ~IsEvidence([do |-> "render"])
        BY DEF Tasks, IsEvidence
    <2> QED
        BY <2>1, OneOrderly
<1>3. Orderly(processLinks(r, "header", HeaderLinks[r]))
    BY LinksOrderly, ProcessingAssumption
<1>4. Orderly(Evidence(r, Source[r]))
    BY EvidenceOrderly, ProcessingAssumption
<1>5. Orderly(Payload(r))
    <2>1. CASE Kind[r] = "html"
        <3>1. Payload(r) = Evidence(r, Source[r]) \o <<[do |-> "render"]>>
            BY <2>1 DEF Payload
        <3> QED
            BY <3>1, <1>2, <1>4, OrderlyConcat
    <2>2. CASE Kind[r] = "xml"
        <3>1. Payload(r) = (Evidence(r, Source[r]) \o <<Record("xml", 1)>>) \o dispatchEntries(r)
            BY <2>2 DEF Payload
        <3> QED
            BY <3>1, <1>1, <1>4, DispatchOrderly, OrderlyConcat
    <2>3. CASE Kind[r] = "text"
        BY <2>3, TextOrderly DEF Payload
    <2>4. CASE Kind[r] = "other"
        BY <2>4, EmptyOrderly DEF Payload
    <2> QED
        BY <2>1, <2>2, <2>3, <2>4, ProcessingAssumption
<1>6. CASE r \in Malformed
    BY <1>1, <1>6, OrderlyConcat DEF processPrepared
<1>7. CASE r \notin Malformed
    <2>1. processPrepared(r) = <<Record("resources", 1)>> \o (<<Outside>> \o processLinks(r, "header", HeaderLinks[r]) \o Payload(r))
        BY <1>7 DEF processPrepared
    <2>2. Orderly(<<Outside>> \o processLinks(r, "header", HeaderLinks[r]))
        BY <1>1, <1>3, OrderlyConcat
    <2>3. Orderly(<<Outside>> \o processLinks(r, "header", HeaderLinks[r]) \o Payload(r))
        BY <1>5, <2>2, OrderlyConcat
    <2> QED
        BY <1>1, <2>1, <2>3, OrderlyConcat
<1> QED
    BY <1>6, <1>7

------------------------------------------------------------------------------
(* A step of one response, or of an operation on a file, keeps what is     *)
(* said of the calls that are left (ResourceProcessor).                    *)
Resting(c) == c \in [at : {"flush", "wait"}, file : Files]
Whole(x) == object[x] = "whole"
StillWhole == \A x \in Contents : Whole(x) => Whole(x)'

LEMMA RestingIsNot ==
    ASSUME NEW c, Resting(c)
    PROVE  c # Idle /\ c # Threw /\ c.at \notin {"object", "compare"}
<1>1. c.at \in {"flush", "wait"}
    BY DEF Resting
<1>2. Idle.at = "idle" /\ Threw.at = "threw"
    BY DEF Idle, Threw
<1> QED
    BY <1>1, <1>2

LEMMA EvidenceStays ==
    ASSUME NEW r \in Pages, TodoInv, StillWhole, todo'[r] = todo[r], call'[r] = call[r] \/ Resting(call[r])
    PROVE  Ordered(todo'[r]) /\ EvidenceNext(r)'
<1>1. Ordered(todo[r]) /\ EvidenceNext(r) /\ todo[r] \in Seq(Tasks)
    BY DEF TodoInv
<1>2. Ordered(todo'[r])
    BY <1>1
<1>3. ASSUME todo[r] # <<>>, IsEvidence(Head(todo[r]))
      PROVE  \/ call'[r] = Threw \/ object'[Head(todo[r]).n] = "whole"
             \/ call'[r].at \in {"object", "compare"} /\ call'[r].content = Head(todo[r]).n
    <2>1. Head(todo[r]) = todo[r][1] /\ 1 \in 1..Len(todo[r])
        BY <1>1, <1>3
    <2>2. Head(todo[r]).n \in Contents
        BY <1>1, <1>3, <2>1 DEF Ordered
    <2>3. \/ call[r] = Threw \/ object[Head(todo[r]).n] = "whole"
          \/ call[r].at \in {"object", "compare"} /\ call[r].content = Head(todo[r]).n
        BY <1>1, <1>3 DEF EvidenceNext
    <2>4. object[Head(todo[r]).n] = "whole" => object'[Head(todo[r]).n] = "whole"
        BY <2>2 DEF StillWhole, Whole
    <2>5. Resting(call[r]) => object[Head(todo[r]).n] = "whole"
        BY <2>3, RestingIsNot
    <2> QED
        BY <2>3, <2>4, <2>5
<1>4. EvidenceNext(r)'
    BY <1>3 DEF EvidenceNext
<1> QED
    BY <1>2, <1>4

LEMMA StoredStays ==
    ASSUME EvidenceStored, StillWhole, accepted' = accepted
    PROVE  EvidenceStored'
<1> SUFFICES ASSUME NEW i \in DOMAIN accepted'["evidence"]
             PROVE  accepted'["evidence"][i][2] \in Contents /\ object'[accepted'["evidence"][i][2]] = "whole"
    BY DEF EvidenceStored
<1>1. accepted["evidence"][i][2] \in Contents /\ object[accepted["evidence"][i][2]] = "whole"
    BY DEF EvidenceStored
<1> QED
    BY <1>1 DEF StillWhole, Whole

(* Nobody's calls change, but for those who rested.                        *)
LEMMA TodoStays ==
    ASSUME TodoInv, StillWhole, accepted' = accepted, todo' = todo, \A r \in Pages : call'[r] = call[r] \/ Resting(call[r])
    PROVE  TodoInv'
<1>1. todo' \in [Pages -> Seq(Tasks)]
    BY DEF TodoInv
<1>2. ASSUME NEW r \in Pages PROVE Ordered(todo'[r]) /\ EvidenceNext(r)'
    BY EvidenceStays
<1>3. EvidenceStored'
    BY StoredStays DEF TodoInv
<1> QED
    BY <1>1, <1>2, <1>3 DEF TodoInv

(* One response goes on, the others do not.                                *)
LEMMA TodoMoves ==
    ASSUME TodoInv, StillWhole, EvidenceStored', NEW r \in Pages, NEW s \in Seq(Tasks), Ordered(s),
           todo' = [todo EXCEPT ![r] = s], EvidenceNext(r)', \A q \in Pages \ {r} : call'[q] = call[q]
    PROVE  TodoInv'
<1>1. todo' \in [Pages -> Seq(Tasks)] /\ todo'[r] = s /\ \A q \in Pages \ {r} : todo'[q] = todo[q]
    BY DEF TodoInv
<1>2. ASSUME NEW q \in Pages PROVE Ordered(todo'[q]) /\ EvidenceNext(q)'
    <2>1. CASE q = r
        BY <2>1, <1>1
    <2>2. CASE q # r
        <3>1. todo'[q] = todo[q] /\ call'[q] = call[q]
            BY <2>2, <1>1
        <3> QED
            BY <3>1, EvidenceStays
    <2> QED
        BY <2>1, <2>2
<1> QED
    BY <1>1, <1>2 DEF TodoInv

LEMMA OrderedTail ==
    ASSUME NEW s \in Seq(Tasks), s # <<>>, Ordered(s)
    PROVE  /\ Tail(s) \in Seq(Tasks) /\ Ordered(Tail(s)) /\ Head(s) = s[1] /\ Head(s) \in Tasks
           /\ IsEvidence(Head(s)) => Head(s).n \in Contents
           /\ Tail(s) # <<>> /\ IsEvidence(Head(Tail(s))) =>
                  Head(Tail(s)).n \in Contents /\ Head(s) = ObjectOf(Head(Tail(s)))
<1>1. PICK n \in Nat : n = Len(s)
    OBVIOUS
<1> DEFINE t == Tail(s)
<1>2. /\ n # 0 /\ t \in Seq(Tasks) /\ Len(t) = n - 1 /\ Head(s) = s[1] /\ Head(s) \in Tasks
      /\ \A i \in 1..(n - 1) : t[i] = s[i + 1]
    BY <1>1
<1>3. \A i \in 1..n : IsEvidence(s[i]) => s[i].n \in Contents /\ (i > 1 => s[i - 1] = ObjectOf(s[i]))
    BY <1>1 DEF Ordered
<1>4. t # <<>> => Head(t) = t[1] /\ n > 1
    BY <1>1, <1>2
<1> HIDE DEF t
<1>5. ASSUME NEW i \in 1..(n - 1), IsEvidence(t[i])
      PROVE  t[i].n \in Contents /\ s[i] = ObjectOf(t[i]) /\ (i > 1 => t[i - 1] = ObjectOf(t[i]))
    <2>1. i + 1 \in 1..n /\ t[i] = s[i + 1] /\ (i + 1) - 1 = i /\ i + 1 > 1
        BY <1>2
    <2>2. i > 1 => i - 1 \in 1..(n - 1) /\ (i - 1) + 1 = i
        BY <2>1
    <2>3. i > 1 => t[i - 1] = s[i]
        BY <2>2, <1>2
    <2>4. t[i].n \in Contents /\ s[i] = ObjectOf(t[i])
        BY <2>1, <1>3, <1>5
    <2> QED
        BY <2>3, <2>4
<1>6. Ordered(t)
    BY <1>2, <1>5 DEF Ordered
<1>7. t # <<>> /\ IsEvidence(Head(t)) => Head(t).n \in Contents /\ s[1] = ObjectOf(Head(t))
    <2>1. t # <<>> => 1 \in 1..(n - 1)
        BY <1>4
    <2> QED
        BY <1>4, <1>5, <2>1
<1>8. IsEvidence(s[1]) => s[1].n \in Contents
    BY <1>2, <1>3
<1> QED
    BY <1>2, <1>6, <1>7, <1>8 DEF t

LEMMA EmptyOrdered == <<>> \in Seq(Tasks) /\ Ordered(<<>>)
BY DEF Ordered

LEMMA OrderlyNext ==
    ASSUME NEW r \in Pages, Orderly(todo'[r])
    PROVE  Ordered(todo'[r]) /\ EvidenceNext(r)'
<1>1. todo'[r] \in Seq(Tasks) /\ Ordered(todo'[r]) /\ (todo'[r] # <<>> => ~IsEvidence(todo'[r][1]))
    BY DEF Orderly
<1>2. todo'[r] # <<>> => Head(todo'[r]) = todo'[r][1]
    BY <1>1
<1> QED
    BY <1>1, <1>2 DEF EvidenceNext

LEMMA PagesNamed == (\A r \in Pages : r \in Named /\ r # Closer) /\ Closer \in Named
BY ProcessingAssumption, StoreAssumption DEF Named

LEMMA ReadyFacts ==
    ASSUME StoreInv, TodoInv, NEW r \in Pages, NEW what, Ready(r, what)
    PROVE  /\ todo[r] \in Seq(Tasks) /\ todo[r] # <<>> /\ Ordered(todo[r]) /\ EvidenceNext(r)
           /\ Head(todo[r]) \in Tasks /\ Head(todo[r]).do = what /\ call[r] = Idle /\ r \in Named
           /\ todo \in [Pages -> Seq(Tasks)] /\ call \in [Named -> InCall]
<1>1. todo[r] \in Seq(Tasks) /\ todo[r] # <<>> /\ Ordered(todo[r]) /\ EvidenceNext(r)
    BY DEF TodoInv, Ready
<1>2. Head(todo[r]) \in Tasks
    BY <1>1
<1> QED
    BY <1>1, <1>2, PagesNamed DEF Ready, StoreInv, StoreShapes, TodoInv

LEMMA WholeAsBefore ==
    ASSUME object' = object
    PROVE  StillWhole
BY DEF StillWhole, Whole

(* A response that drops what is left of its calls.                        *)
LEMMA QuitsKept ==
    ASSUME TodoInv, NEW r \in Pages, Quits(r), UNCHANGED <<accepted, object>>, \A q \in Pages \ {r} : call'[q] = call[q]
    PROVE  TodoInv'
<1>1. StillWhole /\ EvidenceStored'
    BY WholeAsBefore, StoredStays DEF TodoInv
<1>2. todo' = [todo EXCEPT ![r] = <<>>]
    BY DEF Quits
<1>3. todo'[r] = <<>>
    BY <1>2 DEF TodoInv
<1>4. EvidenceNext(r)'
    BY <1>3 DEF EvidenceNext
<1> QED
    BY <1>1, <1>2, <1>4, EmptyOrdered, TodoMoves

(* A record of a body is written when the call before it stored the body   *)
(* (ContentAddressedEvidenceStore.write before the evidence record).       *)
LEMMA StoredGrows ==
    ASSUME StoreInv, TodoInv, NEW r \in Pages, Ready(r, "write"), Write(r, Head(todo[r]).file, <<r, Head(todo[r]).n>>)
    PROVE  EvidenceStored'
<1> DEFINE t == Head(todo[r]) record == <<r, t.n>> A == accepted["evidence"]
<1>1. /\ t \in Tasks /\ t.do = "write" /\ call[r] = Idle
      /\ todo[r] \in Seq(Tasks) /\ todo[r] # <<>> /\ EvidenceNext(r)
      /\ Ordered(todo[r])
    BY ReadyFacts
<1>2. accepted' = [accepted EXCEPT ![t.file] = Append(@, record)] /\ object' = object
    BY DEF Write
<1>3. accepted \in [Files -> Seq(Records)] /\ A \in Seq(Records)
    BY FilesNamed DEF StoreInv, StoreShapes
<1>4. t.file \in Files /\ t.n \in Numbers
    BY <1>1 DEF Tasks
<1>5. EvidenceStored
    BY DEF TodoInv
<1>6. CASE t.file # "evidence"
    <2>1. accepted'["evidence"] = A
        BY <1>2, <1>3, <1>6, FilesNamed
    <2> QED
        BY <1>2, <1>5, <2>1 DEF EvidenceStored
<1>7. CASE t.file = "evidence"
    <2>1. IsEvidence(t)
        BY <1>1, <1>7 DEF IsEvidence
    <2>2. t.n \in Contents
        BY <1>1, <2>1, OrderedTail
    <2>3. object[t.n] = "whole"
        <3>1. Idle # Threw /\ Idle.at \notin {"object", "compare"}
            BY DEF Idle, Threw
        <3> QED
            BY <1>1, <2>1, <3>1 DEF EvidenceNext
    <2>4. accepted'["evidence"] = Append(A, record)
        BY <1>2, <1>3, <1>7, FilesNamed
    <2>5. record[2] = t.n
        OBVIOUS
    <2>6. PICK n \in Nat : n = Len(A)
        BY <1>3
    <2> HIDE DEF record
    <2> DEFINE B == Append(A, record)
    <2>7. DOMAIN B = 1..(n + 1) /\ B[n + 1] = record /\ \A i \in 1..n : B[i] = A[i]
        BY <1>3, <2>6
    <2>8. DOMAIN A = 1..n
        BY <1>3, <2>6
    <2> HIDE DEF B
    <2>9. ASSUME NEW i \in DOMAIN B PROVE B[i][2] \in Contents /\ object[B[i][2]] = "whole"
        <3>1. CASE i = n + 1
            BY <3>1, <2>2, <2>3, <2>5, <2>7
        <3>2. CASE i # n + 1
            <4>1. i \in 1..n /\ B[i] = A[i]
                BY <3>2, <2>7
            <4>2. A[i][2] \in Contents /\ object[A[i][2]] = "whole"
                BY <1>5, <4>1, <2>8 DEF EvidenceStored
            <4> QED
                BY <4>1, <4>2
        <3> QED
            BY <3>1, <3>2
    <2>10. accepted'["evidence"] = B
        BY <2>4 DEF B
    <2> QED
        BY <1>2, <2>9, <2>10 DEF EvidenceStored
<1> QED
    BY <1>6, <1>7

LEMMA WritesRecordKept ==
    ASSUME StoreInv, TodoInv, NEW r \in Pages, WritesRecord(r)
    PROVE  StoreInv' /\ TodoInv' /\ \A d \in Named \ {r} : call'[d] = call[d]
<1>1. Ready(r, "write")
    BY DEF WritesRecord
<1> DEFINE s == todo[r] t == Head(s)
<1>2. /\ s \in Seq(Tasks) /\ s # <<>> /\ Ordered(s) /\ t \in Tasks /\ t.do = "write"
      /\ call[r] = Idle /\ r \in Named /\ todo \in [Pages -> Seq(Tasks)]
    BY <1>1, ReadyFacts
<1>3. CASE Write(r, t.file, <<r, t.n>>) /\ Next_(r)
    <2>1. t.file \in Files /\ t.n \in Numbers /\ <<r, t.n>> \in Records
        BY <1>2 DEF Tasks, Records
    <2>2. /\ StoreInv' /\ \A d \in Named \ {r} : call'[d] = call[d]
        BY <1>2, <1>3, <2>1, WriteKept
    <2>3. EvidenceStored' /\ StillWhole
        BY <1>1, <1>3, StoredGrows, WholeAsBefore DEF Write
    <2>4. todo' = [todo EXCEPT ![r] = Tail(s)] /\ todo'[r] = Tail(s)
        BY <1>2, <1>3 DEF Next_
    <2>5. /\ Tail(s) \in Seq(Tasks) /\ Ordered(Tail(s))
          /\ (Tail(s) # <<>> /\ IsEvidence(Head(Tail(s))) => t = ObjectOf(Head(Tail(s))))
        BY <1>2, OrderedTail
    <2>6. ~(Tail(s) # <<>> /\ IsEvidence(Head(Tail(s))))
        <3>1. \A x : ObjectOf(x).do # "write"
            BY DEF ObjectOf
        <3> QED
            BY <1>2, <2>5, <3>1
    <2>7. EvidenceNext(r)'
        BY <2>4, <2>6 DEF EvidenceNext
    <2>8. \A q \in Pages \ {r} : call'[q] = call[q]
        BY <2>2, PagesNamed
    <2> HIDE DEF s, t
    <2>9. TodoInv'
        BY <2>3, <2>4, <2>5, <2>7, <2>8, TodoMoves
    <2> QED
        BY <2>2, <2>9
<1>4. CASE Quits(r) /\ UNCHANGED storeVars
    <2>1. StoreInv' /\ UNCHANGED <<accepted, object, call>>
        BY <1>4, StoreInvStays DEF storeVars
    <2> QED
        BY <1>4, <2>1, QuitsKept
<1> QED
    BY <1>3, <1>4 DEF WritesRecord

LEMMA ObjectTurns ==
    ASSUME StoreInv, NEW x \in Contents, NEW how \in {"partial", "whole"}, object[x] # "whole",
           object' = [object EXCEPT ![x] = how]
    PROVE  object' \in [Contents -> {"none", "partial", "whole"}] /\ StillWhole /\ object'[x] = how
<1>1. object \in [Contents -> {"none", "partial", "whole"}]
    BY DEF StoreInv, StoreShapes
<1>2. /\ object' \in [Contents -> {"none", "partial", "whole"}] /\ object'[x] = how
      /\ \A y \in Contents : y # x => object'[y] = object[y]
    BY <1>1
<1> QED
    BY <1>2 DEF StillWhole, Whole

LEMMA WritesObjectKept ==
    ASSUME StoreInv, TodoInv, NEW r \in Pages, WritesObject(r)
    PROVE  StoreInv' /\ TodoInv' /\ \A d \in Named \ {r} : call'[d] = call[d]
<1> DEFINE s == todo[r] t == Head(s) x == t.content
<1>1. /\ s \in Seq(Tasks) /\ s # <<>> /\ Ordered(s) /\ t \in Tasks /\ t.do = "object" /\ call[r] = Idle /\ r \in Named
      /\ todo \in [Pages -> Seq(Tasks)] /\ call \in [Named -> InCall]
    BY ReadyFacts DEF WritesObject
<1>2. x \in Contents
    BY <1>1 DEF Tasks
<1>3. WriteObject(r, x) /\ Next_(r)
    BY DEF WritesObject
<1>4. UNCHANGED <<sinks, faults>> /\ accepted' = accepted
    BY <1>3 DEF WriteObject, sinks
<1>5. PICK v \in {[at |-> "object", content |-> x], [at |-> "compare", content |-> x]} : call' = [call EXCEPT ![r] = v]
    BY <1>3 DEF WriteObject
<1>6. object' \in [Contents -> {"none", "partial", "whole"}] /\ StillWhole
    <2>1. object \in [Contents -> {"none", "partial", "whole"}]
        BY DEF StoreInv, StoreShapes
    <2>2. CASE object' = object
        BY <2>1, <2>2, WholeAsBefore
    <2>3. CASE object' # object
        <3>1. object[x] = "none" /\ object' = [object EXCEPT ![x] = "partial"]
            BY <1>3, <2>3 DEF WriteObject
        <3> QED
            BY <1>2, <3>1, ObjectTurns
    <2> QED
        BY <2>2, <2>3
<1>7. v \in InCall /\ v.at \in {"object", "compare"} /\ v.content = x
    BY <1>2 DEF InCall
<1>8. StoreInv'
    <2>1. faults' \in 0..MaxFaults
        BY <1>4 DEF StoreInv, StoreShapes
    <2>2. call[r] \notin [at : {"flush", "wait"}, file : Files]
        BY <1>1, RestingIsNot DEF Resting
    <2> QED
        BY <1>1, <1>4, <1>5, <1>6, <1>7, <2>1, <2>2, CallerMoves
<1>9. call'[r] = v /\ \A d \in Named \ {r} : call'[d] = call[d]
    BY <1>1, <1>5
<1>10. todo' = [todo EXCEPT ![r] = Tail(s)] /\ todo'[r] = Tail(s)
    BY <1>1, <1>3 DEF Next_
<1>11. /\ Tail(s) \in Seq(Tasks) /\ Ordered(Tail(s))
       /\ (Tail(s) # <<>> /\ IsEvidence(Head(Tail(s))) => t = ObjectOf(Head(Tail(s))))
    BY <1>1, OrderedTail
<1>12. Tail(s) # <<>> /\ IsEvidence(Head(Tail(s))) => x = Head(Tail(s)).n
    <2>1. \A e : ObjectOf(e).content = e.n
        BY DEF ObjectOf
    <2> QED
        BY <1>11, <2>1
<1>13. EvidenceNext(r)'
    BY <1>7, <1>9, <1>10, <1>12 DEF EvidenceNext
<1>14. EvidenceStored'
    BY <1>4, <1>6, StoredStays DEF TodoInv
<1>15. \A q \in Pages \ {r} : call'[q] = call[q]
    BY <1>9, PagesNamed
<1> HIDE DEF s
<1>16. TodoInv'
    BY <1>6, <1>10, <1>11, <1>13, <1>14, <1>15, TodoMoves
<1> QED
    BY <1>8, <1>9, <1>16

LEMMA CallsKept ==
    ASSUME StoreInv, TodoInv, NEW r \in Pages, Calls(r)
    PROVE  StoreInv' /\ TodoInv' /\ call' = call
<1> DEFINE s == todo[r] t == Head(s)
<1>1. s \in Seq(Tasks) /\ s # <<>> /\ Ordered(s) /\ t.do = "call" /\ todo \in [Pages -> Seq(Tasks)]
    BY ReadyFacts DEF Calls
<1>2. UNCHANGED storeVars
    BY DEF Calls
<1>3. StoreInv' /\ UNCHANGED <<accepted, object, call>>
    BY <1>2, StoreInvStays DEF storeVars
<1>4. CASE Next_(r)
    <2>1. todo' = [todo EXCEPT ![r] = Tail(s)] /\ todo'[r] = Tail(s)
        BY <1>1, <1>4 DEF Next_
    <2>2. /\ Tail(s) \in Seq(Tasks) /\ Ordered(Tail(s))
          /\ (Tail(s) # <<>> /\ IsEvidence(Head(Tail(s))) => t = ObjectOf(Head(Tail(s))))
        BY <1>1, OrderedTail
    <2>3. ~(Tail(s) # <<>> /\ IsEvidence(Head(Tail(s))))
        <3>1. \A x : ObjectOf(x).do # "call"
            BY DEF ObjectOf
        <3> QED
            BY <1>1, <2>2, <3>1
    <2>4. EvidenceNext(r)'
        BY <2>1, <2>3 DEF EvidenceNext
    <2>5. EvidenceStored' /\ StillWhole
        BY <1>3, StoredStays, WholeAsBefore DEF TodoInv
    <2> HIDE DEF s
    <2>6. TodoInv'
        BY <1>3, <2>1, <2>2, <2>4, <2>5, TodoMoves
    <2> QED
        BY <1>3, <2>6
<1>5. CASE Quits(r)
    BY <1>3, <1>5, QuitsKept
<1> QED
    BY <1>4, <1>5 DEF Calls

(* What follows a rendering, or the decision not to render.                *)
LEMMA ListKept ==
    ASSUME StoreInv, TodoInv, UNCHANGED storeVars, NEW r \in Pages, NEW s, Orderly(s), todo' = [todo EXCEPT ![r] = s]
    PROVE  StoreInv' /\ TodoInv' /\ call' = call
<1>1. StoreInv' /\ UNCHANGED <<accepted, object, call>>
    BY StoreInvStays DEF storeVars
<1>2. s \in Seq(Tasks) /\ Ordered(s) /\ todo'[r] = s
    BY DEF Orderly, TodoInv
<1>3. EvidenceNext(r)'
    BY <1>2, OrderlyNext
<1>4. EvidenceStored' /\ StillWhole
    BY <1>1, StoredStays, WholeAsBefore DEF TodoInv
<1>5. TodoInv'
    BY <1>1, <1>2, <1>3, <1>4, TodoMoves
<1> QED
    BY <1>1, <1>5

LEMMA NothingKept ==
    ASSUME StoreInv, TodoInv, UNCHANGED storeVars, todo' = todo
    PROVE  StoreInv' /\ TodoInv' /\ call' = call
<1>1. StoreInv' /\ UNCHANGED <<accepted, object, call>>
    BY StoreInvStays DEF storeVars
<1>2. TodoInv'
    BY <1>1, TodoStays, WholeAsBefore
<1> QED
    BY <1>1, <1>2

LEMMA RendersKept ==
    ASSUME StoreInv, TodoInv, NEW r \in Pages, Renders(r)
    PROVE  StoreInv' /\ TodoInv' /\ call' = call
<1>1. UNCHANGED storeVars
    BY DEF Renders
<1>2. CASE todo' = todo
    BY <1>1, <1>2, NothingKept
<1>3. CASE todo' # todo
    <2>1. todo' = [todo EXCEPT ![r] = Persist(r)]
        BY <1>3 DEF Renders
    <2> QED
        BY <1>1, <2>1, PersistOrderly, ListKept
<1> QED
    BY <1>2, <1>3

LEMMA RenderReturnsKept ==
    ASSUME StoreInv, TodoInv, NEW r \in Pages, RenderReturns(r)
    PROVE  StoreInv' /\ TodoInv' /\ call' = call
<1> DEFINE first == IF render[r] = "rendered" THEN Evidence(r, Rendered[r]) ELSE <<Record("errors", 1)>>
<1>1. Orderly(first)
    <2>1. Orderly(<<Record("errors", 1)>>)
        BY RecordTask, Numbered, FilesNamed, OneOrderly
    <2>2. Orderly(Evidence(r, Rendered[r]))
        BY EvidenceOrderly, ProcessingAssumption
    <2> QED
        BY <2>1, <2>2
<1>2. todo' = [todo EXCEPT ![r] = first \o Persist(r)] /\ UNCHANGED storeVars
    BY DEF RenderReturns
<1> HIDE DEF first
<1>3. Orderly(first \o Persist(r))
    BY <1>1, PersistOrderly, OrderlyConcat
<1> QED
    BY <1>2, <1>3, ListKept

(* The response is done with, or its processing threw.                     *)
LEMMA EndsKept ==
    ASSUME StoreInv, TodoInv, NEW r \in Pages, Ends(r)
    PROVE  StoreInv' /\ TodoInv' /\ \A d \in Named \ {r} : call'[d] = call[d]
<1>1. r \in Named /\ call \in [Named -> InCall] /\ Idle \in InCall
    BY PagesNamed DEF StoreInv, StoreShapes, InCall
<1>2. /\ call[r] \in {Threw, Idle} /\ call' = [call EXCEPT ![r] = Idle] /\ Quits(r)
      /\ UNCHANGED <<sinks, object, faults, accepted>>
    BY DEF Ends, sinks
<1>3. call[r] \notin [at : {"flush", "wait"}, file : Files]
    BY <1>2, RestingIsNot DEF Resting
<1>4. object' \in [Contents -> {"none", "partial", "whole"}] /\ faults' \in 0..MaxFaults
    BY <1>2 DEF StoreInv, StoreShapes
<1>5. StoreInv'
    BY <1>1, <1>2, <1>3, <1>4, CallerMoves
<1>6. \A d \in Named \ {r} : call'[d] = call[d]
    BY <1>1, <1>2
<1>7. \A q \in Pages \ {r} : call'[q] = call[q]
    BY <1>6, PagesNamed
<1>8. TodoInv'
    BY <1>2, <1>7, QuitsKept
<1> QED
    BY <1>5, <1>6, <1>8

LEMMA InObjectCall ==
    ASSUME NEW v \in InCall, v.at \in {"object", "compare"}
    PROVE  v.content \in Contents /\ v \notin [at : {"flush", "wait"}, file : Files]
<1>1. Idle.at = "idle" /\ Threw.at = "threw"
    BY DEF Idle, Threw
<1>2. v \notin [at : {"flush", "wait"}, file : Files]
    OBVIOUS
<1>3. v \in [at : {"object", "compare"}, content : Contents]
    BY <1>1, <1>2 DEF InCall
<1> QED
    BY <1>2, <1>3

(* A caller of writeOnce goes on: the body is there, or the caller throws.  *)
LEMMA ObjectCallEnds ==
    ASSUME StoreInv, TodoInv, NEW r \in Pages, call[r].at \in {"object", "compare"}, UNCHANGED sinks, todo' = todo,
           NEW v \in {Idle, Threw}, call' = [call EXCEPT ![r] = v], faults' \in 0..MaxFaults,
           object' \in [Contents -> {"none", "partial", "whole"}], StillWhole,
           v = Idle => object'[call[r].content] = "whole"
    PROVE  StoreInv' /\ TodoInv' /\ \A d \in Named \ {r} : call'[d] = call[d]
<1>1. r \in Named /\ call \in [Named -> InCall] /\ call[r] \in InCall
    BY PagesNamed DEF StoreInv, StoreShapes
<1>2. v \in InCall /\ call[r] \notin [at : {"flush", "wait"}, file : Files] /\ accepted' = accepted
    BY <1>1, InObjectCall DEF InCall, sinks
<1>3. StoreInv'
    BY <1>1, <1>2, CallerMoves
<1>4. call'[r] = v /\ \A d \in Named \ {r} : call'[d] = call[d]
    BY <1>1
<1>5. todo[r] \in Seq(Tasks) /\ Ordered(todo[r]) /\ EvidenceNext(r) /\ todo = [todo EXCEPT ![r] = todo[r]]
    BY DEF TodoInv
<1>6. EvidenceNext(r)'
    <2> SUFFICES ASSUME todo[r] # <<>>, IsEvidence(Head(todo[r])), v = Idle
                 PROVE  object'[Head(todo[r]).n] = "whole"
        BY <1>4 DEF EvidenceNext
    <2>1. Head(todo[r]).n \in Contents
        BY <1>5, OrderedTail
    <2>2. call[r] # Threw
        BY DEF Threw
    <2>3. object[Head(todo[r]).n] = "whole" \/ call[r].content = Head(todo[r]).n
        BY <1>5, <2>2 DEF EvidenceNext
    <2> QED
        BY <2>1, <2>3 DEF StillWhole, Whole
<1>7. EvidenceStored'
    BY <1>2, StoredStays DEF TodoInv
<1>8. \A q \in Pages \ {r} : call'[q] = call[q]
    BY <1>4, PagesNamed
<1>9. TodoInv'
    <2>1. todo' = [todo EXCEPT ![r] = todo[r]]
        BY <1>5
    <2> QED
        BY <2>1, <1>5, <1>6, <1>7, <1>8, TodoMoves
<1> QED
    BY <1>3, <1>4, <1>9

LEMMA ObjectWrittenKept ==
    ASSUME StoreInv, TodoInv, NEW r \in Pages, ObjectWritten(r), todo' = todo
    PROVE  StoreInv' /\ TodoInv' /\ \A d \in Named \ {r} : call'[d] = call[d]
<1> DEFINE x == call[r].content
<1>1. call[r] \in InCall /\ object \in [Contents -> {"none", "partial", "whole"}] /\ faults \in 0..MaxFaults
    BY PagesNamed DEF StoreInv, StoreShapes
<1>2. call[r].at \in {"object", "compare"}
    BY DEF ObjectWritten
<1>3. x \in Contents
    BY <1>1, <1>2, InObjectCall
<1>4. object' = [object EXCEPT ![x] = "whole"] /\ call' = [call EXCEPT ![r] = Idle] /\ UNCHANGED <<sinks, faults>>
    BY DEF ObjectWritten
<1>5. object' \in [Contents -> {"none", "partial", "whole"}] /\ StillWhole /\ object'[x] = "whole"
    BY <1>1, <1>3, <1>4 DEF StillWhole, Whole
<1> QED
    BY <1>1, <1>2, <1>4, <1>5, ObjectCallEnds

LEMMA CompareKept ==
    ASSUME StoreInv, TodoInv, NEW r \in Pages, Compare(r), todo' = todo
    PROVE  StoreInv' /\ TodoInv' /\ \A d \in Named \ {r} : call'[d] = call[d]
<1>1. object \in [Contents -> {"none", "partial", "whole"}] /\ faults \in 0..MaxFaults
    BY DEF StoreInv, StoreShapes
<1>2. call[r].at \in {"object", "compare"}
    BY DEF Compare
<1> DEFINE v == IF object[call[r].content] = "whole" THEN Idle ELSE Threw
<1>3. call' = [call EXCEPT ![r] = v] /\ UNCHANGED <<sinks, object, faults>>
    BY DEF Compare
<1>4. v \in {Idle, Threw} /\ (v = Idle => object'[call[r].content] = "whole")
    <2>1. Idle # Threw
        BY DEF Idle, Threw
    <2> QED
        BY <1>3, <2>1
<1>5. StillWhole
    BY <1>3, WholeAsBefore
<1> HIDE DEF v
<1> QED
    BY <1>1, <1>2, <1>3, <1>4, <1>5, ObjectCallEnds

LEMMA ObjectFailsKept ==
    ASSUME StoreInv, TodoInv, NEW r \in Pages, ObjectFails(r), todo' = todo
    PROVE  StoreInv' /\ TodoInv' /\ \A d \in Named \ {r} : call'[d] = call[d]
<1>1. object \in [Contents -> {"none", "partial", "whole"}] /\ faults \in 0..MaxFaults
    BY DEF StoreInv, StoreShapes
<1>2. call[r].at \in {"object", "compare"}
    BY DEF ObjectFails
<1>3. call' = [call EXCEPT ![r] = Threw] /\ UNCHANGED <<sinks, object>> /\ faults' = faults - 1 /\ faults > 0
    BY DEF ObjectFails, CanFail
<1>4. faults' \in 0..MaxFaults
    BY <1>1, <1>3, StoreAssumption
<1>5. StillWhole /\ Idle # Threw
    BY <1>3, WholeAsBefore DEF Idle, Threw
<1> QED
    BY <1>1, <1>2, <1>3, <1>4, <1>5, ObjectCallEnds

(* The store's own steps: no response that is not in a call is disturbed.  *)
Undisturbed == \A r \in Pages : call[r] = Idle => call'[r] = Idle

LEMMA ResumedKept ==
    ASSUME StoreInv', TodoInv, todo' = todo, UNCHANGED <<accepted, object>>, NEW f \in Files, Resumed(f, call, call')
    PROVE  StoreInv' /\ TodoInv' /\ Undisturbed
<1>1. [at : {"flush", "wait"}, file : {f}] \subseteq [at : {"flush", "wait"}, file : Files]
    OBVIOUS
<1>2. \A r \in Pages : call'[r] = call[r] \/ Resting(call[r])
    BY <1>1, PagesNamed DEF Resumed, Resting
<1>3. StillWhole
    BY WholeAsBefore
<1>4. TodoInv'
    BY <1>2, <1>3, TodoStays
<1>5. Undisturbed
    BY <1>2, RestingIsNot DEF Undisturbed
<1> QED
    BY <1>4, <1>5

LEMMA OneUndisturbed ==
    ASSUME NEW r \in Pages, call[r].at # "idle", \A d \in Named \ {r} : call'[d] = call[d]
    PROVE  Undisturbed
BY PagesNamed DEF Undisturbed, Idle

LEMMA StoresKept ==
    ASSUME StoreInv, TodoInv, Stores
    PROVE  StoreInv' /\ TodoInv' /\ Undisturbed
<1>1. StoreStep /\ todo' = todo
    BY DEF Stores, processingVars
<1>2. ASSUME NEW f \in Files, FlushEnds(f) PROVE StoreInv' /\ TodoInv' /\ Undisturbed
    BY <1>1, <1>2, FlushEndsKept, ResumedKept
<1>3. ASSUME NEW c \in Callers, ObjectWritten(c) PROVE StoreInv' /\ TodoInv' /\ Undisturbed
    <2>1. c \in Pages /\ call[c].at = "object"
        BY <1>3, ProcessingAssumption DEF ObjectWritten
    <2> QED
        BY <1>1, <1>3, <2>1, ObjectWrittenKept, OneUndisturbed
<1>4. ASSUME NEW c \in Callers, Compare(c) PROVE StoreInv' /\ TodoInv' /\ Undisturbed
    <2>1. c \in Pages /\ call[c].at = "compare"
        BY <1>4, ProcessingAssumption DEF Compare
    <2> QED
        BY <1>1, <1>4, <2>1, CompareKept, OneUndisturbed
<1> QED
    BY <1>1, <1>2, <1>3, <1>4 DEF StoreStep

LEMMA StoreFailsKept ==
    ASSUME StoreInv, TodoInv, StoreFails
    PROVE  StoreInv' /\ TodoInv' /\ Undisturbed
<1>1. StoreFault /\ todo' = todo
    BY DEF StoreFails, processingVars
<1>2. ASSUME NEW f \in Files, FlushFails(f) PROVE StoreInv' /\ TodoInv' /\ Undisturbed
    BY <1>1, <1>2, FlushFailsKept, ResumedKept
<1>3. ASSUME NEW c \in Callers, ObjectFails(c) PROVE StoreInv' /\ TodoInv' /\ Undisturbed
    <2>1. c \in Pages /\ call[c].at = "object"
        BY <1>3, ProcessingAssumption DEF ObjectFails
    <2> QED
        BY <1>1, <1>3, <2>1, ObjectFailsKept, OneUndisturbed
<1> QED
    BY <1>1, <1>2, <1>3 DEF StoreFault

LEMMA ClosesKept ==
    ASSUME StoreInv, TodoInv, Closes
    PROVE  StoreInv' /\ TodoInv' /\ Undisturbed
<1>1. CloseSinks /\ todo' = todo
    BY DEF Closes, processingVars
<1>2. StoreInv' /\ UNCHANGED <<accepted, object>> /\ \A d \in Named \ {Closer} : call'[d] = call[d]
    BY <1>1, CloseSinksKept
<1>3. \A r \in Pages : call'[r] = call[r]
    BY <1>2, PagesNamed
<1> QED
    BY <1>1, <1>2, <1>3, WholeAsBefore, TodoStays DEF Undisturbed

LEMMA BrowserFailsKept ==
    ASSUME StoreInv, TodoInv, BrowserFails
    PROVE  StoreInv' /\ TodoInv' /\ call' = call
<1>1. UNCHANGED <<sinks, object, call, todo, accepted>> /\ faults' = faults - 1 /\ faults > 0
    BY DEF BrowserFails, processingVars, CanFail, sinks
<1>2. faults' \in 0..MaxFaults
    BY <1>1, StoreAssumption DEF StoreInv, StoreShapes
<1>3. StoreShapes' /\ CallsCoherent'
    BY <1>1, <1>2 DEF StoreInv, sinks, StoreShapes, CallsCoherent
<1>4. Sinks'
    BY <1>1 DEF StoreInv, sinks, Sinks, SinkKept
<1> QED
    BY <1>1, <1>3, <1>4, WholeAsBefore, TodoStays DEF StoreInv

------------------------------------------------------------------------------
(* The mutex in front of the browser: who comes in stands last, who goes   *)
(* out stood first (BrowserProvider, PlaywrightRenderAdapter).             *)
LEMMA QueueGrows ==
    ASSUME NEW q \in Seq(Turns), NEW t \in Turns
    PROVE  /\ Append(q, t) \in Seq(Turns) /\ Len(Append(q, t)) = Len(q) + 1 /\ Len(q) \in Nat
           /\ Append(q, t)[Len(q) + 1] = t /\ \A i \in 1..Len(q) : Append(q, t)[i] = q[i]
<1>1. Append(q, t) \in Seq(Turns) /\ Len(Append(q, t)) = Len(q) + 1 /\ Len(q) \in Nat
    OBVIOUS
<1>2. Append(q, t)[Len(q) + 1] = t
    OBVIOUS
<1>3. \A i \in 1..Len(q) : Append(q, t)[i] = q[i]
    OBVIOUS
<1> QED
    BY <1>1, <1>2, <1>3

LEMMA QueueShrinks ==
    ASSUME NEW q \in Seq(Turns), q # <<>>
    PROVE  /\ Tail(q) \in Seq(Turns) /\ Head(q) = q[1] /\ 1 \in 1..Len(q) /\ Len(q) \in Nat
           /\ \A i \in 1..Len(q) : i # 1 => \E j \in 1..Len(Tail(q)) : Tail(q)[j] = q[i]
           /\ Tail(q) # <<>> => Tail(q)[Len(Tail(q))] = q[Len(q)]
           /\ Tail(q) = <<>> => q[Len(q)] = q[1]
<1>1. PICK n \in Nat : n = Len(q)
    OBVIOUS
<1> DEFINE t == Tail(q)
<1>2. n # 0 /\ t \in Seq(Turns) /\ Len(t) = n - 1 /\ Head(q) = q[1] /\ \A i \in 1..(n - 1) : t[i] = q[i + 1]
    BY <1>1
<1> HIDE DEF t
<1>3. (t = <<>>) <=> (n = 1)
    <2>1. (t = <<>>) <=> (Len(t) = 0)
        BY <1>2
    <2> QED
        BY <1>2, <2>1
<1>4. ASSUME NEW i \in 1..n, i # 1 PROVE \E j \in 1..(n - 1) : t[j] = q[i]
    <2>1. i - 1 \in 1..(n - 1) /\ (i - 1) + 1 = i
        BY <1>4
    <2>2. t[i - 1] = q[i]
        BY <2>1, <1>2
    <2> QED
        BY <2>1, <2>2
<1>5. t # <<>> => t[n - 1] = q[n]
    <2>1. n # 1 => n - 1 \in 1..(n - 1) /\ (n - 1) + 1 = n
        BY <1>2
    <2> QED
        BY <2>1, <1>2, <1>3
<1>6. 1 \in 1..n
    BY <1>2
<1> QED
    BY <1>1, <1>2, <1>3, <1>4, <1>5, <1>6 DEF t

LEMMA TurnsTold ==
    /\ VoidClose \in Turns /\ LastClose \in Turns /\ VoidClose # LastClose
    /\ \A r \in Pages : Get(r) \in Turns /\ Get(r) # VoidClose /\ Get(r) # LastClose
    /\ \A r, s \in Pages : Get(r) = Get(s) => r = s
<1>1. \A r : Get(r).is = "get" /\ Get(r).request = r
    BY DEF Get
<1>2. VoidClose.is = "close" /\ LastClose.is = "close" /\ VoidClose.of = "render" /\ LastClose.of = "renderer"
    BY DEF VoidClose, LastClose
<1>3. VoidClose \in Turns /\ LastClose \in Turns /\ \A r \in Pages : Get(r) \in Turns
    BY DEF Turns, Get
<1> QED
    BY <1>1, <1>2, <1>3

(* Who launches stands first, so nobody does when another stands there.    *)
LEMMA NobodyLaunches ==
    ASSUME RenderInv, queue # <<>>, \A r \in Pages : queue[1] = Get(r) => op[r] # "launch"
    PROVE  Launching = {}
BY DEF RenderInv, OneServer, Starts, Launching

LEMMA InTheQueue ==
    ASSUME RenderInv, NEW r \in Pages, op[r] \in {"get", "launch"}
    PROVE  queue # <<>>
<1>1. queue \in Seq(Turns) /\ \E i \in 1..Len(queue) : queue[i] = Get(r)
    BY DEF RenderInv, RenderShapes, OneServer
<1> QED
    BY <1>1

(* One who stood first is gone.                                            *)
LEMMA OtherTurns ==
    ASSUME RenderInv, queue # <<>>, queue' = Tail(queue),
           \A r \in Pages : op'[r] \in {"get", "launch"} => op[r] = op'[r] /\ queue[1] # Get(r)
    PROVE  /\ queue' \in Seq(Turns) /\ Launching' = {}
           /\ \A r \in Pages : op'[r] \in {"get", "launch"} => \E i \in 1..Len(queue') : queue'[i] = Get(r)
<1>1. queue \in Seq(Turns)
    BY DEF RenderInv, RenderShapes
<1>2. Launching' = {}
    BY DEF RenderInv, OneServer, Starts, Launching
<1>3. ASSUME NEW r \in Pages, op'[r] \in {"get", "launch"} PROVE \E i \in 1..Len(queue') : queue'[i] = Get(r)
    <2>1. PICK i \in 1..Len(queue) : queue[i] = Get(r)
        BY <1>3 DEF RenderInv, OneServer
    <2>2. i # 1
        BY <1>3, <2>1
    <2> QED
        BY <1>1, <2>1, <2>2, QueueShrinks
<1> QED
    BY <1>1, <1>2, <1>3, QueueShrinks

(* One more comes in; nobody begins to launch.                             *)
LEMMA OneMore ==
    ASSUME RenderInv, NEW t \in Turns, queue' = Append(queue, t), UNCHANGED servers,
           \A r \in Pages : op'[r] \in {"get", "launch"} => op'[r] = op[r] \/ (op'[r] = "get" /\ t = Get(r)),
           Launching' = Launching
    PROVE  /\ queue' \in Seq(Turns) /\ Starts'
           /\ \A r \in Pages : op'[r] \in {"get", "launch"} => \E i \in 1..Len(queue') : queue'[i] = Get(r)
<1>1. queue \in Seq(Turns)
    BY DEF RenderInv, RenderShapes
<1>2. PICK n \in Nat : n = Len(queue)
    BY <1>1
<1>3. queue' \in Seq(Turns) /\ Len(queue') = n + 1 /\ queue'[n + 1] = t /\ \A i \in 1..n : queue'[i] = queue[i]
    BY <1>1, <1>2, QueueGrows
<1>4. ASSUME NEW r \in Pages, op'[r] \in {"get", "launch"} PROVE \E i \in 1..Len(queue') : queue'[i] = Get(r)
    <2>1. CASE op'[r] = op[r]
        <3>1. PICK i \in 1..n : queue[i] = Get(r)
            BY <1>2, <1>4, <2>1 DEF RenderInv, OneServer
        <3>2. i \in 1..(n + 1) /\ queue'[i] = Get(r)
            BY <1>3, <3>1
        <3> QED
            BY <1>3, <3>2
    <2>2. CASE t = Get(r)
        <3>1. n + 1 \in 1..(n + 1)
            OBVIOUS
        <3> QED
            BY <1>3, <2>2, <3>1
    <2> QED
        BY <1>4, <2>1, <2>2
<1>5. UNCHANGED <<browser, launched, connected, Kept>>
    BY DEF servers, Kept
<1>6. ASSUME NEW r \in Pages, op'[r] = "launch"
      PROVE  queue'[1] = Get(r) /\ Kept' \subseteq {launched'} /\ launched' # 0 /\ launched' \notin connected'
    <2>1. op[r] = "launch"
        BY <1>6
    <2>2. queue[1] = Get(r) /\ Kept \subseteq {launched} /\ launched # 0 /\ launched \notin connected /\ \E i \in 1..n : queue[i] = Get(r)
        BY <1>2, <2>1 DEF RenderInv, OneServer, Starts
    <2>3. 1 \in 1..n
        BY <2>2
    <2> QED
        BY <1>3, <1>5, <2>2, <2>3
<1>7. Launching' = {} => Kept' \subseteq {browser'} \cap connected'
    BY <1>5 DEF RenderInv, OneServer, Starts
<1> QED
    BY <1>3, <1>4, <1>6, <1>7 DEF Starts

LEMMA SomeOf ==
    ASSUME NEW S, S \subseteq Pages
    PROVE  IsFiniteSet(S) /\ Cardinality(S) \in Nat /\ Cardinality(S) <= Cardinality(Pages)
<1>1. IsFiniteSet(Pages)
    BY RenderAssumption
<1> QED
    BY <1>1, FS_Subset, FS_CardinalityType

LEMMA Fewer ==
    ASSUME NEW S, NEW T, S \subseteq T, T \subseteq Pages
    PROVE  Cardinality(S) <= Cardinality(T) /\ Cardinality(S) \in Nat /\ Cardinality(T) \in Nat
<1>1. IsFiniteSet(T)
    BY SomeOf
<1> QED
    BY <1>1, FS_Subset, FS_CardinalityType

LEMMA AndOne ==
    ASSUME NEW S, S \subseteq Pages, NEW r \in Pages, r \notin S
    PROVE  Cardinality(S \cup {r}) = Cardinality(S) + 1 /\ Cardinality(S) \in Nat
<1>1. IsFiniteSet(S)
    BY SomeOf
<1> QED
    BY <1>1, FS_AddElement, FS_CardinalityType

(* A browser server runs as long as the mutex says (RenderInv), step by     *)
(* step of the renderer (PlaywrightRenderAdapter, BrowserProvider).        *)
LEMMA RenderFacts ==
    ASSUME RenderInv
    PROVE  /\ render \in [Pages -> {"none", "waiting", "rendering", "rendered", "failed"}]
           /\ op \in [Pages -> {"none", "get", "launch", "page", "done", "failed"}]
           /\ queue \in Seq(Turns) /\ ServerShapes
           /\ launched <= Cardinality(Begun) /\ Cardinality(Active) <= MaxConcurrency
           /\ Begun \subseteq Pages /\ Active \subseteq Pages
BY DEF RenderInv, RenderShapes, Begun, Active

(* Nothing happens to a server or to a page.                               *)
LEMMA ServersStay ==
    ASSUME RenderInv, UNCHANGED <<on, servers>>
    PROVE  ServerShapes' /\ UNCHANGED <<browser, launched, connected, awaited, Kept>>
BY DEF RenderInv, RenderShapes, ServerShapes, servers, Kept

LEMMA RenderStays ==
    ASSUME RenderInv, UNCHANGED renderVars
    PROVE  RenderInv'
BY DEF RenderInv, RenderShapes, ServerShapes, OneServer, Starts, renderVars, servers, Kept, Begun, Active, Launching

LEMMA AcquireSlotKept ==
    ASSUME RenderInv, NEW r \in Pages, AcquireSlot(r)
    PROVE  RenderInv'
<1>1. /\ render[r] = "waiting" /\ Cardinality(Active) < MaxConcurrency /\ render' = [render EXCEPT ![r] = "rendering"]
      /\ op' = [op EXCEPT ![r] = "get"] /\ queue' = Append(queue, Get(r)) /\ UNCHANGED <<on, servers>>
    BY DEF AcquireSlot, Becomes, Goes
<1>2. op[r] = "none"
    BY <1>1 DEF RenderInv, OneServer
<1>3. /\ render' \in [Pages -> {"none", "waiting", "rendering", "rendered", "failed"}]
      /\ op' \in [Pages -> {"none", "get", "launch", "page", "done", "failed"}]
      /\ Active' = Active \cup {r} /\ r \notin Active /\ Begun' = Begun /\ Launching' = Launching
    BY <1>1, <1>2, RenderFacts DEF Active, Begun, Launching
<1>4. Cardinality(Active') <= MaxConcurrency
    <2>1. Cardinality(Active \cup {r}) = Cardinality(Active) + 1 /\ Cardinality(Active) \in Nat
        BY <1>3, RenderFacts, AndOne
    <2> QED
        BY <1>1, <1>3, <2>1, RenderAssumption
<1>5. \A q \in Pages : op'[q] \in {"get", "launch"} => op'[q] = op[q] \/ (op'[q] = "get" /\ Get(r) = Get(q))
    BY <1>1, RenderFacts
<1>6. /\ queue' \in Seq(Turns) /\ Starts'
      /\ \A q \in Pages : op'[q] \in {"get", "launch"} => \E i \in 1..Len(queue') : queue'[i] = Get(q)
    BY <1>1, <1>3, <1>5, TurnsTold, OneMore
<1>7. RenderShapes'
    BY <1>1, <1>3, <1>4, <1>6, RenderFacts, ServersStay DEF RenderShapes
<1>8. \A q \in Pages : render'[q] \in {"none", "waiting"} => op'[q] = "none"
    BY <1>1, RenderFacts DEF RenderInv, OneServer
<1>9. OneServer'
    BY <1>6, <1>8 DEF OneServer
<1> QED
    BY <1>7, <1>9 DEF RenderInv

(* What a caller sees of a render changes, and nothing else.               *)
LEMMA SeenKept ==
    ASSUME RenderInv, NEW r \in Pages, NEW how \in {"waiting", "rendered", "failed"}, render' = [render EXCEPT ![r] = how],
           how = "waiting" => op[r] = "none", UNCHANGED <<op, on, queue, servers>>
    PROVE  RenderInv'
<1>1. /\ render' \in [Pages -> {"none", "waiting", "rendering", "rendered", "failed"}]
      /\ Active' \subseteq Active /\ Begun' = Begun /\ Launching' = Launching
    BY RenderFacts DEF Active, Begun, Launching
<1>2. Cardinality(Active') <= MaxConcurrency
    <2>1. Cardinality(Active') <= Cardinality(Active) /\ Cardinality(Active) \in Nat /\ Cardinality(Active') \in Nat
        BY <1>1, RenderFacts, Fewer
    <2> QED
        BY <2>1, RenderFacts, RenderAssumption
<1>3. RenderShapes'
    BY <1>1, <1>2, RenderFacts, ServersStay DEF RenderShapes
<1>4. \A q \in Pages : render'[q] \in {"none", "waiting"} => op'[q] = "none"
    BY RenderFacts DEF RenderInv, OneServer
<1>5. OneServer'
    BY <1>1, <1>4, ServersStay DEF RenderInv, OneServer, Starts
<1> QED
    BY <1>3, <1>5 DEF RenderInv

LEMMA TimesOutKept ==
    ASSUME RenderInv, NEW r \in Pages, TimesOut(r)
    PROVE  RenderInv'
<1>1. /\ op[r] \in {"get", "launch", "page"} /\ render' = [render EXCEPT ![r] = "failed"]
      /\ queue' = Append(queue, VoidClose) /\ UNCHANGED <<op, on, servers>>
    BY DEF TimesOut, Becomes
<1>2. /\ render' \in [Pages -> {"none", "waiting", "rendering", "rendered", "failed"}]
      /\ Active' \subseteq Active /\ Begun' = Begun /\ Launching' = Launching
    BY <1>1, RenderFacts DEF Active, Begun, Launching
<1>3. Cardinality(Active') <= MaxConcurrency
    <2>1. Cardinality(Active') <= Cardinality(Active) /\ Cardinality(Active) \in Nat /\ Cardinality(Active') \in Nat
        BY <1>2, RenderFacts, Fewer
    <2> QED
        BY <2>1, RenderFacts, RenderAssumption
<1>4. /\ queue' \in Seq(Turns) /\ Starts'
      /\ \A q \in Pages : op'[q] \in {"get", "launch"} => \E i \in 1..Len(queue') : queue'[i] = Get(q)
    BY <1>1, <1>2, TurnsTold, OneMore
<1>5. RenderShapes'
    BY <1>1, <1>2, <1>3, <1>4, RenderFacts, ServersStay DEF RenderShapes
<1>6. \A q \in Pages : render'[q] \in {"none", "waiting"} => op'[q] = "none"
    BY <1>1, RenderFacts DEF RenderInv, OneServer
<1>7. OneServer'
    BY <1>4, <1>6 DEF OneServer
<1> QED
    BY <1>5, <1>7 DEF RenderInv

LEMMA CloserQueues ==
    ASSUME RenderInv, queue' = Append(queue, LastClose), UNCHANGED <<render, op, on, servers>>
    PROVE  RenderInv'
<1>1. Active' = Active /\ Begun' = Begun /\ Launching' = Launching
    BY DEF Active, Begun, Launching
<1>2. /\ queue' \in Seq(Turns) /\ Starts'
      /\ \A q \in Pages : op'[q] \in {"get", "launch"} => \E i \in 1..Len(queue') : queue'[i] = Get(q)
    BY <1>1, TurnsTold, OneMore
<1>3. RenderShapes'
    BY <1>1, <1>2, RenderFacts, ServersStay DEF RenderShapes
<1>4. OneServer'
    BY <1>2 DEF RenderInv, OneServer
<1> QED
    BY <1>3, <1>4 DEF RenderInv

(* Who stands first goes on to its page or gives up.                       *)
LEMMA LeavesKept ==
    ASSUME RenderInv, NEW r \in Pages, op[r] \in {"get", "launch"}, queue # <<>>, queue[1] = Get(r), queue' = Tail(queue),
           NEW where \in {"page", "failed"}, op' = [op EXCEPT ![r] = where], UNCHANGED <<render, launched>>,
           ServerShapes', Kept' \subseteq {browser'} \cap connected'
    PROVE  RenderInv'
<1>1. /\ op' \in [Pages -> {"none", "get", "launch", "page", "done", "failed"}]
      /\ Begun \subseteq Begun' /\ Begun' \subseteq Pages /\ Active' = Active
    BY RenderFacts DEF Begun, Active
<1>2. \A q \in Pages : op'[q] \in {"get", "launch"} => op[q] = op'[q] /\ queue[1] # Get(q)
    BY RenderFacts, TurnsTold
<1>3. /\ queue' \in Seq(Turns) /\ Launching' = {}
      /\ \A q \in Pages : op'[q] \in {"get", "launch"} => \E i \in 1..Len(queue') : queue'[i] = Get(q)
    BY <1>2, OtherTurns
<1>4. launched' <= Cardinality(Begun')
    <2>1. Cardinality(Begun) <= Cardinality(Begun') /\ Cardinality(Begun) \in Nat /\ Cardinality(Begun') \in Nat
        BY <1>1, Fewer
    <2> QED
        BY <2>1, RenderFacts DEF ServerShapes
<1>5. RenderShapes'
    BY <1>1, <1>3, <1>4, RenderFacts DEF RenderShapes
<1>6. \A q \in Pages : render'[q] \in {"none", "waiting"} => op'[q] = "none"
    <2>1. render[r] \notin {"none", "waiting"}
        BY DEF RenderInv, OneServer
    <2> QED
        BY <2>1, RenderFacts DEF RenderInv, OneServer
<1>7. \A q \in Pages : op'[q] # "launch"
    BY <1>3 DEF Launching
<1>8. OneServer'
    BY <1>3, <1>6, <1>7 DEF OneServer, Starts
<1> QED
    BY <1>5, <1>8 DEF RenderInv

LEMMA GetBrowserKept ==
    ASSUME RenderInv, NEW r \in Pages, GetBrowser(r)
    PROVE  RenderInv'
<1>1. op[r] = "get" /\ Head(queue) = Get(r) /\ UNCHANGED <<render, browser>>
    BY DEF GetBrowser
<1>2. queue # <<>> /\ queue[1] = Get(r)
    <2>1. queue # <<>>
        BY <1>1, InTheQueue
    <2> QED
        BY <1>1, <2>1, QueueShrinks, RenderFacts
<1>3. Launching = {} /\ Kept \subseteq {browser} \cap connected
    <2>1. \A q \in Pages : queue[1] = Get(q) => op[q] # "launch"
        BY <1>1, <1>2, TurnsTold
    <2>2. Launching = {}
        BY <1>2, <2>1, NobodyLaunches
    <2> QED
        BY <2>2 DEF RenderInv, OneServer, Starts
<1>4. CASE browser \in connected
    <2>1. /\ op' = [op EXCEPT ![r] = "page"] /\ queue' = Tail(queue) /\ on' = [on EXCEPT ![r] = browser]
          /\ UNCHANGED servers
        BY <1>4 DEF GetBrowser, Goes, servers
    <2>2. ServerShapes'
        BY <2>1, RenderFacts DEF ServerShapes, servers
    <2>3. Kept' \subseteq {browser'} \cap connected' /\ launched' = launched
        BY <1>3, <2>1 DEF servers, Kept
    <2> QED
        BY <1>1, <1>2, <2>1, <2>2, <2>3, LeavesKept
<1>5. CASE browser \notin connected
    <2>1. /\ launched' = launched + 1 /\ alive' = alive \cup {launched + 1}
          /\ op' = [op EXCEPT ![r] = "launch"] /\ queue' = queue /\ UNCHANGED <<on, browser, connected, closing, awaited, lost>>
        BY <1>5 DEF GetBrowser, Goes
    <2>2. Kept' \subseteq {launched'} /\ launched' # 0 /\ launched' \notin connected'
        <3>1. Kept = {} /\ Kept' \subseteq Kept \cup {launched'}
            BY <1>3, <1>5, <2>1 DEF Kept
        <3>2. launched \in Nat /\ connected \subseteq 1..launched
            BY RenderFacts DEF ServerShapes
        <3> QED
            BY <2>1, <3>1, <3>2
    <2>3. /\ op' \in [Pages -> {"none", "get", "launch", "page", "done", "failed"}] /\ Active' = Active
          /\ Begun' = Begun \cup {r} /\ r \notin Begun /\ r \in Launching'
        BY <1>1, <2>1, RenderFacts DEF Begun, Active, Launching
    <2>4. launched' <= Cardinality(Begun')
        <3>1. Cardinality(Begun \cup {r}) = Cardinality(Begun) + 1 /\ Cardinality(Begun) \in Nat
            BY <2>3, RenderFacts, AndOne
        <3> QED
            BY <2>1, <2>3, <3>1, RenderFacts DEF ServerShapes
    <2>5. ServerShapes'
        <3>1. ServerShapes
            BY RenderFacts
        <3>2. 0..launched \subseteq 0..(launched + 1) /\ 1..launched \subseteq 1..(launched + 1) /\ launched + 1 \in 1..(launched + 1)
            BY <3>1 DEF ServerShapes
        <3>3. on \in [Pages -> 0..(launched + 1)]
            BY <3>1, <3>2 DEF ServerShapes
        <3> QED
            BY <2>1, <3>1, <3>2, <3>3 DEF ServerShapes
    <2>6. RenderShapes'
        BY <1>1, <2>1, <2>3, <2>4, <2>5, RenderFacts DEF RenderShapes
    <2>7. \A q \in Pages : render'[q] \in {"none", "waiting"} => op'[q] = "none"
        BY <1>1, <2>1, RenderFacts DEF RenderInv, OneServer
    <2>8. \A q \in Pages : op'[q] \in {"get", "launch"} => \E i \in 1..Len(queue') : queue'[i] = Get(q)
        <3> TAKE q \in Pages
        <3>1. op'[q] \in {"get", "launch"} => op[q] \in {"get", "launch"}
            BY <1>1, <2>1, RenderFacts
        <3> QED
            BY <2>1, <3>1 DEF RenderInv, OneServer
    <2>9. \A q \in Pages : op'[q] = "launch" => q = r
        BY <1>3, <2>1, RenderFacts DEF Launching
    <2>10. OneServer'
        BY <1>2, <2>1, <2>2, <2>3, <2>7, <2>8, <2>9 DEF OneServer, Starts
    <2> QED
        BY <2>6, <2>10 DEF RenderInv
<1> QED
    BY <1>4, <1>5

LEMMA FirstLaunches ==
    ASSUME RenderInv, NEW r \in Pages, op[r] = "launch"
    PROVE  queue # <<>> /\ queue[1] = Get(r) /\ Kept \subseteq {launched} /\ launched # 0 /\ launched \notin connected
BY InTheQueue DEF RenderInv, OneServer, Starts

LEMMA ConnectedKept ==
    ASSUME RenderInv, NEW r \in Pages, Connected(r)
    PROVE  RenderInv'
<1>1. /\ op[r] = "launch" /\ launched \in alive /\ browser' = launched /\ connected' = connected \cup {launched}
      /\ queue' = Tail(queue) /\ op' = [op EXCEPT ![r] = "page"] /\ on' = [on EXCEPT ![r] = launched]
      /\ UNCHANGED <<render, launched, alive, closing, awaited, lost>>
    BY DEF Connected, Goes
<1>2. ServerShapes'
    <2>1. ServerShapes
        BY RenderFacts
    <2>2. launched \in 0..launched
        BY <2>1 DEF ServerShapes
    <2> QED
        BY <1>1, <2>1, <2>2 DEF ServerShapes
<1>3. Kept' \subseteq {browser'} \cap connected'
    BY <1>1, FirstLaunches DEF Kept
<1> QED
    BY <1>1, <1>2, <1>3, FirstLaunches, LeavesKept

(* The launch failed: the server is gone, or lost.                         *)
LEMMA ConnectFailsKept ==
    ASSUME RenderInv, NEW r \in Pages, ConnectFails(r) \/ ConnectKillFails(r)
    PROVE  RenderInv'
<1>1. /\ op[r] = "launch" /\ queue' = Tail(queue) /\ op' = [op EXCEPT ![r] = "failed"]
      /\ UNCHANGED <<render, on, browser, launched, connected, closing, awaited>>
      /\ \/ alive' = alive \ {launched} /\ lost' = lost
         \/ lost' = lost \cup {launched} /\ alive' = alive
    BY DEF ConnectFails, ConnectKillFails, Goes
<1>2. Kept \subseteq {launched} /\ launched # 0 /\ launched \notin connected
    BY <1>1, FirstLaunches
<1>3. Kept' = {}
    BY <1>1, <1>2 DEF Kept
<1>4. ServerShapes'
    <2>1. ServerShapes
        BY RenderFacts
    <2>2. launched \in 1..launched
        BY <1>2, <2>1 DEF ServerShapes
    <2> QED
        BY <1>1, <1>2, <2>1, <2>2 DEF ServerShapes
<1> QED
    BY <1>1, <1>3, <1>4, FirstLaunches, LeavesKept

LEMMA PageEndsKept ==
    ASSUME RenderInv, NEW r \in Pages, PageEnds(r)
    PROVE  RenderInv'
<1>1. op[r] = "page" /\ on' = [on EXCEPT ![r] = 0] /\ UNCHANGED <<render, queue, servers>>
    BY DEF PageEnds
<1>2. PICK where \in {"done", "failed"} : op' = [op EXCEPT ![r] = where]
    BY DEF PageEnds, Goes
<1>3. /\ op' \in [Pages -> {"none", "get", "launch", "page", "done", "failed"}]
      /\ Begun' = Begun /\ Active' = Active /\ Launching' = Launching
    BY <1>1, <1>2, RenderFacts DEF Begun, Active, Launching
<1>4. ServerShapes' /\ UNCHANGED <<browser, launched, connected, Kept>>
    BY <1>1, RenderFacts DEF ServerShapes, servers, Kept
<1>5. \A q \in Pages : render'[q] \in {"none", "waiting"} => op'[q] = "none"
    <2>1. render[r] \notin {"none", "waiting"}
        BY <1>1 DEF RenderInv, OneServer
    <2> QED
        BY <1>1, <1>2, <2>1, RenderFacts DEF RenderInv, OneServer
<1>6. \A q \in Pages : op'[q] \in {"get", "launch"} => op'[q] = op[q]
    BY <1>2, RenderFacts
<1>7. RenderShapes'
    BY <1>1, <1>3, <1>4, RenderFacts DEF RenderShapes
<1>8. OneServer'
    BY <1>1, <1>3, <1>4, <1>5, <1>6 DEF RenderInv, OneServer, Starts
<1> QED
    BY <1>7, <1>8 DEF RenderInv

(* Whoever closes the browser stands first: nobody launches one, and none  *)
(* is left that nobody closes.                                             *)
LEMMA CloseBrowserKept ==
    ASSUME RenderInv, CloseBrowser
    PROVE  RenderInv' /\ Kept' = {} /\ (queue[1] # LastClose => awaited' = awaited)
<1>1. /\ queue # <<>> /\ queue' = Tail(queue) /\ browser' = 0
      /\ UNCHANGED <<render, op, on, launched, alive, connected, lost>>
      /\ Head(queue) \in {VoidClose, LastClose}
      /\ closing' \cup awaited' = closing \cup awaited \cup ({browser} \ {0})
      /\ Head(queue) # LastClose => awaited' = awaited
    BY DEF CloseBrowser, TakeState
<1>2. Head(queue) = queue[1] /\ \A q \in Pages : queue[1] # Get(q)
    BY <1>1, QueueShrinks, TurnsTold, RenderFacts
<1>3. Launching = {} /\ Kept \subseteq {browser} \cap connected
    <2>1. Launching = {}
        BY <1>1, <1>2, NobodyLaunches
    <2> QED
        BY <2>1 DEF RenderInv, OneServer, Starts
<1>4. ServerShapes' /\ Kept' = {}
    <2>1. ServerShapes
        BY RenderFacts
    <2>2. {browser} \ {0} \subseteq 1..launched /\ 0 \in 0..launched /\ 0 \notin 1..launched
        BY <2>1 DEF ServerShapes
    <2>3. ServerShapes'
        BY <1>1, <2>1, <2>2 DEF ServerShapes
    <2>4. Kept' = Kept \ ({browser} \ {0})
        BY <1>1 DEF Kept
    <2>5. 0 \notin Kept
        BY <2>1, <2>2 DEF ServerShapes, Kept
    <2> QED
        BY <1>3, <2>3, <2>4, <2>5
<1>5. /\ queue' \in Seq(Turns) /\ Launching' = {}
      /\ \A q \in Pages : op'[q] \in {"get", "launch"} => \E i \in 1..Len(queue') : queue'[i] = Get(q)
    <2>1. \A q \in Pages : op'[q] \in {"get", "launch"} => op[q] = op'[q] /\ queue[1] # Get(q)
        BY <1>1, <1>2
    <2> QED
        BY <1>1, <2>1, OtherTurns
<1>6. Begun' = Begun /\ Active' = Active
    BY <1>1 DEF Begun, Active
<1>7. RenderShapes'
    BY <1>1, <1>4, <1>5, <1>6, RenderFacts DEF RenderShapes
<1>8. OneServer'
    BY <1>1, <1>4, <1>5 DEF RenderInv, OneServer, Starts, Launching
<1> QED
    BY <1>1, <1>2, <1>4, <1>7, <1>8 DEF RenderInv

(* Servers end, are lost, or lose their connections.                       *)
LEMMA FewerServers ==
    ASSUME RenderInv, UNCHANGED <<render, op, on, queue, browser, launched>>, ServerShapes', Kept' \subseteq Kept,
           connected' \subseteq connected, Kept' \cap connected \subseteq connected'
    PROVE  RenderInv'
<1>1. Begun' = Begun /\ Active' = Active /\ Launching' = Launching
    BY DEF Begun, Active, Launching
<1>2. RenderShapes'
    BY <1>1, RenderFacts DEF RenderShapes
<1>3. Starts'
    BY <1>1 DEF RenderInv, OneServer, Starts
<1>4. OneServer'
    BY <1>3 DEF RenderInv, OneServer
<1> QED
    BY <1>2, <1>4 DEF RenderInv

LEMMA ServersEndKept ==
    ASSUME RenderInv, ServerEnds \/ ServerStays \/ ServerDies \/ ConnectionBreaks
    PROVE  RenderInv' /\ UNCHANGED <<render, queue>> /\ Kept' \subseteq Kept /\ awaited' \subseteq awaited
<1>1. ServerShapes
    BY RenderFacts
<1>2. UNCHANGED <<render, op, on, queue, browser, launched>>
    BY DEF ServerEnds, ServerStays, ServerDies, ConnectionBreaks
<1>3. CASE ServerEnds
    <2>1. PICK n \in closing \cup awaited :
              /\ closing' = closing \ {n} /\ awaited' = awaited \ {n}
              /\ alive' = alive \ {n} /\ connected' = connected \ {n} /\ lost' = lost
        BY <1>3 DEF ServerEnds
    <2>2. ServerShapes'
        BY <1>1, <1>2, <2>1 DEF ServerShapes
    <2>3. Kept' \subseteq Kept /\ awaited' \subseteq awaited /\ connected' \subseteq connected /\ Kept' \cap connected \subseteq connected'
        BY <2>1 DEF Kept
    <2> QED
        BY <1>2, <2>2, <2>3, FewerServers
<1>4. CASE ServerStays
    <2>1. PICK n \in closing \cup awaited :
              /\ closing' = closing \ {n} /\ awaited' = awaited \ {n}
              /\ lost' = lost \cup {n} /\ UNCHANGED <<alive, connected>>
        BY <1>4 DEF ServerStays
    <2>2. ServerShapes'
        BY <1>1, <1>2, <2>1 DEF ServerShapes
    <2>3. Kept' \subseteq Kept /\ awaited' \subseteq awaited /\ connected' \subseteq connected /\ Kept' \cap connected \subseteq connected'
        BY <2>1 DEF Kept
    <2> QED
        BY <1>2, <2>2, <2>3, FewerServers
<1>5. CASE ServerDies
    <2>1. PICK n \in alive : alive' = alive \ {n} /\ connected' = connected \ {n} /\ UNCHANGED <<closing, awaited, lost>>
        BY <1>5 DEF ServerDies
    <2>2. ServerShapes'
        BY <1>1, <1>2, <2>1 DEF ServerShapes
    <2>3. Kept' \subseteq Kept /\ awaited' \subseteq awaited /\ connected' \subseteq connected /\ Kept' \cap connected \subseteq connected'
        BY <2>1 DEF Kept
    <2> QED
        BY <1>2, <2>2, <2>3, FewerServers
<1>6. CASE ConnectionBreaks
    <2>1. PICK n \in connected : connected' = connected \ {n} /\ lost' = lost \cup {n} /\ UNCHANGED <<alive, closing, awaited>>
        BY <1>6 DEF ConnectionBreaks
    <2>2. ServerShapes'
        BY <1>1, <1>2, <2>1 DEF ServerShapes
    <2>3. Kept' \subseteq Kept /\ awaited' \subseteq awaited /\ connected' \subseteq connected /\ Kept' \cap connected \subseteq connected'
        BY <2>1 DEF Kept
    <2> QED
        BY <1>2, <2>2, <2>3, FewerServers
<1> QED
    BY <1>3, <1>4, <1>5, <1>6

------------------------------------------------------------------------------
(* After the last response nobody renders, and the browser's close stands  *)
(* last in the mutex (closeAuxiliary), step by step.                       *)
Awaiting(r) == render[r] \in {"waiting", "rendering"}

LEMMA AwaitsStays ==
    ASSUME NEW r \in Pages, AwaitsPage(r), Awaiting(r)' => Awaiting(r), call[r] = Idle => call'[r] = Idle,
           todo'[r] = todo[r], r \in ended' => r \in ended
    PROVE  AwaitsPage(r)'
BY DEF AwaitsPage, Awaiting

LEMMA QuietStays ==
    ASSUME Quiet, UNCHANGED <<ended, finishing, queue>>, Kept' \subseteq Kept, awaited' \subseteq awaited
    PROVE  Quiet'
BY DEF Quiet

(* A response that is not done with moves, or is done with now.            *)
LEMMA RestMoves ==
    ASSUME EndInv, NEW r \in Pages, r \notin ended, closed' = closed, \A q \in Pages \ {r} : call'[q] = call[q],
           ended' = ended \/ (ended' = ended \cup {r} /\ call'[r] = Idle)
    PROVE  AtRest'
<1>1. closed' = {} /\ \A q \in ended : q \in Pages \ {r} /\ call[q] = Idle
    BY DEF EndInv, AtRest
<1> QED
    BY <1>1 DEF AtRest

(* The store moves; before anything is closed, or nothing in a buffer.     *)
LEMMA RestStays ==
    ASSUME EndInv, Undisturbed, UNCHANGED <<ended, closed>>, closed = {} \/ UNCHANGED <<buffer, flushing>>
    PROVE  AtRest'
<1>1. \A q \in ended : call'[q] = Idle
    BY DEF EndInv, AtRest, Undisturbed
<1> QED
    BY <1>1 DEF EndInv, AtRest

LEMMA SameRest ==
    ASSUME EndInv, UNCHANGED <<ended, storeVars>>
    PROVE  AtRest'
BY DEF EndInv, AtRest, storeVars

(* Only one response moved, and it does not wait for a page.               *)
LEMMA OthersAwait ==
    ASSUME EndInv, NEW r \in Pages, ~Awaiting(r)',
           \A q \in Pages \ {r} : render'[q] = render[q] /\ call'[q] = call[q] /\ todo'[q] = todo[q],
           ended' \subseteq ended \cup {r}
    PROVE  \A q \in Pages : AwaitsPage(q)'
<1> TAKE q \in Pages
<1>1. CASE q = r
    BY <1>1 DEF AwaitsPage, Awaiting
<1>2. CASE q # r
    <2>1. AwaitsPage(q)
        BY DEF EndInv
    <2> QED
        BY <1>2, <2>1, AwaitsStays DEF Awaiting
<1> QED
    BY <1>1, <1>2

LEMMA OthersTodo ==
    ASSUME TodoInv, NEW r \in Pages, NEW s, todo' = [todo EXCEPT ![r] = s]
    PROVE  \A q \in Pages \ {r} : todo'[q] = todo[q]
BY DEF TodoInv

LEMMA ReadyStepQuiet ==
    ASSUME TodoInv, EndInv, closed' = closed, NEW r \in Pages, NEW what \in {"write", "object", "call"}, Ready(r, what),
           Next_(r) \/ Quits(r), UNCHANGED <<renderVars, Free>>, \A q \in Pages \ {r} : call'[q] = call[q]
    PROVE  EndInv'
<1>1. UNCHANGED <<render, queue, awaited, Kept, ended, renderedPages, finishing>> /\ r \notin ended
    BY DEF renderVars, servers, Kept, Free, Ready
<1>2. \A q \in Pages \ {r} : todo'[q] = todo[q]
    BY OthersTodo DEF Next_, Quits, TodoInv
<1>3. ~Awaiting(r)'
    BY <1>1 DEF EndInv, AwaitsPage, Awaiting, Ready
<1>4. \A q \in Pages : AwaitsPage(q)'
    BY <1>1, <1>2, <1>3, OthersAwait
<1>5. Quiet' /\ AtRest'
    BY <1>1, QuietStays, RestMoves DEF EndInv
<1> QED
    BY <1>1, <1>4, <1>5 DEF EndInv

LEMMA RendersQuiet ==
    ASSUME RenderInv, TodoInv, EndInv, NEW r \in Pages, Renders(r), call' = call
    PROVE  EndInv'
<1>1. Ready(r, "render") /\ render[r] = "none" /\ UNCHANGED <<queue, awaited, Kept, ended, finishing, storeVars>>
    BY DEF Renders, servers, Kept
<1>2. Quiet' /\ AtRest'
    BY <1>1, QuietStays, SameRest DEF EndInv
<1>3. CASE r \in WantsRender /\ renderedPages < MaxRenderedPages
    <2>1. renderedPages' = renderedPages + 1 /\ render' = [render EXCEPT ![r] = "waiting"] /\ todo' = todo
        BY <1>3 DEF Renders, Becomes
    <2>2. renderedPages' \in 0..MaxRenderedPages
        BY <1>3, <2>1, ProcessingAssumption DEF EndInv
    <2>3. ASSUME NEW q \in Pages PROVE AwaitsPage(q)'
        <3>1. CASE q = r
            BY <1>1, <2>1, <3>1 DEF AwaitsPage, Ready
        <3>2. CASE q # r
            <4>1. AwaitsPage(q) /\ render'[q] = render[q]
                BY <2>1, <3>2, RenderFacts DEF EndInv
            <4> QED
                BY <1>1, <2>1, <4>1, AwaitsStays DEF Awaiting
        <3> QED
            BY <3>1, <3>2
    <2> QED
        BY <1>1, <1>2, <2>2, <2>3 DEF EndInv
<1>4. CASE ~(r \in WantsRender /\ renderedPages < MaxRenderedPages)
    <2>1. todo' = [todo EXCEPT ![r] = Persist(r)] /\ UNCHANGED <<render, renderedPages>>
        BY <1>4 DEF Renders
    <2>2. \A q \in Pages \ {r} : todo'[q] = todo[q]
        BY <2>1, OthersTodo
    <2>3. ~Awaiting(r)'
        BY <1>1, <2>1 DEF Awaiting
    <2>4. \A q \in Pages : AwaitsPage(q)'
        BY <1>1, <2>1, <2>2, <2>3, OthersAwait
    <2> QED
        BY <1>1, <1>2, <2>1, <2>4 DEF EndInv
<1> QED
    BY <1>3, <1>4

LEMMA RenderReturnsQuiet ==
    ASSUME TodoInv, EndInv, NEW r \in Pages, RenderReturns(r), call' = call
    PROVE  EndInv'
<1>1. /\ render[r] \in {"rendered", "failed"}
      /\ UNCHANGED <<render, queue, awaited, Kept, ended, renderedPages, finishing, storeVars>>
    BY DEF RenderReturns, renderVars, servers, Kept, Free
<1>2. \A q \in Pages \ {r} : todo'[q] = todo[q]
    BY OthersTodo DEF RenderReturns
<1>3. ~Awaiting(r)'
    BY <1>1 DEF Awaiting
<1>4. \A q \in Pages : AwaitsPage(q)'
    BY <1>1, <1>2, <1>3, OthersAwait
<1>5. Quiet' /\ AtRest'
    BY <1>1, QuietStays, SameRest DEF EndInv
<1> QED
    BY <1>1, <1>4, <1>5 DEF EndInv

LEMMA EndsQuiet ==
    ASSUME StoreInv, TodoInv, EndInv, NEW r \in Pages, Ends(r), \A q \in Pages \ {r} : call'[q] = call[q]
    PROVE  EndInv'
<1>1. /\ r \notin ended /\ (call[r] = Threw \/ todo[r] = <<>>) /\ ended' = ended \cup {r} /\ Quits(r)
      /\ UNCHANGED <<render, queue, awaited, Kept, renderedPages, finishing, closed>> /\ call' = [call EXCEPT ![r] = Idle]
    BY DEF Ends, renderVars, servers, Kept, sinks
<1>2. \A q \in Pages \ {r} : todo'[q] = todo[q]
    BY <1>1, OthersTodo DEF Quits
<1>3. ~Awaiting(r)'
    <2>1. Threw # Idle
        BY DEF Threw, Idle
    <2> QED
        BY <1>1, <2>1 DEF EndInv, AwaitsPage, Awaiting
<1>4. \A q \in Pages : AwaitsPage(q)'
    BY <1>1, <1>2, <1>3, OthersAwait
<1>5. Quiet'
    BY <1>1 DEF EndInv, Quiet
<1>6. ended' \subseteq Pages
    BY <1>1 DEF EndInv
<1>7. AtRest'
    <2>1. call'[r] = Idle
        BY <1>1, PagesNamed DEF StoreInv, StoreShapes
    <2> QED
        BY <1>1, <2>1, RestMoves
<1> QED
    BY <1>1, <1>4, <1>5, <1>6, <1>7 DEF EndInv

(* The store, and servers that end, disturb nobody who waits.              *)
LEMMA StoreQuiet ==
    ASSUME EndInv, Undisturbed, UNCHANGED <<processingVars, render>>, Quiet', AtRest'
    PROVE  EndInv'
<1>1. UNCHANGED <<todo, ended, renderedPages, finishing>>
    BY DEF processingVars
<1>2. ASSUME NEW q \in Pages PROVE AwaitsPage(q)'
    <2>1. AwaitsPage(q)
        BY DEF EndInv
    <2> QED
        BY <1>1, <2>1, AwaitsStays DEF Awaiting, Undisturbed
<1> QED
    BY <1>1, <1>2 DEF EndInv

(* A step of the renderer.                                                 *)
LEMMA RenderQuiet ==
    ASSUME EndInv, UNCHANGED <<storeVars, processingVars>>, \A q \in Pages : Awaiting(q)' => Awaiting(q), Quiet'
    PROVE  EndInv'
<1>1. UNCHANGED <<todo, ended, renderedPages, finishing, call>>
    BY DEF processingVars, storeVars
<1>2. ASSUME NEW q \in Pages PROVE AwaitsPage(q)'
    <2>1. AwaitsPage(q)
        BY DEF EndInv
    <2> QED
        BY <1>1, <2>1, AwaitsStays
<1>3. AtRest'
    BY <1>1, SameRest
<1> QED
    BY <1>1, <1>2, <1>3 DEF EndInv

LEMMA NobodyAwaits ==
    ASSUME EndInv, NEW r \in Pages, Awaiting(r)
    PROVE  finishing = "no"
BY DEF EndInv, AwaitsPage, Awaiting, Quiet

(* One who stood first leaves; the close still stands last.                *)
LEMMA LeavesQuiet ==
    ASSUME RenderInv, EndInv, UNCHANGED processingVars, queue # <<>>, queue' = Tail(queue), queue[1] # LastClose \/ Kept' = {}
    PROVE  Quiet'
<1>1. UNCHANGED <<ended, finishing>> /\ Quiet
    BY DEF processingVars, EndInv
<1>2. /\ queue' # <<>> => queue'[Len(queue')] = queue[Len(queue)]
      /\ queue' = <<>> => queue[Len(queue)] = queue[1]
    BY RenderFacts, QueueShrinks
<1>3. finishing' # "no" => finishing' = "closing"
    BY <1>1 DEF Quiet
<1> QED
    BY <1>1, <1>2, <1>3 DEF Quiet

LEMMA SeenQuiet ==
    ASSUME RenderInv, NEW r \in Pages, NEW how, render' = [render EXCEPT ![r] = how], Awaiting(r)
    PROVE  \A q \in Pages : Awaiting(q)' => Awaiting(q)
BY RenderFacts DEF Awaiting

(* A launch ends, whatever becomes of the server.                          *)
LEMMA LaunchEnds ==
    ASSUME RenderInv, EndInv, NEW r \in Pages, Connected(r) \/ ConnectFails(r) \/ ConnectKillFails(r), UNCHANGED processingVars
    PROVE  RenderInv' /\ Quiet' /\ render' = render
<1>1. op[r] = "launch" /\ queue' = Tail(queue) /\ render' = render
    BY DEF Connected, ConnectFails, ConnectKillFails
<1>2. queue # <<>> /\ queue[1] # LastClose
    BY <1>1, FirstLaunches, TurnsTold
<1> QED
    BY <1>1, <1>2, LeavesQuiet, ConnectedKept, ConnectFailsKept

------------------------------------------------------------------------------
(* ResourceProcessor: a step of a response.                                *)
LEMMA StepKept ==
    ASSUME ProcessingInv, NEW r \in Pages, Step(r)
    PROVE  ProcessingInv'
<1>1. StoreInv /\ TodoInv /\ RenderInv /\ EndInv
    BY DEF ProcessingInv
<1>2. \A q \in Pages \ {r} : q \in Named \ {r}
    BY PagesNamed
<1>3. CASE WritesRecord(r)
    <2>1. StoreInv' /\ TodoInv' /\ closed' = closed /\ \A d \in Named \ {r} : call'[d] = call[d]
        BY <1>1, <1>3, WritesRecordKept DEF WritesRecord, Write, storeVars
    <2>2. UNCHANGED <<renderVars, Free>> /\ Ready(r, "write") /\ (Next_(r) \/ Quits(r))
        BY <1>3 DEF WritesRecord
    <2>3. EndInv'
        BY <1>1, <1>2, <2>1, <2>2, ReadyStepQuiet
    <2>4. RenderInv'
        BY <1>1, <2>2, RenderStays
    <2> QED
        BY <2>1, <2>3, <2>4 DEF ProcessingInv
<1>4. CASE WritesObject(r)
    <2>1. StoreInv' /\ TodoInv' /\ closed' = closed /\ \A d \in Named \ {r} : call'[d] = call[d]
        BY <1>1, <1>4, WritesObjectKept DEF WritesObject, WriteObject, sinks
    <2>2. UNCHANGED <<renderVars, Free>> /\ Ready(r, "object") /\ Next_(r)
        BY <1>4 DEF WritesObject
    <2>3. EndInv'
        BY <1>1, <1>2, <2>1, <2>2, ReadyStepQuiet
    <2>4. RenderInv'
        BY <1>1, <2>2, RenderStays
    <2> QED
        BY <2>1, <2>3, <2>4 DEF ProcessingInv
<1>5. CASE Calls(r)
    <2>1. StoreInv' /\ TodoInv' /\ call' = call /\ closed' = closed
        BY <1>1, <1>5, CallsKept DEF Calls, storeVars
    <2>2. UNCHANGED <<renderVars, Free>> /\ Ready(r, "call") /\ (Next_(r) \/ Quits(r))
        BY <1>5 DEF Calls
    <2>3. EndInv'
        BY <1>1, <2>1, <2>2, ReadyStepQuiet
    <2>4. RenderInv'
        BY <1>1, <2>2, RenderStays
    <2> QED
        BY <2>1, <2>3, <2>4 DEF ProcessingInv
<1>6. CASE Renders(r)
    <2>1. StoreInv' /\ TodoInv' /\ call' = call
        BY <1>1, <1>6, RendersKept
    <2>2. EndInv'
        BY <1>1, <1>6, <2>1, RendersQuiet
    <2>3. render[r] = "none" /\ UNCHANGED <<op, on, queue, servers>>
        BY <1>6 DEF Renders
    <2>4. op[r] = "none"
        BY <1>1, <2>3 DEF RenderInv, OneServer
    <2>5. render' = [render EXCEPT ![r] = "waiting"] \/ render' = render
        BY <1>6 DEF Renders, Becomes
    <2>6. RenderInv'
        BY <1>1, <2>3, <2>4, <2>5, SeenKept, RenderStays DEF renderVars
    <2> QED
        BY <2>1, <2>2, <2>6 DEF ProcessingInv
<1>7. CASE RenderReturns(r)
    <2>1. StoreInv' /\ TodoInv' /\ call' = call
        BY <1>1, <1>7, RenderReturnsKept
    <2>2. EndInv'
        BY <1>1, <1>7, <2>1, RenderReturnsQuiet
    <2>3. RenderInv'
        BY <1>1, <1>7, RenderStays DEF RenderReturns
    <2> QED
        BY <2>1, <2>2, <2>3 DEF ProcessingInv
<1>8. CASE Ends(r)
    <2>1. StoreInv' /\ TodoInv' /\ \A d \in Named \ {r} : call'[d] = call[d]
        BY <1>1, <1>8, EndsKept
    <2>2. EndInv'
        BY <1>1, <1>2, <1>8, <2>1, EndsQuiet
    <2>3. RenderInv'
        BY <1>1, <1>8, RenderStays DEF Ends
    <2> QED
        BY <2>1, <2>2, <2>3 DEF ProcessingInv
<1> QED
    BY <1>3, <1>4, <1>5, <1>6, <1>7, <1>8 DEF Step

(* PlaywrightRenderAdapter: a step of a rendering.                         *)
LEMMA RenderKept ==
    ASSUME ProcessingInv, NEW r \in Pages, Render(r) \/ PageFinishes(r)
    PROVE  ProcessingInv'
<1>1. StoreInv /\ TodoInv /\ RenderInv /\ EndInv
    BY DEF ProcessingInv
<1>2. UNCHANGED <<storeVars, processingVars>>
    BY DEF Render, PageFinishes
<1>3. StoreInv' /\ TodoInv'
    BY <1>1, <1>2, NothingKept DEF processingVars
<1>4. UNCHANGED <<ended, finishing>> /\ Quiet
    BY <1>1, <1>2 DEF processingVars, EndInv
<1> SUFFICES RenderInv' /\ EndInv'
    BY <1>3 DEF ProcessingInv
<1>5. CASE AcquireSlot(r)
    <2>1. Awaiting(r) /\ render' = [render EXCEPT ![r] = "rendering"]
        BY <1>5 DEF AcquireSlot, Becomes, Awaiting
    <2>2. Quiet'
        BY <1>1, <1>4, <2>1, NobodyAwaits DEF Quiet
    <2> QED
        BY <1>1, <1>2, <1>5, <2>1, <2>2, AcquireSlotKept, SeenQuiet, RenderQuiet
<1>6. CASE GetBrowser(r)
    <2>1. op[r] = "get" /\ Head(queue) = Get(r) /\ render' = render
        BY <1>6 DEF GetBrowser
    <2>2. queue # <<>>
        BY <1>1, <2>1, InTheQueue
    <2>3. queue[1] # LastClose
        BY <1>1, <2>1, <2>2, RenderFacts, QueueShrinks, TurnsTold
    <2>4. queue' = Tail(queue) => Quiet'
        BY <1>1, <1>2, <2>2, <2>3, LeavesQuiet
    <2>5. queue' = queue => Quiet'
        <3>1. awaited' = awaited
            BY <1>6 DEF GetBrowser
        <3> QED
            BY <1>4, <2>2, <3>1 DEF Quiet
    <2>6. Quiet'
        BY <1>6, <2>4, <2>5 DEF GetBrowser
    <2> QED
        BY <1>1, <1>2, <1>6, <2>1, <2>6, GetBrowserKept, RenderQuiet DEF Awaiting
<1>7. CASE Connected(r) \/ ConnectFails(r)
    BY <1>1, <1>2, <1>7, LaunchEnds, RenderQuiet DEF Awaiting
<1>8. CASE Settles(r) \/ AcquireAborted(r)
    <2>1. Awaiting(r) /\ UNCHANGED <<op, on, queue, servers>>
        BY <1>8 DEF Settles, AcquireAborted, Awaiting
    <2>2. PICK how \in {"rendered", "failed"} : render' = [render EXCEPT ![r] = how]
        BY <1>8 DEF Settles, AcquireAborted, Becomes
    <2>3. RenderInv'
        BY <1>1, <2>1, <2>2, SeenKept
    <2>4. Quiet'
        BY <1>1, <1>4, <2>1, QuietStays, ServersStay
    <2> QED
        BY <1>1, <1>2, <2>1, <2>2, <2>3, <2>4, SeenQuiet, RenderQuiet
<1>9. CASE TimesOut(r)
    <2>1. Awaiting(r) /\ render' = [render EXCEPT ![r] = "failed"]
        BY <1>9 DEF TimesOut, Becomes, Awaiting
    <2>2. Quiet'
        BY <1>1, <1>4, <2>1, NobodyAwaits DEF Quiet
    <2> QED
        BY <1>1, <1>2, <1>9, <2>1, <2>2, TimesOutKept, SeenQuiet, RenderQuiet
<1>10. CASE PageEnds(r)
    <2>1. UNCHANGED <<render, queue, awaited, Kept>>
        BY <1>10 DEF PageEnds, servers, Kept
    <2>2. Quiet'
        BY <1>4, <2>1, QuietStays
    <2> QED
        BY <1>1, <1>2, <1>10, <2>1, <2>2, PageEndsKept, RenderQuiet DEF Awaiting
<1> QED
    BY <1>5, <1>6, <1>7, <1>8, <1>9, <1>10 DEF Render, PageFinishes

(* The store, the browser's close, and servers that end or are lost.       *)
LEMMA SharedKept ==
    ASSUME ProcessingInv, Stores \/ StoreFails \/ ClosesBrowser \/ BrowserFails
    PROVE  ProcessingInv'
<1>1. StoreInv /\ TodoInv /\ RenderInv /\ EndInv /\ Quiet
    BY DEF ProcessingInv, EndInv
<1>2. CASE Stores \/ StoreFails
    <2>1. StoreInv' /\ TodoInv' /\ Undisturbed
        BY <1>1, <1>2, StoresKept, StoreFailsKept
    <2>2. UNCHANGED <<renderVars, processingVars>> /\ UNCHANGED <<render, queue, awaited, Kept, ended, finishing>>
        BY <1>2 DEF Stores, StoreFails, renderVars, servers, Kept, processingVars
    <2>3. closed' = closed /\ (closed = {} \/ UNCHANGED <<buffer, flushing>>)
        <3>1. ASSUME NEW f \in Files, FlushEnds(f) \/ FlushFails(f) PROVE closed' = closed /\ closed = {}
            BY <1>1, <3>1 DEF FlushEnds, FlushFails, EndInv, AtRest
        <3>2. ASSUME NEW c \in Callers, ObjectWritten(c) \/ Compare(c) \/ ObjectFails(c) PROVE UNCHANGED <<closed, buffer, flushing>>
            BY <3>2 DEF ObjectWritten, Compare, ObjectFails, sinks
        <3> QED
            BY <1>2, <3>1, <3>2 DEF Stores, StoreFails, StoreStep, StoreFault
    <2>4. EndInv'
        BY <1>1, <2>1, <2>2, <2>3, StoreQuiet, QuietStays, RestStays
    <2>5. RenderInv'
        BY <1>1, <2>2, RenderStays
    <2> QED
        BY <2>1, <2>4, <2>5 DEF ProcessingInv
<1>3. CASE ClosesBrowser
    <2>1. (CloseBrowser \/ ServerEnds) /\ UNCHANGED <<storeVars, processingVars>> /\ UNCHANGED <<ended, finishing>>
        BY <1>3 DEF ClosesBrowser, processingVars
    <2>2. StoreInv' /\ TodoInv'
        BY <1>1, <2>1, NothingKept DEF processingVars
    <2>3. RenderInv' /\ Quiet' /\ render' = render
        <3>1. CASE CloseBrowser
            <4>1. queue # <<>> /\ queue' = Tail(queue) /\ render' = render
                BY <3>1 DEF CloseBrowser, TakeState
            <4>2. RenderInv' /\ Kept' = {}
                BY <1>1, <3>1, CloseBrowserKept
            <4> QED
                BY <1>1, <2>1, <4>1, <4>2, LeavesQuiet
        <3>2. CASE ServerEnds
            BY <1>1, <2>1, <3>2, ServersEndKept, QuietStays
        <3> QED
            BY <2>1, <3>1, <3>2
    <2>4. EndInv'
        BY <1>1, <2>1, <2>3, RenderQuiet DEF Awaiting
    <2> QED
        BY <2>2, <2>3, <2>4 DEF ProcessingInv
<1>4. CASE BrowserFails
    <2>1. StoreInv' /\ TodoInv' /\ call' = call
        BY <1>1, <1>4, BrowserFailsKept
    <2>2. UNCHANGED <<processingVars, sinks>> /\ UNCHANGED <<ended, finishing, closed, buffer, flushing>>
        BY <1>4 DEF BrowserFails, processingVars, sinks
    <2>3. RenderInv' /\ Quiet' /\ render' = render
        <3>1. CASE ServerStays \/ ServerDies \/ ConnectionBreaks
            BY <1>1, <2>2, <3>1, ServersEndKept, QuietStays
        <3>2. ASSUME NEW r \in Pages, ConnectKillFails(r) PROVE RenderInv' /\ Quiet' /\ render' = render
            BY <1>1, <2>2, <3>2, LaunchEnds
        <3> QED
            BY <1>4, <3>1, <3>2 DEF BrowserFails
    <2>4. Undisturbed
        BY <2>1 DEF Undisturbed
    <2>5. EndInv'
        BY <1>1, <2>2, <2>3, <2>4, StoreQuiet, RestStays
    <2> QED
        BY <2>1, <2>3, <2>5 DEF ProcessingInv
<1> QED
    BY <1>2, <1>3, <1>4

(* CrawlRuntime.closeAuxiliary and closeStore.                             *)
LEMMA FinishKept ==
    ASSUME ProcessingInv, Finish
    PROVE  ProcessingInv'
<1>1. StoreInv /\ TodoInv /\ RenderInv /\ EndInv
    BY DEF ProcessingInv
<1>2. \A q \in Pages : AwaitsPage(q)
    BY <1>1 DEF EndInv
<1>3. queue \in Seq(Turns)
    BY <1>1, RenderFacts
<1>4. CASE CloseRenderer
    <2>1. /\ ended = Pages /\ finishing' = "closing" /\ queue' = Append(queue, LastClose)
          /\ UNCHANGED <<storeVars, render, op, on, servers, todo, ended, renderedPages>>
        BY <1>4 DEF CloseRenderer
    <2>2. StoreInv' /\ TodoInv' /\ call' = call
        BY <1>1, <2>1, NothingKept
    <2>3. RenderInv'
        BY <1>1, <2>1, CloserQueues
    <2>4. PICK n \in Nat : n = Len(queue)
        BY <1>3
    <2>5. Len(queue') = n + 1 /\ queue'[n + 1] = LastClose /\ queue' \in Seq(Turns)
        BY <1>3, <2>1, <2>4, QueueGrows, TurnsTold
    <2>6. queue' # <<>>
        BY <2>5
    <2>7. Quiet'
        BY <2>1, <2>5, <2>6 DEF Quiet
    <2>8. \A q \in Pages : AwaitsPage(q)'
        BY <1>2, <2>1, <2>2, AwaitsStays DEF Awaiting
    <2>9. EndInv'
        BY <1>1, <2>1, <2>7, <2>8, SameRest DEF EndInv
    <2> QED
        BY <2>2, <2>3, <2>9 DEF ProcessingInv
<1>5. CASE CloseStore \/ Closed
    <2>1. /\ UNCHANGED <<storeVars, renderVars, todo, ended, renderedPages>> /\ UNCHANGED <<render, queue, awaited, Kept>>
          /\ finishing # "no" /\ finishing' \in {"storing", "failed", "closed"}
        BY <1>5 DEF CloseStore, Closed, renderVars, servers, Kept
    <2>2. StoreInv' /\ TodoInv' /\ call' = call
        BY <1>1, <2>1, NothingKept
    <2>3. RenderInv'
        BY <1>1, <2>1, RenderStays
    <2>4. queue = <<>> /\ awaited = {}
        <3>1. CASE CloseStore
            <4> SUFFICES ASSUME queue # <<>> PROVE FALSE
                BY <3>1 DEF CloseStore
            <4>1. Len(queue) \in DOMAIN queue
                BY <1>3
            <4>2. queue[Len(queue)] = LastClose
                BY <1>1, <3>1 DEF EndInv, Quiet, CloseStore
            <4> QED
                BY <3>1, <4>1, <4>2 DEF CloseStore, ToSet
        <3>2. CASE Closed
            BY <1>1, <3>2 DEF EndInv, Quiet, Closed
        <3> QED
            BY <1>5, <3>1, <3>2
    <2>5. Quiet'
        BY <1>1, <2>1, <2>4 DEF EndInv, Quiet
    <2>6. \A q \in Pages : AwaitsPage(q)'
        BY <1>2, <2>1, <2>2, AwaitsStays DEF Awaiting
    <2>7. EndInv'
        BY <1>1, <2>1, <2>5, <2>6, SameRest DEF EndInv
    <2> QED
        BY <2>2, <2>3, <2>7 DEF ProcessingInv
<1>6. CASE Closes
    <2>1. StoreInv' /\ TodoInv' /\ Undisturbed
        BY <1>1, <1>6, ClosesKept
    <2>2. UNCHANGED <<renderVars, processingVars>> /\ UNCHANGED <<render, queue, awaited, Kept, ended, finishing>>
        BY <1>6 DEF Closes, renderVars, servers, Kept, processingVars
    <2>3. finishing = "storing" /\ CloseSinks /\ ended = Pages
        BY <1>1, <1>6 DEF Closes, EndInv, Quiet
    <2>4. call[Closer] = Idle /\ Files \ closed # {} /\ closed = {}
        BY <1>1, <2>3 DEF CloseSinks, EndInv, AtRest
    <2>5. ASSUME NEW f \in Files PROVE flushing[f] = NoFlush
        <3>1. flushing[f].by \in Named /\ (flushing[f] # NoFlush => call[flushing[f].by] = [at |-> "flush", file |-> f])
            BY <1>1 DEF StoreInv, StoreShapes, CallsCoherent
        <3>2. \A d \in Named : call[d] = Idle
            BY <1>1, <2>3, <2>4, ProcessingAssumption DEF EndInv, AtRest, Named
        <3> QED
            BY <3>1, <3>2 DEF Idle
    <2>6. AtRest'
        <3>1. CASE closed' = closed
            BY <1>1, <2>1, <2>2, <2>4, <3>1, RestStays
        <3>2. CASE closed' # closed
            <4>1. closed' = Files /\ UNCHANGED <<buffer, flushing, call>> /\ \A f \in Files \ closed : buffer[f] = <<>>
                BY <2>3, <3>2 DEF CloseSinks
            <4> QED
                BY <1>1, <2>2, <2>3, <2>4, <2>5, <4>1 DEF EndInv, AtRest
        <3> QED
            BY <3>1, <3>2
    <2>7. EndInv'
        BY <1>1, <2>1, <2>2, <2>6, StoreQuiet, QuietStays DEF EndInv
    <2>8. RenderInv'
        BY <1>1, <2>2, RenderStays
    <2> QED
        BY <2>1, <2>7, <2>8 DEF ProcessingInv
<1> QED
    BY <1>4, <1>5, <1>6 DEF Finish

LEMMA ProcessingBegins == Init => ProcessingInv
<1> SUFFICES ASSUME Init PROVE ProcessingInv
    OBVIOUS
<1>1. StoreInit /\ RenderInit /\ renderedPages = 0 /\ finishing = "no"
    BY DEF Init
<1>2. PICK run \in Runs : /\ flushEvery = run.flushEvery
                          /\ todo = [r \in Pages |-> IF r \in run.responses THEN processPrepared(r) ELSE <<>>]
                          /\ ended = Pages \ run.responses
    BY DEF Init
<1>3. StoreInv
    <2>1. flushEvery \in Nat
        BY <1>2, ProcessingAssumption
    <2> QED
        BY <1>1, <2>1, StoreBegins
<1>4. \A r \in Pages : Orderly(todo[r])
    <2>1. \A r \in Pages : Orderly(processPrepared(r))
        BY PreparedOrderly
    <2>2. Orderly(<<>>)
        BY EmptyOrderly
    <2> QED
        BY <1>2, <2>1, <2>2
<1>5. TodoInv
    <2>1. todo \in [Pages -> Seq(Tasks)]
        <3>1. \A r \in Pages : todo[r] \in Seq(Tasks)
            BY <1>4 DEF Orderly
        <3>2. DOMAIN todo = Pages /\ todo = [r \in DOMAIN todo |-> todo[r]]
            BY <1>2
        <3> QED
            BY <3>1, <3>2
    <2>2. ASSUME NEW r \in Pages PROVE Ordered(todo[r]) /\ EvidenceNext(r)
        <3>1. todo[r] \in Seq(Tasks) /\ Ordered(todo[r]) /\ (todo[r] # <<>> => ~IsEvidence(todo[r][1]))
            BY <1>4 DEF Orderly
        <3>2. todo[r] # <<>> => Head(todo[r]) = todo[r][1]
            BY <3>1
        <3> QED
            BY <3>1, <3>2 DEF EvidenceNext
    <2>3. EvidenceStored
        <3>1. accepted["evidence"] = <<>>
            BY <1>1, FilesNamed DEF StoreInit
        <3>2. DOMAIN accepted["evidence"] = {}
            BY <3>1
        <3> QED
            BY <3>2 DEF EvidenceStored
    <2> QED
        BY <2>1, <2>2, <2>3 DEF TodoInv
<1>6. RenderInv
    <2>1. /\ render = [r \in Pages |-> "none"] /\ op = [r \in Pages |-> "none"]
          /\ on = [r \in Pages |-> 0] /\ queue = <<>> /\ browser = 0 /\ launched = 0
          /\ alive = {} /\ connected = {} /\ closing = {} /\ awaited = {} /\ lost = {}
        BY <1>1 DEF RenderInit
    <2>2. Begun = {} /\ Active = {} /\ Launching = {}
        BY <2>1 DEF Begun, Active, Launching
    <2>3. Cardinality(Begun) = 0 /\ Cardinality(Active) = 0
        BY <2>2, FS_EmptySet
    <2>4. RenderShapes
        BY <2>1, <2>3, RenderAssumption DEF RenderShapes, ServerShapes
    <2>5. OneServer
        BY <2>1 DEF OneServer, Starts, Kept
    <2> QED
        BY <2>4, <2>5 DEF RenderInv
<1>7. EndInv
    <2>1. \A r \in Pages : AwaitsPage(r)
        BY <1>1 DEF RenderInit, AwaitsPage
    <2>2. AtRest
        BY <1>1, <1>2, ProcessingAssumption DEF StoreInit, AtRest
    <2> QED
        BY <1>1, <1>2, <2>1, <2>2, ProcessingAssumption DEF EndInv, Quiet
<1> QED
    BY <1>3, <1>5, <1>6, <1>7 DEF ProcessingInv

LEMMA ProcessingStep == ProcessingInv /\ [Next]_vars => ProcessingInv'
<1> SUFFICES ASSUME ProcessingInv, [Next]_vars PROVE ProcessingInv'
    OBVIOUS
<1>1. CASE UNCHANGED vars
    <2>1. StoreInv /\ TodoInv /\ RenderInv /\ EndInv
        BY DEF ProcessingInv
    <2>2. /\ UNCHANGED <<storeVars, renderVars, processingVars>>
          /\ UNCHANGED <<todo, call, render, queue, awaited, Kept, ended, finishing>>
        BY <1>1 DEF vars, storeVars, renderVars, servers, Kept, processingVars
    <2>3. StoreInv' /\ TodoInv' /\ RenderInv'
        BY <2>1, <2>2, NothingKept, RenderStays
    <2>4. Undisturbed /\ Quiet' /\ AtRest'
        BY <2>1, <2>2, QuietStays, SameRest DEF Undisturbed, EndInv
    <2>5. EndInv'
        BY <2>1, <2>2, <2>4, StoreQuiet
    <2> QED
        BY <2>3, <2>5 DEF ProcessingInv
<1>2. ASSUME NEW r \in Pages, Step(r) \/ Render(r) \/ PageFinishes(r) PROVE ProcessingInv'
    BY <1>2, StepKept, RenderKept
<1>3. CASE Stores \/ StoreFails \/ ClosesBrowser \/ BrowserFails
    BY <1>3, SharedKept
<1>4. CASE Finish
    BY <1>4, FinishKept
<1> QED
    BY <1>1, <1>2, <1>3, <1>4 DEF Next

------------------------------------------------------------------------------
(* What holds in every state of the processing: who is in which call of    *)
(* the store, what its files hold, which body is there before its record,  *)
(* which servers somebody uses or has yet to close, and that nothing is    *)
(* left when the sinks are closed.                                         *)
THEOREM Invariance == Spec => []ProcessingInv
<1>1. Init => ProcessingInv
    BY ProcessingBegins
<1>2. ProcessingInv /\ [Next]_vars => ProcessingInv'
    BY ProcessingStep
<1> QED
    BY <1>1, <1>2, PTL DEF Spec

(* Variables keep their types: whoever waits for a flush waits for one     *)
(* that is in flight, no more renders run than the semaphore has permits,  *)
(* and whoever launches a browser holds the mutex (JsonLineSink.flush,     *)
(* AsyncSemaphore, BrowserProvider.get).                                   *)
THEOREM TypeCorrect == Spec => []TypeOK
<1>1. ProcessingInv => TypeOK
    <2> SUFFICES ASSUME ProcessingInv PROVE TypeOK
        OBVIOUS
    <2>1. StoreInv /\ RenderInv /\ EndInv
        BY DEF ProcessingInv
    <2>2. StoreTypeOK
        BY <2>1 DEF StoreInv, StoreShapes, CallsCoherent, StoreTypeOK
    <2>3. launched \in 0..Cardinality(Pages)
        <3>1. Begun \subseteq Pages /\ launched \in Nat /\ launched <= Cardinality(Begun)
            BY <2>1, RenderFacts DEF ServerShapes
        <3>2. Cardinality(Begun) <= Cardinality(Pages) /\ Cardinality(Begun) \in Nat /\ Cardinality(Pages) \in Nat
            BY <3>1, Fewer
        <3> QED
            BY <3>1, <3>2
    <2>4. \A r \in Pages : op[r] = "launch" => queue # <<>> /\ Head(queue) = Get(r)
        BY <2>1, FirstLaunches, RenderFacts, QueueShrinks
    <2>5. RenderTypeOK
        BY <2>1, <2>3, <2>4, RenderFacts DEF RenderTypeOK, ServerShapes
    <2> QED
        BY <2>1, <2>2, <2>5 DEF TypeOK, EndInv
<1> QED
    BY <1>1, Invariance, PTL

(* However flushes fail, and however many wait for one, what a sink        *)
(* accepted is on disk, in flight or buffered in its order, nothing is in  *)
(* flight or buffered once it is closed, and every record of a body has    *)
(* the whole body (JsonLineSink.flush and close,                           *)
(* ContentAddressedEvidenceStore.write).                                   *)
THEOREM RecordsKeptHolds == Spec => []RecordsKept
<1>1. ProcessingInv => RecordsKept
    <2> SUFFICES ASSUME ProcessingInv PROVE RecordsKept
        OBVIOUS
    <2>1. StoreShapes /\ Sinks /\ EvidenceStored
        BY DEF ProcessingInv, StoreInv, TodoInv
    <2>2. EvidenceWhole
        BY <2>1 DEF EvidenceStored, EvidenceWhole
    <2>3. ASSUME NEW f \in Files
          PROVE  LET all == lines[f] \o flushing[f].batch \o buffer[f]
                 IN  (f \in broken \/ all = accepted[f]) /\ SaysAll(accepted[f], all)
        <3> DEFINE A == accepted[f] B == flushing[f].batch U == buffer[f] L == lines[f]
                   flows == flushing[f] # NoFlush failed == f \in broken
        <3>1. A \in Seq(Records) /\ U \in Seq(Records) /\ L \in Seq(Records \cup {Torn})
            BY <2>1 DEF StoreShapes
        <3>2. B \in Seq(Records)
            BY <2>1 DEF StoreShapes
        <3>3. flows \in BOOLEAN /\ failed \in BOOLEAN
            OBVIOUS
        <3>4. SinkKept(A, B, U, L, flows, failed)
            BY <2>1 DEF Sinks
        <3>5. Torn \notin Records
            BY TornNoRecord
        <3> HIDE DEF A, B, U, L, flows, failed
        <3>6. (failed \/ L \o B \o U = A) /\ SaysAll(A, L \o B \o U)
            BY <3>1, <3>2, <3>3, <3>4, <3>5, SinkSays
        <3> QED
            BY <3>6 DEF A, B, U, L, failed
    <2>4. SinksComplete
        BY <2>3 DEF SinksComplete, SaysAll
    <2>5. NothingLeft
        BY DEF ProcessingInv, EndInv, AtRest, NothingLeft
    <2> QED
        BY <2>2, <2>4, <2>5 DEF RecordsKept
<1> QED
    BY <1>1, Invariance, PTL

(* When the renderer is closed no browser server runs, whichever render    *)
(* launched one after its own deadline, except those that a render past    *)
(* its deadline is closing and those that were lost (BrowserProvider,      *)
(* withPlaywrightTimeout).                                                 *)
THEOREM ServersClosedHolds == Spec => []ServersClosed
<1>1. ProcessingInv => ServersClosed
    BY DEF ProcessingInv, EndInv, Quiet, ServersClosed, Kept
<1> QED
    BY <1>1, Invariance, PTL
=============================================================================
