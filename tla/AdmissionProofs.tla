--------------------------- MODULE AdmissionProofs ---------------------------
(***************************************************************************)
(* Proofs about Admission, for any documents, hooks, limits, workers,      *)
(* seeds and numbers of faults and resumes.                                *)
(*                                                                         *)
(* The mutex is the argument: who is inside is the holder (CallersCoherent)*)
(* and what it decided by stays true until it leaves (ReservationCurrent), *)
(* so that the counts lag behind the frontier by its one admission at most *)
(* (CountsMatch) -- and by one for each call that failed.  The budget of   *)
(* sitemap entries is outside of the mutex: there the argument is what the *)
(* workers have taken on (BudgetInv).                                      *)
(***************************************************************************)
EXTENDS Admission, FiniteSetTheorems, TLAPS

Inside == {"skipping", "offering", "discovering", "writing"}

(* What a caller's place says of the mutex, of the queue at it and of the  *)
(* request it works on.                                                    *)
CallersCoherent ==
    \A c \in Callers :
        /\ caller[c].at \in Inside <=> holder = c
        /\ caller[c].at = "waiting" => \E n \in 1..Len(waiting) : waiting[n] = c
        /\ caller[c].news => caller[c].at \in {"discovering", "writing", "notifying"}
        /\ caller[c].at = "writing" => caller[c].news
        /\ IF c = Main THEN caller[c].on = NoRequest
           ELSE caller[c].at # "idle" => \E i \in known : i.req = caller[c].on

(* A process that is down leaves nothing behind in memory.                 *)
DownIsIdle ==
    mode = "down" => holder = Nobody /\ \A c \in Callers : caller[c] = Idle

(* The frontier has accepted finitely many requests, all valid.            *)
KnownValid ==
    /\ IsFiniteSet(known)
    /\ \A i \in known : i.req \in Requests

ControlInv == TypeOK /\ CallersCoherent /\ DownIsIdle /\ KnownValid

(* The admission that the frontier has accepted and the scheduler has not  *)
(* counted, or not committed, yet.                                         *)
Uncommitted == holder # Nobody /\ caller[holder].news
Uncounted == Uncommitted /\ caller[holder].at = "discovering"

One(holds) == IF holds THEN 1 ELSE 0
SeedDue(s) == One(Uncounted /\ caller[holder].call.seed = s)
DirectoryDue(k) == One(Uncommitted /\ DirectoryKey(caller[holder].call) = k)
PatternDue(k) == One(Uncommitted /\ PatternKey(caller[holder].call) = k)

(* What the holder of the mutex decided by still holds, because nobody     *)
(* else changes what it read.                                              *)
ReservationCurrent ==
    holder # Nobody =>
        LET k == caller[holder]
        IN  /\ k.at = "offering" /\ IsNew(k.call) =>
                   ~Rejected(k.call) /\ k.reserved = Reservation(k.call)
            /\ k.news => k.call \in known /\ k.reserved = Reservation(k.call)

CountsMatch ==
    mode = "up" =>
        /\ \A s \in Seeds :
              seedRequestCounts[s] - seedCounts[s] - SeedDue(s) \in 0..faults
        /\ \A k \in Seeds \X Directories :
              DirectoryCounts[k] - directories[k] - DirectoryDue(k) \in 0..faults
        /\ \A k \in Seeds \X Patterns :
              PatternCounts[k] - patterns[k] - PatternDue(k) \in 0..faults

AccountInv == ReservationCurrent /\ CountsMatch /\ QuotasKept

(* The counters of this process and of the last manifest are within the    *)
(* limits, and what one process accepts it counts.                         *)
ScheduledDue == One(Uncounted)
FileDue == One(Uncounted /\ caller[holder].call.file)
KnownFiles == {i \in known : i.file}

CountersCapped ==
    /\ manifest.scheduled <= MaxScheduled /\ manifest.files <= MaxSitemapFiles
    /\ counters.scheduled + ScheduledDue <= MaxScheduled
    /\ counters.files + FileDue <= MaxSitemapFiles

AcceptedCapped ==
    mode = "up" =>
        /\ Cardinality(known) <=
               resumes * MaxScheduled + counters.scheduled + ScheduledDue + faults
        /\ Cardinality(KnownFiles) <=
               resumes * MaxSitemapFiles + counters.files + FileDue + faults

CapInv == CountersCapped /\ AcceptedCapped /\ ProcessCapped

(* The sitemap entries that workers have taken on and not counted yet.     *)
EntriesTaken ==
    {p \in Workers \X (1..MaxTotalEntries) :
        IsSitemap(caller[p[1]].on) /\ p[2] <= Len(caller[p[1]].todo)}

BudgetInv ==
    /\ \A w \in Workers : IsSitemap(caller[w].on) => Len(caller[w].todo) <= MaxTotalEntries
    /\ counters.entries + Cardinality(EntriesTaken) <= MaxTotalEntries * Cardinality(Workers)
    /\ manifest.entries <= MaxTotalEntries * Cardinality(Workers)
-----------------------------------------------------------------------------
(* Documents.                                                              *)

(* The calls made for an accepted request are well typed, and no more than *)
(* were asked for.                                                         *)
LEMMA CallsTyped ==
    ASSUME NEW i \in Call, i.req \in Requests, NEW n \in 0..Len(Content[i.req].links)
    PROVE  CallsFor(i, n) \in Seq(Call) /\ Len(CallsFor(i, n)) = n
<1>1. Content[i.req].links \in Seq(Requests \cup {NoRequest})
  BY ConfigAssumption
<1>2. ASSUME NEW l \in 1..n
      PROVE  CallFor(i, Content[i.req].links[l]) \in Call
  <2>1. Content[i.req].links[l] \in Requests \cup {NoRequest}
    BY <1>1
  <2>2. i.seed \in Seeds /\ i.index \in Nat /\ i.ancestors \subseteq Requests
    BY DEF Call
  <2>3. (Content[i.req].kind = "sitemap-index") \in BOOLEAN
    OBVIOUS
  <2>4. QED
    BY <2>1, <2>2, <2>3 DEF CallFor, Call
<1>3. n \in Nat
  BY <1>1
<1>4. QED
  BY <1>2, <1>3 DEF CallsFor

LEMMA AppliedTyped ==
    ASSUME TypeOK, NEW i \in known, i.req \in Requests
    PROVE  /\ Applied(i) \in Seq(Call)
           /\ IsSitemap(i.req) =>
                 Len(Applied(i)) <= MaxTotalEntries - Least(counters.entries, MaxTotalEntries)
<1> DEFINE length == Len(Content[i.req].links)
           remaining == MaxTotalEntries - Least(counters.entries, MaxTotalEntries)
           n == IF IsSitemap(i.req) THEN Least(length, remaining) ELSE length
<1>1. i \in Call /\ length \in Nat
  BY ConfigAssumption DEF TypeOK
<1>2. remaining \in Nat
  <2>1. MaxTotalEntries \in Nat /\ counters.entries \in Nat
    BY ConfigAssumption DEF TypeOK, Counters
  <2>2. QED
    BY <2>1 DEF Least
<1>3. n \in 0..length /\ (IsSitemap(i.req) => n <= remaining)
  BY <1>1, <1>2 DEF Least
<1>4. Applied(i) = CallsFor(i, n)
  BY DEF Applied
<1> HIDE DEF n, remaining
<1>5. CallsFor(i, n) \in Seq(Call) /\ Len(CallsFor(i, n)) = n
  BY <1>1, <1>3, CallsTyped
<1>6. QED
  BY <1>3, <1>4, <1>5 DEF remaining

(* Records of the callers.                                                 *)
LEMMA RecordsTyped ==
    /\ NoCall \in Call
    /\ Idle \in Caller
    /\ Idle.at = "idle" /\ Idle.on = NoRequest /\ Idle.todo = <<>> /\ ~Idle.news
    /\ Idle.call = NoCall /\ NoCall.req = NoRequest
<1>1. NoCall \in Call
  BY ConfigAssumption DEF NoCall, Call
<1>2. QED
  BY <1>1 DEF Idle, Caller, Places, NothingReserved, NoCall

LEMMA ReturnTyped ==
    ASSUME NEW k \in Caller
    PROVE  /\ Return(k) \in Caller
           /\ Return(k).at = "next" /\ ~Return(k).news
           /\ Return(k).on = k.on /\ Return(k).todo = k.todo
  BY RecordsTyped DEF Return, Caller, Places, NothingReserved

(* One caller's record is replaced.                                        *)
LEMMA CallerReplaced ==
    ASSUME TypeOK, NEW c \in Callers, NEW k \in Caller,
           caller' = [caller EXCEPT ![c] = k]
    PROVE  /\ caller' \in [Callers -> Caller]
           /\ caller'[c] = k
           /\ \A d \in Callers \ {c} : caller'[d] = caller[d]
  BY DEF TypeOK

-----------------------------------------------------------------------------
(* Control.                                                                *)

(* A caller moves: what its new record k has to say, and what the others   *)
(* need of the mutex and of the queue.                                     *)
LEMMA OneMoves ==
    ASSUME ControlInv, NEW c \in Callers, NEW k \in Caller,
           caller' = [caller EXCEPT ![c] = k], mode' = "up", known \subseteq known',
           k.at \in Inside <=> holder' = c,
           \A d \in Callers \ {c} : holder' = d <=> holder = d,
           k.at = "waiting" => \E n \in 1..Len(waiting') : waiting'[n] = c,
           \A d \in Callers \ {c} : (\E n \in 1..Len(waiting) : waiting[n] = d)
                                       => (\E n \in 1..Len(waiting') : waiting'[n] = d),
           k.news => k.at \in {"discovering", "writing", "notifying"},
           k.at = "writing" => k.news,
           IF c = Main THEN k.on = NoRequest
           ELSE k.at # "idle" => \E i \in known' : i.req = k.on
    PROVE  CallersCoherent' /\ DownIsIdle' /\ caller' \in [Callers -> Caller]
<1>1. /\ caller' \in [Callers -> Caller] /\ caller'[c] = k
      /\ \A d \in Callers \ {c} : caller'[d] = caller[d]
  BY CallerReplaced DEF ControlInv
<1>2. DownIsIdle'
  BY DEF DownIsIdle
<1>3. CallersCoherent'
  <2> SUFFICES ASSUME NEW d \in Callers
               PROVE
        /\ caller'[d].at \in Inside <=> holder' = d
        /\ caller'[d].at = "waiting" => \E n \in 1..Len(waiting') : waiting'[n] = d
        /\ caller'[d].news => caller'[d].at \in {"discovering", "writing", "notifying"}
        /\ caller'[d].at = "writing" => caller'[d].news
        /\ IF d = Main THEN caller'[d].on = NoRequest
           ELSE caller'[d].at # "idle" => \E i \in known' : i.req = caller'[d].on
    BY DEF CallersCoherent
  <2>1. CASE d = c
    BY <2>1, <1>1
  <2>2. CASE d # c
    BY <2>2, <1>1 DEF ControlInv, CallersCoherent
  <2>3. QED
    BY <2>1, <2>2
<1>4. QED
  BY <1>1, <1>2, <1>3

(* Most moves leave the mutex, the queue and the frontier alone.           *)
LEMMA OneMovesQuietly ==
    ASSUME ControlInv, NEW c \in Callers, NEW k \in Caller,
           caller' = [caller EXCEPT ![c] = k], mode = "up",
           UNCHANGED <<mode, known, holder, waiting>>,
           k.at \in Inside <=> caller[c].at \in Inside,
           k.at # "waiting",
           k.news => k.at \in {"discovering", "writing", "notifying"},
           k.at = "writing" => k.news,
           IF c = Main THEN k.on = NoRequest
           ELSE k.at # "idle" => \E i \in known : i.req = k.on
    PROVE  CallersCoherent' /\ DownIsIdle' /\ KnownValid' /\ caller' \in [Callers -> Caller]
<1>1. k.at \in Inside <=> holder' = c
  BY DEF ControlInv, CallersCoherent
<1>2. KnownValid'
  BY DEF ControlInv, KnownValid
<1>3. QED
  BY <1>1, <1>2, OneMoves

LEMMA QueueGrows ==
    ASSUME TypeOK, NEW c \in Callers, waiting' = Append(waiting, c)
    PROVE  /\ waiting' \in Seq(Callers)
           /\ \E n \in 1..Len(waiting') : waiting'[n] = c
           /\ \A d \in Callers : (\E n \in 1..Len(waiting) : waiting[n] = d)
                                    => (\E n \in 1..Len(waiting') : waiting'[n] = d)
<1>1. waiting \in Seq(Callers)
  BY DEF TypeOK
<1>2. /\ waiting' \in Seq(Callers) /\ Len(waiting') = Len(waiting) + 1
      /\ waiting'[Len(waiting) + 1] = c
      /\ \A n \in 1..Len(waiting) : waiting'[n] = waiting[n]
  BY <1>1
<1>3. Len(waiting) \in Nat
  BY <1>1
<1>4. QED
  BY <1>2, <1>3

(* Somebody queues at the mutex.                                           *)
LEMMA OneQueues ==
    ASSUME ControlInv, NEW c \in Callers, NEW k \in Caller,
           caller' = [caller EXCEPT ![c] = k], mode = "up",
           UNCHANGED <<mode, known, holder>>, waiting' = Append(waiting, c),
           caller[c].at \notin Inside, k.at = "waiting", ~k.news,
           IF c = Main THEN k.on = NoRequest ELSE \E i \in known : i.req = k.on
    PROVE  /\ CallersCoherent' /\ DownIsIdle' /\ KnownValid'
           /\ caller' \in [Callers -> Caller] /\ waiting' \in Seq(Callers)
<1>1. k.at \in Inside <=> holder' = c
  BY DEF ControlInv, CallersCoherent, Inside
<1>2. KnownValid'
  BY DEF ControlInv, KnownValid
<1>3. /\ waiting' \in Seq(Callers)
      /\ \E n \in 1..Len(waiting') : waiting'[n] = c
      /\ \A d \in Callers : (\E n \in 1..Len(waiting) : waiting[n] = d)
                               => (\E n \in 1..Len(waiting') : waiting'[n] = d)
  BY QueueGrows DEF ControlInv
<1>4. QED
  BY <1>1, <1>2, <1>3, OneMoves

(* The document that a worker is at is of an accepted request.             *)
LEMMA OnKnown ==
    ASSUME ControlInv, NEW c \in Callers, caller[c].at # "idle"
    PROVE  /\ caller[c] \in Caller
           /\ IF c = Main THEN caller[c].on = NoRequest
              ELSE \E i \in known : i.req = caller[c].on
           /\ caller[c].at \notin {"discovering", "writing", "notifying"} => ~caller[c].news
  BY DEF ControlInv, TypeOK, CallersCoherent

LEMMA ProcessControl ==
    ASSUME ControlInv, NEW w \in Workers, NEW i \in known, Process(w, i)
    PROVE  ControlInv'
<1> DEFINE k == [Idle EXCEPT !.at = "next", !.on = i.req, !.todo = Applied(i)]
<1>1. w \in Callers /\ w # Main /\ mode = "up" /\ caller[w].at = "idle"
  BY ConfigAssumption DEF Process, At, Callers
<1>2. Applied(i) \in Seq(Call) /\ i.req \in Requests
  BY AppliedTyped DEF ControlInv, KnownValid
<1>3. k \in Caller /\ k.at = "next" /\ k.on = i.req /\ ~k.news
  BY <1>2, RecordsTyped DEF Caller, Places
<1>4. caller' = [caller EXCEPT ![w] = k]
  BY DEF Process
<1> HIDE DEF k
<1>5. CallersCoherent' /\ DownIsIdle' /\ KnownValid' /\ caller' \in [Callers -> Caller]
  BY <1>1, <1>3, <1>4, OneMovesQuietly DEF Process, runVars, Inside
<1>6. TypeOK'
  BY <1>5 DEF Process, runVars, accounting, ControlInv, TypeOK
<1>7. QED
  BY <1>5, <1>6 DEF ControlInv

(* c takes the next call of its document, to wait or to record it.         *)
LEMMA TurnsTyped ==
    ASSUME ControlInv, NEW c \in Callers, At(c, "next"), caller[c].todo # <<>>,
           NEW place \in Places, Turns(c, place)
    PROVE  \E k \in Caller : /\ caller' = [caller EXCEPT ![c] = k]
                             /\ k.at = place /\ ~k.news /\ k.on = caller[c].on
                             /\ k.todo = Tail(caller[c].todo)
<1> DEFINE k == [caller[c] EXCEPT !.at = place, !.todo = Tail(@),
                                  !.call = Head(caller[c].todo)]
<1>1. caller[c] \in Caller /\ ~caller[c].news
  BY OnKnown DEF At
<1>2. caller[c].todo \in Seq(Call)
  BY <1>1 DEF Caller
<1>3. Tail(caller[c].todo) \in Seq(Call) /\ Head(caller[c].todo) \in Call
  BY <1>2
<1>4. k \in Caller /\ k.at = place /\ ~k.news /\ k.on = caller[c].on
      /\ k.todo = Tail(caller[c].todo)
  BY <1>1, <1>3 DEF Caller
<1>5. caller' = [caller EXCEPT ![c] = k]
  BY DEF Turns, ControlInv, TypeOK
<1>6. QED
  BY <1>4, <1>5

LEMMA AsksNextControl ==
    ASSUME ControlInv, NEW c \in Callers, AsksNext(c)
    PROVE  ControlInv'
<1>1. PICK k \in Caller : /\ caller' = [caller EXCEPT ![c] = k]
                          /\ k.at = "waiting" /\ ~k.news /\ k.on = caller[c].on
  BY TurnsTyped DEF AsksNext, Places
<1>2. mode = "up" /\ caller[c].at = "next"
  BY DEF AsksNext, At
<1>3. /\ CallersCoherent' /\ DownIsIdle' /\ KnownValid'
      /\ caller' \in [Callers -> Caller] /\ waiting' \in Seq(Callers)
  BY <1>1, <1>2, OneQueues, OnKnown DEF AsksNext, runVars, Inside
<1>4. TypeOK'
  BY <1>3 DEF AsksNext, runVars, accounting, ControlInv, TypeOK
<1>5. QED
  BY <1>3, <1>4 DEF ControlInv

LEMMA RecordEntryControl ==
    ASSUME ControlInv, NEW w \in Workers, RecordEntry(w)
    PROVE  ControlInv'
<1>0. w \in Callers
  BY DEF Callers
<1>1. PICK k \in Caller : /\ caller' = [caller EXCEPT ![w] = k]
                          /\ k.at = "recording" /\ ~k.news /\ k.on = caller[w].on
  BY <1>0, TurnsTyped DEF RecordEntry, Places
<1>2. mode = "up" /\ caller[w].at = "next"
  BY DEF RecordEntry, At
<1>3. CallersCoherent' /\ DownIsIdle' /\ KnownValid' /\ caller' \in [Callers -> Caller]
  BY <1>0, <1>1, <1>2, OneMovesQuietly, OnKnown DEF RecordEntry, runVars, Inside
<1>4. counters' \in Counters
  <2>1. counters \in Counters /\ counters' = [counters EXCEPT !.entries = @ + 1]
    BY DEF RecordEntry, ControlInv, TypeOK
  <2>2. QED
    BY <2>1 DEF Counters
<1>5. TypeOK'
  BY <1>3, <1>4 DEF RecordEntry, runVars, ControlInv, TypeOK
<1>6. QED
  BY <1>3, <1>5 DEF ControlInv

(* A caller goes to another place with all that it has.                    *)
LEMMA GoesTyped ==
    ASSUME ControlInv, NEW c \in Callers, NEW place \in Places, Goes(c, place)
    PROVE  \E k \in Caller : /\ caller' = [caller EXCEPT ![c] = k]
                             /\ k.at = place
                             /\ k.news = caller[c].news /\ k.on = caller[c].on
                             /\ k.todo = caller[c].todo /\ k.call = caller[c].call
                             /\ k.reserved = caller[c].reserved
<1>1. caller[c] \in Caller
  BY DEF ControlInv, TypeOK
<1> DEFINE k == [caller[c] EXCEPT !.at = place]
<1>2. /\ k \in Caller /\ k.at = place
      /\ k.news = caller[c].news /\ k.on = caller[c].on
      /\ k.todo = caller[c].todo /\ k.call = caller[c].call
      /\ k.reserved = caller[c].reserved
  BY <1>1 DEF Caller
<1>3. caller' = [caller EXCEPT ![c] = k]
  BY DEF Goes, ControlInv, TypeOK
<1>4. QED
  BY <1>2, <1>3

LEMMA EntryRecordedControl ==
    ASSUME ControlInv, NEW w \in Workers, EntryRecorded(w)
    PROVE  ControlInv'
<1>1. w \in Callers /\ mode = "up" /\ caller[w].at = "recording"
  BY DEF EntryRecorded, At, Callers
<1>2. CASE Expands(caller[w].call)
  <2>1. Goes(w, "waiting") /\ waiting' = Append(waiting, w)
    BY <1>2 DEF EntryRecorded
  <2>2. PICK k \in Caller : /\ caller' = [caller EXCEPT ![w] = k] /\ k.at = "waiting"
                            /\ k.news = caller[w].news /\ k.on = caller[w].on
    BY <1>1, <2>1, GoesTyped DEF Places
  <2>3. /\ CallersCoherent' /\ DownIsIdle' /\ KnownValid'
        /\ caller' \in [Callers -> Caller] /\ waiting' \in Seq(Callers)
    BY <1>1, <2>1, <2>2, OneQueues, OnKnown DEF EntryRecorded, runVars, Inside
  <2>4. TypeOK'
    BY <2>3 DEF EntryRecorded, runVars, accounting, ControlInv, TypeOK
  <2>5. QED
    BY <2>3, <2>4 DEF ControlInv
<1>3. CASE ~Expands(caller[w].call)
  <2>1. Goes(w, "next") /\ waiting' = waiting
    BY <1>3 DEF EntryRecorded
  <2>2. PICK k \in Caller : /\ caller' = [caller EXCEPT ![w] = k] /\ k.at = "next"
                            /\ k.news = caller[w].news /\ k.on = caller[w].on
    BY <1>1, <2>1, GoesTyped DEF Places
  <2>3. CallersCoherent' /\ DownIsIdle' /\ KnownValid' /\ caller' \in [Callers -> Caller]
    BY <1>1, <2>1, <2>2, OneMovesQuietly, OnKnown DEF EntryRecorded, runVars, Inside
  <2>4. TypeOK'
    BY <2>1, <2>3 DEF EntryRecorded, runVars, accounting, ControlInv, TypeOK
  <2>5. QED
    BY <2>3, <2>4 DEF ControlInv
<1>4. QED
  BY <1>2, <1>3

LEMMA EndDocumentControl ==
    ASSUME ControlInv, NEW w \in Workers, EndDocument(w)
    PROVE  ControlInv'
<1>1. w \in Callers /\ w # Main /\ mode = "up" /\ caller[w].at = "next"
  BY ConfigAssumption DEF EndDocument, At, Callers
<1>2. CallersCoherent' /\ DownIsIdle' /\ KnownValid' /\ caller' \in [Callers -> Caller]
  BY <1>1, OneMovesQuietly, RecordsTyped DEF EndDocument, Inside
<1>3. done' \subseteq {i.req : i \in known}
  BY <1>1, OnKnown DEF EndDocument, ControlInv, TypeOK
<1>4. TypeOK'
  BY <1>2, <1>3 DEF EndDocument, accounting, ControlInv, TypeOK
<1>5. QED
  BY <1>2, <1>4 DEF ControlInv

LEMMA EndBootstrapControl ==
    ASSUME ControlInv, EndBootstrap
    PROVE  ControlInv'
<1>1. Main \in Callers /\ mode = "up" /\ caller[Main].at = "next"
  BY DEF EndBootstrap, At, Callers
<1>2. CallersCoherent' /\ DownIsIdle' /\ KnownValid' /\ caller' \in [Callers -> Caller]
  BY <1>1, OneMovesQuietly, RecordsTyped DEF EndBootstrap, runVars, Inside
<1>3. TypeOK'
  BY <1>2 DEF EndBootstrap, runVars, accounting, ControlInv, TypeOK
<1>4. QED
  BY <1>2, <1>3 DEF ControlInv

(* The counts that a reservation reads, and what it makes of them.         *)
LEMMA KeysTyped ==
    ASSUME NEW call \in Call, call.req \in Requests
    PROVE  /\ call.seed \in Seeds
           /\ DirectoryKey(call) \in Seeds \X Directories
           /\ PatternKey(call) \in Seeds \X Patterns
  BY DEF Call, DirectoryKey, PatternKey, Directories, Patterns

LEMMA ReservationTyped ==
    ASSUME TypeOK, NEW call \in Call, call.req \in Requests
    PROVE  /\ directories[DirectoryKey(call)] \in Nat
           /\ patterns[PatternKey(call)] \in Nat
           /\ Reservation(call).directory = directories[DirectoryKey(call)] + 1
           /\ Reservation(call).pattern = patterns[PatternKey(call)] + 1
           /\ Reservation(call) \in [directory : Nat, pattern : Nat]
<1>1. directories[DirectoryKey(call)] \in Nat /\ patterns[PatternKey(call)] \in Nat
  BY KeysTyped DEF TypeOK
<1>2. QED
  BY <1>1 DEF Reservation

LEMMA AdmitControl ==
    ASSUME ControlInv, NEW c \in Callers, Admit(c)
    PROVE  /\ ControlInv'
           /\ caller'[c].call = caller[c].call /\ ~caller'[c].news
           /\ LET call == caller[c].call
              IN  /\ caller'[c].at =
                        IF IsNew(call) /\ Rejected(call) THEN "skipping" ELSE "offering"
                  /\ caller'[c].reserved =
                        IF IsNew(call) /\ ~Rejected(call)
                        THEN Reservation(call) ELSE NothingReserved
           /\ \A d \in Workers : /\ caller'[d].on = caller[d].on
                                 /\ caller'[d].todo = caller[d].todo
<1> DEFINE call == caller[c].call
           place == IF IsNew(call) /\ Rejected(call) THEN "skipping" ELSE "offering"
           held == IF IsNew(call) /\ ~Rejected(call)
                   THEN Reservation(call) ELSE NothingReserved
           k == [caller[c] EXCEPT !.at = place, !.reserved = held]
<1>1. mode = "up" /\ caller[c].at = "waiting" /\ holder = Nobody /\ c = Head(waiting)
  BY DEF Admit, At
<1>2. caller[c] \in Caller /\ call \in Call
  BY DEF ControlInv, TypeOK, Caller
<1>3. held \in [directory : Nat, pattern : Nat]
  <2>1. ASSUME IsNew(call) PROVE call.req \in Requests
    BY <1>2, <2>1 DEF IsNew, Call
  <2>2. NothingReserved \in [directory : Nat, pattern : Nat]
    BY DEF NothingReserved
  <2>3. QED
    BY <1>2, <2>1, <2>2, ReservationTyped DEF ControlInv
<1>4. /\ k \in Caller /\ k.at = place /\ k.reserved = held /\ k.call = call
      /\ k.news = caller[c].news /\ k.on = caller[c].on /\ k.todo = caller[c].todo
  <2>1. place \in Places
    BY DEF Places
  <2> HIDE DEF place, held
  <2>2. QED
    BY <1>2, <1>3, <2>1 DEF Caller
<1>5. /\ caller' = [caller EXCEPT ![c] = k]
      /\ holder' = c /\ waiting' = Tail(waiting)
      /\ UNCHANGED <<mode, resumes, faults, runVars, bootstrapped, stopped, accounting>>
  BY DEF Admit, Decides, ControlInv, TypeOK
<1>6. k.at \in {"skipping", "offering"} /\ ~k.news
  BY <1>1, <1>4, OnKnown
<1> HIDE DEF k, place, held
<1>7. /\ waiting' \in Seq(Callers)
      /\ \A d \in Callers \ {c} : (\E n \in 1..Len(waiting) : waiting[n] = d)
                                     => (\E n \in 1..Len(waiting') : waiting'[n] = d)
  <2>1. waiting \in Seq(Callers) /\ Len(waiting) \in Nat
    BY DEF ControlInv, TypeOK
  <2>2. \E n \in 1..Len(waiting) : waiting[n] = c
    BY <1>1 DEF ControlInv, CallersCoherent
  <2>3. waiting # <<>> /\ Len(waiting) > 0
    BY <2>1, <2>2
  <2>4. /\ waiting' \in Seq(Callers) /\ Len(waiting') = Len(waiting) - 1
        /\ \A n \in 1..(Len(waiting) - 1) : waiting'[n] = waiting[n + 1]
        /\ waiting[1] = c
    BY <1>1, <1>5, <2>1, <2>3
  <2>5. ASSUME NEW d \in Callers \ {c}, NEW n \in 1..Len(waiting), waiting[n] = d
        PROVE  \E m \in 1..Len(waiting') : waiting'[m] = d
    <3>1. n # 1
      BY <2>4, <2>5
    <3>2. n - 1 \in 1..(Len(waiting) - 1) /\ (n - 1) + 1 = n
      BY <2>1, <3>1
    <3>3. QED
      BY <2>4, <2>5, <3>2
  <2>6. QED
    BY <2>4, <2>5
<1>8. CallersCoherent' /\ DownIsIdle' /\ caller' \in [Callers -> Caller]
  <2>1. k.at \in Inside <=> holder' = c
    BY <1>5, <1>6 DEF Inside
  <2>2. \A d \in Callers \ {c} : holder' = d <=> holder = d
    BY <1>1, <1>5, ConfigAssumption DEF Nobody
  <2>3. IF c = Main THEN k.on = NoRequest
        ELSE k.at # "idle" => \E i \in known' : i.req = k.on
    BY <1>1, <1>4, <1>5, OnKnown DEF runVars
  <2>4. mode' = "up" /\ known \subseteq known'
    BY <1>1, <1>5 DEF runVars
  <2>5. k.at # "waiting" /\ k.at # "writing"
    BY <1>6
  <2>6. QED
    BY <1>4, <1>5, <1>6, <1>7, <2>1, <2>2, <2>3, <2>4, <2>5, OneMoves
<1>9. TypeOK'
  BY <1>5, <1>7, <1>8 DEF runVars, accounting, ControlInv, TypeOK
<1>10. KnownValid'
  BY <1>5 DEF runVars, ControlInv, KnownValid
<1>11. ControlInv'
  BY <1>8, <1>9, <1>10 DEF ControlInv
<1>12. caller'[c] = k /\ \A d \in Callers \ {c} : caller'[d] = caller[d]
  BY <1>4, <1>5, CallerReplaced DEF ControlInv
<1>13. QED
  BY <1>4, <1>6, <1>11, <1>12 DEF place, held, Callers

(* The holder leaves the mutex.                                            *)
LEMMA OneLeaves ==
    ASSUME ControlInv, NEW c \in Callers, NEW k \in Caller,
           caller' = [caller EXCEPT ![c] = k], mode = "up",
           UNCHANGED <<mode, known, waiting>>, holder' = Nobody,
           caller[c].at \in Inside, k.at \in {"idle", "next", "notifying"},
           k.news => k.at = "notifying",
           IF c = Main THEN k.on = NoRequest
           ELSE k.at # "idle" => \E i \in known : i.req = k.on
    PROVE  CallersCoherent' /\ DownIsIdle' /\ KnownValid' /\ caller' \in [Callers -> Caller]
<1>1. holder = c
  BY DEF ControlInv, CallersCoherent
<1>2. \A d \in Callers : holder' # d
  BY ConfigAssumption DEF Nobody
<1>3. k.at \notin Inside /\ k.at # "waiting" /\ k.at # "writing"
  BY DEF Inside
<1>4. KnownValid'
  BY DEF ControlInv, KnownValid
<1>5. QED
  BY <1>1, <1>2, <1>3, <1>4, OneMoves

LEMMA AcceptControl ==
    ASSUME ControlInv, NEW c \in Callers, Accept(c)
    PROVE  /\ ControlInv'
           /\ holder = c
           /\ caller[c].call \in Call \ known /\ caller[c].call.req \in Requests
           /\ \E k \in Caller : /\ caller' = [caller EXCEPT ![c] = k]
                                /\ k.at = "discovering" /\ k.news
                                /\ k.call = caller[c].call
                                /\ k.reserved = caller[c].reserved
                                /\ k.on = caller[c].on /\ k.todo = caller[c].todo
<1> DEFINE k == [caller[c] EXCEPT !.at = "discovering", !.news = TRUE]
<1>1. mode = "up" /\ caller[c].at = "offering" /\ IsNew(caller[c].call)
  BY DEF Accept, At
<1>2. caller[c] \in Caller /\ caller[c].call \in Call
  BY DEF ControlInv, TypeOK, Caller
<1>3. caller[c].call.req \in Requests /\ requestForKey(caller[c].call.req) = {}
  BY <1>1, <1>2 DEF IsNew, Call
<1>4. \A i \in known : i.req # caller[c].call.req
  BY <1>3 DEF requestForKey
<1>5. /\ k \in Caller /\ k.at = "discovering" /\ k.news /\ k.call = caller[c].call
      /\ k.reserved = caller[c].reserved
      /\ k.on = caller[c].on /\ k.todo = caller[c].todo
  BY <1>2 DEF Caller, Places
<1>6. /\ caller' = [caller EXCEPT ![c] = k]
      /\ known' = known \cup {caller[c].call}
      /\ UNCHANGED <<admitVars, accounting, holder>>
  BY DEF Accept, ControlInv, TypeOK
<1> HIDE DEF k
<1>7. holder = c
  BY <1>1 DEF ControlInv, CallersCoherent, Inside
<1>8. CallersCoherent' /\ DownIsIdle' /\ caller' \in [Callers -> Caller]
  <2>1. IF c = Main THEN k.on = NoRequest
        ELSE k.at # "idle" => \E i \in known' : i.req = k.on
    BY <1>1, <1>5, <1>6, OnKnown
  <2>2. /\ k.at \in Inside <=> holder' = c
        /\ \A d \in Callers \ {c} : holder' = d <=> holder = d
        /\ mode' = "up" /\ known \subseteq known' /\ waiting' = waiting
    BY <1>1, <1>5, <1>6, <1>7 DEF Inside, admitVars
  <2>3. k.at # "waiting" /\ k.at # "writing"
    BY <1>5
  <2>4. QED
    BY <1>5, <1>6, <2>1, <2>2, <2>3, OneMoves
<1>9. KnownValid'
  <2>1. IsFiniteSet(known')
    BY <1>6, FS_AddElement DEF ControlInv, KnownValid
  <2>2. QED
    BY <1>3, <1>6, <2>1 DEF ControlInv, KnownValid
<1>10. TypeOK'
  <2>1. known' \subseteq Call /\ \A i, j \in known' : i.req = j.req => i = j
    BY <1>2, <1>4, <1>6 DEF ControlInv, TypeOK
  <2>2. done' \subseteq {i.req : i \in known'}
    BY <1>6 DEF admitVars, ControlInv, TypeOK
  <2>3. QED
    BY <1>6, <1>8, <2>1, <2>2 DEF admitVars, accounting, ControlInv, TypeOK
<1>11. ControlInv'
  BY <1>8, <1>9, <1>10 DEF ControlInv
<1>12. QED
  BY <1>2, <1>3, <1>4, <1>5, <1>6, <1>7, <1>11

(* The frontier has seen the URL before, or skips it.                      *)
LEMMA AnsweredControl ==
    ASSUME ControlInv, NEW c \in Callers, AlreadySeen(c) \/ Refuse(c)
    PROVE  /\ ControlInv'
           /\ \E k \in Caller : /\ caller' = [caller EXCEPT ![c] = k]
                                /\ k.at \in {"discovering", "skipping"} /\ ~k.news
                                /\ k.on = caller[c].on /\ k.todo = caller[c].todo
<1>1. mode = "up" /\ caller[c].at = "offering"
  BY DEF AlreadySeen, Refuse, At
<1>2. PICK place \in {"discovering", "skipping"} : Goes(c, place)
  BY DEF AlreadySeen, Refuse
<1>3. PICK k \in Caller : /\ caller' = [caller EXCEPT ![c] = k] /\ k.at = place
                          /\ k.news = caller[c].news /\ k.on = caller[c].on
                          /\ k.todo = caller[c].todo
  BY <1>2, GoesTyped DEF Places
<1>4. UNCHANGED <<mode, resumes, faults, done, manifest, bootstrapped, stopped, waiting,
                  known, counters, seedCounts, directories, patterns, holder>>
  BY DEF AlreadySeen, Refuse, admitVars, accounting
<1>5. ~k.news
  BY <1>1, <1>3, OnKnown
<1>6. CallersCoherent' /\ DownIsIdle' /\ KnownValid' /\ caller' \in [Callers -> Caller]
  BY <1>1, <1>3, <1>4, <1>5, OneMovesQuietly, OnKnown DEF Inside
<1>7. TypeOK'
  BY <1>4, <1>6 DEF ControlInv, TypeOK
<1>8. ControlInv'
  BY <1>6, <1>7 DEF ControlInv
<1>9. QED
  BY <1>3, <1>5, <1>8

LEMMA SkippedControl ==
    ASSUME ControlInv, NEW c \in Callers, Skipped(c)
    PROVE  ControlInv' /\ holder = c /\ ~caller[c].news
<1>1. mode = "up" /\ caller[c].at = "skipping"
  BY DEF Skipped, At
<1>2. PICK k \in Caller : /\ caller' = [caller EXCEPT ![c] = k] /\ k.at = "notifying"
                          /\ k.news = caller[c].news /\ k.on = caller[c].on
  BY GoesTyped DEF Skipped, Places
<1>3. UNCHANGED <<mode, known, waiting>> /\ holder' = Nobody
  BY DEF Skipped, admitVars
<1>4. CallersCoherent' /\ DownIsIdle' /\ KnownValid' /\ caller' \in [Callers -> Caller]
  BY <1>1, <1>2, <1>3, OneLeaves, OnKnown DEF Inside
<1>5. TypeOK'
  BY <1>4 DEF Skipped, admitVars, accounting, ControlInv, TypeOK
<1>6. holder = c /\ ~caller[c].news
  BY <1>1 DEF ControlInv, CallersCoherent, Inside
<1>7. QED
  BY <1>4, <1>5, <1>6 DEF ControlInv

LEMMA DiscoveredControl ==
    ASSUME ControlInv, NEW c \in Callers, Discovered(c)
    PROVE  ControlInv'
<1>1. mode = "up" /\ caller[c].at = "discovering" /\ caller[c] \in Caller
  BY DEF Discovered, At, ControlInv, TypeOK
<1>2. UNCHANGED <<mode, resumes, faults, done, manifest, bootstrapped, stopped, waiting,
                  known, directories, patterns>>
  BY DEF Discovered, admitVars
<1>3. CASE caller[c].news
  <2>0. Goes(c, "writing") /\ "writing" \in Places
    BY <1>3 DEF Discovered, Places
  <2>1. PICK k \in Caller : /\ caller' = [caller EXCEPT ![c] = k] /\ k.at = "writing"
                            /\ k.news = caller[c].news /\ k.on = caller[c].on
    BY <2>0, GoesTyped
  <2>2. holder' = holder
    BY <1>3 DEF Discovered
  <2>3. CallersCoherent' /\ DownIsIdle' /\ KnownValid' /\ caller' \in [Callers -> Caller]
    BY <1>1, <1>2, <1>3, <2>1, <2>2, OneMovesQuietly, OnKnown DEF Inside
  <2>4. counters' \in Counters
    <3>1. counters' = [counters EXCEPT !.scheduled = @ + 1,
                          !.files = IF caller[c].call.file THEN @ + 1 ELSE @]
      BY <1>3 DEF Discovered
    <3>2. counters \in Counters
      BY DEF ControlInv, TypeOK
    <3>3. /\ counters.scheduled \in Nat /\ counters.files \in Nat
          /\ counters.entries \in Nat
      BY <3>2 DEF Counters
    <3> DEFINE files == IF caller[c].call.file THEN counters.files + 1 ELSE counters.files
    <3>4. counters' = [counters EXCEPT !.scheduled = counters.scheduled + 1, !.files = files]
      BY <3>1
    <3>5. files \in Nat /\ counters.scheduled + 1 \in Nat
      BY <3>3
    <3> HIDE DEF files
    <3>6. \A m, n \in Nat : [counters EXCEPT !.scheduled = m, !.files = n] \in Counters
      BY <3>2 DEF Counters
    <3>7. QED
      BY <3>4, <3>5, <3>6
  <2>5. seedCounts' \in [Seeds -> Nat]
    <3>1. seedCounts' = [seedCounts EXCEPT ![caller[c].call.seed] = @ + 1]
      BY <1>3 DEF Discovered
    <3>2. caller[c].call.seed \in Seeds /\ seedCounts \in [Seeds -> Nat]
      BY <1>1 DEF Caller, Call, ControlInv, TypeOK
    <3>3. QED
      BY <3>1, <3>2
  <2>6. TypeOK'
    BY <1>2, <2>2, <2>3, <2>4, <2>5 DEF ControlInv, TypeOK
  <2>7. QED
    BY <2>3, <2>6 DEF ControlInv
<1>4. CASE ~caller[c].news
  <2>1. /\ caller' = [caller EXCEPT ![c] = Return(caller[c])]
        /\ holder' = Nobody /\ UNCHANGED <<counters, seedCounts>>
    BY <1>4 DEF Discovered, ControlInv, TypeOK
  <2>r. /\ Return(caller[c]) \in Caller /\ Return(caller[c]).at = "next"
        /\ ~Return(caller[c]).news /\ Return(caller[c]).on = caller[c].on
    BY <1>1, ReturnTyped
  <2>2. CallersCoherent' /\ DownIsIdle' /\ KnownValid' /\ caller' \in [Callers -> Caller]
    BY <1>1, <1>2, <2>1, <2>r, OneLeaves, OnKnown DEF Inside
  <2>3. TypeOK'
    BY <1>2, <2>1, <2>2 DEF ControlInv, TypeOK
  <2>4. QED
    BY <2>2, <2>3 DEF ControlInv
<1>5. QED
  BY <1>3, <1>4

LEMMA WrittenControl ==
    ASSUME ControlInv, NEW c \in Callers, Written(c)
    PROVE  ControlInv'
<1>1. mode = "up" /\ caller[c].at = "writing"
  BY DEF Written, At
<1>2. PICK k \in Caller : /\ caller' = [caller EXCEPT ![c] = k] /\ k.at = "notifying"
                          /\ k.news = caller[c].news /\ k.on = caller[c].on
  BY GoesTyped DEF Written, Places
<1>3. UNCHANGED <<mode, known, waiting>> /\ holder' = Nobody
  BY DEF Written, admitVars
<1>4. CallersCoherent' /\ DownIsIdle' /\ KnownValid' /\ caller' \in [Callers -> Caller]
  BY <1>1, <1>2, <1>3, OneLeaves, OnKnown DEF Inside
<1>5. caller[c].reserved.directory \in Nat /\ caller[c].reserved.pattern \in Nat
  <2>1. caller[c] \in Caller
    BY DEF ControlInv, TypeOK
  <2>2. QED
    BY <2>1 DEF Caller
<1>6. /\ directories' \in [Seeds \X Directories -> Nat]
      /\ patterns' \in [Seeds \X Patterns -> Nat]
  BY <1>5 DEF Written, ControlInv, TypeOK
<1>7. TypeOK'
  BY <1>4, <1>6 DEF Written, admitVars, ControlInv, TypeOK
<1>8. QED
  BY <1>4, <1>7 DEF ControlInv

LEMMA NotifiedControl ==
    ASSUME ControlInv, NEW c \in Callers, Notified(c)
    PROVE  ControlInv'
<1>1. mode = "up" /\ caller[c].at = "notifying" /\ caller[c] \in Caller
  BY DEF Notified, At, ControlInv, TypeOK
<1>2. caller' = [caller EXCEPT ![c] = Return(caller[c])]
  BY DEF Notified, ControlInv, TypeOK
<1>r. /\ Return(caller[c]) \in Caller /\ Return(caller[c]).at = "next"
      /\ ~Return(caller[c]).news /\ Return(caller[c]).on = caller[c].on
  BY <1>1, ReturnTyped
<1>u. UNCHANGED <<mode, known, holder, waiting>>
  BY DEF Notified, admitVars
<1>o. IF c = Main THEN caller[c].on = NoRequest ELSE \E i \in known : i.req = caller[c].on
  BY <1>1, OnKnown
<1>3. CallersCoherent' /\ DownIsIdle' /\ KnownValid' /\ caller' \in [Callers -> Caller]
  BY <1>1, <1>2, <1>r, <1>u, <1>o, OneMovesQuietly DEF Inside
<1>4. TypeOK'
  BY <1>3 DEF Notified, admitVars, accounting, ControlInv, TypeOK
<1>5. QED
  BY <1>3, <1>4 DEF ControlInv

LEMMA HookEnqueuesControl ==
    ASSUME ControlInv, NEW c \in Callers, NEW call \in Hooked, HookEnqueues(c, call)
    PROVE  /\ ControlInv'
           /\ \E k \in Caller : /\ caller' = [caller EXCEPT ![c] = k]
                                /\ k.on = caller[c].on /\ k.todo = caller[c].todo
<1> DEFINE k == [Return(caller[c]) EXCEPT !.at = "waiting", !.call = call, !.nested = TRUE]
<1>1. mode = "up" /\ caller[c].at = "notifying" /\ caller[c] \in Caller /\ call \in Call
  BY ConfigAssumption DEF HookEnqueues, At, ControlInv, TypeOK
<1>2. Return(caller[c]) \in Caller /\ ~Return(caller[c]).news
      /\ Return(caller[c]).on = caller[c].on /\ Return(caller[c]).todo = caller[c].todo
  BY <1>1, ReturnTyped
<1>3. k \in Caller /\ k.at = "waiting" /\ ~k.news
      /\ k.on = caller[c].on /\ k.todo = caller[c].todo
  BY <1>1, <1>2 DEF Caller, Places
<1>4. caller' = [caller EXCEPT ![c] = k]
  BY DEF HookEnqueues
<1> HIDE DEF k
<1>u. /\ UNCHANGED <<mode, known, holder>> /\ waiting' = Append(waiting, c)
      /\ caller[c].at \notin Inside
  BY <1>1 DEF HookEnqueues, runVars, Inside
<1>o. IF c = Main THEN k.on = NoRequest ELSE \E i \in known : i.req = k.on
  BY <1>1, <1>3, OnKnown
<1>5. /\ CallersCoherent' /\ DownIsIdle' /\ KnownValid'
      /\ caller' \in [Callers -> Caller] /\ waiting' \in Seq(Callers)
  BY <1>1, <1>3, <1>4, <1>u, <1>o, OneQueues
<1>6. TypeOK'
  BY <1>5 DEF HookEnqueues, runVars, accounting, ControlInv, TypeOK
<1>7. QED
  BY <1>3, <1>4, <1>5, <1>6 DEF ControlInv

(* A rejected call takes its caller out of the mutex, if it was inside.    *)
LEMMA CallFailsControl ==
    ASSUME ControlInv, NEW c \in Callers, CallFails(c)
    PROVE  /\ ControlInv'
           /\ \E k \in Caller : /\ caller' = [caller EXCEPT ![c] = k]
                                /\ k.on \in {caller[c].on, NoRequest}
                                /\ k.on = caller[c].on => k.todo \in {caller[c].todo, <<>>}
<1>1. mode = "up" /\ caller[c] \in Caller
      /\ caller[c].at \notin {"idle", "waiting"}
  BY DEF CallFails, ControlInv, TypeOK
<1>2. PICK k \in {Idle, Return(caller[c])} :
         /\ caller' = [caller EXCEPT ![c] = k]
         /\ stopped' \in BOOLEAN
         /\ done' \in {done, IF c = Main THEN done ELSE done \cup {caller[c].on}}
  BY DEF CallFails, Ends, ControlInv, TypeOK
<1>3. UNCHANGED <<mode, resumes, known, manifest, bootstrapped, accounting, waiting>>
      /\ holder' = (IF holder = c THEN Nobody ELSE holder)
  BY DEF CallFails
<1>4. /\ k \in Caller /\ k.at \in {"idle", "next"} /\ ~k.news
      /\ k.on \in {caller[c].on, NoRequest}
      /\ k.at = "next" => k.on = caller[c].on
      /\ k.on = caller[c].on => k.todo \in {caller[c].todo, <<>>}
      /\ c = Main => k.on = NoRequest
  BY <1>1, <1>2, RecordsTyped, ReturnTyped, OnKnown
<1>5. KnownValid'
  BY <1>3 DEF ControlInv, KnownValid
<1>6. CallersCoherent' /\ DownIsIdle' /\ caller' \in [Callers -> Caller]
  <2>1. \A d \in Callers : holder' = d <=> holder = d /\ d # c
    BY <1>3, ConfigAssumption DEF Nobody
  <2>2. k.at \in Inside <=> holder' = c
    BY <1>4, <2>1 DEF Inside
  <2>3. IF c = Main THEN k.on = NoRequest
        ELSE k.at # "idle" => \E i \in known' : i.req = k.on
    BY <1>1, <1>3, <1>4, OnKnown
  <2>4. mode' = "up" /\ known \subseteq known' /\ waiting' = waiting
    BY <1>1, <1>3
  <2>5. k.at # "waiting" /\ k.at # "writing"
    BY <1>4
  <2>6. QED
    BY <1>2, <1>4, <2>1, <2>2, <2>3, <2>4, <2>5, OneMoves
<1>7. done' \subseteq {i.req : i \in known'}
  BY <1>1, <1>2, <1>3, OnKnown DEF ControlInv, TypeOK
<1>8. faults' \in 0..MaxFaults
  <2>1. MaxFaults \in Nat
    BY ConfigAssumption
  <2>2. QED
    BY <2>1 DEF CallFails, ControlInv, TypeOK
<1>9. holder' \in Callers \cup {Nobody}
  BY <1>3 DEF ControlInv, TypeOK
<1>10. TypeOK'
  BY <1>2, <1>3, <1>6, <1>7, <1>8, <1>9 DEF accounting, ControlInv, TypeOK
<1>11. QED
  BY <1>2, <1>4, <1>5, <1>6, <1>10 DEF ControlInv

LEMMA DownControl ==
    ASSUME ControlInv, Down, manifest' \in Counters
    PROVE  ControlInv'
<1>1. /\ mode' = "down" /\ holder' = Nobody /\ waiting' = <<>>
      /\ caller' = [c \in Callers |-> Idle]
      /\ UNCHANGED <<resumes, faults, known, done, bootstrapped, stopped,
                     counters, seedCounts, directories, patterns>>
  BY DEF Down, accounting
<1>2. TypeOK'
  BY <1>1, RecordsTyped DEF ControlInv, TypeOK
<1>3. CallersCoherent'
  BY <1>1, RecordsTyped, ConfigAssumption DEF CallersCoherent, Inside, Nobody
<1>4. DownIsIdle' /\ KnownValid'
  BY <1>1 DEF DownIsIdle, KnownValid, ControlInv
<1>5. QED
  BY <1>2, <1>3, <1>4 DEF ControlInv

(* What the frontier is counted to be.                                     *)
LEMMA CountsTyped ==
    ASSUME KnownValid
    PROVE  /\ \A S \in SUBSET known : IsFiniteSet(S) /\ Cardinality(S) \in Nat
           /\ seedRequestCounts \in [Seeds -> Nat]
           /\ DirectoryCounts \in [Seeds \X Directories -> Nat]
           /\ PatternCounts \in [Seeds \X Patterns -> Nat]
<1>1. \A S \in SUBSET known : IsFiniteSet(S) /\ Cardinality(S) \in Nat
  BY FS_Subset, FS_CardinalityType DEF KnownValid
<1>2. \A s \in Seeds : Cardinality(acceptedFor(s)) \in Nat
  BY <1>1 DEF acceptedFor
<1>3. \A k \in Seeds \X Directories :
         Cardinality({i \in acceptedFor(k[1]) : Directory[i.req] = k[2]}) \in Nat
  BY <1>1 DEF acceptedFor
<1>4. \A k \in Seeds \X Patterns :
         Cardinality({i \in acceptedFor(k[1]) : Pattern[i.req] = k[2]}) \in Nat
  BY <1>1 DEF acceptedFor
<1>5. QED
  BY <1>1, <1>2, <1>3, <1>4 DEF seedRequestCounts, DirectoryCounts, PatternCounts

LEMMA ResumeControl ==
    ASSUME ControlInv, Resume
    PROVE  ControlInv'
<1>1. /\ seedRequestCounts \in [Seeds -> Nat]
      /\ DirectoryCounts \in [Seeds \X Directories -> Nat]
      /\ PatternCounts \in [Seeds \X Patterns -> Nat]
  BY CountsTyped DEF ControlInv
<1>2. resumes' \in 0..MaxResumes
  <2>1. MaxResumes \in Nat
    BY ConfigAssumption
  <2>2. QED
    BY <2>1 DEF Resume, ControlInv, TypeOK
<1>3. TypeOK'
  BY <1>1, <1>2 DEF Resume, restoreAccounting, countersFromStats, runVars, ControlInv, TypeOK
<1>4. CallersCoherent' /\ DownIsIdle' /\ KnownValid'
  BY DEF Resume, runVars, ControlInv, CallersCoherent, DownIsIdle, KnownValid
<1>5. QED
  BY <1>3, <1>4 DEF ControlInv

LEMMA InitControl == Init => ControlInv
<1> SUFFICES ASSUME Init PROVE ControlInv
  OBVIOUS
<1>1. KnownValid
  BY FS_EmptySet DEF Init, KnownValid
<1>2. /\ seedCounts \in [Seeds -> Nat]
      /\ directories \in [Seeds \X Directories -> Nat]
      /\ patterns \in [Seeds \X Patterns -> Nat]
  BY <1>1, CountsTyped DEF Init
<1>3. \A c \in Callers : /\ caller[c] \in Caller /\ ~caller[c].news
                         /\ caller[c].at \in {"idle", "next"} /\ caller[c].on = NoRequest
                         /\ c # Main => caller[c].at = "idle"
  <2>1. [Idle EXCEPT !.at = "next", !.todo = Bootstrap] \in Caller
    BY RecordsTyped, ConfigAssumption DEF Caller, Places
  <2>2. /\ [Idle EXCEPT !.at = "next", !.todo = Bootstrap].at = "next"
        /\ [Idle EXCEPT !.at = "next", !.todo = Bootstrap].on = NoRequest
        /\ ~[Idle EXCEPT !.at = "next", !.todo = Bootstrap].news
    BY DEF Idle
  <2>3. QED
    BY <2>1, <2>2, RecordsTyped DEF Init
<1>4. caller \in [Callers -> Caller]
  BY <1>3 DEF Init
<1>5. manifest \in Counters /\ counters \in Counters
  BY DEF Init, Counters
<1>6. 0 \in 0..MaxResumes /\ 0 \in 0..MaxFaults
  BY ConfigAssumption
<1>7. TypeOK
  <2>1. /\ mode \in {"up", "down"} /\ resumes \in 0..MaxResumes /\ faults \in 0..MaxFaults
        /\ bootstrapped \in BOOLEAN /\ stopped \in BOOLEAN
        /\ holder \in Callers \cup {Nobody}
    BY <1>6 DEF Init
  <2>w. waiting = <<>> /\ waiting \in Seq(Callers)
    BY DEF Init
  <2>2. /\ known \subseteq Call /\ \A i, j \in known : i.req = j.req => i = j
        /\ done \subseteq {i.req : i \in known}
    BY DEF Init
  <2>3. QED
    BY <1>2, <1>4, <1>5, <2>1, <2>w, <2>2 DEF TypeOK
<1>8. CallersCoherent
  BY <1>3, ConfigAssumption DEF Init, CallersCoherent, Inside, Nobody
<1>9. QED
  BY <1>1, <1>7, <1>8 DEF ControlInv, DownIsIdle, Init

LEMMA NextControl == ControlInv /\ [Next]_vars => ControlInv'
<1> SUFFICES ASSUME ControlInv, [Next]_vars PROVE ControlInv'
  OBVIOUS
<1>1. ASSUME NEW c \in Callers, Admits(c) PROVE ControlInv'
  BY <1>1, AdmitControl, AcceptControl, AnsweredControl, SkippedControl, DiscoveredControl,
     WrittenControl, NotifiedControl, HookEnqueuesControl DEF Admits
<1>2. ASSUME NEW w \in Workers, Document(w) PROVE ControlInv'
  <2>1. w \in Callers
    BY DEF Callers
  <2>2. QED
    BY <1>2, <2>1, ProcessControl, AsksNextControl, RecordEntryControl, EntryRecordedControl,
       EndDocumentControl DEF Document, FollowLink
<1>3. ASSUME BootstrapNext \/ EndBootstrap PROVE ControlInv'
  <2>1. Main \in Callers
    BY DEF Callers
  <2>2. QED
    BY <1>3, <2>1, AsksNextControl, EndBootstrapControl DEF BootstrapNext
<1>4. ASSUME NEW c \in Callers, Step(c) PROVE ControlInv'
  <2>1. c # Main => c \in Workers
    BY DEF Callers
  <2>2. QED
    BY <1>1, <1>2, <1>3, <1>4, <2>1 DEF Step
<1>5. ASSUME NEW c \in Callers, CallFails(c) PROVE ControlInv'
  BY <1>5, CallFailsControl
<1>6. CASE StopLeasing
  <2>1. TypeOK'
    BY <1>6 DEF StopLeasing, runVars, accounting, ControlInv, TypeOK
  <2>2. QED
    BY <1>6, <2>1
    DEF StopLeasing, runVars, ControlInv, CallersCoherent, DownIsIdle, KnownValid
<1>7. CASE Finalize
  BY <1>7, DownControl DEF Finalize, ControlInv, TypeOK
<1>8. CASE Crash
  BY <1>8, DownControl DEF Crash, ControlInv, TypeOK
<1>9. CASE Resume
  BY <1>9, ResumeControl
<1>10. CASE UNCHANGED vars
  <2>1. TypeOK'
    BY <1>10 DEF vars, runVars, accounting, ControlInv, TypeOK
  <2>2. QED
    BY <1>10, <2>1
    DEF vars, runVars, ControlInv, CallersCoherent, DownIsIdle, KnownValid
<1>11. QED
  BY <1>4, <1>5, <1>6, <1>7, <1>8, <1>9, <1>10 DEF Next

(* The mutex, the queue and the documents are coherent in every run.       *)
THEOREM Control == Spec => []ControlInv
  BY InitControl, NextControl, PTL DEF Spec

(* Every variable of the admission keeps its type, and the frontier holds  *)
(* one call per request.                                                   *)
THEOREM TypeCorrect == Spec => []TypeOK
  BY Control, PTL DEF ControlInv

-----------------------------------------------------------------------------
(* Accounting.                                                             *)

(* What an admission decides by is known, the counts and two counters.     *)
LEMMA ViewKept ==
    ASSUME UNCHANGED <<known, seedCounts, directories, patterns>>,
           counters'.scheduled = counters.scheduled, counters'.files = counters.files
    PROVE  /\ seedRequestCounts' = seedRequestCounts
           /\ DirectoryCounts' = DirectoryCounts /\ PatternCounts' = PatternCounts
           /\ \A call : /\ IsNew(call)' <=> IsNew(call)
                        /\ Rejected(call)' <=> Rejected(call)
                        /\ Reservation(call)' = Reservation(call)
<1>1. \A call : Reservation(call)' = Reservation(call)
  BY DEF Reservation
<1>2. \A call : IsNew(call)' <=> IsNew(call)
  BY DEF IsNew, requestForKey
<1>3. \A call : Rejected(call)' <=> Rejected(call)
  BY <1>1 DEF Rejected, sitemapLimitReached, seedLimitReached
<1>4. /\ seedRequestCounts' = seedRequestCounts
      /\ DirectoryCounts' = DirectoryCounts /\ PatternCounts' = PatternCounts
  BY DEF seedRequestCounts, DirectoryCounts, PatternCounts, acceptedFor
<1>5. QED
  BY <1>1, <1>2, <1>3, <1>4

(* The numbers that are compared.                                          *)
LEMMA NumbersTyped ==
    ASSUME ControlInv
    PROVE  /\ faults \in Nat
           /\ \A s \in Seeds : /\ seedRequestCounts[s] \in Nat /\ seedCounts[s] \in Nat
                               /\ SeedDue(s) \in {0, 1} /\ SeedQuota[s] \in Nat
           /\ \A k \in Seeds \X Directories :
                 DirectoryCounts[k] \in Nat /\ directories[k] \in Nat /\ DirectoryDue(k) \in {0, 1}
           /\ \A k \in Seeds \X Patterns :
                 PatternCounts[k] \in Nat /\ patterns[k] \in Nat /\ PatternDue(k) \in {0, 1}
           /\ MaxPerDirectory \in Nat /\ MaxPerPattern \in Nat
<1>1. faults \in Nat
  BY ConfigAssumption DEF ControlInv, TypeOK
<1>2. MaxPerDirectory \in Nat /\ MaxPerPattern \in Nat
  BY ConfigAssumption
<1>3. \A s \in Seeds : /\ seedRequestCounts[s] \in Nat /\ seedCounts[s] \in Nat
                       /\ SeedDue(s) \in {0, 1} /\ SeedQuota[s] \in Nat
  BY CountsTyped, ConfigAssumption DEF ControlInv, TypeOK, SeedDue, One
<1>4. \A k \in Seeds \X Directories :
         DirectoryCounts[k] \in Nat /\ directories[k] \in Nat /\ DirectoryDue(k) \in {0, 1}
  BY CountsTyped DEF ControlInv, TypeOK, DirectoryDue, One
<1>5. \A k \in Seeds \X Patterns :
         PatternCounts[k] \in Nat /\ patterns[k] \in Nat /\ PatternDue(k) \in {0, 1}
  BY CountsTyped DEF ControlInv, TypeOK, PatternDue, One
<1>6. QED
  BY <1>1, <1>2, <1>3, <1>4, <1>5

(* The quotas stay kept while nothing is accepted.                         *)
LEMMA QuotasStay ==
    ASSUME ControlInv, ControlInv', QuotasKept, faults <= faults',
           seedRequestCounts' = seedRequestCounts,
           DirectoryCounts' = DirectoryCounts, PatternCounts' = PatternCounts
    PROVE  QuotasKept'
<1>1. /\ faults \in Nat /\ faults' \in Nat
      /\ MaxPerDirectory \in Nat /\ MaxPerPattern \in Nat
      /\ \A s \in Seeds : seedRequestCounts[s] \in Nat /\ SeedQuota[s] \in Nat
      /\ \A k \in Seeds \X Directories : DirectoryCounts[k] \in Nat
      /\ \A k \in Seeds \X Patterns : PatternCounts[k] \in Nat
  <2>1. faults' \in Nat
    BY ConfigAssumption DEF ControlInv, TypeOK
  <2>2. QED
    BY <2>1, NumbersTyped
<1>2. \A s \in Seeds : seedRequestCounts[s] <= SeedQuota[s] + faults'
  BY <1>1 DEF QuotasKept
<1>3. \A k \in Seeds \X Directories : DirectoryCounts[k] <= MaxPerDirectory + faults'
  BY <1>1 DEF QuotasKept
<1>4. \A k \in Seeds \X Patterns : PatternCounts[k] <= MaxPerPattern + faults'
  BY <1>1 DEF QuotasKept
<1>5. QED
  BY <1>2, <1>3, <1>4 DEF QuotasKept

(* A step outside of the mutex.                                            *)
LEMMA OutsideAccount ==
    ASSUME ControlInv, ControlInv', AccountInv, mode = "up",
           UNCHANGED <<known, seedCounts, directories, patterns, holder>>,
           counters'.scheduled = counters.scheduled, counters'.files = counters.files,
           faults <= faults',
           holder # Nobody => caller'[holder] = caller[holder]
    PROVE  AccountInv'
<1>1. /\ seedRequestCounts' = seedRequestCounts
      /\ DirectoryCounts' = DirectoryCounts /\ PatternCounts' = PatternCounts
      /\ \A call : /\ IsNew(call)' <=> IsNew(call)
                   /\ Rejected(call)' <=> Rejected(call)
                   /\ Reservation(call)' = Reservation(call)
  BY ViewKept
<1>2. ReservationCurrent'
  <2> SUFFICES ASSUME holder # Nobody
               PROVE  /\ caller[holder].at = "offering" /\ IsNew(caller[holder].call)' =>
                            /\ ~Rejected(caller[holder].call)'
                            /\ caller[holder].reserved = Reservation(caller[holder].call)'
                      /\ caller[holder].news =>
                            /\ caller[holder].call \in known
                            /\ caller[holder].reserved = Reservation(caller[holder].call)'
    BY DEF ReservationCurrent
  <2>1. QED
    BY <1>1 DEF AccountInv, ReservationCurrent
<1>3. /\ \A s \in Seeds : SeedDue(s)' = SeedDue(s)
      /\ \A k : DirectoryDue(k)' = DirectoryDue(k) /\ PatternDue(k)' = PatternDue(k)
  <2>1. (Uncommitted' <=> Uncommitted) /\ (Uncounted' <=> Uncounted)
    BY DEF Uncommitted, Uncounted
  <2>2. Uncommitted => caller'[holder] = caller[holder] /\ holder' = holder
    BY DEF Uncommitted
  <2>3. Uncounted => Uncommitted
    BY DEF Uncounted
  <2>4. \A s \in Seeds : SeedDue(s)' = SeedDue(s)
    BY <2>1, <2>2, <2>3 DEF SeedDue, One
  <2>5. \A k : DirectoryDue(k)' = DirectoryDue(k) /\ PatternDue(k)' = PatternDue(k)
    BY <2>1, <2>2, <2>3 DEF DirectoryDue, PatternDue, DirectoryKey, PatternKey, One
  <2>6. QED
    BY <2>4, <2>5
<1>4. CountsMatch'
  <2>1. faults' \in Nat
    BY ConfigAssumption DEF ControlInv, TypeOK
  <2>2. \A s \in Seeds : seedRequestCounts[s] - seedCounts[s] - SeedDue(s) \in 0..faults'
    BY <2>1, NumbersTyped DEF AccountInv, CountsMatch
  <2>3. \A k \in Seeds \X Directories :
           DirectoryCounts[k] - directories[k] - DirectoryDue(k) \in 0..faults'
    BY <2>1, NumbersTyped DEF AccountInv, CountsMatch
  <2>4. \A k \in Seeds \X Patterns :
           PatternCounts[k] - patterns[k] - PatternDue(k) \in 0..faults'
    BY <2>1, NumbersTyped DEF AccountInv, CountsMatch
  <2>5. QED
    BY <1>1, <1>3, <2>2, <2>3, <2>4 DEF CountsMatch
<1>5. QuotasKept'
  BY <1>1, QuotasStay DEF AccountInv
<1>6. QED
  BY <1>2, <1>4, <1>5 DEF AccountInv

(* Before or after a step nobody has an admission under way: the counts    *)
(* match as they are.                                                      *)
LEMMA NothingDue ==
    /\ ~Uncommitted => /\ \A s : SeedDue(s) = 0
                       /\ \A k : DirectoryDue(k) = 0 /\ PatternDue(k) = 0
    /\ ~Uncommitted' => /\ \A s : SeedDue(s)' = 0
                        /\ \A k : DirectoryDue(k)' = 0 /\ PatternDue(k)' = 0
  BY DEF SeedDue, DirectoryDue, PatternDue, Uncounted, One

(* The mutex is taken, handed on or left, and nothing is counted: the      *)
(* admission that was under way, if any, was lost to a failed call.        *)
LEMMA DecidedAccount ==
    ASSUME ControlInv, ControlInv', AccountInv, mode = "up",
           UNCHANGED <<known, seedCounts, directories, patterns>>,
           counters'.scheduled = counters.scheduled, counters'.files = counters.files,
           faults' = faults \/ faults' = faults + 1,
           Uncommitted => faults' = faults + 1,
           ~Uncommitted', ReservationCurrent'
    PROVE  AccountInv'
<1>1. /\ seedRequestCounts' = seedRequestCounts
      /\ DirectoryCounts' = DirectoryCounts /\ PatternCounts' = PatternCounts
  BY ViewKept
<1>2. /\ \A s : SeedDue(s)' = 0 /\ \A k : DirectoryDue(k)' = 0 /\ PatternDue(k)' = 0
      /\ faults' = faults => /\ \A s : SeedDue(s) = 0
                             /\ \A k : DirectoryDue(k) = 0 /\ PatternDue(k) = 0
  <2>1. faults' = faults => ~Uncommitted
    BY NumbersTyped
  <2>2. QED
    BY <2>1, NothingDue
<1>3. faults \in Nat /\ faults' \in Nat /\ faults <= faults'
  BY NumbersTyped
<1>4. CountsMatch'
  <2>2. \A s \in Seeds : seedRequestCounts[s] - seedCounts[s] - 0 \in 0..faults'
    BY <1>2, <1>3, NumbersTyped DEF AccountInv, CountsMatch
  <2>3. \A k \in Seeds \X Directories : DirectoryCounts[k] - directories[k] - 0 \in 0..faults'
    BY <1>2, <1>3, NumbersTyped DEF AccountInv, CountsMatch
  <2>4. \A k \in Seeds \X Patterns : PatternCounts[k] - patterns[k] - 0 \in 0..faults'
    BY <1>2, <1>3, NumbersTyped DEF AccountInv, CountsMatch
  <2>5. QED
    BY <1>1, <1>2, <2>2, <2>3, <2>4 DEF CountsMatch
<1>5. QuotasKept'
  BY <1>1, <1>3, QuotasStay DEF AccountInv
<1>6. QED
  BY <1>4, <1>5 DEF AccountInv

(* An accepted request is one more of its seed, directory and pattern.     *)
LEMMA AcceptedCounts ==
    ASSUME KnownValid, NEW call \in Call, call.req \in Requests, call \notin known,
           known' = known \cup {call}
    PROVE  /\ \A s \in Seeds :
                 seedRequestCounts'[s] = seedRequestCounts[s] + One(call.seed = s)
           /\ \A k \in Seeds \X Directories :
                 DirectoryCounts'[k] = DirectoryCounts[k] + One(DirectoryKey(call) = k)
           /\ \A k \in Seeds \X Patterns :
                 PatternCounts'[k] = PatternCounts[k] + One(PatternKey(call) = k)
<1>1. ASSUME NEW S \in SUBSET known
      PROVE  Cardinality(S \cup {call}) = Cardinality(S) + 1
  <2>1. IsFiniteSet(S) /\ call \notin S
    BY CountsTyped
  <2>2. QED
    BY <2>1, FS_AddElement
<1>2. ASSUME NEW s \in Seeds
      PROVE  seedRequestCounts'[s] = seedRequestCounts[s] + One(call.seed = s)
  <2>1. acceptedFor(s) \in SUBSET known /\ Cardinality(acceptedFor(s)) \in Nat
    BY CountsTyped DEF acceptedFor
  <2>2. acceptedFor(s)' = IF call.seed = s THEN acceptedFor(s) \cup {call} ELSE acceptedFor(s)
    BY DEF acceptedFor
  <2>3. /\ seedRequestCounts'[s] = Cardinality(acceptedFor(s)')
        /\ seedRequestCounts[s] = Cardinality(acceptedFor(s))
    BY DEF seedRequestCounts
  <2>4. QED
    BY <1>1, <2>1, <2>2, <2>3 DEF One
<1>3. ASSUME NEW k \in Seeds \X Directories
      PROVE  DirectoryCounts'[k] = DirectoryCounts[k] + One(DirectoryKey(call) = k)
  <2> DEFINE S == {i \in acceptedFor(k[1]) : Directory[i.req] = k[2]}
  <2>1. S \in SUBSET known /\ Cardinality(S) \in Nat
    BY CountsTyped DEF acceptedFor
  <2>2. DirectoryKey(call) = k <=> call.seed = k[1] /\ Directory[call.req] = k[2]
    BY DEF DirectoryKey
  <2>3. S' = IF DirectoryKey(call) = k THEN S \cup {call} ELSE S
    BY <2>2 DEF acceptedFor
  <2>4. DirectoryCounts'[k] = Cardinality(S') /\ DirectoryCounts[k] = Cardinality(S)
    BY DEF DirectoryCounts
  <2> HIDE DEF S
  <2>5. QED
    BY <1>1, <2>1, <2>3, <2>4 DEF One
<1>4. ASSUME NEW k \in Seeds \X Patterns
      PROVE  PatternCounts'[k] = PatternCounts[k] + One(PatternKey(call) = k)
  <2> DEFINE S == {i \in acceptedFor(k[1]) : Pattern[i.req] = k[2]}
  <2>1. S \in SUBSET known /\ Cardinality(S) \in Nat
    BY CountsTyped DEF acceptedFor
  <2>2. PatternKey(call) = k <=> call.seed = k[1] /\ Pattern[call.req] = k[2]
    BY DEF PatternKey
  <2>3. S' = IF PatternKey(call) = k THEN S \cup {call} ELSE S
    BY <2>2 DEF acceptedFor
  <2>4. PatternCounts'[k] = Cardinality(S') /\ PatternCounts[k] = Cardinality(S)
    BY DEF PatternCounts
  <2> HIDE DEF S
  <2>5. QED
    BY <1>1, <2>1, <2>3, <2>4 DEF One
<1>5. QED
  BY <1>2, <1>3, <1>4

LEMMA AcceptAccount ==
    ASSUME ControlInv, AccountInv, NEW c \in Callers, Accept(c)
    PROVE  AccountInv'
<1> DEFINE call == caller[c].call
<1>1. /\ ControlInv' /\ holder = c
      /\ call \in Call \ known /\ call.req \in Requests
  BY AcceptControl
<1>2. PICK k \in Caller : /\ caller' = [caller EXCEPT ![c] = k]
                          /\ k.at = "discovering" /\ k.news
                          /\ k.call = call /\ k.reserved = caller[c].reserved
  BY AcceptControl
<1>3. /\ mode = "up" /\ caller[c].at = "offering" /\ IsNew(call) /\ ~caller[c].news
      /\ known' = known \cup {call}
      /\ UNCHANGED <<faults, counters, seedCounts, directories, patterns, holder>>
  BY OnKnown DEF Accept, At, admitVars, accounting
<1>4. caller'[c] = k
  BY <1>2, CallerReplaced DEF ControlInv
<1>5. /\ \A s \in Seeds :
            seedRequestCounts'[s] = seedRequestCounts[s] + One(call.seed = s)
      /\ \A m \in Seeds \X Directories :
            DirectoryCounts'[m] = DirectoryCounts[m] + One(DirectoryKey(call) = m)
      /\ \A m \in Seeds \X Patterns :
            PatternCounts'[m] = PatternCounts[m] + One(PatternKey(call) = m)
  <2> HIDE DEF call
  <2>1. QED
    BY <1>1, <1>3, AcceptedCounts DEF ControlInv
<1>6. ~Uncommitted /\ c # Nobody
  BY <1>1, <1>3, ConfigAssumption DEF Uncommitted, Nobody
<1>7. ~Rejected(call) /\ caller[c].reserved = Reservation(call)
  BY <1>1, <1>3, <1>6 DEF AccountInv, ReservationCurrent
<1>8. /\ Uncommitted' /\ Uncounted' /\ holder' = c
      /\ caller'[c].call = call
  BY <1>1, <1>2, <1>3, <1>4, <1>6 DEF Uncommitted, Uncounted
<1>9. /\ \A s : SeedDue(s)' = One(call.seed = s)
      /\ \A m : DirectoryDue(m)' = One(DirectoryKey(call) = m)
      /\ \A m : PatternDue(m)' = One(PatternKey(call) = m)
  BY <1>8 DEF SeedDue, DirectoryDue, PatternDue, DirectoryKey, PatternKey, One
<1>10. \A b \in BOOLEAN : One(b) \in {0, 1}
  BY DEF One
<1>11. /\ \A s : (call.seed = s) \in BOOLEAN
       /\ \A m : (DirectoryKey(call) = m) \in BOOLEAN /\ (PatternKey(call) = m) \in BOOLEAN
  OBVIOUS
<1> HIDE DEF call
<1>12. CountsMatch'
  <2>1. /\ \A s \in Seeds : seedRequestCounts[s] - seedCounts[s] - 0 \in 0..faults
        /\ \A m \in Seeds \X Directories : DirectoryCounts[m] - directories[m] - 0 \in 0..faults
        /\ \A m \in Seeds \X Patterns : PatternCounts[m] - patterns[m] - 0 \in 0..faults
    BY <1>3, <1>6, NothingDue DEF AccountInv, CountsMatch
  <2>2. \A s \in Seeds :
           seedRequestCounts'[s] - seedCounts'[s] - SeedDue(s)' \in 0..faults'
    <3> TAKE s \in Seeds
    <3> DEFINE one == One(call.seed = s)
    <3>1. one \in {0, 1} /\ SeedDue(s)' = one
          /\ seedRequestCounts'[s] = seedRequestCounts[s] + one
      BY <1>5, <1>9, <1>10, <1>11
    <3> HIDE DEF one
    <3>2. QED
      BY <1>3, <2>1, <3>1, NumbersTyped
  <2>3. \A m \in Seeds \X Directories :
           DirectoryCounts'[m] - directories'[m] - DirectoryDue(m)' \in 0..faults'
    <3> TAKE m \in Seeds \X Directories
    <3> DEFINE one == One(DirectoryKey(call) = m)
    <3>1. one \in {0, 1} /\ DirectoryDue(m)' = one
          /\ DirectoryCounts'[m] = DirectoryCounts[m] + one
      BY <1>5, <1>9, <1>10, <1>11
    <3> HIDE DEF one
    <3>2. QED
      BY <1>3, <2>1, <3>1, NumbersTyped
  <2>4. \A m \in Seeds \X Patterns :
           PatternCounts'[m] - patterns'[m] - PatternDue(m)' \in 0..faults'
    <3> TAKE m \in Seeds \X Patterns
    <3> DEFINE one == One(PatternKey(call) = m)
    <3>1. one \in {0, 1} /\ PatternDue(m)' = one
          /\ PatternCounts'[m] = PatternCounts[m] + one
      BY <1>5, <1>9, <1>10, <1>11
    <3> HIDE DEF one
    <3>2. QED
      BY <1>3, <2>1, <3>1, NumbersTyped
  <2>5. QED
    BY <2>2, <2>3, <2>4 DEF CountsMatch
<1>13. QuotasKept'
  <2>1. /\ seedCounts[call.seed] < SeedQuota[call.seed]
        /\ directories[DirectoryKey(call)] + 1 <= MaxPerDirectory
        /\ patterns[PatternKey(call)] + 1 <= MaxPerPattern
    <3>1. /\ ~(seedCounts[call.seed] >= SeedQuota[call.seed])
          /\ ~(Reservation(call).directory > MaxPerDirectory)
          /\ ~(Reservation(call).pattern > MaxPerPattern)
      BY <1>7 DEF Rejected, seedLimitReached
    <3>2. /\ Reservation(call).directory = directories[DirectoryKey(call)] + 1
          /\ Reservation(call).pattern = patterns[PatternKey(call)] + 1
          /\ directories[DirectoryKey(call)] \in Nat /\ patterns[PatternKey(call)] \in Nat
      BY <1>1, ReservationTyped DEF ControlInv
    <3>3. call.seed \in Seeds
      BY <1>1, KeysTyped
    <3>4. QED
      BY <3>1, <3>2, <3>3, NumbersTyped
  <2>2. /\ \A s \in Seeds : seedRequestCounts[s] - seedCounts[s] <= faults
        /\ \A m \in Seeds \X Directories : DirectoryCounts[m] - directories[m] <= faults
        /\ \A m \in Seeds \X Patterns : PatternCounts[m] - patterns[m] <= faults
    <3>1. /\ \A s : SeedDue(s) = 0
          /\ \A m : DirectoryDue(m) = 0 /\ PatternDue(m) = 0
      BY <1>6, NothingDue
    <3>2. QED
      BY <3>1, <1>3, NumbersTyped DEF AccountInv, CountsMatch
  <2>3. \A s \in Seeds : seedRequestCounts'[s] <= SeedQuota[s] + faults
    <3> TAKE s \in Seeds
    <3>1. CASE call.seed = s
      BY <3>1, <1>5, <2>1, <2>2, NumbersTyped DEF One
    <3>2. CASE call.seed # s
      BY <3>2, <1>5, NumbersTyped DEF One, AccountInv, QuotasKept
    <3>3. QED
      BY <3>1, <3>2
  <2>4. \A m \in Seeds \X Directories : DirectoryCounts'[m] <= MaxPerDirectory + faults
    <3> TAKE m \in Seeds \X Directories
    <3>1. CASE DirectoryKey(call) = m
      BY <3>1, <1>5, <2>1, <2>2, NumbersTyped DEF One
    <3>2. CASE DirectoryKey(call) # m
      BY <3>2, <1>5, NumbersTyped DEF One, AccountInv, QuotasKept
    <3>3. QED
      BY <3>1, <3>2
  <2>5. \A m \in Seeds \X Patterns : PatternCounts'[m] <= MaxPerPattern + faults
    <3> TAKE m \in Seeds \X Patterns
    <3>1. CASE PatternKey(call) = m
      BY <3>1, <1>5, <2>1, <2>2, NumbersTyped DEF One
    <3>2. CASE PatternKey(call) # m
      BY <3>2, <1>5, NumbersTyped DEF One, AccountInv, QuotasKept
    <3>3. QED
      BY <3>1, <3>2
  <2>6. QED
    BY <1>3, <2>3, <2>4, <2>5 DEF QuotasKept
<1>14. ReservationCurrent'
  <2>1. \A x : Reservation(x)' = Reservation(x)
    BY <1>3 DEF Reservation
  <2>2. caller'[c].at # "offering" /\ caller'[c].reserved = Reservation(call)
    BY <1>2, <1>4, <1>7
  <2>3. call \in known'
    BY <1>3
  <2>4. QED
    BY <1>8, <2>1, <2>2, <2>3 DEF ReservationCurrent
<1>15. QED
  BY <1>12, <1>13, <1>14 DEF AccountInv

(* The record of a caller that only goes somewhere else.                   *)
LEMMA GoneThere ==
    ASSUME ControlInv, NEW c \in Callers, NEW place \in Places, Goes(c, place)
    PROVE  /\ caller'[c].at = place
           /\ caller'[c].news = caller[c].news /\ caller'[c].call = caller[c].call
           /\ caller'[c].reserved = caller[c].reserved
           /\ \A d \in Callers \ {c} : caller'[d] = caller[d]
<1>1. PICK k \in Caller : /\ caller' = [caller EXCEPT ![c] = k]
                          /\ k.at = place
                          /\ k.news = caller[c].news /\ k.call = caller[c].call
                          /\ k.reserved = caller[c].reserved
  BY GoesTyped
<1>2. QED
  BY <1>1, CallerReplaced DEF ControlInv

(* What the holder has under way is what is due.                           *)
LEMMA HoldersDue ==
    ASSUME ControlInv, AccountInv, NEW c \in Callers, mode = "up",
           caller[c].at \in {"discovering", "writing"}, caller[c].news
    PROVE  LET call == caller[c].call
           IN  /\ holder = c /\ c # Nobody /\ Uncommitted
               /\ call \in known /\ call \in Call /\ call.req \in Requests
               /\ caller[c].reserved = Reservation(call)
               /\ \A s : SeedDue(s) =
                            One(caller[c].at = "discovering" /\ call.seed = s)
               /\ \A m : DirectoryDue(m) = One(DirectoryKey(call) = m)
               /\ \A m : PatternDue(m) = One(PatternKey(call) = m)
<1>1. holder = c /\ c # Nobody
  BY ConfigAssumption DEF ControlInv, CallersCoherent, Inside, Nobody
<1>2. Uncommitted /\ (Uncounted <=> caller[c].at = "discovering")
  BY <1>1 DEF Uncommitted, Uncounted
<1>3. caller[c].call \in known /\ caller[c].reserved = Reservation(caller[c].call)
  BY <1>1 DEF AccountInv, ReservationCurrent
<1>4. caller[c].call \in Call /\ caller[c].call.req \in Requests
  BY <1>3 DEF ControlInv, TypeOK, KnownValid
<1>5. \A s : SeedDue(s) = One(caller[c].at = "discovering" /\ caller[c].call.seed = s)
  BY <1>1, <1>2 DEF SeedDue, One
<1>6. \A m : /\ DirectoryDue(m) = One(DirectoryKey(caller[c].call) = m)
             /\ PatternDue(m) = One(PatternKey(caller[c].call) = m)
  BY <1>1, <1>2 DEF DirectoryDue, PatternDue, One
<1>7. QED
  BY <1>1, <1>2, <1>3, <1>4, <1>5, <1>6

(* The new request is counted for its seed.                                *)
LEMMA DiscoveredAccount ==
    ASSUME ControlInv, ControlInv', AccountInv, NEW c \in Callers, Discovered(c)
    PROVE  AccountInv'
<1> DEFINE call == caller[c].call
<1>1. mode = "up" /\ caller[c].at = "discovering" /\ caller[c] \in Caller
  BY DEF Discovered, At, ControlInv, TypeOK
<1>2. UNCHANGED <<mode, faults, known, directories, patterns>>
  BY DEF Discovered, admitVars
<1>3. CASE ~caller[c].news
  <2>1. holder' = Nobody /\ UNCHANGED <<counters, seedCounts>>
    BY <1>3 DEF Discovered
  <2>2. ~Uncommitted' /\ ReservationCurrent'
    BY <2>1 DEF Uncommitted, ReservationCurrent
  <2>3. holder = c
    BY <1>1 DEF ControlInv, CallersCoherent, Inside
  <2>4. ~Uncommitted
    BY <1>3, <2>3 DEF Uncommitted
  <2>5. QED
    BY <1>1, <1>2, <2>1, <2>2, <2>4, DecidedAccount
<1>4. CASE caller[c].news
  <2>1. /\ Goes(c, "writing") /\ holder' = holder
        /\ seedCounts' = [seedCounts EXCEPT ![call.seed] = @ + 1]
    BY <1>4 DEF Discovered
  <2>2. /\ caller'[c].at = "writing" /\ caller'[c].news
        /\ caller'[c].call = call /\ caller'[c].reserved = caller[c].reserved
    BY <1>4, <2>1, GoneThere DEF Places
  <2>3. /\ holder = c /\ c # Nobody
        /\ call \in known /\ call \in Call
        /\ caller[c].reserved = Reservation(call)
        /\ \A s : SeedDue(s) = One(call.seed = s)
        /\ \A m : DirectoryDue(m) = One(DirectoryKey(call) = m)
        /\ \A m : PatternDue(m) = One(PatternKey(call) = m)
    BY <1>1, <1>4, HoldersDue
  <2>4. /\ seedRequestCounts' = seedRequestCounts
        /\ DirectoryCounts' = DirectoryCounts /\ PatternCounts' = PatternCounts
    BY <1>2 DEF seedRequestCounts, DirectoryCounts, PatternCounts, acceptedFor
  <2>5. Uncommitted' /\ ~Uncounted'
    BY <2>1, <2>2, <2>3 DEF Uncommitted, Uncounted
  <2>6. /\ \A s : SeedDue(s)' = 0
        /\ \A m : DirectoryDue(m)' = One(DirectoryKey(call) = m)
        /\ \A m : PatternDue(m)' = One(PatternKey(call) = m)
    BY <2>1, <2>2, <2>3, <2>5 DEF SeedDue, DirectoryDue, PatternDue, DirectoryKey, PatternKey, One
  <2>7. CountsMatch'
    <3>1. \A s \in Seeds : seedRequestCounts[s] - seedCounts'[s] - 0 \in 0..faults
      <4> TAKE s \in Seeds
      <4>1. call.seed \in Seeds /\ seedCounts \in [Seeds -> Nat]
        BY <2>3 DEF Call, ControlInv, TypeOK
      <4>2. seedRequestCounts[s] - seedCounts[s] - One(call.seed = s) \in 0..faults
        BY <1>1, <2>3 DEF AccountInv, CountsMatch
      <4>3. CASE call.seed = s
        BY <4>1, <4>2, <4>3, <2>1, NumbersTyped DEF One
      <4>4. CASE call.seed # s
        BY <4>1, <4>2, <4>4, <2>1, NumbersTyped DEF One
      <4>5. QED
        BY <4>3, <4>4
    <3>2. /\ \A m \in Seeds \X Directories :
                DirectoryCounts[m] - directories[m] - DirectoryDue(m) \in 0..faults
          /\ \A m \in Seeds \X Patterns :
                PatternCounts[m] - patterns[m] - PatternDue(m) \in 0..faults
      BY <1>1 DEF AccountInv, CountsMatch
    <3>3. /\ \A m : DirectoryDue(m)' = DirectoryDue(m)
          /\ \A m : PatternDue(m)' = PatternDue(m)
      BY <2>3, <2>6
    <3>4. QED
      BY <1>2, <2>4, <2>6, <3>1, <3>2, <3>3 DEF CountsMatch
  <2>8. QuotasKept'
    BY <1>2, <2>4, QuotasStay, NumbersTyped DEF AccountInv
  <2>9. ReservationCurrent'
    <3>1. \A x : Reservation(x)' = Reservation(x)
      BY <1>2 DEF Reservation
    <3>2. QED
      BY <1>2, <2>1, <2>2, <2>3, <3>1 DEF ReservationCurrent
  <2>10. QED
    BY <2>7, <2>8, <2>9 DEF AccountInv
<1>5. QED
  BY <1>3, <1>4

(* commit() stores what the reservation had computed.                      *)
LEMMA WrittenAccount ==
    ASSUME ControlInv, ControlInv', AccountInv, NEW c \in Callers, Written(c)
    PROVE  AccountInv'
<1> DEFINE call == caller[c].call
<1>1. mode = "up" /\ caller[c].at = "writing" /\ caller[c].news
  BY DEF Written, At, ControlInv, CallersCoherent
<1>2. /\ UNCHANGED <<mode, faults, known, counters, seedCounts>> /\ holder' = Nobody
      /\ directories' = [directories EXCEPT
                            ![DirectoryKey(call)] = caller[c].reserved.directory]
      /\ patterns' = [patterns EXCEPT ![PatternKey(call)] = caller[c].reserved.pattern]
  BY DEF Written, admitVars
<1>3. /\ holder = c /\ call \in Call /\ call.req \in Requests
      /\ caller[c].reserved = Reservation(call)
      /\ \A s : SeedDue(s) = One(FALSE)
      /\ \A m : DirectoryDue(m) = One(DirectoryKey(call) = m)
      /\ \A m : PatternDue(m) = One(PatternKey(call) = m)
  <2>1. \A s : SeedDue(s) = One(caller[c].at = "discovering" /\ call.seed = s)
    BY <1>1, HoldersDue
  <2>2. \A s : (caller[c].at = "discovering" /\ call.seed = s) = FALSE
    BY <1>1
  <2>3. QED
    BY <1>1, <2>1, <2>2, HoldersDue
<1>4. /\ DirectoryKey(call) \in Seeds \X Directories
      /\ PatternKey(call) \in Seeds \X Patterns
      /\ caller[c].reserved.directory = directories[DirectoryKey(call)] + 1
      /\ caller[c].reserved.pattern = patterns[PatternKey(call)] + 1
  BY <1>3, KeysTyped, ReservationTyped DEF ControlInv
<1>5. /\ seedRequestCounts' = seedRequestCounts
      /\ DirectoryCounts' = DirectoryCounts /\ PatternCounts' = PatternCounts
  BY <1>2 DEF seedRequestCounts, DirectoryCounts, PatternCounts, acceptedFor
<1>6. ~Uncommitted' /\ ReservationCurrent'
  BY <1>2 DEF Uncommitted, ReservationCurrent
<1>7. /\ \A s : SeedDue(s)' = 0
      /\ \A m : DirectoryDue(m)' = 0 /\ PatternDue(m)' = 0
  BY <1>6, NothingDue
<1>8. CountsMatch'
  <2>1. \A s \in Seeds : seedRequestCounts[s] - seedCounts[s] - 0 \in 0..faults
    BY <1>1, <1>3 DEF AccountInv, CountsMatch, One
  <2>2. \A m \in Seeds \X Directories : DirectoryCounts[m] - directories'[m] - 0 \in 0..faults
    <3> TAKE m \in Seeds \X Directories
    <3>1. DirectoryCounts[m] - directories[m] - One(DirectoryKey(call) = m) \in 0..faults
      BY <1>1, <1>3 DEF AccountInv, CountsMatch
    <3>2. directories \in [Seeds \X Directories -> Nat]
      BY DEF ControlInv, TypeOK
    <3>3. CASE DirectoryKey(call) = m
      <4>1. directories'[m] = directories[m] + 1
        BY <1>2, <1>4, <3>2, <3>3
      <4>2. QED
        BY <3>1, <3>3, <4>1, NumbersTyped DEF One
    <3>4. CASE DirectoryKey(call) # m
      <4>1. directories'[m] = directories[m]
        BY <1>2, <3>2, <3>4
      <4>2. QED
        BY <3>1, <3>4, <4>1, NumbersTyped DEF One
    <3>5. QED
      BY <3>3, <3>4
  <2>3. \A m \in Seeds \X Patterns : PatternCounts[m] - patterns'[m] - 0 \in 0..faults
    <3> TAKE m \in Seeds \X Patterns
    <3>1. PatternCounts[m] - patterns[m] - One(PatternKey(call) = m) \in 0..faults
      BY <1>1, <1>3 DEF AccountInv, CountsMatch
    <3>2. patterns \in [Seeds \X Patterns -> Nat]
      BY DEF ControlInv, TypeOK
    <3>3. CASE PatternKey(call) = m
      <4>1. patterns'[m] = patterns[m] + 1
        BY <1>2, <1>4, <3>2, <3>3
      <4>2. QED
        BY <3>1, <3>3, <4>1, NumbersTyped DEF One
    <3>4. CASE PatternKey(call) # m
      <4>1. patterns'[m] = patterns[m]
        BY <1>2, <3>2, <3>4
      <4>2. QED
        BY <3>1, <3>4, <4>1, NumbersTyped DEF One
    <3>5. QED
      BY <3>3, <3>4
  <2>4. QED
    BY <1>2, <1>5, <1>7, <2>1, <2>2, <2>3 DEF CountsMatch
<1>9. QuotasKept'
  BY <1>2, <1>5, QuotasStay, NumbersTyped DEF AccountInv
<1>10. QED
  BY <1>6, <1>8, <1>9 DEF AccountInv

(* A step beside the mutex: the counts and the holder are left alone.      *)
Beside ==
    /\ UNCHANGED <<mode, resumes, manifest, known, seedCounts, directories, patterns, holder>>
    /\ counters'.scheduled = counters.scheduled /\ counters'.files = counters.files
    /\ faults <= faults'
    /\ holder # Nobody => caller'[holder] = caller[holder]

(* A step that takes the mutex, goes on with it or leaves it, and counts   *)
(* nothing.                                                                *)
Uncounting ==
    /\ UNCHANGED <<mode, resumes, manifest, known, seedCounts, directories, patterns>>
    /\ counters'.scheduled = counters.scheduled /\ counters'.files = counters.files
    /\ faults' = faults \/ faults' = faults + 1
    /\ Uncommitted => faults' = faults + 1
    /\ ~Uncommitted'
    /\ \/ holder' = Nobody
       \/ caller'[holder'].at # "offering"
       \/ \E c \in Callers : Admit(c)

LEMMA BesideStep ==
    ASSUME ControlInv, NEW c \in Callers, caller[c].at \notin Inside,
           \A d \in Callers \ {c} : caller'[d] = caller[d],
           UNCHANGED <<mode, resumes, manifest, known, seedCounts, directories, patterns, holder>>,
           counters'.scheduled = counters.scheduled, counters'.files = counters.files,
           faults' = faults \/ faults' = faults + 1
    PROVE  Beside
<1>1. holder # c /\ (holder # Nobody => holder \in Callers \ {c})
  BY DEF ControlInv, CallersCoherent, TypeOK
<1>2. faults <= faults'
  BY NumbersTyped
<1>3. QED
  BY <1>1, <1>2 DEF Beside

LEMMA CallersMove ==
    ASSUME ControlInv, NEW c \in Callers,
           \/ \E i \in known : Process(c, i)
           \/ AsksNext(c) \/ RecordEntry(c) \/ EntryRecorded(c) \/ EndDocument(c)
           \/ c = Main /\ EndBootstrap
           \/ Notified(c) \/ \E call \in Hooked : HookEnqueues(c, call)
    PROVE  Beside
<1>1. caller[c].at \notin Inside
  BY DEF Process, AsksNext, RecordEntry, EntryRecorded, EndDocument, EndBootstrap, Notified,
         HookEnqueues, At, Inside
<1>2. \A d \in Callers \ {c} : caller'[d] = caller[d]
  BY DEF Process, AsksNext, RecordEntry, EntryRecorded, EndDocument, EndBootstrap, Notified,
         HookEnqueues, Turns, Goes, ControlInv, TypeOK
<1>3. /\ UNCHANGED <<mode, resumes, manifest, known, seedCounts, directories, patterns,
                     holder, faults>>
      /\ counters' = counters \/ counters' = [counters EXCEPT !.entries = @ + 1]
  BY DEF Process, AsksNext, RecordEntry, EntryRecorded, EndDocument, EndBootstrap, Notified,
         HookEnqueues, admitVars, runVars, accounting
<1>4. counters'.scheduled = counters.scheduled /\ counters'.files = counters.files
  BY <1>3 DEF ControlInv, TypeOK, Counters
<1>5. QED
  BY <1>1, <1>2, <1>3, <1>4, BesideStep

LEMMA AdmitUncounting ==
    ASSUME ControlInv, NEW c \in Callers, Admit(c)
    PROVE  Uncounting
<1>1. /\ holder = Nobody /\ holder' = c
      /\ UNCHANGED <<mode, resumes, faults, manifest, known, counters, seedCounts,
                     directories, patterns>>
  BY DEF Admit, Decides, runVars, accounting
<1>2. ~caller'[c].news
  BY AdmitControl
<1>3. ~Uncommitted /\ ~Uncommitted'
  BY <1>1, <1>2 DEF Uncommitted
<1>4. QED
  BY <1>1, <1>3 DEF Uncounting

LEMMA HolderUncounting ==
    ASSUME ControlInv, NEW c \in Callers,
           \/ AlreadySeen(c) \/ Refuse(c) \/ Skipped(c)
           \/ Discovered(c) /\ ~caller[c].news
    PROVE  Uncounting
<1>1. caller[c].at \in {"offering", "skipping", "discovering"} /\ ~caller[c].news
  BY OnKnown DEF AlreadySeen, Refuse, Skipped, Discovered, At
<1>2. holder = c /\ ~Uncommitted
  BY <1>1 DEF ControlInv, CallersCoherent, Inside, Uncommitted
<1>3. UNCHANGED <<mode, resumes, faults, manifest, known, counters, seedCounts,
                  directories, patterns>>
  BY <1>1 DEF AlreadySeen, Refuse, Skipped, Discovered, admitVars, accounting
<1>4. CASE holder' = Nobody
  BY <1>2, <1>3, <1>4 DEF Uncounting, Uncommitted
<1>5. CASE AlreadySeen(c) \/ Refuse(c)
  <2>1. PICK k \in Caller : /\ caller' = [caller EXCEPT ![c] = k]
                            /\ k.at \in {"discovering", "skipping"} /\ ~k.news
    BY <1>5, AnsweredControl
  <2>2. caller'[c] = k /\ holder' = c
    BY <1>2, <1>5, <2>1, CallerReplaced DEF ControlInv, AlreadySeen, Refuse
  <2>3. QED
    BY <1>2, <1>3, <2>1, <2>2 DEF Uncounting, Uncommitted
<1>6. QED
  BY <1>1, <1>4, <1>5 DEF Skipped, Discovered

LEMMA CallFailsCounts ==
    ASSUME ControlInv, NEW c \in Callers, CallFails(c)
    PROVE  Beside \/ Uncounting
<1>1. /\ UNCHANGED <<mode, resumes, manifest, known, seedCounts, directories, patterns, counters>>
      /\ faults' = faults + 1 /\ holder' = (IF holder = c THEN Nobody ELSE holder)
  BY DEF CallFails, accounting
<1>2. \A d \in Callers \ {c} : caller'[d] = caller[d]
  BY CallFailsControl, CallerReplaced DEF ControlInv
<1>3. CASE holder = c
  BY <1>1, <1>3 DEF Uncounting, Uncommitted
<1>4. CASE holder # c
  <2>1. caller[c].at \notin Inside /\ holder' = holder
    BY <1>1, <1>4 DEF ControlInv, CallersCoherent
  <2>2. QED
    BY <1>1, <1>2, <2>1, BesideStep
<1>5. QED
  BY <1>3, <1>4

(* The steps of a process, by what they do to the counts.                  *)
LEMMA StepKinds ==
    ASSUME ControlInv, [Next]_vars
    PROVE  \/ Beside \/ Uncounting
           \/ \E c \in Callers : Accept(c) \/ (Discovered(c) /\ caller[c].news) \/ Written(c)
           \/ Finalize \/ Crash \/ Resume
<1>1. ASSUME NEW c \in Callers, Step(c)
      PROVE  \/ Beside \/ Uncounting
             \/ Accept(c) \/ (Discovered(c) /\ caller[c].news) \/ Written(c)
  <2>1. CASE Admits(c)
    <3>1. CASE Admit(c)
      BY <3>1, AdmitUncounting
    <3>2. CASE Accept(c) \/ Written(c)
      BY <3>2
    <3>3. CASE AlreadySeen(c) \/ Refuse(c) \/ Skipped(c) \/ Discovered(c)
      BY <3>3, HolderUncounting
    <3>4. CASE Notified(c) \/ \E call \in Hooked : HookEnqueues(c, call)
      BY <3>4, CallersMove
    <3>5. QED
      BY <2>1, <3>1, <3>2, <3>3, <3>4 DEF Admits
  <2>2. CASE c # Main /\ Document(c)
    BY <2>2, CallersMove DEF Document, FollowLink
  <2>3. CASE c = Main /\ (BootstrapNext \/ EndBootstrap)
    BY <2>3, CallersMove DEF BootstrapNext
  <2>4. QED
    BY <1>1, <2>1, <2>2, <2>3 DEF Step
<1>2. ASSUME StopLeasing \/ UNCHANGED vars PROVE Beside
  <2>1. UNCHANGED <<mode, resumes, faults, manifest, known, seedCounts, directories, patterns,
                    counters, holder, caller>>
    BY <1>2 DEF StopLeasing, vars, runVars, accounting
  <2>2. QED
    BY <2>1, NumbersTyped DEF Beside
<1>3. QED
  BY <1>1, <1>2, CallFailsCounts DEF Next

(* What was decided under the mutex, just now or before, is current.       *)
LEMMA UncountingAccount ==
    ASSUME ControlInv, ControlInv', AccountInv, mode = "up", Uncounting
    PROVE  AccountInv'
<1>1. ReservationCurrent'
  <2>1. CASE holder' = Nobody
    BY <2>1 DEF ReservationCurrent
  <2>2. CASE holder' # Nobody /\ caller'[holder'].at # "offering"
    BY <2>2 DEF ReservationCurrent, Uncounting, Uncommitted
  <2>3. ASSUME NEW c \in Callers, Admit(c) PROVE ReservationCurrent'
    <3> DEFINE call == caller[c].call
    <3>1. /\ caller'[c].call = call /\ ~caller'[c].news
          /\ caller'[c].at = IF IsNew(call) /\ Rejected(call) THEN "skipping" ELSE "offering"
          /\ caller'[c].reserved = IF IsNew(call) /\ ~Rejected(call)
                                   THEN Reservation(call) ELSE NothingReserved
          /\ holder' = c
      BY <2>3, AdmitControl DEF Admit, Decides
    <3>2. \A x : /\ IsNew(x)' <=> IsNew(x)
                 /\ Rejected(x)' <=> Rejected(x)
                 /\ Reservation(x)' = Reservation(x)
      BY ViewKept DEF Uncounting
    <3>3. ASSUME caller'[c].at = "offering", IsNew(call)
          PROVE  ~Rejected(call) /\ caller'[c].reserved = Reservation(call)
      BY <3>1, <3>3
    <3>4. QED
      BY <3>1, <3>2, <3>3 DEF ReservationCurrent
  <2>4. QED
    BY <2>1, <2>2, <2>3 DEF Uncounting
<1>2. QED
  BY <1>1, DecidedAccount DEF Uncounting

LEMMA NextAccount ==
    ControlInv /\ ControlInv' /\ AccountInv /\ [Next]_vars => AccountInv'
<1> SUFFICES ASSUME ControlInv, ControlInv', AccountInv, [Next]_vars PROVE AccountInv'
  OBVIOUS
<1>1. CASE mode # "up"
  <2>1. mode = "down" /\ holder = Nobody /\ \A c \in Callers : caller[c] = Idle
    BY <1>1 DEF ControlInv, TypeOK, DownIsIdle
  <2>2. ASSUME UNCHANGED <<mode, holder, known, faults>> PROVE AccountInv'
    <3>1. ReservationCurrent' /\ CountsMatch'
      BY <1>1, <2>1, <2>2 DEF ReservationCurrent, CountsMatch
    <3>2. QuotasKept'
      BY <2>2, NumbersTyped, QuotasStay
      DEF AccountInv, seedRequestCounts, DirectoryCounts, PatternCounts, acceptedFor
    <3>3. QED
      BY <3>1, <3>2 DEF AccountInv
  <2>3. CASE Resume
    <3>1. /\ UNCHANGED <<known, faults, holder>>
          /\ seedCounts' = seedRequestCounts /\ directories' = DirectoryCounts
          /\ patterns' = PatternCounts
      BY <2>3 DEF Resume, runVars, restoreAccounting
    <3>2. /\ seedRequestCounts' = seedRequestCounts
          /\ DirectoryCounts' = DirectoryCounts /\ PatternCounts' = PatternCounts
      BY <3>1 DEF seedRequestCounts, DirectoryCounts, PatternCounts, acceptedFor
    <3>3. ~Uncommitted' /\ ReservationCurrent'
      BY <2>1, <3>1 DEF Uncommitted, ReservationCurrent
    <3>4. /\ \A s : SeedDue(s)' = 0
          /\ \A m : DirectoryDue(m)' = 0 /\ PatternDue(m)' = 0
      BY <3>3, NothingDue
    <3>5. \A x \in Nat : x - x - 0 \in 0..faults
      BY NumbersTyped
    <3>6. CountsMatch'
      BY <3>1, <3>2, <3>4, <3>5, NumbersTyped DEF CountsMatch
    <3>7. QuotasKept'
      BY <3>1, <3>2, NumbersTyped, QuotasStay DEF AccountInv
    <3>8. QED
      BY <3>3, <3>6, <3>7 DEF AccountInv
  <2>4. CASE ~Resume
    <3>1. \A c \in Callers : ~Step(c) /\ ~CallFails(c)
      BY <1>1 DEF Step, Admits, Document, Admit, Accept, AlreadySeen, Refuse, Skipped,
         Discovered, Written, Notified, HookEnqueues, Process, FollowLink, AsksNext,
         RecordEntry, EntryRecorded, EndDocument, BootstrapNext, EndBootstrap, At, CallFails
    <3>2. ~StopLeasing /\ ~Finalize /\ ~Crash
      BY <1>1 DEF StopLeasing, Finalize, Crash, Down
    <3>3. UNCHANGED vars
      BY <2>4, <3>1, <3>2 DEF Next
    <3>4. QED
      BY <2>2, <3>3 DEF vars, runVars
  <2>5. QED
    BY <2>3, <2>4
<1>2. CASE mode = "up"
  <2>1. CASE Beside
    BY <1>2, <2>1, OutsideAccount DEF Beside
  <2>2. CASE Uncounting
    BY <1>2, <2>2, UncountingAccount
  <2>3. ASSUME NEW c \in Callers, Accept(c) \/ Discovered(c) \/ Written(c) PROVE AccountInv'
    BY <2>3, AcceptAccount, DiscoveredAccount, WrittenAccount
  <2>4. CASE Finalize \/ Crash
    <3>1. /\ mode' = "down" /\ holder' = Nobody /\ UNCHANGED <<known, faults>>
      BY <2>4 DEF Finalize, Crash, Down
    <3>2. ReservationCurrent' /\ CountsMatch'
      BY <3>1 DEF ReservationCurrent, CountsMatch
    <3>3. QuotasKept'
      BY <3>1, NumbersTyped, QuotasStay
      DEF AccountInv, seedRequestCounts, DirectoryCounts, PatternCounts, acceptedFor
    <3>4. QED
      BY <3>2, <3>3 DEF AccountInv
  <2>5. CASE Resume
    BY <1>2, <2>5 DEF Resume
  <2>6. QED
    BY <2>1, <2>2, <2>3, <2>4, <2>5, StepKinds
<1>3. QED
  BY <1>1, <1>2

LEMMA InitAccount == Init => AccountInv
<1> SUFFICES ASSUME Init PROVE AccountInv
  OBVIOUS
<1>1. ControlInv
  BY InitControl
<1>2. ~Uncommitted /\ ReservationCurrent
  BY DEF Init, Uncommitted, ReservationCurrent
<1>3. /\ \A s : SeedDue(s) = 0
      /\ \A m : DirectoryDue(m) = 0 /\ PatternDue(m) = 0
  BY <1>2, NothingDue
<1>4. CountsMatch
  <2>1. \A x \in Nat : x - x - 0 \in 0..faults
    BY <1>1, NumbersTyped
  <2>2. /\ seedCounts = seedRequestCounts /\ directories = DirectoryCounts
        /\ patterns = PatternCounts
    BY DEF Init
  <2>3. QED
    BY <1>1, <1>3, <2>1, <2>2, NumbersTyped DEF CountsMatch
<1>5. QuotasKept
  <2>1. \A S \in SUBSET known : Cardinality(S) = 0
    BY FS_EmptySet DEF Init
  <2>2. /\ \A s \in Seeds : seedRequestCounts[s] = 0
        /\ \A m \in Seeds \X Directories : DirectoryCounts[m] = 0
        /\ \A m \in Seeds \X Patterns : PatternCounts[m] = 0
    BY <2>1 DEF seedRequestCounts, DirectoryCounts, PatternCounts, acceptedFor
  <2>3. QED
    BY <1>1, <2>2, NumbersTyped DEF QuotasKept
<1>6. QED
  BY <1>2, <1>4, <1>5 DEF AccountInv

(* The counts that limit admissions are those of the frontier.             *)
THEOREM Accounted == Spec => []AccountInv
<1>1. ControlInv /\ AccountInv /\ [Next]_vars => ControlInv' /\ AccountInv'
  BY NextControl, NextAccount
<1>2. QED
  BY InitControl, InitAccount, <1>1, PTL DEF Spec

(* Between two admissions the counts are exact, but for one per failed     *)
(* call.                                                                   *)
THEOREM AccountingExactHolds == Spec => []AccountingExact
<1>1. ControlInv /\ AccountInv => AccountingExact
  <2> SUFFICES ASSUME ControlInv, AccountInv, mode = "up", holder = Nobody
               PROVE  /\ \A s \in Seeds :
                            seedRequestCounts[s] - seedCounts[s] \in 0..faults
                      /\ \A k \in Seeds \X Directories :
                            DirectoryCounts[k] - directories[k] \in 0..faults
                      /\ \A k \in Seeds \X Patterns :
                            PatternCounts[k] - patterns[k] \in 0..faults
    BY DEF AccountingExact
  <2>1. /\ \A s : SeedDue(s) = 0
        /\ \A m : DirectoryDue(m) = 0 /\ PatternDue(m) = 0
    BY NothingDue DEF Uncommitted
  <2>2. QED
    BY <2>1, NumbersTyped DEF AccountInv, CountsMatch
<1>2. QED
  BY <1>1, Control, Accounted, PTL

-----------------------------------------------------------------------------
(* The limits on requests and on sitemap files.                            *)

LEMMA CapsTyped ==
    ASSUME ControlInv
    PROVE  /\ Cardinality(known) \in Nat /\ Cardinality(KnownFiles) \in Nat
           /\ counters.scheduled \in Nat /\ counters.files \in Nat
           /\ manifest.scheduled \in Nat /\ manifest.files \in Nat
           /\ faults \in Nat /\ resumes \in Nat
           /\ MaxScheduled \in Nat /\ MaxSitemapFiles \in Nat
           /\ resumes * MaxScheduled \in Nat /\ resumes * MaxSitemapFiles \in Nat
           /\ (resumes + 1) * MaxScheduled = resumes * MaxScheduled + MaxScheduled
           /\ (resumes + 1) * MaxSitemapFiles = resumes * MaxSitemapFiles + MaxSitemapFiles
           /\ ScheduledDue \in {0, 1} /\ FileDue \in {0, 1}
<1>1. MaxScheduled \in Nat /\ MaxSitemapFiles \in Nat /\ MaxResumes \in Nat /\ MaxFaults \in Nat
  BY ConfigAssumption
<1>2. /\ resumes \in Nat /\ faults \in Nat
      /\ counters.scheduled \in Nat /\ counters.files \in Nat
      /\ manifest.scheduled \in Nat /\ manifest.files \in Nat
  BY <1>1 DEF ControlInv, TypeOK, Counters
<1>3. Cardinality(known) \in Nat /\ Cardinality(KnownFiles) \in Nat
  BY CountsTyped DEF ControlInv, KnownFiles
<1>4. /\ resumes * MaxScheduled \in Nat /\ resumes * MaxSitemapFiles \in Nat
      /\ (resumes + 1) * MaxScheduled = resumes * MaxScheduled + MaxScheduled
      /\ (resumes + 1) * MaxSitemapFiles = resumes * MaxSitemapFiles + MaxSitemapFiles
  BY <1>1, <1>2
<1>5. ScheduledDue \in {0, 1} /\ FileDue \in {0, 1}
  BY DEF ScheduledDue, FileDue, One
<1>6. QED
  BY <1>1, <1>2, <1>3, <1>4, <1>5

LEMMA NothingDueOfLimits ==
    /\ ~Uncounted => ScheduledDue = 0 /\ FileDue = 0
    /\ ~Uncounted' => ScheduledDue' = 0 /\ FileDue' = 0
  BY DEF ScheduledDue, FileDue, One

(* What a process has counted and accepted is within the limits as long as *)
(* the two parts about its counters hold.                                  *)
LEMMA CappedWhileUp ==
    ControlInv /\ mode = "up" /\ CountersCapped /\ AcceptedCapped => CapInv
<1> SUFFICES ASSUME ControlInv, mode = "up", CountersCapped, AcceptedCapped
             PROVE  CapInv
  OBVIOUS
<1>1. /\ Cardinality(known) <= resumes * MaxScheduled + MaxScheduled + faults
      /\ Cardinality(KnownFiles) <= resumes * MaxSitemapFiles + MaxSitemapFiles + faults
  BY CapsTyped DEF CountersCapped, AcceptedCapped
<1>2. ProcessCapped
  BY <1>1, CapsTyped DEF ProcessCapped, KnownFiles
<1>3. QED
  BY <1>2 DEF CapInv

LEMMA CappedNext ==
    ControlInv' /\ (mode = "up")' /\ CountersCapped' /\ AcceptedCapped' => CapInv'
  BY CappedWhileUp, PTL

LEMMA BesideCap ==
    ASSUME ControlInv, ControlInv', CapInv, mode = "up", Beside
    PROVE  CapInv'
<1>1. /\ UNCHANGED <<mode, resumes, manifest, known>> /\ faults <= faults'
      /\ counters'.scheduled = counters.scheduled /\ counters'.files = counters.files
      /\ KnownFiles' = KnownFiles
  BY DEF Beside, KnownFiles
<1>2. (Uncounted' <=> Uncounted) /\ (Uncounted => caller'[holder] = caller[holder])
      /\ holder' = holder
  BY DEF Beside, Uncounted, Uncommitted
<1>3. ScheduledDue' = ScheduledDue /\ FileDue' = FileDue
  BY <1>2 DEF ScheduledDue, FileDue, One
<1>4. CountersCapped'
  BY <1>1, <1>3 DEF CapInv, CountersCapped
<1>5. AcceptedCapped'
  <2>1. faults \in Nat /\ faults' \in Nat
    BY CapsTyped, <1>1 DEF ControlInv, TypeOK
  <2>2. /\ Cardinality(known) <=
               resumes * MaxScheduled + counters.scheduled + ScheduledDue + faults
        /\ Cardinality(KnownFiles) <=
               resumes * MaxSitemapFiles + counters.files + FileDue + faults
    BY DEF CapInv, AcceptedCapped
  <2>3. /\ Cardinality(known) <=
               resumes * MaxScheduled + counters.scheduled + ScheduledDue + faults'
        /\ Cardinality(KnownFiles) <=
               resumes * MaxSitemapFiles + counters.files + FileDue + faults'
    BY <1>1, <2>1, <2>2, CapsTyped
  <2>4. QED
    BY <1>1, <1>3, <2>3 DEF AcceptedCapped
<1>6. QED
  BY <1>1, <1>4, <1>5, CappedNext

LEMMA UncountingCap ==
    ASSUME ControlInv, ControlInv', CapInv, mode = "up", Uncounting
    PROVE  CapInv'
<1>1. /\ UNCHANGED <<mode, resumes, manifest, known>>
      /\ faults' = faults \/ faults' = faults + 1
      /\ counters'.scheduled = counters.scheduled /\ counters'.files = counters.files
      /\ KnownFiles' = KnownFiles
  BY DEF Uncounting, KnownFiles
<1>2. ~Uncounted' /\ (Uncounted => faults' = faults + 1)
  BY DEF Uncounting, Uncounted
<1>3. ScheduledDue' = 0 /\ FileDue' = 0
  BY <1>2, NothingDueOfLimits
<1>4. ScheduledDue + faults <= faults' /\ FileDue + faults <= faults'
  <2>1. CASE Uncounted
    BY <1>2, <2>1, CapsTyped
  <2>2. CASE ~Uncounted
    BY <1>1, <2>2, NothingDueOfLimits, CapsTyped
  <2>3. QED
    BY <2>1, <2>2
<1>5. CountersCapped'
  BY <1>1, <1>3, CapsTyped DEF CapInv, CountersCapped
<1>6. AcceptedCapped'
  <2>1. faults' \in Nat
    BY <1>1, CapsTyped
  <2>2. /\ Cardinality(known) <=
               resumes * MaxScheduled + counters.scheduled + ScheduledDue + faults
        /\ Cardinality(KnownFiles) <=
               resumes * MaxSitemapFiles + counters.files + FileDue + faults
    BY DEF CapInv, AcceptedCapped
  <2>3. /\ Cardinality(known) <= resumes * MaxScheduled + counters.scheduled + 0 + faults'
        /\ Cardinality(KnownFiles) <= resumes * MaxSitemapFiles + counters.files + 0 + faults'
    BY <1>4, <2>1, <2>2, CapsTyped
  <2>4. QED
    BY <1>1, <1>3, <2>3 DEF AcceptedCapped
<1>7. QED
  BY <1>1, <1>5, <1>6, CappedNext

LEMMA AcceptCap ==
    ASSUME ControlInv, AccountInv, CapInv, NEW c \in Callers, Accept(c)
    PROVE  CapInv'
<1> DEFINE call == caller[c].call
<1>1. /\ ControlInv' /\ holder = c /\ call \in Call \ known
  BY AcceptControl
<1>2. PICK k \in Caller : /\ caller' = [caller EXCEPT ![c] = k]
                          /\ k.at = "discovering" /\ k.news /\ k.call = call
  BY AcceptControl
<1>3. /\ mode = "up" /\ caller[c].at = "offering" /\ IsNew(call) /\ ~caller[c].news
      /\ known' = known \cup {call}
      /\ UNCHANGED <<mode, resumes, faults, manifest, counters, holder>>
  BY OnKnown DEF Accept, At, admitVars, accounting
<1>4. caller'[c] = k /\ c # Nobody
  BY <1>2, CallerReplaced, ConfigAssumption DEF ControlInv, Nobody
<1>5. ~Uncounted /\ Uncounted' /\ holder' = c /\ caller'[c].call = call
  BY <1>1, <1>2, <1>3, <1>4 DEF Uncounted, Uncommitted
<1>6. ScheduledDue = 0 /\ FileDue = 0
      /\ ScheduledDue' = 1 /\ FileDue' = One(call.file)
  BY <1>5, NothingDueOfLimits DEF ScheduledDue, FileDue, One
<1>7. counters.scheduled < MaxScheduled /\ (call.file => counters.files < MaxSitemapFiles)
  <2>1. ~Rejected(call)
    BY <1>1, <1>3, <1>4 DEF AccountInv, ReservationCurrent
  <2>2. /\ ~(counters.scheduled >= MaxScheduled)
        /\ ~(call.file /\ counters.files >= MaxSitemapFiles)
    BY <2>1 DEF Rejected, sitemapLimitReached
  <2>3. QED
    BY <2>2, CapsTyped
<1>8. /\ Cardinality(known') = Cardinality(known) + 1
      /\ Cardinality(KnownFiles') = Cardinality(KnownFiles) + One(call.file)
  <2>1. IsFiniteSet(known) /\ IsFiniteSet(KnownFiles) /\ call \notin KnownFiles
    BY <1>1, CountsTyped DEF ControlInv, KnownFiles
  <2>2. Cardinality(known') = Cardinality(known) + 1
    BY <1>1, <1>3, <2>1, FS_AddElement DEF ControlInv, KnownValid
  <2>3. KnownFiles' = IF call.file THEN KnownFiles \cup {call} ELSE KnownFiles
    BY <1>3 DEF KnownFiles
  <2>4. CASE call.file
    <3>1. One(call.file) = 1 /\ KnownFiles' = KnownFiles \cup {call}
      BY <2>3, <2>4 DEF One
    <3>2. Cardinality(KnownFiles \cup {call}) = Cardinality(KnownFiles) + 1
      BY <2>1, FS_AddElement
    <3>3. QED
      BY <2>2, <3>1, <3>2
  <2>5. CASE ~call.file
    <3>1. One(call.file) = 0 /\ KnownFiles' = KnownFiles
      BY <2>3, <2>5 DEF One
    <3>2. QED
      BY <2>2, <3>1, CapsTyped
  <2>6. QED
    BY <2>2, <2>4, <2>5
<1>9. One(call.file) \in {0, 1} /\ counters.files + One(call.file) <= MaxSitemapFiles
  <2>1. CASE call.file
    BY <1>7, <2>1, CapsTyped DEF One
  <2>2. CASE ~call.file
    BY <1>6, <2>2, CapsTyped DEF One, CapInv, CountersCapped
  <2>3. QED
    BY <2>1, <2>2
<1> HIDE DEF call
<1>10. CountersCapped'
  BY <1>3, <1>6, <1>7, <1>9, CapsTyped DEF CapInv, CountersCapped
<1>11. AcceptedCapped'
  <2>1. /\ Cardinality(known) <= resumes * MaxScheduled + counters.scheduled + 0 + faults
        /\ Cardinality(KnownFiles) <= resumes * MaxSitemapFiles + counters.files + 0 + faults
    BY <1>3, <1>6 DEF CapInv, AcceptedCapped
  <2> DEFINE one == One(call.file)
  <2>2. one \in {0, 1} /\ FileDue' = one
        /\ Cardinality(KnownFiles') = Cardinality(KnownFiles) + one
    BY <1>6, <1>8, <1>9
  <2> HIDE DEF one
  <2>3. /\ Cardinality(known') <= resumes * MaxScheduled + counters.scheduled + 1 + faults
        /\ Cardinality(KnownFiles') <=
               resumes * MaxSitemapFiles + counters.files + one + faults
    BY <1>8, <2>1, <2>2, CapsTyped
  <2>4. QED
    BY <1>3, <1>6, <2>2, <2>3 DEF AcceptedCapped
<1>12. QED
  BY <1>1, <1>3, <1>10, <1>11, CappedNext

LEMMA DiscoveredCap ==
    ASSUME ControlInv, ControlInv', AccountInv, CapInv, NEW c \in Callers,
           Discovered(c), caller[c].news
    PROVE  CapInv'
<1> DEFINE call == caller[c].call
           one == One(call.file)
<1>1. mode = "up" /\ caller[c].at = "discovering" /\ caller[c] \in Caller
  BY DEF Discovered, At, ControlInv, TypeOK
<1>2. /\ UNCHANGED <<mode, resumes, faults, manifest, known, holder>>
      /\ Goes(c, "writing")
      /\ counters' = [counters EXCEPT !.scheduled = @ + 1,
                                      !.files = IF call.file THEN @ + 1 ELSE @]
  BY DEF Discovered, admitVars
<1>3. holder = c /\ c # Nobody /\ Uncommitted
  BY <1>1, HoldersDue
<1>4. caller'[c].at = "writing"
  BY <1>2, GoneThere DEF Places
<1>5. Uncounted /\ ~Uncounted'
  BY <1>1, <1>2, <1>3, <1>4 DEF Uncounted
<1>6. /\ ScheduledDue = 1 /\ FileDue = one
      /\ ScheduledDue' = 0 /\ FileDue' = 0
  BY <1>3, <1>5, NothingDueOfLimits DEF ScheduledDue, FileDue, One
<1>7. counters'.scheduled = counters.scheduled + 1 /\ counters'.files = counters.files + one
  <2>1. counters \in Counters /\ counters.scheduled \in Nat /\ counters.files \in Nat
    BY CapsTyped DEF ControlInv, TypeOK
  <2>2. DOMAIN counters = {"scheduled", "files", "entries"}
    BY <2>1 DEF Counters
  <2>3. CASE call.file
    BY <1>2, <2>1, <2>2, <2>3 DEF One
  <2>4. CASE ~call.file
    BY <1>2, <2>1, <2>2, <2>4 DEF One
  <2>5. QED
    BY <2>3, <2>4
<1>8. one \in {0, 1} /\ KnownFiles' = KnownFiles
  BY <1>2 DEF One, KnownFiles
<1> HIDE DEF one, call
<1>9. CountersCapped'
  BY <1>2, <1>6, <1>7, <1>8, CapsTyped DEF CapInv, CountersCapped
<1>10. AcceptedCapped'
  BY <1>1, <1>2, <1>6, <1>7, <1>8, CapsTyped DEF CapInv, AcceptedCapped
<1>11. QED
  BY <1>1, <1>2, <1>9, <1>10, CappedNext

LEMMA WrittenCap ==
    ASSUME ControlInv, ControlInv', CapInv, NEW c \in Callers, Written(c)
    PROVE  CapInv'
<1>1. /\ mode = "up" /\ caller[c].at = "writing"
      /\ UNCHANGED <<mode, resumes, faults, manifest, known, counters>> /\ holder' = Nobody
  BY DEF Written, At, admitVars
<1>2. holder = c
  BY <1>1 DEF ControlInv, CallersCoherent, Inside
<1>3. ~Uncounted /\ ~Uncounted'
  BY <1>1, <1>2 DEF Uncounted, Uncommitted
<1>4. ScheduledDue = 0 /\ FileDue = 0 /\ ScheduledDue' = 0 /\ FileDue' = 0
  BY <1>3, NothingDueOfLimits
<1>5. CountersCapped' /\ AcceptedCapped'
  BY <1>1, <1>4 DEF CapInv, CountersCapped, AcceptedCapped, KnownFiles
<1>6. QED
  BY <1>1, <1>5, CappedNext

LEMMA DownCap ==
    ASSUME ControlInv, CapInv, Down, manifest' \in {manifest, counters}
    PROVE  CapInv'
<1>1. /\ mode' = "down" /\ holder' = Nobody
      /\ UNCHANGED <<resumes, faults, known, counters>>
  BY DEF Down, accounting
<1>2. ScheduledDue' = 0 /\ FileDue' = 0
  BY <1>1, NothingDueOfLimits DEF Uncounted, Uncommitted
<1>3. CountersCapped'
  <2>1. counters.scheduled <= MaxScheduled /\ counters.files <= MaxSitemapFiles
    BY CapsTyped DEF CapInv, CountersCapped
  <2>2. /\ manifest'.scheduled <= MaxScheduled /\ manifest'.files <= MaxSitemapFiles
    BY <2>1 DEF CapInv, CountersCapped
  <2>3. counters.scheduled + 0 <= MaxScheduled /\ counters.files + 0 <= MaxSitemapFiles
    BY <2>1, CapsTyped
  <2>4. QED
    BY <1>1, <1>2, <2>2, <2>3 DEF CountersCapped
<1>4. AcceptedCapped'
  BY <1>1 DEF AcceptedCapped
<1>5. ProcessCapped'
  BY <1>1 DEF CapInv, ProcessCapped
<1>6. QED
  BY <1>3, <1>4, <1>5 DEF CapInv

LEMMA ResumeCap ==
    ASSUME ControlInv, ControlInv', CapInv, Resume
    PROVE  CapInv'
<1>1. /\ mode = "down" /\ mode' = "up" /\ resumes' = resumes + 1 /\ counters' = manifest
      /\ UNCHANGED <<faults, known, manifest, holder>>
  BY DEF Resume, runVars, countersFromStats
<1>2. holder = Nobody
  BY <1>1 DEF ControlInv, DownIsIdle
<1>3. ScheduledDue' = 0 /\ FileDue' = 0
  BY <1>1, <1>2, NothingDueOfLimits DEF Uncounted, Uncommitted
<1>4. CountersCapped'
  BY <1>1, <1>3, CapsTyped DEF CapInv, CountersCapped
<1>5. AcceptedCapped'
  <2>1. /\ Cardinality(known) <= (resumes + 1) * MaxScheduled + faults
        /\ Cardinality(KnownFiles) <= (resumes + 1) * MaxSitemapFiles + faults
    BY DEF CapInv, ProcessCapped, KnownFiles
  <2> DEFINE m == (resumes + 1) * MaxScheduled
             n == (resumes + 1) * MaxSitemapFiles
  <2>2. m \in Nat /\ n \in Nat
    BY CapsTyped
  <2> HIDE DEF m, n
  <2>3. /\ Cardinality(known) <= m + manifest.scheduled + 0 + faults
        /\ Cardinality(KnownFiles) <= n + manifest.files + 0 + faults
    BY <2>1, <2>2, CapsTyped DEF m, n
  <2>4. KnownFiles' = KnownFiles
    BY <1>1 DEF KnownFiles
  <2>5. QED
    BY <1>1, <1>3, <2>3, <2>4 DEF AcceptedCapped, m, n
<1>6. QED
  BY <1>1, <1>4, <1>5, CappedNext

LEMMA NextCap ==
    ControlInv /\ ControlInv' /\ AccountInv /\ CapInv /\ [Next]_vars => CapInv'
<1> SUFFICES ASSUME ControlInv, ControlInv', AccountInv, CapInv, [Next]_vars PROVE CapInv'
  OBVIOUS
<1>1. CASE Finalize \/ Crash
  BY <1>1, DownCap DEF Finalize, Crash
<1>2. CASE Resume
  BY <1>2, ResumeCap
<1>3. CASE mode # "up" /\ ~Resume
  <2>1. \A c \in Callers : ~Step(c) /\ ~CallFails(c)
    BY <1>3 DEF Step, Admits, Document, Admit, Accept, AlreadySeen, Refuse, Skipped,
       Discovered, Written, Notified, HookEnqueues, Process, FollowLink, AsksNext,
       RecordEntry, EntryRecorded, EndDocument, BootstrapNext, EndBootstrap, At, CallFails
  <2>2. UNCHANGED vars
    BY <1>3, <2>1 DEF Next, StopLeasing, Finalize, Crash, Down
  <2>3. QED
    BY <2>2 DEF vars, runVars, accounting, CapInv, CountersCapped, AcceptedCapped,
       ProcessCapped, ScheduledDue, FileDue, KnownFiles, Uncounted, Uncommitted
<1>4. CASE mode = "up" /\ ~Finalize /\ ~Crash /\ ~Resume
  BY <1>4, StepKinds, BesideCap, UncountingCap, AcceptCap, DiscoveredCap, WrittenCap
<1>5. QED
  BY <1>1, <1>2, <1>3, <1>4

LEMMA InitCap == Init => CapInv
<1> SUFFICES ASSUME Init PROVE CapInv
  OBVIOUS
<1>1. ControlInv /\ mode = "up"
  BY InitControl DEF Init
<1>2. ScheduledDue = 0 /\ FileDue = 0
  BY NothingDueOfLimits DEF Init, Uncounted, Uncommitted
<1>3. Cardinality(known) = 0 /\ Cardinality(KnownFiles) = 0
  BY FS_EmptySet DEF Init, KnownFiles
<1>4. /\ counters.scheduled = 0 /\ counters.files = 0
      /\ manifest.scheduled = 0 /\ manifest.files = 0
  BY DEF Init
<1>5. CountersCapped /\ AcceptedCapped
  BY <1>1, <1>2, <1>3, <1>4, CapsTyped DEF CountersCapped, AcceptedCapped
<1>6. QED
  BY <1>1, <1>5, CappedWhileUp

-----------------------------------------------------------------------------
(* The budget of sitemap entries.                                          *)

Budget == MaxTotalEntries * Cardinality(Workers)

LEMMA EntriesTyped ==
    ASSUME ControlInv
    PROVE  /\ MaxTotalEntries \in Nat /\ Cardinality(Workers) \in Nat /\ Budget \in Nat
           /\ counters.entries \in Nat /\ manifest.entries \in Nat
           /\ IsFiniteSet(Workers \X (1..MaxTotalEntries))
           /\ Cardinality(Workers \X (1..MaxTotalEntries)) = Budget
           /\ \A S \in SUBSET (Workers \X (1..MaxTotalEntries)) :
                 IsFiniteSet(S) /\ Cardinality(S) \in Nat
           /\ \A w \in Workers : caller[w].todo \in Seq(Call) /\ Len(caller[w].todo) \in Nat
<1>1. MaxTotalEntries \in Nat /\ IsFiniteSet(Workers) /\ Cardinality(Workers) \in Nat
  BY ConfigAssumption, FS_CardinalityType
<1>2. Budget \in Nat /\ Budget = Cardinality(Workers) * MaxTotalEntries
  BY <1>1 DEF Budget
<1>3. IsFiniteSet(1..MaxTotalEntries) /\ Cardinality(1..MaxTotalEntries) = MaxTotalEntries
  BY <1>1, FS_Interval
<1>4. /\ IsFiniteSet(Workers \X (1..MaxTotalEntries))
      /\ Cardinality(Workers \X (1..MaxTotalEntries)) = Budget
  BY <1>1, <1>2, <1>3, FS_Product
<1>5. \A S \in SUBSET (Workers \X (1..MaxTotalEntries)) :
         IsFiniteSet(S) /\ Cardinality(S) \in Nat
  BY <1>4, FS_Subset, FS_CardinalityType
<1>6. counters.entries \in Nat /\ manifest.entries \in Nat
  BY DEF ControlInv, TypeOK, Counters
<1>7. \A w \in Workers : caller[w].todo \in Seq(Call) /\ Len(caller[w].todo) \in Nat
  BY DEF ControlInv, TypeOK, Callers, Caller
<1>8. QED
  BY <1>1, <1>2, <1>4, <1>5, <1>6, <1>7

(* No worker has more of its sitemap before it than it had.                *)
WorkShrinks ==
    \A w \in Workers :
        IsSitemap(caller'[w].on) => /\ caller'[w].on = caller[w].on
                                    /\ Len(caller'[w].todo) <= Len(caller[w].todo)

LEMMA ShrinkingBudget ==
    ASSUME ControlInv, ControlInv', BudgetInv, WorkShrinks,
           counters'.entries = counters.entries,
           manifest'.entries \in {manifest.entries, counters.entries}
    PROVE  BudgetInv'
<1>1. \A w \in Workers : Len(caller[w].todo) \in Nat /\ Len(caller'[w].todo) \in Nat
  <2>1. \A w \in Workers : caller'[w].todo \in Seq(Call)
    BY DEF ControlInv, TypeOK, Callers, Caller
  <2>2. QED
    BY <2>1, EntriesTyped
<1>2. EntriesTaken' \subseteq EntriesTaken
  <2> SUFFICES ASSUME NEW p \in Workers \X (1..MaxTotalEntries),
                      IsSitemap(caller'[p[1]].on), p[2] <= Len(caller'[p[1]].todo)
               PROVE  IsSitemap(caller[p[1]].on) /\ p[2] <= Len(caller[p[1]].todo)
    BY DEF EntriesTaken
  <2>1. p[1] \in Workers /\ p[2] \in Nat
    OBVIOUS
  <2>2. caller'[p[1]].on = caller[p[1]].on /\ Len(caller'[p[1]].todo) <= Len(caller[p[1]].todo)
    BY <2>1 DEF WorkShrinks
  <2>3. QED
    BY <1>1, <2>1, <2>2
<1>3. Cardinality(EntriesTaken') <= Cardinality(EntriesTaken)
  BY <1>2, EntriesTyped, FS_Subset DEF EntriesTaken
<1>4. /\ Cardinality(EntriesTaken) \in Nat /\ Cardinality(EntriesTaken') \in Nat
  <2>1. EntriesTaken \in SUBSET (Workers \X (1..MaxTotalEntries))
    BY DEF EntriesTaken
  <2>2. QED
    BY <1>2, <2>1, EntriesTyped
<1>5. counters.entries + Cardinality(EntriesTaken) <= Budget /\ manifest.entries <= Budget
  BY DEF BudgetInv, Budget
<1>6. /\ counters'.entries + Cardinality(EntriesTaken') <= Budget
      /\ manifest'.entries <= Budget
  BY <1>3, <1>4, <1>5, EntriesTyped
<1>7. \A w \in Workers : IsSitemap(caller'[w].on) => Len(caller'[w].todo) <= MaxTotalEntries
  BY <1>1, EntriesTyped DEF BudgetInv, WorkShrinks
<1>8. QED
  BY <1>6, <1>7 DEF BudgetInv, Budget

(* A worker takes on what the budget leaves at this moment.                *)
LEMMA ProcessBudget ==
    ASSUME ControlInv, ControlInv', BudgetInv,
           NEW w \in Workers, NEW i \in known, Process(w, i)
    PROVE  BudgetInv'
<1> DEFINE all == Workers \X (1..MaxTotalEntries)
           n == Len(Applied(i))
           rest == {w} \X ((n + 1)..MaxTotalEntries)
<1>1. w \in Callers /\ i.req \in Requests /\ UNCHANGED <<counters, manifest>>
  BY DEF Process, accounting, runVars, ControlInv, KnownValid, Callers
<1>2. /\ Applied(i) \in Seq(Call) /\ n \in Nat
      /\ IsSitemap(i.req) => n <= MaxTotalEntries - Least(counters.entries, MaxTotalEntries)
  BY <1>1, AppliedTyped DEF ControlInv
<1>3. /\ caller'[w].on = i.req /\ caller'[w].todo = Applied(i)
      /\ \A v \in Workers \ {w} : caller'[v] = caller[v]
  BY <1>1 DEF Process, ControlInv, TypeOK, Idle, Callers
<1> HIDE DEF n
<1>9. IsSitemap(i.req) => n = 0 \/ counters.entries + n <= MaxTotalEntries
  <2> DEFINE e == counters.entries
  <2>1. e \in Nat /\ MaxTotalEntries \in Nat /\ n \in Nat
    BY <1>2, EntriesTyped
  <2>2. Least(e, MaxTotalEntries) = IF e < MaxTotalEntries THEN e ELSE MaxTotalEntries
    BY DEF Least
  <2>3. IsSitemap(i.req) => n <= MaxTotalEntries - Least(e, MaxTotalEntries)
    BY <1>2
  <2> HIDE DEF e
  <2>4. IsSitemap(i.req) => n = 0 \/ e + n <= MaxTotalEntries
    BY <2>1, <2>2, <2>3
  <2>5. QED
    BY <2>4 DEF e
<1>4. CASE ~IsSitemap(i.req) \/ n = 0
  <2>0. IsSitemap(i.req) => n = 0
    BY <1>4
  <2>1. \A v \in Workers : IsSitemap(caller'[v].on) =>
           /\ Len(caller'[v].todo) <= MaxTotalEntries
           /\ v = w => Len(caller'[v].todo) = 0
    BY <1>3, <2>0, EntriesTyped DEF BudgetInv, n
  <2>2. EntriesTaken' \subseteq EntriesTaken
    <3> SUFFICES ASSUME NEW p \in all, IsSitemap(caller'[p[1]].on),
                        p[2] <= Len(caller'[p[1]].todo)
                 PROVE  IsSitemap(caller[p[1]].on) /\ p[2] <= Len(caller[p[1]].todo)
      BY DEF EntriesTaken
    <3>1. p[1] \in Workers /\ p[2] \in 1..MaxTotalEntries
      OBVIOUS
    <3>2. p[1] # w
      BY <2>1, <3>1, EntriesTyped
    <3>3. QED
      BY <1>3, <3>1, <3>2
  <2>3. EntriesTaken \in SUBSET all
    BY DEF EntriesTaken
  <2>4. /\ Cardinality(EntriesTaken') <= Cardinality(EntriesTaken)
        /\ Cardinality(EntriesTaken) \in Nat /\ Cardinality(EntriesTaken') \in Nat
    BY <2>2, <2>3, EntriesTyped, FS_Subset
  <2>5. counters.entries + Cardinality(EntriesTaken') <= Budget
    BY <2>4, EntriesTyped DEF BudgetInv, Budget
  <2>6. QED
    BY <1>1, <2>1, <2>5 DEF BudgetInv, Budget
<1>5. CASE IsSitemap(i.req) /\ n # 0
  <2>1. counters.entries + n <= MaxTotalEntries
    BY <1>5, <1>9
  <2>2. n <= MaxTotalEntries
    BY <1>2, <2>1, EntriesTyped
  <2>3. IsFiniteSet(rest) /\ Cardinality(rest) = MaxTotalEntries - n
    <3>1. /\ IsFiniteSet((n + 1)..MaxTotalEntries)
          /\ Cardinality((n + 1)..MaxTotalEntries) = MaxTotalEntries - n
      <4>1. n + 1 \in Int /\ MaxTotalEntries \in Int /\ n \in Nat
        BY <1>2, EntriesTyped
      <4>2. /\ IsFiniteSet((n + 1)..MaxTotalEntries)
            /\ Cardinality((n + 1)..MaxTotalEntries) =
                  IF n + 1 > MaxTotalEntries THEN 0 ELSE MaxTotalEntries - (n + 1) + 1
        BY <4>1, FS_Interval
      <4>3. QED
        BY <2>2, <4>1, <4>2
    <3>2. IsFiniteSet({w}) /\ Cardinality({w}) = 1
      BY FS_Singleton
    <3> DEFINE column == (n + 1)..MaxTotalEntries
    <3>3. MaxTotalEntries - n \in Int
      BY <1>2, EntriesTyped
    <3> HIDE DEF column, n
    <3>4. IsFiniteSet({w} \X column) /\ Cardinality({w} \X column) = 1 * Cardinality(column)
      BY <3>1, <3>2, FS_Product DEF column
    <3>5. QED
      BY <3>1, <3>3, <3>4 DEF column
  <2>4. rest \subseteq all
    BY <1>2, EntriesTyped
  <2>5. EntriesTaken' \subseteq all \ rest
    <3> SUFFICES ASSUME NEW p \in all, IsSitemap(caller'[p[1]].on),
                        p[2] <= Len(caller'[p[1]].todo)
                 PROVE  p \notin rest
      BY DEF EntriesTaken
    <3>1. CASE p[1] = w
      BY <1>2, <1>3, <3>1, EntriesTyped DEF n
    <3>2. CASE p[1] # w
      BY <3>2
    <3>3. QED
      BY <3>1, <3>2
  <2> HIDE DEF all, rest, n
  <2>6. IsFiniteSet(all) /\ Cardinality(all) = Budget
    BY EntriesTyped DEF all
  <2>7. IsFiniteSet(all \ rest) /\ Cardinality(all \ rest) = Budget - (MaxTotalEntries - n)
    <3>1. all \cap rest = rest
      BY <2>4
    <3>2. QED
      BY <2>3, <2>6, <3>1, FS_Difference
  <2>8. /\ Cardinality(EntriesTaken') <= Budget - (MaxTotalEntries - n)
        /\ Cardinality(EntriesTaken') \in Nat
    BY <2>5, <2>7, FS_Subset, FS_CardinalityType
  <2>9. counters'.entries + Cardinality(EntriesTaken') <= Budget
    BY <1>1, <1>2, <2>1, <2>8, EntriesTyped DEF n
  <2>10. \A v \in Workers : IsSitemap(caller'[v].on) => Len(caller'[v].todo) <= MaxTotalEntries
    BY <1>3, <2>2 DEF BudgetInv, n
  <2>11. QED
    BY <1>1, <2>9, <2>10 DEF BudgetInv, Budget
<1>6. QED
  BY <1>4, <1>5, EntriesTyped

(* A counted entry is one that had been taken on.                          *)
LEMMA RecordEntryBudget ==
    ASSUME ControlInv, ControlInv', BudgetInv, NEW w \in Workers, RecordEntry(w)
    PROVE  BudgetInv'
<1> DEFINE n == Len(caller[w].todo)
<1>1. w \in Callers /\ caller[w].todo # <<>> /\ caller[w].todo \in Seq(Call)
  BY EntriesTyped DEF RecordEntry, Callers
<1>2. PICK k \in Caller : /\ caller' = [caller EXCEPT ![w] = k]
                          /\ k.on = caller[w].on /\ k.todo = Tail(caller[w].todo)
  BY <1>1, TurnsTyped DEF RecordEntry, Places
<1>3. caller'[w] = k /\ \A v \in Workers \ {w} : caller'[v] = caller[v]
  BY <1>1, <1>2, CallerReplaced DEF ControlInv, Callers
<1>4. n \in 1..MaxTotalEntries /\ Len(k.todo) = n - 1 /\ n \in Nat
  <2>1. n \in Nat /\ n > 0 /\ Len(Tail(caller[w].todo)) = n - 1
    BY <1>1
  <2>2. n <= MaxTotalEntries
    BY DEF BudgetInv, RecordEntry
  <2>3. QED
    BY <1>2, <2>1, <2>2, EntriesTyped
<1>5. counters'.entries = counters.entries + 1 /\ manifest' = manifest
  <2>1. counters \in Counters /\ counters' = [counters EXCEPT !.entries = @ + 1]
    BY DEF RecordEntry, ControlInv, TypeOK
  <2>2. manifest' = manifest
    BY DEF RecordEntry, runVars
  <2>3. QED
    BY <2>1, <2>2 DEF Counters
<1>6. IsSitemap(caller[w].on)
  BY DEF RecordEntry
<1> HIDE DEF n
<1>7. EntriesTaken' \subseteq EntriesTaken \ {<<w, n>>} /\ <<w, n>> \in EntriesTaken
  <2>1. ASSUME NEW p \in EntriesTaken' PROVE p \in EntriesTaken /\ p # <<w, n>>
    <3>1. /\ p \in Workers \X (1..MaxTotalEntries)
          /\ IsSitemap(caller'[p[1]].on) /\ p[2] <= Len(caller'[p[1]].todo)
      BY <2>1 DEF EntriesTaken
    <3>2. CASE p[1] = w
      <4>1. p[2] <= n - 1 /\ p[2] \in Nat
        BY <1>3, <1>4, <3>1, <3>2
      <4>2. p[2] <= n /\ p[2] # n
        BY <1>4, <4>1
      <4>3. QED
        BY <1>6, <3>1, <3>2, <4>2 DEF EntriesTaken, n
    <3>3. CASE p[1] # w
      BY <1>3, <3>1, <3>3 DEF EntriesTaken
    <3>4. QED
      BY <3>2, <3>3
  <2>2. <<w, n>> \in EntriesTaken
    BY <1>4, <1>6 DEF EntriesTaken, n
  <2>3. QED
    BY <2>1, <2>2
<1>8. /\ Cardinality(EntriesTaken') <= Cardinality(EntriesTaken) - 1
      /\ Cardinality(EntriesTaken) \in Nat /\ Cardinality(EntriesTaken') \in Nat
  <2>1. IsFiniteSet(EntriesTaken) /\ Cardinality(EntriesTaken) \in Nat
    BY EntriesTyped DEF EntriesTaken
  <2>2. /\ IsFiniteSet(EntriesTaken \ {<<w, n>>})
        /\ Cardinality(EntriesTaken \ {<<w, n>>}) = Cardinality(EntriesTaken) - 1
    BY <1>7, <2>1, FS_RemoveElement
  <2>3. QED
    BY <1>7, <2>1, <2>2, FS_Subset, FS_CardinalityType
<1>9. counters'.entries + Cardinality(EntriesTaken') <= Budget
  BY <1>5, <1>8, EntriesTyped DEF BudgetInv, Budget
<1>10. \A v \in Workers : IsSitemap(caller'[v].on) => Len(caller'[v].todo) <= MaxTotalEntries
  <2>1. Len(caller'[w].todo) <= MaxTotalEntries
    BY <1>3, <1>4, EntriesTyped
  <2>2. \A v \in Workers \ {w} :
           IsSitemap(caller'[v].on) => Len(caller'[v].todo) <= MaxTotalEntries
    BY <1>3 DEF BudgetInv
  <2>3. QED
    BY <2>1, <2>2
<1>11. QED
  BY <1>5, <1>9, <1>10 DEF BudgetInv, Budget

LEMMA ResumeBudget ==
    ASSUME ControlInv, ControlInv', BudgetInv, Resume
    PROVE  BudgetInv'
<1>1. /\ mode = "down" /\ UNCHANGED <<manifest, caller>> /\ counters' = manifest
  BY DEF Resume, runVars, countersFromStats
<1>2. \A w \in Workers : ~IsSitemap(caller'[w].on)
  BY <1>1, RecordsTyped DEF ControlInv, DownIsIdle, Callers, IsSitemap
<1>3. EntriesTaken' = {} /\ Cardinality(EntriesTaken') = 0
  BY <1>2, FS_EmptySet DEF EntriesTaken
<1>4. counters'.entries + 0 <= Budget /\ manifest'.entries <= Budget
  BY <1>1, EntriesTyped DEF BudgetInv, Budget
<1>5. QED
  BY <1>2, <1>3, <1>4 DEF BudgetInv, Budget

(* Nothing but a document that is taken up, or an entry that is counted,   *)
(* moves the budget.                                                       *)
LEMMA OneShrinks ==
    ASSUME ControlInv, NEW c \in Callers, NEW k \in Caller,
           caller' = [caller EXCEPT ![c] = k],
           \/ k.on = NoRequest
           \/ k.on = caller[c].on /\ k.todo \in {caller[c].todo, <<>>}
           \/ /\ k.on = caller[c].on
              /\ caller[c].todo # <<>> /\ k.todo = Tail(caller[c].todo)
    PROVE  WorkShrinks
<1>1. caller'[c] = k /\ \A d \in Callers \ {c} : caller'[d] = caller[d]
  BY CallerReplaced DEF ControlInv
<1>2. ~IsSitemap(NoRequest)
  BY DEF IsSitemap
<1>3. \A w \in Workers : /\ w \in Callers
                         /\ caller[w].todo \in Seq(Call) /\ Len(caller[w].todo) \in Nat
  BY EntriesTyped DEF Callers
<1>4. ASSUME NEW w \in Workers, IsSitemap(caller'[w].on)
      PROVE  caller'[w].on = caller[w].on /\ Len(caller'[w].todo) <= Len(caller[w].todo)
  <2>1. CASE w # c
    BY <1>1, <1>3, <2>1
  <2>2. CASE w = c
    <3>1. /\ k.on = caller[w].on
          /\ \/ k.todo \in {caller[w].todo, <<>>}
             \/ caller[w].todo # <<>> /\ k.todo = Tail(caller[w].todo)
      BY <1>1, <1>2, <1>4, <2>2
    <3>2. CASE k.todo = caller[w].todo
      BY <1>1, <1>3, <2>2, <3>1, <3>2
    <3>3. CASE k.todo = <<>>
      BY <1>1, <1>3, <2>2, <3>1, <3>3
    <3>4. CASE caller[w].todo # <<>> /\ k.todo = Tail(caller[w].todo)
      <4>1. Len(Tail(caller[w].todo)) <= Len(caller[w].todo)
        BY <1>3, <3>4
      <4>2. QED
        BY <1>1, <2>2, <3>1, <3>4, <4>1
    <3>5. QED
      BY <3>1, <3>2, <3>3, <3>4
  <2>3. QED
    BY <2>1, <2>2
<1>5. QED
  BY <1>4 DEF WorkShrinks

LEMMA CallersShrink ==
    ASSUME ControlInv, NEW c \in Callers,
           \/ AsksNext(c) \/ EntryRecorded(c) \/ EndDocument(c)
           \/ c = Main /\ EndBootstrap
           \/ Accept(c) \/ AlreadySeen(c) \/ Refuse(c) \/ Skipped(c) \/ Discovered(c)
           \/ Written(c) \/ Notified(c) \/ \E call \in Hooked : HookEnqueues(c, call)
           \/ CallFails(c)
    PROVE  WorkShrinks
<1>1. ASSUME NEW place \in Places, Goes(c, place) PROVE WorkShrinks
  <2>1. PICK k \in Caller : /\ caller' = [caller EXCEPT ![c] = k]
                            /\ k.on = caller[c].on /\ k.todo = caller[c].todo
    BY <1>1, GoesTyped
  <2>2. QED
    BY <2>1, OneShrinks
<1>2. ASSUME caller' = [caller EXCEPT ![c] = Return(@)] PROVE WorkShrinks
  <2>1. caller[c] \in Caller /\ caller' = [caller EXCEPT ![c] = Return(caller[c])]
    BY <1>2 DEF ControlInv, TypeOK
  <2>2. /\ Return(caller[c]) \in Caller
        /\ Return(caller[c]).on = caller[c].on /\ Return(caller[c]).todo = caller[c].todo
    BY <2>1, ReturnTyped
  <2>3. QED
    BY <2>1, <2>2, OneShrinks
<1>3. ASSUME caller' = [caller EXCEPT ![c] = Idle] PROVE WorkShrinks
  BY <1>3, OneShrinks, RecordsTyped
<1>4. CASE AsksNext(c)
  <2>1. caller[c].todo # <<>>
    BY <1>4 DEF AsksNext
  <2>2. PICK k \in Caller : /\ caller' = [caller EXCEPT ![c] = k]
                            /\ k.on = caller[c].on /\ k.todo = Tail(caller[c].todo)
    BY <1>4, TurnsTyped DEF AsksNext, Places
  <2>3. QED
    BY <2>1, <2>2, OneShrinks
<1>5. CASE EntryRecorded(c) \/ AlreadySeen(c) \/ Refuse(c) \/ Skipped(c) \/ Written(c)
  BY <1>1, <1>5 DEF EntryRecorded, AlreadySeen, Refuse, Skipped, Written, Places
<1>6. CASE EndDocument(c) \/ (c = Main /\ EndBootstrap)
  BY <1>3, <1>6 DEF EndDocument, EndBootstrap
<1>7. CASE Accept(c)
  <2>1. PICK k \in Caller : /\ caller' = [caller EXCEPT ![c] = k]
                            /\ k.on = caller[c].on /\ k.todo = caller[c].todo
    BY <1>7, AcceptControl
  <2>2. QED
    BY <2>1, OneShrinks
<1>8. CASE Discovered(c) \/ Notified(c)
  BY <1>1, <1>2, <1>8 DEF Discovered, Notified, Places
<1>9. ASSUME NEW call \in Hooked, HookEnqueues(c, call) PROVE WorkShrinks
  <2>1. PICK k \in Caller : /\ caller' = [caller EXCEPT ![c] = k]
                            /\ k.on = caller[c].on /\ k.todo = caller[c].todo
    BY <1>9, HookEnqueuesControl
  <2>2. QED
    BY <2>1, OneShrinks
<1>10. CASE CallFails(c)
  <2>1. PICK k \in Caller : /\ caller' = [caller EXCEPT ![c] = k]
                            /\ k.on \in {caller[c].on, NoRequest}
                            /\ k.on = caller[c].on => k.todo \in {caller[c].todo, <<>>}
    BY <1>10, CallFailsControl
  <2>2. QED
    BY <2>1, OneShrinks
<1>11. QED
  BY <1>4, <1>5, <1>6, <1>7, <1>8, <1>9, <1>10

LEMMA AdmitShrinks ==
    ASSUME ControlInv, NEW c \in Callers, Admit(c)
    PROVE  WorkShrinks
<1>1. \A w \in Workers : caller'[w].on = caller[w].on /\ caller'[w].todo = caller[w].todo
  BY AdmitControl
<1>2. QED
  BY <1>1, EntriesTyped DEF WorkShrinks

(* Only these steps count entries or write the manifest.                   *)
LEMMA EntriesUntouched ==
    ASSUME ControlInv, NEW c \in Callers, Step(c) \/ CallFails(c),
           ~(c # Main /\ RecordEntry(c))
    PROVE  counters'.entries = counters.entries /\ manifest' = manifest
<1>1. counters \in Counters
  BY DEF ControlInv, TypeOK
<1>2. CASE Discovered(c)
  <2>1. CASE caller[c].news
    BY <1>1, <1>2, <2>1 DEF Discovered, admitVars, Counters
  <2>2. CASE ~caller[c].news
    BY <1>2, <2>2 DEF Discovered, admitVars
  <2>3. QED
    BY <2>1, <2>2
<1>3. CASE ~Discovered(c)
  BY <1>3 DEF Step, Admits, Document, Admit, Decides, Accept, AlreadySeen, Refuse, Skipped,
     Written, Notified, HookEnqueues, Process, FollowLink, AsksNext, EntryRecorded,
     EndDocument, BootstrapNext, EndBootstrap, CallFails, admitVars, runVars, accounting
<1>4. QED
  BY <1>2, <1>3

LEMMA NextBudget ==
    ControlInv /\ ControlInv' /\ BudgetInv /\ [Next]_vars => BudgetInv'
<1> SUFFICES ASSUME ControlInv, ControlInv', BudgetInv, [Next]_vars PROVE BudgetInv'
  OBVIOUS
<1>1. ASSUME NEW c \in Callers, Step(c) \/ CallFails(c) PROVE BudgetInv'
  <2>1. CASE c # Main /\ RecordEntry(c)
    BY <2>1, RecordEntryBudget DEF Callers
  <2>2. CASE c # Main /\ \E i \in known : Process(c, i)
    BY <2>2, ProcessBudget DEF Callers
  <2>3. CASE /\ ~(c # Main /\ RecordEntry(c))
             /\ ~(c # Main /\ \E i \in known : Process(c, i))
    <3>1. WorkShrinks
      BY <1>1, <2>3, AdmitShrinks, CallersShrink
         DEF Step, Admits, Document, FollowLink, BootstrapNext
    <3>2. counters'.entries = counters.entries /\ manifest' = manifest
      BY <1>1, <2>3, EntriesUntouched
    <3>3. QED
      BY <3>1, <3>2, ShrinkingBudget
  <2>4. QED
    BY <2>1, <2>2, <2>3
<1>2. CASE StopLeasing \/ UNCHANGED vars
  <2>1. UNCHANGED <<caller, counters, manifest>>
    BY <1>2 DEF StopLeasing, vars, runVars, accounting
  <2>2. WorkShrinks
    BY <2>1, EntriesTyped DEF WorkShrinks
  <2>3. QED
    BY <2>1, <2>2, ShrinkingBudget
<1>3. CASE Finalize \/ Crash
  <2>1. Down /\ manifest' \in {manifest, counters}
    BY <1>3 DEF Finalize, Crash
  <2>2. \A w \in Workers : ~IsSitemap(caller'[w].on)
    BY <2>1, RecordsTyped DEF Down, Callers, IsSitemap
  <2>3. counters' = counters /\ manifest'.entries \in {manifest.entries, counters.entries}
    BY <2>1 DEF Down, accounting
  <2>4. QED
    BY <2>2, <2>3, ShrinkingBudget DEF WorkShrinks
<1>4. CASE Resume
  BY <1>4, ResumeBudget
<1>5. QED
  BY <1>1, <1>2, <1>3, <1>4 DEF Next

LEMMA InitBudget == Init => BudgetInv
<1> SUFFICES ASSUME Init PROVE BudgetInv
  OBVIOUS
<1>1. \A w \in Workers : ~IsSitemap(caller[w].on)
  BY ConfigAssumption, RecordsTyped DEF Init, Callers, IsSitemap
<1>2. Cardinality(EntriesTaken) = 0
  BY <1>1, FS_EmptySet DEF EntriesTaken
<1>3. counters.entries = 0 /\ manifest.entries = 0 /\ Budget \in Nat
  BY InitControl, EntriesTyped DEF Init
<1>4. QED
  BY <1>1, <1>2, <1>3 DEF BudgetInv, Budget

(* No limit on what a run admits is exceeded, however many documents,      *)
(* hooks, stops, crashes and resumes there are, but for one request per    *)
(* failed call, one budget of requests and sitemap files per process, and  *)
(* one budget of sitemap entries per worker.                               *)
THEOREM LimitsKeptHolds == Spec => []LimitsKept
<1> DEFINE Inv == ControlInv /\ AccountInv /\ CapInv /\ BudgetInv
<1>1. Init => Inv
  BY InitControl, InitAccount, InitCap, InitBudget
<1>2. Inv /\ [Next]_vars => Inv'
  BY NextControl, NextAccount, NextCap, NextBudget
<1>3. Inv => LimitsKept
  <2> SUFFICES ASSUME Inv PROVE EntriesBounded
    BY DEF LimitsKept, AccountInv, CapInv
  <2>1. counters.entries + Cardinality(EntriesTaken) <= Budget
    BY DEF BudgetInv, Budget
  <2>2. Cardinality(EntriesTaken) \in Nat
    BY EntriesTyped DEF EntriesTaken
  <2>3. QED
    BY <2>1, <2>2, EntriesTyped DEF EntriesBounded, Budget
<1>4. QED
  BY <1>1, <1>2, <1>3, PTL DEF Spec
=============================================================================
