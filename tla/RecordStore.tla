----------------------------- MODULE RecordStore -----------------------------
(* FileSystemStore as its callers see it: the record files, each behind a    *)
(* JsonLineSink that batches, and the content-addressed objects. A caller is *)
(* in one call at a time; a step is what happens between two awaits, and the *)
(* callers that waited for one promise go on in one step, as their           *)
(* continuations run before any other task.                                  *)
EXTENDS Integers, SequencesExt

CONSTANTS
    Callers,
    Closer,      \* the caller of close()
    Files,       \* the record files
    Contents,    \* the bodies kept as evidence
    MaxFaults    \* bound: file operations that fail

ASSUME StoreAssumption ==
    /\ Closer \notin Callers
    /\ MaxFaults \in Nat

VARIABLES
    flushEvery,  \* storage.flushEveryRecords
    accepted,    \* of a file: the records whose write() was called (history)
    buffer,      \* of a file: JsonLineSink.buffer
    flushing,    \* of a file: the operation in flight, its owner and its batch
    waiters,     \* of a file: the callers that await it
    closed,      \* the sinks that are closed
    lines,       \* of a file: what is on disk
    broken,      \* files an operation on which has failed (history)
    object,      \* of a content: its file, "none", "partial" or "whole"
    call,        \* of a caller: the store call it is in
    faults       \* failures left

storeVars == <<flushEvery, accepted, buffer, flushing, waiters, closed, lines, broken, object, call, faults>>
sinks == <<flushEvery, accepted, buffer, flushing, waiters, closed, lines, broken>>

Torn == <<Closer, 0>>     \* a part of a line
Idle == [at |-> "idle"]
Threw == [at |-> "threw"]
NoFlush == [by |-> Closer, batch |-> <<>>]

StoreTypeOK ==
    /\ \A f \in Files :
          /\ flushing[f] # NoFlush => call[flushing[f].by] = [at |-> "flush", file |-> f]
          /\ \A i \in DOMAIN waiters[f] : flushing[f] # NoFlush /\ call[waiters[f][i]] = [at |-> "wait", file |-> f]
    /\ closed \subseteq Files /\ broken \subseteq Files
    /\ object \in [Contents -> {"none", "partial", "whole"}]
    /\ faults \in 0..MaxFaults

StoreInit ==
    /\ accepted = [f \in Files |-> <<>>] /\ buffer = [f \in Files |-> <<>>]
    /\ flushing = [f \in Files |-> NoFlush] /\ waiters = [f \in Files |-> <<>>]
    /\ closed = {} /\ lines = [f \in Files |-> <<>>] /\ broken = {}
    /\ object = [x \in Contents |-> "none"]
    /\ call = [c \in Callers \cup {Closer} |-> Idle]
    /\ faults = MaxFaults

CanFail == faults > 0

------------------------------------------------------------------------------
(* JsonLineSink. *)

\* flush() for c once `pending` is in the buffer: wait, return or take the batch.
Flushes(c, f, pending) ==
    IF flushing[f] # NoFlush
    THEN /\ waiters' = [waiters EXCEPT ![f] = Append(@, c)]
         /\ buffer' = [buffer EXCEPT ![f] = pending]
         /\ call' = [call EXCEPT ![c] = [at |-> "wait", file |-> f]]
         /\ UNCHANGED flushing
    ELSE /\ flushing' = [flushing EXCEPT ![f] = [by |-> c, batch |-> pending]]
         /\ buffer' = [buffer EXCEPT ![f] = <<>>]
         /\ call' = [call EXCEPT ![c] = [at |-> "flush", file |-> f]]
         /\ UNCHANGED waiters

\* FileSystemStore.append and JsonLineSink.write.
Write(c, f, record) ==
    /\ accepted' = [accepted EXCEPT ![f] = Append(@, record)]
    /\ IF Len(buffer[f]) + 1 >= flushEvery
       THEN Flushes(c, f, Append(buffer[f], record))
       ELSE buffer' = [buffer EXCEPT ![f] = Append(@, record)] /\ UNCHANGED <<flushing, waiters, call>>
    /\ UNCHANGED <<flushEvery, closed, lines, broken, object, faults>>

\* Those that waited: the first takes what has come in meanwhile, the others find nothing and return.
Continue(f, left) ==
    LET owner == flushing[f].by
        taker == IF left # <<>> /\ waiters[f] # <<>> THEN {Head(waiters[f])} ELSE {}
    IN  /\ flushing' = [flushing EXCEPT ![f] = IF taker = {} THEN NoFlush ELSE [by |-> Head(waiters[f]), batch |-> left]]
        /\ buffer' = [buffer EXCEPT ![f] = IF taker = {} THEN left ELSE <<>>]
        /\ waiters' = [waiters EXCEPT ![f] = <<>>]
        /\ call' = [c \in DOMAIN call |->
                      CASE c \in taker -> [at |-> "flush", file |-> f]
                        [] c \notin taker /\ (c = owner \/ c \in ToSet(waiters[f])) -> Idle
                        [] OTHER -> call[c]]

FlushEnds(f) ==
    /\ flushing[f] # NoFlush
    /\ lines' = [lines EXCEPT ![f] = @ \o flushing[f].batch]
    /\ Continue(f, buffer[f])
    /\ UNCHANGED <<flushEvery, accepted, closed, broken, object, faults>>

(* Mutant: a batch that failed goes behind what came in meanwhile. *)
FlushFailsBehind(f) ==
    /\ flushing[f] # NoFlush /\ CanFail
    /\ lines' = lines
    /\ buffer' = [buffer EXCEPT ![f] = @ \o flushing[f].batch]
    /\ flushing' = [flushing EXCEPT ![f] = NoFlush]
    /\ call' = [c \in DOMAIN call |-> IF c = flushing[f].by \/ c \in ToSet(waiters[f]) THEN Threw ELSE call[c]]
    /\ waiters' = [waiters EXCEPT ![f] = <<>>]
    /\ broken' = broken \cup {f}
    /\ faults' = faults - 1
    /\ UNCHANGED <<flushEvery, accepted, closed, object>>

\* writeFile or sync fails with part of the batch in the file; all who await the operation see it fail.
FlushFails(f) ==
    /\ flushing[f] # NoFlush /\ CanFail
    /\ \E n \in 0..Len(flushing[f].batch), tail \in {<<>>, <<Torn>>} :
          /\ n = Len(flushing[f].batch) => tail = <<>>
          /\ lines' = [lines EXCEPT ![f] = @ \o SubSeq(flushing[f].batch, 1, n) \o tail]
    /\ buffer' = [buffer EXCEPT ![f] = flushing[f].batch \o @]
    /\ flushing' = [flushing EXCEPT ![f] = NoFlush]
    /\ call' = [c \in DOMAIN call |-> IF c = flushing[f].by \/ c \in ToSet(waiters[f]) THEN Threw ELSE call[c]]
    /\ waiters' = [waiters EXCEPT ![f] = <<>>]
    /\ broken' = broken \cup {f}
    /\ faults' = faults - 1
    /\ UNCHANGED <<flushEvery, accepted, closed, object>>

(* FileSystemStore.close(): every sink flushes and closes. They do so at the *)
(* same time; the model takes those that are empty at once and the others    *)
(* one after another, as they share nothing.                                 *)
CloseSinks ==
    LET open == Files \ closed
        full == {f \in open : buffer[f] # <<>>}
    IN  /\ call[Closer] = Idle /\ open # {}
        /\ IF full = {}
           THEN closed' = Files /\ UNCHANGED <<buffer, flushing, waiters, call>>
           ELSE LET f == CHOOSE f \in full : TRUE IN Flushes(Closer, f, buffer[f]) /\ UNCHANGED closed
        /\ UNCHANGED <<flushEvery, accepted, lines, broken, object, faults>>

------------------------------------------------------------------------------
(* ContentAddressedEvidenceStore.writeOnce. *)

\* open with "wx": a new file, which is empty, or EEXIST.
WriteObject(c, x) ==
    /\ IF object[x] = "none"
       THEN object' = [object EXCEPT ![x] = "partial"] /\ call' = [call EXCEPT ![c] = [at |-> "object", content |-> x]]
       ELSE call' = [call EXCEPT ![c] = [at |-> "compare", content |-> x]] /\ UNCHANGED object
    /\ UNCHANGED <<sinks, faults>>

ObjectWritten(c) ==
    /\ call[c].at = "object"
    /\ object' = [object EXCEPT ![call[c].content] = "whole"]
    /\ call' = [call EXCEPT ![c] = Idle]
    /\ UNCHANGED <<sinks, faults>>

\* The file stays as it is.
ObjectFails(c) ==
    /\ call[c].at = "object" /\ CanFail
    /\ call' = [call EXCEPT ![c] = Threw]
    /\ faults' = faults - 1
    /\ UNCHANGED <<sinks, object>>

(* Mutant: a file that is there is taken for the object. *)
CompareNothing(c) ==
    /\ call[c].at = "compare"
    /\ call' = [call EXCEPT ![c] = Idle]
    /\ UNCHANGED <<sinks, object, faults>>

\* "Existing evidence object is corrupt" unless all of it is there.
Compare(c) ==
    /\ call[c].at = "compare"
    /\ call' = [call EXCEPT ![c] = IF object[call[c].content] = "whole" THEN Idle ELSE Threw]
    /\ UNCHANGED <<sinks, object, faults>>

StoreStep ==
    \/ \E f \in Files : FlushEnds(f)
    \/ \E c \in Callers : ObjectWritten(c) \/ Compare(c)

StoreFault ==
    \/ \E f \in Files : FlushFails(f)
    \/ \E c \in Callers : ObjectFails(c)

------------------------------------------------------------------------------
(* A sink that is closed has written all it accepted, as a batch that failed *)
(* went back to its buffer (JsonLineSink.close).                             *)
NothingLeft == \A f \in closed : buffer[f] = <<>> /\ flushing[f] = NoFlush

\* What follows a part of a line shares the line with it, and no reader makes sense of it.
Legible(s, i) == s[i] # Torn /\ (i > 1 => s[i - 1] # Torn)
LastCopy(s, i) == Legible(s, i) /\ \A j \in DOMAIN s : j > i /\ Legible(s, j) => s[j] # s[i]
Swallowed(s) == {s[i] : i \in {k \in DOMAIN s : k > 1 /\ s[k - 1] = Torn}}

(* Nothing a sink has accepted is lost or reordered: what is on disk, in     *)
(* flight and buffered are the accepted records. Where an operation on the   *)
(* file failed a record may be there twice, the last copies are in the order *)
(* of acceptance, and only one that follows a part of a line can be missing  *)
(* (JsonLineSink.flush).                                                     *)
SinksComplete ==
    \A f \in Files :
        LET all == lines[f] \o flushing[f].batch \o buffer[f]
        IN  IF f \notin broken THEN all = accepted[f]
            ELSE /\ \A i \in DOMAIN all : Legible(all, i) => all[i] \in ToSet(accepted[f])
                 /\ \A x \in ToSet(accepted[f]) : x \in Swallowed(all) \/ \E i \in DOMAIN all : Legible(all, i) /\ all[i] = x
                 /\ \A i, j \in DOMAIN all :
                       LastCopy(all, i) /\ LastCopy(all, j) /\ i < j =>
                           \E k, l \in DOMAIN accepted[f] : k < l /\ accepted[f][k] = all[i] /\ accepted[f][l] = all[j]
=============================================================================
