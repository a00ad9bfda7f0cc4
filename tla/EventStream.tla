------------------------------ MODULE EventStream ------------------------------
(***************************************************************************)
(* The events of a run as its subscribers see them (events/index.ts): a    *)
(* hub of channels, each a bounded queue and the next() calls that wait    *)
(* for an event.  A hub is a value and every method a function from hubs   *)
(* to hubs, for JavaScript runs each of them to its end; a run makes them  *)
(* in any order.  The calls of next() on a channel are numbered, and       *)
(* `answers` holds what they resolve with.                                 *)
(***************************************************************************)
EXTENDS Naturals, Sequences, SequencesExt

Waiting == [done |-> FALSE, value |-> <<>>]       \* a promise not resolved yet
Value(event) == [done |-> FALSE, value |-> <<event>>]
Completed == [done |-> TRUE, value |-> <<>>]

NewChannel(capacity) ==
  [capacity |-> capacity, queue |-> <<>>, waiters |-> <<>>, answers |-> <<>>,
   closed |-> FALSE, dropped |-> 0]

(* An event goes to the call that waits longest; without one it is queued, *)
(* in a full queue at the cost of the oldest.                              *)
ChannelEmit(ch, event) ==
  IF ch.closed THEN ch
  ELSE IF ch.waiters # <<>>
    THEN [ch EXCEPT !.answers[Head(ch.waiters)] = Value(event), !.waiters = Tail(@)]
  ELSE IF Len(ch.queue) >= ch.capacity
    THEN [ch EXCEPT !.queue = Append(Tail(@), event), !.dropped = @ + 1]
  ELSE [ch EXCEPT !.queue = Append(@, event)]

(* What is queued can be read after the close; who waits learns of it.     *)
ChannelClose(ch) ==
  IF ch.closed THEN ch
  ELSE IF ch.queue # <<>> THEN [ch EXCEPT !.closed = TRUE]
  ELSE [ch EXCEPT !.closed = TRUE, !.waiters = <<>>,
                  !.answers = [i \in DOMAIN @ |->
                    IF \E w \in DOMAIN ch.waiters : ch.waiters[w] = i
                      THEN Completed ELSE @[i]]]

ChannelNext(ch) ==
  IF ch.queue # <<>>
    THEN [ch EXCEPT !.answers = Append(@, Value(Head(ch.queue))), !.queue = Tail(@)]
  ELSE IF ch.closed THEN [ch EXCEPT !.answers = Append(@, Completed)]
  ELSE [ch EXCEPT !.answers = Append(@, Waiting),
                  !.waiters = Append(@, Len(ch.answers) + 1)]

--------------------------------------------------------------------------------

NewHub == [channels |-> <<>>, closed |-> FALSE, droppedFromClosed |-> 0]

(* A channel that closes leaves the hub and its count stays (onClose()).   *)
CloseChannel(hub, i) ==
  [hub EXCEPT !.channels[i] = ChannelClose(@),
              !.droppedFromClosed =
                 @ + IF hub.channels[i].closed THEN 0 ELSE hub.channels[i].dropped]

subscribe(hub, capacity) ==
  LET opened == [hub EXCEPT !.channels = Append(@, NewChannel(capacity))]
  IN  IF hub.closed THEN CloseChannel(opened, Len(opened.channels)) ELSE opened

emit(hub, event) ==
  IF hub.closed THEN hub
  ELSE [hub EXCEPT !.channels = [i \in DOMAIN @ |-> ChannelEmit(@[i], event)]]

next(hub, i) == [hub EXCEPT !.channels[i] = ChannelNext(@)]

close(hub) ==
  IF hub.closed THEN hub
  ELSE FoldLeftDomain(CloseChannel, [hub EXCEPT !.closed = TRUE], hub.channels)

(* Of the channels that are still open, and of those that were.            *)
droppedEvents(hub) ==
  FoldLeft(LAMBDA sum, ch : sum + IF ch.closed THEN 0 ELSE ch.dropped,
           hub.droppedFromClosed, hub.channels)

================================================================================
