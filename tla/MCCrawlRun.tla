----------------------------- MODULE MCCrawlRun -----------------------------
(* Small instances of CrawlRun for TLC.                                    *)
EXTENDS CrawlRun, Sequences, SequencesExt

CONSTANTS r1, r2, r3, o1, o2

OneOrigin == [r \in Requests |-> o1]
TwoOrigins == [r \in Requests |-> IF r = r1 THEN o1 ELSE o2]

-----------------------------------------------------------------------------
(* The events of a run, for a slow subscriber with room for two and others *)
(* that come and go: all sequences of up to six calls after it subscribed. *)
Stream == INSTANCE EventStream

(* An event is numbered by the events before it.                           *)
Call(history, call) ==
    LET hub == history.hub
        n   == Len(history.emitted) + 1
    IN  CASE call = "emit" ->
               [hub |-> Stream!emit(hub, n),
                emitted |-> IF hub.closed THEN history.emitted
                                          ELSE Append(history.emitted, n)]
          [] call = "next"      -> [history EXCEPT !.hub = Stream!next(@, 1)]
          [] call = "leave"     -> [history EXCEPT !.hub = Stream!CloseChannel(@, 1)]
          [] call = "subscribe" -> [history EXCEPT !.hub = Stream!subscribe(@, 1)]
          [] call = "close"     -> [history EXCEPT !.hub = Stream!close(@)]

Calls(calls) ==
    FoldLeft(Call, [hub |-> Stream!subscribe(Stream!NewHub, 2), emitted |-> <<>>], calls)

Histories == {Calls(calls) : calls \in SeqOf({"emit", "next", "leave", "subscribe", "close"}, 6)}

Answers(ch) == SelectSeq(ch.answers, LAMBDA a : a.value # <<>>)
Received(ch) == [i \in DOMAIN Answers(ch) |-> Answers(ch)[i].value[1]] \o ch.queue

(* What a subscriber has read or can still read is what was emitted while  *)
(* it was there, in order, but for the events that were counted as dropped, *)
(* none of which is newer than one it can still read; calls are answered   *)
(* in their order, and none waits while there is something to read or      *)
(* after the end.  The hub's     *)
(* count is that of all its subscribers, whether or not they left.         *)
ASSUME EventsDelivered ==
    \A history \in Histories :
        LET hub      == history.hub
            slow     == hub.channels[1]
            received == Received(slow)
        IN  /\ \A i, j \in DOMAIN received : i < j => received[i] < received[j]
            /\ ~slow.closed =>
                  /\ Len(received) + slow.dropped = Len(history.emitted)
                  /\ slow.queue # <<>> => IsSuffix(slow.queue, history.emitted)
            /\ slow.waiters # <<>> => slow.queue = <<>> /\ ~slow.closed
            /\ \A i, j \in DOMAIN slow.answers :
                  i < j /\ slow.answers[i] = Stream!Waiting => slow.answers[j] = Stream!Waiting
            /\ Stream!droppedEvents(hub)
                  = FoldLeft(LAMBDA sum, ch : sum + ch.dropped, 0, hub.channels)
            /\ hub.closed => \A i \in DOMAIN hub.channels : hub.channels[i].closed

(* The event a run emits last before it closes the hub (run-finished) is    *)
(* read by every subscriber that stays and reads on, and then the end.     *)
ASSUME TerminalEventRead ==
    \A history \in {h \in Histories : ~h.hub.closed} :
        LET ended == Stream!close(Stream!emit(history.hub, 9))
        IN  \A i \in {j \in DOMAIN ended.channels : ~history.hub.channels[j].closed} :
                LET ch   == ended.channels[i]
                    read == FoldLeft(LAMBDA h, k : Stream!next(h, i), ended,
                                     [k \in 1 .. Len(ch.queue) + 1 |-> k]).channels[i]
                IN  /\ Last(Received(read)) = 9
                    /\ Last(read.answers) = Stream!Completed
=============================================================================
