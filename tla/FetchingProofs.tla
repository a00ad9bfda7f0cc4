--------------------------- MODULE FetchingProofs ---------------------------
(***************************************************************************)
(* Proofs about Fetching, for any requests, URLs, sites, limits, troubles  *)
(* and changes.                                                            *)
(*                                                                         *)
(* A request does one thing at a time, and where it is tells which of its  *)
(* two fetches may hold a body (Coherence): that gives the disposal of     *)
(* bodies.  Who loads a policy first is the one the cache points to        *)
(* (LoadsCoherent).  What a cache entry says while nobody else had it in   *)
(* hand (CacheCoherent) is what a revalidated body rests on.               *)
(***************************************************************************)
EXTENDS Fetching, FiniteSetTheorems, TLAPS

(* What is in the variables, shape by shape.                               *)
Results == {"ok", "empty", "redirect", "notModified", "busy", "retryable", "error", "aborted"}
Versions == 0..MaxVersion
Trails == {visited \in SUBSET Urls : IsFiniteSet(visited) /\ Cardinality(visited) <= MaxRedirects + 1}
Says == Files \cup {Fallback}

Prepared == [step : {"prepare"}, url : Urls, visited : Trails]
Sent == [step : {"send"}, url : Urls, visited : Trails, cached : Versions]
Answered == [step : {"apply", "meta", "settle", "decide"}, url : Urls, visited : Trails,
             cached : Versions, result : Results, etag : Versions]
Over == [step : {"done"}, result : Results]
Frame == {Idle} \cup Prepared \cup Sent \cup Answered \cup Over

Expired == [state : {"ready"}, says : Says, fresh : {FALSE}]
Policy == {NoPolicy} \cup [state : {"pending"}, loader : Requests] \cup [state : {"rejected"}]
          \cup [state : {"ready"}, says : Says, fresh : BOOLEAN]
Ask == {NoAsk}
       \cup [step : {"get", "rejected"}, origin : Origins]
       \cup [step : {"wait", "rejected"}, origin : Origins, loader : Requests]
       \cup [step : {"reload"}, origin : Origins, stale : Expired]
       \cup [step : {"load"}, origin : Origins, stale : Expired \cup {NoPolicy}]
       \cup [step : {"got"}, origin : Origins, says : Says]
Request == [step : Ended \cup {"attempt", "fetch"}, attempt : 0..MaxRetries]
           \cup [step : Ended \cup {"returned"}, attempt : 0..MaxRetries, result : Results]
           \cup [step : {"backoff"}, attempt : 0..(MaxRetries - 1), result : Results]

Shapes ==
    /\ version \in [Validated -> 1..MaxVersion]
    /\ robotsNow \in [Origins -> Files] /\ blocked \subseteq Movable
    /\ meta \in [Urls -> Versions] /\ body \in [Urls -> Versions]
    /\ policy \in [Origins -> Policy]
    /\ ask \in [Requests -> Ask]
    /\ frame \in [Requests -> [Kinds -> Frame]]
    /\ request \in [Requests -> Request]
    /\ spooled \in [Requests -> [Kinds -> BOOLEAN]]
    /\ session \in {"new", "open", "broken"} /\ cookieFile \in {"none", "saved", "corrupt"}
    /\ aborted \in BOOLEAN
    /\ overlapped \subseteq Urls

(* What a fetch knows at each of its awaits, and whether it holds a body.  *)
Holding == {"apply", "meta", "settle", "decide", "done"}

Known(f, holds) ==
    /\ f.step \notin {"idle", "done"} => f.url \in f.visited
    /\ holds /\ f.step \in Holding => f.result \in {"ok", "redirect", "notModified", "busy"}
    /\ f.step = "apply" /\ f.result = "notModified"
          => f.url \in Validated /\ f.cached # 0 /\ f.cached = f.etag
    /\ f.step = "meta" => f.result = "ok" /\ f.url \in Validated
    /\ f.step \in {"apply", "settle", "decide"} /\ f.result = "redirect" => Target[f.url] # NoUrl
    /\ f.step = "settle" => f.result # "notModified"
    /\ f.step = "decide" => f.result = "redirect"
    /\ f.step = "done" => f.result \notin {"redirect", "notModified"}

(* Where request q is, its lookup a of a policy, its two fetches f and the *)
(* bodies s they hold: it does one thing at a time.                        *)
Coherent(q, a, f, s) ==
    /\ \A k \in Kinds : Known(f[k], s[k])
    /\ s["robots"] => f["robots"].step \in Holding
    /\ s["main"] => \/ f["main"].step \in Holding
                    \/ q.step \in {"backoff", "returned", "cancelled"} /\ q.result \in {"ok", "busy"}
    /\ f["robots"].step # "decide"
    /\ f["robots"].step # "idle" <=> a.step = "load"
    /\ a.step # "none" <=> \/ f["main"].step = "decide"
                           \/ q.step = "fetch" /\ f["main"].step = "idle"
    /\ q.step # "fetch" => f["main"].step = "idle"

Coherence == \A r \in Requests : Coherent(request[r], ask[r], frame[r], spooled[r])

(* Whoever loads a policy that nobody had is the one the cache points to,  *)
(* and nobody else reloads it.                                             *)
FirstLoad(r, o) == ask[r].step = "load" /\ ask[r].origin = o /\ ask[r].stale = NoPolicy
Reloads(r, o) == ask[r].step \in {"reload", "load"} /\ ask[r].origin = o

LoadsCoherent ==
    /\ \A r \in Requests, o \in Origins : Reloads(r, o) => policy[o].state # "none"
    /\ \A r \in Requests, o \in Origins : FirstLoad(r, o) =>
          /\ policy[o] = [state |-> "pending", loader |-> r]
          /\ \A q \in Requests \ {r} : ~Reloads(q, o)

(* As long as the entry of a URL was in one fetch's hands: its body is     *)
(* that of its metadata, or of the metadata about to be written; and what  *)
(* a conditional request was made from is still there.                     *)
Writes(r, k, u) == frame[r][k].step = "meta" /\ frame[r][k].url = u
Relies(r, k, u) == frame[r][k].step \in {"send", "apply"} /\ frame[r][k].url = u /\ frame[r][k].cached # 0
Written(u) == \E r \in Requests, k \in Kinds : Writes(r, k, u)

EntryCoherent(u) ==
    /\ ~Written(u) /\ body[u] # 0 => body[u] = meta[u]
    /\ \A r \in Requests, k \in Kinds :
          /\ Writes(r, k, u) =>
                /\ body[u] # 0 => body[u] = frame[r][k].etag
                /\ \A q \in Requests, l \in Kinds : Writes(q, l, u) => q = r /\ l = k
          /\ Relies(r, k, u) => ~Written(u) /\ frame[r][k].cached = meta[u]

CacheCoherent == \A u \in Urls \ overlapped : EntryCoherent(u)

Inv == Shapes /\ Coherence /\ LoadsCoherent /\ CacheCoherent /\ RevalidatedBody

-----------------------------------------------------------------------------
(* Shapes.                                                                 *)

(* The step of a fetch tells its shape.                                    *)
LEMMA FrameShapes ==
    ASSUME NEW f \in Frame
    PROVE  /\ f.step \in {"idle", "prepare", "send", "apply", "meta", "settle", "decide", "done"}
           /\ f.step = "idle" => f = Idle
           /\ f.step = "prepare" => f \in Prepared
           /\ f.step = "send" => f \in Sent
           /\ f.step \in {"apply", "meta", "settle", "decide"} => f \in Answered
           /\ f.step = "done" => f \in Over
           /\ f.step \notin {"idle", "done"} => f.url \in Urls /\ f.visited \in Trails
           /\ f.step \in {"send", "apply", "meta", "settle", "decide"} => f.cached \in Versions
           /\ f.step \in {"apply", "meta", "settle", "decide"} =>
                 f.etag \in Versions /\ f.result \in Results
           /\ f.step = "done" => f.result \in Results
<1> USE DEF Prepared, Sent, Answered, Over, Idle
<1>1. CASE f = Idle
  BY <1>1
<1>2. CASE f \in Prepared
  BY <1>2
<1>3. CASE f \in Sent
  BY <1>3
<1>4. CASE f \in Answered
  BY <1>4
<1>5. CASE f \in Over
  BY <1>5
<1>6. QED
  BY <1>1, <1>2, <1>3, <1>4, <1>5 DEF Frame

LEMMA FramesBuilt ==
    /\ Idle \in Frame
    /\ \A u \in Urls, V \in Trails : [step |-> "prepare", url |-> u, visited |-> V] \in Frame
    /\ \A u \in Urls, V \in Trails, c \in Versions :
          [step |-> "send", url |-> u, visited |-> V, cached |-> c] \in Frame
    /\ \A u \in Urls, V \in Trails, c \in Versions, x \in Results, e \in Versions :
          [step |-> "apply", url |-> u, visited |-> V, cached |-> c, result |-> x, etag |-> e] \in Frame
    /\ \A x \in Results : [step |-> "done", result |-> x] \in Frame
  BY DEF Frame, Prepared, Sent, Answered, Over

LEMMA FrameTurns ==
    ASSUME NEW f \in Frame, f.step \in {"apply", "meta", "settle", "decide"},
           NEW s \in {"apply", "meta", "settle", "decide"}
    PROVE  /\ [f EXCEPT !.step = s] \in Frame
           /\ [f EXCEPT !.step = s].step = s
           /\ [f EXCEPT !.step = s].url = f.url /\ [f EXCEPT !.step = s].visited = f.visited
           /\ [f EXCEPT !.step = s].cached = f.cached
           /\ [f EXCEPT !.step = s].result = f.result /\ [f EXCEPT !.step = s].etag = f.etag
<1>1. f \in Answered
  BY FrameShapes
<1>2. QED
  BY <1>1 DEF Frame, Answered

LEMMA FrameAnswers ==
    ASSUME NEW f \in Frame, f.step \in {"apply", "meta", "settle", "decide"},
           NEW s \in {"apply", "meta", "settle", "decide"}, NEW x \in Results
    PROVE  /\ [f EXCEPT !.step = s, !.result = x] \in Frame
           /\ [f EXCEPT !.step = s, !.result = x].step = s
           /\ [f EXCEPT !.step = s, !.result = x].url = f.url
           /\ [f EXCEPT !.step = s, !.result = x].visited = f.visited
           /\ [f EXCEPT !.step = s, !.result = x].result = x
<1>1. f \in Answered
  BY FrameShapes
<1>2. QED
  BY <1>1 DEF Frame, Answered

LEMMA TrailsGrow ==
    /\ \A u \in Urls : {u} \in Trails
    /\ \A V \in Trails, u \in Urls :
          Cardinality(V) <= MaxRedirects => V \cup {u} \in Trails
<1>1. MaxRedirects \in Nat
  BY FetchingAssumption
<1>2. ASSUME NEW u \in Urls PROVE {u} \in Trails
  BY <1>1, FS_Singleton DEF Trails
<1>3. ASSUME NEW V \in Trails, NEW u \in Urls, Cardinality(V) <= MaxRedirects
      PROVE  V \cup {u} \in Trails
  <2>1. IsFiniteSet(V) /\ Cardinality(V) \in Nat
    BY FS_CardinalityType DEF Trails
  <2>2. IsFiniteSet(V \cup {u}) /\ Cardinality(V \cup {u}) <= Cardinality(V) + 1
    BY <2>1, FS_AddElement
  <2>3. Cardinality(V \cup {u}) \in Nat
    BY <2>2, FS_CardinalityType
  <2>4. QED
    BY <1>1, <1>3, <2>1, <2>2, <2>3 DEF Trails
<1>4. QED
  BY <1>2, <1>3

(* One fetch of one request changes.                                       *)
LEMMA FrameReplaced ==
    ASSUME Shapes, NEW r \in Requests, NEW k \in Kinds, NEW g \in Frame,
           frame' = [frame EXCEPT ![r][k] = g]
    PROVE  /\ frame' \in [Requests -> [Kinds -> Frame]]
           /\ frame'[r][k] = g
           /\ \A l \in Kinds \ {k} : frame'[r][l] = frame[r][l]
           /\ \A q \in Requests \ {r} : frame'[q] = frame[q]
<1>1. frame \in [Requests -> [Kinds -> Frame]]
  BY DEF Shapes
<1> HIDE DEF Frame
<1>2. QED
  BY <1>1

LEMMA SpooledReplaced ==
    ASSUME Shapes, NEW r \in Requests, NEW k \in Kinds, NEW b \in BOOLEAN,
           spooled' = [spooled EXCEPT ![r][k] = b]
    PROVE  /\ spooled' \in [Requests -> [Kinds -> BOOLEAN]]
           /\ spooled'[r][k] = b
           /\ \A l \in Kinds \ {k} : spooled'[r][l] = spooled[r][l]
           /\ \A q \in Requests \ {r} : spooled'[q] = spooled[q]
<1>1. spooled \in [Requests -> [Kinds -> BOOLEAN]]
  BY DEF Shapes
<1>2. QED
  BY <1>1

(* The same with the step alone.                                           *)
LEMMA FrameMoved ==
    ASSUME Shapes, NEW r \in Requests, NEW k \in Kinds, NEW s, Moves(r, k, s)
    PROVE  frame' = [frame EXCEPT ![r][k] = [frame[r][k] EXCEPT !.step = s]]
<1>1. frame \in [Requests -> [Kinds -> Frame]]
  BY DEF Shapes
<1>2. QED
  BY <1>1 DEF Moves

(* The step of a lookup, the state of a policy and that of a request.      *)
LEMMA AskShapes ==
    ASSUME NEW a \in Ask
    PROVE  /\ a.step \in {"none", "get", "reload", "wait", "load", "got", "rejected"}
           /\ a.step = "none" => a = NoAsk
           /\ a.step # "none" => a.origin \in Origins
           /\ a.step = "wait" => a \in [step : {"wait"}, origin : Origins, loader : Requests]
           /\ a.step = "reload" => a.stale \in Expired
           /\ a.step = "load" => a.stale \in Expired \cup {NoPolicy}
           /\ a.step = "got" => a.says \in Says
  BY DEF Ask, NoAsk

LEMMA PolicyShapes ==
    ASSUME NEW p \in Policy
    PROVE  /\ p.state \in {"none", "pending", "ready", "rejected"}
           /\ p.state = "none" => p = NoPolicy
           /\ p.state = "pending" => p.loader \in Requests /\ p = [state |-> "pending", loader |-> p.loader]
           /\ p.state = "ready" => p.says \in Says /\ p.fresh \in BOOLEAN
           /\ p.state = "ready" /\ ~p.fresh => p \in Expired
<1>1. CASE p = NoPolicy
  BY <1>1 DEF NoPolicy
<1>2. CASE p \in [state : {"pending"}, loader : Requests]
  BY <1>2
<1>3. CASE p \in [state : {"rejected"}]
  BY <1>3
<1>4. CASE p \in [state : {"ready"}, says : Says, fresh : BOOLEAN]
  <2>1. p.state = "ready" /\ p.says \in Says /\ p.fresh \in BOOLEAN
    BY <1>4
  <2>2. ASSUME ~p.fresh PROVE p \in Expired
    <3>1. p.fresh = FALSE
      BY <2>1, <2>2
    <3>2. QED
      BY <1>4, <3>1 DEF Expired
  <2>3. QED
    BY <2>1, <2>2
<1>5. QED
  BY <1>1, <1>2, <1>3, <1>4 DEF Policy

LEMMA RequestShapes ==
    ASSUME NEW q \in Request
    PROVE  /\ q.step \in Ended \cup {"attempt", "fetch", "backoff", "returned"}
           /\ q.attempt \in 0..MaxRetries
           /\ q.step = "backoff" => q.attempt + 1 \in 0..MaxRetries
           /\ q.step \in {"backoff", "returned"} => q.result \in Results
           /\ \A s \in Ended : /\ [q EXCEPT !.step = s] \in Request
                               /\ [q EXCEPT !.step = s].step = s
           /\ q.step \in {"attempt", "fetch"} =>
                 /\ [q EXCEPT !.step = "fetch"] \in Request
                 /\ [q EXCEPT !.step = "fetch"].step = "fetch"
           /\ q.step \in {"backoff", "returned"} =>
                 \A s \in Ended : [q EXCEPT !.step = s].result = q.result
<1> USE FetchingAssumption DEF Ended
<1>1. CASE q \in [step : Ended \cup {"attempt", "fetch"}, attempt : 0..MaxRetries]
  BY <1>1 DEF Request
<1>2. CASE q \in [step : Ended \cup {"returned"}, attempt : 0..MaxRetries, result : Results]
  BY <1>2 DEF Request
<1>3. CASE q \in [step : {"backoff"}, attempt : 0..(MaxRetries - 1), result : Results]
  BY <1>3 DEF Request
<1>4. QED
  BY <1>1, <1>2, <1>3 DEF Request

(* The invariant gives the type invariant of the module.                   *)
LEMMA ShapesTyped == Shapes /\ Coherence => TypeOK
<1> SUFFICES ASSUME Shapes, Coherence PROVE TypeOK
  OBVIOUS
<1>1. \A o \in Origins :
         /\ policy[o].state \in {"none", "pending", "ready", "rejected"}
         /\ policy[o].state = "pending" => policy[o].loader \in Requests
  BY PolicyShapes DEF Shapes
<1>2. ASSUME NEW r \in Requests
      PROVE  /\ ask[r].step \in {"none", "get", "reload", "wait", "load", "got", "rejected"}
             /\ request[r].step \in Ended \cup {"attempt", "fetch", "backoff", "returned"}
             /\ request[r].attempt \in 0..MaxRetries
  <2>1. ask[r] \in Ask /\ request[r] \in Request
    BY DEF Shapes
  <2>2. QED
    BY <2>1, AskShapes, RequestShapes
<1>3. ASSUME NEW r \in Requests, NEW k \in Kinds
      PROVE  /\ frame[r][k].step \in {"idle", "prepare", "send", "apply", "meta", "settle", "decide", "done"}
             /\ frame[r][k].step \notin {"idle", "done"} =>
                   /\ frame[r][k].url \in frame[r][k].visited
                   /\ Cardinality(frame[r][k].visited) <= MaxRedirects + 1
  <2>1. frame[r][k] \in Frame
    BY DEF Shapes
  <2>2. Known(frame[r][k], spooled[r][k])
    BY DEF Coherence, Coherent
  <2>3. QED
    BY <2>1, <2>2, FrameShapes DEF Known, Trails
<1>4. QED
  BY <1>1, <1>2, <1>3 DEF TypeOK, Shapes, Versions

-----------------------------------------------------------------------------
(* What keeps the parts of the invariant.                                  *)

LEMMA OneCoherent ==
    ASSUME Coherence, NEW r \in Requests,
           Coherent(request'[r], ask'[r], frame'[r], spooled'[r]),
           \A q \in Requests \ {r} :
              /\ request'[q] = request[q] /\ frame'[q] = frame[q] /\ spooled'[q] = spooled[q]
              /\ \/ ask'[q] = ask[q]
                 \/ ask[q].step = "wait" /\ ask'[q].step \in {"got", "rejected"}
    PROVE  Coherence'
<1> SUFFICES ASSUME NEW q \in Requests
             PROVE  Coherent(request'[q], ask'[q], frame'[q], spooled'[q])
  BY DEF Coherence
<1>1. CASE q = r
  BY <1>1
<1>2. CASE q # r /\ ask'[q] = ask[q]
  BY <1>2 DEF Coherence
<1>3. CASE q # r /\ ask[q].step = "wait" /\ ask'[q].step \in {"got", "rejected"}
  <2>1. Coherent(request[q], ask[q], frame[q], spooled[q])
    BY DEF Coherence
  <2>2. Coherent(request[q], ask'[q], frame[q], spooled[q])
    BY <1>3, <2>1 DEF Coherent
  <2>3. QED
    BY <1>3, <2>2
<1>4. QED
  BY <1>1, <1>2, <1>3

(* Lookups that do not start to load.                                      *)
LEMMA LoadsStay ==
    ASSUME LoadsCoherent, UNCHANGED policy,
           \A q \in Requests : \/ ask'[q] = ask[q]
                               \/ ask'[q].step \notin {"reload", "load"}
    PROVE  LoadsCoherent'
<1>1. \A q \in Requests, o \in Origins : Reloads(q, o)' => Reloads(q, o)
  BY DEF Reloads
<1>2. \A q \in Requests, o \in Origins : FirstLoad(q, o)' => FirstLoad(q, o)
  BY DEF FirstLoad
<1> HIDE DEF Reloads, FirstLoad
<1>3. QED
  BY <1>1, <1>2 DEF LoadsCoherent

(* A fetch that does not write to the cache, nor begins to rely on it.     *)
Alike(f, g) ==
    \/ g = f
    \/ f.step # "meta" /\ g.step \notin {"send", "apply", "meta"}
    \/ f.step = "send" /\ g.step = "apply" /\ g.url = f.url /\ g.cached = f.cached
    \/ f.step = "meta" /\ f.url \in overlapped' /\ g.step \notin {"send", "apply", "meta"}

LEMMA CacheStays ==
    ASSUME CacheCoherent, UNCHANGED <<meta, body>>, overlapped \subseteq overlapped',
           \A q \in Requests, l \in Kinds : Alike(frame[q][l], frame'[q][l])
    PROVE  CacheCoherent'
<1> SUFFICES ASSUME NEW u \in Urls \ overlapped' PROVE EntryCoherent(u)'
  BY DEF CacheCoherent
<1>1. EntryCoherent(u)
  BY DEF CacheCoherent
<1>2. ASSUME NEW q \in Requests, NEW l \in Kinds
      PROVE  /\ Writes(q, l, u)' <=> Writes(q, l, u)
             /\ Writes(q, l, u) => frame'[q][l] = frame[q][l]
             /\ Relies(q, l, u)' => Relies(q, l, u) /\ frame'[q][l].cached = frame[q][l].cached
  <2>1. Alike(frame[q][l], frame'[q][l])
    OBVIOUS
  <2>2. QED
    BY <2>1 DEF Alike, Writes, Relies
<1>3. Written(u)' <=> Written(u)
  BY <1>2 DEF Written
<1> HIDE DEF Writes, Relies, Written
<1>4. QED
  BY <1>1, <1>2, <1>3 DEF EntryCoherent

LEMMA RevalidatedStays ==
    ASSUME RevalidatedBody, UNCHANGED served, overlapped \subseteq overlapped'
    PROVE  RevalidatedBody'
  BY DEF RevalidatedBody

(* A fetch goes on, alone.                                                 *)
LEMMA FetchMoves ==
    ASSUME Shapes, Coherence, NEW r \in Requests, NEW k \in Kinds,
           NEW g \in Frame, NEW b \in BOOLEAN,
           frame' = [frame EXCEPT ![r][k] = g],
           spooled' = [spooled EXCEPT ![r][k] = b],
           UNCHANGED <<site, policy, ask, request, cookieFile, aborted>>,
           meta' \in [Urls -> Versions], body' \in [Urls -> Versions],
           overlapped' \subseteq Urls, session' \in {"new", "open", "broken"},
           frame[r][k].step \notin {"idle", "decide"}, g.step \notin {"idle", "decide"},
           Known(g, b), b => g.step \in Holding
    PROVE  Shapes' /\ Coherence'
<1>1. /\ frame' \in [Requests -> [Kinds -> Frame]]
      /\ frame'[r][k] = g
      /\ \A l \in Kinds \ {k} : frame'[r][l] = frame[r][l]
      /\ \A q \in Requests \ {r} : frame'[q] = frame[q]
  BY FrameReplaced
<1>2. /\ spooled' \in [Requests -> [Kinds -> BOOLEAN]]
      /\ spooled'[r][k] = b
      /\ \A l \in Kinds \ {k} : spooled'[r][l] = spooled[r][l]
      /\ \A q \in Requests \ {r} : spooled'[q] = spooled[q]
  BY SpooledReplaced
<1>3. Shapes'
  BY <1>1, <1>2 DEF Shapes, site
<1>4. Coherent(request[r], ask[r], frame[r], spooled[r])
  BY DEF Coherence
<1>5. Coherent(request[r], ask[r], frame'[r], spooled'[r])
  <2>1. \A l \in Kinds : Known(frame'[r][l], spooled'[r][l])
    BY <1>1, <1>2, <1>4 DEF Coherent
  <2>2. CASE k = "main"
    BY <1>1, <1>2, <1>4, <2>1, <2>2 DEF Coherent, Kinds
  <2>3. CASE k = "robots"
    BY <1>1, <1>2, <1>4, <2>1, <2>3 DEF Coherent, Kinds
  <2>4. QED
    BY <2>2, <2>3 DEF Kinds
<1>6. Coherence'
  BY <1>1, <1>2, <1>5, OneCoherent
<1>7. QED
  BY <1>3, <1>6

(* One request's record changes.                                           *)
LEMMA RequestReplaced ==
    ASSUME Shapes, NEW r \in Requests, NEW q \in Request, request' = [request EXCEPT ![r] = q]
    PROVE  /\ request' \in [Requests -> Request] /\ request'[r] = q
           /\ \A p \in Requests \ {r} : request'[p] = request[p]
<1>1. request \in [Requests -> Request]
  BY DEF Shapes
<1>2. QED
  BY <1>1

LEMMA Ending ==
    ASSUME Shapes, NEW r \in Requests, NEW s, End(r, s)
    PROVE  request' = [request EXCEPT ![r] = [request[r] EXCEPT !.step = s]]
<1>1. request \in [Requests -> Request]
  BY DEF Shapes
<1>2. QED
  BY <1>1 DEF End

LEMMA AskReplaced ==
    ASSUME Shapes, NEW r \in Requests, NEW a \in Ask, ask' = [ask EXCEPT ![r] = a]
    PROVE  /\ ask' \in [Requests -> Ask] /\ ask'[r] = a
           /\ \A p \in Requests \ {r} : ask'[p] = ask[p]
<1>1. ask \in [Requests -> Ask]
  BY DEF Shapes
<1>2. QED
  BY <1>1

LEMMA AsksBuilt ==
    /\ NoAsk \in Ask
    /\ \A o \in Origins : /\ [step |-> "get", origin |-> o] \in Ask
                          /\ [step |-> "rejected", origin |-> o] \in Ask
    /\ \A o \in Origins, r \in Requests :
          /\ [step |-> "wait", origin |-> o, loader |-> r] \in Ask
          /\ [step |-> "rejected", origin |-> o, loader |-> r] \in Ask
    /\ \A o \in Origins, p \in Expired :
          /\ [step |-> "reload", origin |-> o, stale |-> p] \in Ask
          /\ [step |-> "load", origin |-> o, stale |-> p] \in Ask
    /\ \A o \in Origins : [step |-> "load", origin |-> o, stale |-> NoPolicy] \in Ask
    /\ \A o \in Origins, x \in Says : [step |-> "got", origin |-> o, says |-> x] \in Ask
  BY DEF Ask

-----------------------------------------------------------------------------
(* The steps of a fetch.                                                   *)

(* What is known of a fetch that is on its way.                            *)
LEMMA OnTheWay ==
    ASSUME Shapes, Coherence, NEW r \in Requests, NEW k \in Kinds
    PROVE  /\ frame[r][k] \in Frame /\ spooled[r][k] \in BOOLEAN
           /\ Known(frame[r][k], spooled[r][k])
           /\ frame[r][k].step # "idle" /\ spooled[r][k] => frame[r][k].step \in Holding
           /\ k = "robots" => frame[r][k].step # "decide"
<1>1. frame[r][k] \in Frame /\ spooled[r][k] \in BOOLEAN
  BY DEF Shapes
<1>2. Coherent(request[r], ask[r], frame[r], spooled[r])
  BY DEF Coherence
<1>3. frame[r][k].step # "idle" /\ spooled[r][k] => frame[r][k].step \in Holding
  <2>1. CASE k = "main"
    BY <1>2, <2>1 DEF Coherent
  <2>2. CASE k = "robots"
    BY <1>2, <2>2 DEF Coherent
  <2>3. QED
    BY <2>1, <2>2 DEF Kinds
<1>4. QED
  BY <1>1, <1>2, <1>3 DEF Coherent

(* A fetch moves, and neither the cache nor the entry it uses is touched.  *)
LEMMA QuietMove ==
    ASSUME Inv, NEW r \in Requests, NEW k \in Kinds,
           NEW g \in Frame, NEW b \in BOOLEAN,
           frame' = [frame EXCEPT ![r][k] = g],
           spooled' = [spooled EXCEPT ![r][k] = b],
           UNCHANGED <<site, cache, policy, ask, request, cookieFile, aborted>>,
           session' \in {"new", "open", "broken"},
           frame[r][k].step \notin {"idle", "decide"}, g.step \notin {"idle", "decide"},
           Known(g, b), b => g.step \in Holding,
           Alike(frame[r][k], g), RevalidatedBody'
    PROVE  Inv'
<1>1. UNCHANGED <<meta, body, overlapped>>
  BY DEF cache
<1>2. Shapes' /\ Coherence'
  BY <1>1, FetchMoves DEF Inv, Shapes
<1>3. LoadsCoherent'
  BY LoadsStay DEF Inv
<1>4. CacheCoherent'
  <2>1. ASSUME NEW q \in Requests, NEW l \in Kinds
        PROVE  Alike(frame[q][l], frame'[q][l])
    <3>1. \/ q = r /\ l = k /\ frame'[q][l] = g
          \/ frame'[q][l] = frame[q][l]
      BY FrameReplaced DEF Inv
    <3>2. CASE q = r /\ l = k /\ frame'[q][l] = g
      BY <3>2
    <3>3. CASE frame'[q][l] = frame[q][l]
      BY <3>3 DEF Alike
    <3>4. QED
      BY <3>1, <3>2, <3>3
  <2>2. QED
    BY <1>1, <2>1, CacheStays DEF Inv
<1>5. QED
  BY <1>2, <1>3, <1>4 DEF Inv

LEMMA SameSpooled ==
    ASSUME Shapes, NEW r \in Requests, NEW k \in Kinds, UNCHANGED spooled
    PROVE  spooled' = [spooled EXCEPT ![r][k] = spooled[r][k]]
  BY DEF Shapes

LEMMA AnswerKnown ==
    ASSUME NEW u, NEW c, NEW answer \in Answers(u, c)
    PROVE  /\ answer[1] \in Results /\ answer[1] # "empty"
           /\ answer[1] = "redirect" => Target[u] # NoUrl
           /\ answer[1] = "notModified" => u \in Validated /\ c # 0 /\ c = version[u]
<1> DEFINE plain == CASE Target[u] # NoUrl -> "redirect"
                      [] Target[u] = NoUrl /\ u \in Validated /\ c # 0 /\ c = version[u] -> "notModified"
                      [] OTHER -> "ok"
<1>1. answer \in {<<"aborted", FALSE>>, <<"error", FALSE>>, <<plain, FALSE>>,
                  <<"retryable", TRUE>>, <<"busy", TRUE>>}
  BY DEF Answers
<1>2. /\ plain \in {"redirect", "notModified", "ok"}
      /\ plain = "redirect" => Target[u] # NoUrl
      /\ plain = "notModified" => u \in Validated /\ c # 0 /\ c = version[u]
  <2>1. CASE Target[u] # NoUrl
    BY <2>1
  <2>2. CASE Target[u] = NoUrl /\ u \in Validated /\ c # 0 /\ c = version[u]
    BY <2>2
  <2>3. CASE Target[u] = NoUrl /\ ~(u \in Validated /\ c # 0 /\ c = version[u])
    <3>1. plain = "ok"
      BY <2>3
    <3>2. QED
      BY <3>1
  <2>4. QED
    BY <2>1, <2>2, <2>3
<1> HIDE DEF plain
<1>3. answer[1] \in {"aborted", "error", plain, "retryable", "busy"}
  <2>1. CASE answer = <<"aborted", FALSE>>
    BY <2>1
  <2>2. CASE answer = <<"error", FALSE>>
    BY <2>2
  <2>3. CASE answer = <<plain, FALSE>>
    BY <2>3
  <2>4. CASE answer = <<"retryable", TRUE>>
    BY <2>4
  <2>5. CASE answer = <<"busy", TRUE>>
    BY <2>5
  <2>6. QED
    BY <1>1, <2>1, <2>2, <2>3, <2>4, <2>5
<1>4. QED
  BY <1>2, <1>3 DEF Results

LEMMA RespondInv ==
    ASSUME Inv, NEW r \in Requests, NEW k \in Kinds, Respond(r, k)
    PROVE  Inv'
<1> DEFINE f == frame[r][k]
<1>1. f.step = "send" /\ session' = "open"
      /\ UNCHANGED <<site, cache, policy, ask, request, cookieFile, aborted, served>>
  BY DEF Respond, Entry
<1>2. f \in Frame /\ Known(f, spooled[r][k]) /\ f \in Sent
  BY <1>1, OnTheWay, FrameShapes DEF Inv
<1>3. PICK answer \in Answers(f.url, f.cached) :
        /\ frame' = [frame EXCEPT ![r][k] = [step |-> "apply", url |-> @.url, visited |-> @.visited,
                                             cached |-> @.cached, result |-> answer[1],
                                             etag |-> IF @.url \in Validated THEN version[@.url] ELSE 0]]
        /\ spooled' = [spooled EXCEPT ![r][k] = answer[1] \notin {"aborted", "retryable", "error"}]
  BY DEF Respond, Entry
<1> DEFINE e == IF f.url \in Validated THEN version[f.url] ELSE 0
           g == [step |-> "apply", url |-> f.url, visited |-> f.visited, cached |-> f.cached,
                 result |-> answer[1], etag |-> e]
           b == answer[1] \notin {"aborted", "retryable", "error"}
<1>4. frame' = [frame EXCEPT ![r][k] = g]
  <2>1. frame \in [Requests -> [Kinds -> Frame]]
    BY DEF Inv, Shapes
  <2>2. QED
    BY <1>3, <2>1
<1>5. /\ answer[1] \in Results /\ answer[1] # "empty"
      /\ answer[1] = "redirect" => Target[f.url] # NoUrl
      /\ answer[1] = "notModified" => f.url \in Validated /\ f.cached # 0 /\ f.cached = version[f.url]
  BY AnswerKnown
<1>6. e \in Versions
  BY FetchingAssumption DEF Inv, Shapes, Versions
<1>7. g \in Frame
  BY <1>2, <1>5, <1>6, FramesBuilt DEF Sent
<1>8. Known(g, b)
  BY <1>1, <1>2, <1>5 DEF Known, Results
<1>9. Alike(f, g) /\ b \in BOOLEAN
  BY <1>1 DEF Alike
<1>10. RevalidatedBody'
  BY <1>1, RevalidatedStays DEF Inv, cache
<1>11. g.step = "apply"
  OBVIOUS
<1> HIDE DEF g, b, e
<1>12. spooled' = [spooled EXCEPT ![r][k] = b]
  BY <1>3 DEF b
<1>13. QED
  BY <1>1, <1>4, <1>7, <1>8, <1>9, <1>10, <1>11, <1>12, QuietMove DEF Holding

(* The fetch turns to another step, and may have disposed of its body.     *)
LEMMA TurnInv ==
    ASSUME Inv, NEW r \in Requests, NEW k \in Kinds,
           frame[r][k].step \in {"apply", "settle"},
           NEW g \in Frame, frame' = [frame EXCEPT ![r][k] = g],
           (UNCHANGED spooled) \/ Disposed(r, k),
           UNCHANGED <<site, cache, policy, ask, request, session, cookieFile, aborted>>,
           g.step \in {"settle", "done"} \/ (g.step = "prepare" /\ Disposed(r, k)),
           \A b \in {FALSE, spooled'[r][k]} : Known(g, b), RevalidatedBody'
    PROVE  Inv'
<1>1. PICK b \in BOOLEAN : /\ spooled' = [spooled EXCEPT ![r][k] = b]
                           /\ g.step = "prepare" => b = FALSE
  <2>1. CASE Disposed(r, k)
    BY <2>1 DEF Disposed
  <2>2. CASE UNCHANGED spooled /\ ~Disposed(r, k)
    BY <2>2, SameSpooled, OnTheWay DEF Inv
  <2>3. QED
    BY <2>1, <2>2
<1>2. spooled'[r][k] = b
  BY <1>1, SpooledReplaced DEF Inv
<1>3. session \in {"new", "open", "broken"}
  BY DEF Inv, Shapes
<1>4. Alike(frame[r][k], g)
  BY DEF Alike
<1>5. QED
  BY <1>1, <1>2, <1>3, <1>4, QuietMove DEF Holding

LEMMA ApplyNothingInv ==
    ASSUME Inv, NEW r \in Requests, NEW k \in Kinds, ApplyNothing(r, k)
    PROVE  Inv'
<1> DEFINE f == frame[r][k]
           g == [f EXCEPT !.step = "settle"]
<1>1. /\ f.step = "apply" /\ f.result # "notModified" /\ Moves(r, k, "settle")
      /\ UNCHANGED <<site, cache, policy, ask, request, spooled, session, cookieFile, aborted, served>>
  BY DEF ApplyNothing, Entry, Reuses
<1>2. f \in Frame /\ Known(f, spooled[r][k])
  BY OnTheWay DEF Inv
<1>3. /\ g \in Frame /\ g.step = "settle" /\ g.url = f.url /\ g.visited = f.visited
      /\ g.result = f.result
  BY <1>1, <1>2, FrameTurns
<1>4. frame' = [frame EXCEPT ![r][k] = g]
  <2>1. Shapes
    BY DEF Inv
  <2>2. QED
    BY <1>1, <2>1, FrameMoved
<1> HIDE DEF g
<1>5. \A b \in {FALSE, spooled'[r][k]} : Known(g, b)
  BY <1>1, <1>2, <1>3 DEF Known, Holding
<1>6. RevalidatedBody'
  BY <1>1, RevalidatedStays DEF Inv, cache
<1>7. frame[r][k].step \in {"apply", "settle"}
  BY <1>1
<1>8. (UNCHANGED spooled) \/ Disposed(r, k)
  BY <1>1
<1>9. g.step \in {"settle", "done"} \/ (g.step = "prepare" /\ Disposed(r, k))
  BY <1>3
<1>10. UNCHANGED <<site, cache, policy, ask, request, session, cookieFile, aborted>>
  BY <1>1
<1>11. QED
  BY <1>3, <1>4, <1>5, <1>6, <1>7, <1>8, <1>9, <1>10, TurnInv

(* A failure that keeps no body, or the result of the fetch.               *)
LEMMA ReturnsInv ==
    ASSUME Inv, NEW r \in Requests, NEW k \in Kinds, NEW x \in Results,
           frame[r][k].step = "settle", Returns(r, k, x),
           \/ Disposed(r, k) /\ x \in {"error", "retryable"}
           \/ UNCHANGED spooled /\ x = frame[r][k].result /\ x # "redirect",
           UNCHANGED <<site, cache, policy, ask, request, session, cookieFile, aborted, served>>
    PROVE  Inv'
<1> DEFINE g == [step |-> "done", result |-> x]
<1>1. g \in Frame /\ g.step = "done" /\ g.result = x
  BY FramesBuilt
<1>2. frame' = [frame EXCEPT ![r][k] = g]
  BY DEF Returns
<1> HIDE DEF g
<1>3. Known(frame[r][k], spooled[r][k])
  BY OnTheWay DEF Inv
<1>4. \A b \in {FALSE, spooled'[r][k]} : Known(g, b)
  <2>1. CASE Disposed(r, k) /\ x \in {"error", "retryable"}
    <3>1. spooled'[r][k] = FALSE
      BY <2>1, SpooledReplaced DEF Inv, Disposed
    <3>2. QED
      BY <1>1, <2>1, <3>1 DEF Known
  <2>2. CASE UNCHANGED spooled /\ x = frame[r][k].result /\ x # "redirect"
    BY <1>1, <1>3, <2>2 DEF Known, Holding
  <2>3. QED
    BY <2>1, <2>2
<1>5. RevalidatedBody'
  BY RevalidatedStays DEF Inv, cache
<1>6. (UNCHANGED spooled) \/ Disposed(r, k)
  OBVIOUS
<1>7. g.step \in {"settle", "done"} \/ (g.step = "prepare" /\ Disposed(r, k))
  BY <1>1
<1>8. UNCHANGED <<site, cache, policy, ask, request, session, cookieFile, aborted>>
  OBVIOUS
<1>9. QED
  BY <1>1, <1>2, <1>4, <1>5, <1>6, <1>7, <1>8, TurnInv

LEMMA SettleInv ==
    ASSUME Inv, NEW r \in Requests, NEW k \in Kinds,
           Settle(r, k) \/ Refuse(r, k) \/ RedirectUnresolved(r, k)
    PROVE  Inv'
<1>1. frame[r][k].step = "settle" =>  frame[r][k].result \in Results
  BY OnTheWay, FrameShapes DEF Inv
<1>2. "error" \in Results /\ "retryable" \in Results
  BY DEF Results
<1>3. QED
  BY <1>1, <1>2, ReturnsInv DEF Settle, Refuse, RedirectUnresolved, Entry

(* The frames after one fetch has changed.                                 *)
LEMMA OneFetch ==
    ASSUME Shapes, NEW r \in Requests, NEW k \in Kinds, NEW g \in Frame,
           frame' = [frame EXCEPT ![r][k] = g]
    PROVE  /\ frame'[r][k] = g
           /\ \A q \in Requests, l \in Kinds :
                 \/ q = r /\ l = k
                 \/ frame'[q][l] = frame[q][l]
<1> HIDE DEF Frame
<1>1. /\ frame'[r][k] = g
      /\ \A l \in Kinds \ {k} : frame'[r][l] = frame[r][l]
      /\ \A q \in Requests \ {r} : frame'[q] = frame[q]
  BY FrameReplaced
<1>2. QED
  BY <1>1

(* An entry that one fetch, busy with another URL, leaves alone.           *)
LEMMA EntryStays ==
    ASSUME NEW u, EntryCoherent(u), body'[u] = body[u], meta'[u] = meta[u],
           NEW r \in Requests, NEW k \in Kinds,
           \A q \in Requests, l \in Kinds :
              \/ q = r /\ l = k
              \/ frame'[q][l] = frame[q][l],
           frame[r][k].url # u, frame'[r][k].url # u
    PROVE  EntryCoherent(u)'
<1>1. ASSUME NEW q \in Requests, NEW l \in Kinds
      PROVE  /\ Writes(q, l, u)' <=> Writes(q, l, u)
             /\ Writes(q, l, u) => frame'[q][l] = frame[q][l]
             /\ Relies(q, l, u)' => Relies(q, l, u) /\ frame'[q][l].cached = frame[q][l].cached
  BY DEF Writes, Relies
<1>2. Written(u)' <=> Written(u)
  BY <1>1 DEF Written
<1> HIDE DEF Writes, Relies, Written
<1>3. QED
  BY <1>1, <1>2 DEF EntryCoherent

LEMMA ApplyCachedInv ==
    ASSUME Inv, NEW r \in Requests, NEW k \in Kinds, ApplyCached(r, k)
    PROVE  Inv'
<1> DEFINE f == frame[r][k]
           u == f.url
<1>1. /\ f.step = "apply"
      /\ f.result \in {"notModified", "aborted", "retryable", "error"}
      /\ UNCHANGED <<site, cache, policy, ask, request, session, cookieFile, aborted>>
  BY DEF ApplyCached, Entry, Reuses
<1>2. f \in Frame /\ Known(f, spooled[r][k]) /\ u \in Urls
  BY <1>1, OnTheWay, FrameShapes DEF Inv
<1>3. RevalidatedBody'
  <2>1. CASE BodyFound(r, k) /\ f.result = "notModified"
    <3>1. served' = [url |-> u, body |-> body[u], etag |-> f.etag]
      BY <2>1 DEF ApplyCached, Entry
    <3>2. f.cached # 0 /\ f.cached = f.etag /\ body[u] # 0
      BY <1>1, <1>2, <2>1 DEF Known, BodyFound, Entry
    <3>3. ASSUME u \notin overlapped PROVE body[u] = f.etag
      <4>1. EntryCoherent(u)
        BY <1>2, <3>3 DEF Inv, CacheCoherent
      <4>2. Relies(r, k, u)
        BY <1>1, <3>2 DEF Relies
      <4>3. ~Written(u) /\ f.cached = meta[u]
        BY <4>1, <4>2 DEF EntryCoherent
      <4>4. QED
        BY <3>2, <4>1, <4>3 DEF EntryCoherent
    <3>4. overlapped' = overlapped
      BY <1>1 DEF cache
    <3>5. QED
      BY <3>1, <3>3, <3>4 DEF RevalidatedBody
  <2>2. CASE ~(BodyFound(r, k) /\ f.result = "notModified")
    <3>1. served' = served /\ overlapped' = overlapped
      BY <1>1, <2>2 DEF ApplyCached, Entry, cache
    <3>2. QED
      BY <3>1 DEF RevalidatedBody, Inv
  <2>3. QED
    BY <2>1, <2>2
<1>4. frame \in [Requests -> [Kinds -> Frame]]
  BY DEF Inv, Shapes
<1>5. CASE BodyFound(r, k) \/ f.result = "notModified"
  <2> DEFINE x == IF BodyFound(r, k) THEN "ok" ELSE "empty"
             g == [f EXCEPT !.step = "settle", !.result = x]
  <2>0. x \in {"ok", "empty"} /\ x \in Results
    BY DEF Results
  <2>1. /\ g \in Frame /\ g.step = "settle" /\ g.url = u /\ g.visited = f.visited
        /\ g.result = x
    <3> HIDE DEF x
    <3>1. QED
      BY <1>1, <1>2, <2>0, FrameAnswers
  <2>2. frame' = [frame EXCEPT ![r][k] = g] /\ Disposed(r, k)
    BY <1>4, <1>5 DEF ApplyCached, Entry
  <2> HIDE DEF g, x
  <2>3. \A b \in {FALSE, spooled'[r][k]} : Known(g, b)
    <3>1. spooled'[r][k] = FALSE
      BY <2>2 DEF Disposed, Inv, Shapes
    <3>2. QED
      BY <1>1, <1>2, <2>0, <2>1, <3>1 DEF Known
  <2>4. QED
    BY <1>1, <1>3, <2>1, <2>2, <2>3, TurnInv
<1>6. CASE ~(BodyFound(r, k) \/ f.result = "notModified")
  <2> DEFINE g == [f EXCEPT !.step = "settle"]
  <2>1. /\ g \in Frame /\ g.step = "settle" /\ g.url = u /\ g.visited = f.visited
        /\ g.result = f.result
    BY <1>1, <1>2, FrameTurns
  <2>2. Moves(r, k, "settle") /\ UNCHANGED spooled
    BY <1>6 DEF ApplyCached, Entry
  <2>3. frame' = [frame EXCEPT ![r][k] = g]
    <3>1. Shapes
      BY DEF Inv
    <3>2. QED
      BY <2>2, <3>1, FrameMoved
  <2> HIDE DEF g
  <2>4. \A b \in {FALSE, spooled'[r][k]} : Known(g, b)
    BY <1>1, <1>2, <1>6, <2>1, <2>2 DEF Known, Holding
  <2>5. (UNCHANGED spooled) \/ Disposed(r, k)
    BY <2>2
  <2>6. g.step \in {"settle", "done"} \/ (g.step = "prepare" /\ Disposed(r, k))
    BY <2>1
  <2>7. QED
    BY <1>1, <1>3, <2>1, <2>3, <2>4, <2>5, <2>6, TurnInv
<1>7. QED
  BY <1>5, <1>6

LEMMA PrepareInv ==
    ASSUME Inv, NEW r \in Requests, NEW k \in Kinds, Prepare(r, k)
    PROVE  Inv'
<1> DEFINE f == frame[r][k]
           g == [step |-> "send", url |-> f.url, visited |-> f.visited, cached |-> meta[f.url]]
<1>1. f.step = "prepare"
      /\ UNCHANGED <<site, meta, body, policy, ask, request, spooled, session, cookieFile, aborted, served>>
  BY DEF Prepare, Entry
<1>2. /\ f \in Frame /\ Known(f, spooled[r][k]) /\ f.url \in Urls /\ f.visited \in Trails
      /\ spooled[r][k] = FALSE
  BY <1>1, OnTheWay, FrameShapes DEF Inv, Holding
<1>3. frame' = [frame EXCEPT ![r][k] = g]
  <2>1. frame \in [Requests -> [Kinds -> Frame]]
    BY DEF Inv, Shapes
  <2>2. QED
    BY <2>1 DEF Prepare
<1>4. g \in Frame
  BY <1>2, FramesBuilt DEF Inv, Shapes
<1>5. Known(g, FALSE)
  BY <1>1, <1>2 DEF Known
<1>6. /\ overlapped \subseteq overlapped' /\ overlapped' \subseteq Urls
      /\ Written(f.url) => f.url \in overlapped'
  BY <1>2 DEF Prepare, Entry, Inv, Shapes, Written, Writes
<1>7. /\ spooled' = [spooled EXCEPT ![r][k] = FALSE]
      /\ meta' = meta /\ body' = body
  <2>1. Shapes /\ UNCHANGED spooled
    BY <1>1 DEF Inv
  <2>2. QED
    BY <1>1, <1>2, <2>1, SameSpooled
<1>8. g.step = "send" /\ g.url = f.url /\ g.cached = meta[f.url]
  OBVIOUS
<1> HIDE DEF g
<1>9. Shapes' /\ Coherence'
  <2>1. /\ meta' \in [Urls -> Versions] /\ body' \in [Urls -> Versions]
        /\ session' \in {"new", "open", "broken"}
    BY <1>1 DEF Inv, Shapes
  <2>2. UNCHANGED <<site, policy, ask, request, cookieFile, aborted>>
    BY <1>1
  <2>3. QED
    BY <1>1, <1>3, <1>4, <1>5, <1>6, <1>7, <1>8, <2>1, <2>2, FetchMoves DEF Inv
<1>10. LoadsCoherent'
  BY <1>1, LoadsStay DEF Inv
<1>11. CacheCoherent'
  <2> SUFFICES ASSUME NEW u \in Urls \ overlapped' PROVE EntryCoherent(u)'
    BY DEF CacheCoherent
  <2>1. EntryCoherent(u)
    BY <1>6 DEF Inv, CacheCoherent
  <2>2. /\ frame'[r][k] = g
        /\ \A q \in Requests, l \in Kinds : \/ q = r /\ l = k
                                            \/ frame'[q][l] = frame[q][l]
    BY <1>3, <1>4, OneFetch, ZenonT(60) DEF Inv
  <2>3. CASE f.url # u
    BY <1>7, <1>8, <2>1, <2>2, <2>3, EntryStays
  <2>4. CASE f.url = u
    <3>1. ASSUME NEW q \in Requests, NEW l \in Kinds
          PROVE  /\ Writes(q, l, u)' <=> Writes(q, l, u)
                 /\ Relies(q, l, u)' => \/ Relies(q, l, u) /\ frame'[q][l].cached = frame[q][l].cached
                                        \/ frame'[q][l].cached = meta[u]
      BY <1>1, <1>8, <2>2, <2>4 DEF Writes, Relies
    <3>2. ~Written(u) /\ ~Written(u)'
      BY <1>6, <2>4, <3>1 DEF Written
    <3>3. \A q \in Requests, l \in Kinds : ~Writes(q, l, u)'
      BY <3>2 DEF Written
    <3> HIDE DEF Writes, Relies, Written
    <3>4. QED
      BY <1>7, <2>1, <3>1, <3>2, <3>3 DEF EntryCoherent
  <2>5. QED
    BY <2>3, <2>4
<1>12. RevalidatedBody'
  BY <1>1, <1>6, RevalidatedStays DEF Inv
<1>13. QED
  BY <1>9, <1>10, <1>11, <1>12 DEF Inv

LEMMA StoreBodyInv ==
    ASSUME Inv, NEW r \in Requests, NEW k \in Kinds, StoreBody(r, k)
    PROVE  Inv'
<1> DEFINE f == frame[r][k]
           g == [f EXCEPT !.step = "meta"]
<1>1. /\ f.step = "apply" /\ f.result = "ok" /\ f.url \in Validated /\ Moves(r, k, "meta")
      /\ UNCHANGED <<site, meta, policy, ask, request, spooled, session, cookieFile, aborted, served>>
  BY DEF StoreBody, Entry, Eligible
<1>2. /\ f \in Frame /\ Known(f, spooled[r][k]) /\ f.url \in Urls /\ f.etag \in Versions
      /\ spooled[r][k] \in BOOLEAN
  BY <1>1, OnTheWay, FrameShapes DEF Inv
<1>3. /\ g \in Frame /\ g.step = "meta" /\ g.url = f.url /\ g.visited = f.visited
      /\ g.result = f.result /\ g.etag = f.etag
  BY <1>1, <1>2, FrameTurns
<1>4. frame' = [frame EXCEPT ![r][k] = g]
  <2>1. Shapes
    BY DEF Inv
  <2>2. QED
    BY <1>1, <2>1, FrameMoved
<1> HIDE DEF g
<1>5. Known(g, spooled[r][k])
  BY <1>1, <1>2, <1>3 DEF Known
<1>6. PICK v \in {0, f.etag} : body' = [body EXCEPT ![f.url] = v]
  BY DEF StoreBody, Entry
<1>7. /\ body' \in [Urls -> Versions] /\ body'[f.url] \in {0, f.etag}
      /\ \A u \in Urls \ {f.url} : body'[u] = body[u]
  <2>1. body \in [Urls -> Versions] /\ 0 \in Versions
    BY FetchingAssumption DEF Inv, Shapes, Versions
  <2>2. v \in Versions
    BY <1>2, <2>1
  <2>3. QED
    BY <1>2, <1>6, <2>1, <2>2
<1>8. /\ overlapped \subseteq overlapped' /\ overlapped' \subseteq Urls
      /\ Shared(f.url, r, k) => f.url \in overlapped'
  BY <1>2 DEF StoreBody, Entry, Inv, Shapes
<1>9. Shapes' /\ Coherence'
  <2>1. meta' \in [Urls -> Versions] /\ session' \in {"new", "open", "broken"}
    BY <1>1 DEF Inv, Shapes
  <2>2. spooled' = [spooled EXCEPT ![r][k] = spooled[r][k]]
    <3>1. Shapes /\ UNCHANGED spooled
      BY <1>1 DEF Inv
    <3>2. QED
      BY <3>1, SameSpooled
  <2>3. UNCHANGED <<site, policy, ask, request, cookieFile, aborted>>
    BY <1>1
  <2>4. g.step \in Holding /\ g.step \notin {"idle", "decide"}
    BY <1>3 DEF Holding
  <2>5. Shapes /\ Coherence /\ f.step \notin {"idle", "decide"}
    BY <1>1 DEF Inv
  <2>6. g.step \notin {"idle", "decide"} /\ (spooled[r][k] => g.step \in Holding)
    BY <2>4
  <2>7. QED
    BY <1>2, <1>3, <1>4, <1>5, <1>7, <1>8, <2>1, <2>2, <2>3, <2>5, <2>6, FetchMoves
<1>10. LoadsCoherent'
  BY <1>1, LoadsStay DEF Inv
<1>11. CacheCoherent'
  <2> SUFFICES ASSUME NEW u \in Urls \ overlapped' PROVE EntryCoherent(u)'
    BY DEF CacheCoherent
  <2>1. EntryCoherent(u)
    BY <1>8 DEF Inv, CacheCoherent
  <2>2. /\ frame'[r][k] = g
        /\ \A q \in Requests, l \in Kinds : \/ q = r /\ l = k
                                            \/ frame'[q][l] = frame[q][l]
    BY <1>3, <1>4, OneFetch DEF Inv
  <2>3. CASE f.url # u
    <3>1. body'[u] = body[u] /\ meta'[u] = meta[u]
      BY <1>1, <1>7, <2>3
    <3>2. QED
      BY <1>3, <2>1, <2>2, <2>3, <3>1, EntryStays
  <2>4. CASE f.url = u
    <3>1. ~Shared(u, r, k)
      BY <1>8, <2>4
    <3>2. ASSUME NEW q \in Requests, NEW l \in Kinds
          PROVE  /\ Writes(q, l, u)' <=> q = r /\ l = k
                 /\ ~Relies(q, l, u)'
      <4>1. CASE q = r /\ l = k
        BY <1>3, <2>2, <2>4, <4>1 DEF Writes, Relies
      <4>2. CASE ~(q = r /\ l = k)
        <5>1. frame'[q][l] = frame[q][l] /\ <<q, l>> # <<r, k>>
          BY <2>2, <4>2
        <5>2. ~(/\ frame[q][l].step \in {"send", "apply", "meta"} /\ frame[q][l].url = u
                /\ frame[q][l].step = "meta" \/ frame[q][l].cached # 0)
          BY <3>1, <5>1 DEF Shared
        <5>3. QED
          BY <4>2, <5>1, <5>2 DEF Writes, Relies
      <4>3. QED
        BY <4>1, <4>2
    <3>3. Written(u)'
      BY <3>2 DEF Written
    <3>4. body'[u] # 0 => body'[u] = frame'[r][k].etag
      BY <1>3, <1>7, <2>2, <2>4
    <3> HIDE DEF Writes, Relies, Written
    <3>5. QED
      BY <3>2, <3>3, <3>4 DEF EntryCoherent
  <2>5. QED
    BY <2>3, <2>4
<1>12. RevalidatedBody'
  BY <1>1, <1>8, RevalidatedStays DEF Inv
<1>13. QED
  BY <1>9, <1>10, <1>11, <1>12 DEF Inv

LEMMA StoreMetadataInv ==
    ASSUME Inv, NEW r \in Requests, NEW k \in Kinds, StoreMetadata(r, k)
    PROVE  Inv'
<1> DEFINE f == frame[r][k]
           g == [f EXCEPT !.step = "settle"]
<1>1. /\ f.step = "meta" /\ Moves(r, k, "settle") /\ meta' = [meta EXCEPT ![f.url] = f.etag]
      /\ UNCHANGED <<site, body, overlapped, policy, ask, request, spooled, session, cookieFile, aborted, served>>
  BY DEF StoreMetadata, Entry
<1>2. /\ f \in Frame /\ Known(f, spooled[r][k]) /\ f.url \in Urls /\ f.etag \in Versions
      /\ spooled[r][k] \in BOOLEAN
  BY <1>1, OnTheWay, FrameShapes DEF Inv
<1>3. /\ g \in Frame /\ g.step = "settle" /\ g.url = f.url /\ g.visited = f.visited
      /\ g.result = f.result
  BY <1>1, <1>2, FrameTurns
<1>4. frame' = [frame EXCEPT ![r][k] = g]
  <2>1. Shapes
    BY DEF Inv
  <2>2. QED
    BY <1>1, <2>1, FrameMoved
<1> HIDE DEF g
<1>5. Known(g, spooled[r][k])
  BY <1>1, <1>2, <1>3 DEF Known, Holding
<1>6. /\ meta' \in [Urls -> Versions] /\ meta'[f.url] = f.etag
      /\ \A u \in Urls \ {f.url} : meta'[u] = meta[u]
  BY <1>1, <1>2 DEF Inv, Shapes
<1>7. Shapes' /\ Coherence'
  <2>1. /\ body' \in [Urls -> Versions] /\ session' \in {"new", "open", "broken"}
        /\ overlapped' \subseteq Urls
    BY <1>1 DEF Inv, Shapes
  <2>2. spooled' = [spooled EXCEPT ![r][k] = spooled[r][k]]
    <3>1. Shapes /\ UNCHANGED spooled
      BY <1>1 DEF Inv
    <3>2. QED
      BY <3>1, SameSpooled
  <2>3. UNCHANGED <<site, policy, ask, request, cookieFile, aborted>>
    BY <1>1
  <2>4. g.step \in Holding /\ g.step \notin {"idle", "decide"}
    BY <1>3 DEF Holding
  <2>5. Shapes /\ Coherence /\ f.step \notin {"idle", "decide"}
    BY <1>1 DEF Inv
  <2>6. g.step \notin {"idle", "decide"} /\ (spooled[r][k] => g.step \in Holding)
    BY <2>4
  <2>7. QED
    BY <1>2, <1>3, <1>4, <1>5, <1>6, <2>1, <2>2, <2>3, <2>5, <2>6, FetchMoves
<1>8. LoadsCoherent'
  BY <1>1, LoadsStay DEF Inv
<1>9. CacheCoherent'
  <2> SUFFICES ASSUME NEW u \in Urls \ overlapped' PROVE EntryCoherent(u)'
    BY DEF CacheCoherent
  <2>1. EntryCoherent(u)
    BY <1>1 DEF Inv, CacheCoherent
  <2>2. /\ frame'[r][k] = g
        /\ \A q \in Requests, l \in Kinds : \/ q = r /\ l = k
                                            \/ frame'[q][l] = frame[q][l]
    BY <1>3, <1>4, OneFetch, ZenonT(60) DEF Inv
  <2>3. CASE f.url # u
    <3>1. body'[u] = body[u] /\ meta'[u] = meta[u]
      BY <1>1, <1>6, <2>3
    <3>2. QED
      BY <1>3, <2>1, <2>2, <2>3, <3>1, EntryStays
  <2>4. CASE f.url = u
    <3>1. Writes(r, k, u)
      BY <1>1, <2>4 DEF Writes
    <3>2. /\ body[u] # 0 => body[u] = f.etag
          /\ \A q \in Requests, l \in Kinds : Writes(q, l, u) => q = r /\ l = k
      BY <2>1, <3>1 DEF EntryCoherent
    <3>3. \A q \in Requests, l \in Kinds : ~Relies(q, l, u)
      <4>1. Written(u)
        BY <3>1 DEF Written
      <4>2. QED
        BY <2>1, <4>1 DEF EntryCoherent
    <3>4. ASSUME NEW q \in Requests, NEW l \in Kinds
          PROVE  ~Writes(q, l, u)' /\ ~Relies(q, l, u)'
      <4>1. CASE q = r /\ l = k
        BY <1>3, <2>2, <4>1 DEF Writes, Relies
      <4>2. CASE ~(q = r /\ l = k)
        <5>1. frame'[q][l] = frame[q][l]
          BY <2>2, <4>2
        <5>2. ~Writes(q, l, u) /\ ~Relies(q, l, u)
          BY <3>2, <3>3, <4>2
        <5>3. QED
          BY <5>1, <5>2 DEF Writes, Relies
      <4>3. QED
        BY <4>1, <4>2
    <3>5. body'[u] # 0 => body'[u] = meta'[u]
      BY <1>1, <1>6, <2>4, <3>2
    <3> HIDE DEF Writes, Relies
    <3>6. QED
      BY <3>4, <3>5 DEF EntryCoherent
  <2>5. QED
    BY <2>3, <2>4
<1>10. RevalidatedBody'
  BY <1>1, RevalidatedStays DEF Inv
<1>11. QED
  BY <1>7, <1>8, <1>9, <1>10 DEF Inv

-----------------------------------------------------------------------------
(* The steps of a request.                                                 *)

(* One request goes on; others that waited for it may have been answered.  *)
LEMMA RequestTurns ==
    ASSUME Inv, NEW r \in Requests,
           request' \in [Requests -> Request], ask' \in [Requests -> Ask],
           frame' \in [Requests -> [Kinds -> Frame]], spooled' \in [Requests -> [Kinds -> BOOLEAN]],
           policy' \in [Origins -> Policy],
           UNCHANGED <<site, cache, session, cookieFile, aborted, served>>,
           \A q \in Requests \ {r} :
              /\ request'[q] = request[q] /\ frame'[q] = frame[q] /\ spooled'[q] = spooled[q]
              /\ \/ ask'[q] = ask[q]
                 \/ ask[q].step = "wait" /\ ask'[q].step \in {"got", "rejected"},
           Coherent(request'[r], ask'[r], frame'[r], spooled'[r]),
           \A k \in Kinds : Alike(frame[r][k], frame'[r][k]),
           LoadsCoherent'
    PROVE  Inv'
<1>1. UNCHANGED <<meta, body, overlapped>>
  BY DEF cache
<1>2. Shapes'
  BY <1>1 DEF Inv, Shapes, site
<1>3. Coherence'
  BY OneCoherent DEF Inv
<1>4. CacheCoherent'
  <2>1. ASSUME NEW q \in Requests, NEW l \in Kinds
        PROVE  Alike(frame[q][l], frame'[q][l])
    <3>1. CASE q = r
      BY <3>1
    <3>2. CASE q # r
      BY <3>2 DEF Alike
    <3>3. QED
      BY <3>1, <3>2
  <2>2. QED
    BY <1>1, <2>1, CacheStays DEF Inv
<1>5. RevalidatedBody'
  BY <1>1, RevalidatedStays DEF Inv
<1>6. QED
  BY <1>2, <1>3, <1>4, <1>5 DEF Inv

(* A request asks for one policy, or fetches, never both at once.          *)
LEMMA OneAtATime ==
    ASSUME Inv, NEW r \in Requests
    PROVE  /\ Coherent(request[r], ask[r], frame[r], spooled[r])
           /\ request[r] \in Request /\ ask[r] \in Ask
           /\ frame[r] \in [Kinds -> Frame] /\ spooled[r] \in [Kinds -> BOOLEAN]
           /\ \A k \in Kinds : frame[r][k] \in Frame /\ spooled[r][k] \in BOOLEAN
           /\ frame[r]["robots"].step # "idle" => frame[r]["main"].step \in {"idle", "decide"}
           /\ ask[r].step # "load" => frame[r]["robots"] = Idle /\ spooled[r]["robots"] = FALSE
           /\ ask[r].step = "load" => frame[r]["robots"].step # "idle"
           /\ frame[r]["main"].step = "idle" => frame[r]["main"] = Idle
           /\ frame[r]["main"].step = "idle" /\ request[r].step \in {"attempt", "fetch"}
                 => spooled[r]["main"] = FALSE
           /\ request[r].step # "fetch" => frame[r]["main"] = Idle /\ ask[r] = NoAsk
<1>1. Coherent(request[r], ask[r], frame[r], spooled[r])
  BY DEF Inv, Coherence
<1>2. /\ request[r] \in Request /\ ask[r] \in Ask
      /\ frame[r] \in [Kinds -> Frame] /\ spooled[r] \in [Kinds -> BOOLEAN]
  BY DEF Inv, Shapes
<1>3. \A k \in Kinds : frame[r][k] \in Frame /\ spooled[r][k] \in BOOLEAN
  BY <1>2
<1>4. \A k \in Kinds : frame[r][k].step = "idle" => frame[r][k] = Idle
  BY <1>3, FrameShapes
<1>5. ask[r].step = "none" => ask[r] = NoAsk
  BY <1>2, AskShapes
<1>6. \A k \in Kinds : spooled[r][k] \in BOOLEAN
  BY <1>3
<1>7. "main" \in Kinds /\ "robots" \in Kinds
  BY DEF Kinds
<1> HIDE DEF Frame, Idle, NoAsk
<1>8. ask[r].step # "load" => frame[r]["robots"] = Idle /\ spooled[r]["robots"] = FALSE
  BY <1>1, <1>4, <1>6, <1>7 DEF Coherent, Holding
<1>9. frame[r]["main"].step = "idle" /\ request[r].step \in {"attempt", "fetch"}
         => spooled[r]["main"] = FALSE
  BY <1>1, <1>6, <1>7 DEF Coherent, Holding
<1>10. request[r].step # "fetch" => frame[r]["main"] = Idle /\ ask[r] = NoAsk
  BY <1>1, <1>4, <1>5, <1>7 DEF Coherent
<1>11. QED
  BY <1>1, <1>2, <1>3, <1>4, <1>7, <1>8, <1>9, <1>10 DEF Coherent

(* The loop of redirects goes on, or has had its last round.               *)
LEMMA FollowingFrame ==
    ASSUME Inv, NEW r \in Requests, NEW k \in Kinds, Following(r, k),
           frame[r][k].step \in {"settle", "decide"}, frame[r][k].result = "redirect"
    PROVE  \E g \in Frame : /\ frame' = [frame EXCEPT ![r][k] = g]
                            /\ g.step \in {"prepare", "done"} /\ Known(g, FALSE)
<1> DEFINE f == frame[r][k]
           next == [step |-> "prepare", url |-> Hop(r, k), visited |-> f.visited \cup {Hop(r, k)}]
           over == [step |-> "done", result |-> "error"]
           g == IF Cardinality(f.visited) <= MaxRedirects THEN next ELSE over
<1>1. f \in Frame /\ Known(f, spooled[r][k]) /\ f.url \in Urls /\ f.visited \in Trails
  BY OnTheWay, FrameShapes DEF Inv
<1>2. Hop(r, k) \in Urls
  BY <1>1, FetchingAssumption DEF Hop, Entry, Known
<1>3. frame' = [frame EXCEPT ![r][k] = g]
  <2>1. frame \in [Requests -> [Kinds -> Frame]]
    BY DEF Inv, Shapes
  <2>2. QED
    BY <2>1 DEF Following
<1>4. CASE Cardinality(f.visited) <= MaxRedirects
  <2>1. f.visited \cup {Hop(r, k)} \in Trails
    BY <1>1, <1>2, <1>4, TrailsGrow
  <2>2. next \in Frame
    BY <1>2, <2>1, FramesBuilt
  <2>3. Known(next, FALSE) /\ next.step = "prepare"
    BY DEF Known
  <2> HIDE DEF next
  <2>4. QED
    BY <1>3, <1>4, <2>2, <2>3
<1>5. CASE ~(Cardinality(f.visited) <= MaxRedirects)
  <2>1. over \in Frame
    BY FramesBuilt DEF Results
  <2>2. Known(over, FALSE) /\ over.step = "done"
    BY DEF Known
  <2> HIDE DEF over
  <2>3. QED
    BY <1>3, <1>5, <2>1, <2>2
<1>6. QED
  BY <1>4, <1>5

(* The same facts about what a request asks and fetches next.              *)
LEMMA AskKeeps ==
    ASSUME Inv, NEW r \in Requests, NEW a \in Ask, ask' = [ask EXCEPT ![r] = a],
           UNCHANGED policy, a.step \notin {"reload", "load"}
    PROVE  /\ ask' \in [Requests -> Ask] /\ ask'[r] = a
           /\ \A q \in Requests \ {r} : ask'[q] = ask[q]
           /\ LoadsCoherent'
<1>1. /\ ask' \in [Requests -> Ask] /\ ask'[r] = a
      /\ \A q \in Requests \ {r} : ask'[q] = ask[q]
  BY AskReplaced DEF Inv
<1>2. \A q \in Requests : ask'[q] = ask[q] \/ ask'[q].step \notin {"reload", "load"}
  BY <1>1
<1>3. LoadsCoherent'
  BY <1>2, LoadsStay DEF Inv
<1>4. QED
  BY <1>1, <1>3

LEMMA RedirectInv ==
    ASSUME Inv, NEW r \in Requests, NEW k \in Kinds, Redirect(r, k)
    PROVE  Inv'
<1> DEFINE f == frame[r][k]
<1>1. /\ f.step = "settle" /\ f.result = "redirect"
      /\ UNCHANGED <<site, cache, policy, request, session, cookieFile, aborted, served>>
  BY DEF Redirect, Entry
<1>2. f \in Frame /\ Known(f, spooled[r][k]) /\ f.url \in Urls /\ spooled[r][k] \in BOOLEAN
  BY <1>1, OnTheWay, FrameShapes DEF Inv
<1>3. CASE k = "main"
  <2> DEFINE g == [f EXCEPT !.step = "decide"]
             a == [step |-> "get", origin |-> OriginOf[Hop(r, k)]]
  <2>1. /\ g \in Frame /\ g.step = "decide" /\ g.url = f.url /\ g.visited = f.visited
        /\ g.result = "redirect"
    BY <1>1, <1>2, FrameTurns
  <2>2. Moves(r, k, "decide") /\ ask' = [ask EXCEPT ![r] = a] /\ UNCHANGED spooled
    BY <1>3 DEF Redirect
  <2>3. a \in Ask /\ a.step = "get"
    <3>1. OriginOf[Hop(r, k)] \in Origins
      BY <1>1, <1>2, FetchingAssumption DEF Hop, Entry, Known
    <3>2. QED
      BY <3>1, AsksBuilt
  <2>4. frame' = [frame EXCEPT ![r][k] = g]
    <3>1. Shapes
      BY DEF Inv
    <3>2. QED
      BY <2>2, <3>1, FrameMoved
  <2> HIDE DEF g, a
  <2>5. /\ frame' \in [Requests -> [Kinds -> Frame]] /\ frame'[r][k] = g
        /\ \A l \in Kinds \ {k} : frame'[r][l] = frame[r][l]
        /\ \A q \in Requests \ {r} : frame'[q] = frame[q]
    BY <2>1, <2>4, FrameReplaced DEF Inv
  <2>6. /\ ask' \in [Requests -> Ask] /\ ask'[r] = a
        /\ \A q \in Requests \ {r} : ask'[q] = ask[q]
        /\ LoadsCoherent'
    BY <1>1, <2>2, <2>3, AskKeeps
  <2>7. Coherent(request[r], ask[r], frame[r], spooled[r])
    BY OneAtATime
  <2>8. Known(g, spooled[r][k])
    BY <1>1, <1>2, <2>1 DEF Known, Holding
  <2>9. Coherent(request'[r], ask'[r], frame'[r], spooled'[r])
    <3>1. request'[r] = request[r] /\ spooled'[r] = spooled[r]
      BY <1>1, <2>2
    <3>2. \A l \in Kinds : Known(frame'[r][l], spooled[r][l])
      BY <2>5, <2>7, <2>8 DEF Coherent
    <3>3. frame'[r]["main"] = g /\ frame'[r]["robots"] = frame[r]["robots"]
      BY <1>3, <2>5 DEF Kinds
    <3>4. frame[r]["main"].step = "settle" /\ ask'[r].step = "get" /\ g.step = "decide"
      BY <1>1, <1>3, <2>1, <2>3, <2>6
    <3>5. request[r].step = "fetch" /\ frame[r]["robots"].step = "idle"
      BY <2>7, <3>4 DEF Coherent
    <3>6. QED
      BY <2>7, <3>1, <3>2, <3>3, <3>4, <3>5 DEF Coherent, Holding
  <2>10. \A l \in Kinds : Alike(frame[r][l], frame'[r][l])
    BY <1>1, <2>1, <2>5 DEF Alike
  <2>11. /\ request' \in [Requests -> Request] /\ spooled' \in [Requests -> [Kinds -> BOOLEAN]]
         /\ policy' \in [Origins -> Policy]
         /\ \A q \in Requests \ {r} : request'[q] = request[q] /\ spooled'[q] = spooled[q]
    BY <1>1, <2>2 DEF Inv, Shapes
  <2>12. QED
    BY <1>1, <2>5, <2>6, <2>9, <2>10, <2>11, RequestTurns
<1>4. CASE k # "main"
  <2>1. Following(r, k) /\ Disposed(r, k) /\ UNCHANGED ask
    BY <1>4 DEF Redirect
  <2>2. PICK g \in Frame : /\ frame' = [frame EXCEPT ![r][k] = g]
                           /\ g.step \in {"prepare", "done"} /\ Known(g, FALSE)
    BY <1>1, <2>1, FollowingFrame
  <2>3. spooled'[r][k] = FALSE
    BY <2>1, SpooledReplaced DEF Inv, Disposed
  <2>4. RevalidatedBody'
    BY <1>1, RevalidatedStays DEF Inv, cache
  <2>5. \A b \in {FALSE, spooled'[r][k]} : Known(g, b)
    BY <2>2, <2>3
  <2>6. g.step \in {"settle", "done"} \/ (g.step = "prepare" /\ Disposed(r, k))
    BY <2>1, <2>2
  <2>7. QED
    BY <1>1, <2>1, <2>2, <2>4, <2>5, <2>6, TurnInv
<1>5. QED
  BY <1>3, <1>4

(* Nothing of a fetch.                                                     *)
LEMMA NothingKnown == \A b \in BOOLEAN : Known(Idle, b)
  BY DEF Known, Idle, Holding

LEMMA AttemptInv ==
    ASSUME Inv, NEW r \in Requests, Attempt(r)
    PROVE  Inv'
<1>1. /\ request[r].step = "attempt"
      /\ UNCHANGED <<site, cache, policy, spooled, session, cookieFile, aborted, served>>
  BY DEF Attempt
<1>2. /\ frame[r]["main"] = Idle /\ frame[r]["robots"] = Idle /\ ask[r] = NoAsk
      /\ spooled[r]["main"] = FALSE /\ spooled[r]["robots"] = FALSE
      /\ request[r] \in Request
  <2>1. request[r].step # "fetch"
    BY <1>1
  <2>2. frame[r]["main"] = Idle /\ ask[r] = NoAsk /\ request[r] \in Request
    BY <2>1, OneAtATime
  <2>3. ask[r].step # "load" /\ frame[r]["main"].step = "idle"
    BY <2>2 DEF Idle, NoAsk
  <2>4. frame[r]["robots"] = Idle /\ spooled[r]["robots"] = FALSE
    BY <2>3, OneAtATime
  <2>5. spooled[r]["main"] = FALSE
    BY <1>1, <2>3, OneAtATime
  <2>6. QED
    BY <2>2, <2>4, <2>5
<1>3. /\ request \in [Requests -> Request] /\ ask \in [Requests -> Ask]
      /\ frame \in [Requests -> [Kinds -> Frame]] /\ spooled \in [Requests -> [Kinds -> BOOLEAN]]
      /\ spooled' = spooled /\ policy' = policy /\ policy \in [Origins -> Policy]
  BY <1>1 DEF Inv, Shapes
<1>4. CASE \E s \in {"cancelled", "skipped"} : End(r, s) /\ UNCHANGED <<ask, frame>>
  <2>1. PICK s \in {"cancelled", "skipped"} : End(r, s) /\ UNCHANGED <<ask, frame>>
    BY <1>4
  <2> DEFINE q == [request[r] EXCEPT !.step = s]
  <2>2. q \in Request /\ q.step = s
    <3>1. s \in Ended
      BY DEF Ended
    <3>2. \A x \in Ended : /\ [request[r] EXCEPT !.step = x] \in Request
                           /\ [request[r] EXCEPT !.step = x].step = x
      BY <1>2, RequestShapes
    <3>3. QED
      BY <3>1, <3>2
  <2>3. request' = [request EXCEPT ![r] = q]
    BY <2>1, Ending DEF Inv
  <2> HIDE DEF q
  <2>4. /\ request' \in [Requests -> Request] /\ request'[r] = q
        /\ \A p \in Requests \ {r} : request'[p] = request[p]
    BY <2>2, <2>3, RequestReplaced DEF Inv
  <2>5. Coherent(request'[r], ask'[r], frame'[r], spooled'[r])
    <3>1. ask'[r] = NoAsk /\ frame'[r] = frame[r] /\ spooled'[r] = spooled[r] /\ q.step # "fetch"
      BY <1>2, <1>3, <2>1, <2>2
    <3>2. \A k \in Kinds : Known(frame[r][k], spooled[r][k])
      BY <1>2, NothingKnown DEF Kinds
    <3>3. QED
      BY <1>2, <2>4, <3>1, <3>2 DEF Coherent, Idle, NoAsk
  <2>6. LoadsCoherent'
    BY <1>3, <2>1, LoadsStay DEF Inv
  <2>7. \A k \in Kinds : Alike(frame[r][k], frame'[r][k])
    BY <2>1 DEF Alike
  <2>8. /\ ask' \in [Requests -> Ask] /\ frame' \in [Requests -> [Kinds -> Frame]]
        /\ spooled' \in [Requests -> [Kinds -> BOOLEAN]] /\ policy' \in [Origins -> Policy]
        /\ \A p \in Requests \ {r} : /\ frame'[p] = frame[p] /\ spooled'[p] = spooled[p]
                                     /\ ask'[p] = ask[p]
    BY <1>3, <2>1
  <2>9. QED
    BY <1>1, <2>4, <2>5, <2>6, <2>7, <2>8, RequestTurns
<1> DEFINE q == [request[r] EXCEPT !.step = "fetch"]
<1>5. CASE End(r, "fetch") /\ Returns(r, "main", "retryable") /\ UNCHANGED ask
  <2> DEFINE g == [step |-> "done", result |-> "retryable"]
  <2>1. q \in Request /\ q.step = "fetch"
    BY <1>1, <1>2, RequestShapes
  <2>2. request' = [request EXCEPT ![r] = q]
    BY <1>5, Ending DEF Inv
  <2>3. g \in Frame /\ g.step = "done" /\ Known(g, FALSE)
    BY FramesBuilt DEF Known, Results
  <2>4. frame' = [frame EXCEPT ![r]["main"] = g]
    BY <1>5 DEF Returns
  <2> HIDE DEF q, g
  <2>5. /\ request' \in [Requests -> Request] /\ request'[r] = q
        /\ \A p \in Requests \ {r} : request'[p] = request[p]
    BY <2>1, <2>2, RequestReplaced DEF Inv
  <2>6. /\ frame' \in [Requests -> [Kinds -> Frame]] /\ frame'[r]["main"] = g
        /\ frame'[r]["robots"] = Idle
        /\ \A p \in Requests \ {r} : frame'[p] = frame[p]
    BY <1>2, <2>3, <2>4, FrameReplaced DEF Inv, Kinds
  <2>7. Coherent(request'[r], ask'[r], frame'[r], spooled'[r])
    <3>1. ask'[r] = NoAsk /\ spooled'[r]["main"] = FALSE /\ spooled'[r]["robots"] = FALSE
      BY <1>2, <1>3, <1>5
    <3>2. \A k \in Kinds : Known(frame'[r][k], spooled'[r][k])
      BY <2>3, <2>6, <3>1, NothingKnown DEF Kinds
    <3>3. QED
      BY <2>1, <2>3, <2>5, <2>6, <3>1, <3>2 DEF Coherent, Idle, NoAsk
  <2>8. LoadsCoherent'
    BY <1>3, <1>5, LoadsStay DEF Inv
  <2>9. \A k \in Kinds : Alike(frame[r][k], frame'[r][k])
    BY <1>2, <2>3, <2>6 DEF Alike, Kinds, Idle
  <2>10. /\ ask' \in [Requests -> Ask]
         /\ spooled' \in [Requests -> [Kinds -> BOOLEAN]] /\ policy' \in [Origins -> Policy]
         /\ \A p \in Requests \ {r} : spooled'[p] = spooled[p] /\ ask'[p] = ask[p]
    BY <1>3, <1>5
  <2>11. QED
    BY <1>1, <2>5, <2>6, <2>7, <2>8, <2>9, <2>10, RequestTurns
<1>6. CASE End(r, "fetch") /\ UNCHANGED frame
           /\ ask' = [ask EXCEPT ![r] = [step |-> "get", origin |-> OriginOf[Start[r]]]]
  <2> DEFINE a == [step |-> "get", origin |-> OriginOf[Start[r]]]
  <2>1. q \in Request /\ q.step = "fetch"
    BY <1>1, <1>2, RequestShapes
  <2>2. request' = [request EXCEPT ![r] = q]
    BY <1>6, Ending DEF Inv
  <2>3. a \in Ask /\ a.step = "get"
    BY AsksBuilt, FetchingAssumption
  <2>4. ask' = [ask EXCEPT ![r] = a]
    BY <1>6
  <2> HIDE DEF q, a
  <2>5. /\ request' \in [Requests -> Request] /\ request'[r] = q
        /\ \A p \in Requests \ {r} : request'[p] = request[p]
    BY <2>1, <2>2, RequestReplaced DEF Inv
  <2>6. /\ ask' \in [Requests -> Ask] /\ ask'[r] = a
        /\ \A p \in Requests \ {r} : ask'[p] = ask[p]
        /\ LoadsCoherent'
    BY <1>1, <2>3, <2>4, AskKeeps
  <2>7. Coherent(request'[r], ask'[r], frame'[r], spooled'[r])
    <3>1. frame'[r] = frame[r] /\ spooled'[r] = spooled[r]
      BY <1>3, <1>6
    <3>2. \A k \in Kinds : Known(frame[r][k], spooled[r][k])
      BY <1>2, NothingKnown DEF Kinds
    <3>3. QED
      BY <1>2, <2>1, <2>3, <2>5, <2>6, <3>1, <3>2 DEF Coherent, Idle
  <2>8. \A k \in Kinds : Alike(frame[r][k], frame'[r][k])
    BY <1>6 DEF Alike
  <2>9. /\ frame' \in [Requests -> [Kinds -> Frame]]
        /\ spooled' \in [Requests -> [Kinds -> BOOLEAN]] /\ policy' \in [Origins -> Policy]
        /\ \A p \in Requests \ {r} : spooled'[p] = spooled[p] /\ frame'[p] = frame[p]
    BY <1>3, <1>6
  <2>10. QED
    BY <1>1, <2>5, <2>6, <2>7, <2>8, <2>9, RequestTurns
<1>7. QED
  BY <1>4, <1>5, <1>6 DEF Attempt

(* A policy is loaded: by who found none, or by who found one expired.     *)
LEMMA LoadsInv ==
    ASSUME Inv, NEW r \in Requests, NEW o \in Origins, NEW stale \in Expired \cup {NoPolicy},
           ask[r].origin = o, Loads(r, o, stale),
           \/ ask[r].step = "get" /\ policy[o].state = "none"
           \/ ask[r].step = "reload" /\ stale \in Expired,
           UNCHANGED <<site, cache, request, spooled, session, cookieFile, aborted, served>>
    PROVE  Inv'
<1> DEFINE a == [step |-> "load", origin |-> o, stale |-> stale]
           p == [state |-> "pending", loader |-> r]
           u == RobotsTxt[o]
           start == [step |-> "prepare", url |-> u, visited |-> {u}]
           over == [step |-> "done", result |-> "error"]
           g == IF Safe(u) THEN start ELSE over
<1>1. a \in Ask /\ a.step = "load" /\ a.origin = o /\ a.stale = stale
  BY AsksBuilt
<1>2. p \in Policy /\ p.state = "pending" /\ p.loader = r
  BY DEF Policy
<1>3. g \in Frame /\ g.step \in {"prepare", "done"} /\ Known(g, FALSE)
  <2>1. u \in Urls
    BY FetchingAssumption
  <2>2. start \in Frame
    BY <2>1, FramesBuilt, TrailsGrow
  <2>3. over \in Frame
    BY FramesBuilt DEF Results
  <2>4. Known(start, FALSE) /\ Known(over, FALSE)
    BY DEF Known
  <2>5. QED
    BY <2>2, <2>3, <2>4
<1>4. ask' = [ask EXCEPT ![r] = a] /\ policy' = [policy EXCEPT ![o] = p]
  BY DEF Loads
<1>5. frame' = [frame EXCEPT ![r]["robots"] = g]
  BY DEF Loads, Starts, Returns
<1>6. /\ ask[r].step \in {"get", "reload"}
      /\ frame[r]["robots"] = Idle /\ spooled[r]["robots"] = FALSE
      /\ Coherent(request[r], ask[r], frame[r], spooled[r])
  <2>1. ask[r].step # "load"
    OBVIOUS
  <2>2. QED
    BY <2>1, OneAtATime
<1> HIDE DEF a, p, g, Idle, NoPolicy, Expired
<1>7. /\ ask' \in [Requests -> Ask] /\ ask'[r] = a
      /\ \A q \in Requests \ {r} : ask'[q] = ask[q]
  BY <1>1, <1>4, AskReplaced DEF Inv
<1>8. /\ policy' \in [Origins -> Policy] /\ policy'[o] = p
      /\ \A x \in Origins \ {o} : policy'[x] = policy[x]
  BY <1>2, <1>4 DEF Inv, Shapes
<1>9. /\ frame' \in [Requests -> [Kinds -> Frame]] /\ frame'[r]["robots"] = g
      /\ frame'[r]["main"] = frame[r]["main"]
      /\ \A q \in Requests \ {r} : frame'[q] = frame[q]
  BY <1>3, <1>5, FrameReplaced DEF Inv, Kinds
<1>10. Coherent(request'[r], ask'[r], frame'[r], spooled'[r])
  <2>1. request'[r] = request[r] /\ spooled'[r] = spooled[r]
    OBVIOUS
  <2>2. \A k \in Kinds : Known(frame'[r][k], spooled[r][k])
    BY <1>3, <1>6, <1>9 DEF Coherent, Kinds
  <2>3. QED
    BY <1>1, <1>3, <1>6, <1>7, <1>9, <2>1, <2>2 DEF Coherent
<1>11. LoadsCoherent'
  <2>1. \A q \in Requests \ {r}, x \in Origins : /\ Reloads(q, x)' <=> Reloads(q, x)
                                                 /\ FirstLoad(q, x)' <=> FirstLoad(q, x)
    BY <1>7 DEF Reloads, FirstLoad
  <2>2. \A x \in Origins : /\ Reloads(r, x)' <=> x = o
                           /\ FirstLoad(r, x)' <=> x = o /\ stale = NoPolicy
    BY <1>1, <1>7 DEF Reloads, FirstLoad
  <2>3. \/ policy[o].state = "none"
        \/ Reloads(r, o) /\ stale # NoPolicy
    <3>1. \A y \in Expired : y # NoPolicy
      BY DEF Expired, NoPolicy
    <3>2. QED
      BY <3>1 DEF Reloads
  <2>4. /\ \A q \in Requests, x \in Origins : Reloads(q, x) => policy[x].state # "none"
        /\ \A q \in Requests, x \in Origins : FirstLoad(q, x) =>
              /\ policy[x].state = "pending"
              /\ policy[x] = [state |-> "pending", loader |-> q]
              /\ \A m \in Requests \ {q} : ~Reloads(m, x)
    BY DEF Inv, LoadsCoherent
  <2> HIDE DEF Reloads, FirstLoad
  <2>5. ASSUME NEW q \in Requests, NEW x \in Origins, Reloads(q, x)'
        PROVE  policy'[x].state # "none"
    <3>1. CASE x = o
      BY <1>2, <1>8, <3>1
    <3>2. CASE x # o
      BY <1>8, <2>1, <2>2, <2>4, <2>5, <3>2
    <3>3. QED
      BY <3>1, <3>2
  <2>6. ASSUME NEW q \in Requests, NEW x \in Origins, FirstLoad(q, x)'
        PROVE  /\ policy'[x] = [state |-> "pending", loader |-> q]
               /\ \A m \in Requests \ {q} : ~Reloads(m, x)'
    <3>1. CASE q = r
      <4>1. x = o /\ stale = NoPolicy
        BY <2>2, <2>6, <3>1
      <4>2. policy[o].state = "none"
        BY <2>3, <4>1
      <4>3. \A m \in Requests \ {r} : ~Reloads(m, o)
        BY <2>4, <4>2
      <4>4. policy'[x] = [state |-> "pending", loader |-> q]
        BY <1>8, <3>1, <4>1 DEF p
      <4>5. QED
        BY <2>1, <3>1, <4>1, <4>3, <4>4
    <3>2. CASE q # r
      <4>1. FirstLoad(q, x)
        BY <2>1, <2>6, <3>2
      <4>2. x # o
        <5>1. policy[x].state = "pending" /\ ~Reloads(r, x)
          BY <2>4, <3>2, <4>1
        <5>2. policy[x].state # "none"
          BY <5>1
        <5>3. QED
          BY <2>3, <5>1, <5>2
      <4>3. policy'[x] = [state |-> "pending", loader |-> q]
        BY <1>8, <2>4, <4>1, <4>2
      <4>4. \A m \in Requests \ {q} : ~Reloads(m, x)'
        BY <2>1, <2>2, <2>4, <4>1, <4>2
      <4>5. QED
        BY <4>3, <4>4
    <3>3. QED
      BY <3>1, <3>2
  <2>7. QED
    BY <2>5, <2>6 DEF LoadsCoherent
<1>12. \A k \in Kinds : Alike(frame[r][k], frame'[r][k])
  <2>1. Idle.step = "idle"
    BY DEF Idle
  <2>2. QED
    BY <1>3, <1>6, <1>9, <2>1 DEF Alike, Kinds
<1>13. /\ request' \in [Requests -> Request] /\ spooled' \in [Requests -> [Kinds -> BOOLEAN]]
       /\ \A q \in Requests \ {r} : request'[q] = request[q] /\ spooled'[q] = spooled[q]
  BY DEF Inv, Shapes
<1>14. QED
  BY <1>7, <1>8, <1>9, <1>10, <1>11, <1>12, <1>13, RequestTurns

LEMMA LookupInv ==
    ASSUME Inv, NEW r \in Requests, Lookup(r)
    PROVE  Inv'
<1> DEFINE o == ask[r].origin
           found == policy[o]
<1>1. /\ ask[r].step = "get"
      /\ UNCHANGED <<site, cache, request, spooled, session, cookieFile, aborted, served>>
  BY DEF Lookup
<1>2. /\ ask[r] \in Ask /\ Coherent(request[r], ask[r], frame[r], spooled[r])
      /\ frame[r]["robots"].step = "idle" /\ o \in Origins /\ found \in Policy
  BY <1>1, OneAtATime, AskShapes DEF Coherent, Inv, Shapes
<1>3. CASE found.state = "none"
  <2>1. Loads(r, o, NoPolicy)
    BY <1>3 DEF Lookup
  <2>2. QED
    BY <1>1, <1>2, <1>3, <2>1, LoadsInv
<1>4. ASSUME NEW a \in Ask, ask' = [ask EXCEPT ![r] = a], UNCHANGED <<policy, frame>>,
             a.step \notin {"none", "load"},
             a.step = "reload" => a.origin = o /\ found.state = "ready"
      PROVE  Inv'
  <2>1. /\ ask' \in [Requests -> Ask] /\ ask'[r] = a
        /\ \A q \in Requests \ {r} : ask'[q] = ask[q]
    BY <1>4, AskReplaced DEF Inv
  <2>2. Coherent(request'[r], ask'[r], frame'[r], spooled'[r])
    <3>1. request'[r] = request[r] /\ spooled'[r] = spooled[r] /\ frame'[r] = frame[r]
      BY <1>1, <1>4
    <3>2. QED
      BY <1>1, <1>2, <1>4, <2>1, <3>1 DEF Coherent
  <2>3. LoadsCoherent'
    <3>1. \A q \in Requests, x \in Origins : /\ FirstLoad(q, x)' => FirstLoad(q, x) /\ q # r
                                             /\ Reloads(q, x)' => Reloads(q, x) \/ (x = o /\ q = r /\ found.state = "ready")
      BY <1>1, <1>4, <2>1 DEF FirstLoad, Reloads
    <3>2. \A q \in Requests, x \in Origins : Reloads(q, x) => policy[x].state # "none"
      BY DEF Inv, LoadsCoherent
    <3>3. \A q \in Requests, x \in Origins : FirstLoad(q, x) =>
              /\ policy[x].state = "pending"
              /\ policy[x] = [state |-> "pending", loader |-> q]
              /\ \A m \in Requests \ {q} : ~Reloads(m, x)
      BY DEF Inv, LoadsCoherent
    <3>4. policy' = policy
      BY <1>4
    <3> HIDE DEF FirstLoad, Reloads
    <3>5. QED
      BY <3>1, <3>2, <3>3, <3>4 DEF LoadsCoherent
  <2>4. \A k \in Kinds : Alike(frame[r][k], frame'[r][k])
    BY <1>4 DEF Alike
  <2>5. /\ request' \in [Requests -> Request] /\ spooled' \in [Requests -> [Kinds -> BOOLEAN]]
        /\ frame' \in [Requests -> [Kinds -> Frame]] /\ policy' \in [Origins -> Policy]
        /\ \A q \in Requests \ {r} : /\ request'[q] = request[q] /\ spooled'[q] = spooled[q]
                                     /\ frame'[q] = frame[q]
    BY <1>1, <1>4 DEF Inv, Shapes
  <2>6. QED
    BY <1>1, <2>1, <2>2, <2>3, <2>4, <2>5, RequestTurns
<1>5. CASE found.state = "pending"
  <2> DEFINE a == [step |-> "wait", origin |-> o, loader |-> found.loader]
  <2>1. ask' = [ask EXCEPT ![r] = a] /\ UNCHANGED <<policy, frame>>
    BY <1>5 DEF Lookup
  <2>2. a \in Ask /\ a.step = "wait"
    BY <1>2, <1>5, PolicyShapes, AsksBuilt
  <2> HIDE DEF a
  <2>3. QED
    BY <1>4, <2>1, <2>2
<1>6. CASE found.state = "rejected"
  <2> DEFINE a == [step |-> "rejected", origin |-> o]
  <2>1. ask' = [ask EXCEPT ![r] = a] /\ UNCHANGED <<policy, frame>>
    BY <1>6 DEF Lookup
  <2>2. a \in Ask /\ a.step = "rejected"
    BY <1>2, AsksBuilt
  <2> HIDE DEF a
  <2>3. QED
    BY <1>4, <2>1, <2>2
<1>7. CASE found.state = "ready" /\ found.fresh
  <2> DEFINE a == [step |-> "got", origin |-> o, says |-> found.says]
  <2>1. ask' = [ask EXCEPT ![r] = a] /\ UNCHANGED <<policy, frame>>
    BY <1>7 DEF Lookup
  <2>2. a \in Ask /\ a.step = "got"
    BY <1>2, <1>7, PolicyShapes, AsksBuilt
  <2> HIDE DEF a
  <2>3. QED
    BY <1>4, <2>1, <2>2
<1>8. CASE found.state = "ready" /\ ~found.fresh
  <2> DEFINE a == [step |-> "reload", origin |-> o, stale |-> found]
  <2>1. ask' = [ask EXCEPT ![r] = a] /\ UNCHANGED <<policy, frame>>
    BY <1>8 DEF Lookup
  <2>2. a \in Ask /\ a.step = "reload" /\ a.origin = o
    BY <1>2, <1>8, PolicyShapes, AsksBuilt
  <2> HIDE DEF a
  <2>3. QED
    BY <1>4, <1>8, <2>1, <2>2
<1>9. QED
  BY <1>2, <1>3, <1>5, <1>6, <1>7, <1>8, PolicyShapes

LEMMA ReloadInv ==
    ASSUME Inv, NEW r \in Requests, Reload(r)
    PROVE  Inv'
<1>1. /\ ask[r].step = "reload" /\ Loads(r, ask[r].origin, ask[r].stale)
      /\ UNCHANGED <<site, cache, request, spooled, session, cookieFile, aborted, served>>
  BY DEF Reload
<1>2. ask[r].stale \in Expired /\ ask[r].origin \in Origins
  BY <1>1, OneAtATime, AskShapes
<1>3. QED
  BY <1>1, <1>2, LoadsInv

LEMMA LoadEndsInv ==
    ASSUME Inv, NEW r \in Requests, LoadEnds(r)
    PROVE  Inv'
<1> DEFINE o == ask[r].origin
           got == [step |-> "got", origin |-> o, says |-> Loaded(r)]
           ready == [state |-> "ready", says |-> Loaded(r), fresh |-> TRUE]
           mine == [state |-> "pending", loader |-> r]
<1>1. /\ ask[r].step = "load" /\ frame[r]["robots"].step = "done"
      /\ policy' = [policy EXCEPT ![o] = IF @ = mine THEN ready ELSE @]
      /\ ask' = [q \in Requests |-> IF q = r \/ (ask[q].step = "wait" /\ ask[q].loader = r) THEN got ELSE ask[q]]
      /\ frame' = [frame EXCEPT ![r]["robots"] = Idle]
      /\ spooled' = [spooled EXCEPT ![r]["robots"] = FALSE]
      /\ UNCHANGED <<site, cache, request, session, cookieFile, aborted, served>>
  BY DEF LoadEnds, Disposed
<1>2. /\ Coherent(request[r], ask[r], frame[r], spooled[r])
      /\ ask \in [Requests -> Ask] /\ policy \in [Origins -> Policy]
      /\ ask[r] \in Ask
  BY OneAtATime DEF Inv, Shapes
<1>3. o \in Origins /\ ask[r].stale \in Expired \cup {NoPolicy}
  BY <1>1, <1>2, AskShapes
<1>4. Loaded(r) \in Says
  <2>1. robotsNow[o] \in Says
    BY <1>3 DEF Inv, Shapes, Says
  <2>2. ask[r].stale # NoPolicy => ask[r].stale.says \in Says
    BY <1>3 DEF Expired
  <2>3. Fallback \in Says
    BY DEF Says
  <2>4. QED
    BY <2>1, <2>2, <2>3 DEF Loaded
<1>5. got \in Ask /\ got.step = "got"
  BY <1>3, <1>4, AsksBuilt
<1>6. ready \in Policy /\ ready.state = "ready" /\ mine.state = "pending" /\ mine.loader = r
  BY <1>4 DEF Policy
<1> HIDE DEF got, ready, mine, Idle, NoPolicy, Expired
<1>7. /\ ask' \in [Requests -> Ask] /\ ask'[r] = got
      /\ \A q \in Requests \ {r} : \/ ask'[q] = ask[q]
                                   \/ ask[q].step = "wait" /\ ask'[q].step = "got"
  BY <1>1, <1>2, <1>5
<1>8. /\ policy' \in [Origins -> Policy]
      /\ \A x \in Origins : \/ policy'[x] = policy[x]
                            \/ policy[x] = mine /\ policy'[x] = ready
  BY <1>1, <1>2, <1>3, <1>6
<1>9. /\ frame' \in [Requests -> [Kinds -> Frame]] /\ frame'[r]["robots"] = Idle
      /\ frame'[r]["main"] = frame[r]["main"]
      /\ \A q \in Requests \ {r} : frame'[q] = frame[q]
  BY <1>1, FramesBuilt, FrameReplaced DEF Inv, Kinds
<1>10. /\ spooled' \in [Requests -> [Kinds -> BOOLEAN]] /\ spooled'[r]["robots"] = FALSE
       /\ spooled'[r]["main"] = spooled[r]["main"]
       /\ \A q \in Requests \ {r} : spooled'[q] = spooled[q]
  BY <1>1, SpooledReplaced DEF Inv, Kinds
<1>11. Idle.step = "idle"
  BY DEF Idle
<1>12. Coherent(request'[r], ask'[r], frame'[r], spooled'[r])
  <2>1. request'[r] = request[r]
    BY <1>1
  <2>2. \A k \in Kinds : Known(frame'[r][k], spooled'[r][k])
    BY <1>2, <1>9, <1>10, NothingKnown DEF Coherent, Kinds
  <2>3. QED
    BY <1>1, <1>2, <1>5, <1>7, <1>9, <1>10, <1>11, <2>1, <2>2 DEF Coherent
<1>13. LoadsCoherent'
  <2>1. \A q \in Requests, x \in Origins :
          /\ Reloads(q, x)' => Reloads(q, x)
          /\ FirstLoad(q, x)' => FirstLoad(q, x) /\ q # r
    BY <1>5, <1>7 DEF Reloads, FirstLoad
  <2>2. /\ \A q \in Requests, x \in Origins : Reloads(q, x) => policy[x].state # "none"
        /\ \A q \in Requests, x \in Origins : FirstLoad(q, x) =>
              /\ policy[x] = [state |-> "pending", loader |-> q]
              /\ policy[x].loader = q
              /\ \A m \in Requests \ {q} : ~Reloads(m, x)
    BY DEF Inv, LoadsCoherent
  <2>3. \A x \in Origins : policy[x].state # "none" => policy'[x].state # "none"
    BY <1>6, <1>8
  <2>4. \A x \in Origins : policy[x].loader # r => policy'[x] = policy[x]
    BY <1>6, <1>8
  <2> HIDE DEF Reloads, FirstLoad
  <2>5. QED
    BY <2>1, <2>2, <2>3, <2>4 DEF LoadsCoherent
<1>14. \A k \in Kinds : Alike(frame[r][k], frame'[r][k])
  BY <1>1, <1>9, <1>11 DEF Alike, Kinds
<1>15. /\ request' \in [Requests -> Request]
       /\ \A q \in Requests \ {r} : request'[q] = request[q]
  BY <1>1 DEF Inv, Shapes
<1>16. QED
  BY <1>1, <1>7, <1>8, <1>9, <1>10, <1>12, <1>13, <1>14, <1>15, RequestTurns

LEMMA DecidedInv ==
    ASSUME Inv, NEW r \in Requests, Decided(r)
    PROVE  Inv'
<1> DEFINE f == frame[r]["main"]
<1>1. /\ ask[r].step = "got" /\ ask' = [ask EXCEPT ![r] = NoAsk]
      /\ UNCHANGED <<site, cache, policy, session, cookieFile, aborted, served>>
  BY DEF Decided
<1>2. /\ Coherent(request[r], ask[r], frame[r], spooled[r])
      /\ request[r] \in Request /\ f \in Frame
      /\ frame[r]["robots"] = Idle /\ spooled[r]["robots"] = FALSE
      /\ request[r].step = "fetch" /\ f.step \in {"idle", "decide"}
      /\ f.step = "idle" => f = Idle /\ spooled[r]["main"] = FALSE
  <2>1. /\ Coherent(request[r], ask[r], frame[r], spooled[r])
        /\ request[r] \in Request /\ f \in Frame
        /\ frame[r]["robots"] = Idle /\ spooled[r]["robots"] = FALSE
    BY <1>1, OneAtATime DEF Kinds
  <2>2. request[r].step = "fetch" /\ f.step \in {"idle", "decide"}
    BY <1>1, <2>1 DEF Coherent
  <2>3. f.step = "idle" => f = Idle /\ spooled[r]["main"] = FALSE
    BY <2>2, OneAtATime
  <2>4. QED
    BY <2>1, <2>2, <2>3
<1>3. NoAsk \in Ask /\ NoAsk.step = "none" /\ Idle.step = "idle"
  BY AsksBuilt DEF NoAsk, Idle
<1> HIDE DEF NoAsk, Idle, Frame
<1>4. /\ ask' \in [Requests -> Ask] /\ ask'[r] = NoAsk
      /\ \A q \in Requests \ {r} : ask'[q] = ask[q]
      /\ LoadsCoherent'
  BY <1>1, <1>3, AskKeeps
<1>5. /\ request \in [Requests -> Request] /\ frame \in [Requests -> [Kinds -> Frame]]
      /\ spooled \in [Requests -> [Kinds -> BOOLEAN]] /\ policy' \in [Origins -> Policy]
  BY <1>1 DEF Inv, Shapes
<1>6. ASSUME NEW g \in Frame, frame' = [frame EXCEPT ![r]["main"] = g],
             g.step \in {"prepare", "done"}, Known(g, FALSE),
             spooled' \in [Requests -> [Kinds -> BOOLEAN]],
             spooled'[r]["main"] = FALSE, spooled'[r]["robots"] = FALSE,
             \A q \in Requests \ {r} : spooled'[q] = spooled[q],
             UNCHANGED request
      PROVE  Inv'
  <2>1. /\ frame' \in [Requests -> [Kinds -> Frame]] /\ frame'[r]["main"] = g
        /\ frame'[r]["robots"] = Idle
        /\ \A q \in Requests \ {r} : frame'[q] = frame[q]
    BY <1>2, <1>6, FrameReplaced DEF Inv, Kinds
  <2>2. Coherent(request'[r], ask'[r], frame'[r], spooled'[r])
    <3>1. \A k \in Kinds : Known(frame'[r][k], spooled'[r][k])
      BY <1>6, <2>1, NothingKnown DEF Kinds
    <3>2. QED
      BY <1>2, <1>3, <1>4, <1>6, <2>1, <3>1 DEF Coherent
  <2>3. \A k \in Kinds : Alike(frame[r][k], frame'[r][k])
    BY <1>2, <1>3, <1>6, <2>1 DEF Alike, Kinds
  <2>4. /\ request' \in [Requests -> Request]
        /\ \A q \in Requests \ {r} : request'[q] = request[q]
    BY <1>5, <1>6
  <2>5. QED
    BY <1>1, <1>4, <1>5, <1>6, <2>1, <2>2, <2>3, <2>4, RequestTurns
<1>7. CASE f.step = "decide"
  <2>1. Following(r, "main") \/ Returns(r, "main", "error")
    BY <1>7 DEF Decided, Entry
  <2>2. Disposed(r, "main") /\ UNCHANGED request
    BY <1>7 DEF Decided, Entry
  <2>3. /\ spooled' \in [Requests -> [Kinds -> BOOLEAN]]
        /\ spooled'[r]["main"] = FALSE /\ spooled'[r]["robots"] = FALSE
        /\ \A q \in Requests \ {r} : spooled'[q] = spooled[q]
    BY <1>2, <2>2, SpooledReplaced DEF Inv, Kinds, Disposed
  <2>4. "main" \in Kinds /\ f.result = "redirect"
    BY <1>2, <1>7 DEF Kinds, Coherent, Known
  <2>5. \E g \in Frame : /\ frame' = [frame EXCEPT ![r]["main"] = g]
                         /\ g.step \in {"prepare", "done"} /\ Known(g, FALSE)
    <3>1. CASE Following(r, "main")
      BY <1>7, <2>4, <3>1, FollowingFrame
    <3>2. CASE Returns(r, "main", "error")
      <4> DEFINE g == [step |-> "done", result |-> "error"]
      <4>1. g \in Frame /\ g.step = "done" /\ Known(g, FALSE)
        BY FramesBuilt DEF Results, Known
      <4>2. frame' = [frame EXCEPT ![r]["main"] = g]
        BY <3>2 DEF Returns
      <4> HIDE DEF g
      <4>3. QED
        BY <4>1, <4>2
    <3>3. QED
      BY <2>1, <3>1, <3>2
  <2>6. QED
    BY <1>6, <2>2, <2>3, <2>5
<1>8. CASE f.step = "idle" /\ frame' = Starts(r, "main", Start[r]) /\ UNCHANGED <<request, spooled>>
  <2> DEFINE g == [step |-> "prepare", url |-> Start[r], visited |-> {Start[r]}]
  <2>1. g \in Frame /\ g.step = "prepare" /\ Known(g, FALSE)
    <3>1. Start[r] \in Urls
      BY FetchingAssumption
    <3>2. QED
      BY <3>1, FramesBuilt, TrailsGrow DEF Known
  <2>2. frame' = [frame EXCEPT ![r]["main"] = g]
    BY <1>8 DEF Starts
  <2> HIDE DEF g
  <2>3. /\ spooled' \in [Requests -> [Kinds -> BOOLEAN]]
        /\ spooled'[r]["main"] = FALSE /\ spooled'[r]["robots"] = FALSE
        /\ \A q \in Requests \ {r} : spooled'[q] = spooled[q]
    BY <1>2, <1>5, <1>8
  <2>4. QED
    BY <1>6, <1>8, <2>1, <2>2, <2>3
<1>9. CASE f.step = "idle" /\ End(r, "skipped") /\ UNCHANGED <<frame, spooled>>
  <2> DEFINE q == [request[r] EXCEPT !.step = "skipped"]
  <2>1. q \in Request /\ q.step = "skipped"
    <3>1. \A x \in Ended : /\ [request[r] EXCEPT !.step = x] \in Request
                           /\ [request[r] EXCEPT !.step = x].step = x
      BY <1>2, RequestShapes
    <3>2. QED
      BY <3>1 DEF Ended
  <2>2. request' = [request EXCEPT ![r] = q]
    BY <1>9, Ending DEF Inv
  <2> HIDE DEF q
  <2>3. /\ request' \in [Requests -> Request] /\ request'[r] = q
        /\ \A p \in Requests \ {r} : request'[p] = request[p]
    BY <2>1, <2>2, RequestReplaced DEF Inv
  <2>4. Coherent(request'[r], ask'[r], frame'[r], spooled'[r])
    <3>1. frame'[r] = frame[r] /\ spooled'[r] = spooled[r]
      BY <1>9
    <3>2. QED
      BY <1>2, <1>3, <1>4, <1>9, <2>1, <2>3, <3>1 DEF Coherent
  <2>5. \A k \in Kinds : Alike(frame[r][k], frame'[r][k])
    BY <1>9 DEF Alike
  <2>6. /\ frame' \in [Requests -> [Kinds -> Frame]]
        /\ spooled' \in [Requests -> [Kinds -> BOOLEAN]]
        /\ \A p \in Requests \ {r} : frame'[p] = frame[p] /\ spooled'[p] = spooled[p]
    BY <1>5, <1>9
  <2>7. QED
    BY <1>1, <1>4, <1>5, <2>3, <2>4, <2>5, <2>6, RequestTurns
<1>10. QED
  BY <1>2, <1>7, <1>8, <1>9 DEF Decided, Entry

(* The end of a request changes no fetch of another kind.                  *)
LEMMA OutcomeInv ==
    ASSUME Inv, NEW r \in Requests, Outcome(r)
    PROVE  Inv'
<1> DEFINE f == frame[r]["main"]
           s == IF ~aborted /\ Retryable(f.result) /\ request[r].attempt < MaxRetries
                THEN "backoff" ELSE "returned"
           q == [step |-> s, attempt |-> request[r].attempt, result |-> f.result]
<1>1. /\ request[r].step = "fetch" /\ f.step = "done"
      /\ frame' = [frame EXCEPT ![r]["main"] = Idle]
      /\ UNCHANGED <<site, cache, policy, ask, spooled, session, cookieFile, aborted, served>>
  BY DEF Outcome, Entry
<1>2. /\ Coherent(request[r], ask[r], frame[r], spooled[r])
      /\ request[r] \in Request /\ f \in Frame
  BY OneAtATime DEF Kinds
<1>3. /\ request \in [Requests -> Request] /\ ask \in [Requests -> Ask]
      /\ spooled \in [Requests -> [Kinds -> BOOLEAN]] /\ policy \in [Origins -> Policy]
  BY DEF Inv, Shapes
<1>4. f.result \in Results /\ request[r].attempt \in 0..MaxRetries
  BY <1>1, <1>2, FrameShapes, RequestShapes
<1>5. request' = [request EXCEPT ![r] = q]
  BY <1>1, <1>3 DEF Outcome, Entry
<1>6. q \in Request /\ q.step \in {"backoff", "returned"} /\ q.result = f.result
  <2>1. CASE s = "returned"
    BY <1>4, <2>1 DEF Request
  <2>2. CASE s = "backoff"
    <3>1. request[r].attempt < MaxRetries
      BY <2>2
    <3>2. request[r].attempt \in 0..(MaxRetries - 1)
      BY <1>4, <3>1, FetchingAssumption
    <3>3. QED
      BY <1>4, <2>2, <3>2 DEF Request
  <2>3. QED
    BY <2>1, <2>2
<1>7. Idle \in Frame /\ Idle.step = "idle" /\ \A b \in BOOLEAN : Known(Idle, b)
  BY FramesBuilt, NothingKnown DEF Idle
<1> HIDE DEF q, s, Idle, Frame
<1>8. /\ request' \in [Requests -> Request] /\ request'[r] = q
      /\ \A p \in Requests \ {r} : request'[p] = request[p]
  BY <1>5, <1>6, RequestReplaced DEF Inv
<1>9. /\ frame' \in [Requests -> [Kinds -> Frame]] /\ frame'[r]["main"] = Idle
      /\ frame'[r]["robots"] = frame[r]["robots"]
      /\ \A p \in Requests \ {r} : frame'[p] = frame[p]
  BY <1>1, <1>7, FrameReplaced DEF Inv, Kinds
<1>10. Coherent(request'[r], ask'[r], frame'[r], spooled'[r])
  <2>1. ask'[r] = ask[r] /\ spooled'[r] = spooled[r] /\ \A k \in Kinds : spooled[r][k] \in BOOLEAN
    BY <1>1, <1>3
  <2>2. \A k \in Kinds : Known(frame'[r][k], spooled'[r][k])
    BY <1>2, <1>7, <1>9, <2>1 DEF Coherent, Kinds
  <2>3. spooled[r]["main"] => q.result \in {"ok", "busy"}
    BY <1>1, <1>2, <1>6 DEF Coherent, Known, Holding, Kinds
  <2>4. ask[r].step = "none"
    BY <1>1, <1>2 DEF Coherent
  <2>5. QED
    BY <1>1, <1>2, <1>6, <1>7, <1>8, <1>9, <2>1, <2>2, <2>3, <2>4 DEF Coherent
<1>11. \A k \in Kinds : Alike(frame[r][k], frame'[r][k])
  BY <1>1, <1>7, <1>9 DEF Alike, Kinds
<1>12. LoadsCoherent'
  BY <1>1, LoadsStay DEF Inv
<1>13. /\ ask' \in [Requests -> Ask] /\ policy' \in [Origins -> Policy]
       /\ spooled' \in [Requests -> [Kinds -> BOOLEAN]]
       /\ \A p \in Requests \ {r} : spooled'[p] = spooled[p] /\ ask'[p] = ask[p]
  BY <1>1, <1>3
<1>14. QED
  BY <1>1, <1>8, <1>9, <1>10, <1>11, <1>12, <1>13, RequestTurns

(* A request that is not fetching changes alone, and may drop its body.    *)
LEMMA RestingTurns ==
    ASSUME Inv, NEW r \in Requests, NEW q \in Request,
           request[r].step # "fetch", q.step # "fetch",
           request' = [request EXCEPT ![r] = q],
           (UNCHANGED spooled) \/ Disposed(r, "main"),
           spooled'[r]["main"] =>
              q.step \in {"backoff", "returned", "cancelled"} /\ q.result \in {"ok", "busy"},
           UNCHANGED <<site, cache, policy, ask, frame, session, cookieFile, aborted, served>>
    PROVE  Inv'
<1>1. /\ request' \in [Requests -> Request] /\ request'[r] = q
      /\ \A p \in Requests \ {r} : request'[p] = request[p]
  BY RequestReplaced DEF Inv
<1>2. /\ spooled' \in [Requests -> [Kinds -> BOOLEAN]]
      /\ spooled'[r]["robots"] = spooled[r]["robots"]
      /\ \A p \in Requests \ {r} : spooled'[p] = spooled[p]
  <2>1. spooled \in [Requests -> [Kinds -> BOOLEAN]] /\ Shapes
    BY DEF Inv, Shapes
  <2>2. CASE UNCHANGED spooled
    BY <2>1, <2>2
  <2>3. CASE Disposed(r, "main")
    BY <2>1, <2>3, SpooledReplaced DEF Disposed, Kinds
  <2>4. QED
    BY <2>2, <2>3
<1>3. /\ frame[r]["main"] = Idle /\ ask[r] = NoAsk
      /\ Coherent(request[r], ask[r], frame[r], spooled[r])
      /\ NoAsk.step = "none" /\ Idle.step = "idle"
      /\ \A b \in BOOLEAN : Known(Idle, b)
  BY OneAtATime, NothingKnown DEF Idle, NoAsk
<1>4. /\ ask' = ask /\ frame' = frame /\ policy' = policy
      /\ ask \in [Requests -> Ask] /\ frame \in [Requests -> [Kinds -> Frame]]
      /\ policy \in [Origins -> Policy]
  BY DEF Inv, Shapes
<1> HIDE DEF Idle, NoAsk
<1>5. Coherent(request'[r], ask'[r], frame'[r], spooled'[r])
  <2>1. spooled'[r]["main"] \in BOOLEAN
    BY <1>2 DEF Kinds
  <2>2. \A k \in Kinds : Known(frame[r][k], spooled'[r][k])
    BY <1>2, <1>3, <2>1 DEF Coherent, Kinds
  <2>3. QED
    BY <1>1, <1>2, <1>3, <1>4, <2>2 DEF Coherent
<1>6. \A k \in Kinds : Alike(frame[r][k], frame'[r][k])
  BY <1>4 DEF Alike
<1>7. LoadsCoherent'
  BY LoadsStay DEF Inv
<1>8. QED
  BY <1>1, <1>2, <1>4, <1>5, <1>6, <1>7, RequestTurns

LEMMA RetryInv ==
    ASSUME Inv, NEW r \in Requests, Retry(r)
    PROVE  Inv'
<1> DEFINE q == [step |-> "attempt", attempt |-> request[r].attempt + 1]
<1>1. /\ request[r].step = "backoff" /\ Disposed(r, "main")
      /\ UNCHANGED <<site, cache, policy, ask, frame, session, cookieFile, aborted, served>>
  BY DEF Retry
<1>2. request[r] \in Request /\ request \in [Requests -> Request]
  BY DEF Inv, Shapes
<1>3. request' = [request EXCEPT ![r] = q]
  BY <1>2 DEF Retry
<1>4. q \in Request /\ q.step = "attempt"
  <2>1. request[r].attempt + 1 \in 0..MaxRetries
    BY <1>1, <1>2, RequestShapes
  <2>2. QED
    BY <2>1 DEF Request
<1>5. spooled'[r]["main"] = FALSE
  BY <1>1, SpooledReplaced DEF Inv, Disposed, Kinds
<1> HIDE DEF q
<1>6. QED
  BY <1>1, <1>3, <1>4, <1>5, RestingTurns

LEMMA HandleInv ==
    ASSUME Inv, NEW r \in Requests, Handle(r)
    PROVE  Inv'
<1>1. /\ request[r].step = "returned"
      /\ UNCHANGED <<site, cache, policy, ask, frame, session, cookieFile, aborted, served>>
  BY DEF Handle
<1>2. request[r] \in Request /\ Coherent(request[r], ask[r], frame[r], spooled[r])
  BY OneAtATime
<1>3. frame[r]["main"].step = "idle"
  BY <1>1, <1>2 DEF Coherent
<1>4. spooled[r]["main"] => request[r].result \in {"ok", "busy"}
  BY <1>2, <1>3 DEF Coherent, Holding
<1>5. \A s \in Ended : /\ [request[r] EXCEPT !.step = s] \in Request
                       /\ [request[r] EXCEPT !.step = s].step = s
                       /\ [request[r] EXCEPT !.step = s].result = request[r].result
  <2>1. \A s \in Ended : /\ [request[r] EXCEPT !.step = s] \in Request
                         /\ [request[r] EXCEPT !.step = s].step = s
    BY <1>2, RequestShapes
  <2>2. request[r].step \in {"backoff", "returned"}
    BY <1>1
  <2>3. \A s \in Ended : [request[r] EXCEPT !.step = s].result = request[r].result
    BY <1>2, <2>2, RequestShapes
  <2>4. QED
    BY <2>1, <2>3
<1>6. {"cancelled", "failed", "handled"} \subseteq Ended /\ "fetch" \notin Ended
  BY DEF Ended
<1>7. ASSUME NEW s \in Ended, End(r, s), UNCHANGED spooled,
             s = "cancelled" \/ request[r].result \in {"error", "retryable"}
      PROVE  Inv'
  <2> DEFINE q == [request[r] EXCEPT !.step = s]
  <2>1. q \in Request /\ q.step = s /\ q.result = request[r].result
    BY <1>5
  <2>2. request' = [request EXCEPT ![r] = q]
    BY <1>7, Ending DEF Inv
  <2> HIDE DEF q
  <2>3. spooled'[r]["main"] => q.step = "cancelled" /\ q.result \in {"ok", "busy"}
    BY <1>4, <1>7, <2>1
  <2>4. request[r].step # "fetch" /\ q.step # "fetch"
    BY <1>1, <1>6, <2>1
  <2>5. QED
    BY <1>1, <1>7, <2>1, <2>2, <2>3, <2>4, RestingTurns
<1>8. CASE request' = [request EXCEPT ![r].step = "handled"] /\ Disposed(r, "main")
  <2> DEFINE q == [request[r] EXCEPT !.step = "handled"]
  <2>1. q \in Request /\ q.step = "handled"
    BY <1>5, <1>6
  <2>2. request' = [request EXCEPT ![r] = q]
    BY <1>8, Ending DEF Inv, End
  <2> HIDE DEF q
  <2>3. spooled'[r]["main"] = FALSE
    BY <1>8, SpooledReplaced DEF Inv, Disposed, Kinds
  <2>4. QED
    BY <1>1, <1>8, <2>1, <2>2, <2>3, RestingTurns
<1>9. QED
  BY <1>6, <1>7, <1>8 DEF Handle

-----------------------------------------------------------------------------
(* Exceptions.                                                             *)

LEMMA ThrowsInv ==
    ASSUME Inv, NEW r \in Requests, Throws(r),
           UNCHANGED <<site, meta, body, cookieFile, served>>,
           session' \in {"new", "open", "broken"},
           overlapped \subseteq overlapped', overlapped' \subseteq Urls,
           \A k \in Kinds : frame[r][k].step = "meta" => frame[r][k].url \in overlapped'
    PROVE  Inv'
<1> DEFINE s == IF aborted THEN "cancelled" ELSE "threw"
           q == [request[r] EXCEPT !.step = s]
           waits(p) == p # r /\ ask[p].step = "wait" /\ ask[p].loader = r
           late(p) == [ask[p] EXCEPT !.step = "rejected"]
           mine(o) == policy[o].state = "pending" /\ policy[o].loader = r
           gone == [state |-> "rejected"]
<1>1. /\ request \in [Requests -> Request] /\ ask \in [Requests -> Ask]
      /\ frame \in [Requests -> [Kinds -> Frame]] /\ spooled \in [Requests -> [Kinds -> BOOLEAN]]
      /\ policy \in [Origins -> Policy]
  BY DEF Inv, Shapes
<1>2. q \in Request /\ q.step = s /\ s # "fetch"
  <2>1. \A x \in Ended : /\ [request[r] EXCEPT !.step = x] \in Request
                         /\ [request[r] EXCEPT !.step = x].step = x
    BY <1>1, RequestShapes
  <2>2. QED
    BY <2>1 DEF Ended
<1>3. request' = [request EXCEPT ![r] = q]
  <2>1. End(r, s)
    BY DEF Throws, End
  <2> HIDE DEF s
  <2>2. QED
    BY <2>1, Ending DEF Inv
<1>4. /\ spooled' = [spooled EXCEPT ![r] = [k \in Kinds |-> FALSE]]
      /\ frame' = [frame EXCEPT ![r] = [k \in Kinds |-> Idle]]
      /\ policy' = [o \in Origins |-> IF mine(o) THEN gone ELSE policy[o]]
      /\ aborted' = TRUE
  BY DEF Throws
<1>5. /\ DOMAIN ask' = Requests /\ ask' = [p \in Requests |-> ask'[p]]
      /\ ask'[r] = NoAsk
      /\ \A p \in Requests \ {r} : ask'[p] = IF waits(p) THEN late(p) ELSE ask[p]
  BY DEF Throws
<1>6. \A p \in Requests : waits(p) => late(p) \in Ask /\ late(p).step = "rejected"
  <2>1. ASSUME NEW a \in [step : {"wait"}, origin : Origins, loader : Requests]
        PROVE  [a EXCEPT !.step = "rejected"] \in Ask /\ [a EXCEPT !.step = "rejected"].step = "rejected"
    BY DEF Ask
  <2>2. \A p \in Requests : waits(p) => ask[p] \in [step : {"wait"}, origin : Origins, loader : Requests]
    BY <1>1, AskShapes
  <2>3. QED
    BY <2>1, <2>2
<1>7. /\ Idle \in Frame /\ Idle.step = "idle" /\ \A b \in BOOLEAN : Known(Idle, b)
      /\ NoAsk \in Ask /\ NoAsk.step = "none"
      /\ gone \in Policy /\ gone.state = "rejected"
  BY FramesBuilt, AsksBuilt, NothingKnown DEF Idle, NoAsk, Policy
<1> HIDE DEF q, s, late, gone, Idle, NoAsk, Frame, Ask, Policy, Request
<1>8. /\ request' \in [Requests -> Request] /\ request'[r] = q
      /\ \A p \in Requests \ {r} : request'[p] = request[p]
  BY <1>2, <1>3, RequestReplaced DEF Inv
<1>9. /\ ask' \in [Requests -> Ask]
      /\ \A p \in Requests \ {r} : \/ ask'[p] = ask[p]
                                   \/ ask[p].step = "wait" /\ ask'[p].step = "rejected"
  <2>1. \A p \in Requests : ask'[p] \in Ask
    BY <1>1, <1>5, <1>6, <1>7
  <2>2. QED
    BY <1>5, <1>6, <2>1
<1>10. /\ frame' \in [Requests -> [Kinds -> Frame]]
       /\ \A k \in Kinds : frame'[r][k] = Idle
       /\ \A p \in Requests \ {r} : frame'[p] = frame[p]
  BY <1>1, <1>4, <1>7
<1>11. /\ spooled' \in [Requests -> [Kinds -> BOOLEAN]]
       /\ \A k \in Kinds : spooled'[r][k] = FALSE
       /\ \A p \in Requests \ {r} : spooled'[p] = spooled[p]
  BY <1>1, <1>4
<1>12. /\ policy' \in [Origins -> Policy]
       /\ \A o \in Origins : \/ policy'[o] = policy[o]
                             \/ mine(o) /\ policy'[o] = gone
  BY <1>1, <1>4, <1>7
<1>13. Shapes'
  <2>1. /\ meta' \in [Urls -> Versions] /\ body' \in [Urls -> Versions]
        /\ version' \in [Validated -> 1..MaxVersion] /\ robotsNow' \in [Origins -> Files]
        /\ blocked' \subseteq Movable /\ cookieFile' \in {"none", "saved", "corrupt"}
    BY DEF Inv, Shapes, site
  <2>2. aborted' \in BOOLEAN
    BY <1>4
  <2>3. QED
    BY <1>8, <1>9, <1>10, <1>11, <1>12, <2>1, <2>2 DEF Shapes
<1>14. Coherence'
  <2>1. Coherent(request'[r], ask'[r], frame'[r], spooled'[r])
    <3>1. "main" \in Kinds /\ "robots" \in Kinds /\ request'[r].step # "fetch"
      BY <1>2, <1>8 DEF Kinds
    <3>2. \A k \in Kinds : Known(frame'[r][k], spooled'[r][k])
      BY <1>7, <1>10, <1>11
    <3>3. QED
      BY <1>5, <1>7, <1>10, <1>11, <3>1, <3>2 DEF Coherent
  <2>2. \A p \in Requests \ {r} :
              /\ request'[p] = request[p] /\ frame'[p] = frame[p] /\ spooled'[p] = spooled[p]
              /\ \/ ask'[p] = ask[p]
                 \/ ask[p].step = "wait" /\ ask'[p].step \in {"got", "rejected"}
    BY <1>8, <1>9, <1>10, <1>11
  <2>3. QED
    BY <2>1, <2>2, OneCoherent DEF Inv
<1>15. LoadsCoherent'
  <2>1. \A p \in Requests, x \in Origins :
          /\ Reloads(p, x)' => Reloads(p, x)
          /\ FirstLoad(p, x)' => FirstLoad(p, x) /\ p # r
    BY <1>5, <1>7, <1>9 DEF Reloads, FirstLoad
  <2>2. /\ \A p \in Requests, x \in Origins : Reloads(p, x) => policy[x].state # "none"
        /\ \A p \in Requests, x \in Origins : FirstLoad(p, x) =>
              /\ policy[x] = [state |-> "pending", loader |-> p]
              /\ policy[x].loader = p
              /\ \A m \in Requests \ {p} : ~Reloads(m, x)
    BY DEF Inv, LoadsCoherent
  <2>3. \A x \in Origins : policy[x].state # "none" => policy'[x].state # "none"
    BY <1>7, <1>12
  <2>4. \A x \in Origins : policy[x].loader # r => policy'[x] = policy[x]
    BY <1>12
  <2> HIDE DEF Reloads, FirstLoad
  <2>5. QED
    BY <2>1, <2>2, <2>3, <2>4 DEF LoadsCoherent
<1>16. CacheCoherent'
  <2>1. ASSUME NEW p \in Requests, NEW l \in Kinds
        PROVE  Alike(frame[p][l], frame'[p][l])
    <3>1. CASE p = r
      BY <1>7, <1>10, <3>1 DEF Alike
    <3>2. CASE p # r
      BY <1>10, <3>2 DEF Alike
    <3>3. QED
      BY <3>1, <3>2
  <2>2. QED
    BY <2>1, CacheStays DEF Inv
<1>17. RevalidatedBody'
  BY RevalidatedStays DEF Inv
<1>18. QED
  BY <1>13, <1>14, <1>15, <1>16, <1>17 DEF Inv

(* Whoever throws has no entry half written, but for a write that failed.  *)
LEMMA NothingHalf ==
    ASSUME Inv, NEW r \in Requests, NEW k \in Kinds,
           frame[r][k].step \notin {"idle", "decide", "meta"}
    PROVE  \A l \in Kinds : frame[r][l].step # "meta"
<1>1. CASE k = "main"
  <2>1. frame[r]["robots"].step = "idle"
    BY <1>1, OneAtATime
  <2>2. QED
    BY <1>1, <2>1 DEF Kinds
<1>2. CASE k = "robots"
  <2>1. frame[r]["main"].step \in {"idle", "decide"}
    BY <1>2, OneAtATime
  <2>2. QED
    BY <1>2, <2>1 DEF Kinds
<1>3. QED
  BY <1>1, <1>2 DEF Kinds

LEMMA SameCache ==
    ASSUME Inv, UNCHANGED cache
    PROVE  /\ UNCHANGED <<meta, body>> /\ overlapped \subseteq overlapped' /\ overlapped' \subseteq Urls
           /\ session \in {"new", "open", "broken"}
  BY DEF Inv, Shapes, cache

LEMMA FetchThrowsInv ==
    ASSUME Inv, NEW r \in Requests, NEW k \in Kinds,
           NoSession(r, k) \/ ApplyMismatched(r, k)
    PROVE  Inv'
<1>1. /\ frame[r][k].step \in {"send", "apply"} /\ Throws(r)
      /\ UNCHANGED <<site, cache, cookieFile, served>>
      /\ session' \in {session, "broken"}
  BY DEF NoSession, ApplyMismatched, Entry
<1>2. \A l \in Kinds : frame[r][l].step # "meta"
  BY <1>1, NothingHalf
<1>3. /\ UNCHANGED <<meta, body>> /\ overlapped \subseteq overlapped' /\ overlapped' \subseteq Urls
      /\ session \in {"new", "open", "broken"}
  BY <1>1, SameCache
<1>4. QED
  BY <1>1, <1>2, <1>3, ThrowsInv

LEMMA StoreFailsInv ==
    ASSUME Inv, NEW r \in Requests, NEW k \in Kinds, StoreFails(r, k)
    PROVE  Inv'
<1>1. /\ frame[r][k].step \in {"apply", "meta"} /\ Throws(r)
      /\ UNCHANGED <<site, meta, body, session, cookieFile, served>>
      /\ overlapped' = IF frame[r][k].step = "meta" THEN overlapped \cup {frame[r][k].url} ELSE overlapped
  BY DEF StoreFails, Entry
<1>2. frame[r][k].url \in Urls /\ overlapped \subseteq Urls /\ session \in {"new", "open", "broken"}
  BY <1>1, OnTheWay, FrameShapes DEF Inv, Shapes
<1>3. \A l \in Kinds : frame[r][l].step = "meta" => frame[r][l].url \in overlapped'
  <2>1. CASE k = "main"
    <3>1. frame[r]["robots"].step = "idle"
      BY <1>1, <2>1, OneAtATime
    <3>2. QED
      BY <1>1, <2>1, <3>1 DEF Kinds
  <2>2. CASE k = "robots"
    <3>1. frame[r]["main"].step \in {"idle", "decide"}
      BY <1>1, <2>2, OneAtATime
    <3>2. QED
      BY <1>1, <2>2, <3>1 DEF Kinds
  <2>3. QED
    BY <2>1, <2>2 DEF Kinds
<1>4. QED
  BY <1>1, <1>2, <1>3, ThrowsInv

LEMMA RequestThrowsInv ==
    ASSUME Inv, NEW r \in Requests,
           LoadFails(r) \/ LookupFails(r) \/ RetryFails(r)
    PROVE  Inv'
<1>1. /\ Throws(r) /\ UNCHANGED <<site, cache, session, cookieFile, served>>
  BY DEF LoadFails, LookupFails, RetryFails
<1>2. \A l \in Kinds : frame[r][l].step # "meta"
  <2>1. Coherent(request[r], ask[r], frame[r], spooled[r])
    BY OneAtATime
  <2>2. CASE LoadFails(r)
    <3>1. frame[r]["robots"].step = "done" /\ "robots" \in Kinds
      BY <2>2 DEF LoadFails, Kinds
    <3>2. QED
      BY <3>1, NothingHalf
  <2>3. CASE LookupFails(r)
    <3>1. ask[r].step = "rejected"
      BY <2>3 DEF LookupFails
    <3>2. QED
      BY <2>1, <3>1 DEF Coherent, Kinds
  <2>4. CASE RetryFails(r)
    <3>1. request[r].step = "backoff"
      BY <2>4 DEF RetryFails
    <3>2. QED
      BY <2>1, <3>1 DEF Coherent, Kinds
  <2>5. QED
    BY <2>2, <2>3, <2>4
<1>3. /\ UNCHANGED <<meta, body>> /\ overlapped \subseteq overlapped' /\ overlapped' \subseteq Urls
      /\ session \in {"new", "open", "broken"}
  BY <1>1, SameCache
<1>4. QED
  BY <1>1, <1>2, <1>3, ThrowsInv

-----------------------------------------------------------------------------
(* The world around.                                                       *)

LEMMA WorldInv ==
    ASSUME Inv, UNCHANGED <<cache, ask, frame, request, spooled, session, served>>,
           version' \in [Validated -> 1..MaxVersion], robotsNow' \in [Origins -> Files],
           blocked' \subseteq Movable, aborted' \in BOOLEAN,
           cookieFile' \in {"none", "saved", "corrupt"},
           policy' \in [Origins -> Policy],
           \A o \in Origins : \/ policy'[o] = policy[o]
                              \/ policy[o].state = "ready" /\ policy'[o].state = "ready"
    PROVE  Inv'
<1>1. UNCHANGED <<meta, body, overlapped>>
  BY DEF cache
<1>2. Shapes' /\ Coherence'
  BY <1>1 DEF Inv, Shapes, Coherence
<1>3. LoadsCoherent'
  <2>1. \A p \in Requests, x \in Origins :
          /\ Reloads(p, x)' => Reloads(p, x)
          /\ FirstLoad(p, x)' => FirstLoad(p, x)
    BY DEF Reloads, FirstLoad
  <2>2. /\ \A p \in Requests, x \in Origins : Reloads(p, x) => policy[x].state # "none"
        /\ \A p \in Requests, x \in Origins : FirstLoad(p, x) =>
              /\ policy[x] = [state |-> "pending", loader |-> p]
              /\ policy[x].state = "pending"
              /\ \A m \in Requests \ {p} : ~Reloads(m, x)
    BY DEF Inv, LoadsCoherent
  <2>3. \A x \in Origins : /\ policy[x].state # "none" => policy'[x].state # "none"
                           /\ policy[x].state = "pending" => policy'[x] = policy[x]
    OBVIOUS
  <2> HIDE DEF Reloads, FirstLoad
  <2>4. QED
    BY <2>1, <2>2, <2>3 DEF LoadsCoherent
<1>4. CacheCoherent'
  <2>1. \A p \in Requests, l \in Kinds : Alike(frame[p][l], frame'[p][l])
    BY DEF Alike
  <2>2. QED
    BY <1>1, <2>1, CacheStays DEF Inv
<1>5. RevalidatedBody'
  BY <1>1, RevalidatedStays DEF Inv
<1>6. QED
  BY <1>2, <1>3, <1>4, <1>5 DEF Inv

LEMMA PublishInv == ASSUME Inv, Publish PROVE Inv'
<1>1. /\ version \in [Validated -> 1..MaxVersion] /\ robotsNow \in [Origins -> Files]
      /\ blocked \subseteq Movable /\ aborted \in BOOLEAN
      /\ cookieFile \in {"none", "saved", "corrupt"} /\ policy \in [Origins -> Policy]
  BY DEF Inv, Shapes
<1>2. /\ UNCHANGED <<robotsNow, cache, policy, ask, frame, request, spooled, session, cookieFile, aborted, served>>
      /\ version' \in [Validated -> 1..MaxVersion] /\ blocked' \subseteq Movable
  BY <1>1 DEF Publish
<1>3. QED
  BY <1>1, <1>2, WorldInv

LEMMA ExpireInv == ASSUME Inv, NEW o \in Origins, Expire(o) PROVE Inv'
<1> DEFINE p == [policy[o] EXCEPT !.fresh = FALSE]
<1>1. /\ version \in [Validated -> 1..MaxVersion] /\ robotsNow \in [Origins -> Files]
      /\ blocked \subseteq Movable /\ aborted \in BOOLEAN
      /\ cookieFile \in {"none", "saved", "corrupt"} /\ policy \in [Origins -> Policy]
  BY DEF Inv, Shapes
<1>2. /\ UNCHANGED <<site, cache, ask, frame, request, spooled, session, cookieFile, aborted, served>>
      /\ policy[o].state = "ready"
  BY DEF Expire
<1>3. policy' = [policy EXCEPT ![o] = p]
  BY <1>1 DEF Expire
<1>4. p \in Policy /\ p.state = "ready"
  <2>1. policy[o] \in [state : {"ready"}, says : Says, fresh : BOOLEAN]
    <3>1. policy[o] \in Policy
      BY <1>1
    <3>2. QED
      BY <1>2, <3>1 DEF Policy, NoPolicy
  <2>2. p \in [state : {"ready"}, says : Says, fresh : BOOLEAN] /\ p.state = "ready"
    BY <2>1
  <2> HIDE DEF p
  <2>3. QED
    BY <2>2 DEF Policy
<1> HIDE DEF p
<1>5. /\ policy' \in [Origins -> Policy]
      /\ \A x \in Origins : \/ policy'[x] = policy[x]
                            \/ policy[x].state = "ready" /\ policy'[x].state = "ready"
  BY <1>1, <1>2, <1>3, <1>4
<1>6. UNCHANGED <<version, robotsNow, blocked>>
  BY <1>2 DEF site
<1>7. QED
  BY <1>1, <1>2, <1>5, <1>6, WorldInv

LEMMA AbortCloseInv == ASSUME Inv, Abort \/ Close PROVE Inv'
<1>1. /\ version \in [Validated -> 1..MaxVersion] /\ robotsNow \in [Origins -> Files]
      /\ blocked \subseteq Movable /\ aborted \in BOOLEAN
      /\ cookieFile \in {"none", "saved", "corrupt"} /\ policy \in [Origins -> Policy]
  BY DEF Inv, Shapes
<1>2. /\ UNCHANGED <<site, cache, policy, ask, frame, request, spooled, session, served>>
      /\ aborted' \in {aborted, TRUE} /\ cookieFile' \in {cookieFile, "saved"}
  BY DEF Abort, Close
<1>3. UNCHANGED <<version, robotsNow, blocked>>
  BY <1>2 DEF site
<1>4. QED
  BY <1>1, <1>2, <1>3, WorldInv

LEMMA CrashInv == ASSUME Inv, Crash PROVE Inv'
<1>1. /\ policy' = [o \in Origins |-> NoPolicy]
      /\ ask' = [r \in Requests |-> NoAsk]
      /\ frame' = [r \in Requests |-> [k \in Kinds |-> Idle]]
      /\ request' = [r \in Requests |-> IF request[r].step \in Ended THEN request[r]
                                        ELSE [step |-> "attempt", attempt |-> 0]]
      /\ spooled' = [r \in Requests |-> [k \in Kinds |-> FALSE]]
      /\ session' = "new" /\ aborted' = FALSE
      /\ UNCHANGED <<site, meta, body, cookieFile, served>>
      /\ overlapped' = overlapped \cup {frame[e[1]][e[2]].url :
             e \in {e \in Requests \X Kinds : frame[e[1]][e[2]].step = "meta"}}
  BY DEF Crash
<1>2. /\ overlapped \subseteq overlapped' /\ overlapped' \subseteq Urls
      /\ \A r \in Requests, k \in Kinds : frame[r][k].step = "meta" => frame[r][k].url \in overlapped'
  <2>1. \A r \in Requests, k \in Kinds : frame[r][k].step = "meta" => frame[r][k].url \in Urls
    BY OnTheWay, FrameShapes DEF Inv
  <2>2. overlapped \subseteq Urls
    BY DEF Inv, Shapes
  <2>3. ASSUME NEW r \in Requests, NEW k \in Kinds, frame[r][k].step = "meta"
        PROVE  frame[r][k].url \in overlapped'
    <3> DEFINE d == <<r, k>>
    <3>1. d \in Requests \X Kinds /\ d[1] = r /\ d[2] = k
      OBVIOUS
    <3> HIDE DEF d
    <3>2. frame[d[1]][d[2]].step = "meta" /\ frame[d[1]][d[2]].url = frame[r][k].url
      BY <2>3, <3>1
    <3>3. QED
      BY <1>1, <3>1, <3>2
  <2>4. ASSUME NEW e \in Requests \X Kinds PROVE e[1] \in Requests /\ e[2] \in Kinds
    OBVIOUS
  <2>5. overlapped' \subseteq Urls
    BY <1>1, <2>1, <2>2, <2>4
  <2>6. QED
    BY <1>1, <2>3, <2>5
<1>3. /\ Idle \in Frame /\ Idle.step = "idle" /\ \A b \in BOOLEAN : Known(Idle, b)
      /\ NoAsk \in Ask /\ NoAsk.step = "none" /\ NoPolicy \in Policy
  BY FramesBuilt, AsksBuilt, NothingKnown DEF Idle, NoAsk, Policy
<1>4. [step |-> "attempt", attempt |-> 0] \in Request
  BY FetchingAssumption DEF Request
<1> HIDE DEF Idle, NoAsk, Frame, Ask, Policy, NoPolicy, Request
<1>5. Shapes'
  <2>1. /\ meta' \in [Urls -> Versions] /\ body' \in [Urls -> Versions]
        /\ version' \in [Validated -> 1..MaxVersion] /\ robotsNow' \in [Origins -> Files]
        /\ blocked' \subseteq Movable /\ cookieFile' \in {"none", "saved", "corrupt"}
    BY <1>1 DEF Inv, Shapes, site
  <2>2. request' \in [Requests -> Request]
    BY <1>1, <1>4 DEF Inv, Shapes
  <2>3. /\ policy' \in [Origins -> Policy] /\ ask' \in [Requests -> Ask]
        /\ frame' \in [Requests -> [Kinds -> Frame]] /\ spooled' \in [Requests -> [Kinds -> BOOLEAN]]
    BY <1>1, <1>3
  <2>4. session' \in {"new", "open", "broken"} /\ aborted' \in BOOLEAN
    BY <1>1
  <2>5. QED
    BY <1>2, <2>1, <2>2, <2>3, <2>4 DEF Shapes
<1>6. Coherence'
  <2> SUFFICES ASSUME NEW r \in Requests
               PROVE  Coherent(request'[r], ask'[r], frame'[r], spooled'[r])
    BY DEF Coherence
  <2>1. /\ ask'[r] = NoAsk /\ request'[r].step # "fetch"
        /\ \A k \in Kinds : frame'[r][k] = Idle /\ spooled'[r][k] = FALSE
    BY <1>1 DEF Ended
  <2>2. "main" \in Kinds /\ "robots" \in Kinds
    BY DEF Kinds
  <2>3. \A k \in Kinds : Known(frame'[r][k], spooled'[r][k])
    BY <1>3, <2>1
  <2>4. QED
    BY <1>3, <2>1, <2>2, <2>3 DEF Coherent
<1>7. LoadsCoherent'
  <2>1. \A p \in Requests, x \in Origins : ~Reloads(p, x)' /\ ~FirstLoad(p, x)'
    BY <1>1, <1>3 DEF Reloads, FirstLoad
  <2> HIDE DEF Reloads, FirstLoad
  <2>2. QED
    BY <2>1 DEF LoadsCoherent
<1>8. CacheCoherent'
  <2>1. ASSUME NEW p \in Requests, NEW l \in Kinds
        PROVE  Alike(frame[p][l], frame'[p][l])
    <3>1. frame'[p][l] = Idle
      BY <1>1
    <3>2. QED
      BY <1>2, <1>3, <3>1 DEF Alike
  <2>2. QED
    BY <1>1, <1>2, <2>1, CacheStays DEF Inv
<1>9. RevalidatedBody'
  BY <1>1, <1>2, RevalidatedStays DEF Inv
<1>10. QED
  BY <1>5, <1>6, <1>7, <1>8, <1>9 DEF Inv

-----------------------------------------------------------------------------
(* The invariant.                                                          *)

LEMMA InitInv == Init => Inv
<1> SUFFICES ASSUME Init PROVE Inv
  OBVIOUS
<1>1. /\ Idle \in Frame /\ Idle.step = "idle" /\ \A b \in BOOLEAN : Known(Idle, b)
      /\ NoAsk \in Ask /\ NoAsk.step = "none" /\ NoPolicy \in Policy
  BY FramesBuilt, AsksBuilt, NothingKnown DEF Idle, NoAsk, Policy
<1>2. [step |-> "attempt", attempt |-> 0] \in Request
  BY FetchingAssumption DEF Request
<1>3. 1 \in 1..MaxVersion /\ 0 \in Versions
  BY FetchingAssumption DEF Versions
<1> HIDE DEF Idle, NoAsk, Frame, Ask, Policy, NoPolicy, Request
<1>4. Shapes
  BY <1>1, <1>2, <1>3 DEF Init, Shapes
<1>5. Coherence
  <2> SUFFICES ASSUME NEW r \in Requests PROVE Coherent(request[r], ask[r], frame[r], spooled[r])
    BY DEF Coherence
  <2>1. /\ ask[r] = NoAsk /\ request[r].step # "fetch"
        /\ \A k \in Kinds : frame[r][k] = Idle /\ spooled[r][k] = FALSE
    BY DEF Init
  <2>2. "main" \in Kinds /\ "robots" \in Kinds
    BY DEF Kinds
  <2>3. \A k \in Kinds : Known(frame[r][k], spooled[r][k])
    BY <1>1, <2>1
  <2>4. QED
    BY <1>1, <2>1, <2>2, <2>3 DEF Coherent
<1>6. LoadsCoherent
  BY <1>1 DEF Init, LoadsCoherent, Reloads, FirstLoad
<1>7. CacheCoherent
  <2>1. \A r \in Requests, k \in Kinds : frame[r][k].step = "idle"
    BY <1>1 DEF Init
  <2>2. \A u \in Urls : body[u] = 0
    BY DEF Init
  <2>3. QED
    BY <2>1, <2>2 DEF CacheCoherent, EntryCoherent, Writes, Relies, Written
<1>8. RevalidatedBody
  BY DEF Init, RevalidatedBody
<1>9. QED
  BY <1>4, <1>5, <1>6, <1>7, <1>8 DEF Inv

LEMMA StepInv == ASSUME Inv, NEW r \in Requests, Step(r) PROVE Inv'
<1>1. CASE Attempt(r) \/ Lookup(r) \/ Reload(r) \/ LoadEnds(r)
  BY <1>1, AttemptInv, LookupInv, ReloadInv, LoadEndsInv
<1>2. CASE LoadFails(r) \/ LookupFails(r) \/ RetryFails(r)
  BY <1>2, RequestThrowsInv
<1>3. ASSUME NEW k \in Kinds, NoSession(r, k) \/ ApplyMismatched(r, k) \/ StoreFails(r, k)
      PROVE  Inv'
  BY <1>3, FetchThrowsInv, StoreFailsInv
<1>4. ASSUME NEW k \in Kinds, Prepare(r, k) \/ Respond(r, k) \/ ApplyCached(r, k) \/ StoreBody(r, k)
      PROVE  Inv'
  BY <1>4, PrepareInv, RespondInv, ApplyCachedInv, StoreBodyInv
<1>5. ASSUME NEW k \in Kinds, \/ StoreMetadata(r, k) \/ ApplyNothing(r, k) \/ Redirect(r, k)
                              \/ Settle(r, k) \/ Refuse(r, k) \/ RedirectUnresolved(r, k)
      PROVE  Inv'
  BY <1>5, StoreMetadataInv, ApplyNothingInv, RedirectInv, SettleInv
<1>6. CASE Decided(r) \/ Outcome(r) \/ Retry(r) \/ Handle(r)
  BY <1>6, DecidedInv, OutcomeInv, RetryInv, HandleInv
<1>7. QED
  BY <1>1, <1>2, <1>3, <1>4, <1>5, <1>6 DEF Step

LEMMA NextInv == Inv /\ [Next]_vars => Inv'
<1> SUFFICES ASSUME Inv, [Next]_vars PROVE Inv'
  OBVIOUS
<1>1. CASE \E r \in Requests : Step(r)
  BY <1>1, StepInv
<1>2. CASE Publish \/ (\E o \in Origins : Expire(o)) \/ Abort \/ Crash \/ Close
  BY <1>2, PublishInv, ExpireInv, AbortCloseInv, CrashInv
<1>3. CASE UNCHANGED vars
  <2>1. UNCHANGED <<site, cache, policy, ask, frame, request, spooled, session, cookieFile, aborted, served>>
    BY <1>3 DEF vars, site, cache
  <2>2. UNCHANGED <<version, robotsNow, blocked>>
    BY <1>3 DEF vars
  <2>3. QED
    BY <2>1, <2>2, WorldInv DEF Inv, Shapes
<1>4. QED
  BY <1>1, <1>2, <1>3 DEF Next

(* In every reachable state the shapes hold, every request is at one place *)
(* with what it holds, first loads are the cache's, and the entries that   *)
(* one fetch had in hand are whole.                                        *)
THEOREM Invariance == Spec => []Inv
<1>1. Init => Inv
  BY InitInv
<1>2. Inv /\ [Next]_vars => Inv'
  BY NextInv
<1>3. QED
  BY <1>1, <1>2, PTL DEF Spec

(* The type invariant of Fetching: among others, that no fetch visits more *)
(* than maxRedirects targets or goes on from a URL it has not recorded.    *)
THEOREM TypeCorrect == Spec => []TypeOK
<1>1. Inv => TypeOK
  BY ShapesTyped DEF Inv
<1>2. QED
  BY <1>1, Invariance, PTL

(* A body served after 304 is the one the validator was stored with, but   *)
(* for entries that two fetches had in hand at once or a writer left half  *)
(* written (HttpCache.prepare, store and apply take no lock).              *)
THEOREM RevalidatedBodyHolds == Spec => []RevalidatedBody
<1>1. Inv => RevalidatedBody
  BY DEF Inv
<1>2. QED
  BY <1>1, Invariance, PTL

(* Whatever way a request ends, its response bodies have been disposed of, *)
(* but for a cancelled request whose response had arrived                  *)
(* (RequestHandler.handle).                                                *)
THEOREM BodiesReleasedHolds == Spec => []BodiesReleased
<1>1. Inv => BodiesReleased
  <2> SUFFICES ASSUME Inv, NEW r \in Requests, request[r].step \in Ended
               PROVE  /\ ~spooled[r]["robots"]
                      /\ spooled[r]["main"] => request[r].step = "cancelled" /\ request[r].result \in {"ok", "busy"}
    BY DEF BodiesReleased
  <2>1. request[r].step \notin {"fetch", "attempt", "backoff", "returned"}
    BY DEF Ended
  <2>2. /\ Coherent(request[r], ask[r], frame[r], spooled[r])
        /\ frame[r]["main"] = Idle /\ ask[r] = NoAsk
    BY <2>1, OneAtATime
  <2>3. frame[r]["main"].step = "idle" /\ ask[r].step = "none"
    BY <2>2 DEF Idle, NoAsk
  <2>4. ~spooled[r]["robots"]
    BY <2>2, <2>3 DEF Coherent, Holding
  <2>5. spooled[r]["main"] => request[r].step = "cancelled" /\ request[r].result \in {"ok", "busy"}
    BY <2>1, <2>2, <2>3 DEF Coherent, Holding
  <2>6. QED
    BY <2>4, <2>5
<1>2. QED
  BY <1>1, Invariance, PTL

(* Requests that need a policy nobody has loaded share one load            *)
(* (RobotsService.policyFor: cache.get() and cache.set() in one turn).     *)
THEOREM FirstLoadSharedHolds == Spec => []FirstLoadShared
<1>1. Inv => FirstLoadShared
  <2> SUFFICES ASSUME Inv, NEW r \in Requests, NEW q \in Requests, r # q,
                      ask[r].step = "load", ask[q].step = "load", ask[r].origin = ask[q].origin
               PROVE  ask[r].stale # NoPolicy /\ ask[q].stale # NoPolicy
    BY DEF FirstLoadShared
  <2>1. ask[r].origin \in Origins
    BY OneAtATime, AskShapes
  <2>2. Reloads(q, ask[r].origin) /\ Reloads(r, ask[r].origin)
    BY DEF Reloads
  <2>3. ~FirstLoad(r, ask[r].origin) /\ ~FirstLoad(q, ask[r].origin)
    BY <2>1, <2>2 DEF Inv, LoadsCoherent
  <2>4. QED
    BY <2>3 DEF FirstLoad
<1>2. QED
  BY <1>1, Invariance, PTL
=============================================================================
