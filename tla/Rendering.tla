------------------------------ MODULE Rendering ------------------------------
(* The Playwright adapter: a semaphore in front of it, one browser server    *)
(* that all renders share behind a mutex, a deadline for each render, and    *)
(* renders that go on after their deadline. A server that is to be closed    *)
(* leaves the mutex first and ends later, beside those that are launched     *)
(* meanwhile. A request renders at most once.                                *)
EXTENDS Integers, Sequences, FiniteSets

CONSTANTS
    Pages,           \* the requests that may render
    MaxConcurrency   \* permits of the semaphore

ASSUME RenderAssumption == MaxConcurrency \in Nat \ {0} /\ IsFiniteSet(Pages)

VARIABLES
    render,    \* of a request: RenderAdapter.render, as its caller sees it
    op,        \* of a request: renderPage, which the deadline does not stop
    on,        \* of a request: the server its page is on
    queue,     \* the mutex: who holds it and who waits, in order
    browser,   \* the server of BrowserProvider, 0 if there is none
    launched,  \* how many have been launched
    alive,     \* server processes that run
    connected, \* those with a connection to their browser
    closing,   \* those that a close() nobody waits for is ending
    awaited,   \* the one that the renderer's own close() is ending
    lost       \* those whose connection broke, or that could not be killed (history)

servers == <<browser, launched, alive, connected, closing, awaited, lost>>
renderVars == <<render, op, on, queue, servers>>

Get(r) == [is |-> "get", request |-> r]
VoidClose == [is |-> "close", of |-> "render"]   \* "void this.browser.close()"
LastClose == [is |-> "close", of |-> "renderer"]
Active == {r \in Pages : render[r] = "rendering"}

RenderTypeOK ==
    /\ render \in [Pages -> {"none", "waiting", "rendering", "rendered", "failed"}]
    /\ op \in [Pages -> {"none", "get", "launch", "page", "done", "failed"}]
    /\ launched \in 0..Cardinality(Pages) /\ browser \in 0..launched
    /\ on \in [Pages -> 0..launched]
    /\ alive \cup closing \cup awaited \cup lost \subseteq 1..launched /\ connected \subseteq alive
    /\ Cardinality(Active) <= MaxConcurrency
    /\ \A r \in Pages : op[r] = "launch" => queue # <<>> /\ Head(queue) = Get(r)

RenderInit ==
    /\ render = [r \in Pages |-> "none"] /\ op = [r \in Pages |-> "none"] /\ on = [r \in Pages |-> 0]
    /\ queue = <<>> /\ browser = 0 /\ launched = 0
    /\ alive = {} /\ connected = {} /\ closing = {} /\ awaited = {} /\ lost = {}

Becomes(r, how) == render' = [render EXCEPT ![r] = how]
Goes(r, where) == op' = [op EXCEPT ![r] = where]

(* Mutant: one permit too many. *)
AcquireSlotLoose(r) ==
    /\ render[r] = "waiting" /\ Cardinality(Active) <= MaxConcurrency
    /\ Becomes(r, "rendering")
    /\ Goes(r, "get")
    /\ queue' = Append(queue, Get(r))
    /\ UNCHANGED <<on, servers>>

\* AsyncSemaphore.acquire, and renderPage up to the mutex.
AcquireSlot(r) ==
    /\ render[r] = "waiting" /\ Cardinality(Active) < MaxConcurrency
    /\ Becomes(r, "rendering")
    /\ Goes(r, "get")
    /\ queue' = Append(queue, Get(r))
    /\ UNCHANGED <<on, servers>>

\* The run is aborted while the render waits for a permit.
AcquireAborted(r) == render[r] = "waiting" /\ Becomes(r, "failed") /\ UNCHANGED <<op, on, queue, servers>>

\* BrowserProvider.get: the browser that is connected, or a new server.
GetBrowser(r) ==
    /\ op[r] = "get" /\ Head(queue) = Get(r)
    /\ IF browser \in connected
       THEN /\ Goes(r, "page") /\ on' = [on EXCEPT ![r] = browser]
            /\ queue' = Tail(queue)
            /\ UNCHANGED <<alive, launched>>
       ELSE /\ launched' = launched + 1
            /\ alive' = alive \cup {launched + 1}
            /\ Goes(r, "launch")
            /\ UNCHANGED <<on, queue>>
    /\ UNCHANGED <<render, browser, connected, closing, awaited, lost>>

\* What was in this.server, if anything, is overwritten.
Connected(r) ==
    /\ op[r] = "launch" /\ launched \in alive
    /\ browser' = launched
    /\ connected' = connected \cup {launched}
    /\ queue' = Tail(queue)
    /\ Goes(r, "page") /\ on' = [on EXCEPT ![r] = launched]
    /\ UNCHANGED <<render, launched, alive, closing, awaited, lost>>

\* The launch fails, or the connection fails or is late and the server is killed.
ConnectFails(r) ==
    /\ op[r] = "launch"
    /\ alive' = alive \ {launched}
    /\ queue' = Tail(queue)
    /\ Goes(r, "failed")
    /\ UNCHANGED <<render, on, browser, launched, connected, closing, awaited, lost>>

\* The same, but it cannot be killed: "server.kill().catch(() => undefined)".
ConnectKillFails(r) ==
    /\ op[r] = "launch"
    /\ lost' = lost \cup {launched}
    /\ queue' = Tail(queue)
    /\ Goes(r, "failed")
    /\ UNCHANGED <<render, on, browser, launched, alive, connected, closing, awaited>>

\* The page is there, or it failed, was closed by an abort, or lost its browser.
PageEnds(r) ==
    /\ op[r] = "page"
    /\ \/ on[r] \in connected /\ Goes(r, "done")
       \/ Goes(r, "failed")
    /\ on' = [on EXCEPT ![r] = 0]
    /\ UNCHANGED <<render, queue, servers>>

Settles(r) ==
    /\ render[r] = "rendering" /\ op[r] \in {"done", "failed"}
    /\ Becomes(r, IF op[r] = "done" THEN "rendered" ELSE "failed")
    /\ UNCHANGED <<op, on, queue, servers>>

(* Mutant: the deadline covers only the launch. *)
TimesOutLaunching(r) ==
    /\ render[r] = "rendering" /\ op[r] \in {"get", "launch"}
    /\ Becomes(r, "failed")
    /\ queue' = Append(queue, VoidClose)
    /\ UNCHANGED <<op, on, servers>>

\* withPlaywrightTimeout: the slot is free and somebody is to close the browser, the operation goes on.
TimesOut(r) ==
    /\ render[r] = "rendering" /\ op[r] \in {"get", "launch", "page"}
    /\ Becomes(r, "failed")
    /\ queue' = Append(queue, VoidClose)
    /\ UNCHANGED <<op, on, servers>>

\* BrowserProvider.takeState, and the start of closeServer.
TakeState(turn) ==
    LET taken == {browser} \ {0} IN
    /\ browser' = 0
    /\ \/ turn = VoidClose /\ closing' = closing \cup taken /\ UNCHANGED awaited
       \/ turn = LastClose /\ awaited' = awaited \cup taken /\ UNCHANGED closing
    /\ UNCHANGED <<render, op, on, launched, alive, connected, lost>>

(* Mutant: the state is taken without the mutex. *)
CloseBrowserAtOnce ==
    \E i \in DOMAIN queue :
        /\ queue' = SubSeq(queue, 1, i - 1) \o SubSeq(queue, i + 1, Len(queue))
        /\ TakeState(queue[i])

\* BrowserProvider.close: the state is taken behind the mutex, the server's end is not.
CloseBrowser ==
    /\ queue # <<>>
    /\ queue' = Tail(queue)
    /\ TakeState(Head(queue))

\* closeServer: the server has closed, or was killed when that took too long.
ServerEnds ==
    /\ \E n \in closing \cup awaited :
          /\ closing' = closing \ {n} /\ awaited' = awaited \ {n}
          /\ alive' = alive \ {n} /\ connected' = connected \ {n}
    /\ UNCHANGED <<render, op, on, queue, browser, launched, lost>>

\* "Playwright browser server could not be terminated."
ServerStays ==
    /\ \E n \in closing \cup awaited :
          /\ closing' = closing \ {n} /\ awaited' = awaited \ {n}
          /\ lost' = lost \cup {n}
    /\ UNCHANGED <<render, op, on, queue, browser, launched, alive, connected>>

\* A browser server dies by itself.
ServerDies ==
    /\ \E n \in alive : alive' = alive \ {n} /\ connected' = connected \ {n}
    /\ UNCHANGED <<render, op, on, queue, browser, launched, closing, awaited, lost>>

\* A connection breaks while its server lives: isConnected() is false from now on.
ConnectionBreaks ==
    /\ \E n \in connected : connected' = connected \ {n} /\ lost' = lost \cup {n}
    /\ UNCHANGED <<render, op, on, queue, browser, launched, alive, closing, awaited>>
=============================================================================
