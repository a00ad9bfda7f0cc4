----------------------------- MODULE Processing -----------------------------
(* From a response to its records: ResourceProcessor and the processors of   *)
(* HTML, XML, scripts and stylesheets, for responses that are processed at   *)
(* the same time, over the record store and the renderer they share. What    *)
(* happens to a response is a sequence of awaited calls that branches only   *)
(* at a middleware, a preparation error and a rendering, so its state is     *)
(* what is left of it. Which links and entries a document has is a constant. *)
EXTENDS RecordStore, Rendering

CONSTANTS
    Kind,             \* of a response: "html", "xml", "text" or "other"
    Source, Rendered, \* of a response: its body and the page it renders to, of Contents
    HeaderLinks,      \* of a response: the links in its Link header that are valid URLs
    Links,            \* of a response: the links or entries of its document
    Malformed,        \* responses whose payload cannot be prepared (a broken gzip)
    Runs,             \* the runs: their responses, which come at the same time, and flushEveryRecords
    WantsRender,      \* responses shouldRender() asks a browser for, while there is budget
    MaxLinksPerPage, MaxRenderedPages,
    StoreRaw

ASSUME ProcessingAssumption ==
    /\ Callers = Pages
    /\ Kind \in [Pages -> {"html", "xml", "text", "other"}]
    /\ Source \in [Pages -> Contents] /\ Rendered \in [Pages -> Contents]
    /\ HeaderLinks \in [Pages -> Nat] /\ Links \in [Pages -> Nat]
    /\ Runs \subseteq [responses : SUBSET Pages, flushEvery : Nat \ {0}]
    /\ {MaxLinksPerPage, MaxRenderedPages} \subseteq Nat
    /\ {"resources", "links", "pages", "xml", "entries", "errors", "evidence"} \subseteq Files

VARIABLES
    todo,          \* of a response: the calls that are left
    ended,         \* the responses that are done with, or whose processing threw
    renderedPages, \* RenderController.renderedPages
    finishing      \* "no", "closing" (closeAuxiliary), "storing" (closeStore), "failed", "closed"

vars == <<storeVars, renderVars, todo, ended, renderedPages, finishing>>
processingVars == <<todo, ended, renderedPages, finishing>>

------------------------------------------------------------------------------
(* What is to be done about a response. *)

\* Records are numbered, so that each is told from its equals.
Record(f, n) == [do |-> "write", file |-> f, n |-> n]
\* What may throw and touches neither store nor renderer: RequestScheduler.enqueueDiscovered,
\* ExtensionRunner.invoke in mode fail-request or fail-run, the middleware, which may also take
\* the response away from the parsers. Of those that follow one another one is left, of the last
\* ones none, and the one before a link's record is taken with it.
Outside == [do |-> "call"]
Evidence(r, x) == IF StoreRaw THEN <<[do |-> "object", content |-> x], Record("evidence", x)>> ELSE <<>>

Least(a, b) == IF a < b THEN a ELSE b

\* HtmlLinkProcessor.processLinks: each link is enqueued, or not, and recorded.
processLinks(r, source, n) == [i \in 1..Least(n, MaxLinksPerPage) |-> Record("links", <<source, i>>)]

\* HtmlPagePersister.persist.
Persist(r) == processLinks(r, "page", Links[r]) \o <<Record("pages", 1)>>

\* XmlEntryDispatcher: before an entry the hook, or the enqueueing of the one before it.
dispatchEntries(r) == [i \in 1..(2 * Links[r]) |-> IF i % 2 = 1 THEN Outside ELSE Record("entries", i \div 2)]

\* The processors of scripts and stylesheets, the same as for headers but without a limit.
processText(r) == [i \in 1..Links[r] |-> Record("links", <<"text", i>>)]

\* HtmlResourceProcessor, XmlResourceProcessor and the processors of scripts and stylesheets.
Payload(r) ==
    CASE Kind[r] = "html" -> Evidence(r, Source[r]) \o <<[do |-> "render"]>>
      [] Kind[r] = "xml" -> Evidence(r, Source[r]) \o <<Record("xml", 1)>> \o dispatchEntries(r)
      [] Kind[r] = "text" -> processText(r)
      [] Kind[r] = "other" -> <<>>

processPrepared(r) ==
    <<Record("resources", 1)>> \o
    (IF r \in Malformed THEN <<Record("errors", 1)>>
     ELSE <<Outside>> \o processLinks(r, "header", HeaderLinks[r]) \o Payload(r))

Init ==
    /\ StoreInit /\ RenderInit
    /\ \E run \in Runs :
          /\ flushEvery = run.flushEvery
          /\ todo = [r \in Pages |-> IF r \in run.responses THEN processPrepared(r) ELSE <<>>]
          /\ ended = Pages \ run.responses
    /\ renderedPages = 0
    /\ finishing = "no"

------------------------------------------------------------------------------
(* The steps of one response. *)
Ready(r, what) == r \notin ended /\ call[r] = Idle /\ todo[r] # <<>> /\ Head(todo[r]).do = what
Next_(r) == todo' = [todo EXCEPT ![r] = Tail(@)]
Quits(r) == todo' = [todo EXCEPT ![r] = <<>>]
Free == <<ended, renderedPages, finishing>>

WritesRecord(r) ==
    /\ Ready(r, "write")
    /\ \/ Write(r, Head(todo[r]).file, <<r, Head(todo[r]).n>>) /\ Next_(r)
       \/ Head(todo[r]).file = "links" /\ Quits(r) /\ UNCHANGED storeVars
    /\ UNCHANGED <<renderVars, Free>>

WritesObject(r) ==
    /\ Ready(r, "object")
    /\ WriteObject(r, Head(todo[r]).content)
    /\ Next_(r)
    /\ UNCHANGED <<renderVars, Free>>

Calls(r) ==
    /\ Ready(r, "call")
    /\ Next_(r) \/ Quits(r)
    /\ UNCHANGED <<storeVars, renderVars, Free>>

\* shouldRender() and the start of RenderController.render, in one turn.
Renders(r) ==
    /\ Ready(r, "render") /\ render[r] = "none"
    /\ IF r \in WantsRender /\ renderedPages < MaxRenderedPages
       THEN /\ renderedPages' = renderedPages + 1
            /\ Becomes(r, "waiting")
            /\ UNCHANGED todo
       ELSE todo' = [todo EXCEPT ![r] = Persist(r)] /\ UNCHANGED <<render, renderedPages>>
    /\ UNCHANGED <<storeVars, op, on, queue, servers, ended, finishing>>

\* The page as the browser has it, or an error record and the page as it was sent.
RenderReturns(r) ==
    /\ Ready(r, "render") /\ render[r] \in {"rendered", "failed"}
    /\ todo' = [todo EXCEPT ![r] = (IF render[r] = "rendered" THEN Evidence(r, Rendered[r]) ELSE <<Record("errors", 1)>>)
                                   \o Persist(r)]
    /\ UNCHANGED <<storeVars, renderVars, Free>>

Ends(r) ==
    /\ r \notin ended
    /\ call[r] = Threw \/ (call[r] = Idle /\ todo[r] = <<>>)
    /\ ended' = ended \cup {r}
    /\ call' = [call EXCEPT ![r] = Idle]
    /\ Quits(r)
    /\ UNCHANGED <<sinks, object, faults, renderVars, renderedPages, finishing>>

------------------------------------------------------------------------------
(* The end of the run, when no worker is left: the renderer is closed, for   *)
(* which its own close() is waited, then the store.                          *)
CloseRenderer ==
    /\ ended = Pages /\ finishing = "no"
    /\ finishing' = "closing"
    /\ queue' = Append(queue, LastClose)
    /\ UNCHANGED <<storeVars, render, op, on, servers, todo, ended, renderedPages>>

CloseStore ==
    /\ finishing = "closing" /\ LastClose \notin ToSet(queue) /\ awaited = {}
    /\ finishing' = "storing"
    /\ UNCHANGED <<storeVars, renderVars, todo, ended, renderedPages>>

Closes ==
    /\ finishing = "storing"
    /\ CloseSinks
    /\ UNCHANGED <<renderVars, processingVars>>

Closed ==
    /\ finishing = "storing"
    /\ \/ closed = Files /\ finishing' = "closed"
       \/ call[Closer] = Threw /\ finishing' = "failed"
    /\ UNCHANGED <<storeVars, renderVars, todo, ended, renderedPages>>

Stores == StoreStep /\ UNCHANGED <<renderVars, processingVars>>
StoreFails == StoreFault /\ UNCHANGED <<renderVars, processingVars>>
Render(r) == (AcquireSlot(r) \/ GetBrowser(r) \/ Connected(r) \/ ConnectFails(r) \/ Settles(r) \/ TimesOut(r)) /\ UNCHANGED <<storeVars, processingVars>>
PageFinishes(r) == (PageEnds(r) \/ AcquireAborted(r)) /\ UNCHANGED <<storeVars, processingVars>>
ClosesBrowser == (CloseBrowser \/ ServerEnds) /\ UNCHANGED <<storeVars, processingVars>>
BrowserFails ==
    /\ ServerStays \/ ServerDies \/ ConnectionBreaks \/ \E r \in Pages : ConnectKillFails(r)
    /\ CanFail /\ faults' = faults - 1
    /\ UNCHANGED <<sinks, object, call, processingVars>>

Step(r) == WritesRecord(r) \/ WritesObject(r) \/ Calls(r) \/ Renders(r) \/ RenderReturns(r) \/ Ends(r)
Finish == CloseRenderer \/ CloseStore \/ Closes \/ Closed

Next ==
    \/ \E r \in Pages : Step(r) \/ Render(r) \/ PageFinishes(r)
    \/ Stores \/ StoreFails \/ ClosesBrowser \/ BrowserFails \/ Finish

Spec == Init /\ [][Next]_vars

(* Calls of the program's own return; what a page does is up to the site,    *)
(* and only the deadline ends it.                                            *)
FairSpec ==
    /\ Spec
    /\ \A r \in Pages : WF_vars(Step(r)) /\ WF_vars(Render(r))
    /\ WF_vars(Stores) /\ WF_vars(ClosesBrowser) /\ WF_vars(Finish)

------------------------------------------------------------------------------
TypeOK ==
    /\ StoreTypeOK /\ RenderTypeOK
    /\ ended \subseteq Pages
    /\ renderedPages \in 0..MaxRenderedPages
    /\ finishing \in {"no", "closing", "storing", "failed", "closed"}

(* Whatever a record says of a body, the body is there in full: an object    *)
(* is associated with a request only once its file is complete, although     *)
(* several may write it at once and any of them may fail.                    *)
EvidenceWhole == \A i \in DOMAIN accepted["evidence"] : object[accepted["evidence"][i][2]] = "whole"

(* Records are kept as they were accepted, are on disk once their sink is    *)
(* closed, and none refers to a body that is not there (JsonLineSink,        *)
(* ContentAddressedEvidenceStore.writeOnce).                                 *)
RecordsKept == SinksComplete /\ NothingLeft /\ EvidenceWhole

(* When the renderer is closed no browser server is left but those that a    *)
(* render past its deadline is closing, for which nobody waits ("void        *)
(* this.browser.close()", adapter.ts), and those whose connection broke or   *)
(* that could not be killed: not one that was launched for a render whose    *)
(* deadline passed while it was starting.                                    *)
ServersClosed == finishing \in {"storing", "failed", "closed"} => alive \subseteq closing \cup lost

(* Every response is done with and the run is closed, although pages may     *)
(* never load.                                                               *)
ProcessingEnds == <>(finishing \in {"closed", "failed"})

(* tests/evidence.test.mjs:15, content-addressed evidence is deduplicated: as *)
(* long as no operation has failed no store call throws, although requests   *)
(* may store one content at the same time.                                   *)
EvidenceShared == faults = MaxFaults => \A r \in Pages : call[r] # Threw
=============================================================================
