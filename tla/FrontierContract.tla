-------------------------- MODULE FrontierContract --------------------------
(***************************************************************************)
(* What the crawl frontier promises its workers, whichever backend keeps   *)
(* the requests (src/src/frontier/backend-types.ts, FrontierBackend): a    *)
(* request is accepted once, is worked on by at most one lease holder at a *)
(* time, may fall back to pending when its lease is given up or lapses,    *)
(* and reaches one terminal state, for good, through its current holder.   *)
(*                                                                         *)
(* JournalFrontier and SqliteFrontier implement this module.  It knows     *)
(* neither time nor storage: a lapse stands for an expiry, a process crash *)
(* or the recovery of an abandoned lease.                                  *)
(***************************************************************************)
CONSTANTS Requests,   \* unique keys of crawl requests
          Clients     \* workers that lease requests

VARIABLES status,     \* status[r]: the life-cycle state of request r
          working,    \* working[c]: the requests worker c is at work on
          holds       \* holds[c]: those of them whose current lease is c's

contractVars == <<status, working, holds>>

(* RequestState of src/src/requests/types.ts: the four terminal states     *)
(* "handled", "failed", "skipped" and "cancelled" behave alike here.       *)
Status == {"unknown", "pending", "in_progress", "terminal"}

ContractTypeOK ==
    /\ status \in [Requests -> Status]
    /\ working \in [Clients -> SUBSET Requests]
    /\ holds \in [Clients -> SUBSET Requests]

ContractInit ==
    /\ status = [r \in Requests |-> "unknown"]
    /\ working = [c \in Clients |-> {}]
    /\ holds = [c \in Clients |-> {}]

WithoutRequests(S) == [c \in Clients |-> holds[c] \ S]

(* enqueue(): a key nobody has seen becomes pending.                       *)
Accept(r) ==
    /\ status[r] = "unknown"
    /\ status' = [status EXCEPT ![r] = "pending"]
    /\ UNCHANGED <<working, holds>>

(* Leases in S lapse; nobody may complete their requests any more, but     *)
(* their workers do not know yet.                                          *)
Lapse(S) ==
    /\ \A r \in S : status[r] = "in_progress"
    /\ status' = [r \in Requests |-> IF r \in S THEN "pending" ELSE status[r]]
    /\ holds' = WithoutRequests(S)
    /\ UNCHANGED working

(* leaseNext(): lapsed leases are recovered and one pending request is     *)
(* handed to client c, in one step.                                        *)
Lease(c, r, S) ==
    /\ \A q \in S : status[q] = "in_progress"
    /\ status[r] = "pending" \/ r \in S
    /\ status' = [q \in Requests |-> IF q = r THEN "in_progress"
                                     ELSE IF q \in S THEN "pending"
                                     ELSE status[q]]
    /\ holds' = [WithoutRequests(S) EXCEPT ![c] = @ \cup {r}]
    /\ working' = [working EXCEPT ![c] = @ \cup {r}]

(* release(): the holder gives the request back.                           *)
GiveBack(c, r) ==
    /\ r \in holds[c]
    /\ status' = [status EXCEPT ![r] = "pending"]
    /\ holds' = WithoutRequests({r})
    /\ working' = [working EXCEPT ![c] = @ \ {r}]

(* markHandled() and its three siblings: the holder ends the request.      *)
Complete(c, r) ==
    /\ r \in holds[c]
    /\ status' = [status EXCEPT ![r] = "terminal"]
    /\ holds' = WithoutRequests({r})
    /\ working' = [working EXCEPT ![c] = @ \ {r}]

(* A worker whose lease has lapsed is refused; nothing else changes.       *)
Refuse(c, r) ==
    /\ r \in working[c] \ holds[c]
    /\ working' = [working EXCEPT ![c] = @ \ {r}]
    /\ UNCHANGED <<status, holds>>

(* Workers die with their leases.  The leases in S lapse with them; the    *)
(* frontier still regards the others as leased.                            *)
Forget(dead, S) ==
    /\ \A r \in S : status[r] = "in_progress"
    /\ status' = [r \in Requests |-> IF r \in S THEN "pending" ELSE status[r]]
    /\ holds' = [c \in Clients |-> IF c \in dead THEN {} ELSE holds[c] \ S]
    /\ working' = [c \in Clients |-> IF c \in dead THEN {} ELSE working[c]]

ContractNext ==
    \/ \E r \in Requests : Accept(r)
    \/ \E S \in SUBSET Requests : Lapse(S)
    \/ \E c \in Clients, r \in Requests, S \in SUBSET Requests : Lease(c, r, S)
    \/ \E c \in Clients, r \in Requests :
           GiveBack(c, r) \/ Complete(c, r) \/ Refuse(c, r)
    \/ \E dead \in SUBSET Clients, S \in SUBSET Requests : Forget(dead, S)

ContractSpec == ContractInit /\ [][ContractNext]_contractVars

-----------------------------------------------------------------------------
(* No request is in the hands of two workers, and what a worker holds is   *)
(* what the frontier regards as leased (DELIVERY_GUARANTEES in             *)
(* src/src/contracts/delivery.ts: activeLeaseOwnership "single-owner").    *)
SingleOwner ==
    /\ \A c, d \in Clients : c # d => holds[c] \cap holds[d] = {}
    /\ \A c \in Clients : \A r \in holds[c] :
           r \in working[c] /\ status[r] = "in_progress"

(* A terminal request never changes state again and an accepted request    *)
(* is never forgotten (delivery.ts: terminalState "idempotent").           *)
LifecycleMonotone ==
    [][\A r \in Requests :
         /\ status[r] = "terminal" => status'[r] = "terminal"
         /\ status[r] # "unknown" => status'[r] # "unknown"]_contractVars
=============================================================================
