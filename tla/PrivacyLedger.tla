---------------------------- MODULE PrivacyLedger ----------------------------
(***************************************************************************)
(* The ledger of privacy requests (table privacy_requests), for requests   *)
(* of one person that ask for an export.  A request is opened by support,  *)
(* acknowledged, executed by issuing a secure export (PrivacyExport), and  *)
(* closed: by the worker when the export is available or has failed, or by *)
(* an operator.  Acknowledging and closing read the row in one statement   *)
(* and write it in another, outside any transaction; recording a manual    *)
(* delivery and linking an export lock the row.                            *)
(*                                                                         *)
(* Deadlines, counters, retention holds and the audit log are left out.    *)
(***************************************************************************)
EXTENDS Naturals, FiniteSets

CONSTANTS
    Requests,   \* rows of the ledger
    Admins,     \* operators of the console, each with one call in flight
    None        \* no request

ASSUME NoneIsNoRequest == None \notin Requests

VARIABLES
    request,    \* privacy_requests, by id
    desk        \* the calls of the operators between their read and their write

ledgerVars == <<request, desk>>

Request == [status : {"none", "open", "acknowledged", "in_progress", "closed"},
            outcome : {"none", "completed", "failed", "refused"},
            secure : {"no", "yes"},
            delivered : {"no", "manual", "observed"}]
NoRequest == [status |-> "none", outcome |-> "none", secure |-> "no", delivered |-> "no"]

Call == [op : {"idle", "acknowledge", "close"}, req : Requests \cup {None}]
NoCall == [op |-> "idle", req |-> None]

LedgerTypeOK ==
    /\ request \in [Requests -> Request]
    /\ desk \in [Admins -> Call]

LedgerInit ==
    /\ request = [r \in Requests |-> NoRequest]
    /\ desk = [m \in Admins |-> NoCall]

Closed(r) == request[r].status = "closed"

(* closeLinkedRequestCompleted and closeLinkedRequestFailed: a row that is   *)
(* closed already is left alone.                                             *)
CloseLinked(r, outcome) ==
    IF r = None \/ request[r].status = "closed" THEN request
    ELSE [request EXCEPT ![r].status = "closed", ![r].outcome = outcome]

(* linkLedger: the row of a new export.  One that is executed must be open   *)
(* and without a recorded delivery; self-service and the console's direct    *)
(* export insert a row of their own.                                         *)
Linkable(r) ==
    \/ request[r].status = "none"
    \/ request[r].status # "closed" /\ request[r].delivered = "no"

Linked(r) == [request EXCEPT ![r].status = "in_progress", ![r].secure = "yes"]

(* A request recorded by support. *)
CreateRequest(r) ==
    /\ request[r].status = "none"
    /\ request' = [request EXCEPT ![r].status = "open"]
    /\ UNCHANGED desk

AcknowledgeLoad(m, r) ==
    /\ desk[m].op = "idle"
    /\ request[r].status = "open"
    /\ desk' = [desk EXCEPT ![m] = [op |-> "acknowledge", req |-> r]]
    /\ UNCHANGED request

AcknowledgeWrite(m) ==
    /\ desk[m].op = "acknowledge"
    /\ request' = [request EXCEPT ![desk[m].req].status = "acknowledged"]
    /\ desk' = [desk EXCEPT ![m] = NoCall]

CloseLoad(m, r) ==
    /\ desk[m].op = "idle"
    /\ request[r].status \notin {"none", "closed"}
    /\ desk' = [desk EXCEPT ![m] = [op |-> "close", req |-> r]]
    /\ UNCHANGED request

(* The four outcomes an operator may give are "refused" here: the operator's *)
(* word, as against the worker's.                                            *)
CloseWrite(m) ==
    /\ desk[m].op = "close"
    /\ request' = [request EXCEPT ![desk[m].req].status = "closed",
                                  ![desk[m].req].outcome = "refused"]
    /\ desk' = [desk EXCEPT ![m] = NoCall]

(* A delivery the operator made by other means. *)
MarkDeliveredUnchecked(r) ==
    /\ request[r].status # "none"
    /\ request' = [request EXCEPT ![r].delivered = "manual"]
    /\ UNCHANGED desk

MarkDelivered(r) ==
    /\ request[r].status # "none"
    /\ request[r].secure = "no"
    /\ request' = [request EXCEPT ![r].delivered = "manual"]
    /\ UNCHANGED desk

(* finalizeTransfer's ledger half: the first completed transfer is the       *)
(* delivery.                                                                 *)
Observed(r) ==
    IF r # None /\ request[r].delivered = "no"
    THEN [request EXCEPT ![r].delivered = "observed"] ELSE request

OperatorStep ==
    \/ \E r \in Requests : CreateRequest(r) \/ MarkDelivered(r)
    \/ \E m \in Admins, r \in Requests : AcknowledgeLoad(m, r) \/ CloseLoad(m, r)
    \/ \E m \in Admins : AcknowledgeWrite(m) \/ CloseWrite(m)
=============================================================================
