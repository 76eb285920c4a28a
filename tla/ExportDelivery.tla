--------------------------- MODULE ExportDelivery ---------------------------
(***************************************************************************)
(* The redemption of secure exports, composed with their generation, their *)
(* deletion (PrivacyExport) and the ledger (PrivacyLedger).  A download    *)
(* checks the session and the artifact, takes one of the process's slots,  *)
(* fetches and opens the object, consumes the artifact in one transaction  *)
(* and only then sends.  Meanwhile the artifact may expire, be revoked,    *)
(* consumed by another download or cleaned, the session may be signed out, *)
(* the client may leave and the API process may die.                       *)
(* Models PrivacyExportService.redeem and what it calls, and the transport *)
(* in export-transfer.ts.                                                  *)
(***************************************************************************)
EXTENDS PrivacyExport

CONSTANTS
    Sessions,       \* sessions of the account
    Downloads,      \* redemptions under way at the same time
    MaxDownloads    \* slots of the API process

ASSUME DeliveryBounds == MaxDownloads \in Nat /\ IsFiniteSet(Downloads)

VARIABLES
    session,    \* auth_sessions.revoked_at
    download,   \* the redemptions under way
    slots,      \* activeDownloads
    served      \* history: how often an artifact's bytes were admitted

deliveryVars == <<session, download, slots, served>>
allVars == <<vars, deliveryVars>>

Download == [at : {"idle", "fetching", "failed", "opened", "sending", "recording"},
             art : Exports \cup {None}, key : Nat, sess : Sessions \cup {None},
             gone : {"no", "yes"}, outcome : {"none", "completed", "aborted"}]
NoDownload == [at |-> "idle", art |-> None, key |-> 0, sess |-> None, gone |-> "no",
               outcome |-> "none"]

Holding == {"fetching", "failed", "opened", "sending"}

DeliveryTypeOK ==
    /\ session \in [Sessions -> {"live", "revoked"}]
    /\ download \in [Downloads -> Download]
    /\ slots \in 0 .. MaxDownloads
    /\ served \in [Exports -> Nat]

DeliveryInit ==
    /\ Init
    /\ session = [s \in Sessions |-> "live"]
    /\ download = [d \in Downloads |-> NoDownload]
    /\ slots = 0
    /\ served = [a \in Exports |-> 0]

(* revokeSession, revokeFamily: sign-out, reuse of a token, moderation. *)
Revoke(s) ==
    /\ session[s] = "live"
    /\ session' = [session EXCEPT ![s] = "revoked"]
    /\ UNCHANGED <<vars, download, slots, served>>

(* redeem up to the fetch: assertLiveSession, loadOwned, assertRedeemable    *)
(* and the slot.                                                             *)
Redeem(d, a, s) ==
    /\ download[d].at = "idle"
    /\ session[s] = "live" /\ user.status = "active"
    /\ artifact[a].state = "ready" /\ artifact[a].expiry = "ahead"
    /\ slots < MaxDownloads
    /\ slots' = slots + 1
    /\ download' = [download EXCEPT ![d] = [NoDownload EXCEPT
                       !.at = "fetching", !.art = a, !.key = artifact[a].key, !.sess = s]]
    /\ UNCHANGED <<vars, session, served>>

(* The end of a redemption that was not admitted: the slot is given back. *)
Refuse(d) ==
    /\ download' = [download EXCEPT ![d] = NoDownload]
    /\ slots' = slots - 1

(* decryptVerified: the object is there and opens. *)
Open(d) ==
    /\ download[d].at = "fetching"
    /\ <<download[d].art, download[d].key>> \in stored
    /\ download' = [download EXCEPT ![d].at = "opened"]
    /\ UNCHANGED <<vars, session, slots, served>>

(* The object is missing, too large or does not authenticate:                *)
(* markIntegrityFailure ends the artifact if it is still ready.  cleanupNow  *)
(* is one pass of the sweep for this artifact (PrivacyExport's Cleanup), and *)
(* the slot is held until it is over.                                        *)
IntegrityFailureAnyState(d) ==
    /\ download[d].at = "fetching"
    /\ artifact' = [artifact EXCEPT ![download[d].art].state = "failed",
                                    ![download[d].art].cleanup = "due"]
    /\ download' = [download EXCEPT ![d].at = "failed"]
    /\ UNCHANGED <<ledgerVars, user, record, stored, flight, worker, session, slots, served>>

IntegrityFailure(d) ==
    /\ download[d].at = "fetching"
    /\ LET a == download[d].art IN
       artifact' = IF artifact[a].state = "ready"
                   THEN [artifact EXCEPT ![a].state = "failed", ![a].cleanup = "due"]
                   ELSE artifact
    /\ download' = [download EXCEPT ![d].at = "failed"]
    /\ UNCHANGED <<ledgerVars, user, record, stored, flight, worker, session, slots, served>>

(* The storage or the wrapping key is unavailable, the object was no good,   *)
(* or the client has left while it was fetched.                              *)
Unavailable(d) ==
    /\ \/ download[d].at \in {"fetching", "failed"}
       \/ download[d].at = "opened" /\ download[d].gone = "yes"
    /\ Refuse(d)
    /\ UNCHANGED <<vars, session, served>>

(* consume: under the locks of the account, the session and the artifact.    *)
AdmissibleConsumed(d) == LET row == artifact[download[d].art] IN
    /\ user.status = "active"
    /\ session[download[d].sess] = "live"
    /\ download[d].gone = "no"
    /\ row.state \in {"ready", "consumed"} /\ row.expiry = "ahead" /\ row.epoch = user.epoch

(* A transaction that relies on the checks before the fetch. *)
AdmissibleAsChecked(d) == LET row == artifact[download[d].art] IN
    /\ download[d].gone = "no"
    /\ row.state = "ready" /\ row.expiry = "ahead"

Admissible(d) == LET row == artifact[download[d].art] IN
    /\ user.status = "active"
    /\ session[download[d].sess] = "live"
    /\ download[d].gone = "no"
    /\ row.state = "ready" /\ row.expiry = "ahead" /\ row.epoch = user.epoch

Consume(d) ==
    /\ download[d].at = "opened"
    /\ LET a == download[d].art IN
       IF Admissible(d)
       THEN /\ artifact' = [artifact EXCEPT ![a].state = "consumed", ![a].cleanup = "due"]
            /\ served' = [served EXCEPT ![a] = @ + 1]
            /\ download' = [download EXCEPT ![d].at = "sending"]
            /\ UNCHANGED slots
       ELSE Refuse(d) /\ UNCHANGED <<artifact, served>>
    /\ UNCHANGED <<ledgerVars, user, record, stored, flight, worker, session>>

ClientLeaves(d) ==
    /\ download[d].at \in Holding /\ download[d].gone = "no"
    /\ download' = [download EXCEPT ![d].gone = "yes"]
    /\ UNCHANGED <<vars, session, slots, served>>

(* An end of a transfer that is not remembered. *)
SettledNever(d) == FALSE

(* settled, finalized and slotHeld: the transfer has ended before. *)
Settled(d) == download[d].outcome # "none"

(* settle: the response finished, closed or failed, or its time was up; any  *)
(* of these may come after another.  finalize zeroes the plaintext and gives *)
(* the slot back first.                                                      *)
Settle(d, outcome) ==
    /\ download[d].at \in {"sending", "recording"}
    /\ outcome = "completed" => download[d].gone = "no"
    /\ IF Settled(d)
       THEN UNCHANGED <<download, slots>>
       ELSE /\ download' = [download EXCEPT ![d].at = "recording", ![d].outcome = outcome]
            /\ slots' = slots - 1
    /\ UNCHANGED <<vars, session, served>>

(* finalizeTransfer: the outcome, once, and with a completed transfer the    *)
(* delivery on the ledger.                                                   *)
RecordTransfer(d) ==
    /\ download[d].at = "recording"
    /\ LET a == download[d].art
           fresh == artifact[a].transfer = "none" IN
       /\ artifact' = IF fresh THEN [artifact EXCEPT ![a].transfer = download[d].outcome]
                      ELSE artifact
       /\ request' = IF fresh /\ download[d].outcome = "completed"
                     THEN Observed(artifact[a].req) ELSE request
    /\ download' = [download EXCEPT ![d] = NoDownload]
    /\ UNCHANGED <<desk, user, record, stored, flight, worker, session, slots, served>>

(* The transaction failed; the transport swallows the error. *)
RecordLost(d) ==
    /\ download[d].at = "recording"
    /\ download' = [download EXCEPT ![d] = NoDownload]
    /\ UNCHANGED <<vars, session, slots, served>>

(* The API process dies and starts again. *)
CrashApi ==
    /\ \E d \in Downloads : download[d].at # "idle"
    /\ download' = [d \in Downloads |-> NoDownload]
    /\ slots' = 0
    /\ UNCHANGED <<vars, session, served>>

DownloadStep(d) ==
    \/ \E a \in Exports, s \in Sessions : Redeem(d, a, s)
    \/ Open(d) \/ IntegrityFailure(d) \/ Unavailable(d) \/ Consume(d) \/ ClientLeaves(d)
    \/ \E o \in {"completed", "aborted"} : Settle(d, o)
    \/ RecordTransfer(d) \/ RecordLost(d)

DeliveryNext ==
    \/ ExportNext /\ UNCHANGED deliveryVars
    \/ \E d \in Downloads : DownloadStep(d)
    \/ \E s \in Sessions : Revoke(s)
    \/ CrashApi

DeliverySpec == DeliveryInit /\ [][DeliveryNext]_allVars

-----------------------------------------------------------------------------
(* Properties. *)

(* The slots in use are the downloads that hold plaintext or are about to:   *)
(* no refusal, disconnect, failed fetch or finished transfer leaks one or    *)
(* gives one back twice.                                                     *)
SlotsExact == slots = Cardinality({d \in Downloads : download[d].at \in Holding})

(* An artifact's bytes are admitted at most once, whatever runs at the same  *)
(* time.                                                                     *)
ServedOnce == \A a \in Exports : served[a] <= 1

(* A download whose session was signed out, whose account was suspended or    *)
(* deleted or whose password changed since the export was issued, however far *)
(* it had come by then and whichever worker published the export meanwhile.   *)
CutOff(d) ==
    \/ session[download[d].sess] = "revoked"
    \/ user.status # "active"
    \/ user.epoch # artifact[download[d].art].epoch

(* Such a download gets no bytes, though its first checks passed and the      *)
(* object is open (consume, privacy_export_revoke_on_epoch).                  *)
RevokedNotServed == [][\A d \in Downloads :
    download[d].at \in Holding \ {"sending"} /\ CutOff(d) => download'[d].at # "sending"]_allVars

(* An artifact that has ended stays as it ended: no late worker, late        *)
(* integrity failure or late sweep moves it again.                           *)
EndedStays == [][\A a \in Exports :
    artifact[a].state \in Ended => artifact'[a].state = artifact[a].state]_allVars

(* On a request that a secure export was issued for, a delivery is one the   *)
(* server saw complete; an operator's word never stands there.               *)
DeliveryObserved == \A r \in Requests :
    request[r].secure = "yes" /\ request[r].delivered # "no" =>
        /\ request[r].delivered = "observed"
        /\ \E a \in Exports : artifact[a].req = r /\ artifact[a].transfer = "completed"
=============================================================================
