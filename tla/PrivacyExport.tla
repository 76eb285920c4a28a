---------------------------- MODULE PrivacyExport ----------------------------
(***************************************************************************)
(* Secure exports of one account: the artifacts (privacy_export_artifacts),*)
(* the deletion records of their uploads (privacy_export_attempt_objects)  *)
(* and the objects in the private bucket.  Workers claim an artifact under *)
(* a lease, with the attempt number as the fence, upload the sealed export *)
(* and publish it; a sweep expires, times out, deletes and reconciles; and *)
(* the account's password change or deletion revokes what is live.         *)
(* Models PrivacyExportProcessor, export-artifacts.ts, the issuing half of *)
(* PrivacyExportService and the triggers of migration 0072.                *)
(*                                                                         *)
(* Time.  Leases, covers and uploads are timers that Tick counts down in   *)
(* units of the clock; `at or before now' is `timer = 0'.  The long        *)
(* periods (an hour, the two hours of a generation, the life of a ready    *)
(* artifact) pass in a step of their own.  A back-off is shorter than a    *)
(* unit: what waits for one may be taken up at once.                       *)
(***************************************************************************)
EXTENDS PrivacyLedger

CONSTANTS
    Exports,            \* artifacts that may be issued
    Workers,            \* worker processes
    UploadTimeout,      \* deadline of one PUT
    LeaseTtl,           \* lease of one attempt
    MaxFailures,        \* generation failures before the artifact fails
    MaxCleanup,         \* refused deletions before a dead letter
    PerHour,            \* issues per hour
    MaxAttempts,        \* bound on the claims of one artifact
    MaxEpoch,           \* bound on the password changes
    NoWorker

ASSUME ExportBounds ==
    /\ UploadTimeout \in Nat \ {0}
    /\ LeaseTtl \in Nat \ {0}
    /\ MaxFailures \in Nat \ {0}
    /\ MaxCleanup \in Nat \ {0}
    /\ PerHour \in Nat
    /\ MaxAttempts \in Nat
    /\ MaxEpoch \in Nat
    /\ NoWorker \notin Workers

VARIABLES
    user,       \* the account: users.status and users.export_epoch
    artifact,   \* privacy_export_artifacts, by id
    record,     \* privacy_export_attempt_objects, by object key
    stored,     \* the objects in the bucket
    flight,     \* PUTs under way, by object key: 1 + the time left, 0 for none
    worker      \* the generation each worker is running

exportVars == <<user, artifact, record, stored, flight, worker>>
vars == <<request, desk, user, artifact, record, stored, flight, worker>>

(* The object key of an attempt names the artifact and the attempt. *)
Keys == Exports \X (1 .. MaxAttempts)

AttemptGrace == LeaseTtl + 2 * UploadTimeout
UploadCoverShort == UploadTimeout
UploadCover == 3 * UploadTimeout

Live == {"pending", "generating", "ready"}
Ended == {"consumed", "expired", "revoked", "failed"}

Artifact == [state : {"none"} \cup Live \cup Ended, req : Requests \cup {None}, epoch : Nat,
             attempt : Nat, owner : Workers \cup {NoWorker}, lease : Nat,
             failures : 0 .. (MaxFailures - 1),
             key : Nat, age : {"new", "hour", "old"}, expiry : {"unset", "ahead", "past"},
             cleanup : {"none", "due", "dead", "done"}, refusals : Nat,
             transfer : {"none", "completed", "aborted"}]
NoArtifact == [state |-> "none", req |-> None, epoch |-> 0, attempt |-> 0, owner |-> NoWorker,
               lease |-> 0, failures |-> 0, key |-> 0, age |-> "new", expiry |-> "unset",
               cleanup |-> "none", refusals |-> 0, transfer |-> "none"]

(* A record that gave up (dead_at) had been claimed by the reaper before. *)
Record == [state : {"none", "armed", "reaping", "dead"}, left : Nat, refusals : Nat]
NoRecord == [state |-> "none", left |-> 0, refusals |-> 0]

Job == [at : {"idle", "claimed", "collecting", "permitted", "putting", "uploaded", "failing"},
        art : Exports \cup {None}, attempt : Nat, failures : Nat, left : Nat]
NoJob == [at |-> "idle", art |-> None, attempt |-> 0, failures |-> 0, left |-> 0]

TypeOK ==
    /\ LedgerTypeOK
    /\ user \in [status : {"active", "suspended", "deleted"}, epoch : Nat]
    /\ artifact \in [Exports -> Artifact]
    /\ record \in [Keys -> Record]
    /\ stored \subseteq Keys
    /\ flight \in [Keys -> Nat]
    /\ worker \in [Workers -> Job]

Init ==
    /\ LedgerInit
    /\ user = [status |-> "active", epoch |-> 0]
    /\ artifact = [a \in Exports |-> NoArtifact]
    /\ record = [k \in Keys |-> NoRecord]
    /\ stored = {}
    /\ flight = [k \in Keys |-> 0]
    /\ worker = [w \in Workers |-> NoJob]

-----------------------------------------------------------------------------
(* The account and the issue of an export. *)

(* privacy_export_revoke_on_epoch: in the transaction of the epoch's change. *)
Revoked(row) == [row EXCEPT !.state = "revoked", !.owner = NoWorker, !.lease = 0,
                            !.cleanup = "due"]

(* A new password, or the deletion of the account: both bump the epoch and   *)
(* revoke every live artifact.                                               *)
EpochBump(status) ==
    /\ user.status # "deleted"
    /\ status \in {user.status, "deleted"}
    /\ user.epoch < MaxEpoch
    /\ user' = [status |-> status, epoch |-> user.epoch + 1]
    /\ artifact' = [a \in Exports |->
                       IF artifact[a].state \in Live THEN Revoked(artifact[a]) ELSE artifact[a]]
    /\ UNCHANGED <<ledgerVars, record, stored, flight, worker>>

(* setStatus of the back office (a ban is a suspension here): no new epoch,   *)
(* the artifacts stay as they are.  The sessions it revokes are of            *)
(* ExportDelivery, each revoked in a step of its own, and perhaps none is.    *)
Moderate(status) ==
    /\ user.status # "deleted"
    /\ status \in {"active", "suspended"}
    /\ user' = [user EXCEPT !.status = status]
    /\ UNCHANGED <<ledgerVars, artifact, record, stored, flight, worker>>

NoneActive == \A a \in Exports : artifact[a].state \notin Live

WithinHour == Cardinality({a \in Exports : artifact[a].state # "none" /\ artifact[a].age = "new"})

(* createArtifactTx with linkLedger, from any of its three entry points. *)
Issue(a, r) ==
    /\ artifact[a].state = "none"
    /\ user.status = "active"
    /\ NoneActive
    /\ WithinHour < PerHour
    /\ Linkable(r)
    /\ request' = Linked(r)
    /\ artifact' = [artifact EXCEPT ![a] =
                       [NoArtifact EXCEPT !.state = "pending", !.req = r, !.epoch = user.epoch]]
    /\ UNCHANGED <<desk, user, record, stored, flight, worker>>

-----------------------------------------------------------------------------
(* One generation. *)

(* claim: a pending artifact, or one whose lease has lapsed. *)
Claimable(row) == row.state = "pending" \/ (row.state = "generating" /\ row.lease = 0)

Claim(w, a) ==
    /\ worker[w].at = "idle"
    /\ Claimable(artifact[a])
    /\ artifact[a].attempt < MaxAttempts
    /\ LET n == artifact[a].attempt + 1 IN
       /\ artifact' = [artifact EXCEPT ![a].state = "generating", ![a].attempt = n,
                          ![a].owner = w, ![a].lease = LeaseTtl, ![a].key = 0]
       /\ worker' = [worker EXCEPT ![w] = [at |-> "claimed", art |-> a, attempt |-> n,
                        failures |-> artifact[a].failures, left |-> 0]]
    /\ UNCHANGED <<ledgerVars, user, record, stored, flight>>

(* fence: the condition of every write of an attempt. *)
Fence(w) == LET row == artifact[worker[w].art] IN
    /\ row.attempt = worker[w].attempt
    /\ row.owner = w
    /\ row.state = "generating"

MyKey(w) == <<worker[w].art, worker[w].attempt>>

Goto(w, at) == worker' = [worker EXCEPT ![w].at = at, ![w].left = 0]
Done(w) == worker' = [worker EXCEPT ![w] = NoJob]

(* The key and its deletion record, in one transaction before any upload. *)
PersistKey(w) ==
    /\ worker[w].at = "claimed"
    /\ \/ /\ Fence(w)
          /\ artifact' = [artifact EXCEPT ![worker[w].art].key = worker[w].attempt]
          /\ record' = [record EXCEPT ![MyKey(w)] =
                           [state |-> "armed", left |-> AttemptGrace, refusals |-> 0]]
          /\ Goto(w, "collecting")
       \/ ~Fence(w) /\ Done(w) /\ UNCHANGED <<artifact, record>>
    /\ UNCHANGED <<ledgerVars, user, stored, flight>>

(* fail: the artifact ends and its request closes as failed. *)
FailedRow(row) == [row EXCEPT !.state = "failed", !.owner = NoWorker, !.lease = 0,
                              !.cleanup = "due"]

FailUnfenced(w) ==
    /\ artifact' = IF Fence(w) THEN [artifact EXCEPT ![worker[w].art] = FailedRow(@)]
                    ELSE artifact
    /\ request' = CloseLinked(artifact[worker[w].art].req, "failed")
    /\ Done(w)
    /\ UNCHANGED <<desk, user, record, stored, flight>>

Fail(w) ==
    /\ IF Fence(w)
       THEN /\ artifact' = [artifact EXCEPT ![worker[w].art] = FailedRow(@)]
            /\ request' = CloseLinked(artifact[worker[w].art].req, "failed")
       ELSE UNCHANGED <<artifact, request>>
    /\ Done(w)
    /\ UNCHANGED <<desk, user, record, stored, flight>>

TooLarge(w) == worker[w].at = "collecting" /\ Fail(w)

(* Collecting or sealing failed, or the job's lease was lost meanwhile. *)
GenerationError(w) ==
    /\ worker[w].at = "collecting"
    /\ Goto(w, "failing")
    /\ UNCHANGED <<ledgerVars, user, artifact, record, stored, flight>>

(* permitUpload, after the export is sealed: the lease is renewed and the    *)
(* record covers the upload from now on, unless the reaper has it.  The      *)
(* renewal of the lease is kept when the record is refused.                  *)
PermitUpload(w) ==
    /\ worker[w].at = "collecting"
    /\ LET k == MyKey(w)
           mine == Fence(w) /\ artifact[worker[w].art].key = worker[w].attempt IN
       \/ ~mine /\ Done(w) /\ UNCHANGED <<artifact, record>>
       \/ /\ mine
          /\ artifact' = [artifact EXCEPT ![worker[w].art].lease = LeaseTtl]
          /\ \/ /\ record[k].state = "armed"
                /\ record' = [record EXCEPT ![k].left = UploadCover]
                /\ worker' = [worker EXCEPT ![w].at = "permitted", ![w].left = UploadTimeout]
             \/ record[k].state # "armed" /\ Goto(w, "failing") /\ UNCHANGED record
    /\ UNCHANGED <<ledgerVars, user, stored, flight>>

(* The PUT starts only while the permit is fresh (putStartBy); it may take   *)
(* effect until one more deadline after its abort.                           *)
StartPutStale(w) ==
    /\ worker[w].at = "permitted"
    /\ flight' = [flight EXCEPT ![MyKey(w)] = 2 * UploadTimeout + 1]
    /\ Goto(w, "putting")
    /\ UNCHANGED <<ledgerVars, user, artifact, record, stored>>

StartPut(w) ==
    /\ worker[w].at = "permitted"
    /\ IF worker[w].left > 0
       THEN /\ flight' = [flight EXCEPT ![MyKey(w)] = 2 * UploadTimeout + 1]
            /\ Goto(w, "putting")
       ELSE Goto(w, "failing") /\ UNCHANGED flight
    /\ UNCHANGED <<ledgerVars, user, artifact, record, stored>>

PutAcknowledged(w) ==
    /\ worker[w].at = "putting"
    /\ stored' = stored \cup {MyKey(w)}
    /\ flight' = [flight EXCEPT ![MyKey(w)] = 0]
    /\ Goto(w, "uploaded")
    /\ UNCHANGED <<ledgerVars, user, artifact, record>>

(* The PUT failed, or its deadline aborted it: it may take effect later. *)
PutFailed(w) ==
    /\ worker[w].at = "putting"
    /\ Goto(w, "failing")
    /\ UNCHANGED <<ledgerVars, user, artifact, record, stored, flight>>

(* publish: one transaction on the rows of the account and the artifact,     *)
(* which also takes the deletion record out of the reaper's hands.           *)
KeepsAnyRecord(k) == record[k].state # "none"
KeepsRecord(k) == record[k].state = "armed" /\ record[k].left > 0

Publish(w) ==
    /\ worker[w].at = "uploaded"
    /\ LET a == worker[w].art
           k == MyKey(w)
           mine == Fence(w) /\ artifact[a].key = worker[w].attempt
           current == user.status = "active" /\ user.epoch = artifact[a].epoch IN
       \/ ~mine /\ Done(w) /\ UNCHANGED <<artifact, record, request>>
       \/ /\ mine /\ ~current
          /\ artifact' = [artifact EXCEPT ![a] = Revoked(@)]
          /\ Done(w) /\ UNCHANGED <<record, request>>
       \/ /\ mine /\ current /\ ~KeepsRecord(k)
          /\ Goto(w, "failing") /\ UNCHANGED <<artifact, record, request>>
       \/ /\ mine /\ current /\ KeepsRecord(k)
          /\ record' = [record EXCEPT ![k] = NoRecord]
          /\ artifact' = [artifact EXCEPT ![a].state = "ready", ![a].expiry = "ahead",
                             ![a].owner = NoWorker, ![a].lease = 0]
          /\ request' = CloseLinked(artifact[a].req, "completed")
          /\ Done(w)
    /\ UNCHANGED <<desk, user, stored, flight>>

(* retryLater: pending again, or failed after the last try. *)
LastTry(n) == n >= MaxFailures

RetryLater(w) ==
    /\ worker[w].at = "failing"
    /\ LET n == worker[w].failures + 1 IN
       IF LastTry(n) THEN Fail(w)
       ELSE /\ artifact' = IF Fence(w)
                           THEN [artifact EXCEPT ![worker[w].art].state = "pending",
                                    ![worker[w].art].failures = n,
                                    ![worker[w].art].owner = NoWorker,
                                    ![worker[w].art].lease = 0]
                           ELSE artifact
            /\ Done(w)
            /\ UNCHANGED <<ledgerVars, user, record, stored, flight>>

(* The worker's process dies and comes back under the same name. *)
Crash(w) ==
    /\ worker[w].at # "idle"
    /\ Done(w)
    /\ UNCHANGED <<ledgerVars, user, artifact, record, stored, flight>>

Generate(w) ==
    \/ \E a \in Exports : Claim(w, a)
    \/ PersistKey(w) \/ TooLarge(w) \/ GenerationError(w) \/ PermitUpload(w)
    \/ StartPut(w) \/ PutAcknowledged(w) \/ PutFailed(w)
    \/ Publish(w) \/ RetryLater(w)

(* A PUT the worker no longer waits for takes effect, or never does. *)
LatePut(k) ==
    /\ flight[k] > 0
    /\ stored' \in {stored, stored \cup {k}}
    /\ flight' = [flight EXCEPT ![k] = 0]
    /\ \A w \in Workers : worker[w].at = "putting" => MyKey(w) # k
    /\ UNCHANGED <<ledgerVars, user, artifact, record, worker>>

-----------------------------------------------------------------------------
(* The sweep, statement by statement. *)

Expire(a) ==
    /\ artifact[a].state = "ready" /\ artifact[a].expiry = "past"
    /\ artifact' = [artifact EXCEPT ![a].state = "expired", ![a].cleanup = "due"]
    /\ UNCHANGED <<ledgerVars, user, record, stored, flight, worker>>

TimeOut(a) ==
    /\ artifact[a].state \in {"pending", "generating"} /\ artifact[a].age = "old"
    /\ artifact' = [artifact EXCEPT ![a] = FailedRow(@)]
    /\ request' = CloseLinked(artifact[a].req, "failed")
    /\ UNCHANGED <<desk, user, record, stored, flight, worker>>

(* reconcileStrandedRequests: an artifact of the request ended undelivered   *)
(* and, looked at again under the lock of the request, none is live.         *)
LiveFor(r) == \E a \in Exports : artifact[a].req = r /\ artifact[a].state \in Live

ReconcileUnchecked(r) ==
    /\ \E a \in Exports : artifact[a].req = r /\ artifact[a].state \in {"revoked", "failed"}
    /\ request[r].status # "closed"
    /\ request' = CloseLinked(r, "failed")
    /\ UNCHANGED <<desk, user, artifact, record, stored, flight, worker>>

ReconcileFailedOnly(r) ==
    /\ \E a \in Exports : artifact[a].req = r /\ artifact[a].state = "failed"
    /\ request[r].status # "closed"
    /\ ~LiveFor(r)
    /\ request' = CloseLinked(r, "failed")
    /\ UNCHANGED <<desk, user, artifact, record, stored, flight, worker>>

Reconcile(r) ==
    /\ \E a \in Exports : artifact[a].req = r /\ artifact[a].state \in {"revoked", "failed"}
    /\ request[r].status # "closed"
    /\ ~LiveFor(r)
    /\ request' = CloseLinked(r, "failed")
    /\ UNCHANGED <<desk, user, artifact, record, stored, flight, worker>>

(* cleanupDueArtifacts: the object first, then the row. *)
KeyOf(a) == <<a, artifact[a].key>>

CleanupDueNotRevoked(a) == artifact[a].cleanup = "due" /\ artifact[a].state # "revoked"
CleanupDue(a) == artifact[a].cleanup = "due"

Cleanup(a) ==
    /\ CleanupDue(a)
    /\ stored' = stored \ {KeyOf(a)}
    /\ artifact' = [artifact EXCEPT ![a].cleanup = "done", ![a].key = 0]
    /\ UNCHANGED <<ledgerVars, user, record, flight, worker>>

(* The storage refused, or the row could not be written after it agreed. *)
CleanupRefused(a) ==
    /\ CleanupDue(a)
    /\ stored' \in {stored, stored \ {KeyOf(a)}}
    /\ LET n == artifact[a].refusals + 1 IN
       artifact' = [artifact EXCEPT ![a].refusals = n,
                       ![a].cleanup = IF n >= MaxCleanup THEN "dead" ELSE "due"]
    /\ UNCHANGED <<ledgerVars, user, record, flight, worker>>

(* reapAttemptObjects: ownership first (reaping_since), then the storage. *)
ReapClaim(k) ==
    /\ record[k].state = "armed" /\ record[k].left = 0
    /\ record' = [record EXCEPT ![k].state = "reaping"]
    /\ UNCHANGED <<ledgerVars, user, artifact, stored, flight, worker>>

Reap(k) ==
    /\ record[k].state = "reaping"
    /\ stored' = stored \ {k}
    /\ record' = [record EXCEPT ![k] = NoRecord]
    /\ UNCHANGED <<ledgerVars, user, artifact, flight, worker>>

ReapRefused(k) ==
    /\ record[k].state = "reaping"
    /\ stored' \in {stored, stored \ {k}}
    /\ LET n == record[k].refusals + 1 IN
       record' = [record EXCEPT ![k].refusals = n,
                     ![k].state = IF n >= MaxCleanup THEN "dead" ELSE "reaping"]
    /\ UNCHANGED <<ledgerVars, user, artifact, flight, worker>>

(* redriveDeadLettered, from the runbook. *)
Redrive ==
    /\ \/ \E a \in Exports : artifact[a].cleanup = "dead"
       \/ \E k \in Keys : record[k].state = "dead"
    /\ artifact' = [a \in Exports |->
           IF artifact[a].cleanup = "dead"
           THEN [artifact[a] EXCEPT !.cleanup = "due", !.refusals = 0] ELSE artifact[a]]
    /\ record' = [k \in Keys |->
           IF record[k].state = "dead"
           THEN [record[k] EXCEPT !.state = "reaping", !.refusals = 0] ELSE record[k]]
    /\ UNCHANGED <<ledgerVars, user, stored, flight, worker>>

-----------------------------------------------------------------------------
(* Time. *)

Down(n) == IF n > 0 THEN n - 1 ELSE 0

(* One unit passes.  A PUT ends within its deadline, and one that outlives   *)
(* its abort takes effect, or is lost, within another.                       *)
Tick ==
    /\ \A w \in Workers : worker[w].at = "putting" => flight[MyKey(w)] > UploadTimeout + 1
    /\ \A k \in Keys : flight[k] # 1
    /\ artifact' = [a \in Exports |-> [artifact[a] EXCEPT !.lease = Down(@)]]
    /\ record' = [k \in Keys |-> [record[k] EXCEPT !.left = Down(@)]]
    /\ flight' = [k \in Keys |-> Down(flight[k])]
    /\ worker' = [w \in Workers |-> [worker[w] EXCEPT !.left = Down(@)]]
    /\ UNCHANGED <<ledgerVars, user, stored>>

(* An hour, and then the two hours a generation may take, since the issue. *)
Ages(a) ==
    /\ \/ artifact[a].state # "none" /\ artifact[a].age = "new"
       \/ artifact[a].state \in {"pending", "generating"} /\ artifact[a].age = "hour"
    /\ artifact' = [artifact EXCEPT ![a].age = IF @ = "new" THEN "hour" ELSE "old"]
    /\ UNCHANGED <<ledgerVars, user, record, stored, flight, worker>>

(* expires_at passes. *)
Lapses(a) ==
    /\ artifact[a].state = "ready" /\ artifact[a].expiry = "ahead"
    /\ artifact' = [artifact EXCEPT ![a].expiry = "past"]
    /\ UNCHANGED <<ledgerVars, user, record, stored, flight, worker>>

-----------------------------------------------------------------------------
Sweep ==
    \/ \E a \in Exports : Expire(a) \/ TimeOut(a) \/ Cleanup(a) \/ CleanupRefused(a)
    \/ \E k \in Keys : ReapClaim(k) \/ Reap(k) \/ ReapRefused(k)
    \/ \E r \in Requests : Reconcile(r)

Account ==
    \/ \E s \in {"active", "suspended", "deleted"} : EpochBump(s) \/ Moderate(s)
    \/ \E a \in Exports, r \in Requests : Issue(a, r)

Environment ==
    \/ \E w \in Workers : Crash(w)
    \/ \E k \in Keys : LatePut(k)
    \/ \E a \in Exports : Ages(a) \/ Lapses(a)
    \/ Tick \/ Redrive

ExportNext ==
    \/ Account \/ Sweep \/ Environment
    \/ \E w \in Workers : Generate(w)
    \/ OperatorStep /\ UNCHANGED exportVars

Spec == Init /\ [][ExportNext]_vars

(* A PUT ends, the clock goes on, and every statement of the sweep runs     *)
(* again and again.  Nothing makes a worker take up or finish a generation. *)
Fairness ==
    /\ \A w \in Workers : WF_vars(PutAcknowledged(w) \/ PutFailed(w))
    /\ WF_vars(Tick)
    /\ \A a \in Exports :
        /\ WF_vars(Ages(a)) /\ WF_vars(Lapses(a)) /\ WF_vars(Expire(a)) /\ WF_vars(TimeOut(a))
        /\ WF_vars(Cleanup(a) \/ CleanupRefused(a))
    /\ \A k \in Keys :
        WF_vars(LatePut(k)) /\ WF_vars(ReapClaim(k)) /\ WF_vars(Reap(k) \/ ReapRefused(k))
    /\ \A r \in Requests : WF_vars(Reconcile(r))

FairSpec == Spec /\ Fairness

-----------------------------------------------------------------------------
(* Properties. *)

(* Somebody will delete object k: its deletion record, or the artifact that  *)
(* names it and has not been cleaned.                                        *)
Covered(k) ==
    \/ record[k].state # "none"
    \/ /\ artifact[k[1]].key = k[2]
       /\ artifact[k[1]].state = "ready" \/ artifact[k[1]].cleanup \in {"due", "dead"}

(* No object, and no PUT still able to create one, is left without a durable *)
(* record of its deletion, whatever crashes, fences or late uploads did.     *)
NoOrphan == \A k \in Keys : k \in stored \/ flight[k] > 0 => Covered(k)

(* A ready artifact is the upload of its latest attempt, and that object is  *)
(* in the bucket with nobody about to delete it: neither a superseded        *)
(* attempt nor the reaper ever wins against publication.                     *)
ReadyIsStored == \A a \in Exports :
    artifact[a].state = "ready" =>
        /\ artifact[a].key = artifact[a].attempt
        /\ KeyOf(a) \in stored
        /\ record[KeyOf(a)].state = "none"

(* A request the worker closed as failed has no export still coming, and one *)
(* it closed as completed had an export that became available.               *)
LedgerTruthful == \A r \in Requests :
    Closed(r) =>
        /\ request[r].outcome = "failed" => ~LiveFor(r)
        /\ request[r].outcome = "completed" =>
               \E a \in Exports : artifact[a].req = r /\ artifact[a].expiry # "unset"

(* Every object is deleted in the end, or its deletion waits for a person. *)
EventuallyDeleted == \A k \in Keys :
    k \in stored ~> \/ k \notin stored
                    \/ record[k].state = "dead"
                    \/ artifact[k[1]].cleanup = "dead"

(* A request that is being worked on is closed in the end, whatever became   *)
(* of the worker, the account and the exports issued for it.                 *)
RequestsClose == \A r \in Requests :
    request[r].status = "in_progress" ~> request[r].status = "closed"
=============================================================================
