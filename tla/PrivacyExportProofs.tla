------------------------- MODULE PrivacyExportProofs -------------------------
(***************************************************************************)
(* Theorems about the secure exports, their deletion, the ledger and the   *)
(* redemption (PrivacyLedger, PrivacyExport, ExportDelivery), for any      *)
(* exports, workers, requests, operators, sessions and downloads, and for  *)
(* any upload deadline, lease, cover and number of attempts.               *)
(*                                                                         *)
(* That no object is orphaned is an argument about timers.  A permit that  *)
(* is still fresh leaves its deletion record armed for two more upload     *)
(* deadlines (JobOK), so a PUT that starts under it ends before its record *)
(* runs out (KeyOK): the reaper never takes a record whose object may      *)
(* still appear.  A record is given up only for an artifact that names the *)
(* object and is not cleaned (Cover).                                      *)
(***************************************************************************)
EXTENDS ExportDelivery, FiniteSetTheorems, TLAPS

(* One artifact: nothing to clean while it is live, a key of its own        *)
(* attempts, and a row that is not issued yet has nothing.                  *)
RowOK(x) ==
    /\ x.state \in {"none"} \cup Live => x.cleanup = "none"
    /\ x.key <= x.attempt /\ x.attempt <= MaxAttempts
    /\ x.state = "none" => x.attempt = 0 /\ x.expiry = "unset" /\ x.transfer = "none"
    /\ x.state # "none" => x.req \in Requests

(* At most one artifact of the account is live. *)
OneLive(A) == \A a, b \in Exports : A[a].state \in Live /\ A[b].state \in Live => a = b

ArtifactsOK(A) ==
    /\ A \in [Exports -> Artifact]
    /\ \A a \in Exports : RowOK(A[a])
    /\ OneLive(A)

(* What a generation knows of its key where it stands. *)
JobKey(j) == <<j.art, j.attempt>>
JobOK(j, A, rec, fl, st) == j.at # "idle" =>
    /\ j.art \in Exports /\ j.attempt \in 1 .. A[j.art].attempt
    /\ j.at \in {"claimed", "collecting", "permitted", "uploaded"} => fl[JobKey(j)] = 0
    /\ j.at = "permitted" /\ j.left > 0 =>
          rec[JobKey(j)].state = "armed" /\ rec[JobKey(j)].left >= j.left + 2 * UploadTimeout
    /\ j.at = "putting" => fl[JobKey(j)] > 0
    /\ j.at = "uploaded" /\ rec[JobKey(j)].state = "armed" /\ A[j.art].cleanup = "none" =>
          JobKey(j) \in st

(* No two generations have the same key. *)
JobsOK(W, A, rec, fl, st) ==
    /\ W \in [Workers -> Job]
    /\ \A w \in Workers : JobOK(W[w], A, rec, fl, st)
    /\ \A v, w \in Workers :
          W[v].at # "idle" /\ W[w].at # "idle" /\ JobKey(W[v]) = JobKey(W[w]) => v = w

(* The artifact of row x will be deleted with the object that it names. *)
Names(x) == x.state = "ready" \/ x.cleanup \in {"due", "dead"}
Cover(A, rec, k) == rec[k].state # "none" \/ (A[k[1]].key = k[2] /\ Names(A[k[1]]))

(* A PUT under way ends before its deletion record runs out, and is of a    *)
(* key that was handed out.  An object is covered.                          *)
KeyOK(A, rec, fl, st, k) ==
    /\ fl[k] > 0 => /\ rec[k].state = "armed" /\ rec[k].left >= fl[k]
                    /\ k[2] <= A[k[1]].attempt
    /\ k \in st => Cover(A, rec, k)

Tables(rec, fl, st) == rec \in [Keys -> Record] /\ fl \in [Keys -> Nat] /\ st \subseteq Keys
KeysOK(A, rec, fl, st) == Tables(rec, fl, st) /\ \A k \in Keys : KeyOK(A, rec, fl, st, k)

ReadyOK(A, rec, st) == \A a \in Exports : A[a].state = "ready" =>
    /\ A[a].key = A[a].attempt
    /\ <<a, A[a].key>> \in st
    /\ rec[<<a, A[a].key>>].state = "none"

Core(A, rec, fl, st, W) ==
    /\ ArtifactsOK(A) /\ JobsOK(W, A, rec, fl, st)
    /\ KeysOK(A, rec, fl, st) /\ ReadyOK(A, rec, st)

(* The ledger against the artifacts. *)
LiveOf(A, r) == \E a \in Exports : A[a].req = r /\ A[a].state \in Live
RequestOK(q, A, r) ==
    /\ q.status = "closed" /\ q.outcome = "failed" => ~LiveOf(A, r)
    /\ q.status = "closed" /\ q.outcome = "completed" =>
          \E a \in Exports : A[a].req = r /\ A[a].expiry # "unset"
    /\ q.status = "none" => q.delivered = "no"
    /\ q.secure = "yes" => q.delivered # "manual"
    /\ q.delivered = "observed" =>
          \E a \in Exports : A[a].req = r /\ A[a].transfer = "completed"

LedgerOK(R, A) ==
    /\ R \in [Requests -> Request]
    /\ \A r \in Requests : RequestOK(R[r], A, r)
    /\ \A a \in Exports : A[a].state # "none" => R[A[a].req].status # "none"

UserOK == user \in [status : {"active", "suspended", "deleted"}, epoch : Nat]
DeskOK == desk \in [Admins -> Call]

IInv ==
    /\ UserOK /\ DeskOK
    /\ Core(artifact, record, flight, stored, worker)
    /\ LedgerOK(request, artifact)

-----------------------------------------------------------------------------
(* The redemption: a download is of an issued artifact, slots are counted   *)
(* exactly, a transfer ends once, and what was served is consumed.          *)
HoldingSet(D) == {d \in Downloads : D[d].at \in Holding}

(* A transfer has an outcome from its end until that is recorded. *)
Ends(x) == x.outcome # "none" <=> x.at = "recording"

DownloadsOK(D, A) ==
    /\ D \in [Downloads -> Download]
    /\ \A d \in Downloads : Ends(D[d])
    /\ \A d \in Downloads : D[d].at # "idle" => D[d].art \in Exports /\ A[D[d].art].state # "none"

ServedOK(sv, A) ==
    /\ sv \in [Exports -> Nat]
    /\ \A a \in Exports : sv[a] <= 1 /\ (sv[a] # 0 => A[a].state = "consumed")

DInv ==
    /\ IInv
    /\ session \in [Sessions -> {"live", "revoked"}]
    /\ DownloadsOK(download, artifact)
    /\ slots = Cardinality(HoldingSet(download)) /\ slots <= MaxDownloads
    /\ ServedOK(served, artifact)

-----------------------------------------------------------------------------
(* How the row of an artifact may move. *)

(* It never forgets: attempts, its request, its end, that it was due for    *)
(* cleaning, that it was available or was transferred.                      *)
RowKept(y, x) ==
    /\ x.attempt >= y.attempt
    /\ y.state # "none" => x.state # "none" /\ x.req = y.req
    /\ y.state \in Ended => x.state = y.state
    /\ y.cleanup # "none" => x.cleanup # "none"
    /\ y.expiry # "unset" => x.expiry # "unset"
    /\ y.transfer = "completed" => x.transfer = "completed"

NamesKept(y, x) == Names(y) => Names(x) /\ x.key = y.key

(* It comes neither into being, nor alive, nor ready. *)
NotReady(y, x) == x.state = "ready" => y.state = "ready" /\ x.key = y.key /\ x.attempt = y.attempt
NotNew(y, x) ==
    /\ y.state = "none" => x.state = "none"
    /\ x.state \in Live => y.state \in Live
    /\ NotReady(y, x)

RowMove(y, x) == x \in Artifact /\ RowOK(x) /\ RowKept(y, x) /\ NamesKept(y, x) /\ NotNew(y, x)

RowsKept(A, A2) == \A a \in Exports : RowKept(A[a], A2[a])
RowsNotNew(A, A2) == \A a \in Exports : NotNew(A[a], A2[a])

LEMMA RowStays ==
    ASSUME NEW y \in Artifact, RowOK(y) PROVE RowMove(y, y)
  BY DEF RowMove, RowKept, NamesKept, NotNew, NotReady, Artifact

LEMMA RowRevoked ==
    ASSUME NEW y \in Artifact, RowOK(y), y.state \in Live
    PROVE  RowMove(y, Revoked(y))
  <1>1. Revoked(y) \in Artifact
    BY DEF Revoked, Artifact, Live, Ended
  <1>2. /\ Revoked(y).state = "revoked" /\ Revoked(y).cleanup = "due" /\ Revoked(y).key = y.key
        /\ Revoked(y).attempt = y.attempt /\ Revoked(y).req = y.req
        /\ Revoked(y).expiry = y.expiry /\ Revoked(y).transfer = y.transfer
    BY DEF Revoked, Artifact
  <1>3. y.attempt \in Nat
    BY DEF Artifact
  <1> QED
    BY <1>1, <1>2, <1>3
       DEF RowMove, RowOK, RowKept, NamesKept, Names, NotNew, NotReady, Live, Ended

LEMMA RowFailed ==
    ASSUME NEW y \in Artifact, RowOK(y), y.state \in {"pending", "generating"}
    PROVE  RowMove(y, FailedRow(y)) /\ FailedRow(y).state \notin Live
  <1>1. FailedRow(y) \in Artifact
    BY DEF FailedRow, Artifact, Live, Ended
  <1>2. /\ FailedRow(y).state = "failed" /\ FailedRow(y).cleanup = "due"
        /\ FailedRow(y).key = y.key
        /\ FailedRow(y).attempt = y.attempt /\ FailedRow(y).req = y.req
        /\ FailedRow(y).expiry = y.expiry /\ FailedRow(y).transfer = y.transfer
    BY DEF FailedRow, Artifact
  <1>3. y.attempt \in Nat
    BY DEF Artifact
  <1> QED
    BY <1>1, <1>2, <1>3
       DEF RowMove, RowOK, RowKept, NamesKept, Names, NotNew, NotReady, Live, Ended

(* A ready artifact that expires, is consumed or fails to open. *)
LEMMA RowEnds ==
    ASSUME NEW y \in Artifact, RowOK(y), y.state = "ready",
           NEW s \in {"expired", "consumed", "failed"}
    PROVE  LET x == [y EXCEPT !.state = s, !.cleanup = "due"] IN RowMove(y, x) /\ x.state = s
  <1> DEFINE x == [y EXCEPT !.state = s, !.cleanup = "due"]
  <1>1. x \in Artifact
    BY DEF Artifact, Live, Ended
  <1>2. /\ x.state = s /\ x.cleanup = "due" /\ x.key = y.key
        /\ x.attempt = y.attempt /\ x.req = y.req
        /\ x.expiry = y.expiry /\ x.transfer = y.transfer
    BY DEF Artifact
  <1>3. y.attempt \in Nat
    BY DEF Artifact
  <1> HIDE DEF x
  <1>4. RowMove(y, x)
    BY <1>1, <1>2, <1>3 DEF RowMove, RowOK, RowKept, NamesKept, Names, NotNew, NotReady, Live, Ended
  <1> QED BY <1>2, <1>4 DEF x

(* A move that leaves alone what the invariant looks at. *)
SameRow(y, x) ==
    /\ x.state = y.state /\ x.cleanup = y.cleanup /\ x.key = y.key /\ x.attempt = y.attempt
    /\ x.req = y.req /\ x.expiry = y.expiry /\ x.transfer = y.transfer

LEMMA RowSame ==
    ASSUME NEW y \in Artifact, RowOK(y), NEW x \in Artifact, SameRow(y, x)
    PROVE  RowMove(y, x)
  <1>1. y.attempt \in Nat
    BY DEF Artifact
  <1> QED BY <1>1 DEF SameRow, RowMove, RowOK, RowKept, NamesKept, Names, NotNew, NotReady

LEMMA RowLease ==
    ASSUME NEW y \in Artifact, RowOK(y), NEW n \in Nat
    PROVE  RowMove(y, [y EXCEPT !.lease = n])
  <1>1. [y EXCEPT !.lease = n] \in Artifact /\ SameRow(y, [y EXCEPT !.lease = n])
    BY DEF Artifact, SameRow
  <1> QED BY <1>1, RowSame

LEMMA RowAge ==
    ASSUME NEW y \in Artifact, RowOK(y), NEW g \in {"new", "hour", "old"}
    PROVE  RowMove(y, [y EXCEPT !.age = g])
  <1>1. [y EXCEPT !.age = g] \in Artifact /\ SameRow(y, [y EXCEPT !.age = g])
    BY DEF Artifact, SameRow
  <1> QED BY <1>1, RowSame

(* expires_at passes; a transfer is recorded. *)
LEMMA RowLapses ==
    ASSUME NEW y \in Artifact, RowOK(y), y.state # "none"
    PROVE  RowMove(y, [y EXCEPT !.expiry = "past"])
  <1> DEFINE x == [y EXCEPT !.expiry = "past"]
  <1>1. x \in Artifact
    BY DEF Artifact
  <1>2. /\ x.state = y.state /\ x.cleanup = y.cleanup /\ x.key = y.key
        /\ x.attempt = y.attempt /\ x.req = y.req
        /\ x.expiry = "past" /\ x.transfer = y.transfer
    BY DEF Artifact
  <1>3. y.attempt \in Nat
    BY DEF Artifact
  <1> HIDE DEF x
  <1>4. RowMove(y, x)
    BY <1>1, <1>2, <1>3 DEF RowMove, RowOK, RowKept, NamesKept, Names, NotNew, NotReady
  <1> QED BY <1>4 DEF x

LEMMA RowTransfer ==
    ASSUME NEW y \in Artifact, RowOK(y), y.state # "none", y.transfer = "none",
           NEW t \in {"none", "completed", "aborted"}
    PROVE  RowMove(y, [y EXCEPT !.transfer = t])
  <1> DEFINE x == [y EXCEPT !.transfer = t]
  <1>1. x \in Artifact
    BY DEF Artifact
  <1>2. /\ x.state = y.state /\ x.cleanup = y.cleanup /\ x.key = y.key
        /\ x.attempt = y.attempt /\ x.req = y.req /\ x.expiry = y.expiry
    BY DEF Artifact
  <1>3. y.attempt \in Nat
    BY DEF Artifact
  <1> HIDE DEF x
  <1>4. RowMove(y, x)
    BY <1>1, <1>2, <1>3 DEF RowMove, RowOK, RowKept, NamesKept, Names, NotNew, NotReady
  <1> QED BY <1>4 DEF x

(* retryLater, and the claim and the key of an attempt. *)
LEMMA RowRetried ==
    ASSUME NEW y \in Artifact, RowOK(y), y.state = "generating",
           NEW n \in 0 .. (MaxFailures - 1)
    PROVE  RowMove(y, [y EXCEPT !.state = "pending", !.failures = n, !.owner = NoWorker,
                                !.lease = 0])
  <1> DEFINE x == [y EXCEPT !.state = "pending", !.failures = n, !.owner = NoWorker,
                            !.lease = 0]
  <1>1. x \in Artifact
    BY DEF Artifact, Live
  <1>2. /\ x.state = "pending" /\ x.cleanup = y.cleanup /\ x.key = y.key
        /\ x.attempt = y.attempt /\ x.req = y.req
        /\ x.expiry = y.expiry /\ x.transfer = y.transfer
    BY DEF Artifact
  <1>3. y.attempt \in Nat
    BY DEF Artifact
  <1> HIDE DEF x
  <1>4. RowMove(y, x)
    BY <1>1, <1>2, <1>3 DEF RowMove, RowOK, RowKept, NamesKept, Names, NotNew, NotReady, Live, Ended
  <1> QED BY <1>4 DEF x

LEMMA RowClaimed ==
    ASSUME NEW y \in Artifact, RowOK(y), y.state \in {"pending", "generating"},
           y.attempt < MaxAttempts, NEW w \in Workers
    PROVE  RowMove(y, [y EXCEPT !.state = "generating", !.attempt = y.attempt + 1, !.owner = w,
                                !.lease = LeaseTtl, !.key = 0])
  <1> DEFINE x == [y EXCEPT !.state = "generating", !.attempt = y.attempt + 1, !.owner = w,
                            !.lease = LeaseTtl, !.key = 0]
  <1>1. y.attempt \in Nat
    BY DEF Artifact
  <1>2. x \in Artifact
    <2>1. y.attempt + 1 \in Nat /\ LeaseTtl \in Nat
      BY <1>1, ExportBounds
    <2> QED BY <2>1 DEF Artifact, Live
  <1>3. /\ x.state = "generating" /\ x.cleanup = y.cleanup /\ x.key = 0
        /\ x.attempt = y.attempt + 1 /\ x.req = y.req
        /\ x.expiry = y.expiry /\ x.transfer = y.transfer
    BY DEF Artifact
  <1> HIDE DEF x
  <1>4. RowMove(y, x)
    BY <1>1, <1>2, <1>3, ExportBounds
       DEF RowMove, RowOK, RowKept, NamesKept, Names, NotNew, NotReady, Live, Ended
  <1> QED BY <1>4 DEF x

LEMMA RowKeyed ==
    ASSUME NEW y \in Artifact, RowOK(y), y.state = "generating"
    PROVE  RowMove(y, [y EXCEPT !.key = y.attempt])
  <1> DEFINE x == [y EXCEPT !.key = y.attempt]
  <1>1. y.attempt \in Nat
    BY DEF Artifact
  <1>2. x \in Artifact
    BY <1>1 DEF Artifact
  <1>3. /\ x.state = y.state /\ x.cleanup = y.cleanup /\ x.key = y.attempt
        /\ x.attempt = y.attempt /\ x.req = y.req
        /\ x.expiry = y.expiry /\ x.transfer = y.transfer
    BY DEF Artifact
  <1> HIDE DEF x
  <1>4. RowMove(y, x)
    BY <1>1, <1>2, <1>3 DEF RowMove, RowOK, RowKept, NamesKept, Names, NotNew, NotReady, Live, Ended
  <1> QED BY <1>4 DEF x

(* A deletion that was refused, or is tried again from the runbook. *)
LEMMA RowRefused ==
    ASSUME NEW y \in Artifact, RowOK(y), y.cleanup \in {"due", "dead"},
           NEW c \in {"due", "dead"}, NEW n \in Nat
    PROVE  RowMove(y, [y EXCEPT !.cleanup = c, !.refusals = n])
  <1> DEFINE x == [y EXCEPT !.cleanup = c, !.refusals = n]
  <1>1. y.attempt \in Nat
    BY DEF Artifact
  <1>2. x \in Artifact
    BY DEF Artifact
  <1>3. /\ x.state = y.state /\ x.cleanup = c /\ x.key = y.key
        /\ x.attempt = y.attempt /\ x.req = y.req
        /\ x.expiry = y.expiry /\ x.transfer = y.transfer
    BY DEF Artifact
  <1> HIDE DEF x
  <1>4. RowMove(y, x)
    BY <1>1, <1>2, <1>3 DEF RowMove, RowOK, RowKept, NamesKept, Names, NotNew, NotReady, Live, Ended
  <1> QED BY <1>4 DEF x

-----------------------------------------------------------------------------
(* The frame: what one of the tables may do while the others stand still.   *)

(* Rows that are issued or move as above, where an object that a row names  *)
(* stays named.                                                             *)
Moves(A, A2, st) ==
    /\ ArtifactsOK(A2)
    /\ RowsKept(A, A2)
    /\ \A a \in Exports : NotReady(A[a], A2[a])
    /\ \A a \in Exports : <<a, A[a].key>> \in st => NamesKept(A[a], A2[a])

LEMMA JobKept ==
    ASSUME NEW A, ArtifactsOK(A), NEW A2, ArtifactsOK(A2), RowsKept(A, A2),
           NEW rec, NEW fl, NEW st, NEW j, JobOK(j, A, rec, fl, st)
    PROVE  JobOK(j, A2, rec, fl, st)
  <1> SUFFICES ASSUME j.at # "idle" PROVE JobOK(j, A2, rec, fl, st)
    BY DEF JobOK
  <1>1. j.art \in Exports /\ j.attempt \in 1 .. A[j.art].attempt
    BY DEF JobOK
  <1>2. A[j.art].attempt \in Nat /\ A2[j.art].attempt \in Nat
    BY <1>1 DEF ArtifactsOK, Artifact
  <1>3. RowKept(A[j.art], A2[j.art])
    BY <1>1 DEF RowsKept
  <1>4. j.attempt \in 1 .. A2[j.art].attempt
    BY <1>1, <1>2, <1>3 DEF RowKept
  <1>5. A2[j.art].cleanup = "none" => A[j.art].cleanup = "none"
    BY <1>3 DEF RowKept
  <1> QED BY <1>1, <1>4, <1>5 DEF JobOK

LEMMA KeyKept ==
    ASSUME NEW A, ArtifactsOK(A), NEW rec, NEW fl, NEW st, NEW A2, Moves(A, A2, st),
           NEW k \in Keys, KeyOK(A, rec, fl, st, k)
    PROVE  KeyOK(A2, rec, fl, st, k)
  <1>1. k[1] \in Exports /\ k[2] \in Nat /\ k = <<k[1], k[2]>>
    BY ExportBounds DEF Keys
  <1>2. A[k[1]].attempt \in Nat /\ A2[k[1]].attempt \in Nat
    BY <1>1 DEF ArtifactsOK, Artifact, Moves
  <1>3. RowKept(A[k[1]], A2[k[1]])
    BY <1>1 DEF Moves, RowsKept
  <1>4. k[2] <= A[k[1]].attempt => k[2] <= A2[k[1]].attempt
    BY <1>1, <1>2, <1>3 DEF RowKept
  <1>5. k \in st => Cover(A2, rec, k)
    <2> SUFFICES ASSUME k \in st, rec[k].state = "none" PROVE Cover(A2, rec, k)
      BY DEF Cover
    <2>1. A[k[1]].key = k[2] /\ Names(A[k[1]])
      BY DEF KeyOK, Cover
    <2>2. NamesKept(A[k[1]], A2[k[1]])
      BY <1>1, <2>1 DEF Moves
    <2> QED BY <2>1, <2>2 DEF NamesKept, Cover
  <1> QED BY <1>4, <1>5 DEF KeyOK

LEMMA CoreRows ==
    ASSUME NEW A, NEW rec, NEW fl, NEW st, NEW W, Core(A, rec, fl, st, W),
           NEW A2, Moves(A, A2, st)
    PROVE  Core(A2, rec, fl, st, W)
  <1>1. ArtifactsOK(A) /\ ArtifactsOK(A2) /\ RowsKept(A, A2)
    BY DEF Core, Moves
  <1>2. JobsOK(W, A2, rec, fl, st)
    BY <1>1, JobKept DEF Core, JobsOK
  <1>3. KeysOK(A2, rec, fl, st)
    BY <1>1, KeyKept DEF Core, KeysOK
  <1>4. ReadyOK(A2, rec, st)
    BY DEF Core, ReadyOK, Moves, NotReady
  <1> QED BY <1>1, <1>2, <1>3, <1>4 DEF Core

LEMMA LedgerRows ==
    ASSUME NEW A, ArtifactsOK(A), NEW A2, RowsKept(A, A2), RowsNotNew(A, A2),
           NEW R, LedgerOK(R, A)
    PROVE  LedgerOK(R, A2)
  <1>1. ASSUME NEW r \in Requests PROVE RequestOK(R[r], A2, r)
    <2>1. LiveOf(A2, r) => LiveOf(A, r)
      <3> SUFFICES ASSUME NEW a \in Exports, A2[a].req = r, A2[a].state \in Live
                   PROVE  LiveOf(A, r)
        BY DEF LiveOf
      <3>1. A[a].state \in Live /\ A[a].state # "none"
        BY DEF RowsNotNew, NotNew, Live
      <3> QED BY <3>1 DEF LiveOf, RowsKept, RowKept
    <2>2. ASSUME NEW a \in Exports, A[a].req = r, A[a].expiry # "unset"
          PROVE  A2[a].req = r /\ A2[a].expiry # "unset"
      BY <2>2 DEF ArtifactsOK, RowOK, RowsKept, RowKept
    <2>3. ASSUME NEW a \in Exports, A[a].req = r, A[a].transfer = "completed"
          PROVE  A2[a].req = r /\ A2[a].transfer = "completed"
      BY <2>3 DEF ArtifactsOK, RowOK, RowsKept, RowKept
    <2>4. RequestOK(R[r], A, r)
      BY DEF LedgerOK
    <2> QED BY <2>1, <2>2, <2>3, <2>4 DEF RequestOK
  <1>2. ASSUME NEW a \in Exports, A2[a].state # "none" PROVE R[A2[a].req].status # "none"
    BY <1>2 DEF LedgerOK, RowsKept, RowKept, RowsNotNew, NotNew
  <1> QED BY <1>1, <1>2 DEF LedgerOK

(* All rows move, or one of them. *)
RowsMove(A, A2, st) == Moves(A, A2, st) /\ RowsNotNew(A, A2)

LEMMA AllRows ==
    ASSUME NEW A, ArtifactsOK(A), NEW st, NEW A2 \in [Exports -> Artifact],
           \A a \in Exports : RowMove(A[a], A2[a])
    PROVE  RowsMove(A, A2, st)
  <1>1. RowsKept(A, A2) /\ RowsNotNew(A, A2)
    BY DEF RowMove, RowsKept, RowsNotNew
  <1>2. ArtifactsOK(A2)
    BY DEF RowMove, ArtifactsOK, OneLive, NotNew
  <1> QED BY <1>1, <1>2 DEF RowMove, RowsMove, Moves, NotNew

LEMMA OneRow ==
    ASSUME NEW A, ArtifactsOK(A), NEW st, NEW a \in Exports, NEW x, RowMove(A[a], x)
    PROVE  RowsMove(A, [A EXCEPT ![a] = x], st)
  <1> DEFINE A2 == [A EXCEPT ![a] = x]
  <1>1. A \in [Exports -> Artifact] /\ x \in Artifact
    BY DEF ArtifactsOK, RowMove
  <1>2. A2 \in [Exports -> Artifact] /\ A2[a] = x /\ \A b \in Exports : b # a => A2[b] = A[b]
    BY <1>1
  <1>3. ASSUME NEW b \in Exports PROVE RowMove(A[b], A2[b])
    <2>1. CASE b = a
      BY <1>2, <2>1
    <2>2. CASE b # a
      BY <1>1, <1>2, <2>2, RowStays DEF ArtifactsOK
    <2> QED BY <2>1, <2>2
  <1> HIDE DEF A2
  <1>4. RowsMove(A, A2, st)
    BY <1>2, <1>3, AllRows
  <1> QED BY <1>4 DEF A2

LEMMA NoRow ==
    ASSUME NEW A, ArtifactsOK(A) PROVE RowsKept(A, A)
  BY RowStays DEF ArtifactsOK, RowsKept, RowMove

(* The record, the PUT and the object of key k change to what the invariant *)
(* wants of them, and of the generations with that key.                     *)
KeyAt(A, W, rec, fl, st, k) ==
    /\ KeyOK(A, rec, fl, st, k)
    /\ A[k[1]].state = "ready" /\ A[k[1]].key = k[2] => k \in st /\ rec[k].state = "none"
    /\ \A w \in Workers : W[w].at # "idle" /\ JobKey(W[w]) = k => JobOK(W[w], A, rec, fl, st)

SameKey(rec, fl, st, rec2, fl2, st2, k) ==
    rec2[k] = rec[k] /\ fl2[k] = fl[k] /\ (k \in st2 <=> k \in st)

KeysStep(A, W, rec, fl, st, rec2, fl2, st2) ==
    /\ Tables(rec2, fl2, st2)
    /\ \A k \in Keys : \/ SameKey(rec, fl, st, rec2, fl2, st2, k)
                       \/ KeyAt(A, W, rec2, fl2, st2, k)

LEMMA JobKeyIsKey ==
    ASSUME NEW A, ArtifactsOK(A), NEW rec, NEW fl, NEW st, NEW j, j.at # "idle",
           JobOK(j, A, rec, fl, st)
    PROVE  JobKey(j) \in Keys /\ JobKey(j)[1] = j.art /\ JobKey(j)[2] = j.attempt
  <1>1. j.art \in Exports /\ j.attempt \in 1 .. A[j.art].attempt
    BY DEF JobOK
  <1>2. A[j.art].attempt \in Nat /\ A[j.art].attempt <= MaxAttempts
    BY <1>1 DEF ArtifactsOK, Artifact, RowOK
  <1>3. j.attempt \in 1 .. MaxAttempts
    BY <1>1, <1>2, ExportBounds
  <1> QED BY <1>1, <1>3 DEF Keys, JobKey

LEMMA CoreKeys ==
    ASSUME NEW A, NEW rec, NEW fl, NEW st, NEW W, Core(A, rec, fl, st, W),
           NEW rec2, NEW fl2, NEW st2, KeysStep(A, W, rec, fl, st, rec2, fl2, st2)
    PROVE  Core(A, rec2, fl2, st2, W)
  <1>1. ArtifactsOK(A) /\ Tables(rec, fl, st) /\ Tables(rec2, fl2, st2)
    BY DEF Core, KeysOK, KeysStep
  <1>2. ASSUME NEW w \in Workers PROVE JobOK(W[w], A, rec2, fl2, st2)
    <2> SUFFICES ASSUME W[w].at # "idle" PROVE JobOK(W[w], A, rec2, fl2, st2)
      BY DEF JobOK
    <2> DEFINE k == JobKey(W[w])
    <2>1. JobOK(W[w], A, rec, fl, st)
      BY DEF Core, JobsOK
    <2>2. k \in Keys
      BY <1>1, <2>1, JobKeyIsKey
    <2> HIDE DEF k
    <2>3. CASE SameKey(rec, fl, st, rec2, fl2, st2, k)
      BY <2>1, <2>3 DEF SameKey, JobOK, k
    <2>4. CASE KeyAt(A, W, rec2, fl2, st2, k)
      BY <2>4 DEF KeyAt, k
    <2> QED BY <2>2, <2>3, <2>4 DEF KeysStep
  <1>3. ASSUME NEW k \in Keys PROVE KeyOK(A, rec2, fl2, st2, k)
    <2>1. CASE SameKey(rec, fl, st, rec2, fl2, st2, k)
      BY <2>1 DEF SameKey, Core, KeysOK, KeyOK, Cover
    <2>2. CASE KeyAt(A, W, rec2, fl2, st2, k)
      BY <2>2 DEF KeyAt
    <2> QED BY <2>1, <2>2 DEF KeysStep
  <1>4. ASSUME NEW a \in Exports, A[a].state = "ready"
        PROVE  /\ A[a].key = A[a].attempt
               /\ <<a, A[a].key>> \in st2
               /\ rec2[<<a, A[a].key>>].state = "none"
    <2> DEFINE k == <<a, A[a].key>>
    <2>1. A[a].key = A[a].attempt /\ k \in st /\ rec[k].state = "none"
      BY <1>4 DEF Core, ReadyOK
    <2>2. k \in Keys /\ k[1] = a /\ k[2] = A[a].key
      BY <1>1, <2>1 DEF Tables
    <2> HIDE DEF k
    <2>3. k \in st2 /\ rec2[k].state = "none"
      <3>1. CASE SameKey(rec, fl, st, rec2, fl2, st2, k)
        BY <2>1, <3>1 DEF SameKey
      <3>2. CASE KeyAt(A, W, rec2, fl2, st2, k)
        BY <1>4, <2>2, <3>2 DEF KeyAt
      <3> QED BY <2>2, <3>1, <3>2 DEF KeysStep
    <2> QED BY <2>1, <2>3 DEF k
  <1> QED BY <1>1, <1>2, <1>3, <1>4 DEF Core, JobsOK, KeysOK, ReadyOK

(* A worker goes where its key allows, or starts with a new one. *)
LEMMA CoreWorker ==
    ASSUME NEW A, NEW rec, NEW fl, NEW st, NEW W, Core(A, rec, fl, st, W),
           NEW w \in Workers, NEW x \in Job, JobOK(x, A, rec, fl, st),
           x.at = "idle" \/ \A v \in Workers \ {w} :
               W[v].at # "idle" => JobKey(W[v]) # JobKey(x)
    PROVE  Core(A, rec, fl, st, [W EXCEPT ![w] = x])
  <1> DEFINE W2 == [W EXCEPT ![w] = x]
  <1>1. JobsOK(W, A, rec, fl, st)
    BY DEF Core
  <1>2. W2 \in [Workers -> Job] /\ W2[w] = x /\ \A v \in Workers : v # w => W2[v] = W[v]
    BY <1>1 DEF JobsOK
  <1> HIDE DEF W2
  <1>3. \A v \in Workers : JobOK(W2[v], A, rec, fl, st)
    BY <1>1, <1>2 DEF JobsOK
  <1>4. ASSUME NEW u \in Workers, NEW v \in Workers, W2[u].at # "idle", W2[v].at # "idle",
               JobKey(W2[u]) = JobKey(W2[v])
        PROVE  u = v
    <2>1. CASE u = w /\ v # w
      BY <1>2, <1>4, <2>1
    <2>2. CASE v = w /\ u # w
      BY <1>2, <1>4, <2>2
    <2>3. CASE u # w /\ v # w
      BY <1>1, <1>2, <1>4, <2>3 DEF JobsOK
    <2> QED BY <2>1, <2>2, <2>3
  <1>5. JobsOK(W2, A, rec, fl, st)
    BY <1>2, <1>3, <1>4 DEF JobsOK
  <1>6. Core(A, rec, fl, st, W2)
    BY <1>5 DEF Core
  <1> QED BY <1>6 DEF W2

LEMMA NoJobIsIdle == NoJob \in Job /\ NoJob.at = "idle"
  BY DEF NoJob, Job

LEMMA CoreDone ==
    ASSUME NEW A, NEW rec, NEW fl, NEW st, NEW W, Core(A, rec, fl, st, W), NEW w \in Workers
    PROVE  Core(A, rec, fl, st, [W EXCEPT ![w] = NoJob])
  <1>1. JobOK(NoJob, A, rec, fl, st)
    BY NoJobIsIdle DEF JobOK
  <1> QED BY <1>1, NoJobIsIdle, CoreWorker

LEMMA OthersDiffer ==
    ASSUME NEW A, NEW rec, NEW fl, NEW st, NEW W, Core(A, rec, fl, st, W),
           NEW w \in Workers, W[w].at # "idle", NEW v \in Workers \ {w}, W[v].at # "idle"
    PROVE  JobKey(W[v]) # JobKey(W[w])
  BY DEF Core, JobsOK

(* A worker moves on with its key. *)
LEMMA CoreGoes ==
    ASSUME NEW A, NEW rec, NEW fl, NEW st, NEW W, Core(A, rec, fl, st, W),
           NEW w \in Workers, W[w].at # "idle", NEW x \in Job, JobKey(x) = JobKey(W[w]),
           JobOK(x, A, rec, fl, st)
    PROVE  Core(A, rec, fl, st, [W EXCEPT ![w] = x])
  BY OthersDiffer, CoreWorker

(* A worker moves on while the record, the PUT or the object of its key     *)
(* changes.                                                                 *)
OnlyKey(rec, fl, st, rec2, fl2, st2, k) ==
    /\ Tables(rec2, fl2, st2)
    /\ \A l \in Keys : l # k => SameKey(rec, fl, st, rec2, fl2, st2, l)

GoesOn(W, w, x, k) == W[w].at # "idle" /\ x \in Job /\ JobKey(W[w]) = k /\ JobKey(x) = k

Unready(A, k) == ~(A[k[1]].state = "ready" /\ A[k[1]].key = k[2])

LEMMA CoreMine ==
    ASSUME NEW A, NEW rec, NEW fl, NEW st, NEW W, Core(A, rec, fl, st, W),
           NEW w \in Workers, NEW x, NEW k, GoesOn(W, w, x, k),
           NEW rec2, NEW fl2, NEW st2, OnlyKey(rec, fl, st, rec2, fl2, st2, k),
           KeyOK(A, rec2, fl2, st2, k), Unready(A, k), JobOK(x, A, rec2, fl2, st2)
    PROVE  Core(A, rec2, fl2, st2, [W EXCEPT ![w] = x])
  <1> DEFINE W1 == [W EXCEPT ![w] = NoJob]
  <1>1. JobsOK(W, A, rec, fl, st) /\ ArtifactsOK(A) /\ W[w].at # "idle" /\ k = JobKey(W[w])
        /\ x \in Job /\ JobKey(x) = k
    BY DEF Core, GoesOn
  <1>2. Core(A, rec, fl, st, W1)
    BY CoreDone
  <1>3. /\ W1[w].at = "idle" /\ \A v \in Workers : v # w => W1[v] = W[v]
        /\ [W1 EXCEPT ![w] = x] = [W EXCEPT ![w] = x]
    BY <1>1, NoJobIsIdle DEF JobsOK
  <1> HIDE DEF W1
  <1>4. ASSUME NEW v \in Workers, W1[v].at # "idle" PROVE JobKey(W1[v]) # k
    <2>1. v # w
      BY <1>3, <1>4
    <2> QED BY <1>1, <1>3, <1>4, <2>1, OthersDiffer
  <1>5. KeyAt(A, W1, rec2, fl2, st2, k)
    BY <1>4 DEF KeyAt, Unready
  <1>6. KeysStep(A, W1, rec, fl, st, rec2, fl2, st2)
    BY <1>5 DEF KeysStep, OnlyKey
  <1>7. Core(A, rec2, fl2, st2, W1)
    BY <1>2, <1>6, CoreKeys
  <1>8. Core(A, rec2, fl2, st2, [W1 EXCEPT ![w] = x])
    BY <1>1, <1>4, <1>7, CoreWorker
  <1> QED BY <1>3, <1>8

-----------------------------------------------------------------------------
(* The ledger.                                                              *)

LEMMA OneRequest ==
    ASSUME NEW R, NEW A, LedgerOK(R, A),
           NEW r \in Requests, NEW q \in Request, RequestOK(q, A, r), q.status # "none"
    PROVE  LedgerOK([R EXCEPT ![r] = q], A)
  <1> DEFINE R2 == [R EXCEPT ![r] = q]
  <1>1. R \in [Requests -> Request]
    BY DEF LedgerOK
  <1>2. /\ R2 \in [Requests -> Request] /\ R2[r] = q
        /\ \A p \in Requests : p # r => R2[p] = R[p]
    BY <1>1
  <1>3. ASSUME NEW p, R[p].status # "none" PROVE R2[p].status # "none"
    BY <1>1, <1>3
  <1> HIDE DEF R2
  <1>4. \A p \in Requests : RequestOK(R2[p], A, p)
    BY <1>2 DEF LedgerOK
  <1>5. LedgerOK(R2, A)
    BY <1>2, <1>3, <1>4 DEF LedgerOK
  <1> QED BY <1>5 DEF R2

(* The worker closes a request: as failed when nothing of it is live, as    *)
(* completed when an export of it was available.                            *)
LEMMA ClosedRequest ==
    ASSUME NEW q \in Request, NEW o \in {"completed", "failed", "refused"}
    PROVE  LET x == [q EXCEPT !.status = "closed", !.outcome = o] IN
           /\ x \in Request /\ x.status = "closed" /\ x.outcome = o
           /\ x.secure = q.secure /\ x.delivered = q.delivered
  BY DEF Request

LEMMA ClosedOK ==
    ASSUME NEW A, NEW r \in Requests, NEW q \in Request, RequestOK(q, A, r),
           NEW o \in {"completed", "failed", "refused"},
           o = "failed" => ~LiveOf(A, r),
           o = "completed" => \E a \in Exports : A[a].req = r /\ A[a].expiry # "unset"
    PROVE  LET x == [q EXCEPT !.status = "closed", !.outcome = o] IN
           x \in Request /\ RequestOK(x, A, r) /\ x.status # "none"
  <1> DEFINE x == [q EXCEPT !.status = "closed", !.outcome = o]
  <1>1. /\ x \in Request /\ x.status = "closed" /\ x.outcome = o
        /\ x.secure = q.secure /\ x.delivered = q.delivered
    BY ClosedRequest
  <1> HIDE DEF x
  <1>2. RequestOK(x, A, r)
    BY <1>1 DEF RequestOK
  <1>3. x \in Request /\ RequestOK(x, A, r) /\ x.status # "none"
    BY <1>1, <1>2
  <1> QED BY <1>3 DEF x

LEMMA CloseLinkedOK ==
    ASSUME NEW A, LedgerOK(request, A), NEW r \in Requests, NEW o \in {"completed", "failed"},
           o = "failed" => ~LiveOf(A, r),
           o = "completed" => \E a \in Exports : A[a].req = r /\ A[a].expiry # "unset"
    PROVE  LedgerOK(CloseLinked(r, o), A)
  <1>1. r # None
    BY NoneIsNoRequest
  <1>2. CASE request[r].status = "closed"
    BY <1>1, <1>2 DEF CloseLinked
  <1>3. CASE request[r].status # "closed"
    <2> DEFINE x == [request[r] EXCEPT !.status = "closed", !.outcome = o]
    <2>1. request \in [Requests -> Request] /\ RequestOK(request[r], A, r)
      BY DEF LedgerOK
    <2>2. x \in Request /\ RequestOK(x, A, r) /\ x.status # "none"
      BY <2>1, ClosedOK
    <2>3. CloseLinked(r, o) = [request EXCEPT ![r] = x]
      BY <1>1, <1>3, <2>1 DEF CloseLinked
    <2> HIDE DEF x
    <2>4. LedgerOK([request EXCEPT ![r] = x], A)
      BY <2>2, OneRequest
    <2> QED BY <2>3, <2>4
  <1> QED BY <1>2, <1>3

(* An artifact that leaves the live ones was the only one.                  *)
LEMMA NoneLive ==
    ASSUME NEW A, ArtifactsOK(A), NEW A2, RowsNotNew(A, A2), NEW a \in Exports,
           A[a].state \in Live, A2[a].state \notin Live, NEW r
    PROVE  ~LiveOf(A2, r)
  BY DEF ArtifactsOK, OneLive, RowsNotNew, NotNew, LiveOf

(* A step of an operator. *)
LEMMA StepOperator ==
    ASSUME DeskOK, LedgerOK(request, artifact), OperatorStep
    PROVE  DeskOK' /\ LedgerOK(request', artifact)
  <1> USE DEF DeskOK
  <1>1. request \in [Requests -> Request] /\ \A r \in Requests : RequestOK(request[r], artifact, r)
    BY DEF LedgerOK
  <1>0. NoCall \in Call
    BY DEF NoCall, Call
  <1>2. ASSUME NEW r \in Requests, CreateRequest(r) PROVE DeskOK' /\ LedgerOK(request', artifact)
    <2> DEFINE x == [request[r] EXCEPT !.status = "open"]
    <2>1. /\ x \in Request /\ x.status = "open"
          /\ x.secure = request[r].secure /\ x.delivered = request[r].delivered
      BY <1>1 DEF Request
    <2>2. request' = [request EXCEPT ![r] = x] /\ desk' = desk
      BY <1>2 DEF CreateRequest
    <2> HIDE DEF x
    <2>3. RequestOK(x, artifact, r)
      BY <1>1, <2>1 DEF RequestOK
    <2> QED BY <2>1, <2>2, <2>3, OneRequest
  <1>3. ASSUME NEW r \in Requests, MarkDelivered(r) PROVE DeskOK' /\ LedgerOK(request', artifact)
    <2> DEFINE x == [request[r] EXCEPT !.delivered = "manual"]
    <2>1. /\ x \in Request /\ x.status = request[r].status /\ x.outcome = request[r].outcome
          /\ x.secure = request[r].secure /\ x.delivered = "manual"
      BY <1>1 DEF Request
    <2>2. /\ request' = [request EXCEPT ![r] = x] /\ desk' = desk
          /\ request[r].status # "none" /\ request[r].secure = "no"
      BY <1>3 DEF MarkDelivered
    <2> HIDE DEF x
    <2>3. RequestOK(x, artifact, r)
      BY <1>1, <2>1, <2>2 DEF RequestOK
    <2> QED BY <2>1, <2>2, <2>3, OneRequest
  <1>4. ASSUME NEW m \in Admins, NEW r \in Requests, AcknowledgeLoad(m, r) \/ CloseLoad(m, r)
        PROVE  DeskOK' /\ LedgerOK(request', artifact)
    <2>1. [op |-> "acknowledge", req |-> r] \in Call /\ [op |-> "close", req |-> r] \in Call
      BY DEF Call
    <2> QED BY <1>4, <2>1 DEF AcknowledgeLoad, CloseLoad
  <1>5. ASSUME NEW m \in Admins, AcknowledgeWrite(m)
        PROVE  DeskOK' /\ LedgerOK(request', artifact)
    <2> DEFINE r == desk[m].req
               x == [request[r] EXCEPT !.status = "acknowledged"]
    <2>1. /\ request' = [request EXCEPT ![r].status = "acknowledged"]
          /\ desk' = [desk EXCEPT ![m] = NoCall]
      BY <1>5 DEF AcknowledgeWrite
    <2>2. DeskOK'
      BY <1>0, <2>1
    <2> HIDE DEF r
    <2>3. CASE r \in Requests
      <3>1. /\ x \in Request /\ x.status = "acknowledged"
            /\ x.secure = request[r].secure /\ x.delivered = request[r].delivered
        BY <1>1, <2>3 DEF Request
      <3>2. request' = [request EXCEPT ![r] = x]
        BY <2>1
      <3> HIDE DEF x
      <3>3. RequestOK(x, artifact, r)
        BY <1>1, <2>3, <3>1 DEF RequestOK
      <3> QED BY <2>2, <2>3, <3>1, <3>2, <3>3, OneRequest
    <2>4. CASE r \notin Requests
      BY <1>1, <2>1, <2>2, <2>4
    <2> QED BY <2>3, <2>4
  <1>6. ASSUME NEW m \in Admins, CloseWrite(m)
        PROVE  DeskOK' /\ LedgerOK(request', artifact)
    <2> DEFINE r == desk[m].req
               x == [request[r] EXCEPT !.status = "closed", !.outcome = "refused"]
    <2>1. /\ request' = [request EXCEPT ![r].status = "closed", ![r].outcome = "refused"]
          /\ desk' = [desk EXCEPT ![m] = NoCall]
      BY <1>6 DEF CloseWrite
    <2>2. DeskOK'
      BY <1>0, <2>1
    <2> HIDE DEF r
    <2>3. CASE r \in Requests
      <3>1. x \in Request /\ RequestOK(x, artifact, r) /\ x.status # "none"
        BY <1>1, <2>3, ClosedOK
      <3>2. request' = [request EXCEPT ![r] = x]
        BY <1>1, <2>1, <2>3
      <3> HIDE DEF x
      <3> QED BY <2>2, <2>3, <3>1, <3>2, OneRequest
    <2>4. CASE r \notin Requests
      BY <1>1, <2>1, <2>2, <2>4
    <2> QED BY <2>3, <2>4
  <1> QED BY <1>2, <1>3, <1>4, <1>5, <1>6 DEF OperatorStep

-----------------------------------------------------------------------------
(* The account, the sweep and the clock.                                    *)

(* What every step is shown to keep. *)
Kept == IInv' /\ RowsKept(artifact, artifact')

LEMMA IInvUnfolded ==
    ASSUME IInv
    PROVE  /\ UserOK /\ DeskOK /\ LedgerOK(request, artifact)
           /\ Core(artifact, record, flight, stored, worker)
           /\ ArtifactsOK(artifact) /\ Tables(record, flight, stored)
           /\ artifact \in [Exports -> Artifact] /\ worker \in [Workers -> Job]
           /\ \A a \in Exports : artifact[a] \in Artifact /\ RowOK(artifact[a])
  BY DEF IInv, Core, ArtifactsOK, KeysOK, JobsOK

(* Only rows of artifacts move, and the requests stay. *)
LEMMA RowsOnly ==
    ASSUME IInv, RowsMove(artifact, artifact', stored),
           UNCHANGED <<ledgerVars, user, record, stored, flight, worker>>
    PROVE  Kept
  <1>1. UserOK' /\ DeskOK'
    BY IInvUnfolded DEF ledgerVars, UserOK, DeskOK
  <1>2. Moves(artifact, artifact', stored) /\ RowsNotNew(artifact, artifact')
    BY DEF RowsMove
  <1>3. RowsKept(artifact, artifact')
    BY <1>2 DEF Moves
  <1>4. Core(artifact', record, flight, stored, worker)
    BY <1>2, IInvUnfolded, CoreRows
  <1>5. LedgerOK(request, artifact')
    BY <1>2, <1>3, IInvUnfolded, LedgerRows
  <1> QED BY <1>1, <1>3, <1>4, <1>5 DEF Kept, IInv, ledgerVars

(* Only records and objects move. *)
LEMMA KeysOnly ==
    ASSUME IInv, Core(artifact, record', flight', stored', worker'),
           UNCHANGED <<ledgerVars, user, artifact>>
    PROVE  Kept
  <1>1. UserOK' /\ DeskOK'
    BY IInvUnfolded DEF ledgerVars, UserOK, DeskOK
  <1>2. RowsKept(artifact, artifact)
    BY IInvUnfolded, NoRow
  <1> QED BY <1>1, <1>2, IInvUnfolded DEF Kept, IInv, ledgerVars

LEMMA StepEpochBump ==
    ASSUME IInv, NEW s, EpochBump(s) PROVE Kept
  <1> DEFINE To(a) == IF artifact[a].state \in Live THEN Revoked(artifact[a]) ELSE artifact[a]
  <1>1. ASSUME NEW a \in Exports PROVE RowMove(artifact[a], To(a))
    BY IInvUnfolded, RowRevoked, RowStays
  <1>2. artifact' = [a \in Exports |-> To(a)]
    BY DEF EpochBump
  <1> HIDE DEF To
  <1>3. artifact' \in [Exports -> Artifact]
    BY <1>1, <1>2 DEF RowMove
  <1>4. RowsMove(artifact, artifact', stored)
    BY <1>1, <1>2, <1>3, IInvUnfolded, AllRows
  <1>5. UserOK'
    BY IInvUnfolded DEF EpochBump, UserOK
  <1>6. Moves(artifact, artifact', stored) /\ RowsNotNew(artifact, artifact')
    BY <1>4 DEF RowsMove
  <1>7. RowsKept(artifact, artifact')
    BY <1>6 DEF Moves
  <1>8. Core(artifact', record, flight, stored, worker)
    BY <1>6, IInvUnfolded, CoreRows
  <1>9. LedgerOK(request, artifact')
    BY <1>6, <1>7, IInvUnfolded, LedgerRows
  <1> QED BY <1>5, <1>7, <1>8, <1>9, IInvUnfolded DEF EpochBump, Kept, IInv, ledgerVars, DeskOK

LEMMA StepModerate ==
    ASSUME IInv, NEW s, Moderate(s) PROVE Kept
  <1>1. UserOK'
    BY IInvUnfolded DEF Moderate, UserOK
  <1>2. RowsKept(artifact, artifact)
    BY IInvUnfolded, NoRow
  <1> QED BY <1>1, <1>2, IInvUnfolded DEF Moderate, Kept, IInv, ledgerVars, DeskOK

LEMMA StepSweepRow ==
    ASSUME IInv, NEW a \in Exports, Expire(a) \/ Ages(a) \/ Lapses(a) PROVE Kept
  <1>1. artifact \in [Exports -> Artifact] /\ artifact[a] \in Artifact /\ RowOK(artifact[a])
    BY IInvUnfolded
  <1>2. CASE Expire(a)
    <2> DEFINE x == [artifact[a] EXCEPT !.state = "expired", !.cleanup = "due"]
    <2>1. RowMove(artifact[a], x)
      BY <1>1, <1>2, RowEnds DEF Expire
    <2>2. artifact' = [artifact EXCEPT ![a] = x]
      BY <1>1, <1>2 DEF Expire
    <2> HIDE DEF x
    <2>3. RowsMove(artifact, artifact', stored)
      BY <2>1, <2>2, IInvUnfolded, OneRow
    <2> QED BY <1>2, <2>3, RowsOnly DEF Expire
  <1>3. CASE Ages(a)
    <2> DEFINE g == IF artifact[a].age = "new" THEN "hour" ELSE "old"
               x == [artifact[a] EXCEPT !.age = g]
    <2>1. g \in {"new", "hour", "old"}
      OBVIOUS
    <2>2. artifact' = [artifact EXCEPT ![a] = x]
      BY <1>1, <1>3 DEF Ages
    <2> HIDE DEF g
    <2>3. RowMove(artifact[a], x)
      BY <1>1, <2>1, RowAge
    <2> HIDE DEF x
    <2>4. RowsMove(artifact, artifact', stored)
      BY <2>2, <2>3, IInvUnfolded, OneRow
    <2> QED BY <1>3, <2>4, RowsOnly DEF Ages
  <1>4. CASE Lapses(a)
    <2> DEFINE x == [artifact[a] EXCEPT !.expiry = "past"]
    <2>1. RowMove(artifact[a], x)
      BY <1>1, <1>4, RowLapses DEF Lapses
    <2>2. artifact' = [artifact EXCEPT ![a] = x]
      BY <1>1, <1>4 DEF Lapses
    <2> HIDE DEF x
    <2>3. RowsMove(artifact, artifact', stored)
      BY <2>1, <2>2, IInvUnfolded, OneRow
    <2> QED BY <1>4, <2>3, RowsOnly DEF Lapses
  <1> QED BY <1>2, <1>3, <1>4

(* A generation that fails takes the request with it. *)
LEMMA FailedKept ==
    ASSUME IInv, NEW a \in Exports, artifact[a].state \in {"pending", "generating"},
           NEW A2, A2 = [artifact EXCEPT ![a] = FailedRow(artifact[a])]
    PROVE  /\ Core(A2, record, flight, stored, worker) /\ RowsKept(artifact, A2)
           /\ LedgerOK(CloseLinked(artifact[a].req, "failed"), A2)
  <1>1. /\ ArtifactsOK(artifact) /\ artifact \in [Exports -> Artifact]
        /\ artifact[a] \in Artifact /\ RowOK(artifact[a])
    BY IInvUnfolded
  <1>2. RowMove(artifact[a], FailedRow(artifact[a])) /\ FailedRow(artifact[a]).state \notin Live
    BY <1>1, RowFailed
  <1>3. Moves(artifact, A2, stored) /\ RowsNotNew(artifact, A2)
    BY <1>1, <1>2, OneRow DEF RowsMove
  <1>4. RowsKept(artifact, A2)
    BY <1>3 DEF Moves
  <1>5. Core(A2, record, flight, stored, worker)
    BY <1>3, IInvUnfolded, CoreRows
  <1>6. LedgerOK(request, A2)
    BY <1>1, <1>3, <1>4, IInvUnfolded, LedgerRows
  <1>7. artifact[a].req \in Requests
    BY <1>1 DEF RowOK
  <1>8. A2[a].state \notin Live
    BY <1>1, <1>2
  <1>9. ~LiveOf(A2, artifact[a].req)
    BY <1>1, <1>3, <1>8, NoneLive DEF Live
  <1> QED BY <1>4, <1>5, <1>6, <1>7, <1>9, CloseLinkedOK

LEMMA StepTimeOut ==
    ASSUME IInv, NEW a \in Exports, TimeOut(a) PROVE Kept
  <1>1. /\ Core(artifact', record, flight, stored, worker) /\ RowsKept(artifact, artifact')
        /\ LedgerOK(CloseLinked(artifact[a].req, "failed"), artifact')
    BY IInvUnfolded, FailedKept DEF TimeOut
  <1> QED BY <1>1, IInvUnfolded DEF TimeOut, Kept, IInv, UserOK, DeskOK

LEMMA StepReconcile ==
    ASSUME IInv, NEW r \in Requests, Reconcile(r) PROVE Kept
  <1>1. LedgerOK(request, artifact) /\ ~LiveOf(artifact, r)
    BY IInvUnfolded DEF Reconcile, LiveFor, LiveOf
  <1>2. LedgerOK(CloseLinked(r, "failed"), artifact)
    BY <1>1, CloseLinkedOK
  <1>3. RowsKept(artifact, artifact)
    BY IInvUnfolded, NoRow
  <1> QED BY <1>2, <1>3, IInvUnfolded DEF Reconcile, Kept, IInv, UserOK, DeskOK

(* The object of an artifact due for cleaning goes. *)
LEMMA DropObject ==
    ASSUME IInv, NEW a \in Exports, CleanupDue(a), NEW st2,
           st2 \in {stored, stored \ {KeyOf(a)}}
    PROVE  Core(artifact, record, flight, st2, worker)
  <1> DEFINE k == KeyOf(a)
  <1>1. /\ Core(artifact, record, flight, stored, worker) /\ Tables(record, flight, stored)
        /\ ArtifactsOK(artifact)
    BY IInvUnfolded
  <1>2. k[1] = a /\ k[2] = artifact[a].key
    BY DEF KeyOf
  <1>3. artifact[a].cleanup = "due" /\ artifact[a].state # "ready"
    BY IInvUnfolded DEF CleanupDue, RowOK, Live
  <1> HIDE DEF k
  <1>4. CASE k \notin Keys
    BY <1>1, <1>4 DEF Tables, k
  <1>5. CASE k \in Keys
    <2>1. KeyOK(artifact, record, flight, stored, k)
      BY <1>1, <1>5 DEF Core, KeysOK
    <2>2. KeyOK(artifact, record, flight, st2, k)
      BY <2>1 DEF KeyOK, k
    <2>3. ASSUME NEW w \in Workers, worker[w].at # "idle", JobKey(worker[w]) = k
          PROVE  JobOK(worker[w], artifact, record, flight, st2)
      <3>1. JobOK(worker[w], artifact, record, flight, stored)
        BY <1>1 DEF Core, JobsOK
      <3>2. worker[w].art = a
        BY <1>2, <2>3 DEF JobKey
      <3> QED BY <1>3, <3>1, <3>2 DEF JobOK
    <2>4. KeyAt(artifact, worker, record, flight, st2, k)
      BY <1>2, <1>3, <2>2, <2>3 DEF KeyAt
    <2>5. Tables(record, flight, st2)
      BY <1>1 DEF Tables
    <2>6. ASSUME NEW l \in Keys, l # k
          PROVE  SameKey(record, flight, stored, record, flight, st2, l)
      BY <2>6 DEF SameKey, k
    <2>7. KeysStep(artifact, worker, record, flight, stored, record, flight, st2)
      BY <2>4, <2>5, <2>6 DEF KeysStep
    <2> QED BY <1>1, <2>7, CoreKeys
  <1> QED BY <1>4, <1>5

(* A row that is cleaned forgets its key: its object is gone by then.       *)
LEMMA RowCleaned ==
    ASSUME NEW y \in Artifact, RowOK(y), y.cleanup = "due"
    PROVE  LET x == [y EXCEPT !.cleanup = "done", !.key = 0] IN
           x \in Artifact /\ RowOK(x) /\ RowKept(y, x) /\ NotNew(y, x)
  <1> DEFINE x == [y EXCEPT !.cleanup = "done", !.key = 0]
  <1>1. y.attempt \in Nat
    BY DEF Artifact
  <1>2. x \in Artifact
    BY DEF Artifact
  <1>3. /\ x.state = y.state /\ x.cleanup = "done" /\ x.key = 0
        /\ x.attempt = y.attempt /\ x.req = y.req
        /\ x.expiry = y.expiry /\ x.transfer = y.transfer
    BY DEF Artifact
  <1> HIDE DEF x
  <1>4. x \in Artifact /\ RowOK(x) /\ RowKept(y, x) /\ NotNew(y, x)
    BY <1>1, <1>2, <1>3 DEF RowOK, RowKept, NotNew, NotReady, Live, Ended
  <1> QED BY <1>4 DEF x

LEMMA StepCleanup ==
    ASSUME IInv, NEW a \in Exports, Cleanup(a) PROVE Kept
  <1>1. /\ ArtifactsOK(artifact) /\ artifact \in [Exports -> Artifact]
        /\ artifact[a] \in Artifact /\ RowOK(artifact[a]) /\ artifact[a].cleanup = "due"
    BY IInvUnfolded DEF Cleanup, CleanupDue
  <1>2. Core(artifact, record, flight, stored', worker)
    BY DropObject DEF Cleanup
  <1> DEFINE x == [artifact[a] EXCEPT !.cleanup = "done", !.key = 0]
  <1>3. x \in Artifact /\ RowOK(x) /\ RowKept(artifact[a], x) /\ NotNew(artifact[a], x)
    BY <1>1, RowCleaned
  <1>4. artifact' = [artifact EXCEPT ![a] = x]
    BY <1>1 DEF Cleanup
  <1> HIDE DEF x
  <1>5. /\ artifact' \in [Exports -> Artifact] /\ artifact'[a] = x
        /\ \A b \in Exports : b # a => artifact'[b] = artifact[b]
    BY <1>1, <1>3, <1>4
  <1>6. ASSUME NEW b \in Exports, b # a PROVE RowMove(artifact[b], artifact'[b])
    BY <1>5, <1>6, IInvUnfolded, RowStays
  <1>7. RowsKept(artifact, artifact') /\ RowsNotNew(artifact, artifact')
    BY <1>3, <1>5, <1>6 DEF RowsKept, RowsNotNew, RowMove
  <1>8. ArtifactsOK(artifact')
    BY <1>1, <1>3, <1>5, <1>6, <1>7 DEF RowMove, ArtifactsOK, OneLive, RowsNotNew, NotNew
  <1>9. <<a, artifact[a].key>> \notin stored'
    BY DEF Cleanup, KeyOf
  <1>10. Moves(artifact, artifact', stored')
    BY <1>6, <1>7, <1>8, <1>9 DEF Moves, RowsNotNew, NotNew, RowMove
  <1>11. Core(artifact', record, flight, stored', worker)
    BY <1>2, <1>10, CoreRows
  <1>12. LedgerOK(request, artifact')
    BY <1>7, IInvUnfolded, LedgerRows
  <1> QED BY <1>7, <1>11, <1>12, IInvUnfolded
          DEF Cleanup, Kept, IInv, UserOK, DeskOK, ledgerVars

LEMMA StepCleanupRefused ==
    ASSUME IInv, NEW a \in Exports, CleanupRefused(a) PROVE Kept
  <1>1. /\ ArtifactsOK(artifact) /\ artifact \in [Exports -> Artifact]
        /\ artifact[a] \in Artifact /\ RowOK(artifact[a]) /\ artifact[a].cleanup = "due"
    BY IInvUnfolded DEF CleanupRefused, CleanupDue
  <1>2. Core(artifact, record, flight, stored', worker)
    BY DropObject DEF CleanupRefused
  <1> DEFINE n == artifact[a].refusals + 1
             c == IF n >= MaxCleanup THEN "dead" ELSE "due"
             x == [artifact[a] EXCEPT !.cleanup = c, !.refusals = n]
  <1>3. n \in Nat /\ c \in {"due", "dead"}
    BY <1>1 DEF Artifact
  <1>4. artifact' = [artifact EXCEPT ![a] = x]
    BY <1>1 DEF CleanupRefused
  <1> HIDE DEF c, n
  <1>5. RowMove(artifact[a], x)
    BY <1>1, <1>3, RowRefused
  <1> HIDE DEF x
  <1>6. Moves(artifact, artifact', stored') /\ RowsNotNew(artifact, artifact')
    BY <1>1, <1>4, <1>5, OneRow DEF RowsMove
  <1>7. RowsKept(artifact, artifact')
    BY <1>6 DEF Moves
  <1>8. Core(artifact', record, flight, stored', worker)
    BY <1>2, <1>6, CoreRows
  <1>9. LedgerOK(request, artifact')
    BY <1>6, <1>7, IInvUnfolded, LedgerRows
  <1> QED BY <1>7, <1>8, <1>9, IInvUnfolded
          DEF CleanupRefused, Kept, IInv, UserOK, DeskOK, ledgerVars

(* The reaper may take a record only when its PUT is over; whoever holds    *)
(* the key by then can no longer start one.                                 *)
Reapable(r) == r.state \in {"reaping", "dead"} \/ (r.state = "armed" /\ r.left = 0)

LEMMA ReapedKey ==
    ASSUME IInv, NEW k \in Keys, Reapable(record[k]),
           NEW rec2, NEW st2, rec2[k] \in Record, rec2[k].state # "armed",
           k \in st2 => k \in stored /\ rec2[k].state # "none"
    PROVE  KeyAt(artifact, worker, rec2, flight, st2, k)
  <1>1. /\ Core(artifact, record, flight, stored, worker) /\ Tables(record, flight, stored)
        /\ ArtifactsOK(artifact)
    BY IInvUnfolded
  <1>2. KeyOK(artifact, record, flight, stored, k)
    BY <1>1 DEF Core, KeysOK
  <1>3. flight[k] \in Nat /\ record[k].left \in Nat
    BY <1>1 DEF Tables, Record
  <1>4. flight[k] = 0
    BY <1>2, <1>3 DEF KeyOK, Reapable
  <1>5. KeyOK(artifact, rec2, flight, st2, k)
    BY <1>4 DEF KeyOK, Cover
  <1>6. artifact[k[1]].state = "ready" /\ artifact[k[1]].key = k[2] => FALSE
    <2> SUFFICES ASSUME artifact[k[1]].state = "ready", artifact[k[1]].key = k[2] PROVE FALSE
      OBVIOUS
    <2>1. k[1] \in Exports /\ k = <<k[1], artifact[k[1]].key>>
      BY DEF Keys
    <2>2. record[k].state = "none"
      BY <1>1, <2>1 DEF Core, ReadyOK
    <2> QED BY <2>2 DEF Reapable
  <1>7. ASSUME NEW w \in Workers, worker[w].at # "idle", JobKey(worker[w]) = k
        PROVE  JobOK(worker[w], artifact, rec2, flight, st2)
    <2>1. JobOK(worker[w], artifact, record, flight, stored) /\ worker[w].left \in Nat
      BY <1>1 DEF Core, JobsOK, Job
    <2>2. ~(worker[w].at = "permitted" /\ worker[w].left > 0)
      <3> SUFFICES ASSUME worker[w].at = "permitted", worker[w].left > 0 PROVE FALSE
        OBVIOUS
      <3>1. record[k].state = "armed" /\ record[k].left >= worker[w].left + 2 * UploadTimeout
        BY <1>7, <2>1 DEF JobOK
      <3> QED BY <1>3, <2>1, <3>1, ExportBounds DEF Reapable
    <2> QED BY <1>4, <1>7, <2>1, <2>2 DEF JobOK
  <1> QED BY <1>5, <1>6, <1>7 DEF KeyAt

LEMMA StepReap ==
    ASSUME IInv, NEW k \in Keys, ReapClaim(k) \/ Reap(k) \/ ReapRefused(k) PROVE Kept
  <1>1. /\ Core(artifact, record, flight, stored, worker) /\ Tables(record, flight, stored)
        /\ record[k] \in Record
    BY IInvUnfolded DEF Tables
  <1>2. PICK r \in Record :
           /\ record' = [record EXCEPT ![k] = r] /\ r.state # "armed"
           /\ k \in stored' => k \in stored /\ r.state # "none"
    <2>1. CASE ReapClaim(k)
      <3> DEFINE x == [record[k] EXCEPT !.state = "reaping"]
      <3>1. x \in Record /\ x.state = "reaping"
        BY <1>1 DEF Record
      <3>2. record' = [record EXCEPT ![k] = x] /\ stored' = stored
        BY <1>1, <2>1 DEF ReapClaim, Tables
      <3> HIDE DEF x
      <3> QED BY <3>1, <3>2
    <2>2. CASE Reap(k)
      <3>1. NoRecord \in Record /\ NoRecord.state = "none"
        BY DEF NoRecord, Record
      <3> QED BY <2>2, <3>1 DEF Reap
    <2>3. CASE ReapRefused(k)
      <3> DEFINE n == record[k].refusals + 1
                 c == IF n >= MaxCleanup THEN "dead" ELSE "reaping"
                 x == [record[k] EXCEPT !.refusals = n, !.state = c]
      <3>1. n \in Nat /\ c \in {"dead", "reaping"}
        BY <1>1 DEF Record
      <3>2. record' = [record EXCEPT ![k] = x] /\ (k \in stored' => k \in stored)
        BY <1>1, <2>3 DEF ReapRefused, Tables
      <3> HIDE DEF n, c
      <3>3. x \in Record /\ x.state = c
        BY <1>1, <3>1 DEF Record
      <3> HIDE DEF x
      <3> QED BY <3>1, <3>2, <3>3
    <2> QED BY <2>1, <2>2, <2>3
  <1>3. /\ Reapable(record[k]) /\ UNCHANGED <<ledgerVars, user, artifact, flight, worker>>
        /\ stored' \subseteq stored /\ \A l \in Keys : l # k => (l \in stored' <=> l \in stored)
    BY DEF ReapClaim, Reap, ReapRefused, Reapable
  <1>4. record'[k] = r /\ record' \in [Keys -> Record]
        /\ \A l \in Keys : l # k => record'[l] = record[l]
    BY <1>1, <1>2 DEF Tables
  <1>5. KeyAt(artifact, worker, record', flight, stored', k)
    BY <1>2, <1>3, <1>4, ReapedKey
  <1>6. Tables(record', flight, stored')
    BY <1>1, <1>3, <1>4 DEF Tables
  <1>7. KeysStep(artifact, worker, record, flight, stored, record', flight, stored')
    BY <1>3, <1>4, <1>5, <1>6 DEF KeysStep, SameKey
  <1>8. Core(artifact, record', flight, stored', worker)
    BY <1>1, <1>7, CoreKeys
  <1> QED BY <1>3, <1>8, KeysOnly

LEMMA StepRedrive ==
    ASSUME IInv, Redrive PROVE Kept
  <1>1. /\ Core(artifact, record, flight, stored, worker) /\ Tables(record, flight, stored)
        /\ ArtifactsOK(artifact) /\ artifact \in [Exports -> Artifact]
    BY IInvUnfolded
  <1> DEFINE To(a) == IF artifact[a].cleanup = "dead"
                      THEN [artifact[a] EXCEPT !.cleanup = "due", !.refusals = 0]
                      ELSE artifact[a]
             At(k) == IF record[k].state = "dead"
                      THEN [record[k] EXCEPT !.state = "reaping", !.refusals = 0]
                      ELSE record[k]
  <1>2. ASSUME NEW a \in Exports PROVE RowMove(artifact[a], To(a))
    BY IInvUnfolded, RowRefused, RowStays
  <1>3. artifact' = [a \in Exports |-> To(a)] /\ record' = [k \in Keys |-> At(k)]
    BY DEF Redrive
  <1>4. ASSUME NEW k \in Keys
        PROVE  /\ At(k) \in Record
               /\ At(k) = record[k] \/ (record[k].state = "dead" /\ At(k).state = "reaping")
    <2>1. record[k] \in Record
      BY <1>1 DEF Tables
    <2> QED BY <2>1 DEF Record
  <1> HIDE DEF To, At
  <1>5. /\ artifact' \in [Exports -> Artifact] /\ record' \in [Keys -> Record]
        /\ \A k \in Keys : record'[k] = At(k)
    BY <1>2, <1>3, <1>4 DEF RowMove
  <1>6. ASSUME NEW k \in Keys
        PROVE  \/ SameKey(record, flight, stored, record', flight, stored, k)
               \/ KeyAt(artifact, worker, record', flight, stored, k)
    <2>1. CASE record'[k] = record[k]
      BY <2>1 DEF SameKey
    <2>2. CASE record[k].state = "dead" /\ record'[k].state = "reaping"
      <3>1. Reapable(record[k]) /\ record'[k] \in Record
        BY <1>4, <1>5, <2>2 DEF Reapable
      <3> QED BY <2>2, <3>1, ReapedKey
    <2> QED BY <1>4, <1>5, <2>1, <2>2
  <1>7. KeysStep(artifact, worker, record, flight, stored, record', flight, stored)
    BY <1>1, <1>5, <1>6 DEF KeysStep, Tables
  <1>8. Core(artifact, record', flight, stored, worker)
    BY <1>1, <1>7, CoreKeys
  <1>9. Moves(artifact, artifact', stored) /\ RowsNotNew(artifact, artifact')
    BY <1>1, <1>2, <1>3, <1>5, AllRows DEF RowsMove
  <1>10. RowsKept(artifact, artifact')
    BY <1>9 DEF Moves
  <1>11. Core(artifact', record', flight, stored, worker)
    BY <1>8, <1>9, CoreRows
  <1>12. LedgerOK(request, artifact')
    BY <1>9, <1>10, IInvUnfolded, LedgerRows
  <1> QED BY <1>10, <1>11, <1>12, IInvUnfolded
          DEF Redrive, Kept, IInv, UserOK, DeskOK, ledgerVars

(* A PUT under way is of an artifact that is not ready with that key. *)
LEMMA FlyingNotReady ==
    ASSUME NEW A, NEW rec, NEW fl, NEW st, NEW W, Core(A, rec, fl, st, W),
           NEW k \in Keys, rec[k].state # "none"
    PROVE  ~(A[k[1]].state = "ready" /\ A[k[1]].key = k[2])
  <1> SUFFICES ASSUME A[k[1]].state = "ready", A[k[1]].key = k[2] PROVE FALSE
    OBVIOUS
  <1>1. k[1] \in Exports /\ k = <<k[1], A[k[1]].key>>
    BY DEF Keys
  <1>2. rec[k].state = "none"
    BY <1>1 DEF Core, ReadyOK
  <1> QED BY <1>2

LEMMA StepLatePut ==
    ASSUME IInv, NEW k \in Keys, LatePut(k) PROVE Kept
  <1>1. /\ Core(artifact, record, flight, stored, worker) /\ Tables(record, flight, stored)
        /\ ArtifactsOK(artifact)
    BY IInvUnfolded
  <1>2. /\ flight[k] > 0 /\ (stored' = stored \/ stored' = stored \cup {k})
        /\ UNCHANGED <<ledgerVars, user, artifact, record, worker>>
        /\ \A w \in Workers : worker[w].at = "putting" => JobKey(worker[w]) # k
    BY DEF LatePut, MyKey, JobKey
  <1>3. /\ flight' \in [Keys -> Nat] /\ flight'[k] = 0
        /\ \A l \in Keys : l # k => flight'[l] = flight[l]
    BY <1>1 DEF LatePut, Tables
  <1>4. KeyOK(artifact, record, flight, stored, k)
    BY <1>1 DEF Core, KeysOK
  <1>5. record[k].state = "armed"
    BY <1>2, <1>4 DEF KeyOK
  <1>6. KeyOK(artifact, record, flight', stored', k)
    BY <1>3, <1>5 DEF KeyOK, Cover
  <1>7. ASSUME NEW w \in Workers, worker[w].at # "idle", JobKey(worker[w]) = k
        PROVE  JobOK(worker[w], artifact, record, flight', stored')
    <2>1. JobOK(worker[w], artifact, record, flight, stored)
      BY <1>1 DEF Core, JobsOK
    <2> QED BY <1>2, <1>3, <1>7, <2>1 DEF JobOK
  <1>8. KeyAt(artifact, worker, record, flight', stored', k)
    BY <1>1, <1>5, <1>6, <1>7, FlyingNotReady DEF KeyAt
  <1>9. Tables(record, flight', stored')
    BY <1>1, <1>2, <1>3 DEF Tables
  <1>10. \A l \in Keys : l # k => SameKey(record, flight, stored, record, flight', stored', l)
    BY <1>2, <1>3 DEF SameKey
  <1>11. KeysStep(artifact, worker, record, flight, stored, record, flight', stored')
    BY <1>8, <1>9, <1>10 DEF KeysStep
  <1>12. Core(artifact, record, flight', stored', worker)
    BY <1>1, <1>11, CoreKeys
  <1> QED BY <1>2, <1>12, KeysOnly

(* One unit of time: every timer of a key and of its generation runs down   *)
(* together, so their order stays.                                          *)
LEMMA DownFacts ==
    ASSUME NEW n \in Nat
    PROVE  Down(n) \in Nat /\ (n > 0 => Down(n) = n - 1) /\ (n = 0 => Down(n) = 0)
  BY DEF Down

LEMMA TickedRecord ==
    ASSUME NEW r \in Record
    PROVE  LET x == [r EXCEPT !.left = Down(r.left)] IN
           x \in Record /\ x.state = r.state /\ x.left = Down(r.left)
  <1>1. r.left \in Nat
    BY DEF Record
  <1>2. Down(r.left) \in Nat
    BY <1>1, DownFacts
  <1> QED BY <1>2 DEF Record

LEMMA TickedJob ==
    ASSUME NEW j \in Job
    PROVE  LET x == [j EXCEPT !.left = Down(j.left)] IN
           /\ x \in Job /\ x.at = j.at /\ x.art = j.art /\ x.attempt = j.attempt
           /\ x.left = Down(j.left)
  <1>1. j.left \in Nat
    BY DEF Job
  <1>2. Down(j.left) \in Nat
    BY <1>1, DownFacts
  <1> QED BY <1>2 DEF Job

LEMMA CoreTick ==
    ASSUME IInv, Tick PROVE Core(artifact, record', flight', stored, worker')
  <1>1. /\ Core(artifact, record, flight, stored, worker) /\ Tables(record, flight, stored)
        /\ ArtifactsOK(artifact) /\ worker \in [Workers -> Job]
    BY IInvUnfolded
  <1>2. /\ record' \in [Keys -> Record]
        /\ \A k \in Keys : record'[k].state = record[k].state
                           /\ record'[k].left = Down(record[k].left)
    <2> DEFINE At(k) == [record[k] EXCEPT !.left = Down(record[k].left)]
    <2>1. record' = [k \in Keys |-> At(k)]
      BY DEF Tick
    <2>2. \A k \in Keys : record[k] \in Record
      BY <1>1 DEF Tables
    <2>3. \A k \in Keys : /\ At(k) \in Record /\ At(k).state = record[k].state
                          /\ At(k).left = Down(record[k].left)
      BY <2>2, TickedRecord
    <2> HIDE DEF At
    <2> QED BY <2>1, <2>3
  <1>3. /\ worker' \in [Workers -> Job]
        /\ \A w \in Workers : /\ worker'[w].at = worker[w].at /\ worker'[w].art = worker[w].art
                              /\ worker'[w].attempt = worker[w].attempt
                              /\ worker'[w].left = Down(worker[w].left)
    <2> DEFINE At(w) == [worker[w] EXCEPT !.left = Down(worker[w].left)]
    <2>1. worker' = [w \in Workers |-> At(w)]
      BY DEF Tick
    <2>2. \A w \in Workers : worker[w] \in Job
      BY <1>1
    <2>3. \A w \in Workers : /\ At(w) \in Job /\ At(w).at = worker[w].at
                             /\ At(w).art = worker[w].art /\ At(w).attempt = worker[w].attempt
                             /\ At(w).left = Down(worker[w].left)
      BY <2>2, TickedJob
    <2> HIDE DEF At
    <2> QED BY <2>1, <2>3
  <1>4. /\ flight' \in [Keys -> Nat] /\ \A k \in Keys : flight'[k] = Down(flight[k])
        /\ \A k \in Keys : flight[k] # 1
    <2>1. \A k \in Keys : Down(flight[k]) \in Nat
      BY <1>1, DownFacts DEF Tables
    <2>2. flight' = [k \in Keys |-> Down(flight[k])] /\ \A k \in Keys : flight[k] # 1
      BY DEF Tick
    <2> QED BY <2>1, <2>2
  <1>5. ASSUME NEW k \in Keys
        PROVE  /\ flight'[k] > 0 <=> flight[k] > 0
               /\ flight'[k] = 0 <=> flight[k] = 0
               /\ record[k].left >= flight[k] => record'[k].left >= flight'[k]
    <2>1. flight[k] \in Nat /\ record[k].left \in Nat /\ flight[k] # 1
      BY <1>1, <1>4 DEF Tables, Record
    <2> QED BY <1>2, <1>4, <2>1 DEF Down
  <1>6. ASSUME NEW k \in Keys PROVE KeyOK(artifact, record', flight', stored, k)
    <2>1. KeyOK(artifact, record, flight, stored, k)
      BY <1>1 DEF Core, KeysOK
    <2> QED BY <1>2, <1>5, <2>1 DEF KeyOK, Cover
  <1>7. ReadyOK(artifact, record', stored)
    <2> SUFFICES ASSUME NEW a \in Exports, artifact[a].state = "ready"
                 PROVE  record'[<<a, artifact[a].key>>].state = "none"
      BY <1>1 DEF Core, ReadyOK
    <2>1. <<a, artifact[a].key>> \in Keys /\ record[<<a, artifact[a].key>>].state = "none"
      BY <1>1 DEF Core, ReadyOK, Tables
    <2> QED BY <1>2, <2>1
  <1>8. ASSUME NEW w \in Workers PROVE JobOK(worker'[w], artifact, record', flight', stored)
    <2> SUFFICES ASSUME worker'[w].at # "idle"
                 PROVE  JobOK(worker'[w], artifact, record', flight', stored)
      BY DEF JobOK
    <2> DEFINE k == JobKey(worker[w])
    <2>1. JobOK(worker[w], artifact, record, flight, stored) /\ worker[w].at # "idle"
      BY <1>1, <1>3 DEF Core, JobsOK
    <2>2. k \in Keys /\ JobKey(worker'[w]) = k
      BY <1>1, <1>3, <2>1, JobKeyIsKey DEF JobKey
    <2>3. worker[w].left \in Nat /\ record[k].left \in Nat
      BY <1>1, <2>2 DEF Tables, Record, Job
    <2> HIDE DEF k
    <2>4. worker'[w].at = "permitted" /\ worker'[w].left > 0 =>
             record'[k].state = "armed" /\ record'[k].left >= worker'[w].left + 2 * UploadTimeout
      <3> SUFFICES ASSUME worker'[w].at = "permitted", worker'[w].left > 0
                   PROVE  record'[k].state = "armed"
                          /\ record'[k].left >= worker'[w].left + 2 * UploadTimeout
        OBVIOUS
      <3>1. worker[w].at = "permitted" /\ worker[w].left > 0
            /\ worker'[w].left = worker[w].left - 1
        BY <1>3, <2>3 DEF Down
      <3>2. record[k].state = "armed" /\ record[k].left >= worker[w].left + 2 * UploadTimeout
        BY <2>1, <3>1 DEF JobOK, k
      <3>3. UploadTimeout \in Nat
        BY ExportBounds
      <3> QED BY <1>2, <2>2, <2>3, <3>1, <3>2, <3>3 DEF Down
    <2>5. worker'[w].at \in {"claimed", "collecting", "permitted", "uploaded"} => flight'[k] = 0
      BY <1>3, <1>5, <2>1, <2>2 DEF JobOK, k
    <2>6. worker'[w].at = "putting" => flight'[k] > 0
      BY <1>3, <1>5, <2>1, <2>2 DEF JobOK, k
    <2>7. /\ worker'[w].at = "uploaded" /\ record'[k].state = "armed"
          /\ artifact[worker'[w].art].cleanup = "none"
          => k \in stored
      BY <1>2, <1>3, <2>1, <2>2 DEF JobOK, k
    <2>8. worker'[w].art \in Exports
          /\ worker'[w].attempt \in 1 .. artifact[worker'[w].art].attempt
      BY <1>3, <2>1 DEF JobOK
    <2> QED BY <2>2, <2>4, <2>5, <2>6, <2>7, <2>8 DEF JobOK
  <1>9. JobsOK(worker', artifact, record', flight', stored)
    <2>1. \A v, w \in Workers :
             worker'[v].at # "idle" /\ worker'[w].at # "idle"
             /\ JobKey(worker'[v]) = JobKey(worker'[w]) => v = w
      BY <1>1, <1>3 DEF Core, JobsOK, JobKey
    <2> QED BY <1>3, <1>8, <2>1 DEF JobsOK
  <1>10. KeysOK(artifact, record', flight', stored)
    BY <1>1, <1>2, <1>4, <1>6 DEF KeysOK, Tables
  <1> QED BY <1>1, <1>7, <1>9, <1>10 DEF Core

LEMMA StepTick ==
    ASSUME IInv, Tick PROVE Kept
  <1>1. ArtifactsOK(artifact) /\ artifact \in [Exports -> Artifact]
    BY IInvUnfolded
  <1> DEFINE To(a) == [artifact[a] EXCEPT !.lease = Down(artifact[a].lease)]
  <1>2. ASSUME NEW a \in Exports PROVE RowMove(artifact[a], To(a))
    <2>1. artifact[a] \in Artifact /\ RowOK(artifact[a]) /\ artifact[a].lease \in Nat
      BY IInvUnfolded DEF Artifact
    <2>2. Down(artifact[a].lease) \in Nat
      BY <2>1, DownFacts
    <2> QED BY <2>1, <2>2, RowLease
  <1>3. artifact' = [a \in Exports |-> To(a)]
    BY DEF Tick
  <1> HIDE DEF To
  <1>4. artifact' \in [Exports -> Artifact]
    BY <1>2, <1>3 DEF RowMove
  <1>5. Moves(artifact, artifact', stored) /\ RowsNotNew(artifact, artifact')
    BY <1>1, <1>2, <1>3, <1>4, AllRows DEF RowsMove
  <1>6. RowsKept(artifact, artifact')
    BY <1>5 DEF Moves
  <1>7. Core(artifact', record', flight', stored, worker')
    BY <1>5, CoreTick, CoreRows
  <1>8. LedgerOK(request, artifact')
    BY <1>5, <1>6, IInvUnfolded, LedgerRows
  <1> QED BY <1>6, <1>7, <1>8, IInvUnfolded
          DEF Tick, Kept, IInv, UserOK, DeskOK, ledgerVars

(* A new export: no other is live, and its request is open. *)
LEMMA StepIssue ==
    ASSUME IInv, NEW a \in Exports, NEW r \in Requests, Issue(a, r) PROVE Kept
  <1>1. /\ ArtifactsOK(artifact) /\ artifact \in [Exports -> Artifact] /\ UserOK /\ DeskOK
        /\ artifact[a] \in Artifact /\ RowOK(artifact[a]) /\ LedgerOK(request, artifact)
        /\ Core(artifact, record, flight, stored, worker) /\ artifact[a].state = "none"
    BY IInvUnfolded DEF Issue
  <1> DEFINE x == [NoArtifact EXCEPT !.state = "pending", !.req = r, !.epoch = user.epoch]
  <1>2. user.epoch \in Nat
    BY <1>1 DEF UserOK
  <1>3. NoArtifact \in Artifact
    BY ExportBounds DEF NoArtifact, Artifact, Live, Ended
  <1>4. x \in Artifact
    BY <1>2, <1>3 DEF Artifact, Live
  <1>5. /\ x.state = "pending" /\ x.req = r /\ x.attempt = 0 /\ x.key = 0 /\ x.cleanup = "none"
        /\ x.expiry = "unset" /\ x.transfer = "none"
    BY DEF NoArtifact
  <1>6. artifact' = [artifact EXCEPT ![a] = x]
    BY DEF Issue
  <1> HIDE DEF x
  <1>7. /\ artifact' \in [Exports -> Artifact] /\ artifact'[a] = x
        /\ \A b \in Exports : b # a => artifact'[b] = artifact[b]
    BY <1>1, <1>4, <1>6
  <1>8. RowOK(x)
    BY <1>5, ExportBounds DEF RowOK, Live
  <1>9. /\ artifact[a].attempt = 0 /\ artifact[a].cleanup = "none"
        /\ artifact[a].expiry = "unset" /\ artifact[a].transfer = "none"
    BY <1>1 DEF RowOK
  <1>10. RowKept(artifact[a], x) /\ NotReady(artifact[a], x) /\ ~Names(artifact[a])
    BY <1>1, <1>5, <1>9 DEF RowKept, NotReady, Names, Ended
  <1>11. \A b \in Exports : b # a => RowMove(artifact[b], artifact'[b])
    BY <1>7, IInvUnfolded, RowStays
  <1>12. OneLive(artifact')
    BY <1>7 DEF Issue, NoneActive, OneLive
  <1>13. RowsKept(artifact, artifact')
    BY <1>7, <1>10, <1>11 DEF RowsKept, RowMove
  <1>14. ArtifactsOK(artifact')
    BY <1>7, <1>8, <1>11, <1>12 DEF ArtifactsOK, RowMove
  <1>15. Moves(artifact, artifact', stored)
    BY <1>7, <1>10, <1>11, <1>13, <1>14 DEF Moves, RowMove, NotNew, NamesKept
  <1>16. Core(artifact', record, flight, stored, worker)
    BY <1>1, <1>15, CoreRows
  <1> DEFINE q == [request[r] EXCEPT !.status = "in_progress", !.secure = "yes"]
  <1>17. request \in [Requests -> Request] /\ RequestOK(request[r], artifact, r)
    BY <1>1 DEF LedgerOK
  <1>18. /\ q \in Request /\ q.status = "in_progress" /\ q.secure = "yes"
         /\ q.delivered = request[r].delivered
    BY <1>17 DEF Request
  <1>19. request' = [request EXCEPT ![r] = q]
    BY <1>17 DEF Issue, Linked
  <1> HIDE DEF q
  <1>20. /\ request' \in [Requests -> Request] /\ request'[r] = q
         /\ \A p \in Requests : p # r => request'[p] = request[p]
    BY <1>17, <1>18, <1>19
  <1>21. request[r].delivered = "no"
    BY <1>17 DEF Issue, Linkable, RequestOK
  <1>22. RequestOK(q, artifact', r)
    BY <1>18, <1>21 DEF RequestOK
  <1>23. ASSUME NEW p \in Requests, p # r PROVE RequestOK(request'[p], artifact', p)
    <2>1. RequestOK(request[p], artifact, p) /\ request'[p] = request[p]
      BY <1>1, <1>20, <1>23 DEF LedgerOK
    <2>2. LiveOf(artifact', p) => LiveOf(artifact, p)
      BY <1>5, <1>7, <1>23 DEF LiveOf
    <2>3. ASSUME NEW b \in Exports, artifact[b].req = p, artifact[b].expiry # "unset"
          PROVE  artifact'[b].req = p /\ artifact'[b].expiry # "unset"
      BY <1>7, <1>9, <2>3
    <2>4. ASSUME NEW b \in Exports, artifact[b].req = p, artifact[b].transfer = "completed"
          PROVE  artifact'[b].req = p /\ artifact'[b].transfer = "completed"
      BY <1>7, <1>9, <2>4
    <2> QED BY <2>1, <2>2, <2>3, <2>4 DEF RequestOK
  <1>24. ASSUME NEW b \in Exports, artifact'[b].state # "none"
         PROVE  request'[artifact'[b].req].status # "none"
    <2>1. CASE b = a
      BY <1>5, <1>7, <1>18, <1>20, <2>1
    <2>2. CASE b # a
      <3>1. artifact[b].req \in Requests /\ request[artifact[b].req].status # "none"
        BY <1>1, <1>7, <1>24, <2>2 DEF ArtifactsOK, RowOK, LedgerOK
      <3> QED BY <1>7, <1>18, <1>20, <2>2, <3>1
    <2> QED BY <2>1, <2>2
  <1>25. LedgerOK(request', artifact')
    BY <1>20, <1>22, <1>23, <1>24 DEF LedgerOK
  <1> QED BY <1>1, <1>13, <1>16, <1>25 DEF Issue, Kept, IInv, UserOK, DeskOK

-----------------------------------------------------------------------------
(* One generation.                                                          *)

LEMMA Assembled ==
    ASSUME IInv, Core(artifact', record', flight', stored', worker'),
           LedgerOK(request', artifact'), RowsKept(artifact, artifact'), UNCHANGED <<desk, user>>
    PROVE  Kept
  BY IInvUnfolded DEF Kept, IInv, UserOK, DeskOK

(* A worker at work, and the job that it goes on with. *)
LEMMA AtWork ==
    ASSUME IInv, NEW w \in Workers, worker[w].at # "idle"
    PROVE  /\ worker[w] \in Job /\ worker[w].art \in Exports /\ MyKey(w) = JobKey(worker[w])
           /\ JobOK(worker[w], artifact, record, flight, stored)
           /\ MyKey(w) \in Keys /\ MyKey(w)[1] = worker[w].art
           /\ MyKey(w)[2] = worker[w].attempt
           /\ artifact[worker[w].art] \in Artifact /\ RowOK(artifact[worker[w].art])
           /\ worker[w].attempt \in 1 .. artifact[worker[w].art].attempt
           /\ record[MyKey(w)] \in Record /\ flight[MyKey(w)] \in Nat
           /\ KeyOK(artifact, record, flight, stored, MyKey(w))
  <1>1. /\ worker[w] \in Job /\ JobOK(worker[w], artifact, record, flight, stored)
        /\ ArtifactsOK(artifact)
    BY DEF IInv, Core, JobsOK
  <1>2. MyKey(w) = JobKey(worker[w])
    BY DEF MyKey, JobKey
  <1>3. MyKey(w) \in Keys /\ MyKey(w)[1] = worker[w].art /\ MyKey(w)[2] = worker[w].attempt
    BY <1>1, <1>2, JobKeyIsKey
  <1>4. worker[w].art \in Exports /\ worker[w].attempt \in 1 .. artifact[worker[w].art].attempt
    BY <1>1 DEF JobOK
  <1>5. artifact[worker[w].art] \in Artifact /\ RowOK(artifact[worker[w].art])
    BY <1>4, IInvUnfolded
  <1>6. record[MyKey(w)] \in Record /\ flight[MyKey(w)] \in Nat
    BY <1>3, IInvUnfolded DEF Tables
  <1>7. KeyOK(artifact, record, flight, stored, MyKey(w))
    BY <1>3 DEF IInv, Core, KeysOK
  <1> QED BY <1>1, <1>2, <1>3, <1>4, <1>5, <1>6, <1>7

Gone(j, at) == [j EXCEPT !.at = at, !.left = 0]

LEMMA GoneJob ==
    ASSUME NEW j \in Job, NEW at \in {"collecting", "putting", "uploaded", "failing"}
    PROVE  /\ Gone(j, at) \in Job /\ Gone(j, at).at = at /\ Gone(j, at).art = j.art
           /\ Gone(j, at).attempt = j.attempt /\ JobKey(Gone(j, at)) = JobKey(j)
  BY DEF Gone, Job, JobKey

LEMMA GotoGone ==
    ASSUME IInv, NEW w \in Workers, NEW at, Goto(w, at)
    PROVE  worker' = [worker EXCEPT ![w] = Gone(worker[w], at)]
  BY IInvUnfolded DEF Goto, Gone

LEMMA FailingOK ==
    ASSUME NEW A, NEW rec, NEW fl, NEW st, NEW j \in Job, j.at # "idle",
           JobOK(j, A, rec, fl, st)
    PROVE  JobOK(Gone(j, "failing"), A, rec, fl, st)
  BY GoneJob DEF JobOK

(* A generation that only goes to its failure, or ends. *)
LEMMA CoreFailing ==
    ASSUME NEW A, NEW rec, NEW fl, NEW st, NEW W, Core(A, rec, fl, st, W),
           NEW w \in Workers, W[w].at # "idle"
    PROVE  Core(A, rec, fl, st, [W EXCEPT ![w] = Gone(W[w], "failing")])
  <1>1. W[w] \in Job /\ JobOK(W[w], A, rec, fl, st)
    BY DEF Core, JobsOK
  <1>2. JobOK(Gone(W[w], "failing"), A, rec, fl, st)
    BY <1>1, FailingOK
  <1>3. Gone(W[w], "failing") \in Job /\ JobKey(Gone(W[w], "failing")) = JobKey(W[w])
    BY <1>1, GoneJob
  <1> QED BY <1>2, <1>3, CoreGoes

LEMMA WorkerOnly ==
    ASSUME IInv, NEW w \in Workers, worker[w].at # "idle",
           Goto(w, "failing") \/ Done(w),
           UNCHANGED <<ledgerVars, user, artifact, record, stored, flight>>
    PROVE  Kept
  <1>1. Core(artifact, record, flight, stored, worker)
    BY IInvUnfolded
  <1>2. CASE Done(w)
    BY <1>1, <1>2, CoreDone, KeysOnly DEF Done
  <1>3. CASE Goto(w, "failing")
    <2>1. worker' = [worker EXCEPT ![w] = Gone(worker[w], "failing")]
      BY <1>3, GotoGone
    <2>2. Core(artifact, record, flight, stored, worker')
      BY <1>1, <2>1, CoreFailing
    <2> QED BY <2>2, KeysOnly
  <1> QED BY <1>2, <1>3

LEMMA StepClaim ==
    ASSUME IInv, NEW w \in Workers, NEW a \in Exports, Claim(w, a) PROVE Kept
  <1>1. /\ Core(artifact, record, flight, stored, worker) /\ Tables(record, flight, stored)
        /\ ArtifactsOK(artifact) /\ artifact \in [Exports -> Artifact]
        /\ artifact[a] \in Artifact /\ RowOK(artifact[a]) /\ LedgerOK(request, artifact)
        /\ artifact[a].state \in {"pending", "generating"} /\ artifact[a].attempt < MaxAttempts
    BY IInvUnfolded DEF Claim, Claimable
  <1> DEFINE n == artifact[a].attempt + 1
             y == [artifact[a] EXCEPT !.state = "generating", !.attempt = n, !.owner = w,
                                      !.lease = LeaseTtl, !.key = 0]
             x == [at |-> "claimed", art |-> a, attempt |-> n,
                   failures |-> artifact[a].failures, left |-> 0]
             k == <<a, n>>
  <1>2. artifact' = [artifact EXCEPT ![a] = y] /\ worker' = [worker EXCEPT ![w] = x]
    BY <1>1 DEF Claim
  <1>3. RowMove(artifact[a], y) /\ y.attempt = n
    <2>1. RowMove(artifact[a], y)
      BY <1>1, RowClaimed
    <2> QED BY <1>1, <2>1 DEF Artifact
  <1>4. artifact[a].attempt \in Nat /\ artifact[a].failures \in Nat
    BY <1>1, ExportBounds DEF Artifact
  <1>5. n \in 1 .. MaxAttempts /\ n > artifact[a].attempt /\ n \in Nat
    BY <1>1, <1>4, ExportBounds
  <1>6. x \in Job /\ x.at = "claimed" /\ x.art = a /\ x.attempt = n /\ JobKey(x) = k
    BY <1>4, <1>5 DEF Job, JobKey
  <1>7. k \in Keys /\ k[1] = a /\ k[2] = n
    BY <1>5 DEF Keys
  <1> HIDE DEF n, y, x, k
  <1>8. flight[k] = 0
    <2>1. KeyOK(artifact, record, flight, stored, k) /\ flight[k] \in Nat
      BY <1>1, <1>7 DEF Core, KeysOK, Tables
    <2> QED BY <1>4, <1>5, <1>7, <2>1 DEF KeyOK
  <1>9. ASSUME NEW v \in Workers, worker[v].at # "idle" PROVE JobKey(worker[v]) # k
    <2> SUFFICES ASSUME JobKey(worker[v]) = k PROVE FALSE
      OBVIOUS
    <2>1. JobOK(worker[v], artifact, record, flight, stored)
      BY <1>1 DEF Core, JobsOK
    <2>2. worker[v].art = a /\ worker[v].attempt = n
      BY <1>7 DEF JobKey
    <2>3. n \in 1 .. artifact[a].attempt
      BY <1>9, <2>1, <2>2 DEF JobOK
    <2> QED BY <1>4, <1>5, <2>3
  <1>10. Moves(artifact, artifact', stored) /\ RowsNotNew(artifact, artifact')
    BY <1>1, <1>2, <1>3, OneRow DEF RowsMove
  <1>11. RowsKept(artifact, artifact')
    BY <1>10 DEF Moves
  <1>12. Core(artifact', record, flight, stored, worker)
    BY <1>1, <1>10, CoreRows
  <1>13. artifact'[a].attempt = n
    BY <1>1, <1>2, <1>3
  <1>14. JobOK(x, artifact', record, flight, stored)
    BY <1>5, <1>6, <1>8, <1>13 DEF JobOK
  <1>15. Core(artifact', record, flight, stored, worker')
    BY <1>2, <1>6, <1>9, <1>12, <1>14, CoreWorker
  <1>16. LedgerOK(request, artifact')
    BY <1>1, <1>10, <1>11, LedgerRows
  <1> QED BY <1>11, <1>15, <1>16, Assembled DEF Claim, ledgerVars

(* The fence: the row is the attempt's own. *)
LEMMA Fenced ==
    ASSUME NEW w, Fence(w)
    PROVE  /\ artifact[worker[w].art].attempt = worker[w].attempt
           /\ artifact[worker[w].art].state = "generating"
  BY DEF Fence

LEMMA StepPersistKey ==
    ASSUME IInv, NEW w \in Workers, PersistKey(w) PROVE Kept
  <1> DEFINE a == worker[w].art
             k == MyKey(w)
             r == [state |-> "armed", left |-> AttemptGrace, refusals |-> 0]
             y == [artifact[a] EXCEPT !.key = artifact[a].attempt]
             x == Gone(worker[w], "collecting")
  <1>1. worker[w].at = "claimed"
    BY DEF PersistKey
  <1>2. CASE ~Fence(w)
    BY <1>1, <1>2, WorkerOnly DEF PersistKey
  <1>3. CASE Fence(w)
    <2>1. /\ artifact' = [artifact EXCEPT ![a].key = worker[w].attempt]
          /\ record' = [record EXCEPT ![k] = r] /\ Goto(w, "collecting")
          /\ UNCHANGED <<ledgerVars, user, stored, flight>>
      BY <1>3 DEF PersistKey
    <2>2. /\ worker[w] \in Job /\ a \in Exports /\ k = JobKey(worker[w]) /\ k \in Keys
          /\ JobOK(worker[w], artifact, record, flight, stored) /\ k[1] = a
          /\ artifact[a] \in Artifact /\ RowOK(artifact[a]) /\ flight[k] \in Nat
          /\ worker[w].attempt \in 1 .. artifact[a].attempt
      BY <1>1, AtWork
    <2>3. artifact[a].attempt = worker[w].attempt /\ artifact[a].state = "generating"
      BY <1>3, Fenced
    <2>4. artifact \in [Exports -> Artifact] /\ ArtifactsOK(artifact)
          /\ Core(artifact, record, flight, stored, worker) /\ Tables(record, flight, stored)
          /\ LedgerOK(request, artifact)
      BY IInvUnfolded
    <2>5. artifact' = [artifact EXCEPT ![a] = y]
      BY <2>1, <2>3, <2>4
    <2>6. RowMove(artifact[a], y) /\ y.state = "generating" /\ y.attempt = artifact[a].attempt
      <3>1. RowMove(artifact[a], y)
        BY <2>2, <2>3, RowKeyed
      <3> QED BY <2>2, <2>3, <3>1 DEF Artifact
    <2>7. worker' = [worker EXCEPT ![w] = x]
      BY <2>1, GotoGone
    <2>8. /\ x \in Job /\ x.at = "collecting" /\ x.art = a /\ x.attempt = worker[w].attempt
          /\ JobKey(x) = k
      BY <2>2, GoneJob
    <2>9. r \in Record /\ r.state = "armed"
      <3>1. AttemptGrace \in Nat
        BY ExportBounds DEF AttemptGrace
      <3> QED BY <3>1 DEF Record
    <2>10. flight[k] = 0
      BY <1>1, <2>2 DEF JobOK
    <2> HIDE DEF a, k, r, y, x
    <2>11. Moves(artifact, artifact', stored) /\ RowsNotNew(artifact, artifact')
      BY <2>2, <2>4, <2>5, <2>6, OneRow DEF RowsMove
    <2>12. RowsKept(artifact, artifact')
      BY <2>11 DEF Moves
    <2>13. Core(artifact', record, flight, stored, worker)
      BY <2>4, <2>11, CoreRows
    <2>14. artifact'[a] = y
      BY <2>2, <2>4, <2>5
    <2>15. record'[k] = r
      BY <2>1, <2>2, <2>4 DEF Tables
    <2>16. KeyOK(artifact', record', flight, stored, k)
      BY <2>9, <2>10, <2>15 DEF KeyOK, Cover
    <2>17. JobOK(x, artifact', record', flight, stored)
      <3>1. x.attempt \in 1 .. artifact'[x.art].attempt
        BY <2>2, <2>6, <2>8, <2>14
      <3> QED BY <2>2, <2>8, <2>10, <3>1 DEF JobOK
    <2>18. OnlyKey(record, flight, stored, record', flight, stored, k)
      BY <2>1, <2>2, <2>4, <2>9 DEF OnlyKey, Tables, SameKey
    <2>19. Unready(artifact', k)
      BY <2>2, <2>6, <2>14 DEF Unready
    <2>20. GoesOn(worker, w, x, k)
      BY <1>1, <2>2, <2>8 DEF GoesOn
    <2>21. Core(artifact', record', flight, stored, worker')
      BY <2>7, <2>13, <2>16, <2>17, <2>18, <2>19, <2>20, CoreMine
    <2>22. LedgerOK(request, artifact')
      BY <2>4, <2>11, <2>12, LedgerRows
    <2> QED BY <2>1, <2>12, <2>21, <2>22, Assembled DEF ledgerVars
  <1> QED BY <1>2, <1>3

LEMMA StepPermitUpload ==
    ASSUME IInv, NEW w \in Workers, PermitUpload(w) PROVE Kept
  <1> DEFINE a == worker[w].art
             k == MyKey(w)
             mine == Fence(w) /\ artifact[a].key = worker[w].attempt
             y == [artifact[a] EXCEPT !.lease = LeaseTtl]
  <1>1. worker[w].at = "collecting" /\ UNCHANGED <<ledgerVars, user, stored, flight>>
    BY DEF PermitUpload
  <1>2. CASE ~mine
    BY <1>1, <1>2, WorkerOnly DEF PermitUpload
  <1>3. CASE mine
    <2>1. artifact' = [artifact EXCEPT ![a].lease = LeaseTtl]
      BY <1>3 DEF PermitUpload
    <2>2. /\ worker[w] \in Job /\ a \in Exports /\ k = JobKey(worker[w]) /\ k \in Keys
          /\ JobOK(worker[w], artifact, record, flight, stored) /\ k[1] = a
          /\ artifact[a] \in Artifact /\ RowOK(artifact[a]) /\ flight[k] \in Nat
          /\ record[k] \in Record
      BY <1>1, AtWork
    <2>3. artifact[a].state = "generating"
      BY <1>3, Fenced
    <2>4. artifact \in [Exports -> Artifact] /\ ArtifactsOK(artifact)
          /\ Core(artifact, record, flight, stored, worker) /\ Tables(record, flight, stored)
          /\ LedgerOK(request, artifact) /\ worker \in [Workers -> Job]
      BY IInvUnfolded
    <2>5. artifact' = [artifact EXCEPT ![a] = y]
      BY <2>1, <2>4
    <2>6. /\ RowMove(artifact[a], y) /\ y.state = "generating"
          /\ y.attempt = artifact[a].attempt
      <3>1. RowMove(artifact[a], y)
        BY <2>2, RowLease, ExportBounds
      <3> QED BY <2>2, <2>3, <3>1 DEF Artifact
    <2> HIDE DEF y
    <2>7. Moves(artifact, artifact', stored) /\ RowsNotNew(artifact, artifact')
      BY <2>2, <2>4, <2>5, <2>6, OneRow DEF RowsMove
    <2>8. RowsKept(artifact, artifact')
      BY <2>7 DEF Moves
    <2>9. Core(artifact', record, flight, stored, worker)
      BY <2>4, <2>7, CoreRows
    <2>10. artifact'[a] = y
      BY <2>2, <2>4, <2>5
    <2>11. LedgerOK(request, artifact')
      BY <2>4, <2>7, <2>8, LedgerRows
    <2>12. CASE record[k].state # "armed"
      <3>1. Goto(w, "failing") /\ record' = record
        BY <1>3, <2>12 DEF PermitUpload
      <3>2. worker' = [worker EXCEPT ![w] = Gone(worker[w], "failing")]
        BY <3>1, GotoGone
      <3>3. Core(artifact', record, flight, stored, worker')
        BY <1>1, <2>9, <3>2, CoreFailing
      <3> QED BY <1>1, <2>8, <2>11, <3>1, <3>3, Assembled DEF ledgerVars
    <2>13. CASE record[k].state = "armed"
      <3> DEFINE x == [worker[w] EXCEPT !.at = "permitted", !.left = UploadTimeout]
                 r == [record[k] EXCEPT !.left = UploadCover]
      <3>1. /\ record' = [record EXCEPT ![k] = r]
            /\ worker' = [worker EXCEPT ![w] = x]
        BY <1>3, <2>4, <2>13 DEF PermitUpload, Tables
      <3>2. UploadTimeout \in Nat /\ UploadCover \in Nat
            /\ UploadCover >= UploadTimeout + 2 * UploadTimeout
        BY ExportBounds DEF UploadCover
      <3>3. /\ x \in Job /\ x.at = "permitted" /\ x.art = a /\ x.attempt = worker[w].attempt
            /\ x.left = UploadTimeout /\ JobKey(x) = k
        BY <2>2, <3>2 DEF Job, JobKey
      <3>4. r \in Record /\ r.state = "armed" /\ r.left = UploadCover
        BY <2>2, <2>13, <3>2 DEF Record
      <3>5. flight[k] = 0
        BY <1>1, <2>2 DEF JobOK
      <3> HIDE DEF a, k, r, x
      <3>6. record'[k] = r
        BY <2>2, <2>4, <3>1 DEF Tables
      <3>7. KeyOK(artifact', record', flight, stored, k)
        BY <3>4, <3>5, <3>6 DEF KeyOK, Cover
      <3>8. JobOK(x, artifact', record', flight, stored)
        <4>1. x.attempt \in 1 .. artifact'[x.art].attempt
          BY <1>1, <2>2, <2>6, <2>10, <3>3 DEF JobOK, a
        <4> QED BY <2>2, <3>2, <3>3, <3>4, <3>5, <3>6, <4>1 DEF JobOK
      <3>9. OnlyKey(record, flight, stored, record', flight, stored, k)
        BY <2>2, <2>4, <3>1, <3>4 DEF OnlyKey, Tables, SameKey
      <3>10. Unready(artifact', k) /\ GoesOn(worker, w, x, k)
        BY <1>1, <2>2, <2>6, <2>10, <3>3 DEF Unready, GoesOn
      <3>11. Core(artifact', record', flight, stored, worker')
        BY <2>9, <3>1, <3>7, <3>8, <3>9, <3>10, CoreMine
      <3> QED BY <1>1, <2>8, <2>11, <3>11, Assembled DEF ledgerVars
    <2> QED BY <2>12, <2>13
  <1> QED BY <1>2, <1>3

(* The PUT of a fresh permit is over before its deletion record runs out. *)
LEMMA StepStartPut ==
    ASSUME IInv, NEW w \in Workers, StartPut(w) PROVE Kept
  <1> DEFINE k == MyKey(w)
             x == Gone(worker[w], "putting")
             n == 2 * UploadTimeout + 1
  <1>1. worker[w].at = "permitted" /\ UNCHANGED <<ledgerVars, user, artifact, record, stored>>
    BY DEF StartPut
  <1>2. CASE ~(worker[w].left > 0)
    BY <1>1, <1>2, WorkerOnly DEF StartPut
  <1>3. CASE worker[w].left > 0
    <2>1. flight' = [flight EXCEPT ![k] = n] /\ Goto(w, "putting")
      BY <1>3 DEF StartPut
    <2>2. /\ worker[w] \in Job /\ k = JobKey(worker[w]) /\ k \in Keys
          /\ JobOK(worker[w], artifact, record, flight, stored)
          /\ k[1] = worker[w].art /\ k[2] = worker[w].attempt
          /\ worker[w].attempt \in 1 .. artifact[worker[w].art].attempt
          /\ artifact[worker[w].art] \in Artifact
          /\ record[k] \in Record /\ KeyOK(artifact, record, flight, stored, k)
      BY <1>1, AtWork
    <2>3. Core(artifact, record, flight, stored, worker) /\ Tables(record, flight, stored)
      BY IInvUnfolded
    <2>4. n \in Nat /\ n > 0
      BY ExportBounds
    <2>5. record[k].state = "armed" /\ record[k].left >= n
      <3>1. record[k].state = "armed" /\ record[k].left >= worker[w].left + 2 * UploadTimeout
        BY <1>1, <1>3, <2>2 DEF JobOK
      <3>2. worker[w].left \in Nat /\ record[k].left \in Nat /\ UploadTimeout \in Nat
        BY <2>2, ExportBounds DEF Job, Record
      <3> QED BY <1>3, <3>1, <3>2
    <2>6. worker' = [worker EXCEPT ![w] = x]
      BY <2>1, GotoGone
    <2>7. /\ x \in Job /\ x.at = "putting" /\ x.art = worker[w].art
          /\ x.attempt = worker[w].attempt /\ JobKey(x) = k
      BY <2>2, GoneJob
    <2> HIDE DEF k, x, n
    <2>8. flight'[k] = n
      BY <2>1, <2>2, <2>3 DEF Tables
    <2>9. KeyOK(artifact, record, flight', stored, k)
      <3>1. k[2] <= artifact[k[1]].attempt
        BY <2>2 DEF Artifact
      <3> QED BY <2>2, <2>5, <2>8, <3>1 DEF KeyOK
    <2>10. JobOK(x, artifact, record, flight', stored)
      BY <1>1, <2>2, <2>4, <2>7, <2>8 DEF JobOK
    <2>11. OnlyKey(record, flight, stored, record, flight', stored, k)
      BY <2>1, <2>2, <2>3, <2>4 DEF OnlyKey, Tables, SameKey
    <2>12. Unready(artifact, k)
      BY <2>2, <2>3, <2>5, FlyingNotReady DEF Unready
    <2>13. GoesOn(worker, w, x, k)
      BY <1>1, <2>2, <2>7 DEF GoesOn
    <2>14. Core(artifact, record, flight', stored, worker')
      BY <2>3, <2>6, <2>9, <2>10, <2>11, <2>12, <2>13, CoreMine
    <2> QED BY <1>1, <2>14, KeysOnly
  <1> QED BY <1>2, <1>3

LEMMA StepPutAcknowledged ==
    ASSUME IInv, NEW w \in Workers, PutAcknowledged(w) PROVE Kept
  <1> DEFINE k == MyKey(w)
             x == Gone(worker[w], "uploaded")
  <1>1. /\ worker[w].at = "putting" /\ UNCHANGED <<ledgerVars, user, artifact, record>>
        /\ stored' = stored \cup {k} /\ flight' = [flight EXCEPT ![k] = 0]
        /\ Goto(w, "uploaded")
    BY DEF PutAcknowledged
  <1>2. /\ worker[w] \in Job /\ k = JobKey(worker[w]) /\ k \in Keys
        /\ JobOK(worker[w], artifact, record, flight, stored)
        /\ record[k] \in Record /\ KeyOK(artifact, record, flight, stored, k)
    BY <1>1, AtWork
  <1>3. Core(artifact, record, flight, stored, worker) /\ Tables(record, flight, stored)
    BY IInvUnfolded
  <1>4. record[k].state = "armed"
    BY <1>1, <1>2 DEF JobOK, KeyOK
  <1>5. worker' = [worker EXCEPT ![w] = x]
    BY <1>1, GotoGone
  <1>6. /\ x \in Job /\ x.at = "uploaded" /\ x.art = worker[w].art
        /\ x.attempt = worker[w].attempt /\ JobKey(x) = k
    BY <1>2, GoneJob
  <1> HIDE DEF k, x
  <1>7. flight'[k] = 0 /\ 0 \in Nat
    BY <1>1, <1>2, <1>3 DEF Tables
  <1>8. KeyOK(artifact, record, flight', stored', k)
    BY <1>4, <1>7 DEF KeyOK, Cover
  <1>9. JobOK(x, artifact, record, flight', stored')
    BY <1>1, <1>2, <1>6, <1>7 DEF JobOK
  <1>10. OnlyKey(record, flight, stored, record, flight', stored', k)
    BY <1>1, <1>2, <1>3, <1>7 DEF OnlyKey, Tables, SameKey
  <1>11. Unready(artifact, k)
    BY <1>2, <1>3, <1>4, FlyingNotReady DEF Unready
  <1>12. GoesOn(worker, w, x, k)
    BY <1>1, <1>2, <1>6 DEF GoesOn
  <1>13. Core(artifact, record, flight', stored', worker')
    BY <1>3, <1>5, <1>8, <1>9, <1>10, <1>11, <1>12, CoreMine
  <1> QED BY <1>1, <1>13, KeysOnly

(* A generation fails, at once or after its last try. *)
LEMMA StepFail ==
    ASSUME IInv, NEW w \in Workers, worker[w].at # "idle", Fail(w) PROVE Kept
  <1> DEFINE a == worker[w].art
  <1>1. CASE ~Fence(w)
    BY <1>1, WorkerOnly DEF Fail, ledgerVars
  <1>2. CASE Fence(w)
    <2>1. /\ artifact' = [artifact EXCEPT ![a] = FailedRow(artifact[a])]
          /\ request' = CloseLinked(artifact[a].req, "failed")
          /\ Done(w) /\ UNCHANGED <<desk, user, record, stored, flight>>
      BY <1>2, IInvUnfolded DEF Fail
    <2>2. a \in Exports
      BY AtWork
    <2>3. artifact[a].state \in {"pending", "generating"}
      BY <1>2, Fenced
    <2> HIDE DEF a
    <2>4. /\ Core(artifact', record, flight, stored, worker) /\ RowsKept(artifact, artifact')
          /\ LedgerOK(CloseLinked(artifact[a].req, "failed"), artifact')
      BY <2>1, <2>2, <2>3, FailedKept
    <2>5. Core(artifact', record, flight, stored, worker')
      BY <2>1, <2>4, CoreDone DEF Done
    <2> QED BY <2>1, <2>4, <2>5, Assembled
  <1> QED BY <1>1, <1>2

LEMMA StepRetryLater ==
    ASSUME IInv, NEW w \in Workers, RetryLater(w) PROVE Kept
  <1> DEFINE a == worker[w].art
             n == worker[w].failures + 1
             y == [artifact[a] EXCEPT !.state = "pending", !.failures = n, !.owner = NoWorker,
                                      !.lease = 0]
  <1>1. worker[w].at # "idle"
    BY DEF RetryLater
  <1>2. CASE LastTry(n)
    BY <1>1, <1>2, StepFail DEF RetryLater
  <1>3. CASE ~LastTry(n) /\ ~Fence(w)
    BY <1>1, <1>3, WorkerOnly DEF RetryLater
  <1>4. CASE ~LastTry(n) /\ Fence(w)
    <2>1. /\ artifact' = [artifact EXCEPT ![a].state = "pending", ![a].failures = n,
                             ![a].owner = NoWorker, ![a].lease = 0]
          /\ Done(w) /\ UNCHANGED <<ledgerVars, user, record, stored, flight>>
      BY <1>4 DEF RetryLater
    <2>2. /\ worker[w] \in Job /\ a \in Exports
          /\ artifact[a] \in Artifact /\ RowOK(artifact[a])
      BY <1>1, AtWork
    <2>3. artifact \in [Exports -> Artifact] /\ ArtifactsOK(artifact)
          /\ Core(artifact, record, flight, stored, worker) /\ LedgerOK(request, artifact)
      BY IInvUnfolded
    <2>4. artifact[a].state = "generating"
      BY <1>4, Fenced
    <2>5. n \in 0 .. (MaxFailures - 1)
      <3>1. worker[w].failures \in Nat
        BY <2>2 DEF Job
      <3> QED BY <1>4, <3>1, ExportBounds DEF LastTry
    <2>6. artifact' = [artifact EXCEPT ![a] = y]
      BY <2>1, <2>3
    <2> HIDE DEF n, a
    <2>7. RowMove(artifact[a], y)
      BY <2>2, <2>4, <2>5, RowRetried
    <2> HIDE DEF y
    <2>8. Moves(artifact, artifact', stored) /\ RowsNotNew(artifact, artifact')
      BY <2>2, <2>3, <2>6, <2>7, OneRow DEF RowsMove
    <2>9. RowsKept(artifact, artifact')
      BY <2>8 DEF Moves
    <2>10. Core(artifact', record, flight, stored, worker)
      BY <2>3, <2>8, CoreRows
    <2>11. Core(artifact', record, flight, stored, worker')
      <3>1. worker' = [worker EXCEPT ![w] = NoJob]
        BY <2>1 DEF Done
      <3> QED BY <2>10, <3>1, CoreDone
    <2>12. LedgerOK(request, artifact')
      BY <2>3, <2>8, <2>9, LedgerRows
    <2> QED BY <2>1, <2>9, <2>11, <2>12, Assembled DEF ledgerVars
  <1> QED BY <1>2, <1>3, <1>4

(* Publication: the object is there, its record was still armed, and from   *)
(* now on the artifact answers for it.                                      *)
Published(y) == [y EXCEPT !.state = "ready", !.expiry = "ahead", !.owner = NoWorker, !.lease = 0]

LEMMA RowPublished ==
    ASSUME NEW y \in Artifact, RowOK(y), y.state = "generating"
    PROVE  /\ Published(y) \in Artifact /\ RowOK(Published(y)) /\ RowKept(y, Published(y))
           /\ Published(y).state = "ready" /\ Published(y).expiry # "unset"
           /\ Published(y).key = y.key /\ Published(y).attempt = y.attempt
           /\ Published(y).req = y.req /\ Published(y).cleanup = y.cleanup
           /\ Published(y).transfer = y.transfer
  <1> DEFINE x == Published(y)
  <1>1. x \in Artifact
    BY DEF Published, Artifact, Live
  <1>2. /\ x.state = "ready" /\ x.cleanup = y.cleanup /\ x.key = y.key
        /\ x.attempt = y.attempt /\ x.req = y.req
        /\ x.expiry = "ahead" /\ x.transfer = y.transfer
    BY DEF Published, Artifact
  <1>3. y.attempt \in Nat
    BY DEF Artifact
  <1> HIDE DEF x
  <1>4. RowOK(x) /\ RowKept(y, x)
    BY <1>1, <1>2, <1>3 DEF RowOK, RowKept, Live, Ended
  <1>5. /\ x \in Artifact /\ RowOK(x) /\ RowKept(y, x)
        /\ x.state = "ready" /\ x.expiry # "unset" /\ x.key = y.key /\ x.attempt = y.attempt
        /\ x.req = y.req /\ x.cleanup = y.cleanup /\ x.transfer = y.transfer
    BY <1>1, <1>2, <1>4
  <1> QED BY <1>5 DEF x

Publishable(A, fl, st, W, a, k) ==
    /\ a \in Exports /\ A[a].state = "generating" /\ A[a].key = A[a].attempt
    /\ k \in Keys /\ k = <<a, A[a].attempt>> /\ k \in st /\ fl[k] = 0
    /\ \A w \in Workers : W[w].at # "idle" => JobKey(W[w]) # k

LEMMA CorePublished ==
    ASSUME NEW A, NEW rec, NEW fl, NEW st, NEW W, Core(A, rec, fl, st, W),
           NEW a, NEW k, Publishable(A, fl, st, W, a, k),
           NEW A2, A2 = [A EXCEPT ![a] = Published(A[a])],
           NEW rec2, rec2 = [rec EXCEPT ![k] = NoRecord]
    PROVE  Core(A2, rec2, fl, st, W) /\ RowsKept(A, A2)
  <1>0. /\ a \in Exports /\ A[a].state = "generating" /\ A[a].key = A[a].attempt
        /\ k \in Keys /\ k = <<a, A[a].attempt>> /\ k \in st /\ fl[k] = 0
    BY DEF Publishable
  <1>1. /\ ArtifactsOK(A) /\ Tables(rec, fl, st) /\ A \in [Exports -> Artifact]
        /\ A[a] \in Artifact /\ RowOK(A[a])
    BY <1>0 DEF Core, ArtifactsOK, KeysOK
  <1>2. /\ Published(A[a]) \in Artifact /\ RowOK(Published(A[a]))
        /\ RowKept(A[a], Published(A[a]))
        /\ Published(A[a]).state = "ready"
        /\ Published(A[a]).key = A[a].key /\ Published(A[a]).attempt = A[a].attempt
        /\ Published(A[a]).cleanup = A[a].cleanup
    BY <1>0, <1>1, RowPublished
  <1>3. /\ A2 \in [Exports -> Artifact] /\ A2[a] = Published(A[a])
        /\ \A b \in Exports : b # a => A2[b] = A[b]
    BY <1>0, <1>1, <1>2
  <1>4. NoRecord \in Record /\ NoRecord.state = "none"
    BY DEF NoRecord, Record
  <1>5. /\ rec2 \in [Keys -> Record] /\ rec2[k].state = "none"
        /\ \A l \in Keys : l # k => rec2[l] = rec[l]
    BY <1>0, <1>1, <1>4 DEF Tables
  <1>6. k[1] = a /\ k[2] = A[a].attempt /\ k[2] = A[a].key
    BY <1>0
  <1>7. ASSUME NEW b \in Exports PROVE RowKept(A[b], A2[b]) /\ RowOK(A2[b])
    <2>1. CASE b = a
      BY <1>2, <1>3, <2>1
    <2>2. CASE b # a
      BY <1>1, <1>3, <2>2, RowStays DEF ArtifactsOK, RowMove
    <2> QED BY <2>1, <2>2
  <1>8. RowsKept(A, A2)
    BY <1>7 DEF RowsKept
  <1>9. OneLive(A2)
    <2>1. \A b \in Exports : A2[b].state \in Live => A[b].state \in Live
      BY <1>0, <1>3 DEF Live
    <2> QED BY <1>1, <2>1 DEF ArtifactsOK, OneLive
  <1>10. ArtifactsOK(A2)
    BY <1>3, <1>7, <1>9 DEF ArtifactsOK
  <1>11. ASSUME NEW w \in Workers PROVE JobOK(W[w], A2, rec2, fl, st)
    <2> SUFFICES ASSUME W[w].at # "idle" PROVE JobOK(W[w], A2, rec2, fl, st)
      BY DEF JobOK
    <2>1. JobOK(W[w], A, rec, fl, st)
      BY DEF Core, JobsOK
    <2>2. JobOK(W[w], A2, rec, fl, st)
      BY <1>1, <1>8, <1>10, <2>1, JobKept
    <2>3. JobKey(W[w]) \in Keys /\ JobKey(W[w]) # k
      BY <1>1, <2>1, JobKeyIsKey DEF Publishable
    <2>4. rec2[JobKey(W[w])] = rec[JobKey(W[w])]
      BY <1>5, <2>3
    <2> QED BY <2>2, <2>4 DEF JobOK
  <1>12. JobsOK(W, A2, rec2, fl, st)
    BY <1>11 DEF Core, JobsOK
  <1>13. ASSUME NEW l \in Keys PROVE KeyOK(A2, rec2, fl, st, l)
    <2>1. KeyOK(A, rec, fl, st, l)
      BY DEF Core, KeysOK
    <2>2. CASE l = k
      <3>1. Cover(A2, rec2, k)
        BY <1>0, <1>2, <1>3, <1>6 DEF Cover, Names
      <3> QED BY <1>0, <2>2, <3>1 DEF KeyOK
    <2>3. CASE l # k
      <3>1. l[1] \in Exports /\ l[2] \in Nat /\ l = <<l[1], l[2]>>
        BY ExportBounds DEF Keys
      <3>2. rec2[l] = rec[l]
        BY <1>5, <2>3
      <3>3. CASE l[1] = a
        <4>1. A2[l[1]].attempt = A[l[1]].attempt
          BY <1>2, <1>3, <3>3
        <4>2. A[l[1]].key # l[2]
          BY <1>0, <1>6, <2>3, <3>1, <3>3
        <4> QED BY <2>1, <3>2, <4>1, <4>2 DEF KeyOK, Cover
      <3>4. CASE l[1] # a
        <4>1. A2[l[1]] = A[l[1]]
          BY <1>3, <3>1, <3>4
        <4> QED BY <2>1, <3>2, <4>1 DEF KeyOK, Cover
      <3> QED BY <3>3, <3>4
    <2> QED BY <2>2, <2>3
  <1>14. ASSUME NEW b \in Exports, A2[b].state = "ready"
         PROVE  /\ A2[b].key = A2[b].attempt
                /\ <<b, A2[b].key>> \in st
                /\ rec2[<<b, A2[b].key>>].state = "none"
    <2>1. CASE b = a
      BY <1>0, <1>2, <1>3, <1>5, <1>6, <2>1
    <2>2. CASE b # a
      <3>1. /\ A[b].key = A[b].attempt /\ <<b, A[b].key>> \in st
            /\ rec[<<b, A[b].key>>].state = "none" /\ A2[b] = A[b]
        BY <1>3, <1>14, <2>2 DEF Core, ReadyOK
      <3>2. <<b, A[b].key>> # k /\ <<b, A[b].key>> \in Keys
        BY <1>0, <1>1, <2>2, <3>1 DEF Tables
      <3>3. rec2[<<b, A[b].key>>] = rec[<<b, A[b].key>>]
        BY <1>5, <3>2
      <3> QED BY <3>1, <3>3
    <2> QED BY <2>1, <2>2
  <1>15. KeysOK(A2, rec2, fl, st)
    BY <1>1, <1>5, <1>13 DEF KeysOK, Tables
  <1>16. ReadyOK(A2, rec2, st)
    BY <1>14 DEF ReadyOK
  <1>17. Core(A2, rec2, fl, st, W)
    BY <1>10, <1>12, <1>15, <1>16 DEF Core
  <1> QED BY <1>8, <1>17

(* A row that was live becomes ready: the requests closed as failed are of  *)
(* other artifacts still.                                                   *)
LEMMA LedgerPublished ==
    ASSUME NEW A, ArtifactsOK(A), NEW a \in Exports, A[a].state = "generating",
           NEW R, LedgerOK(R, A), NEW A2, A2 = [A EXCEPT ![a] = Published(A[a])], RowsKept(A, A2)
    PROVE  LedgerOK(R, A2) /\ A2[a].req = A[a].req /\ A2[a].expiry # "unset"
  <1>1. A \in [Exports -> Artifact] /\ A[a] \in Artifact /\ RowOK(A[a])
    BY DEF ArtifactsOK
  <1>2. /\ A2[a] = Published(A[a]) /\ \A b \in Exports : b # a => A2[b] = A[b]
    BY <1>1
  <1>3. /\ Published(A[a]).state = "ready" /\ Published(A[a]).req = A[a].req
        /\ Published(A[a]).expiry # "unset" /\ Published(A[a]).transfer = A[a].transfer
    BY <1>1, RowPublished
  <1>4. ASSUME NEW r \in Requests PROVE RequestOK(R[r], A2, r)
    <2>1. RequestOK(R[r], A, r)
      BY DEF LedgerOK
    <2>2. LiveOf(A2, r) => LiveOf(A, r)
      BY <1>2, <1>3 DEF LiveOf, Live
    <2>3. \A b \in Exports : A2[b].req = A[b].req /\ A2[b].transfer = A[b].transfer
                             /\ (A[b].expiry # "unset" => A2[b].expiry # "unset")
      BY <1>2, <1>3
    <2> QED BY <2>1, <2>2, <2>3 DEF RequestOK
  <1>5. ASSUME NEW b \in Exports, A2[b].state # "none" PROVE R[A2[b].req].status # "none"
    <2>1. A[b].state # "none" /\ A2[b].req = A[b].req
      BY <1>2, <1>3, <1>5
    <2> QED BY <2>1 DEF LedgerOK
  <1>6. LedgerOK(R, A2)
    BY <1>4, <1>5 DEF LedgerOK
  <1> QED BY <1>2, <1>3, <1>6

LEMMA StepPublish ==
    ASSUME IInv, NEW w \in Workers, Publish(w) PROVE Kept
  <1> DEFINE a == worker[w].art
             k == MyKey(w)
             mine == Fence(w) /\ artifact[a].key = worker[w].attempt
             current == user.status = "active" /\ user.epoch = artifact[a].epoch
  <1>1. worker[w].at = "uploaded" /\ UNCHANGED <<desk, user, stored, flight>>
    BY DEF Publish
  <1>2. CASE ~mine
    BY <1>1, <1>2, WorkerOnly DEF Publish, ledgerVars
  <1>3. CASE mine /\ current /\ ~KeepsRecord(k)
    BY <1>1, <1>3, WorkerOnly DEF Publish, ledgerVars
  <1>4. /\ worker[w] \in Job /\ a \in Exports /\ k = JobKey(worker[w]) /\ k \in Keys
        /\ JobOK(worker[w], artifact, record, flight, stored)
        /\ artifact[a] \in Artifact /\ RowOK(artifact[a])
    BY <1>1, AtWork
  <1>5. artifact \in [Exports -> Artifact] /\ ArtifactsOK(artifact)
        /\ Core(artifact, record, flight, stored, worker) /\ LedgerOK(request, artifact)
    BY IInvUnfolded
  <1>6. CASE mine /\ ~current
    <2>1. /\ artifact' = [artifact EXCEPT ![a] = Revoked(artifact[a])]
          /\ worker' = [worker EXCEPT ![w] = NoJob] /\ UNCHANGED <<record, request>>
      BY <1>5, <1>6 DEF Publish, Done
    <2>2. artifact[a].state \in Live
      BY <1>6, Fenced DEF Live
    <2> HIDE DEF a
    <2>3. RowMove(artifact[a], Revoked(artifact[a]))
      BY <1>4, <2>2, RowRevoked
    <2>4. Moves(artifact, artifact', stored) /\ RowsNotNew(artifact, artifact')
      BY <1>4, <1>5, <2>1, <2>3, OneRow DEF RowsMove
    <2>5. RowsKept(artifact, artifact')
      BY <2>4 DEF Moves
    <2>6. Core(artifact', record, flight, stored, worker)
      BY <1>5, <2>4, CoreRows
    <2>7. Core(artifact', record, flight, stored, worker')
      BY <2>1, <2>6, CoreDone
    <2>8. LedgerOK(request, artifact')
      BY <1>5, <2>4, <2>5, LedgerRows
    <2> QED BY <1>1, <2>1, <2>5, <2>7, <2>8, Assembled
  <1>7. CASE mine /\ current /\ KeepsRecord(k)
    <2>1. /\ artifact' = [artifact EXCEPT ![a] = Published(artifact[a])]
          /\ worker' = [worker EXCEPT ![w] = NoJob]
          /\ record' = [record EXCEPT ![k] = NoRecord]
          /\ request' = CloseLinked(artifact[a].req, "completed")
      BY <1>5, <1>7 DEF Publish, Done, Published
    <2>2. /\ artifact[a].attempt = worker[w].attempt /\ artifact[a].state = "generating"
          /\ artifact[a].key = artifact[a].attempt /\ record[k].state = "armed"
      BY <1>7, Fenced DEF KeepsRecord
    <2>3. artifact[a].cleanup = "none" /\ artifact[a].req \in Requests
      BY <1>4, <2>2 DEF RowOK, Live
    <2>4. k \in stored /\ flight[k] = 0
      BY <1>1, <1>4, <2>2, <2>3 DEF JobOK
    <2>5. k = <<a, artifact[a].attempt>>
      BY <2>2 DEF MyKey
    <2> DEFINE W1 == [worker EXCEPT ![w] = NoJob]
    <2>6. Core(artifact, record, flight, stored, W1)
      BY <1>5, CoreDone
    <2>7. ASSUME NEW v \in Workers, W1[v].at # "idle" PROVE JobKey(W1[v]) # k
      <3>1. v # w /\ W1[v] = worker[v]
        BY <2>7, NoJobIsIdle, IInvUnfolded
      <3> QED BY <1>1, <1>4, <1>5, <2>7, <3>1, OthersDiffer
    <2> HIDE DEF a, k, W1
    <2>8. Publishable(artifact, flight, stored, W1, a, k)
      BY <1>4, <2>2, <2>4, <2>5, <2>7 DEF Publishable
    <2>9. Core(artifact', record', flight, stored, W1) /\ RowsKept(artifact, artifact')
      <3>1. /\ artifact' = [artifact EXCEPT ![a] = Published(artifact[a])]
            /\ record' = [record EXCEPT ![k] = NoRecord]
        BY <2>1
      <3> HIDE DEF mine, current
      <3>2. Core([artifact EXCEPT ![a] = Published(artifact[a])],
                 [record EXCEPT ![k] = NoRecord], flight, stored, W1)
        BY <2>6, <2>8, CorePublished
      <3>3. RowsKept(artifact, [artifact EXCEPT ![a] = Published(artifact[a])])
        BY <2>6, <2>8, <3>2, CorePublished
      <3> QED BY <3>1, <3>2, <3>3
    <2>10. /\ LedgerOK(request, artifact') /\ artifact'[a].req = artifact[a].req
          /\ artifact'[a].expiry # "unset"
      BY <1>4, <1>5, <2>1, <2>2, <2>9, LedgerPublished
    <2>11. LedgerOK(CloseLinked(artifact[a].req, "completed"), artifact')
      BY <1>4, <2>3, <2>10, CloseLinkedOK
    <2>12. Core(artifact', record', flight, stored, worker')
      BY <2>1, <2>9 DEF W1
    <2> QED BY <1>1, <2>1, <2>9, <2>11, <2>12, Assembled
  <1> QED BY <1>2, <1>3, <1>6, <1>7

-----------------------------------------------------------------------------
(* Every step of the exports. *)
LEMMA StepKeeps ==
    ASSUME IInv, ExportNext PROVE Kept
  <1>1. CASE Account
    BY <1>1, StepEpochBump, StepModerate, StepIssue DEF Account
  <1>2. CASE Sweep
    BY <1>2, StepSweepRow, StepTimeOut, StepCleanup, StepCleanupRefused, StepReap, StepReconcile
       DEF Sweep
  <1>3. CASE Environment
    <2>1. ASSUME NEW w \in Workers, Crash(w) PROVE Kept
      BY <2>1, WorkerOnly DEF Crash
    <2> QED BY <1>3, <2>1, StepLatePut, StepSweepRow, StepTick, StepRedrive DEF Environment
  <1>4. ASSUME NEW w \in Workers, Generate(w) PROVE Kept
    <2>1. CASE TooLarge(w)
      BY <2>1, StepFail DEF TooLarge
    <2>2. CASE GenerationError(w)
      BY <2>2, WorkerOnly DEF GenerationError
    <2>3. CASE PutFailed(w)
      BY <2>3, WorkerOnly DEF PutFailed
    <2> QED BY <1>4, <2>1, <2>2, <2>3, StepClaim, StepPersistKey, StepPermitUpload, StepStartPut,
               StepPutAcknowledged, StepPublish, StepRetryLater DEF Generate
  <1>5. CASE OperatorStep /\ UNCHANGED exportVars
    <2>1. DeskOK' /\ LedgerOK(request', artifact)
      BY <1>5, IInvUnfolded, StepOperator
    <2>2. RowsKept(artifact, artifact)
      BY IInvUnfolded, NoRow
    <2> QED BY <1>5, <2>1, <2>2, IInvUnfolded DEF exportVars, Kept, IInv, UserOK
  <1> QED BY <1>1, <1>2, <1>3, <1>4, <1>5 DEF ExportNext

LEMMA StutterKeeps ==
    ASSUME IInv, UNCHANGED vars PROVE Kept
  <1>1. RowsKept(artifact, artifact)
    BY IInvUnfolded, NoRow
  <1> QED BY <1>1, IInvUnfolded DEF vars, Kept, IInv, UserOK, DeskOK

LEMMA Initially == Init => IInv
  <1> SUFFICES ASSUME Init PROVE IInv
    OBVIOUS
  <1>1. NoArtifact \in Artifact /\ RowOK(NoArtifact) /\ NoArtifact.state = "none"
    <2>1. NoArtifact \in Artifact
      BY ExportBounds DEF NoArtifact, Artifact, Live, Ended
    <2>2. RowOK(NoArtifact)
      BY ExportBounds DEF NoArtifact, RowOK, Live
    <2> QED BY <2>1, <2>2 DEF NoArtifact
  <1>2. NoRecord \in Record
    BY DEF NoRecord, Record
  <1>3. NoRequest \in Request /\ NoCall \in Call
    BY DEF NoRequest, Request, NoCall, Call
  <1>4. /\ artifact \in [Exports -> Artifact]
        /\ \A a \in Exports : artifact[a] = NoArtifact /\ artifact[a].state = "none"
    BY <1>1 DEF Init
  <1>5. ArtifactsOK(artifact)
    BY <1>1, <1>4 DEF ArtifactsOK, OneLive, Live
  <1>6. JobsOK(worker, artifact, record, flight, stored)
    BY NoJobIsIdle DEF Init, JobsOK, JobOK
  <1>7. KeysOK(artifact, record, flight, stored)
    BY <1>2 DEF Init, KeysOK, Tables, KeyOK
  <1>8. ReadyOK(artifact, record, stored)
    BY <1>4 DEF ReadyOK
  <1>9. UserOK /\ DeskOK
    BY <1>3 DEF Init, LedgerInit, UserOK, DeskOK
  <1>10. LedgerOK(request, artifact)
    <2>1. \A r \in Requests : RequestOK(NoRequest, artifact, r)
      BY DEF NoRequest, RequestOK
    <2> QED BY <1>3, <1>4, <2>1 DEF Init, LedgerInit, LedgerOK
  <1> QED BY <1>5, <1>6, <1>7, <1>8, <1>9, <1>10 DEF IInv, Core

(* The inductive invariant holds throughout generation, deletion, revocation *)
(* and the operators' calls, whatever crashes in between.                    *)
THEOREM Invariance == Spec => []IInv
  <1>1. Init => IInv
    BY Initially
  <1>2. IInv /\ [ExportNext]_vars => IInv'
    BY StepKeeps, StutterKeeps DEF Kept
  <1> QED BY <1>1, <1>2, PTL DEF Spec

(* Every table keeps its type. *)
LEMMA TypeOfInv == IInv => TypeOK
  BY DEF IInv, UserOK, DeskOK, Core, ArtifactsOK, JobsOK, KeysOK, Tables, LedgerOK, TypeOK,
         LedgerTypeOK

(* No object and no PUT that may still make one is without a durable record *)
(* of its deletion.                                                         *)
LEMMA NoOrphanOfInv == IInv => NoOrphan
  <1> SUFFICES ASSUME IInv, NEW k \in Keys, k \in stored \/ flight[k] > 0 PROVE Covered(k)
    BY DEF NoOrphan
  <1>1. KeyOK(artifact, record, flight, stored, k)
    BY DEF IInv, Core, KeysOK
  <1> QED BY <1>1 DEF KeyOK, Cover, Names, Covered

LEMMA ReadyOfInv == IInv => ReadyIsStored
  BY DEF IInv, Core, ReadyOK, ReadyIsStored, KeyOf

LEMMA LedgerOfInv == IInv => LedgerTruthful
  BY DEF IInv, LedgerOK, RequestOK, LiveOf, LedgerTruthful, LiveFor, Closed

(* The rows of the account, its artifacts, records, objects, uploads,        *)
(* workers, requests and operators keep their types.                         *)
THEOREM TypeCorrect == Spec => []TypeOK
  BY Invariance, TypeOfInv, PTL

(* Whatever the timing of uploads, crashes, fences and the reaper, nothing   *)
(* in the bucket and nothing on its way there is without its deletion.       *)
THEOREM NothingOrphaned == Spec => []NoOrphan
  BY Invariance, NoOrphanOfInv, PTL

(* A ready artifact is the upload of its latest attempt, the object is in    *)
(* the bucket and no deletion record is left of it.                          *)
THEOREM ReadyHasObject == Spec => []ReadyIsStored
  BY Invariance, ReadyOfInv, PTL

(* What the worker wrote when it closed a request is true of its exports.    *)
THEOREM LedgerTellsTheTruth == Spec => []LedgerTruthful
  BY Invariance, LedgerOfInv, PTL

-----------------------------------------------------------------------------
(* The redemption. *)

LEMMA DeliveryRows ==
    ASSUME NEW A, NEW A2, RowsKept(A, A2), NEW D, DownloadsOK(D, A), NEW sv, ServedOK(sv, A)
    PROVE  DownloadsOK(D, A2) /\ ServedOK(sv, A2)
  <1>1. DownloadsOK(D, A2)
    BY DEF DownloadsOK, RowsKept, RowKept
  <1>2. ServedOK(sv, A2)
    BY DEF ServedOK, RowsKept, RowKept, Ended
  <1> QED BY <1>1, <1>2

(* One redemption goes from place to place, and the slots with it. *)
Counted(D, D2, d, x) ==
    /\ D2 \in [Downloads -> Download] /\ D2[d] = x
    /\ \A e \in Downloads : e # d => D2[e] = D[e]
    /\ Cardinality(HoldingSet(D)) \in Nat
    /\ D[d].at \notin Holding /\ x.at \in Holding =>
         Cardinality(HoldingSet(D2)) = Cardinality(HoldingSet(D)) + 1
    /\ D[d].at \in Holding /\ x.at \notin Holding =>
         /\ Cardinality(HoldingSet(D2)) = Cardinality(HoldingSet(D)) - 1
         /\ Cardinality(HoldingSet(D2)) \in Nat
    /\ (D[d].at \in Holding <=> x.at \in Holding) => HoldingSet(D2) = HoldingSet(D)

LEMMA OneDownload ==
    ASSUME NEW D \in [Downloads -> Download], NEW d \in Downloads, NEW x \in Download
    PROVE  Counted(D, [D EXCEPT ![d] = x], d, x)
  <1> DEFINE D2 == [D EXCEPT ![d] = x]
  <1>1. D2 \in [Downloads -> Download] /\ D2[d] = x /\ \A e \in Downloads : e # d => D2[e] = D[e]
    OBVIOUS
  <1>2. IsFiniteSet(HoldingSet(D)) /\ IsFiniteSet(HoldingSet(D2))
    <2>1. HoldingSet(D) \subseteq Downloads /\ HoldingSet(D2) \subseteq Downloads
      BY DEF HoldingSet
    <2> QED BY <2>1, DeliveryBounds, FS_Subset
  <1>3. Cardinality(HoldingSet(D)) \in Nat /\ Cardinality(HoldingSet(D2)) \in Nat
    BY <1>2, FS_CardinalityType
  <1> HIDE DEF D2
  <1>4. ASSUME D[d].at \notin Holding, x.at \in Holding
        PROVE  Cardinality(HoldingSet(D2)) = Cardinality(HoldingSet(D)) + 1
    <2>1. HoldingSet(D2) = HoldingSet(D) \cup {d} /\ d \notin HoldingSet(D)
      BY <1>1, <1>4 DEF HoldingSet
    <2> QED BY <1>2, <2>1, FS_AddElement
  <1>5. ASSUME D[d].at \in Holding, x.at \notin Holding
        PROVE  Cardinality(HoldingSet(D2)) = Cardinality(HoldingSet(D)) - 1
    <2>1. HoldingSet(D2) = HoldingSet(D) \ {d} /\ d \in HoldingSet(D)
      BY <1>1, <1>5 DEF HoldingSet
    <2> QED BY <1>2, <2>1, FS_RemoveElement
  <1>6. ASSUME D[d].at \in Holding <=> x.at \in Holding PROVE HoldingSet(D2) = HoldingSet(D)
    BY <1>1, <1>6 DEF HoldingSet
  <1>7. Counted(D, D2, d, x)
    BY <1>1, <1>2, <1>3, <1>4, <1>5, <1>6 DEF Counted
  <1> QED BY <1>7 DEF D2

(* What every step of the composition is shown to keep. *)
AllKept == DInv' /\ RowsKept(artifact, artifact')

LEMMA NoDownloadIsIdle == NoDownload \in Download /\ NoDownload.at = "idle" /\ Ends(NoDownload)
  BY DEF NoDownload, Download, Ends

(* The slots of a redemption that goes on to x. *)
Slots(d, x) ==
    \/ download[d].at \notin Holding /\ x.at \in Holding /\ slots < MaxDownloads
       /\ slots' = slots + 1
    \/ download[d].at \in Holding /\ x.at \notin Holding /\ slots' = slots - 1
    \/ (download[d].at \in Holding <=> x.at \in Holding) /\ slots' = slots

LEMMA DownloadMoves ==
    ASSUME DInv, Kept, NEW d \in Downloads, NEW x \in Download,
           download' = [download EXCEPT ![d] = x], Ends(x),
           x.at # "idle" => x.art \in Exports /\ artifact[x.art].state # "none",
           Slots(d, x), session' = session, ServedOK(served', artifact')
    PROVE  AllKept
  <1>1. /\ download \in [Downloads -> Download] /\ DownloadsOK(download, artifact)
        /\ slots = Cardinality(HoldingSet(download)) /\ slots <= MaxDownloads
        /\ session \in [Sessions -> {"live", "revoked"}] /\ MaxDownloads \in Nat
    BY DeliveryBounds DEF DInv, DownloadsOK
  <1>2. Counted(download, download', d, x)
    BY <1>1, OneDownload
  <1>3. slots' = Cardinality(HoldingSet(download')) /\ slots' <= MaxDownloads
    <2>1. CASE download[d].at \notin Holding /\ x.at \in Holding
      BY <1>1, <1>2, <2>1 DEF Slots, Counted
    <2>2. CASE download[d].at \in Holding /\ x.at \notin Holding
      BY <1>1, <1>2, <2>2 DEF Slots, Counted
    <2>3. CASE download[d].at \in Holding <=> x.at \in Holding
      BY <1>1, <1>2, <2>3 DEF Slots, Counted
    <2> QED BY <2>1, <2>2, <2>3
  <1>4. IInv' /\ RowsKept(artifact, artifact')
    BY DEF Kept
  <1>5. ASSUME NEW e \in Downloads, download'[e].at # "idle"
        PROVE  download'[e].art \in Exports /\ artifact'[download'[e].art].state # "none"
    <2>1. download'[e].art \in Exports /\ artifact[download'[e].art].state # "none"
      <3>1. CASE e = d
        BY <1>2, <1>5, <3>1 DEF Counted
      <3>2. CASE e # d
        BY <1>1, <1>2, <1>5, <3>2 DEF DownloadsOK, Counted
      <3> QED BY <3>1, <3>2
    <2> QED BY <1>4, <2>1 DEF RowsKept, RowKept
  <1>6. DownloadsOK(download', artifact')
    <2>1. \A e \in Downloads : Ends(download'[e])
      BY <1>1, <1>2 DEF DownloadsOK, Counted
    <2> QED BY <1>2, <1>5, <2>1 DEF DownloadsOK, Counted
  <1>7. session' \in [Sessions -> {"live", "revoked"}]
    BY <1>1
  <1> QED BY <1>3, <1>4, <1>6, <1>7 DEF AllKept, DInv

LEMMA DInvUnfolded ==
    ASSUME DInv
    PROVE  /\ IInv /\ DownloadsOK(download, artifact) /\ ServedOK(served, artifact)
           /\ download \in [Downloads -> Download]
           /\ \A d \in Downloads : /\ download[d] \in Download /\ Ends(download[d])
                                   /\ download[d].at # "idle" =>
                                         /\ download[d].art \in Exports
                                         /\ artifact[download[d].art].state # "none"
  BY DEF DInv, DownloadsOK

(* The tables of the exports stand still. *)
LEMMA Standing ==
    ASSUME DInv, UNCHANGED vars, served' = served
    PROVE  Kept /\ ServedOK(served', artifact')
  <1>1. Kept
    BY DInvUnfolded, StutterKeeps
  <1>2. artifact' = artifact
    BY DEF vars
  <1> QED BY <1>1, <1>2, DInvUnfolded

LEMMA RefusedOK ==
    ASSUME DInv, Kept, NEW d \in Downloads, download[d].at \in Holding, Refuse(d),
           session' = session, ServedOK(served', artifact')
    PROVE  AllKept
  <1>1. NoDownload.at \notin Holding
    BY NoDownloadIsIdle DEF Holding
  <1>2. Slots(d, NoDownload)
    BY <1>1 DEF Refuse, Slots
  <1> QED BY <1>2, NoDownloadIsIdle, DownloadMoves DEF Refuse

LEMMA StepRedeem ==
    ASSUME DInv, NEW d \in Downloads, NEW a \in Exports, NEW s \in Sessions, Redeem(d, a, s)
    PROVE  AllKept
  <1> DEFINE x == [NoDownload EXCEPT !.at = "fetching", !.art = a, !.key = artifact[a].key,
                                     !.sess = s]
  <1>1. Kept /\ ServedOK(served', artifact')
    BY Standing DEF Redeem
  <1>2. artifact[a].key \in Nat /\ artifact[a].state = "ready"
    BY DInvUnfolded, IInvUnfolded DEF Artifact, Redeem
  <1>3. x \in Download /\ x.at = "fetching" /\ x.art = a /\ Ends(x)
    BY <1>2 DEF NoDownload, Download, Ends
  <1>4. download' = [download EXCEPT ![d] = x] /\ session' = session
        /\ download[d].at = "idle" /\ slots < MaxDownloads /\ slots' = slots + 1
    BY DEF Redeem
  <1> HIDE DEF x
  <1>5. Slots(d, x)
    BY <1>3, <1>4 DEF Slots, Holding
  <1> QED BY <1>1, <1>2, <1>3, <1>4, <1>5, DownloadMoves

(* A redemption moves on without a change of the artifacts. *)
LEMMA StepGoesOn ==
    ASSUME DInv, NEW d \in Downloads,
           \/ Open(d) \/ ClientLeaves(d) \/ RecordLost(d)
           \/ \E o \in {"completed", "aborted"} : Settle(d, o)
    PROVE  AllKept
  <1>1. Kept /\ ServedOK(served', artifact') /\ session' = session
    BY Standing DEF Open, ClientLeaves, RecordLost, Settle
  <1>2. download[d] \in Download /\ download \in [Downloads -> Download] /\ Ends(download[d])
    BY DInvUnfolded
  <1>3. PICK x \in Download :
           /\ download' = [download EXCEPT ![d] = x] /\ Slots(d, x) /\ Ends(x)
           /\ x.at # "idle" => download[d].at # "idle" /\ x.art = download[d].art
    <2>1. CASE Open(d)
      <3> DEFINE y == [download[d] EXCEPT !.at = "opened"]
      <3>1. y \in Download /\ y.at = "opened" /\ y.art = download[d].art /\ Ends(y)
        BY <1>2, <2>1 DEF Download, Ends, Open
      <3>2. download' = [download EXCEPT ![d] = y]
        BY <1>2, <2>1 DEF Open
      <3> HIDE DEF y
      <3> QED BY <2>1, <3>1, <3>2 DEF Open, Slots, Holding
    <2>2. CASE ClientLeaves(d)
      <3> DEFINE y == [download[d] EXCEPT !.gone = "yes"]
      <3>1. y \in Download /\ y.at = download[d].at /\ y.art = download[d].art /\ Ends(y)
        BY <1>2 DEF Download, Ends
      <3>2. download' = [download EXCEPT ![d] = y]
        BY <1>2, <2>2 DEF ClientLeaves
      <3> HIDE DEF y
      <3> QED BY <2>2, <3>1, <3>2 DEF ClientLeaves, Slots, Holding
    <2>3. CASE RecordLost(d)
      <3>1. Slots(d, NoDownload)
        BY <2>3, NoDownloadIsIdle DEF RecordLost, Slots, Holding
      <3> QED BY <2>3, <3>1, NoDownloadIsIdle DEF RecordLost
    <2>4. ASSUME NEW o \in {"completed", "aborted"}, Settle(d, o)
          PROVE  \E x \in Download :
                    /\ download' = [download EXCEPT ![d] = x] /\ Slots(d, x) /\ Ends(x)
                    /\ x.at # "idle" => download[d].at # "idle" /\ x.art = download[d].art
      <3>1. CASE Settled(d)
        <4>1. download' = [download EXCEPT ![d] = download[d]] /\ slots' = slots
              /\ download[d].at # "idle"
          BY <1>2, <2>4, <3>1 DEF Settle
        <4>2. Slots(d, download[d])
          BY <4>1 DEF Slots
        <4> QED BY <1>2, <4>1, <4>2
      <3>2. CASE ~Settled(d)
        <4> DEFINE y == [download[d] EXCEPT !.at = "recording", !.outcome = o]
        <4>1. y \in Download /\ y.at = "recording" /\ y.art = download[d].art /\ Ends(y)
          BY <1>2 DEF Download, Ends
        <4>2. download' = [download EXCEPT ![d] = y] /\ slots' = slots - 1
          BY <1>2, <2>4, <3>2 DEF Settle
        <4>3. download[d].at = "sending"
          BY <1>2, <2>4, <3>2 DEF Settle, Settled, Ends
        <4> HIDE DEF y
        <4>4. Slots(d, y)
          BY <4>1, <4>2, <4>3 DEF Slots, Holding
        <4> QED BY <4>1, <4>2, <4>3, <4>4
      <3> QED BY <3>1, <3>2
    <2> QED BY <2>1, <2>2, <2>3, <2>4
  <1>4. x.at # "idle" => x.art \in Exports /\ artifact[x.art].state # "none"
    BY <1>3, DInvUnfolded
  <1> QED BY <1>1, <1>3, <1>4, DownloadMoves

LEMMA StepUnavailable ==
    ASSUME DInv, NEW d \in Downloads, Unavailable(d) PROVE AllKept
  <1>1. Kept /\ ServedOK(served', artifact')
    BY Standing DEF Unavailable
  <1>2. download[d].at \in Holding
    BY DEF Unavailable, Holding
  <1> QED BY <1>1, <1>2, RefusedOK DEF Unavailable

(* A ready artifact ends. *)
LEMMA ReadyEnds ==
    ASSUME IInv, NEW a \in Exports, artifact[a].state = "ready",
           NEW s \in {"consumed", "failed"},
           artifact' = [artifact EXCEPT ![a].state = s, ![a].cleanup = "due"],
           UNCHANGED <<ledgerVars, user, record, stored, flight, worker>>
    PROVE  Kept /\ artifact'[a].state = s
  <1> DEFINE x == [artifact[a] EXCEPT !.state = s, !.cleanup = "due"]
  <1>1. artifact \in [Exports -> Artifact] /\ artifact[a] \in Artifact /\ RowOK(artifact[a])
    BY IInvUnfolded
  <1>2. RowMove(artifact[a], x) /\ x.state = s
    BY <1>1, RowEnds
  <1>3. artifact' = [artifact EXCEPT ![a] = x]
    BY <1>1
  <1> HIDE DEF x
  <1>4. RowsMove(artifact, artifact', stored)
    <2>1. RowsMove(artifact, [artifact EXCEPT ![a] = x], stored)
      BY <1>2, IInvUnfolded, OneRow
    <2> QED BY <1>3, <2>1
  <1>5. artifact'[a].state = s
    BY <1>1, <1>2, <1>3
  <1> QED BY <1>4, <1>5, RowsOnly

LEMMA StepIntegrityFailure ==
    ASSUME DInv, NEW d \in Downloads, IntegrityFailure(d) PROVE AllKept
  <1> DEFINE a == download[d].art
  <1>1. /\ download[d].at = "fetching" /\ session' = session /\ served' = served /\ slots' = slots
        /\ download' = [download EXCEPT ![d].at = "failed"]
        /\ UNCHANGED <<ledgerVars, user, record, stored, flight, worker>>
    BY DEF IntegrityFailure
  <1>2. IInv /\ a \in Exports /\ ServedOK(served, artifact) /\ DownloadsOK(download, artifact)
    BY <1>1, DInvUnfolded
  <1>3. Kept
    <2>1. CASE artifact[a].state = "ready"
      <3>1. artifact' = [artifact EXCEPT ![a].state = "failed", ![a].cleanup = "due"]
        BY <2>1 DEF IntegrityFailure
      <3> QED BY <1>1, <1>2, <2>1, <3>1, ReadyEnds
    <2>2. CASE artifact[a].state # "ready"
      <3>1. artifact' = artifact
        BY <2>2 DEF IntegrityFailure
      <3> QED BY <1>1, <1>2, <3>1, StutterKeeps DEF vars, ledgerVars
    <2> QED BY <2>1, <2>2
  <1>4. ServedOK(served', artifact')
    BY <1>1, <1>2, <1>3, DeliveryRows DEF Kept
  <1> DEFINE x == [download[d] EXCEPT !.at = "failed"]
  <1>5. /\ download \in [Downloads -> Download] /\ download[d] \in Download /\ Ends(download[d])
        /\ artifact[a].state # "none"
    BY <1>1, DInvUnfolded
  <1>6. x \in Download /\ x.at = "failed" /\ x.art = a /\ Ends(x)
    BY <1>1, <1>5 DEF Download, Ends
  <1>7. download' = [download EXCEPT ![d] = x]
    BY <1>1, <1>5
  <1> HIDE DEF x
  <1>8. Slots(d, x)
    BY <1>1, <1>6 DEF Slots, Holding
  <1> QED BY <1>1, <1>2, <1>3, <1>4, <1>5, <1>6, <1>7, <1>8, DownloadMoves

(* Only a ready artifact is served, and it is consumed in the same          *)
(* transaction.                                                             *)
LEMMA StepConsume ==
    ASSUME DInv, NEW d \in Downloads, Consume(d) PROVE AllKept
  <1> DEFINE a == download[d].art
             x == [download[d] EXCEPT !.at = "sending"]
  <1>1. /\ download[d].at = "opened" /\ session' = session
        /\ UNCHANGED <<ledgerVars, user, record, stored, flight, worker>>
    BY DEF Consume
  <1>2. /\ IInv /\ a \in Exports /\ ServedOK(served, artifact) /\ artifact[a].state # "none"
        /\ download[d] \in Download /\ download \in [Downloads -> Download] /\ Ends(download[d])
    BY <1>1, DInvUnfolded
  <1>3. CASE ~Admissible(d)
    <2>1. Refuse(d) /\ artifact' = artifact /\ served' = served
      BY <1>3 DEF Consume
    <2>2. Kept /\ ServedOK(served', artifact')
      BY <1>1, <2>1, Standing DEF vars, ledgerVars
    <2> QED BY <1>1, <2>1, <2>2, RefusedOK DEF Holding
  <1>4. CASE Admissible(d)
    <2>1. /\ artifact' = [artifact EXCEPT ![a].state = "consumed", ![a].cleanup = "due"]
          /\ served' = [served EXCEPT ![a] = served[a] + 1]
          /\ download' = [download EXCEPT ![d].at = "sending"] /\ slots' = slots
      BY <1>4 DEF Consume
    <2>2. artifact[a].state = "ready"
      BY <1>4 DEF Admissible
    <2>3. x \in Download /\ x.at = "sending" /\ x.art = a /\ Ends(x)
      BY <1>1, <1>2 DEF Download, Ends
    <2>4. download' = [download EXCEPT ![d] = x]
      BY <1>2, <2>1
    <2> HIDE DEF a, x
    <2>5. Kept /\ artifact'[a].state = "consumed"
      BY <1>1, <1>2, <2>1, <2>2, ReadyEnds
    <2>6. ServedOK(served', artifact')
      <3>1. served \in [Exports -> Nat] /\ served[a] = 0
        BY <1>2, <2>2 DEF ServedOK
      <3>2. ServedOK(served, artifact')
        <4>1. RowsKept(artifact, artifact')
          BY <2>5 DEF Kept
        <4> QED BY <1>2, <4>1, DInvUnfolded, DeliveryRows
      <3>3. /\ served' \in [Exports -> Nat] /\ served'[a] = 1
            /\ \A b \in Exports : b # a => served'[b] = served[b]
        BY <1>2, <2>1, <3>1
      <3> QED BY <2>5, <3>2, <3>3 DEF ServedOK
    <2>7. Slots(d, x)
      BY <1>1, <2>1, <2>3 DEF Slots, Holding
    <2> QED BY <1>1, <1>2, <2>3, <2>4, <2>5, <2>6, <2>7, DownloadMoves
  <1> QED BY <1>3, <1>4

(* The outcome of a transfer, and the delivery that the server saw. *)
LEMMA StepRecordTransfer ==
    ASSUME DInv, NEW d \in Downloads, RecordTransfer(d) PROVE AllKept
  <1> DEFINE a == download[d].art
             o == download[d].outcome
             r == artifact[a].req
             x == [artifact[a] EXCEPT !.transfer = o]
  <1>1. /\ download[d].at = "recording" /\ session' = session /\ served' = served
        /\ download' = [download EXCEPT ![d] = NoDownload] /\ slots' = slots
        /\ UNCHANGED <<desk, user, record, stored, flight, worker>>
    BY DEF RecordTransfer
  <1>2. /\ IInv /\ a \in Exports /\ ServedOK(served, artifact) /\ artifact[a].state # "none"
        /\ download[d] \in Download /\ DownloadsOK(download, artifact)
    BY <1>1, DInvUnfolded
  <1>3. /\ artifact \in [Exports -> Artifact] /\ ArtifactsOK(artifact)
        /\ artifact[a] \in Artifact /\ RowOK(artifact[a]) /\ LedgerOK(request, artifact)
        /\ Core(artifact, record, flight, stored, worker)
    BY <1>2, IInvUnfolded
  <1>4. r \in Requests /\ request[r].status # "none" /\ request \in [Requests -> Request]
    BY <1>2, <1>3 DEF RowOK, LedgerOK
  <1>5. Kept
    <2>1. CASE artifact[a].transfer # "none"
      <3>1. artifact' = artifact /\ request' = request
        BY <2>1 DEF RecordTransfer
      <3> QED BY <1>1, <1>2, <3>1, StutterKeeps DEF vars
    <2>2. CASE artifact[a].transfer = "none"
      <3>1. artifact' = [artifact EXCEPT ![a] = x]
        BY <1>3, <2>2 DEF RecordTransfer
      <3>2. /\ o = "completed" => request' = Observed(r)
            /\ o # "completed" => request' = request
        BY <2>2 DEF RecordTransfer
      <3>3. o \in {"none", "completed", "aborted"}
        BY <1>2 DEF Download
      <3>4. x.transfer = o /\ x.req = r
        BY <1>3 DEF Artifact
      <3> HIDE DEF o, a, r
      <3>5. RowMove(artifact[a], x)
        BY <1>2, <1>3, <2>2, <3>3, RowTransfer
      <3> HIDE DEF x
      <3>6. RowsMove(artifact, artifact', stored)
        <4>1. RowsMove(artifact, [artifact EXCEPT ![a] = x], stored)
          BY <1>2, <1>3, <3>5, OneRow
        <4> QED BY <3>1, <4>1
      <3>7. Moves(artifact, artifact', stored) /\ RowsNotNew(artifact, artifact')
        BY <3>6 DEF RowsMove
      <3>8. RowsKept(artifact, artifact')
        BY <3>7 DEF Moves
      <3>9. Core(artifact', record, flight, stored, worker)
        BY <1>3, <3>7, CoreRows
      <3>10. LedgerOK(request, artifact')
        BY <1>3, <3>7, <3>8, LedgerRows
      <3>11. artifact'[a].transfer = o /\ artifact'[a].req = r
        BY <1>2, <1>3, <3>1, <3>4
      <3>12. LedgerOK(request', artifact')
        <4>1. CASE o # "completed"
          BY <3>2, <3>10, <4>1
        <4>2. CASE o = "completed" /\ request[r].delivered # "no"
          BY <3>2, <3>10, <4>2 DEF Observed
        <4>3. CASE o = "completed" /\ request[r].delivered = "no"
          <5> DEFINE q == [request[r] EXCEPT !.delivered = "observed"]
          <5>1. request' = [request EXCEPT ![r] = q]
            BY <1>4, <3>2, <4>3, NoneIsNoRequest DEF Observed
          <5>2. /\ q \in Request /\ q.status = request[r].status
                /\ q.outcome = request[r].outcome /\ q.secure = request[r].secure
                /\ q.delivered = "observed"
            BY <1>4 DEF Request
          <5> HIDE DEF q
          <5>3. RequestOK(request[r], artifact', r)
            BY <1>4, <3>10 DEF LedgerOK
          <5>4. RequestOK(q, artifact', r)
            BY <1>2, <1>4, <3>11, <4>3, <5>2, <5>3 DEF RequestOK
          <5>5. LedgerOK([request EXCEPT ![r] = q], artifact')
            BY <1>4, <3>10, <5>2, <5>4, OneRequest
          <5> QED BY <5>1, <5>5
        <4> QED BY <4>1, <4>2, <4>3
      <3> QED BY <1>1, <1>2, <3>8, <3>9, <3>12, Assembled
    <2> QED BY <2>1, <2>2
  <1>6. ServedOK(served', artifact')
    BY <1>1, <1>2, <1>5, DeliveryRows DEF Kept
  <1>7. Slots(d, NoDownload)
    BY <1>1, NoDownloadIsIdle DEF Slots, Holding
  <1> QED BY <1>1, <1>5, <1>6, <1>7, NoDownloadIsIdle, DownloadMoves

LEMMA StepRevoke ==
    ASSUME DInv, NEW s \in Sessions, Revoke(s) PROVE AllKept
  <1>1. Kept /\ ServedOK(served', artifact')
    BY Standing DEF Revoke
  <1>2. session' \in [Sessions -> {"live", "revoked"}]
    BY DEF DInv, Revoke
  <1>3. UNCHANGED <<download, slots, artifact>>
    BY DEF Revoke, vars
  <1> QED BY <1>1, <1>2, <1>3 DEF AllKept, DInv, Kept

LEMMA StepCrashApi ==
    ASSUME DInv, CrashApi PROVE AllKept
  <1>1. Kept /\ ServedOK(served', artifact') /\ session' = session
    BY Standing DEF CrashApi
  <1>2. /\ download' \in [Downloads -> Download]
        /\ \A d \in Downloads : download'[d].at = "idle" /\ Ends(download'[d])
    BY NoDownloadIsIdle DEF CrashApi
  <1>3. HoldingSet(download') = {}
    BY <1>2 DEF HoldingSet, Holding
  <1>4. slots' = Cardinality(HoldingSet(download')) /\ slots' <= MaxDownloads
    <2>1. Cardinality({}) = 0
      BY FS_EmptySet
    <2> QED BY <1>3, <2>1, DeliveryBounds DEF CrashApi
  <1>5. DownloadsOK(download', artifact')
    BY <1>2 DEF DownloadsOK
  <1> QED BY <1>1, <1>4, <1>5 DEF AllKept, DInv, Kept

LEMMA StepExport ==
    ASSUME DInv, Kept, UNCHANGED deliveryVars PROVE AllKept
  <1>1. RowsKept(artifact, artifact') /\ IInv'
    BY DEF Kept
  <1>2. DownloadsOK(download, artifact') /\ ServedOK(served, artifact')
    BY <1>1, DInvUnfolded, DeliveryRows
  <1> QED BY <1>1, <1>2 DEF AllKept, DInv, deliveryVars

LEMMA DeliveryStepKeeps ==
    ASSUME DInv, [DeliveryNext]_allVars PROVE AllKept
  <1>1. CASE ExportNext /\ UNCHANGED deliveryVars
    BY <1>1, DInvUnfolded, StepKeeps, StepExport
  <1>2. ASSUME NEW d \in Downloads, DownloadStep(d) PROVE AllKept
    BY <1>2, StepRedeem, StepGoesOn, StepUnavailable, StepIntegrityFailure, StepConsume,
       StepRecordTransfer DEF DownloadStep
  <1>3. CASE UNCHANGED allVars
    <2>1. UNCHANGED vars /\ UNCHANGED deliveryVars
      BY <1>3 DEF allVars
    <2> QED BY <2>1, DInvUnfolded, StutterKeeps, StepExport
  <1> QED BY <1>1, <1>2, <1>3, StepRevoke, StepCrashApi DEF DeliveryNext

LEMMA DeliveryInitially == DeliveryInit => DInv
  <1> SUFFICES ASSUME DeliveryInit PROVE DInv
    OBVIOUS
  <1>1. IInv
    BY Initially DEF DeliveryInit
  <1>2. DownloadsOK(download, artifact)
    BY NoDownloadIsIdle DEF DeliveryInit, DownloadsOK
  <1>3. HoldingSet(download) = {}
    BY NoDownloadIsIdle DEF DeliveryInit, HoldingSet, Holding
  <1>4. Cardinality({}) = 0
    BY FS_EmptySet
  <1>5. ServedOK(served, artifact)
    BY DEF DeliveryInit, ServedOK
  <1> QED BY <1>1, <1>2, <1>3, <1>4, <1>5, DeliveryBounds DEF DeliveryInit, DInv

(* The invariant of the exports and of their redemption together. *)
THEOREM DeliveryInvariance == DeliverySpec => []DInv
  <1>1. DeliveryInit => DInv
    BY DeliveryInitially
  <1>2. DInv /\ [DeliveryNext]_allVars => DInv'
    BY DeliveryStepKeeps DEF AllKept
  <1> QED BY <1>1, <1>2, PTL DEF DeliverySpec

LEMMA SlotsOfDInv == DInv => SlotsExact /\ DeliveryTypeOK
  <1> SUFFICES ASSUME DInv PROVE SlotsExact /\ DeliveryTypeOK
    OBVIOUS
  <1>1. SlotsExact
    BY DEF DInv, SlotsExact, HoldingSet
  <1>2. slots \in 0 .. MaxDownloads
    <2>1. HoldingSet(download) \subseteq Downloads
      BY DEF HoldingSet
    <2>2. Cardinality(HoldingSet(download)) \in Nat
      BY <2>1, DeliveryBounds, FS_Subset, FS_CardinalityType
    <2> QED BY <2>2, DeliveryBounds DEF DInv
  <1> QED BY <1>1, <1>2 DEF DInv, DownloadsOK, ServedOK, DeliveryTypeOK

LEMMA ServedOfDInv == DInv => ServedOnce
  BY DEF DInv, ServedOK, ServedOnce

LEMMA ObservedOfDInv == DInv => DeliveryObserved
  <1> SUFFICES ASSUME DInv, NEW r \in Requests, request[r].secure = "yes",
                      request[r].delivered # "no"
               PROVE  /\ request[r].delivered = "observed"
                      /\ \E a \in Exports : artifact[a].req = r
                                            /\ artifact[a].transfer = "completed"
    BY DEF DeliveryObserved
  <1>1. request[r] \in Request /\ RequestOK(request[r], artifact, r)
    BY DEF DInv, IInv, LedgerOK
  <1>2. request[r].delivered = "observed"
    BY <1>1 DEF RequestOK, Request
  <1> QED BY <1>1, <1>2 DEF RequestOK

(* The slots in use are the redemptions that hold plaintext or are about to, *)
(* and there are never more of them than the process has.                    *)
THEOREM SlotsNeitherLeakNorMultiply == DeliverySpec => [](SlotsExact /\ DeliveryTypeOK)
  BY DeliveryInvariance, SlotsOfDInv, PTL

(* However many redemptions, sweeps and revocations run at once, the bytes   *)
(* of an artifact are admitted at most once.                                 *)
THEOREM ServedAtMostOnce == DeliverySpec => []ServedOnce
  BY DeliveryInvariance, ServedOfDInv, PTL

(* A request of a secure export is delivered only where the server saw the   *)
(* transfer complete.                                                        *)
THEOREM DeliveriesAreObserved == DeliverySpec => []DeliveryObserved
  BY DeliveryInvariance, ObservedOfDInv, PTL

(* Redemption takes nothing from what holds of generation and deletion.      *)
THEOREM DeliveryKeepsTheRest == DeliverySpec => [](NoOrphan /\ LedgerTruthful /\ ReadyIsStored)
  <1>1. DInv => IInv
    BY DEF DInv
  <1> QED BY <1>1, DeliveryInvariance, NoOrphanOfInv, LedgerOfInv, ReadyOfInv, PTL

(* An artifact that is consumed, expired, revoked or failed stays so.        *)
THEOREM EndsAreFinal == DeliverySpec => EndedStays
  <1> DEFINE Final == \A a \in Exports :
                 artifact[a].state \in Ended => artifact'[a].state = artifact[a].state
  <1>1. DInv /\ [DeliveryNext]_allVars => [Final]_allVars
    BY DeliveryStepKeeps DEF AllKept, RowsKept, RowKept
  <1>2. DeliverySpec => [][Final]_allVars
    BY <1>1, DeliveryInvariance, PTL DEF DeliverySpec
  <1> QED BY <1>2 DEF EndedStays

(* A download that was cut off by a sign-out, a suspension, a deletion or a  *)
(* new password gets no bytes, however far it had come (consume).            *)
THEOREM CutOffGetNothing == DeliverySpec => RevokedNotServed
  <1> DEFINE NotServed == \A d \in Downloads :
                 download[d].at \in Holding \ {"sending"} /\ CutOff(d)
                     => download'[d].at # "sending"
  <1>1. ASSUME DInv, [DeliveryNext]_allVars PROVE [NotServed]_allVars
    <2> SUFFICES ASSUME NEW d \in Downloads, download[d].at \in Holding \ {"sending"}, CutOff(d),
                        download'[d].at = "sending"
                 PROVE  FALSE
      OBVIOUS
    <2>1. /\ download \in [Downloads -> Download] /\ download[d] \in Download /\ Ends(download[d])
          /\ NoDownload.at = "idle"
      BY <1>1, DInvUnfolded, NoDownloadIsIdle
    <2>2. download' # download
      OBVIOUS
    <2>3. \E e \in Downloads : DownloadStep(e)
      BY <1>1, <2>1, <2>2 DEF DeliveryNext, CrashApi, Revoke, deliveryVars, allVars
    <2>4. PICK e \in Downloads : DownloadStep(e)
      BY <2>3
    <2>5. e = d
      BY <2>1, <2>4 DEF DownloadStep, Redeem, Open, IntegrityFailure, Unavailable, Refuse, Consume,
                        ClientLeaves, Settle, RecordTransfer, RecordLost
    <2>6. DownloadStep(d)
      BY <2>4, <2>5
    <2>7. Consume(d)
      <3>1. ~Open(d) /\ ~IntegrityFailure(d) /\ ~ClientLeaves(d)
        BY <2>1 DEF Open, IntegrityFailure, ClientLeaves, Download
      <3>2. ~Unavailable(d) /\ ~RecordTransfer(d) /\ ~RecordLost(d)
        BY <2>1 DEF Unavailable, Refuse, RecordTransfer, RecordLost, Holding
      <3>3. ASSUME NEW o \in {"completed", "aborted"} PROVE ~Settle(d, o)
        BY DEF Settle, Holding
      <3>4. ASSUME NEW a \in Exports, NEW s \in Sessions PROVE ~Redeem(d, a, s)
        BY DEF Redeem, Holding
      <3> QED BY <2>6, <3>1, <3>2, <3>3, <3>4 DEF DownloadStep
    <2>8. Admissible(d)
      BY <2>1, <2>7 DEF Consume, Refuse
    <2> QED BY <2>8 DEF Admissible, CutOff
  <1>2. DeliverySpec => [][NotServed]_allVars
    BY <1>1, DeliveryInvariance, PTL DEF DeliverySpec
  <1> QED BY <1>2 DEF RevokedNotServed
=============================================================================
