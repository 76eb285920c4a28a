---------------------------- MODULE Idempotency ----------------------------
(***************************************************************************)
(* The replay records behind the Idempotency-Key header (table             *)
(* idempotency_keys).  A call claims the key, or is answered from what an  *)
(* earlier call with the same key stored.  On an ordinary route the        *)
(* interceptor runs the handler and stores its answer after the handler's  *)
(* commit; a manual route (ManualIdempotency) stores it in the handler's   *)
(* own transaction; a versioned route replays only records of its present  *)
(* shape, while instances of the previous release still write the old one. *)
(* Calls overlap, fail, lose their process and are repeated by the client; *)
(* a record expires after a day, even under a call that is still running.  *)
(* Models idempotency.interceptor.ts.                                      *)
(*                                                                         *)
(* Different keys share nothing: Keys stands for one key on each kind of   *)
(* route.  A claim is named by its caller: a caller has one at a time.     *)
(***************************************************************************)
EXTENDS Naturals, FiniteSets

CONSTANTS
    Keys, Manual, Versioned,  \* client keys, those of manual and of versioned routes
    Callers,                  \* calls under way at the same time
    Bodies,                   \* request bodies, as their hashes
    ClaimAttempts,            \* CLAIM_ATTEMPTS
    MaxApplied,               \* bound on the times one mutation is applied
    Nobody

ASSUME IdempotencyBounds ==
    /\ Manual \subseteq Keys /\ Versioned \subseteq Keys
    /\ ClaimAttempts \in Nat \ {0} /\ MaxApplied \in Nat
    /\ Nobody \notin Callers

VARIABLES
    row,        \* idempotency_keys, by key
    call,       \* the calls under way
    applied,    \* history: commits of the mutation since the record's life began
    excused     \* history: of these, the ones whose answer could not be stored

history == <<applied, excused>>
vars == <<row, call, history>>

(* A record: who claims it, for which body, the shape of the stored answer   *)
(* ("none" while in flight) and whether its day has passed.                  *)
Row == [owner : Callers \cup {Nobody}, body : Bodies \cup {Nobody},
        answer : {"none", "plain", "versioned"}, expired : {"no", "yes"}]
NoRow == [owner |-> Nobody, body |-> Nobody, answer |-> "none", expired |-> "no"]

(* A call.  answer is what it was given: a first execution, a replay, ...    *)
Call == [at : {"idle", "claim", "read", "purge", "run", "complete", "release", "end"},
         key : Keys \cup {Nobody}, body : Bodies \cup {Nobody}, tries : 0 .. ClaimAttempts,
         answer : {"none", "first", "plain", "versioned", "refused", "error"}]
NoCall == [at |-> "idle", key |-> Nobody, body |-> Nobody, tries |-> 0, answer |-> "none"]

TypeOK ==
    /\ row \in [Keys -> Row]
    /\ call \in [Callers -> Call]
    /\ applied \in [Keys -> Nat]
    /\ excused \in [Keys -> Nat]

Init ==
    /\ row = [k \in Keys |-> NoRow]
    /\ call = [c \in Callers |-> NoCall]
    /\ applied = [k \in Keys |-> 0]
    /\ excused = [k \in Keys |-> 0]

Absent(k) == row[k] = NoRow

(* ownClaim: this caller's claim, not completed. *)
Owns(c) == row[call[c].key].owner = c /\ row[call[c].key].answer = "none"

(* The life of a record ends. *)
Forget(k) ==
    /\ applied' = [applied EXCEPT ![k] = 0]
    /\ excused' = [excused EXCEPT ![k] = 0]

Goto(c, at) == call' = [call EXCEPT ![c].at = at]
Answer(c, what) == call' = [call EXCEPT ![c].at = "end", ![c].answer = what]

(* A request arrives, or the client sends it again. *)
Request(c, k, b) ==
    /\ call[c].at = "idle"
    /\ call' = [call EXCEPT ![c] = [NoCall EXCEPT !.at = "claim", !.key = k, !.body = b]]
    /\ UNCHANGED <<row, history>>

(* The claim: insert, or take over a record whose day has passed.  After     *)
(* ClaimAttempts rounds the call is refused.                                 *)
TakeableCompleted(k) ==
    Absent(k) \/ row[k].expired = "yes" \/ (k \notin Manual /\ row[k].answer # "none")
Takeable(k) == Absent(k) \/ row[k].expired = "yes"

OutOfTries(c) == call[c].tries = ClaimAttempts

Claim(c) ==
    /\ call[c].at = "claim"
    /\ LET k == call[c].key IN
       \/ /\ OutOfTries(c)
          /\ Answer(c, "refused") /\ UNCHANGED <<row, history>>
       \/ /\ ~OutOfTries(c) /\ Takeable(k)
          /\ row' = [row EXCEPT ![k] = [NoRow EXCEPT !.owner = c, !.body = call[c].body]]
          /\ IF row[k].expired = "yes" THEN Forget(k) ELSE UNCHANGED history
          /\ Goto(c, "run")
       \/ /\ ~OutOfTries(c) /\ ~Takeable(k)
          /\ Goto(c, "read") /\ UNCHANGED <<row, history>>

Again(c) == call' = [call EXCEPT ![c].at = "claim", ![c].tries = @ + 1]

(* The record that was in the way, read in a statement of its own. *)
ReadAnyShape(c) ==
    /\ call[c].at = "read"
    /\ LET r == row[call[c].key] IN
       CASE r = NoRow -> Again(c)
         [] r # NoRow /\ (r.body # call[c].body \/ r.answer = "none") -> Answer(c, "refused")
         [] OTHER -> Answer(c, r.answer)
    /\ UNCHANGED <<row, history>>

Read(c) ==
    /\ call[c].at = "read"
    /\ LET r == row[call[c].key]
           current == call[c].key \in Versioned => r.answer = "versioned" IN
       \/ r = NoRow /\ Again(c)
       \/ r # NoRow /\ (r.body # call[c].body \/ r.answer = "none") /\ Answer(c, "refused")
       \/ /\ r # NoRow /\ r.body = call[c].body /\ r.answer # "none"
          /\ IF current THEN Answer(c, r.answer) ELSE Goto(c, "purge")
    /\ UNCHANGED <<row, history>>

(* A completed record of the old shape: one that may be adopted is migrated  *)
(* and replayed, another is deleted and the claim made again.  Both act only *)
(* on a record that is still completed and unversioned.                      *)
Adopt(c) ==
    /\ call[c].at = "purge"
    /\ row' = [row EXCEPT ![call[c].key].answer = IF @ = "plain" THEN "versioned" ELSE @]
    /\ Answer(c, "versioned")
    /\ UNCHANGED history

PurgeLegacy(c) ==
    /\ call[c].at = "purge"
    /\ LET k == call[c].key
           old == row[k].answer = "plain" IN
       /\ row' = IF old THEN [row EXCEPT ![k] = NoRow] ELSE row
       /\ IF old THEN Forget(k) ELSE UNCHANGED history
    /\ Again(c)

(* The handler of an ordinary route commits. *)
Commit(c) ==
    /\ call[c].at = "run" /\ call[c].key \notin Manual
    /\ applied[call[c].key] < MaxApplied
    /\ applied' = [applied EXCEPT ![call[c].key] = @ + 1]
    /\ excused' = IF Owns(c) THEN excused ELSE [excused EXCEPT ![call[c].key] = @ + 1]
    /\ Goto(c, "complete")
    /\ UNCHANGED row

(* completeIdempotentWithin for the claim of c. *)
Completed(c, shape) ==
    IF Owns(c) THEN [row EXCEPT ![call[c].key].answer = shape] ELSE row

Shape(k) == IF k \in Versioned THEN "versioned" ELSE "plain"

(* The answer is stored after the commit; a claim that is gone changes       *)
(* nothing.  An instance of the previous release stores the old shape.       *)
Complete(c) ==
    /\ call[c].at = "complete"
    /\ \E shape \in {"plain", Shape(call[c].key)} : row' = Completed(c, shape)
    /\ Answer(c, "first")
    /\ UNCHANGED history

(* Storing the answer fails: the error path releases the claim. *)
CompleteFails(c) ==
    /\ call[c].at = "complete"
    /\ Goto(c, "release")
    /\ excused' = IF Owns(c) THEN [excused EXCEPT ![call[c].key] = @ + 1] ELSE excused
    /\ UNCHANGED <<row, applied>>

(* The handler of a manual route: the mutation and the completion commit     *)
(* together, or neither does because the claim is gone.                      *)
CommitManualUnchecked(c) ==
    /\ call[c].at = "run" /\ call[c].key \in Manual
    /\ row' = Completed(c, "plain")
    /\ applied' = [applied EXCEPT ![call[c].key] = @ + 1]
    /\ Answer(c, "first")
    /\ UNCHANGED excused

CommitManual(c) ==
    /\ call[c].at = "run" /\ call[c].key \in Manual
    /\ IF Owns(c)
       THEN /\ row' = Completed(c, "plain")
            /\ applied' = [applied EXCEPT ![call[c].key] = @ + 1]
            /\ Answer(c, "first") /\ UNCHANGED excused
       ELSE Goto(c, "release") /\ UNCHANGED <<row, history>>

HandlerFails(c) ==
    /\ call[c].at = "run"
    /\ Goto(c, "release")
    /\ UNCHANGED <<row, history>>

(* releaseIdempotent: only this claim, only while it is in flight. *)
ReleaseAny(c) ==
    /\ call[c].at = "release"
    /\ row' = [row EXCEPT ![call[c].key] = NoRow]
    /\ Answer(c, "error")
    /\ UNCHANGED history

Release(c) ==
    /\ call[c].at = "release"
    /\ row' = IF Owns(c) THEN [row EXCEPT ![call[c].key] = NoRow] ELSE row
    /\ Answer(c, "error")
    /\ UNCHANGED history

(* The client has its answer. *)
End(c) ==
    /\ call[c].at = "end"
    /\ call' = [call EXCEPT ![c] = NoCall]
    /\ UNCHANGED <<row, history>>

(* The process of a call dies; what it has committed stays. *)
Crash(c) ==
    /\ call[c].at \notin {"idle", "end"}
    /\ call' = [call EXCEPT ![c] = NoCall]
    /\ UNCHANGED <<row, history>>

(* The day of a record passes, and the retention job deletes it later. *)
Expire(k) ==
    /\ ~Absent(k) /\ row[k].expired = "no"
    /\ row' = [row EXCEPT ![k].expired = "yes"]
    /\ UNCHANGED <<call, history>>

PurgeExpired(k) ==
    /\ row[k].expired = "yes"
    /\ row' = [row EXCEPT ![k] = NoRow]
    /\ Forget(k)
    /\ UNCHANGED call

CallStep(c) ==
    \/ \E k \in Keys, b \in Bodies : Request(c, k, b)
    \/ Claim(c) \/ Read(c) \/ Adopt(c) \/ PurgeLegacy(c)
    \/ Commit(c) \/ Complete(c) \/ CompleteFails(c) \/ CommitManual(c) \/ HandlerFails(c)
    \/ Release(c) \/ End(c) \/ Crash(c)

Next ==
    \/ \E c \in Callers : CallStep(c)
    \/ \E k \in Keys : Expire(k) \/ PurgeExpired(k)

Spec == Init /\ [][Next]_vars

-----------------------------------------------------------------------------
(* Properties. *)

(* On a manual route the record and the mutation agree: a completed record   *)
(* stands for exactly one application and a missing or unfinished one for    *)
(* none, whatever calls fail, die, overlap or outlive their claim.           *)
ManualExact == \A k \in Manual :
    applied[k] = (IF row[k].answer = "none" THEN 0 ELSE 1)

(* A call that is answered from a record asked for the same body, what it is *)
(* given was applied, and on a versioned route it is of the present shape,   *)
(* whatever happened to the record since it refused the claim and whatever   *)
(* instances of the previous release have stored.                            *)
ReplayFaithful == [][\A c \in Callers :
    call[c].at = "read" /\ call'[c].answer \in {"plain", "versioned"} =>
        /\ row[call[c].key].body = call[c].body
        /\ applied[call[c].key] > 0
        /\ call[c].key \in Versioned => call'[c].answer = "versioned"]_vars

(* A call never ends another call's claim: the record of a claim in flight   *)
(* goes away only by its own caller, by expiry, or for good by completion.   *)
ClaimKept == [][\A c \in Callers, k \in Keys :
    row[k].owner = c /\ row[k].answer = "none" /\ row[k].expired = "no"
        => \/ row'[k].owner = c
           \/ call[c].key = k /\ call[c].at = "release"]_vars

(* Within the life of its record a mutation is applied once, whatever calls  *)
(* overlap, crash before or after their commit and are repeated.  The        *)
(* exceptions are the ones the code leaves: a commit whose answer could not  *)
(* be stored, which releases the claim, and one that outlived its claim.     *)
AppliedOnce == \A k \in Keys : applied[k] <= 1 + excused[k]
=============================================================================
