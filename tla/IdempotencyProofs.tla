-------------------------- MODULE IdempotencyProofs --------------------------
(***************************************************************************)
(* Theorems about Idempotency for any keys, callers, bodies and bounds.    *)
(***************************************************************************)
EXTENDS Idempotency, TLAPS

USE IdempotencyBounds

(* A call under way is about a key and a body, has no answer before its end, *)
(* is within its attempts while it looks at the record in its way, and       *)
(* stores its answer after the commit only on an ordinary route.             *)
CallsAreReal == \A c \in Callers :
    /\ call[c].at # "idle" => call[c].key \in Keys /\ call[c].body \in Bodies
    /\ call[c].at # "end" => call[c].answer = "none"
    /\ call[c].at \in {"read", "purge"} => call[c].tries < ClaimAttempts
    /\ call[c].at = "complete" => call[c].key \notin Manual

(* Commits that no record answers for are excused: where there is no record, *)
(* and under a claim whose handler has not committed or whose answer could   *)
(* not be stored.                                                            *)
Unspent(k) == applied[k] <= excused[k]

AbsentIsUnspent == \A k \in Keys : Absent(k) => Unspent(k)

ClaimIsUnspent == \A c \in Callers :
    call[c].at \in {"run", "release"} /\ Owns(c) => Unspent(call[c].key)

(* What is stored, or about to be stored under a live claim, was applied. *)
StoredIsApplied == \A k \in Keys : row[k].answer # "none" => applied[k] > 0

AnswerIsApplied == \A c \in Callers :
    call[c].at = "complete" /\ Owns(c) => applied[call[c].key] > 0

IdempotencyInv ==
    /\ TypeOK
    /\ CallsAreReal
    /\ AbsentIsUnspent
    /\ ClaimIsUnspent
    /\ StoredIsApplied
    /\ AnswerIsApplied
    /\ ManualExact
    /\ AppliedOnce

-----------------------------------------------------------------------------
(* Steps of a call that change nothing but the call. *)

LEMMA CallMoves ==
    ASSUME IdempotencyInv, NEW c \in Callers, NEW x \in Call,
           call' = [call EXCEPT ![c] = x], row' = row,
           applied' = applied, excused' = excused,
           x.at # "idle" => x.key \in Keys /\ x.body \in Bodies,
           x.at \in {"read", "purge"} => x.tries < ClaimAttempts,
           x.at # "complete", x.at # "end" => x.answer = "none",
           x.at \in {"run", "release"} =>
               x.key = call[c].key /\ call[c].at \in {"run", "release"}
    PROVE  IdempotencyInv'
<1> USE DEF IdempotencyInv
<1>1. call'[c] = x /\ \A d \in Callers : d # c => call'[d] = call[d]
  BY DEF TypeOK
<1>2. TypeOK'
  BY DEF TypeOK
<1>3. CallsAreReal'
  BY <1>1 DEF CallsAreReal
<1>4. AbsentIsUnspent' /\ StoredIsApplied' /\ ManualExact' /\ AppliedOnce'
  BY DEF AbsentIsUnspent, StoredIsApplied, ManualExact, AppliedOnce, Absent, Unspent
<1>5. ClaimIsUnspent'
  BY <1>1 DEF ClaimIsUnspent, Owns, Unspent
<1>6. AnswerIsApplied'
  BY <1>1 DEF AnswerIsApplied, Owns
<1> QED
  BY <1>2, <1>3, <1>4, <1>5, <1>6

LEMMA Requested ==
    ASSUME IdempotencyInv, NEW c \in Callers, NEW k \in Keys, NEW b \in Bodies, Request(c, k, b)
    PROVE  IdempotencyInv'
<1> DEFINE x == [NoCall EXCEPT !.at = "claim", !.key = k, !.body = b]
<1>0. 0 \in 0 .. ClaimAttempts
  OBVIOUS
<1>1. NoCall \in Call
  BY <1>0 DEF NoCall, Call
<1>3. x \in Call
  BY <1>1 DEF Call
<1>4. x.at = "claim" /\ x.key = k /\ x.body = b /\ x.answer = "none"
  BY <1>1 DEF Call, NoCall
<1>2. call' = [call EXCEPT ![c] = x] /\ row' = row /\ applied' = applied /\ excused' = excused
  BY DEF Request, history
<1> HIDE DEF x
<1> QED
  BY <1>2, <1>3, <1>4, CallMoves

(* Going on to another point of the code with the same key and body. *)
LEMMA GoesOn ==
    ASSUME IdempotencyInv, NEW c \in Callers,
           NEW at \in {"claim", "read", "purge", "run", "release", "end"},
           NEW n \in 0 .. ClaimAttempts,
           NEW a \in {"none", "first", "plain", "versioned", "refused", "error"},
           call' = [call EXCEPT ![c] = [call[c] EXCEPT !.at = at, !.tries = n, !.answer = a]],
           UNCHANGED <<row, history>>,
           call[c].at # "idle", at # "end" => a = "none",
           at \in {"read", "purge"} => n < ClaimAttempts,
           at \in {"run", "release"} => call[c].at \in {"run", "release"}
    PROVE  IdempotencyInv'
<1> DEFINE x == [call[c] EXCEPT !.at = at, !.tries = n, !.answer = a]
<1>1. call[c] \in Call /\ call[c].key \in Keys /\ call[c].body \in Bodies
  BY DEF IdempotencyInv, TypeOK, CallsAreReal
<1>2. /\ x \in Call /\ x.at = at /\ x.tries = n /\ x.answer = a
      /\ x.key = call[c].key /\ x.body = call[c].body
  BY <1>1 DEF Call
<1>3. call' = [call EXCEPT ![c] = x] /\ row' = row /\ applied' = applied /\ excused' = excused
  BY DEF history
<1> HIDE DEF x
<1> QED
  BY <1>1, <1>2, <1>3, CallMoves

LEMMA Leaves ==
    ASSUME IdempotencyInv, NEW c \in Callers, call' = [call EXCEPT ![c] = NoCall],
           UNCHANGED <<row, history>>
    PROVE  IdempotencyInv'
<1>0. 0 \in 0 .. ClaimAttempts
  OBVIOUS
<1>1. NoCall \in Call /\ NoCall.at = "idle" /\ NoCall.answer = "none"
  BY <1>0 DEF NoCall, Call
<1>2. row' = row /\ applied' = applied /\ excused' = excused
  BY DEF history
<1> QED
  BY <1>1, <1>2, CallMoves

(* A call under way, its key and its attempts. *)
LEMMA CallType ==
    ASSUME IdempotencyInv, NEW c \in Callers, call[c].at # "idle"
    PROVE  /\ call[c] \in Call /\ call[c].key \in Keys /\ call[c].body \in Bodies
           /\ call[c].tries \in 0 .. ClaimAttempts
           /\ call[c].answer \in {"none", "first", "plain", "versioned", "refused", "error"}
           /\ call[c].at # "end" => call[c].answer = "none"
           /\ row[call[c].key] \in Row
  BY DEF IdempotencyInv, TypeOK, CallsAreReal, Call

LEMMA Went ==
    ASSUME IdempotencyInv, NEW c \in Callers, call[c].at \notin {"idle", "end"},
           UNCHANGED <<row, history>>,
           NEW at \in {"claim", "read", "purge", "run", "release", "end"}, Goto(c, at),
           at \in {"read", "purge"} => call[c].tries < ClaimAttempts,
           at \in {"run", "release"} => call[c].at \in {"run", "release"}
    PROVE  IdempotencyInv'
<1>1. call[c] \in Call
  BY CallType
<1>2. call' = [call EXCEPT ![c] = [call[c] EXCEPT !.at = at, !.tries = call[c].tries,
                                                  !.answer = call[c].answer]]
  BY <1>1 DEF Goto, Call
<1> QED
  BY <1>2, CallType, GoesOn

LEMMA Answered ==
    ASSUME IdempotencyInv, NEW c \in Callers, call[c].at # "idle", UNCHANGED <<row, history>>,
           NEW a \in {"none", "first", "plain", "versioned", "refused", "error"}, Answer(c, a)
    PROVE  IdempotencyInv'
<1>1. call[c] \in Call
  BY CallType
<1>2. call' = [call EXCEPT ![c] = [call[c] EXCEPT !.at = "end", !.tries = call[c].tries,
                                                  !.answer = a]]
  BY <1>1 DEF Answer, Call
<1> QED
  BY <1>2, CallType, GoesOn

LEMMA TriedAgain ==
    ASSUME IdempotencyInv, NEW c \in Callers, call[c].at \in {"read", "purge"},
           UNCHANGED <<row, history>>, Again(c)
    PROVE  IdempotencyInv'
<1>1. call[c] \in Call
  BY CallType
<1>2. call' = [call EXCEPT ![c] = [call[c] EXCEPT !.at = "claim", !.tries = call[c].tries + 1,
                                                  !.answer = call[c].answer]]
  BY <1>1 DEF Again, Call
<1>3. call[c].tries < ClaimAttempts /\ call[c].tries \in 0 .. ClaimAttempts
  BY CallType DEF IdempotencyInv, CallsAreReal
<1>4. call[c].tries + 1 \in 0 .. ClaimAttempts
  BY <1>3
<1> QED
  BY <1>2, <1>4, CallType, GoesOn

LEMMA ReadRecord ==
    ASSUME IdempotencyInv, NEW c \in Callers, Read(c)
    PROVE  IdempotencyInv'
<1>1. call[c].at = "read" /\ UNCHANGED <<row, history>>
  BY DEF Read
<1>2. row[call[c].key].answer \in {"none", "first", "plain", "versioned", "refused", "error"}
  BY <1>1, CallType DEF Row
<1>3. call[c].tries < ClaimAttempts
  BY <1>1 DEF IdempotencyInv, CallsAreReal
<1>4. \/ Again(c)
      \/ Answer(c, "refused")
      \/ Answer(c, row[call[c].key].answer)
      \/ Goto(c, "purge")
  BY DEF Read
<1>5. CASE Again(c)
  BY <1>1, <1>5, TriedAgain
<1>6. CASE Answer(c, "refused")
  BY <1>1, <1>6, Answered
<1>7. CASE Answer(c, row[call[c].key].answer)
  BY <1>1, <1>2, <1>7, Answered
<1>8. CASE Goto(c, "purge")
  BY <1>1, <1>3, <1>8, Went
<1> QED
  BY <1>4, <1>5, <1>6, <1>7, <1>8

LEMMA FailedHandler ==
    ASSUME IdempotencyInv, NEW c \in Callers, HandlerFails(c)
    PROVE  IdempotencyInv'
  BY Went DEF HandlerFails

-----------------------------------------------------------------------------
(* Steps of a call c that change the record of its key k to r and the        *)
(* counts of commits to p and e.  No other caller comes to own the record.   *)

Moves(c, k, x, r, p, e) ==
    /\ call[c].at # "idle" /\ k = call[c].key
    /\ x.key = k /\ x.body = call[c].body /\ x.at \notin {"read", "purge"}
    /\ x.at # "end" => x.answer = "none"
    /\ call' = [call EXCEPT ![c] = x]
    /\ row' = [row EXCEPT ![k] = r]
    /\ applied' = [applied EXCEPT ![k] = p]
    /\ excused' = [excused EXCEPT ![k] = e]

(* What such a step owes the invariant. *)
Sound(c, k, x, r, p, e) ==
    /\ x.at = "complete" => k \notin Manual /\ (r.owner = c /\ r.answer = "none" => p > 0)
    /\ x.at \in {"run", "release"} /\ r.owner = c /\ r.answer = "none" => p <= e
    /\ r = NoRow => p <= e
    /\ r.answer # "none" => p > 0
    /\ k \in Manual => p = (IF r.answer = "none" THEN 0 ELSE 1)
    /\ p <= 1 + e
    /\ \/ r.owner \in {c, Nobody}
       \/ r.answer # "none"
       \/ /\ r = row[k]
          /\ applied[k] <= excused[k] => p <= e
          /\ applied[k] > 0 => p > 0

LEMMA RecordMoves ==
    ASSUME IdempotencyInv, NEW c \in Callers, NEW k \in Keys,
           NEW x \in Call, NEW r \in Row, NEW p \in Nat, NEW e \in Nat,
           Moves(c, k, x, r, p, e), Sound(c, k, x, r, p, e)
    PROVE  IdempotencyInv'
<1> USE DEF IdempotencyInv, Moves, Sound
<1>1. call'[c] = x /\ \A d \in Callers : d # c => call'[d] = call[d]
  BY DEF TypeOK
<1>2. row'[k] = r /\ \A l \in Keys : l # k => row'[l] = row[l]
  BY DEF TypeOK
<1>3. /\ applied'[k] = p /\ \A l \in Keys : l # k => applied'[l] = applied[l]
      /\ excused'[k] = e /\ \A l \in Keys : l # k => excused'[l] = excused[l]
  BY DEF TypeOK
<1>4. call[c].body \in Bodies
  BY CallType
<1>5. TypeOK'
  BY DEF TypeOK
<1>6. CallsAreReal'
  BY <1>1, <1>4 DEF CallsAreReal
<1>7. AbsentIsUnspent'
  BY <1>2, <1>3 DEF AbsentIsUnspent, Absent, Unspent
<1>8. StoredIsApplied' /\ AppliedOnce'
  BY <1>2, <1>3 DEF StoredIsApplied, AppliedOnce
<1>9. ManualExact'
  BY <1>2, <1>3 DEF ManualExact
<1>10. ClaimIsUnspent'
  <2> SUFFICES ASSUME NEW d \in Callers, call'[d].at \in {"run", "release"}, Owns(d)'
               PROVE  applied'[call'[d].key] <= excused'[call'[d].key]
    BY DEF ClaimIsUnspent, Unspent
  <2>1. CASE d = c
    BY <2>1, <1>1, <1>2, <1>3 DEF Owns
  <2>2. CASE d # c
    <3>1. call'[d] = call[d] /\ call[d].key \in Keys
      BY <2>2, <1>1 DEF CallsAreReal
    <3>2. CASE call[d].key # k
      BY <3>1, <3>2, <1>2, <1>3 DEF Owns, ClaimIsUnspent, Unspent
    <3>3. CASE call[d].key = k
      <4>1. r.owner = d /\ r.answer = "none" /\ d # Nobody
        BY <3>1, <3>3, <1>2 DEF Owns
      <4>2. r = row[k] /\ (applied[k] <= excused[k] => p <= e)
        BY <4>1, <2>2
      <4>3. Owns(d) /\ applied[k] <= excused[k]
        BY <4>1, <4>2, <3>1, <3>3 DEF Owns, ClaimIsUnspent, Unspent
      <4> QED
        BY <4>2, <4>3, <3>1, <3>3, <1>3
    <3> QED
      BY <3>2, <3>3
  <2> QED
    BY <2>1, <2>2
<1>11. AnswerIsApplied'
  <2> SUFFICES ASSUME NEW d \in Callers, call'[d].at = "complete", Owns(d)'
               PROVE  applied'[call'[d].key] > 0
    BY DEF AnswerIsApplied
  <2>1. CASE d = c
    BY <2>1, <1>1, <1>2, <1>3 DEF Owns
  <2>2. CASE d # c
    <3>1. call'[d] = call[d] /\ call[d].key \in Keys
      BY <2>2, <1>1 DEF CallsAreReal
    <3>2. CASE call[d].key # k
      BY <3>1, <3>2, <1>2, <1>3 DEF Owns, AnswerIsApplied
    <3>3. CASE call[d].key = k
      <4>1. r.owner = d /\ r.answer = "none" /\ d # Nobody
        BY <3>1, <3>3, <1>2 DEF Owns
      <4>2. r = row[k] /\ (applied[k] > 0 => p > 0)
        BY <4>1, <2>2
      <4>3. Owns(d) /\ applied[k] > 0
        BY <4>1, <4>2, <3>1, <3>3 DEF Owns, AnswerIsApplied
      <4> QED
        BY <4>2, <4>3, <3>1, <3>3, <1>3
    <3> QED
      BY <3>2, <3>3
  <2> QED
    BY <2>1, <2>2
<1> QED
  BY <1>5, <1>6, <1>7, <1>8, <1>9, <1>10, <1>11

(* The value a call ends with. *)
LEMMA EndValue ==
    ASSUME NEW y \in Call, NEW a \in {"first", "versioned", "error"}
    PROVE  /\ [y EXCEPT !.at = "end", !.answer = a] \in Call
           /\ [y EXCEPT !.at = "end", !.answer = a].at = "end"
           /\ [y EXCEPT !.at = "end", !.answer = a].key = y.key
           /\ [y EXCEPT !.at = "end", !.answer = a].body = y.body
  BY DEF Call

LEMMA NoRowValue == NoRow \in Row /\ NoRow.owner = Nobody /\ NoRow.answer = "none"
  BY DEF NoRow, Row

(* What is known of the record of a call under way and of its counts. *)
LEMMA RecordType ==
    ASSUME IdempotencyInv, NEW c \in Callers, NEW k \in Keys, call[c].at # "idle",
           k = call[c].key
    PROVE  /\ row[k] \in Row /\ applied[k] \in Nat /\ excused[k] \in Nat
           /\ applied[k] <= 1 + excused[k]
           /\ row[k].answer # "none" => applied[k] > 0
           /\ row[k] = NoRow => applied[k] <= excused[k]
           /\ k \in Manual => applied[k] = (IF row[k].answer = "none" THEN 0 ELSE 1)
           /\ row = [row EXCEPT ![k] = row[k]]
           /\ applied = [applied EXCEPT ![k] = applied[k]]
           /\ excused = [excused EXCEPT ![k] = excused[k]]
<1> USE DEF IdempotencyInv
<1>1. row[k] \in Row /\ applied[k] \in Nat /\ excused[k] \in Nat
  BY DEF TypeOK
<1>2. applied[k] <= 1 + excused[k] /\ (row[k].answer # "none" => applied[k] > 0)
  BY DEF AppliedOnce, StoredIsApplied
<1>3. row[k] = NoRow => applied[k] <= excused[k]
  BY DEF AbsentIsUnspent, Absent, Unspent
<1>4. k \in Manual => applied[k] = (IF row[k].answer = "none" THEN 0 ELSE 1)
  BY DEF ManualExact
<1>5. /\ row = [row EXCEPT ![k] = row[k]]
      /\ applied = [applied EXCEPT ![k] = applied[k]]
      /\ excused = [excused EXCEPT ![k] = excused[k]]
  BY DEF TypeOK
<1> QED
  BY <1>1, <1>2, <1>3, <1>4, <1>5

LEMMA ClaimTaken ==
    ASSUME IdempotencyInv, NEW c \in Callers, Claim(c)
    PROVE  IdempotencyInv'
<1> DEFINE k == call[c].key
           x == [call[c] EXCEPT !.at = "run"]
           r == [NoRow EXCEPT !.owner = c, !.body = call[c].body]
<1>1. call[c].at = "claim" /\ call[c] \in Call /\ k \in Keys /\ call[c].body \in Bodies
  BY CallType DEF Claim
<1>2. CASE OutOfTries(c)
  <2>1. Answer(c, "refused") /\ UNCHANGED <<row, history>>
    BY <1>2 DEF Claim
  <2> QED
    BY <1>1, <2>1, Answered
<1>3. CASE ~OutOfTries(c) /\ ~Takeable(k)
  <2>1. Goto(c, "read") /\ UNCHANGED <<row, history>>
    BY <1>3 DEF Claim
  <2>2. call[c].tries < ClaimAttempts
    BY <1>1, <1>3, CallType DEF OutOfTries
  <2> QED
    BY <1>1, <2>1, <2>2, Went
<1>4. CASE ~OutOfTries(c) /\ Takeable(k)
  <2>1. /\ row' = [row EXCEPT ![k] = r]
        /\ IF row[k].expired = "yes" THEN Forget(k) ELSE UNCHANGED history
        /\ Goto(c, "run")
    BY <1>4 DEF Claim
  <2>2. r \in Row /\ r.owner = c /\ r.answer = "none" /\ r # NoRow
    BY <1>1, NoRowValue DEF Row
  <2>3. /\ x \in Call /\ x.at = "run" /\ x.answer = "none"
        /\ x.key = k /\ x.body = call[c].body
    BY <1>1, CallType DEF Call
  <2>4. call' = [call EXCEPT ![c] = x]
    BY <2>1, <1>1 DEF Goto
  <2> HIDE DEF x, r
  <2>5. CASE row[k].expired = "yes"
    <3>1. applied' = [applied EXCEPT ![k] = 0] /\ excused' = [excused EXCEPT ![k] = 0]
      BY <2>1, <2>5 DEF Forget
    <3>2. Moves(c, k, x, r, 0, 0)
      BY <1>1, <2>1, <2>3, <2>4, <3>1 DEF Moves
    <3>3. Sound(c, k, x, r, 0, 0)
      BY <2>2, <2>3 DEF Sound
    <3> QED
      BY <1>1, <2>2, <2>3, <3>2, <3>3, RecordMoves
  <2>6. CASE row[k].expired # "yes"
    <3>1. row[k] = NoRow
      BY <2>6, <1>4 DEF Takeable, Absent
    <3>2. applied' = applied /\ excused' = excused
      BY <2>1, <2>6 DEF history
    <3>3. /\ applied[k] \in Nat /\ excused[k] \in Nat /\ applied[k] <= excused[k]
          /\ applied[k] <= 1 + excused[k]
          /\ k \in Manual => applied[k] = 0
          /\ applied = [applied EXCEPT ![k] = applied[k]]
          /\ excused = [excused EXCEPT ![k] = excused[k]]
      BY <3>1, <1>1, RecordType, NoRowValue
    <3>4. Moves(c, k, x, r, applied[k], excused[k])
      BY <1>1, <2>1, <2>3, <2>4, <3>2, <3>3 DEF Moves
    <3>5. Sound(c, k, x, r, applied[k], excused[k])
      BY <2>2, <2>3, <3>3 DEF Sound
    <3> QED
      BY <1>1, <2>2, <2>3, <3>3, <3>4, <3>5, RecordMoves
  <2> QED
    BY <2>5, <2>6
<1> QED
  BY <1>2, <1>3, <1>4

LEMMA Adopted ==
    ASSUME IdempotencyInv, NEW c \in Callers, Adopt(c)
    PROVE  IdempotencyInv'
<1> DEFINE k == call[c].key
           x == [call[c] EXCEPT !.at = "end", !.answer = "versioned"]
           r == IF row[k].answer = "plain" THEN [row[k] EXCEPT !.answer = "versioned"]
                ELSE row[k]
<1>1. call[c].at = "purge" /\ call[c] \in Call /\ k \in Keys /\ call[c].body \in Bodies
  BY CallType DEF Adopt
<1>2. /\ row[k] \in Row /\ applied[k] \in Nat /\ excused[k] \in Nat
      /\ applied[k] <= 1 + excused[k]
      /\ row[k].answer # "none" => applied[k] > 0
      /\ row[k] = NoRow => applied[k] <= excused[k]
      /\ k \in Manual => applied[k] = (IF row[k].answer = "none" THEN 0 ELSE 1)
      /\ applied = [applied EXCEPT ![k] = applied[k]]
      /\ excused = [excused EXCEPT ![k] = excused[k]]
  BY <1>1, RecordType
<1>3. /\ r \in Row
      /\ r.answer = "none" <=> row[k].answer = "none"
      /\ r = row[k] \/ r.answer = "versioned"
  BY <1>2 DEF Row
<1>4. row' = [row EXCEPT ![k] = r] /\ applied' = applied /\ excused' = excused
  BY <1>2 DEF Adopt, history, Row
<1>5. x \in Call /\ x.at = "end" /\ x.key = k /\ x.body = call[c].body
  BY <1>1, EndValue
<1>6. call' = [call EXCEPT ![c] = x]
  BY DEF Adopt, Answer
<1>7. r = NoRow => applied[k] <= excused[k]
  BY <1>2, <1>3, NoRowValue
<1> HIDE DEF x, r
<1>8. /\ r.answer # "none" => applied[k] > 0
      /\ k \in Manual => applied[k] = (IF r.answer = "none" THEN 0 ELSE 1)
      /\ r.answer # "none" \/ r = row[k]
  BY <1>2, <1>3
<1>9. Moves(c, k, x, r, applied[k], excused[k])
  BY <1>1, <1>2, <1>4, <1>5, <1>6 DEF Moves
<1>10. Sound(c, k, x, r, applied[k], excused[k])
  BY <1>2, <1>5, <1>7, <1>8 DEF Sound
<1> QED
  BY <1>1, <1>2, <1>3, <1>5, <1>9, <1>10, RecordMoves

LEMMA LegacyPurged ==
    ASSUME IdempotencyInv, NEW c \in Callers, PurgeLegacy(c)
    PROVE  IdempotencyInv'
<1> DEFINE k == call[c].key
           x == [call[c] EXCEPT !.at = "claim", !.tries = @ + 1]
<1>1. call[c].at = "purge" /\ call[c] \in Call /\ k \in Keys /\ call[c].body \in Bodies
  BY CallType DEF PurgeLegacy
<1>2. CASE row[k].answer # "plain"
  <2>1. Again(c) /\ UNCHANGED <<row, history>>
    BY <1>2 DEF PurgeLegacy
  <2> QED
    BY <1>1, <2>1, TriedAgain
<1>3. CASE row[k].answer = "plain"
  <2>1. /\ call' = [call EXCEPT ![c] = x]
        /\ row' = [row EXCEPT ![k] = NoRow]
        /\ applied' = [applied EXCEPT ![k] = 0]
        /\ excused' = [excused EXCEPT ![k] = 0]
    BY <1>3 DEF PurgeLegacy, Forget, Again
  <2>2. call[c].tries \in 0 .. ClaimAttempts /\ call[c].tries < ClaimAttempts
    BY <1>1, CallType DEF IdempotencyInv, CallsAreReal
  <2>3. call[c].tries + 1 \in 0 .. ClaimAttempts
    BY <2>2
  <2>4. /\ x \in Call /\ x.at = "claim" /\ x.answer = "none"
        /\ x.key = k /\ x.body = call[c].body
    BY <1>1, <2>3, CallType DEF Call
  <2> HIDE DEF x
  <2>5. Moves(c, k, x, NoRow, 0, 0)
    BY <1>1, <2>1, <2>4 DEF Moves
  <2>6. Sound(c, k, x, NoRow, 0, 0)
    BY <2>4, NoRowValue DEF Sound
  <2> QED
    BY <1>1, <2>4, <2>5, <2>6, NoRowValue, RecordMoves
<1> QED
  BY <1>2, <1>3

LEMMA Committed ==
    ASSUME IdempotencyInv, NEW c \in Callers, Commit(c)
    PROVE  IdempotencyInv'
<1> DEFINE k == call[c].key
           x == [call[c] EXCEPT !.at = "complete"]
           e == IF Owns(c) THEN excused[k] ELSE excused[k] + 1
<1>1. call[c].at = "run" /\ call[c] \in Call /\ k \in Keys /\ call[c].body \in Bodies
  BY CallType DEF Commit
<1>2. /\ row[k] \in Row /\ applied[k] \in Nat /\ excused[k] \in Nat
      /\ applied[k] <= 1 + excused[k]
      /\ row[k].answer # "none" => applied[k] > 0
      /\ row[k] = NoRow => applied[k] <= excused[k]
      /\ k \in Manual => applied[k] = (IF row[k].answer = "none" THEN 0 ELSE 1)
      /\ row = [row EXCEPT ![k] = row[k]]
      /\ applied = [applied EXCEPT ![k] = applied[k]]
      /\ excused = [excused EXCEPT ![k] = excused[k]]
  BY <1>1, RecordType
<1>3. /\ row' = row /\ applied' = [applied EXCEPT ![k] = applied[k] + 1]
      /\ excused' = [excused EXCEPT ![k] = e] /\ k \notin Manual
  BY <1>2 DEF Commit
<1>4. /\ x \in Call /\ x.at = "complete" /\ x.answer = "none"
      /\ x.key = k /\ x.body = call[c].body
  BY <1>1, CallType DEF Call
<1>5. call' = [call EXCEPT ![c] = x]
  BY DEF Commit, Goto
<1>6. Owns(c) <=> row[k].owner = c /\ row[k].answer = "none"
  BY DEF Owns
<1>7. Owns(c) => applied[k] <= excused[k]
  BY <1>1 DEF IdempotencyInv, ClaimIsUnspent, Unspent
<1>8. e \in Nat /\ applied[k] + 1 \in Nat
  BY <1>2
<1>9. /\ applied[k] + 1 <= 1 + e /\ applied[k] + 1 > 0
      /\ ~Owns(c) => e = excused[k] + 1
  BY <1>2, <1>7
<1>12. row[k] = NoRow => ~Owns(c)
  BY <1>6, NoRowValue
<1> HIDE DEF x, e
<1>10. Moves(c, k, x, row[k], applied[k] + 1, e)
  BY <1>1, <1>2, <1>3, <1>4, <1>5 DEF Moves
<1>11. Sound(c, k, x, row[k], applied[k] + 1, e)
  BY <1>2, <1>3, <1>4, <1>6, <1>8, <1>9, <1>12 DEF Sound
<1> QED
  BY <1>1, <1>2, <1>4, <1>8, <1>10, <1>11, RecordMoves

LEMMA Stored ==
    ASSUME IdempotencyInv, NEW c \in Callers, Complete(c)
    PROVE  IdempotencyInv'
<1> DEFINE k == call[c].key
           x == [call[c] EXCEPT !.at = "end", !.answer = "first"]
<1>1. call[c].at = "complete" /\ call[c] \in Call /\ k \in Keys /\ call[c].body \in Bodies
  BY CallType DEF Complete
<1>2. /\ row[k] \in Row /\ applied[k] \in Nat /\ excused[k] \in Nat
      /\ applied[k] <= 1 + excused[k]
      /\ row[k].answer # "none" => applied[k] > 0
      /\ row[k] = NoRow => applied[k] <= excused[k]
      /\ k \in Manual => applied[k] = (IF row[k].answer = "none" THEN 0 ELSE 1)
      /\ row = [row EXCEPT ![k] = row[k]]
      /\ applied = [applied EXCEPT ![k] = applied[k]]
      /\ excused = [excused EXCEPT ![k] = excused[k]]
  BY <1>1, RecordType
<1>3. PICK shape \in {"plain", Shape(k)} : row' = Completed(c, shape)
  BY DEF Complete
<1>4. shape \in {"plain", "versioned"}
  BY DEF Shape
<1> DEFINE r == IF Owns(c) THEN [row[k] EXCEPT !.answer = shape] ELSE row[k]
<1>5. x \in Call /\ x.at = "end" /\ x.key = k /\ x.body = call[c].body
  BY <1>1, EndValue
<1>6. /\ call' = [call EXCEPT ![c] = x] /\ row' = [row EXCEPT ![k] = r]
      /\ applied' = applied /\ excused' = excused
  BY <1>2, <1>3 DEF Complete, Completed, Answer, history
<1>7. r \in Row /\ (Owns(c) => r.answer # "none") /\ (~Owns(c) => r = row[k])
  BY <1>2, <1>4 DEF Row
<1>8. Owns(c) => applied[k] > 0
  BY <1>1 DEF IdempotencyInv, AnswerIsApplied
<1>9. k \notin Manual
  BY <1>1 DEF IdempotencyInv, CallsAreReal
<1> HIDE DEF x, r
<1>10. Moves(c, k, x, r, applied[k], excused[k])
  BY <1>1, <1>2, <1>5, <1>6 DEF Moves
<1>11. Sound(c, k, x, r, applied[k], excused[k])
  BY <1>2, <1>5, <1>7, <1>8, <1>9, NoRowValue DEF Sound
<1> QED
  BY <1>1, <1>2, <1>5, <1>7, <1>10, <1>11, RecordMoves

LEMMA NotStored ==
    ASSUME IdempotencyInv, NEW c \in Callers, CompleteFails(c)
    PROVE  IdempotencyInv'
<1> DEFINE k == call[c].key
           x == [call[c] EXCEPT !.at = "release"]
           e == IF Owns(c) THEN excused[k] + 1 ELSE excused[k]
<1>1. call[c].at = "complete" /\ call[c] \in Call /\ k \in Keys /\ call[c].body \in Bodies
  BY CallType DEF CompleteFails
<1>2. /\ row[k] \in Row /\ applied[k] \in Nat /\ excused[k] \in Nat
      /\ applied[k] <= 1 + excused[k]
      /\ row[k].answer # "none" => applied[k] > 0
      /\ row[k] = NoRow => applied[k] <= excused[k]
      /\ k \in Manual => applied[k] = (IF row[k].answer = "none" THEN 0 ELSE 1)
      /\ row = [row EXCEPT ![k] = row[k]]
      /\ applied = [applied EXCEPT ![k] = applied[k]]
      /\ excused = [excused EXCEPT ![k] = excused[k]]
  BY <1>1, RecordType
<1>3. row' = row /\ applied' = applied /\ excused' = [excused EXCEPT ![k] = e]
  BY <1>2 DEF CompleteFails
<1>4. /\ x \in Call /\ x.at = "release" /\ x.answer = "none"
      /\ x.key = k /\ x.body = call[c].body
  BY <1>1, CallType DEF Call
<1>5. call' = [call EXCEPT ![c] = x]
  BY DEF CompleteFails, Goto
<1>6. Owns(c) <=> row[k].owner = c /\ row[k].answer = "none"
  BY DEF Owns
<1>7. /\ e \in Nat /\ applied[k] <= 1 + e
      /\ Owns(c) => applied[k] <= e
      /\ applied[k] <= excused[k] => applied[k] <= e
  BY <1>2
<1> HIDE DEF x, e
<1>8. Moves(c, k, x, row[k], applied[k], e)
  BY <1>1, <1>2, <1>3, <1>4, <1>5 DEF Moves
<1>9. Sound(c, k, x, row[k], applied[k], e)
  BY <1>2, <1>4, <1>6, <1>7 DEF Sound
<1> QED
  BY <1>1, <1>2, <1>4, <1>7, <1>8, <1>9, RecordMoves

LEMMA CommittedManually ==
    ASSUME IdempotencyInv, NEW c \in Callers, CommitManual(c)
    PROVE  IdempotencyInv'
<1> DEFINE k == call[c].key
           x == [call[c] EXCEPT !.at = "end", !.answer = "first"]
           r == [row[k] EXCEPT !.answer = "plain"]
<1>1. call[c].at = "run" /\ call[c] \in Call /\ k \in Keys /\ call[c].body \in Bodies
  BY CallType DEF CommitManual
<1>2. /\ row[k] \in Row /\ applied[k] \in Nat /\ excused[k] \in Nat
      /\ applied[k] <= 1 + excused[k]
      /\ row[k].answer # "none" => applied[k] > 0
      /\ row[k] = NoRow => applied[k] <= excused[k]
      /\ k \in Manual => applied[k] = (IF row[k].answer = "none" THEN 0 ELSE 1)
      /\ row = [row EXCEPT ![k] = row[k]]
      /\ applied = [applied EXCEPT ![k] = applied[k]]
      /\ excused = [excused EXCEPT ![k] = excused[k]]
  BY <1>1, RecordType
<1>3. CASE ~Owns(c)
  <2>1. Goto(c, "release") /\ UNCHANGED <<row, history>>
    BY <1>3 DEF CommitManual
  <2> QED
    BY <1>1, <2>1, Went
<1>4. CASE Owns(c)
  <2>1. /\ call' = [call EXCEPT ![c] = x] /\ row' = [row EXCEPT ![k] = r]
        /\ applied' = [applied EXCEPT ![k] = applied[k] + 1] /\ excused' = excused
        /\ k \in Manual
    BY <1>2, <1>4 DEF CommitManual, Completed, Answer
  <2>2. x \in Call /\ x.at = "end" /\ x.key = k /\ x.body = call[c].body
    BY <1>1, EndValue
  <2>3. r \in Row /\ r.answer = "plain"
    BY <1>2 DEF Row
  <2>4. applied[k] + 1 = 1
    BY <1>2, <1>4, <2>1 DEF Owns
  <2> HIDE DEF x, r
  <2>5. Moves(c, k, x, r, 1, excused[k])
    BY <1>1, <1>2, <2>1, <2>2, <2>4 DEF Moves
  <2>6. Sound(c, k, x, r, 1, excused[k])
    BY <1>2, <2>2, <2>3, NoRowValue DEF Sound
  <2> QED
    BY <1>1, <1>2, <2>2, <2>3, <2>5, <2>6, RecordMoves
<1> QED
  BY <1>3, <1>4

LEMMA Released ==
    ASSUME IdempotencyInv, NEW c \in Callers, Release(c)
    PROVE  IdempotencyInv'
<1> DEFINE k == call[c].key
           x == [call[c] EXCEPT !.at = "end", !.answer = "error"]
<1>1. call[c].at = "release" /\ call[c] \in Call /\ k \in Keys /\ call[c].body \in Bodies
  BY CallType DEF Release
<1>2. /\ row[k] \in Row /\ applied[k] \in Nat /\ excused[k] \in Nat
      /\ applied[k] <= 1 + excused[k]
      /\ row[k].answer # "none" => applied[k] > 0
      /\ row[k] = NoRow => applied[k] <= excused[k]
      /\ k \in Manual => applied[k] = (IF row[k].answer = "none" THEN 0 ELSE 1)
      /\ row = [row EXCEPT ![k] = row[k]]
      /\ applied = [applied EXCEPT ![k] = applied[k]]
      /\ excused = [excused EXCEPT ![k] = excused[k]]
  BY <1>1, RecordType
<1>3. CASE ~Owns(c)
  <2>1. Answer(c, "error") /\ UNCHANGED <<row, history>>
    BY <1>3 DEF Release
  <2> QED
    BY <1>1, <2>1, Answered
<1>4. CASE Owns(c)
  <2>1. /\ call' = [call EXCEPT ![c] = x] /\ row' = [row EXCEPT ![k] = NoRow]
        /\ applied' = applied /\ excused' = excused
    BY <1>4 DEF Release, Answer, history
  <2>2. x \in Call /\ x.at = "end" /\ x.key = k /\ x.body = call[c].body
    BY <1>1, EndValue
  <2>3. applied[k] <= excused[k]
    BY <1>1, <1>4 DEF IdempotencyInv, ClaimIsUnspent, Unspent
  <2>4. k \in Manual => applied[k] = 0
    BY <1>2, <1>4 DEF Owns
  <2> HIDE DEF x
  <2>5. Moves(c, k, x, NoRow, applied[k], excused[k])
    BY <1>1, <1>2, <2>1, <2>2 DEF Moves
  <2>6. Sound(c, k, x, NoRow, applied[k], excused[k])
    BY <1>2, <2>2, <2>3, <2>4, NoRowValue DEF Sound
  <2> QED
    BY <1>1, <1>2, <2>2, <2>5, <2>6, NoRowValue, RecordMoves
<1> QED
  BY <1>3, <1>4

-----------------------------------------------------------------------------
(* Steps of time. *)

LEMMA Expired ==
    ASSUME IdempotencyInv, NEW k \in Keys, Expire(k)
    PROVE  IdempotencyInv'
<1> USE DEF IdempotencyInv
<1>1. call' = call /\ applied' = applied /\ excused' = excused /\ row[k] \in Row
  BY DEF Expire, history, TypeOK
<1>2. /\ row' = [row EXCEPT ![k] = [row[k] EXCEPT !.expired = "yes"]]
      /\ row'[k] = [row[k] EXCEPT !.expired = "yes"]
      /\ \A l \in Keys : l # k => row'[l] = row[l]
  BY DEF Expire, TypeOK
<1>3. /\ row'[k].owner = row[k].owner /\ row'[k].answer = row[k].answer
      /\ row'[k].expired = "yes" /\ row'[k] \in Row
  BY <1>1, <1>2 DEF Row
<1>4. TypeOK'
  BY <1>1, <1>2, <1>3 DEF TypeOK
<1>5. row'[k] # NoRow
  BY <1>3 DEF NoRow
<1>6. \A l \in Keys : row'[l].owner = row[l].owner /\ row'[l].answer = row[l].answer
  BY <1>2, <1>3
<1>7. CallsAreReal'
  BY <1>1 DEF CallsAreReal
<1>8. AbsentIsUnspent'
  BY <1>1, <1>2, <1>5 DEF AbsentIsUnspent, Absent, Unspent
<1>9. ClaimIsUnspent' /\ AnswerIsApplied'
  BY <1>1, <1>6 DEF CallsAreReal, ClaimIsUnspent, AnswerIsApplied, Owns, Unspent
<1>10. StoredIsApplied' /\ ManualExact' /\ AppliedOnce'
  BY <1>1, <1>6 DEF StoredIsApplied, ManualExact, AppliedOnce
<1> QED
  BY <1>4, <1>7, <1>8, <1>9, <1>10

LEMMA Purged ==
    ASSUME IdempotencyInv, NEW k \in Keys, PurgeExpired(k)
    PROVE  IdempotencyInv'
<1> USE DEF IdempotencyInv
<1>1. /\ call' = call /\ row' = [row EXCEPT ![k] = NoRow]
      /\ applied' = [applied EXCEPT ![k] = 0] /\ excused' = [excused EXCEPT ![k] = 0]
  BY DEF PurgeExpired, Forget
<1>2. /\ row'[k] = NoRow /\ \A l \in Keys : l # k => row'[l] = row[l]
      /\ applied'[k] = 0 /\ \A l \in Keys : l # k => applied'[l] = applied[l]
      /\ excused'[k] = 0 /\ \A l \in Keys : l # k => excused'[l] = excused[l]
  BY <1>1 DEF TypeOK
<1>3. TypeOK'
  BY <1>1, NoRowValue DEF TypeOK
<1>4. CallsAreReal'
  BY <1>1 DEF CallsAreReal
<1>5. AbsentIsUnspent' /\ StoredIsApplied' /\ AppliedOnce' /\ ManualExact'
  BY <1>2, NoRowValue
     DEF AbsentIsUnspent, StoredIsApplied, AppliedOnce, ManualExact, Absent, Unspent
<1>6. \A c \in Callers : Owns(c)' /\ call[c].at # "idle" => Owns(c) /\ call[c].key # k
  BY <1>1, <1>2, NoRowValue DEF Owns, CallsAreReal
<1>7. ClaimIsUnspent' /\ AnswerIsApplied'
  BY <1>1, <1>2, <1>6 DEF CallsAreReal, ClaimIsUnspent, AnswerIsApplied, Unspent
<1> QED
  BY <1>3, <1>4, <1>5, <1>7

-----------------------------------------------------------------------------
LEMMA Initially == Init => IdempotencyInv
<1> SUFFICES ASSUME Init PROVE IdempotencyInv
  OBVIOUS
<1>0. 0 \in 0 .. ClaimAttempts
  OBVIOUS
<1>1. NoCall \in Call /\ NoCall.at = "idle" /\ NoCall.answer = "none"
  BY <1>0 DEF NoCall, Call
<1>2. TypeOK
  BY <1>1, NoRowValue DEF Init, TypeOK
<1>3. CallsAreReal /\ ClaimIsUnspent /\ AnswerIsApplied
  BY <1>1 DEF Init, CallsAreReal, ClaimIsUnspent, AnswerIsApplied
<1>4. AbsentIsUnspent /\ StoredIsApplied /\ ManualExact /\ AppliedOnce
  BY NoRowValue
     DEF Init, AbsentIsUnspent, StoredIsApplied, ManualExact, AppliedOnce, Unspent
<1> QED
  BY <1>2, <1>3, <1>4 DEF IdempotencyInv

LEMMA CallKeeps ==
    ASSUME IdempotencyInv, NEW c \in Callers, CallStep(c)
    PROVE  IdempotencyInv'
<1>1. ASSUME NEW k \in Keys, NEW b \in Bodies, Request(c, k, b) PROVE IdempotencyInv'
  BY <1>1, Requested
<1>2. CASE Claim(c)
  BY <1>2, ClaimTaken
<1>3. CASE Read(c)
  BY <1>3, ReadRecord
<1>4. CASE Adopt(c)
  BY <1>4, Adopted
<1>5. CASE PurgeLegacy(c)
  BY <1>5, LegacyPurged
<1>6. CASE Commit(c)
  BY <1>6, Committed
<1>7. CASE Complete(c)
  BY <1>7, Stored
<1>8. CASE CompleteFails(c)
  BY <1>8, NotStored
<1>9. CASE CommitManual(c)
  BY <1>9, CommittedManually
<1>10. CASE HandlerFails(c)
  BY <1>10, FailedHandler
<1>11. CASE Release(c)
  BY <1>11, Released
<1>12. CASE End(c) \/ Crash(c)
  BY <1>12, Leaves DEF End, Crash
<1> QED
  BY <1>1, <1>2, <1>3, <1>4, <1>5, <1>6, <1>7, <1>8, <1>9, <1>10, <1>11, <1>12 DEF CallStep

LEMMA StepKeeps == IdempotencyInv /\ [Next]_vars => IdempotencyInv'
<1> SUFFICES ASSUME IdempotencyInv, [Next]_vars PROVE IdempotencyInv'
  OBVIOUS
<1>1. ASSUME NEW c \in Callers, CallStep(c) PROVE IdempotencyInv'
  BY <1>1, CallKeeps
<1>2. ASSUME NEW k \in Keys, Expire(k) PROVE IdempotencyInv'
  BY <1>2, Expired
<1>3. ASSUME NEW k \in Keys, PurgeExpired(k) PROVE IdempotencyInv'
  BY <1>3, Purged
<1>4. CASE UNCHANGED vars
  BY <1>4 DEF vars, history, IdempotencyInv, TypeOK, CallsAreReal, AbsentIsUnspent,
              ClaimIsUnspent, StoredIsApplied, AnswerIsApplied, ManualExact, AppliedOnce,
              Absent, Unspent, Owns
<1> QED
  BY <1>1, <1>2, <1>3, <1>4 DEF Next

(* The inductive invariant: records, claims and calls agree about what has   *)
(* been applied, whatever calls overlap, fail, die and are repeated.         *)
THEOREM IdempotencyInvariant == Spec => []IdempotencyInv
  BY Initially, StepKeeps, PTL DEF Spec

(* Records and calls stay well typed; no call makes more than ClaimAttempts  *)
(* attempts at its claim.                                                    *)
THEOREM TypeCorrect == Spec => []TypeOK
<1>1. IdempotencyInv => TypeOK
  BY DEF IdempotencyInv
<1> QED
  BY <1>1, IdempotencyInvariant, PTL

(* On a manual route a completed record stands for exactly one application   *)
(* of the mutation and any other for none (ManualExact), for any number of   *)
(* overlapping calls.                                                        *)
THEOREM ManualIsExact == Spec => []ManualExact
<1>1. IdempotencyInv => ManualExact
  BY DEF IdempotencyInv
<1> QED
  BY <1>1, IdempotencyInvariant, PTL

(* Within the life of a record its mutation is applied once, but for commits *)
(* whose answer was not stored or that outlived their claim (AppliedOnce).   *)
THEOREM AppliedAtMostOnce == Spec => []AppliedOnce
<1>1. IdempotencyInv => AppliedOnce
  BY DEF IdempotencyInv
<1> QED
  BY <1>1, IdempotencyInvariant, PTL

-----------------------------------------------------------------------------
(* Every step that changes the record of a live claim is its caller's own    *)
(* release, or keeps the claim.                                              *)
LEMMA StepKeepsClaim ==
    ASSUME IdempotencyInv, Next, NEW c \in Callers, NEW k \in Keys,
           row[k].owner = c, row[k].answer = "none", row[k].expired = "no"
    PROVE  row'[k].owner = c \/ (call[c].key = k /\ call[c].at = "release")
<1> USE DEF IdempotencyInv
<1>0. row[k] # NoRow /\ row[k] \in Row
  BY DEF NoRow, TypeOK
<1>1. CASE row' = row
  BY <1>1
<1>2. ASSUME NEW l \in Keys, Expire(l) PROVE row'[k].owner = c
  BY <1>2, <1>0 DEF Expire, TypeOK, Row
<1>3. ASSUME NEW l \in Keys, PurgeExpired(l) PROVE row'[k].owner = c
  BY <1>3, <1>0 DEF PurgeExpired, TypeOK
<1>4. ASSUME NEW d \in Callers, CallStep(d), row' # row
      PROVE  row'[k].owner = c \/ (call[c].key = k /\ call[c].at = "release")
  <2>1. CASE Claim(d)
    <3>1. /\ Takeable(call[d].key)
          /\ row' = [row EXCEPT ![call[d].key] = [NoRow EXCEPT !.owner = d, !.body = call[d].body]]
      BY <2>1, <1>4 DEF Claim
    <3>2. call[d].key # k
      BY <3>1, <1>0 DEF Takeable, Absent
    <3> QED
      BY <3>1, <3>2 DEF TypeOK
  <2>2. CASE Adopt(d)
    BY <2>2, <1>0 DEF Adopt, TypeOK, Row
  <2>3. CASE PurgeLegacy(d)
    BY <2>3, <1>0 DEF PurgeLegacy, TypeOK
  <2>4. CASE Complete(d)
    BY <2>4, <1>0 DEF Complete, Completed, Owns, TypeOK, Row
  <2>5. CASE CommitManual(d)
    BY <2>5, <1>0 DEF CommitManual, Completed, Owns, TypeOK, Row
  <2>6. CASE Release(d)
    BY <2>6, <1>0 DEF Release, Owns, TypeOK
  <2>7. \/ Claim(d) \/ Adopt(d) \/ PurgeLegacy(d) \/ Complete(d) \/ CommitManual(d) \/ Release(d)
    BY <1>4 DEF CallStep, Request, Read, Commit, CompleteFails, HandlerFails, End, Crash
  <2> QED
    BY <2>1, <2>2, <2>3, <2>4, <2>5, <2>6, <2>7
<1> QED
  BY <1>1, <1>2, <1>3, <1>4 DEF Next

(* No call ends another call's claim (ClaimKept): not by its own completion, *)
(* release, purge or claim.                                                  *)
THEOREM ClaimsAreKept == Spec => ClaimKept
<1> DEFINE Kept == \A c \in Callers, k \in Keys :
        row[k].owner = c /\ row[k].answer = "none" /\ row[k].expired = "no"
            => \/ row'[k].owner = c
               \/ call[c].key = k /\ call[c].at = "release"
<1>1. IdempotencyInv /\ [Next]_vars => [Kept]_vars
  BY StepKeepsClaim
<1>2. Spec => [][Kept]_vars
  BY <1>1, IdempotencyInvariant, PTL DEF Spec
<1> QED
  BY <1>2 DEF ClaimKept

(* A call that gets its answer while it looks at the record in its way gets  *)
(* it by Read, from a stored answer of the same body and of a shape that its *)
(* route replays.                                                            *)
LEMMA StepReplays ==
    ASSUME IdempotencyInv, Next, NEW c \in Callers, call[c].at = "read",
           call'[c].answer \in {"plain", "versioned"}
    PROVE  /\ row[call[c].key].body = call[c].body
           /\ applied[call[c].key] > 0
           /\ call[c].key \in Versioned => call'[c].answer = "versioned"
<1> USE DEF IdempotencyInv
<1> DEFINE k == call[c].key
<1>1. call[c].answer = "none" /\ call[c] \in Call /\ k \in Keys
  BY CallType
<1>2. call'[c] # call[c]
  BY <1>1
<1>3. Read(c)
  <2>1. PICK d \in Callers : CallStep(d)
    BY <1>2 DEF Next, Expire, PurgeExpired
  <2>2. d = c
    BY <1>2, <2>1 DEF TypeOK, CallStep, Request, Claim, Read, Adopt, PurgeLegacy, Commit, Complete,
                      CompleteFails, CommitManual, HandlerFails, Release, End, Crash, Goto, Answer,
                      Again
  <2>3. CASE Crash(c)
    BY <2>3 DEF Crash, NoCall, TypeOK
  <2> QED
    BY <2>1, <2>2, <2>3
       DEF CallStep, Request, Claim, Adopt, PurgeLegacy, Commit, Complete, CompleteFails,
           CommitManual, HandlerFails, Release, End
<1>4. CASE Again(c) \/ Goto(c, "purge") \/ Answer(c, "refused")
  BY <1>1, <1>4 DEF Again, Goto, Answer, TypeOK, Call
<1>5. CASE /\ row[k].body = call[c].body /\ row[k].answer # "none"
           /\ k \in Versioned => row[k].answer = "versioned"
           /\ Answer(c, row[k].answer)
  <2>1. call'[c].answer = row[k].answer
    BY <1>1, <1>5 DEF Answer, TypeOK, Call
  <2>2. applied[k] > 0
    BY <1>1, <1>5 DEF StoredIsApplied
  <2> QED
    BY <1>5, <2>1, <2>2
<1> QED
  BY <1>3, <1>4, <1>5 DEF Read

(* A replay is of the same body, of something applied, and of the shape the  *)
(* route replays (ReplayFaithful).                                           *)
THEOREM ReplaysAreFaithful == Spec => ReplayFaithful
<1> DEFINE Faithful == \A c \in Callers :
        call[c].at = "read" /\ call'[c].answer \in {"plain", "versioned"} =>
            /\ row[call[c].key].body = call[c].body
            /\ applied[call[c].key] > 0
            /\ call[c].key \in Versioned => call'[c].answer = "versioned"
<1>1. IdempotencyInv /\ [Next]_vars => [Faithful]_vars
  BY StepReplays
<1>2. Spec => [][Faithful]_vars
  BY <1>1, IdempotencyInvariant, PTL DEF Spec
<1> QED
  BY <1>2 DEF ReplayFaithful
=============================================================================
