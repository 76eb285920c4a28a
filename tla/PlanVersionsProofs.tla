-------------------------- MODULE PlanVersionsProofs --------------------------
(***************************************************************************)
(* Theorems about PlanVersions for any places, number of writes in flight, *)
(* versions and rounds.                                                    *)
(***************************************************************************)
EXTENDS PlanVersions, FiniteSetTheorems, TLAPS

USE PlanBounds

LEMMA NoPlanIsPlan == NoPlan \in Plan /\ NoPlan.source = 0 /\ NoPlan.origin = "none"
                      /\ NoPlan.locked \subseteq NoPlan.stops
  BY DEF NoPlan, Plan

LEMMA BlankIsRequest == Blank \in Request /\ Blank.op = "idle"
  BY DEF Blank, Request, Ops

(* Sets of versions are finite; one more version is one more at most. *)
LEMMA VersionSets ==
    ASSUME NEW S \in SUBSET Versions
    PROVE  IsFiniteSet(S) /\ Cardinality(S) \in Nat
<1>1. IsFiniteSet(1 .. MaxPlans)
  BY FS_Interval
<1> QED
  BY <1>1, FS_Subset, FS_CardinalityType DEF Versions

LEMMA OneMoreVersion ==
    ASSUME NEW S \in SUBSET Versions, NEW n \in Versions
    PROVE  Cardinality(S \cup {n}) <= Cardinality(S) + 1
<1>1. IsFiniteSet(S) /\ Cardinality(S) \in Nat
  BY VersionSets
<1>2. Cardinality(S \cup {n}) = IF n \in S THEN Cardinality(S) ELSE Cardinality(S) + 1
  BY <1>1, FS_AddElement
<1> QED
  BY <1>1, <1>2

LEMMA InitInv == Init => PlanInv
<1> SUFFICES ASSUME Init PROVE PlanInv
  OBVIOUS
<1>1. TypeOK
  <2>1. status \in Statuses /\ cv \in Nat /\ rounds \in Nat /\ head \in 0 .. MaxPlans
    BY DEF Init, Statuses
  <2>2. pos \in [Places -> Nat] /\ plans \in [Versions -> Plan] /\ reqs \in [Requests -> Request]
    BY NoPlanIsPlan, BlankIsRequest DEF Init
  <2>3. ASSUME NEW n \in Versions
        PROVE  plans[n].locked \subseteq plans[n].stops /\ plans[n].origin = "none" /\ n > head
    BY NoPlanIsPlan DEF Init, Versions
  <2> QED
    BY <2>1, <2>2, <2>3 DEF TypeOK
<1>2. Unwritten /\ ReadsAreReal /\ NothingOverwritten /\ FreshAsComputed
  BY NoPlanIsPlan, BlankIsRequest
     DEF Init, Unwritten, ReadsAreReal, NothingOverwritten, FreshAsComputed
<1>3. RoundToDecide
  <2>1. Decided = {}
    BY NoPlanIsPlan DEF Init, Decided
  <2>2. Cardinality(Decided) = 0
    BY <2>1, FS_EmptySet
  <2> QED
    BY <2>2 DEF Init, RoundToDecide
<1> QED
  BY <1>1, <1>2, <1>3 DEF PlanInv
-----------------------------------------------------------------------------
(* Steps that leave the plans alone and only add real reads keep everything. *)
LEMMA ReadsOnly ==
    ASSUME PlanInv, UNCHANGED <<cv, head, plans, status, rounds, pos>>,
           reqs' \in [Requests -> Request], ReadsAreReal'
    PROVE  PlanInv'
<1>1. TypeOK'
  BY DEF PlanInv, TypeOK
<1>2. Unwritten' /\ NothingOverwritten' /\ FreshAsComputed' /\ RoundToDecide'
  BY DEF PlanInv, Unwritten, NothingOverwritten, FreshAsComputed, RoundToDecide, Decided
<1> QED
  BY <1>1, <1>2 DEF PlanInv

(* Ending a write leaves the reads of the others as they were. *)
LEMMA Closing ==
    ASSUME reqs \in [Requests -> Request], NEW q \in Requests, Close(q)
    PROVE  /\ reqs' \in [Requests -> Request]
           /\ \A r \in Requests : reqs'[r].op = "idle" \/ reqs'[r] = reqs[r]
  BY BlankIsRequest DEF Close

LEMMA ReadingIsReal ==
    ASSUME PlanInv, head > 0, NEW op \in {"regenerate", "edit", "lock"}
    PROVE  Reading(op) \in Request /\ Reading(op).op = op /\ Reading(op).source \in 1 .. head
<1>1. head \in Versions /\ head \in Nat
  BY DEF PlanInv, TypeOK, Versions
<1>2. plans[head] \in Plan
  BY <1>1 DEF PlanInv, TypeOK
<1>3. plans[head].stops \in SUBSET Places /\ plans[head].locked \in SUBSET Places
  BY <1>2 DEF Plan
<1>4. Reading(op) \in Request
  BY <1>1, <1>3 DEF Reading, Blank, Request, Ops
<1> QED
  BY <1>1, <1>4 DEF Reading, Blank

LEMMA AskStep ==
    ASSUME PlanInv, NEW q \in Requests, NEW request \in Request, Ask(q, request),
           request.op \in {"regenerate", "edit", "lock"} => request.source \in 1 .. head,
           request.op = "finalize" => request.source = 0
    PROVE  PlanInv'
<1>1. reqs' = [reqs EXCEPT ![q] = request] /\ reqs' \in [Requests -> Request]
  BY DEF Ask, PlanInv, TypeOK
<1>2. UNCHANGED <<cv, head, plans, status, rounds, pos>>
  BY DEF Ask
<1>3. ReadsAreReal'
  BY <1>1, <1>2 DEF PlanInv, TypeOK, ReadsAreReal
<1> QED
  BY <1>1, <1>2, <1>3, ReadsOnly

LEMMA ReadStep ==
    ASSUME PlanInv, NEW q \in Requests, Reads(q)
    PROVE  PlanInv'
<1>1. CASE RequestFinalize(q)
  <2> DEFINE request == [Blank EXCEPT !.op = "finalize"]
  <2>1. request \in Request /\ request.op = "finalize" /\ request.source = 0
    BY DEF Blank, Request, Ops
  <2> HIDE DEF request
  <2> QED
    BY <1>1, <2>1, AskStep DEF RequestFinalize, request
<1>2. CASE RequestRegenerate(q)
  BY <1>2, ReadingIsReal, AskStep DEF RequestRegenerate
<1>3. CASE RequestEdit(q)
  BY <1>3, ReadingIsReal, AskStep DEF RequestEdit
<1>4. CASE RequestLock(q)
  BY <1>4, ReadingIsReal, AskStep DEF RequestLock
<1>5. CASE Compute(q)
  <2>1. UNCHANGED <<cv, head, plans, status, rounds, pos>>
        /\ reqs' = [reqs EXCEPT ![q].stage = "computed", ![q].cv = cv, ![q].at = pos]
    BY <1>5 DEF Compute
  <2>2. cv \in Nat /\ pos \in [Places -> Nat] /\ reqs[q] \in Request
    BY DEF PlanInv, TypeOK
  <2>3. [reqs[q] EXCEPT !.stage = "computed", !.cv = cv, !.at = pos] \in Request
    BY <2>2 DEF Request
  <2>4. reqs' = [reqs EXCEPT ![q] = [reqs[q] EXCEPT !.stage = "computed", !.cv = cv, !.at = pos]]
    BY <2>1 DEF PlanInv, TypeOK
  <2>5. reqs' \in [Requests -> Request]
    BY <2>3, <2>4 DEF PlanInv, TypeOK
  <2>6. \A r \in Requests : reqs'[r].op = reqs[r].op /\ reqs'[r].source = reqs[r].source
    BY <2>2, <2>4 DEF PlanInv, TypeOK, Request
  <2>7. ReadsAreReal'
    BY <2>1, <2>6 DEF PlanInv, ReadsAreReal
  <2> QED
    BY <2>1, <2>5, <2>7, ReadsOnly
<1>6. CASE Abandon(q)
  <2>1. Close(q) /\ UNCHANGED <<cv, head, plans, status, rounds, pos>>
    BY <1>6 DEF Abandon
  <2>2. /\ reqs' \in [Requests -> Request]
        /\ \A r \in Requests : reqs'[r].op = "idle" \/ reqs'[r] = reqs[r]
    BY <2>1, Closing DEF PlanInv, TypeOK
  <2>3. ReadsAreReal'
    BY <2>1, <2>2 DEF PlanInv, ReadsAreReal
  <2> QED
    BY <2>1, <2>2, <2>3, ReadsOnly
<1> QED
  BY <1>1, <1>2, <1>3, <1>4, <1>5, <1>6 DEF Reads
-----------------------------------------------------------------------------
(* Publishing a version built from the current plan as it is now. *)
LEMMA PublishStep ==
    ASSUME PlanInv, NEW q \in Requests, NEW plan \in Plan, Publish(q, plan),
           plan.locked \subseteq plan.stops,
           plan.origin \in {"finalize", "regenerate", "edit"},
           plan.source # 0 => plan.source = head /\ plan.kept = plans[head].locked,
           plan.origin # "finalize" => plan.cv = cv /\ UNCHANGED status,
           plan.origin = "finalize" => status = "matching" /\ status' = "ready"
    PROVE  PlanInv'
<1>1. /\ head < MaxPlans /\ head' = head + 1 /\ plans' = [plans EXCEPT ![head + 1] = plan]
      /\ Close(q) /\ UNCHANGED <<cv, rounds, pos>>
  BY DEF Publish
<1>2. head \in Nat /\ head + 1 \in Versions /\ plans \in [Versions -> Plan]
  BY <1>1 DEF PlanInv, TypeOK, Versions
<1>3. plans' \in [Versions -> Plan] /\ plans'[head + 1] = plan
      /\ \A n \in Versions : n # head + 1 => plans'[n] = plans[n]
  BY <1>1, <1>2
<1>4. /\ reqs' \in [Requests -> Request]
      /\ \A r \in Requests : reqs'[r].op = "idle" \/ reqs'[r] = reqs[r]
  BY <1>1, Closing DEF PlanInv, TypeOK
<1>5. ReadsAreReal'
  BY <1>1, <1>2, <1>4 DEF PlanInv, ReadsAreReal
<1>6. Unwritten'
  <2> SUFFICES ASSUME NEW n \in Versions, n > head'
               PROVE  plans'[n] = NoPlan
    BY DEF Unwritten
  <2>1. n \in Nat
    BY DEF Versions
  <2>2. n # head + 1 /\ n > head
    BY <1>1, <1>2, <2>1
  <2> QED
    BY <1>3, <2>2 DEF PlanInv, Unwritten
<1>7. TypeOK'
  <2>1. status' \in Statuses
    BY DEF PlanInv, TypeOK, Statuses
  <2>2. head' \in 0 .. MaxPlans
    BY <1>1, <1>2
  <2>3. \A n \in Versions : plans'[n].locked \subseteq plans'[n].stops
    BY <1>3 DEF PlanInv, TypeOK
  <2>4. \A n \in Versions : plans'[n].origin = "none" <=> n > head'
    <3> SUFFICES ASSUME NEW n \in Versions PROVE plans'[n].origin = "none" <=> n > head'
      OBVIOUS
    <3>1. n \in Nat
      BY DEF Versions
    <3>2. CASE n = head + 1
      BY <1>1, <1>2, <1>3, <3>1, <3>2
    <3>3. CASE n # head + 1
      BY <1>1, <1>2, <1>3, <3>1, <3>3 DEF PlanInv, TypeOK
    <3> QED
      BY <3>2, <3>3
  <2> QED
    BY <1>1, <1>3, <1>4, <2>1, <2>2, <2>3, <2>4 DEF PlanInv, TypeOK
<1>8. NothingOverwritten'
  <2> SUFFICES ASSUME NEW n \in Versions, plans'[n].source # 0
               PROVE  plans'[n].source = n - 1 /\ plans'[n].kept = plans'[n - 1].locked
    BY DEF NothingOverwritten
  <2>0. n \in Nat
    BY DEF Versions
  <2>1. CASE n = head + 1
    <3>1. plan.source = head /\ plan.kept = plans[head].locked
      BY <1>3, <2>1
    <3>2. head \in Versions
      BY <1>1, <1>2, <1>3, <2>1, <3>1 DEF Versions
    <3>3. plans'[head] = plans[head]
      BY <1>2, <1>3, <3>2
    <3> QED
      BY <1>2, <1>3, <2>1, <3>1, <3>3
  <2>2. CASE n > head + 1
    BY <1>2, <1>3, <2>0, <2>2, NoPlanIsPlan DEF PlanInv, Unwritten
  <2>3. CASE n < head + 1
    <3>1. plans[n].source # 0 /\ plans[n].source = n - 1 /\ plans[n].kept = plans[n - 1].locked
      BY <1>2, <1>3, <2>0, <2>3 DEF PlanInv, NothingOverwritten
    <3>2. plans[n].source \in Nat
      BY <1>2 DEF Plan
    <3>3. n - 1 \in Versions /\ n - 1 # head + 1
      BY <1>2, <2>0, <2>3, <3>1, <3>2 DEF Versions
    <3> QED
      BY <1>2, <1>3, <2>0, <2>3, <3>1, <3>3
  <2> QED
    BY <1>2, <2>0, <2>1, <2>2, <2>3
<1>9. FreshAsComputed'
  BY <1>1, <1>3 DEF PlanInv, FreshAsComputed
<1>10. RoundToDecide'
  <2>1. rounds \in Nat /\ Decided \in SUBSET Versions /\ Cardinality(Decided) \in Nat
    BY VersionSets DEF PlanInv, TypeOK, Decided
  <2>2. CASE plan.origin = "finalize"
    <3>1. Decided' = Decided \cup {head + 1}
      BY <1>2, <1>3, <2>2 DEF Decided
    <3>2. Cardinality(Decided') <= Cardinality(Decided) + 1 /\ Cardinality(Decided') \in Nat
      BY <1>2, <2>1, <3>1, OneMoreVersion, VersionSets
    <3> QED
      BY <1>1, <2>1, <2>2, <3>2 DEF PlanInv, RoundToDecide
  <2>3. CASE plan.origin # "finalize"
    <3>1. plans[head + 1].origin = "none"
      BY <1>2, NoPlanIsPlan DEF PlanInv, Unwritten
    <3>2. Decided' = Decided
      BY <1>2, <1>3, <2>3, <3>1 DEF Decided
    <3> QED
      BY <1>1, <2>3, <3>2 DEF PlanInv, RoundToDecide
  <2> QED
    BY <2>2, <2>3
<1> QED
  BY <1>5, <1>6, <1>7, <1>8, <1>9, <1>10 DEF PlanInv

(* What a computed write makes is a plan, with the reads of its request. *)
LEMMA BuiltIsPlan ==
    ASSUME PlanInv, NEW q \in Requests, reqs[q].op \in {"finalize", "regenerate", "edit"},
           NEW stops \in SUBSET Places, NEW locked \in SUBSET Places
    PROVE  LET plan == Built(q, stops, locked)
           IN  /\ plan \in Plan /\ plan.origin = reqs[q].op /\ plan.stops = stops
               /\ plan.locked = locked /\ plan.cv = reqs[q].cv /\ plan.source = reqs[q].source
               /\ plan.kept = reqs[q].kept
<1>1. reqs[q] \in Request
  BY DEF PlanInv, TypeOK
<1>2. /\ reqs[q].cv \in Nat /\ reqs[q].at \in [Places -> Nat] /\ reqs[q].source \in Nat
      /\ reqs[q].kept \in SUBSET Places
  BY <1>1 DEF Request
<1> QED
  BY <1>2 DEF Built, Plan

LEMMA WriteStep ==
    ASSUME PlanInv, NEW q \in Requests, Writes(q)
    PROVE  PlanInv'
<1>0. reqs[q] \in Request /\ reqs[q].kept \in SUBSET Places
  BY DEF PlanInv, TypeOK, Request
<1>1. CASE \E winner \in Places, others \in SUBSET Places : PublishFinalized(q, winner, others)
  <2> PICK winner \in Places, others \in SUBSET Places : PublishFinalized(q, winner, others)
    BY <1>1
  <2> DEFINE plan == Built(q, {winner} \cup others, {winner})
  <2>1. reqs[q].op = "finalize" /\ status = "matching" /\ status' = "ready" /\ Publish(q, plan)
    BY DEF PublishFinalized, Claimable
  <2>2. /\ plan \in Plan /\ plan.origin = "finalize" /\ plan.source = reqs[q].source
        /\ plan.stops = {winner} \cup others /\ plan.locked = {winner}
    BY <2>1, BuiltIsPlan
  <2>3. reqs[q].source = 0
    BY <2>1 DEF PlanInv, ReadsAreReal
  <2> HIDE DEF plan
  <2>4. plan.locked \subseteq plan.stops
    BY <2>2
  <2> QED
    BY <2>1, <2>2, <2>3, <2>4, PublishStep
<1>2. CASE \E fill \in SUBSET Places : PublishRegenerated(q, fill)
  <2> PICK fill \in SUBSET Places : PublishRegenerated(q, fill)
    BY <1>2
  <2> DEFINE plan == Built(q, reqs[q].kept \cup fill, reqs[q].kept)
  <2>1. /\ reqs[q].op = "regenerate" /\ UNCHANGED status /\ Publish(q, plan) /\ cv = reqs[q].cv
        /\ reqs[q].source = head /\ reqs[q].kept = plans[head].locked
    BY DEF PublishRegenerated, RoomAsRead, SourceUnchanged
  <2>2. /\ plan \in Plan /\ plan.origin = "regenerate" /\ plan.source = reqs[q].source
        /\ plan.stops = reqs[q].kept \cup fill /\ plan.locked = reqs[q].kept
        /\ plan.cv = reqs[q].cv /\ plan.kept = reqs[q].kept
    BY <1>0, <2>1, BuiltIsPlan
  <2> HIDE DEF plan
  <2>4. plan.locked \subseteq plan.stops
    BY <2>2
  <2> QED
    BY <2>1, <2>2, <2>4, PublishStep
<1>3. CASE \E stops \in SUBSET Places, locked \in SUBSET Places : PublishEdit(q, stops, locked)
  <2> PICK stops \in SUBSET Places, locked \in SUBSET Places : PublishEdit(q, stops, locked)
    BY <1>3
  <2> DEFINE plan == Built(q, stops, locked)
  <2>1. /\ reqs[q].op = "edit" /\ UNCHANGED status /\ Publish(q, plan) /\ cv = reqs[q].cv
        /\ reqs[q].source = head /\ reqs[q].kept = plans[head].locked /\ locked \subseteq stops
    BY DEF PublishEdit, RoomAsRead, SourceUnchanged
  <2>2. /\ plan \in Plan /\ plan.origin = "edit" /\ plan.source = reqs[q].source
        /\ plan.stops = stops /\ plan.locked = locked
        /\ plan.cv = reqs[q].cv /\ plan.kept = reqs[q].kept
    BY <2>1, BuiltIsPlan
  <2> HIDE DEF plan
  <2> QED
    BY <2>1, <2>2, PublishStep
<1>4. CASE \E p \in Places, locked \in {"no", "yes"} : SetStopLock(q, p, locked)
  <2> PICK p \in Places, locked \in {"no", "yes"} : SetStopLock(q, p, locked)
    BY <1>4
  <2> DEFINE new == IF locked = "yes" THEN plans[head].locked \cup {p} ELSE plans[head].locked \ {p}
  <2>1. /\ head \in 1 .. head /\ p \in plans[head].stops /\ Close(q)
        /\ plans' = [plans EXCEPT ![head].locked = new]
        /\ UNCHANGED <<status, cv, rounds, pos, head>>
    BY DEF SetStopLock, StopOf, PlanInv, ReadsAreReal
  <2>2. head \in Nat /\ head \in Versions /\ plans \in [Versions -> Plan] /\ plans[head] \in Plan
    BY <2>1 DEF PlanInv, TypeOK, Versions
  <2>3. new \subseteq plans[head].stops /\ new \in SUBSET Places
    BY <2>1, <2>2 DEF PlanInv, TypeOK, Plan
  <2> HIDE DEF new
  <2>4. /\ [plans[head] EXCEPT !.locked = new] \in Plan
        /\ plans' = [plans EXCEPT ![head] = [plans[head] EXCEPT !.locked = new]]
    BY <2>1, <2>2, <2>3 DEF Plan
  <2>5. plans' \in [Versions -> Plan]
        /\ \A n \in Versions : n # head => plans'[n] = plans[n]
    BY <2>2, <2>4
  <2>6. /\ plans'[head].locked = new /\ plans'[head].stops = plans[head].stops
        /\ plans'[head].origin = plans[head].origin /\ plans'[head].cv = plans[head].cv
        /\ plans'[head].stale = plans[head].stale /\ plans'[head].source = plans[head].source
        /\ plans'[head].kept = plans[head].kept
    BY <2>2, <2>4 DEF Plan
  <2>7. /\ reqs' \in [Requests -> Request]
        /\ \A r \in Requests : reqs'[r].op = "idle" \/ reqs'[r] = reqs[r]
    BY <2>1, Closing DEF PlanInv, TypeOK
  <2>8. ReadsAreReal' /\ Unwritten'
    BY <2>1, <2>2, <2>5, <2>7 DEF PlanInv, ReadsAreReal, Unwritten
  <2>9. TypeOK'
    BY <2>1, <2>2, <2>3, <2>5, <2>6, <2>7 DEF PlanInv, TypeOK
  <2>10. NothingOverwritten'
    <3> SUFFICES ASSUME NEW n \in Versions, plans'[n].source # 0
                 PROVE  plans'[n].source = n - 1 /\ plans'[n].kept = plans'[n - 1].locked
      BY DEF NothingOverwritten
    <3>0. n \in Nat /\ plans[n].source \in Nat
      BY <2>2 DEF Versions, Plan
    <3>1. plans'[n].source = plans[n].source /\ plans'[n].kept = plans[n].kept
      BY <2>5, <2>6
    <3>2. plans[n].source = n - 1 /\ plans[n].kept = plans[n - 1].locked
      BY <3>1 DEF PlanInv, NothingOverwritten
    <3>3. n <= head
      BY <2>2, <3>0, <3>1, NoPlanIsPlan DEF PlanInv, Unwritten
    <3>4. n - 1 \in Versions /\ n - 1 # head
      BY <2>2, <3>0, <3>1, <3>2, <3>3 DEF Versions
    <3> QED
      BY <2>5, <3>1, <3>2, <3>4
  <2>11. FreshAsComputed'
    BY <2>1, <2>5, <2>6 DEF PlanInv, FreshAsComputed
  <2>12. RoundToDecide'
    <3>1. Decided' = Decided
      BY <2>5, <2>6 DEF Decided
    <3> QED
      BY <2>1, <3>1 DEF PlanInv, RoundToDecide
  <2> QED
    BY <2>8, <2>9, <2>10, <2>11, <2>12 DEF PlanInv
<1> QED
  BY <1>1, <1>2, <1>3, <1>4 DEF Writes
-----------------------------------------------------------------------------
(* The room moves on. *)
LEMMA TransitionStep ==
    ASSUME PlanInv, NEW to \in Statuses, Transition(to)
    PROVE  PlanInv'
<1>1. /\ status' = to /\ UNCHANGED <<cv, pos, head, plans, reqs>>
      /\ rounds' = IF to = "matching" /\ status # "matching" THEN rounds + 1 ELSE rounds
  BY DEF Transition
<1>2. rounds \in Nat /\ rounds' \in Nat /\ rounds <= rounds'
  BY <1>1 DEF PlanInv, TypeOK
<1>3. TypeOK'
  BY <1>1, <1>2 DEF PlanInv, TypeOK
<1>4. Unwritten' /\ ReadsAreReal'
  BY <1>1 DEF PlanInv, Unwritten, ReadsAreReal
<1>5. NothingOverwritten' /\ FreshAsComputed'
  BY <1>1 DEF PlanInv, NothingOverwritten, FreshAsComputed
<1>6. RoundToDecide'
  <2>1. Decided' = Decided /\ Cardinality(Decided) \in Nat
    BY <1>1, VersionSets DEF Decided
  <2> QED
    BY <1>1, <1>2, <2>1 DEF PlanInv, RoundToDecide
<1> QED
  BY <1>3, <1>4, <1>5, <1>6 DEF PlanInv

(* Marking versions stale changes nothing else of them. *)
LEMMA MarkingStale ==
    ASSUME PlanInv, NEW S \in SUBSET Versions,
           \A n \in S : n <= head,
           cv' \in Nat, pos' \in [Places -> Nat],
           cv' # cv => S = {n \in Versions : n <= head},
           plans' = [n \in Versions |-> IF n \in S THEN [plans[n] EXCEPT !.stale = "yes"]
                                                    ELSE plans[n]],
           UNCHANGED <<status, rounds, head, reqs>>
    PROVE  PlanInv'
<1>1. plans \in [Versions -> Plan] /\ head \in Nat
  BY DEF PlanInv, TypeOK
<1>2. \A n \in Versions : [plans[n] EXCEPT !.stale = "yes"] \in Plan
  BY <1>1 DEF Plan
<1>3. plans' \in [Versions -> Plan]
  BY <1>1, <1>2
<1>4. \A n \in Versions :
        /\ plans'[n].origin = plans[n].origin /\ plans'[n].cv = plans[n].cv
        /\ plans'[n].stops = plans[n].stops /\ plans'[n].locked = plans[n].locked
        /\ plans'[n].source = plans[n].source /\ plans'[n].kept = plans[n].kept
  BY <1>1 DEF Plan
<1>5. /\ \A n \in Versions \ S : plans'[n] = plans[n]
      /\ \A n \in S : plans'[n].stale = "yes"
  BY <1>1 DEF Plan
<1>6. TypeOK'
  BY <1>3, <1>4 DEF PlanInv, TypeOK
<1>7. Unwritten'
  <2> SUFFICES ASSUME NEW n \in Versions, n > head
               PROVE  plans'[n] = NoPlan
    BY DEF Unwritten
  <2>1. n \in Nat
    BY DEF Versions
  <2>2. n \notin S
    BY <1>1, <2>1
  <2> QED
    BY <1>5, <2>2 DEF PlanInv, Unwritten
<1>8. ReadsAreReal'
  BY DEF PlanInv, ReadsAreReal
<1>9. NothingOverwritten'
  <2> SUFFICES ASSUME NEW n \in Versions, plans'[n].source # 0
               PROVE  plans'[n].source = n - 1 /\ plans'[n].kept = plans'[n - 1].locked
    BY DEF NothingOverwritten
  <2>1. n \in 1 .. MaxPlans /\ plans[n].source \in Nat
    BY <1>1 DEF Versions, Plan
  <2>2. plans[n].source # 0 /\ plans[n].source = n - 1 /\ plans[n].kept = plans[n - 1].locked
    BY <1>4 DEF PlanInv, NothingOverwritten
  <2>3. n - 1 \in Versions
    BY <2>1, <2>2 DEF Versions
  <2> QED
    BY <1>4, <2>2, <2>3
<1>10. FreshAsComputed'
  <2> SUFFICES ASSUME NEW n \in Versions, plans'[n].origin \in {"edit", "regenerate"},
                      plans'[n].stale = "no"
               PROVE  plans'[n].cv = cv'
    BY DEF FreshAsComputed
  <2>1. n \notin S /\ plans'[n] = plans[n]
    BY <1>5
  <2>2. n <= head
    <3>1. n \in Nat
      BY DEF Versions
    <3> QED
      BY <1>1, <2>1, <3>1, NoPlanIsPlan DEF PlanInv, Unwritten
  <2>3. cv' = cv
    BY <2>1, <2>2
  <2> QED
    BY <2>1, <2>3 DEF PlanInv, FreshAsComputed
<1>11. RoundToDecide'
  <2>1. Decided' = Decided
    BY <1>4 DEF Decided
  <2> QED
    BY <2>1 DEF PlanInv, RoundToDecide
<1> QED
  BY <1>6, <1>7, <1>8, <1>9, <1>10, <1>11 DEF PlanInv

LEMMA EditConstraintsStep ==
    ASSUME PlanInv, EditConstraints
    PROVE  PlanInv'
<1> DEFINE S == {n \in Versions : n <= head}
<1>1. /\ cv' = cv + 1 /\ UNCHANGED <<status, rounds, pos, head, reqs>>
      /\ plans' = [n \in Versions |-> IF n \in S THEN [plans[n] EXCEPT !.stale = "yes"]
                                                 ELSE plans[n]]
  BY DEF EditConstraints
<1>2. cv' \in Nat /\ pos' \in [Places -> Nat]
  BY <1>1 DEF PlanInv, TypeOK
<1>3. S \in SUBSET Versions /\ \A n \in S : n <= head
  OBVIOUS
<1>4. S = {n \in Versions : n <= head}
  OBVIOUS
<1> HIDE DEF S
<1> QED
  BY <1>1, <1>2, <1>3, <1>4, MarkingStale

LEMMA RelocateStep ==
    ASSUME PlanInv, NEW p \in Places, Relocate(p)
    PROVE  PlanInv'
<1> DEFINE S == {n \in Versions : n = head /\ p \in plans[n].stops}
<1>1. /\ pos' = [pos EXCEPT ![p] = @ + 1] /\ UNCHANGED <<status, cv, rounds, head, reqs>>
      /\ plans' = [n \in Versions |-> IF n \in S THEN [plans[n] EXCEPT !.stale = "yes"]
                                                 ELSE plans[n]]
  BY DEF Relocate
<1>2. cv' \in Nat /\ pos' \in [Places -> Nat] /\ cv' = cv
  BY <1>1 DEF PlanInv, TypeOK
<1>3. S \in SUBSET Versions /\ \A n \in S : n <= head
  BY DEF PlanInv, TypeOK
<1> HIDE DEF S
<1> QED
  BY <1>1, <1>2, <1>3, MarkingStale

LEMMA StepInv ==
    PlanInv /\ [Next]_vars => PlanInv'
<1> SUFFICES ASSUME PlanInv, [Next]_vars PROVE PlanInv'
  OBVIOUS
<1>1. CASE \E q \in Requests : Reads(q) \/ Writes(q)
  BY <1>1, ReadStep, WriteStep
<1>2. CASE \E to \in Statuses : Transition(to)
  BY <1>2, TransitionStep
<1>3. CASE EditConstraints
  BY <1>3, EditConstraintsStep
<1>4. CASE \E p \in Places : Relocate(p)
  BY <1>4, RelocateStep
<1>5. CASE UNCHANGED vars
  <2>1. reqs' \in [Requests -> Request] /\ ReadsAreReal'
    BY <1>5 DEF vars, PlanInv, TypeOK, ReadsAreReal
  <2> QED
    BY <1>5, <2>1, ReadsOnly DEF vars
<1> QED
  BY <1>1, <1>2, <1>3, <1>4, <1>5 DEF Next
-----------------------------------------------------------------------------
(* The invariant that carries the others: writes in flight have read a real  *)
(* version, versions not written yet are empty, and a room in matching still *)
(* has its decision to take.                                                 *)
THEOREM PlanInvariant == Spec => []PlanInv
  BY InitInv, StepInv, PTL DEF Spec

(* Plans, stops and requests stay well typed, and only stops of a plan are   *)
(* locked (setStopLock, editStops, regenerate).                              *)
THEOREM TypeCorrect == Spec => []TypeOK
<1>1. PlanInv => TypeOK
  BY DEF PlanInv
<1> QED
  BY <1>1, PlanInvariant, PTL

(* An edit or a regenerate is built on the last version as it was when it was *)
(* superseded, whatever locks were set while it was computing (checkSource).  *)
THEOREM NoLostLock == Spec => []NothingOverwritten
<1>1. PlanInv => NothingOverwritten
  BY DEF PlanInv
<1> QED
  BY <1>1, PlanInvariant, PTL

(* A room is decided at most once per time it enters matching, for any        *)
(* number of finalizes in flight (the claim of createPlanVersionOnce).        *)
THEOREM SingleDecision == Spec => []OneDecision
<1>1. PlanInv => OneDecision
  BY DEF PlanInv, RoundToDecide, OneDecision, Decided
<1> QED
  BY <1>1, PlanInvariant, PTL

(* What an edit or a regenerate published is fresh only for the constraints  *)
(* it was computed from (lockRoomFor, applyConstraintVersion).               *)
THEOREM FreshOnlyAsComputed == Spec => []FreshAsComputed
<1>1. PlanInv => FreshAsComputed
  BY DEF PlanInv
<1> QED
  BY <1>1, PlanInvariant, PTL

(* No version is published once the date has started, however long ago the   *)
(* write began (lockRoomFor and the claim, on the locked room row).          *)
THEOREM FrozenPlan == Spec => FrozenOnceStarted
<1>1. [Next]_vars => [(status \in Started) => head' = head]_vars
  <2> SUFFICES ASSUME Next, status \in Started PROVE head' = head
    OBVIOUS
  <2>1. ASSUME NEW q \in Requests, Reads(q) PROVE head' = head
    BY <2>1 DEF Reads, RequestFinalize, RequestRegenerate, RequestEdit, RequestLock, Compute,
                Abandon, Ask
  <2>2. ASSUME NEW q \in Requests, Writes(q) PROVE head' = head
    BY <2>2 DEF Writes, PublishFinalized, PublishRegenerated, PublishEdit, SetStopLock,
                Claimable, RoomAsRead, Started, EditForbidden
  <2>3. ASSUME NEW to \in Statuses, Transition(to) PROVE head' = head
    BY <2>3 DEF Transition
  <2>4. ASSUME EditConstraints PROVE head' = head
    BY <2>4 DEF EditConstraints
  <2>5. ASSUME NEW p \in Places, Relocate(p) PROVE head' = head
    BY <2>5 DEF Relocate
  <2> QED
    BY <2>1, <2>2, <2>3, <2>4, <2>5 DEF Next
<1> QED
  BY <1>1, PTL DEF Spec, FrozenOnceStarted
=============================================================================
