---------------------------- MODULE PlanVersions ----------------------------
(***************************************************************************)
(* The plan of one room and its versions.  A finalize, an edit or a        *)
(* regenerate reads the current plan and the room, computes for a while    *)
(* outside any transaction (a snapshot of the room, candidate places,      *)
(* travel times from a provider) and then publishes the next version in a  *)
(* transaction on the locked room row.  Meanwhile the host may lock stops, *)
(* change the room's constraints, move the room on or start other writes,  *)
(* and places may be relocated.  Models PlansRepository,                   *)
(* PlanBuilderService, the write half of PlansService,                     *)
(* RoomsRepository.applyConstraintVersion and invalidateTravelOnMove.      *)
(*                                                                         *)
(* A publishing transaction is one action: every writer of a plan holds    *)
(* the room row (FOR UPDATE, or the UPDATE of the claim) until it commits. *)
(***************************************************************************)
EXTENDS RoomState, FiniteSets

CONSTANTS
    Places,          \* places a stop may be at
    Requests,        \* writes in flight at the same time
    MaxPlans,        \* bound on the versions of the plan
    MaxConstraints,  \* bound on the versions of the room's constraints
    MaxRounds,       \* bound on the times the room enters matching
    MaxMoves         \* bound on the relocations of one place

ASSUME PlanBounds ==
    /\ MaxPlans \in Nat
    /\ MaxConstraints \in Nat \ {0}
    /\ MaxRounds \in Nat \ {0}
    /\ MaxMoves \in Nat

VARIABLES
    status,     \* rooms.status
    cv,         \* rooms.constraint_version
    rounds,     \* how often the room has entered matching
    pos,        \* places.geom, as the number of times the place was moved
    head,       \* the version of the current plan, 0 when there is none
    plans,      \* plans and plan_stops by version; all but head superseded
    reqs        \* the writes in flight

vars == <<status, cv, rounds, pos, head, plans, reqs>>

Versions == 1 .. MaxPlans

(* A plan.  source and kept are what its writer had read: the version it was *)
(* built from and the stops locked there (0 and {} for a finalize, which     *)
(* reads no plan).                                                           *)
Plan == [origin : {"none", "finalize", "regenerate", "edit"}, cv : Nat, stale : {"no", "yes"},
         stops : SUBSET Places, locked : SUBSET Places, at : [Places -> Nat],
         source : Nat, kept : SUBSET Places]
NoPlan == [origin |-> "none", cv |-> 0, stale |-> "no", stops |-> {}, locked |-> {},
           at |-> [p \in Places |-> 0], source |-> 0, kept |-> {}]

Ops == {"idle", "finalize", "regenerate", "edit", "lock"}
Request == [op : Ops, stage : {"asked", "computed"}, source : Nat, stops : SUBSET Places,
            kept : SUBSET Places, cv : Nat, at : [Places -> Nat]]
Blank == [op |-> "idle", stage |-> "asked", source |-> 0, stops |-> {}, kept |-> {},
          cv |-> 0, at |-> [p \in Places |-> 0]]

Close(q) == reqs' = [reqs EXCEPT ![q] = Blank]

(* A refusal, an error of the provider, or a crash before the commit. *)
Abandon(q) ==
    /\ reqs[q].op # "idle"
    /\ Close(q)
    /\ UNCHANGED <<status, cv, rounds, pos, head, plans>>

(* What a request reads of the plan it works on. *)
Reading(op) ==
    [Blank EXCEPT !.op = op, !.source = head, !.stops = plans[head].stops,
                  !.kept = plans[head].locked]

Ask(q, request) ==
    /\ reqs[q].op = "idle"
    /\ reqs' = [reqs EXCEPT ![q] = request]
    /\ UNCHANGED <<status, cv, rounds, pos, head, plans>>
-----------------------------------------------------------------------------
(* The room. *)

(* updateStatus; which quorum lets a room into matching is RoomMembership's. *)
Transition(to) ==
    /\ CanTransition(status, to)
    /\ to = "matching" /\ status # "matching" => rounds < MaxRounds
    /\ status' = to
    /\ rounds' = IF to = "matching" /\ status # "matching" THEN rounds + 1 ELSE rounds
    /\ UNCHANGED <<cv, pos, head, plans, reqs>>

(* applyConstraintVersion: a new version, and everything built so far is stale. *)
EditConstraints ==
    /\ status \in Planning
    /\ cv < MaxConstraints
    /\ cv' = cv + 1
    /\ plans' = [n \in Versions |-> IF n <= head THEN [plans[n] EXCEPT !.stale = "yes"]
                                                 ELSE plans[n]]
    /\ UNCHANGED <<status, rounds, pos, head, reqs>>

(* invalidateTravelOnMove: the current plan is stale when the place is in it. *)
Relocate(p) ==
    /\ pos[p] < MaxMoves
    /\ pos' = [pos EXCEPT ![p] = @ + 1]
    /\ plans' = [n \in Versions |-> IF n = head /\ p \in plans[n].stops
                                    THEN [plans[n] EXCEPT !.stale = "yes"] ELSE plans[n]]
    /\ UNCHANGED <<status, cv, rounds, head, reqs>>
-----------------------------------------------------------------------------
(* Reading, and computing outside any transaction. *)

Started == {"active", "completed"}
EditForbidden == {"active", "completed", "cancelled", "expired"}

(* finalize and the automatic decision of a match room, up to buildAroundWinner. *)
RequestFinalize(q) ==
    /\ status = "matching"
    /\ Ask(q, [Blank EXCEPT !.op = "finalize"])

RequestRegenerate(q) ==
    /\ head > 0
    /\ status \notin Started
    /\ Ask(q, Reading("regenerate"))

RequestEdit(q) ==
    /\ head > 0
    /\ status \notin EditForbidden
    /\ plans[head].stale = "no"
    /\ Ask(q, Reading("edit"))

(* lockStop before its transaction; any stop of the plan may be meant. *)
RequestLock(q) ==
    /\ head > 0
    /\ Ask(q, Reading("lock"))

(* buildSnapshot, retrieveCandidates and placeFacts.  An edit is refused when *)
(* the constraints are no longer those of the plan it reads.                  *)
Compute(q) ==
    /\ reqs[q].op \in {"finalize", "regenerate", "edit"}
    /\ reqs[q].stage = "asked"
    /\ reqs[q].op = "edit" => cv = plans[reqs[q].source].cv
    /\ reqs' = [reqs EXCEPT ![q].stage = "computed", ![q].cv = cv, ![q].at = pos]
    /\ UNCHANGED <<status, cv, rounds, pos, head, plans>>
-----------------------------------------------------------------------------
(* Publishing under the room lock. *)

(* A finalize that does not ask whether the room is still matching. *)
ClaimableAnyway == status \in {"matching", "ready"}

(* The claim's WHERE: only one finalize moves the room out of matching. *)
Claimable == status = "matching"

(* A guard that does not look at the constraints again, *)
ConstraintsUnchecked(q, forbidden) == status \notin forbidden

(* and one that does not look at the status again. *)
StatusUnchecked(q, forbidden) == cv = reqs[q].cv

(* lockRoomFor *)
RoomAsRead(q, forbidden) == status \notin forbidden /\ cv = reqs[q].cv

(* A guard that compares the version and not the flags of the stops. *)
FlagsUnchecked(q) == reqs[q].source = head

(* checkSource: the current plan is the one read, and so are its locks. *)
SourceUnchanged(q) ==
    /\ reqs[q].source = head
    /\ reqs[q].kept = plans[head].locked

(* createPlanVersion: supersede the current plan and insert the next. *)
Publish(q, plan) ==
    /\ reqs[q].stage = "computed"
    /\ head < MaxPlans
    /\ head' = head + 1
    /\ plans' = [plans EXCEPT ![head + 1] = plan]
    /\ Close(q)
    /\ UNCHANGED <<cv, rounds, pos>>

Built(q, stops, locked) ==
    [origin |-> reqs[q].op, cv |-> reqs[q].cv, stale |-> "no", stops |-> stops,
     locked |-> locked, at |-> reqs[q].at, source |-> reqs[q].source, kept |-> reqs[q].kept]

(* buildAroundWinner: the winner is locked, the optimizer adds stops. *)
PublishFinalized(q, winner, others) ==
    /\ reqs[q].op = "finalize"
    /\ Claimable
    /\ status' = "ready"
    /\ Publish(q, Built(q, {winner} \cup others, {winner}))

(* regenerate: locked stops stay, the others are replaced by new places. *)
PublishRegenerated(q, fill) ==
    /\ reqs[q].op = "regenerate"
    /\ fill \cap reqs[q].stops = {}
    /\ RoomAsRead(q, Started)
    /\ SourceUnchanged(q)
    /\ Publish(q, Built(q, reqs[q].kept \cup fill, reqs[q].kept))
    /\ UNCHANGED status

(* editStops: the host's list is the plan. *)
PublishEdit(q, stops, locked) ==
    /\ reqs[q].op = "edit"
    /\ stops # {} /\ locked \subseteq stops
    /\ RoomAsRead(q, EditForbidden)
    /\ SourceUnchanged(q)
    /\ plans[head].stale = "no"
    /\ Publish(q, Built(q, stops, locked))
    /\ UNCHANGED status

(* A lock that does not ask whose stop it is. *)
StopOfUnchecked(n, p) == TRUE

(* lockStop: the stop must be one of the plan's. *)
StopOf(n, p) == p \in plans[n].stops

(* lockStop and setStopLock: under the room lock the plan must be current. *)
SetStopLock(q, p, locked) ==
    LET n == reqs[q].source
    IN  /\ reqs[q].op = "lock"
        /\ StopOf(n, p)
        /\ n = head
        /\ plans' = [plans EXCEPT ![n].locked = IF locked = "yes" THEN @ \cup {p} ELSE @ \ {p}]
        /\ Close(q)
        /\ UNCHANGED <<status, cv, rounds, pos, head>>
-----------------------------------------------------------------------------
Init ==
    /\ status = "collecting"
    /\ cv = 1
    /\ rounds = 0
    /\ pos = [p \in Places |-> 0]
    /\ head = 0
    /\ plans = [n \in Versions |-> NoPlan]
    /\ reqs = [q \in Requests |-> Blank]

Reads(q) ==
    \/ RequestFinalize(q)
    \/ RequestRegenerate(q)
    \/ RequestEdit(q)
    \/ RequestLock(q)
    \/ Compute(q)
    \/ Abandon(q)

Writes(q) ==
    \/ \E winner \in Places, others \in SUBSET Places : PublishFinalized(q, winner, others)
    \/ \E fill \in SUBSET Places : PublishRegenerated(q, fill)
    \/ \E stops \in SUBSET Places, locked \in SUBSET Places : PublishEdit(q, stops, locked)
    \/ \E p \in Places, locked \in {"no", "yes"} : SetStopLock(q, p, locked)

Next ==
    \/ \E q \in Requests : Reads(q) \/ Writes(q)
    \/ \E to \in Statuses : Transition(to)
    \/ EditConstraints
    \/ \E p \in Places : Relocate(p)

Spec == Init /\ [][Next]_vars
-----------------------------------------------------------------------------
(* Every variable holds a value of its column's type, the current plan is one *)
(* that was written, and only stops are locked.                               *)
TypeOK ==
    /\ status \in Statuses
    /\ cv \in Nat
    /\ rounds \in Nat
    /\ pos \in [Places -> Nat]
    /\ head \in 0 .. MaxPlans
    /\ plans \in [Versions -> Plan]
    /\ reqs \in [Requests -> Request]
    /\ \A n \in Versions : plans[n].locked \subseteq plans[n].stops
    /\ \A n \in Versions : plans[n].origin = "none" <=> n > head

(* The next version is built from the last one as it was when it was          *)
(* superseded: no lock set while an edit or a regenerate was computing is      *)
(* lost, and none lands on a version already superseded (ADR-0029).            *)
NothingOverwritten ==
    \A n \in Versions : plans[n].source # 0 =>
        /\ plans[n].source = n - 1
        /\ plans[n].kept = plans[n - 1].locked

(* Each time the room enters matching it is decided at most once, however      *)
(* many finalizes and automatic matches race (createPlanVersion, GoGo-BE#629). *)
OneDecision == Cardinality({n \in Versions : plans[n].origin = "finalize"}) <= rounds

(* A plan an edit or a regenerate published counts as fresh only while the     *)
(* room's constraints are the ones it was computed from (PlanWriteGuard).      *)
FreshAsComputed ==
    \A n \in Versions :
        plans[n].origin \in {"edit", "regenerate"} /\ plans[n].stale = "no" => plans[n].cv = cv

(* The plan is locked once the date starts: no write that began before the     *)
(* start publishes a version after it (lockRoomFor, "Plan is locked once the   *)
(* date starts").                                                              *)
FrozenOnceStarted == [][(status \in Started) => head' = head]_vars
-----------------------------------------------------------------------------
(* The inductive invariant behind the theorems of PlanVersionsProofs. *)

Unwritten == \A n \in Versions : n > head => plans[n] = NoPlan

(* What a write in flight has read: a version that exists, and constraints   *)
(* the room had.                                                             *)
ReadsAreReal ==
    \A q \in Requests :
        /\ reqs[q].op \in {"regenerate", "edit", "lock"} => reqs[q].source \in 1 .. head
        /\ reqs[q].op = "finalize" => reqs[q].source = 0

Decided == {n \in Versions : plans[n].origin = "finalize"}

(* A room that is in matching has a round that is not decided yet. *)
RoundToDecide ==
    /\ Cardinality(Decided) <= rounds
    /\ status = "matching" => Cardinality(Decided) < rounds

PlanInv ==
    /\ TypeOK
    /\ Unwritten
    /\ ReadsAreReal
    /\ NothingOverwritten
    /\ FreshAsComputed
    /\ RoundToDecide
=============================================================================
