----------------------------- MODULE RoomState -----------------------------
(***************************************************************************)
(* The rules of a room that every service shares: the status machine       *)
(* (rooms/domain/room-state.ts), the statuses that still take members      *)
(* (rooms/domain/invite-join.ts), the statuses in which members may answer *)
(* (preferences.service.ts) and the matching quorum                        *)
(* (rooms/domain/matching-readiness.ts).  No state: operators only.        *)
(***************************************************************************)
EXTENDS Naturals

Statuses == {"draft", "collecting", "matching", "ready", "active",
             "completed", "cancelled", "expired"}

(* TRANSITIONS *)
Successors == [
    draft      |-> {"collecting", "cancelled"},
    collecting |-> {"matching", "collecting", "expired", "cancelled"},
    matching   |-> {"ready", "collecting", "matching", "cancelled"},
    ready      |-> {"active", "matching", "cancelled"},
    active     |-> {"completed", "active", "cancelled"},
    completed  |-> {},
    cancelled  |-> {},
    expired    |-> {}]

(* assertTransition *)
CanTransition(from, to) == to \in Successors[from]

(* A repeated start that is written again like any other transition. *)
NeverNoOp(from, to) == FALSE

(* isNoOpTransition: the self-loop that writes nothing. *)
IsNoOp(from, to) == from = to /\ to = "active"

(* JOINABLE_ROOM_STATUSES *)
Joinable == {"draft", "collecting"}

(* Where saveMine and completeMine still accept answers. *)
AnswersOpen == {"draft", "collecting", "matching"}

(* PLANNING_STATUSES: constraints may still change. *)
Planning == {"draft", "collecting", "matching", "ready"}

(* assertMatchingReady *)
MatchingReady(completed, pending, allowIncomplete) ==
    completed >= 2 /\ (pending = 0 \/ allowIncomplete)

=============================================================================
