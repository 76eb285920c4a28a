--------------------------- MODULE RoomMembership ---------------------------
(***************************************************************************)
(* One room from its creation to its end: who is in it, through which      *)
(* invite they came, what they have answered, and which status the room is *)
(* in.  Models RoomsService and RoomsRepository (transition, invites,      *)
(* joins, removal), AuthService.createGuestSession (the guest's join) and  *)
(* PreferencesService (save, complete and the automatic move to matching). *)
(*                                                                         *)
(* Every write in this code has two halves: a policy check on unlocked     *)
(* reads, and later a transaction that locks the room row and judges the   *)
(* request again.  Any number of other requests run in between.  A request *)
(* in flight is an element of Requests whose record keeps what the first   *)
(* half decided; the second half is one action, because the room lock (FOR *)
(* UPDATE, or FOR SHARE for joins, whose only shared row is the invite     *)
(* they update) keeps every conflicting transaction out of it.             *)
(***************************************************************************)
EXTENDS RoomState, FiniteSets

CONSTANTS
    Rows,        \* membership rows the room may come to have
    HostRow,     \* the row createRoom writes
    Users,       \* accounts that may join; the host is not one of them
    Host,        \* the account that created the room
    Guest,       \* stands for every guest session: each one is used once
    Invites,     \* invite codes the host may create
    NoInvite,    \* the guest route by room code spends no invite
    Requests,    \* requests in flight at the same time
    Choices,     \* the saves looked at: "yes" picks something, "no" nothing
    MaxUses,     \* bound on the use limit a host may put on an invite
    MaxVersion   \* bound on the saves of one member's answers

ASSUME RowsAreFinite == IsFiniteSet(Rows) /\ HostRow \in Rows
ASSUME PeopleAreDistinct == Host \notin Users /\ Guest \notin Users \cup {Host}
ASSUME NoInviteIsNone == NoInvite \notin Invites
ASSUME ChoicesAreKnown == Choices \subseteq {"no", "yes"}
ASSUME MembershipBounds == MaxUses \in Nat /\ MaxVersion \in Nat

VARIABLES
    status,      \* rooms.status
    lapsed,      \* "no", or "yes" once rooms.expires_at has passed
    entry,       \* how the room last entered matching, as its event recorded
    starts,      \* room.status_active events written to the outbox
    seat,        \* room_members: is the row there, and is removed_at null
    who,         \* the user or guest of a row
    via,         \* the invite that admitted the row
    sel,         \* room_members.selection_status
    ver,         \* preference_selections.version, 0 when there is no row
    chosen,      \* whether the saved selections pick anything at all
    code,        \* room_invites: none, live, or dead (revoked or expired)
    cap,         \* room_invites.max_uses, 0 for null
    used,        \* room_invites.use_count
    reqs         \* the requests in flight

room    == <<status, lapsed, entry, starts>>
members == <<seat, who, via>>
answers == <<sel, ver, chosen>>
invites == <<code, cap, used>>
vars    == <<room, members, answers, invites, reqs>>

Active == {r \in Rows : seat[r] = "active"}
Done == {r \in Active : sel[r] = "completed"}

(* A request: what it wants (op and its arguments), as the first half left it. *)
Ops == {"idle", "join", "guest", "transition", "invite", "save", "complete"}
Blank == [op |-> "idle", user |-> Guest, invite |-> NoInvite, row |-> HostRow,
          to |-> "draft", ack |-> "no", expected |-> 0]
Request == [op : Ops, user : Users \cup {Host, Guest}, invite : Invites \cup {NoInvite},
            row : Rows, to : Statuses, ack : {"no", "yes"}, expected : Nat]

Open(q, request) ==
    /\ reqs[q].op = "idle"
    /\ reqs' = [reqs EXCEPT ![q] = request]
    /\ UNCHANGED <<room, members, answers, invites>>

Close(q) == reqs' = [reqs EXCEPT ![q] = Blank]

(* A refusal, a lost connection or a crash before the commit: nothing of the *)
(* request remains.                                                          *)
Abandon(q) ==
    /\ reqs[q].op # "idle"
    /\ Close(q)
    /\ UNCHANGED <<room, members, answers, invites>>
-----------------------------------------------------------------------------
(* Invites and joins. *)

(* The last use goes to whoever passed the first check. *)
SpendableTrusting(i) == code[i] = "live"

(* consumeInvite's WHERE on the invite row, and inviteJoinRefusal's. *)
Spendable(i) == code[i] = "live" /\ (cap[i] = 0 \/ used[i] < cap[i])

(* A join that relies on the status it read before the lock. *)
AdmitsUnlocked == lapsed = "no"

(* inviteJoinRefusal and createGuestSession on the room row *)
Admits == status \in Joinable /\ lapsed = "no"

(* A join that relies on the membership check made before the transaction. *)
SeatsUnchecked(u) == {}

(* findActiveUserMember, and addUserMember's look for an existing row.  The   *)
(* partial unique index on (room, user) turns a second insert that the look   *)
(* missed into a refusal.                                                     *)
SeatsOf(u) == {r \in Active : who[r] = u}

(* createInvite: the status is checked, the row is written later, unlocked. *)
RequestInvite(q) ==
    /\ status \in Joinable
    /\ Open(q, [Blank EXCEPT !.op = "invite"])

CreateInvite(q, i, limit) ==
    /\ reqs[q].op = "invite"
    /\ code[i] = "none"
    /\ code' = [code EXCEPT ![i] = "live"]
    /\ cap' = [cap EXCEPT ![i] = limit]
    /\ used' = [used EXCEPT ![i] = 0]
    /\ Close(q)
    /\ UNCHANGED <<room, members, answers>>

(* revokeInvite, or the invite's own expiry *)
RevokeInvite(i) ==
    /\ code[i] = "live"
    /\ code' = [code EXCEPT ![i] = "dead"]
    /\ UNCHANGED <<room, members, answers, cap, used, reqs>>

(* joinAsUser up to its transaction: a member re-entering is answered here. *)
RequestJoin(q, u, i) ==
    /\ SeatsOf(u) = {}
    /\ Spendable(i)
    /\ Admits
    /\ Open(q, [Blank EXCEPT !.op = "join", !.user = u, !.invite = i])

(* openInvite (or no invite) and createGuestSession up to its transaction. *)
RequestGuestJoin(q, i) ==
    /\ i # NoInvite => Spendable(i)
    /\ Admits
    /\ Open(q, [Blank EXCEPT !.op = "guest", !.invite = i])

(* The insert into room_members. *)
TakeSeat(r, person, i) ==
    /\ seat[r] = "absent"
    /\ seat' = [seat EXCEPT ![r] = "active"]
    /\ who' = [who EXCEPT ![r] = person]
    /\ via' = [via EXCEPT ![r] = i]

Spend(i) == used' = [used EXCEPT ![i] = @ + 1]

(* joinAsUser's transaction: admitThroughInvite, then addUserMember. *)
Join(q, r) ==
    LET u == reqs[q].user
        i == reqs[q].invite
    IN  /\ reqs[q].op = "join"
        /\ Admits
        /\ Spendable(i)
        /\ Spend(i)
        /\ \/ SeatsOf(u) = {} /\ TakeSeat(r, u, i)
           \/ SeatsOf(u) # {} /\ UNCHANGED members
        /\ Close(q)
        /\ UNCHANGED <<room, answers, code, cap>>

(* createGuestSession's transaction *)
GuestJoin(q, r) ==
    LET i == reqs[q].invite
    IN  /\ reqs[q].op = "guest"
        /\ Admits
        /\ \/ i = NoInvite /\ UNCHANGED used
           \/ i # NoInvite /\ Spendable(i) /\ Spend(i)
        /\ TakeSeat(r, Guest, i)
        /\ Close(q)
        /\ UNCHANGED <<room, answers, code, cap>>

(* register with a guest token, claimGuestSession: the guest's row becomes the *)
(* row of the account just created, which cannot have asked for anything yet.  *)
ClaimGuest(r, u) ==
    /\ seat[r] # "absent"
    /\ who[r] = Guest
    /\ \A s \in Rows : who[s] # u
    /\ \A q \in Requests : reqs[q].user # u
    /\ who' = [who EXCEPT ![r] = u]
    /\ UNCHANGED <<room, seat, via, answers, invites, reqs>>

(* removeMember (and removeGuest of the CMS): no room lock, but it reads       *)
(* nothing of the room, so a removal that races a tally is one before or after *)
(* it.  The host keeps their seat.                                             *)
RemoveMember(r) ==
    /\ r # HostRow
    /\ seat[r] = "active"
    /\ seat' = [seat EXCEPT ![r] = "removed"]
    /\ UNCHANGED <<room, who, via, answers, invites, reqs>>
-----------------------------------------------------------------------------
(* Status. *)

(* transition, first half: the move must be legal from the status just read. *)
RequestTransition(q, to, ack) ==
    /\ CanTransition(status, to)
    /\ ack = "yes" => to = "matching"    \* the flag means nothing elsewhere
    /\ Open(q, [Blank EXCEPT !.op = "transition", !.to = to, !.ack = ack])

(* updateStatus, under the room lock *)
UpdateStatus(q) ==
    LET to  == reqs[q].to
        ack == reqs[q].ack
    IN  /\ reqs[q].op = "transition"
        /\ CanTransition(status, to)
        /\ \/ IsNoOp(status, to) /\ UNCHANGED room
           \/ /\ ~ IsNoOp(status, to)
              /\ to = "matching" =>
                     MatchingReady(Cardinality(Done), Cardinality(Active \ Done),
                                   ack = "yes" \/ status = "matching")
              /\ status' = to
              /\ entry' = IF to # "matching" \/ status = "matching" THEN entry
                          ELSE IF ack = "yes" THEN "acknowledged" ELSE "complete"
              /\ starts' = IF to = "active" THEN starts + 1 ELSE starts
              /\ UNCHANGED lapsed
        /\ Close(q)
        /\ UNCHANGED <<members, answers, invites>>

(* rooms.expires_at passes; nothing in the room's row changes. *)
Lapse ==
    /\ lapsed = "no"
    /\ lapsed' = "yes"
    /\ UNCHANGED <<status, entry, starts, members, answers, invites, reqs>>
-----------------------------------------------------------------------------
(* Answers. *)

(* requireMember: the caller's row, not removed. *)
Seated(r) == seat[r] = "active"

(* completeMine's NO_SELECTIONS check *)
Answered(r) == chosen[r] = "yes"

(* saveMine before its transaction *)
RequestSave(q, r, expected) ==
    /\ Seated(r)
    /\ status \in AnswersOpen
    /\ Open(q, [Blank EXCEPT !.op = "save", !.row = r, !.expected = expected])

(* saveMine's transaction: optimistic on the version, and back to a draft.   *)
(* The selections saved may be empty.                                        *)
Save(q, choice) ==
    LET r == reqs[q].row
    IN  /\ reqs[q].op = "save"
        /\ status \in AnswersOpen
        /\ reqs[q].expected = ver[r]
        /\ ver[r] < MaxVersion
        /\ ver' = [ver EXCEPT ![r] = @ + 1]
        /\ chosen' = [chosen EXCEPT ![r] = choice]
        /\ sel' = [sel EXCEPT ![r] = "in_progress"]
        /\ Close(q)
        /\ UNCHANGED <<room, members, invites>>

(* completeMine before its transaction: there must be answers to complete. *)
RequestComplete(q, r) ==
    /\ Seated(r)
    /\ status \in AnswersOpen
    /\ Answered(r)
    /\ Open(q, [Blank EXCEPT !.op = "complete", !.row = r])

(* completeMine's transaction: the member is done, and with the last of them *)
(* the room moves to matching.  The row may have been removed meanwhile.     *)
Complete(q) ==
    LET r == reqs[q].row
    IN  /\ reqs[q].op = "complete"
        /\ status \in AnswersOpen
        /\ sel' = [sel EXCEPT ![r] = "completed"]
        /\ \/ /\ Active \subseteq Done \cup {r}
              /\ Cardinality(Active) >= 2
              /\ status \in Joinable
              /\ status' = "matching"
              /\ entry' = "complete"
           \/ /\ \/ ~ (Active \subseteq Done \cup {r})
                 \/ Cardinality(Active) < 2
                 \/ status \notin Joinable
              /\ UNCHANGED <<status, entry>>
        /\ Close(q)
        /\ UNCHANGED <<lapsed, starts, members, ver, chosen, invites>>
-----------------------------------------------------------------------------
(* createRoom opens a room in collecting; rooms of an older release may still *)
(* be in draft.                                                               *)
Init ==
    /\ status \in {"draft", "collecting"}
    /\ lapsed = "no"
    /\ entry = "none"
    /\ starts = 0
    /\ seat = [r \in Rows |-> IF r = HostRow THEN "active" ELSE "absent"]
    /\ who = [r \in Rows |-> IF r = HostRow THEN Host ELSE Guest]
    /\ via = [r \in Rows |-> NoInvite]
    /\ sel = [r \in Rows |-> "pending"]
    /\ ver = [r \in Rows |-> 0]
    /\ chosen = [r \in Rows |-> "no"]
    /\ code = [i \in Invites |-> "none"]
    /\ cap = [i \in Invites |-> 0]
    /\ used = [i \in Invites |-> 0]
    /\ reqs = [q \in Requests |-> Blank]

FirstHalf(q) ==
    \/ RequestInvite(q)
    \/ \E u \in Users, i \in Invites : RequestJoin(q, u, i)
    \/ \E i \in Invites \cup {NoInvite} : RequestGuestJoin(q, i)
    \/ \E to \in Statuses, ack \in {"no", "yes"} : RequestTransition(q, to, ack)
    \/ \E r \in Rows : RequestComplete(q, r)
    \/ \E r \in Rows : \E expected \in 0 .. ver[r] : RequestSave(q, r, expected)

SecondHalf(q) ==
    \/ \E i \in Invites, limit \in 0 .. MaxUses : CreateInvite(q, i, limit)
    \/ \E r \in Rows : Join(q, r)
    \/ \E r \in Rows : GuestJoin(q, r)
    \/ UpdateStatus(q)
    \/ \E choice \in Choices : Save(q, choice)
    \/ Complete(q)
    \/ Abandon(q)

Next ==
    \/ \E q \in Requests : FirstHalf(q) \/ SecondHalf(q)
    \/ \E i \in Invites : RevokeInvite(i)
    \/ \E r \in Rows, u \in Users : ClaimGuest(r, u)
    \/ \E r \in Rows : RemoveMember(r)
    \/ Lapse

Spec == Init /\ [][Next]_vars
-----------------------------------------------------------------------------
RoomTypeOK ==
    /\ status \in Statuses
    /\ lapsed \in {"no", "yes"}
    /\ entry \in {"none", "complete", "acknowledged"}
    /\ starts \in Nat

MembersTypeOK ==
    /\ seat \in [Rows -> {"absent", "active", "removed"}]
    /\ who \in [Rows -> Users \cup {Host, Guest}]
    /\ via \in [Rows -> Invites \cup {NoInvite}]
    /\ sel \in [Rows -> {"pending", "in_progress", "completed"}]
    /\ ver \in [Rows -> Nat]
    /\ chosen \in [Rows -> {"no", "yes"}]

InvitesTypeOK ==
    /\ code \in [Invites -> {"none", "live", "dead"}]
    /\ cap \in [Invites -> Nat]
    /\ used \in [Invites -> Nat]

(* Answers belong to a membership row that exists. *)
AnswersHaveRows == \A r \in Rows : seat[r] = "absent" => sel[r] = "pending" /\ ver[r] = 0

(* A selection was saved before it can be read. *)
ChoiceIsSaved == \A r \in Rows : chosen[r] = "yes" => ver[r] > 0

(* Every variable holds a value of its column's type, and answers refer to a *)
(* row of room_members.                                                      *)
TypeOK ==
    /\ RoomTypeOK
    /\ MembersTypeOK
    /\ AnswersHaveRows
    /\ ChoiceIsSaved
    /\ InvitesTypeOK
    /\ reqs \in [Requests -> Request]

(* Rows that came in through an invite, whether or not they are still there. *)
Admitted(i) == {r \in Rows : via[r] = i}

(* An invite limited to n uses never lets more than n people in, however many *)
(* joins race for the last use (consumeInvite, "two joins racing for the last *)
(* use cannot both spend it").                                                *)
QuotaHolds == \A i \in Invites : cap[i] > 0 => Cardinality(Admitted(i)) <= cap[i]

(* Once matching has begun, every member still in the room has answered,     *)
(* unless the host acknowledged going on without them: nobody slips in       *)
(* between the tally and the move (GoGo-BE#605, ADR-0024).                   *)
AnsweredOrAcknowledged ==
    status \in {"matching", "ready", "active", "completed"} /\ entry = "complete" =>
        \A r \in Active : ver[r] > 0

(* Of any number of starts racing from ready exactly one writes              *)
(* room.status_active and pushes to the members (updateStatus, #600).        *)
OneStart == starts <= 1

(* The quorum of matching is two people: two completed rows that are not two *)
(* memberships of one account (addUserMember, assertMatchingReady).          *)
TwoPeople ==
    \E r, s \in Done : r # s /\ (who[r] = who[s] => who[r] = Guest)
QuorumIsTwoPeople ==
    [][status # "matching" /\ status' = "matching" => TwoPeople']_vars
-----------------------------------------------------------------------------
(* The inductive invariant behind the theorems of RoomMembershipProofs. *)

(* A use is counted before its seat is taken, and never beyond the limit. *)
UsesCover ==
    \A i \in Invites :
        /\ Cardinality(Admitted(i)) <= used[i]
        /\ cap[i] > 0 => used[i] <= cap[i]
        /\ code[i] = "none" => Admitted(i) = {}

(* A request that passed its first half names a real invite and account, and *)
(* answers that still exist.                                                 *)
RequestsAreReal ==
    \A q \in Requests :
        /\ reqs[q].op = "join" => reqs[q].invite \in Invites /\ reqs[q].user \in Users
        /\ reqs[q].op = "complete" => ver[reqs[q].row] > 0
        /\ reqs[q].op \in {"save", "complete"} => seat[reqs[q].row] # "absent"

CompletedIsAnswered == \A r \in Rows : sel[r] = "completed" => ver[r] > 0

OneSeatEach ==
    \A r, s \in Rows :
        seat[r] = "active" /\ seat[s] = "active" /\ who[r] = who[s] /\ who[r] # Guest => r = s

StartsFollowStatus ==
    starts = 0 \/ (starts = 1 /\ status \in {"active", "completed", "cancelled"})

MemberInv ==
    /\ TypeOK
    /\ UsesCover
    /\ RequestsAreReal
    /\ CompletedIsAnswered
    /\ OneSeatEach
    /\ StartsFollowStatus
    /\ AnsweredOrAcknowledged
=============================================================================
