------------------------ MODULE RoomMembershipProofs ------------------------
(***************************************************************************)
(* Theorems about RoomMembership for any rows, accounts, invites and       *)
(* number of concurrent requests.                                          *)
(***************************************************************************)
EXTENDS RoomMembership, FiniteSetTheorems, TLAPS

USE RowsAreFinite, PeopleAreDistinct, NoInviteIsNone, MembershipBounds

(* A set of rows is finite, and fewer rows are not more. *)
LEMMA RowSets ==
    ASSUME NEW S \in SUBSET Rows
    PROVE  IsFiniteSet(S) /\ Cardinality(S) \in Nat
  BY FS_Subset, FS_CardinalityType

LEMMA FewerRows ==
    ASSUME NEW S \in SUBSET Rows, NEW T \in SUBSET S
    PROVE  Cardinality(T) <= Cardinality(S)
  BY RowSets, FS_Subset

LEMMA OneMoreRow ==
    ASSUME NEW S \in SUBSET Rows, NEW r \in Rows
    PROVE  Cardinality(S \cup {r}) <= Cardinality(S) + 1
<1>1. IsFiniteSet(S) /\ Cardinality(S) \in Nat
  BY RowSets
<1>2. Cardinality(S \cup {r}) = IF r \in S THEN Cardinality(S) ELSE Cardinality(S) + 1
  BY <1>1, FS_AddElement
<1> QED
  BY <1>1, <1>2

LEMMA NoRows ==
    ASSUME NEW S \in SUBSET Rows, Cardinality(S) = 0
    PROVE  S = {}
  BY RowSets, FS_EmptySet

(* Two different rows are in any set counted as two. *)
LEMMA TwoRows ==
    ASSUME NEW S \in SUBSET Rows, Cardinality(S) >= 2
    PROVE  \E r, s \in S : r # s
<1> SUFFICES ASSUME \A r, s \in S : r = s PROVE FALSE
  OBVIOUS
<1>1. S # {}
  BY FS_EmptySet
<1>2. PICK r \in S : TRUE
  BY <1>1
<1>3. S = {r}
  BY <1>2
<1>4. Cardinality({r}) = 1
  BY FS_Singleton
<1> QED
  BY <1>3, <1>4

LEMMA BlankIsRequest == Blank \in Request
  BY DEF Blank, Request, Ops, Statuses

(* Ending a request leaves only requests that were there already. *)
LEMMA Closing ==
    ASSUME reqs \in [Requests -> Request], NEW q \in Requests, Close(q)
    PROVE  /\ reqs' \in [Requests -> Request]
           /\ \A p \in Requests : reqs'[p].op = "idle" \/ reqs'[p] = reqs[p]
<1>1. Blank.op = "idle"
  BY DEF Blank
<1> QED
  BY <1>1, BlankIsRequest DEF Close
-----------------------------------------------------------------------------
LEMMA InitInv == Init => MemberInv
<1> SUFFICES ASSUME Init PROVE MemberInv
  OBVIOUS
<1>1. TypeOK
  <2>1. RoomTypeOK
    BY DEF Init, RoomTypeOK, Statuses
  <2>2. MembersTypeOK
    BY DEF Init, MembersTypeOK
  <2>3. InvitesTypeOK
    BY DEF Init, InvitesTypeOK
  <2>4. reqs \in [Requests -> Request]
    BY BlankIsRequest DEF Init
  <2>5. AnswersHaveRows /\ ChoiceIsSaved
    BY DEF Init, AnswersHaveRows, ChoiceIsSaved
  <2> QED
    BY <2>1, <2>2, <2>3, <2>4, <2>5 DEF TypeOK
<1>2. UsesCover
  <2> SUFFICES ASSUME NEW i \in Invites
               PROVE  /\ Cardinality(Admitted(i)) <= used[i]
                      /\ cap[i] > 0 => used[i] <= cap[i]
                      /\ code[i] = "none" => Admitted(i) = {}
    BY DEF UsesCover
  <2>1. Admitted(i) = {}
    BY DEF Init, Admitted
  <2>2. Cardinality(Admitted(i)) = 0
    BY <2>1, FS_EmptySet
  <2> QED
    BY <2>1, <2>2 DEF Init
<1>3. RequestsAreReal
  BY DEF Init, RequestsAreReal, Blank
<1>4. CompletedIsAnswered /\ OneSeatEach /\ StartsFollowStatus /\ AnsweredOrAcknowledged
  BY DEF Init, CompletedIsAnswered, OneSeatEach, StartsFollowStatus, AnsweredOrAcknowledged
<1> QED
  BY <1>1, <1>2, <1>3, <1>4 DEF MemberInv

(* Opening a request that names real things keeps the invariant. *)
LEMMA OpenStep ==
    ASSUME MemberInv, NEW q \in Requests, NEW request \in Request, Open(q, request),
           request.op = "join" => request.invite \in Invites /\ request.user \in Users,
           request.op = "complete" => ver[request.row] > 0,
           request.op \in {"save", "complete"} => seat[request.row] # "absent"
    PROVE  MemberInv'
<1>1. reqs' = [reqs EXCEPT ![q] = request] /\ reqs' \in [Requests -> Request]
  BY DEF Open, MemberInv, TypeOK
<1>2. UNCHANGED <<status, lapsed, entry, starts, seat, who, via, sel, ver,
                  chosen, code, cap, used>>
  BY DEF Open, room, members, answers, invites
<1>3. TypeOK'
  BY <1>1, <1>2 DEF MemberInv, TypeOK, RoomTypeOK, MembersTypeOK, InvitesTypeOK,
                      AnswersHaveRows, ChoiceIsSaved
<1>4. RequestsAreReal'
  BY <1>1, <1>2 DEF MemberInv, TypeOK, RequestsAreReal
<1>5. UsesCover'
  BY <1>2 DEF MemberInv, UsesCover, Admitted
<1>6. CompletedIsAnswered' /\ OneSeatEach' /\ StartsFollowStatus' /\ AnsweredOrAcknowledged'
  BY <1>2 DEF MemberInv, CompletedIsAnswered, OneSeatEach, StartsFollowStatus,
              AnsweredOrAcknowledged, Active
<1> QED
  BY <1>3, <1>4, <1>5, <1>6 DEF MemberInv

LEMMA FirstHalfStep ==
    ASSUME MemberInv, NEW q \in Requests, FirstHalf(q)
    PROVE  MemberInv'
<1> USE DEF Blank, Request, Ops, Statuses
<1>0. TypeOK
  BY DEF MemberInv
<1>1. CASE RequestInvite(q)
  <2> DEFINE request == [Blank EXCEPT !.op = "invite"]
  <2>1. request \in Request /\ request.op = "invite"
    OBVIOUS
  <2> QED
    BY <1>1, <2>1, OpenStep DEF RequestInvite
<1>2. CASE \E u \in Users, i \in Invites : RequestJoin(q, u, i)
  <2> PICK u \in Users, i \in Invites : RequestJoin(q, u, i)
    BY <1>2
  <2> DEFINE request == [Blank EXCEPT !.op = "join", !.user = u, !.invite = i]
  <2>1. request \in Request /\ request.op = "join" /\ request.user = u /\ request.invite = i
    OBVIOUS
  <2> QED
    BY <2>1, OpenStep DEF RequestJoin
<1>3. CASE \E i \in Invites \cup {NoInvite} : RequestGuestJoin(q, i)
  <2> PICK i \in Invites \cup {NoInvite} : RequestGuestJoin(q, i)
    BY <1>3
  <2> DEFINE request == [Blank EXCEPT !.op = "guest", !.invite = i]
  <2>1. request \in Request /\ request.op = "guest"
    OBVIOUS
  <2> QED
    BY <2>1, OpenStep DEF RequestGuestJoin
<1>4. CASE \E to \in Statuses, ack \in {"no", "yes"} : RequestTransition(q, to, ack)
  <2> PICK to \in Statuses, ack \in {"no", "yes"} : RequestTransition(q, to, ack)
    BY <1>4
  <2> DEFINE request == [Blank EXCEPT !.op = "transition", !.to = to, !.ack = ack]
  <2>1. request \in Request /\ request.op = "transition"
    OBVIOUS
  <2> QED
    BY <2>1, OpenStep DEF RequestTransition
<1>5. CASE \E r \in Rows : RequestComplete(q, r)
  <2> PICK r \in Rows : RequestComplete(q, r)
    BY <1>5
  <2> DEFINE request == [Blank EXCEPT !.op = "complete", !.row = r]
  <2>1. request \in Request /\ request.op = "complete" /\ request.row = r
    OBVIOUS
  <2>2. ver[r] > 0 /\ seat[r] # "absent"
    BY <1>0 DEF RequestComplete, Seated, Answered, TypeOK, ChoiceIsSaved
  <2> QED
    BY <2>1, <2>2, OpenStep DEF RequestComplete
<1>6. CASE \E r \in Rows : \E expected \in 0 .. ver[r] : RequestSave(q, r, expected)
  <2>a. PICK r \in Rows : \E expected \in 0 .. ver[r] : RequestSave(q, r, expected)
    BY <1>6
  <2>b. PICK expected \in 0 .. ver[r] : RequestSave(q, r, expected)
    BY <2>a
  <2> DEFINE request == [Blank EXCEPT !.op = "save", !.row = r, !.expected = expected]
  <2>c. expected \in Nat
    BY <1>0, <2>b DEF TypeOK, MembersTypeOK
  <2>1. request \in Request /\ request.op = "save" /\ request.row = r
    BY <2>c
  <2>2. seat[r] # "absent"
    BY <2>b DEF RequestSave, Seated
  <2> QED
    BY <2>b, <2>1, <2>2, OpenStep DEF RequestSave
<1> QED
  BY <1>1, <1>2, <1>3, <1>4, <1>5, <1>6 DEF FirstHalf
-----------------------------------------------------------------------------
(* What stays true of the requests when one ends and rows only gain. *)
LEMMA RequestsStayReal ==
    ASSUME MemberInv, NEW q \in Requests, Close(q),
           \A r \in Rows : ver[r] > 0 => ver'[r] > 0,
           \A r \in Rows : seat[r] # "absent" => seat'[r] # "absent"
    PROVE  RequestsAreReal' /\ reqs' \in [Requests -> Request]
<1>1. /\ reqs' \in [Requests -> Request]
      /\ \A p \in Requests : reqs'[p].op = "idle" \/ reqs'[p] = reqs[p]
  BY Closing DEF MemberInv, TypeOK
<1>2. \A p \in Requests : reqs[p].row \in Rows
  BY DEF MemberInv, TypeOK, Request
<1>3. RequestsAreReal
  BY DEF MemberInv
<1>4. ASSUME NEW p \in Requests
      PROVE  /\ reqs'[p].op = "join" => reqs'[p].invite \in Invites /\ reqs'[p].user \in Users
             /\ reqs'[p].op = "complete" => ver'[reqs'[p].row] > 0
             /\ reqs'[p].op \in {"save", "complete"} => seat'[reqs'[p].row] # "absent"
  BY <1>1, <1>2, <1>3 DEF RequestsAreReal
<1> QED
  BY <1>1, <1>4 DEF RequestsAreReal

(* A seat taken through an invite whose use was just spent. *)
LEMMA SeatTaken ==
    ASSUME MemberInv, NEW r \in Rows, NEW person \in Users \cup {Guest},
           NEW i \in Invites \cup {NoInvite}, TakeSeat(r, person, i),
           i \in Invites => Spendable(i) /\ Spend(i),
           i = NoInvite => UNCHANGED used,
           person \in Users => SeatsOf(person) = {},
           UNCHANGED <<code, cap>>
    PROVE  UsesCover' /\ OneSeatEach'
<1> USE DEF MemberInv, TypeOK, MembersTypeOK, InvitesTypeOK
<1>1. UsesCover'
  <2> SUFFICES ASSUME NEW j \in Invites
               PROVE  /\ Cardinality(Admitted(j)') <= used'[j]
                      /\ cap'[j] > 0 => used'[j] <= cap'[j]
                      /\ code'[j] = "none" => Admitted(j)' = {}
    BY DEF UsesCover
  <2>1. /\ Cardinality(Admitted(j)) <= used[j]
        /\ cap[j] > 0 => used[j] <= cap[j]
        /\ code[j] = "none" => Admitted(j) = {}
    BY DEF UsesCover
  <2>2. Admitted(j) \in SUBSET Rows /\ Cardinality(Admitted(j)) \in Nat
    BY RowSets DEF Admitted
  <2>3. CASE j = i
    <3>1. Admitted(j)' = Admitted(j) \cup {r}
      BY <2>3 DEF Admitted, TakeSeat
    <3>2. Cardinality(Admitted(j)') <= Cardinality(Admitted(j)) + 1
      BY <2>2, <3>1, OneMoreRow
    <3>3. used'[j] = used[j] + 1 /\ code[j] = "live" /\ (cap[j] = 0 \/ used[j] < cap[j])
      BY <2>3 DEF Spend, Spendable
    <3>4. Cardinality(Admitted(j)') \in Nat
      BY <2>2, <3>1, RowSets
    <3> QED
      BY <2>1, <2>2, <3>2, <3>3, <3>4
  <2>4. CASE j # i
    <3>1. Admitted(j)' \subseteq Admitted(j)
      BY <2>4 DEF Admitted, TakeSeat
    <3>2. Cardinality(Admitted(j)') <= Cardinality(Admitted(j)) /\ Cardinality(Admitted(j)') \in Nat
      BY <2>2, <3>1, FewerRows, RowSets
    <3>3. used'[j] = used[j]
      BY <2>4 DEF Spend
    <3> QED
      BY <2>1, <2>2, <3>1, <3>2, <3>3
  <2> QED
    BY <2>3, <2>4
<1>2. OneSeatEach'
  <2> SUFFICES ASSUME NEW s \in Rows, NEW t \in Rows, seat'[s] = "active", seat'[t] = "active",
                      who'[s] = who'[t], who'[s] # Guest
               PROVE  s = t
    BY DEF OneSeatEach
  <2>1. CASE s # r /\ t # r
    BY <2>1 DEF TakeSeat, OneSeatEach
  <2>2. CASE s = r
    BY <2>2 DEF TakeSeat, SeatsOf, Active
  <2>3. CASE t = r
    BY <2>3 DEF TakeSeat, SeatsOf, Active
  <2> QED
    BY <2>1, <2>2, <2>3
<1> QED
  BY <1>1, <1>2

LEMMA JoinStep ==
    ASSUME MemberInv, NEW q \in Requests, NEW r \in Rows, Join(q, r)
    PROVE  MemberInv'
<1> DEFINE u == reqs[q].user
           i == reqs[q].invite
<1>1. i \in Invites /\ u \in Users
  BY DEF Join, MemberInv, RequestsAreReal
<1>2. /\ status \in Joinable /\ Spendable(i) /\ Spend(i) /\ Close(q)
      /\ UNCHANGED <<status, lapsed, entry, starts, sel, ver, chosen, code, cap>>
  BY DEF Join, Admits, room, answers
<1> HIDE DEF i, u
<1>3. AnsweredOrAcknowledged' /\ StartsFollowStatus' /\ CompletedIsAnswered'
  BY <1>2 DEF MemberInv, AnsweredOrAcknowledged, StartsFollowStatus, CompletedIsAnswered, Joinable
<1>4. used' \in [Invites -> Nat]
  BY <1>1, <1>2 DEF MemberInv, TypeOK, InvitesTypeOK, Spend
<1>5. CASE SeatsOf(u) = {} /\ TakeSeat(r, u, i)
  <2>1. seat[r] = "absent" /\ seat' = [seat EXCEPT ![r] = "active"]
        /\ who' = [who EXCEPT ![r] = u] /\ via' = [via EXCEPT ![r] = i]
    BY <1>5 DEF TakeSeat
  <2>2. MembersTypeOK' /\ AnswersHaveRows' /\ ChoiceIsSaved'
    BY <1>1, <1>2, <2>1 DEF MemberInv, TypeOK, MembersTypeOK, AnswersHaveRows, ChoiceIsSaved
  <2>3. RequestsAreReal' /\ reqs' \in [Requests -> Request]
    BY <1>2, <2>1, RequestsStayReal DEF MemberInv, TypeOK, MembersTypeOK
  <2>4. UsesCover' /\ OneSeatEach'
    BY <1>1, <1>2, <1>5, SeatTaken
  <2>5. RoomTypeOK' /\ InvitesTypeOK'
    BY <1>2, <1>4 DEF MemberInv, TypeOK, RoomTypeOK, InvitesTypeOK
  <2> QED
    BY <1>3, <2>2, <2>3, <2>4, <2>5 DEF MemberInv, TypeOK
<1>6. CASE UNCHANGED members
  <2>1. UNCHANGED <<seat, who, via>>
    BY <1>6 DEF members
  <2>2. MembersTypeOK' /\ AnswersHaveRows' /\ ChoiceIsSaved' /\ OneSeatEach'
    BY <1>2, <2>1 DEF MemberInv, TypeOK, MembersTypeOK, AnswersHaveRows, ChoiceIsSaved, OneSeatEach
  <2>3. RequestsAreReal' /\ reqs' \in [Requests -> Request]
    BY <1>2, <2>1, RequestsStayReal
  <2>4. UsesCover'
    <3> SUFFICES ASSUME NEW j \in Invites
                 PROVE  /\ Cardinality(Admitted(j)') <= used'[j]
                        /\ cap'[j] > 0 => used'[j] <= cap'[j]
                        /\ code'[j] = "none" => Admitted(j)' = {}
      BY DEF UsesCover
    <3>1. Admitted(j)' = Admitted(j) /\ Cardinality(Admitted(j)) \in Nat
      BY <2>1, RowSets DEF Admitted
    <3>2. used'[j] = IF j = i THEN used[j] + 1 ELSE used[j]
      BY <1>1, <1>2 DEF Spend, MemberInv, TypeOK, InvitesTypeOK
    <3>3. j = i => cap[j] = 0 \/ used[j] < cap[j]
      BY <1>2 DEF Spendable
    <3> QED
      BY <1>2, <3>1, <3>2, <3>3 DEF MemberInv, TypeOK, InvitesTypeOK, UsesCover
  <2>5. RoomTypeOK' /\ InvitesTypeOK'
    BY <1>2, <1>4 DEF MemberInv, TypeOK, RoomTypeOK, InvitesTypeOK
  <2> QED
    BY <1>3, <2>2, <2>3, <2>4, <2>5 DEF MemberInv, TypeOK
<1> QED
  BY <1>5, <1>6 DEF Join, i, u

LEMMA GuestJoinStep ==
    ASSUME MemberInv, NEW q \in Requests, NEW r \in Rows, GuestJoin(q, r)
    PROVE  MemberInv'
<1> DEFINE i == reqs[q].invite
<1>1. i \in Invites \cup {NoInvite}
  BY DEF MemberInv, TypeOK, Request
<1>2. /\ status \in Joinable /\ Close(q) /\ TakeSeat(r, Guest, i)
      /\ (i = NoInvite /\ UNCHANGED used) \/ (i # NoInvite /\ Spendable(i) /\ Spend(i))
      /\ UNCHANGED <<status, lapsed, entry, starts, sel, ver, chosen, code, cap>>
  BY DEF GuestJoin, Admits, room, answers
<1> HIDE DEF i
<1>3. AnsweredOrAcknowledged' /\ StartsFollowStatus' /\ CompletedIsAnswered'
  BY <1>2 DEF MemberInv, AnsweredOrAcknowledged, StartsFollowStatus, CompletedIsAnswered, Joinable
<1>4. used' \in [Invites -> Nat]
  BY <1>1, <1>2 DEF MemberInv, TypeOK, InvitesTypeOK, Spend
<1>5. seat[r] = "absent" /\ seat' = [seat EXCEPT ![r] = "active"]
      /\ who' = [who EXCEPT ![r] = Guest] /\ via' = [via EXCEPT ![r] = i]
  BY <1>2 DEF TakeSeat
<1>6. MembersTypeOK' /\ AnswersHaveRows' /\ ChoiceIsSaved'
  BY <1>1, <1>2, <1>5 DEF MemberInv, TypeOK, MembersTypeOK, AnswersHaveRows, ChoiceIsSaved
<1>7. RequestsAreReal' /\ reqs' \in [Requests -> Request]
  BY <1>2, <1>5, RequestsStayReal DEF MemberInv, TypeOK, MembersTypeOK
<1>8. UsesCover' /\ OneSeatEach'
  BY <1>1, <1>2, SeatTaken
<1>9. RoomTypeOK' /\ InvitesTypeOK'
  BY <1>2, <1>4 DEF MemberInv, TypeOK, RoomTypeOK, InvitesTypeOK
<1> QED
  BY <1>3, <1>6, <1>7, <1>8, <1>9 DEF MemberInv, TypeOK

LEMMA CreateInviteStep ==
    ASSUME MemberInv, NEW q \in Requests, NEW i \in Invites, NEW limit \in 0 .. MaxUses,
           CreateInvite(q, i, limit)
    PROVE  MemberInv'
<1>0. limit \in Nat
  OBVIOUS
<1>1. /\ code[i] = "none" /\ Close(q)
      /\ code' = [code EXCEPT ![i] = "live"]
      /\ cap' = [cap EXCEPT ![i] = limit]
      /\ used' = [used EXCEPT ![i] = 0]
      /\ UNCHANGED <<status, lapsed, entry, starts, seat, who, via, sel, ver, chosen>>
  BY DEF CreateInvite, room, members, answers
<1>2. InvitesTypeOK'
  BY <1>0, <1>1 DEF MemberInv, TypeOK, InvitesTypeOK
<1>3. RequestsAreReal' /\ reqs' \in [Requests -> Request]
  BY <1>1, RequestsStayReal
<1>4. UsesCover'
  <2> SUFFICES ASSUME NEW j \in Invites
               PROVE  /\ Cardinality(Admitted(j)') <= used'[j]
                      /\ cap'[j] > 0 => used'[j] <= cap'[j]
                      /\ code'[j] = "none" => Admitted(j)' = {}
    BY DEF UsesCover
  <2>1. Admitted(j)' = Admitted(j)
    BY <1>1 DEF Admitted
  <2>2. CASE j = i
    <3>1. Admitted(j) = {}
      BY <1>1, <2>2 DEF MemberInv, UsesCover
    <3>2. Cardinality(Admitted(j)) = 0
      BY <3>1, FS_EmptySet
    <3>3. used'[j] = 0 /\ cap'[j] \in Nat
      BY <1>1, <1>2, <2>2 DEF MemberInv, TypeOK, InvitesTypeOK
    <3> QED
      BY <2>1, <3>1, <3>2, <3>3
  <2>3. CASE j # i
    BY <1>1, <2>1, <2>3 DEF MemberInv, TypeOK, InvitesTypeOK, UsesCover
  <2> QED
    BY <2>2, <2>3
<1>5. RoomTypeOK' /\ MembersTypeOK' /\ AnswersHaveRows' /\ ChoiceIsSaved'
  BY <1>1 DEF MemberInv, TypeOK, RoomTypeOK, MembersTypeOK, AnswersHaveRows, ChoiceIsSaved
<1>6. CompletedIsAnswered' /\ OneSeatEach' /\ StartsFollowStatus' /\ AnsweredOrAcknowledged'
  BY <1>1 DEF MemberInv, CompletedIsAnswered, OneSeatEach, StartsFollowStatus,
              AnsweredOrAcknowledged, Active
<1> QED
  BY <1>2, <1>3, <1>4, <1>5, <1>6 DEF MemberInv, TypeOK

(* A step of the room, the answers or the requests leaves the invites covered. *)
LEMMA UsesStayCovered ==
    ASSUME MemberInv, UNCHANGED <<via, code, cap, used>>
    PROVE  UsesCover' /\ InvitesTypeOK'
  BY DEF MemberInv, TypeOK, InvitesTypeOK, UsesCover, Admitted

(* Nobody is left out of a set with no pending members. *)
LEMMA AllDone ==
    ASSUME Cardinality(Active \ Done) = 0
    PROVE  Active \subseteq Done
<1>1. Active \ Done \in SUBSET Rows
  BY DEF Active
<1>2. Active \ Done = {}
  BY <1>1, NoRows
<1> QED
  BY <1>2

LEMMA UpdateStatusStep ==
    ASSUME MemberInv, NEW q \in Requests, UpdateStatus(q)
    PROVE  MemberInv'
<1> DEFINE to == reqs[q].to
           ack == reqs[q].ack
<1>1. to \in Statuses /\ ack \in {"no", "yes"}
  BY DEF MemberInv, TypeOK, Request
<1>2. Close(q) /\ UNCHANGED <<seat, who, via, sel, ver, chosen, code, cap, used, lapsed>>
  BY DEF UpdateStatus, room, members, answers, invites
<1>3. UsesCover' /\ InvitesTypeOK' /\ MembersTypeOK' /\ AnswersHaveRows' /\ ChoiceIsSaved'
  BY <1>2, UsesStayCovered DEF MemberInv, TypeOK, MembersTypeOK, AnswersHaveRows, ChoiceIsSaved
<1>4. RequestsAreReal' /\ reqs' \in [Requests -> Request]
  BY <1>2, RequestsStayReal
<1>5. CompletedIsAnswered' /\ OneSeatEach'
  BY <1>2 DEF MemberInv, CompletedIsAnswered, OneSeatEach
<1>6. RoomTypeOK' /\ StartsFollowStatus' /\ AnsweredOrAcknowledged'
  <2>1. CASE UNCHANGED room
    BY <1>2, <2>1 DEF room, MemberInv, TypeOK, RoomTypeOK, StartsFollowStatus,
                      AnsweredOrAcknowledged, Active
  <2>2. CASE /\ ~ IsNoOp(status, to)
             /\ CanTransition(status, to)
             /\ to = "matching" =>
                    MatchingReady(Cardinality(Done), Cardinality(Active \ Done),
                                  ack = "yes" \/ status = "matching")
             /\ status' = to
             /\ entry' = IF to # "matching" \/ status = "matching" THEN entry
                         ELSE IF ack = "yes" THEN "acknowledged" ELSE "complete"
             /\ starts' = IF to = "active" THEN starts + 1 ELSE starts
    <3> HIDE DEF to, ack
    <3>1. RoomTypeOK'
      BY <1>1, <1>2, <2>2 DEF MemberInv, TypeOK, RoomTypeOK
    <3>2. StartsFollowStatus'
      BY <1>1, <2>2 DEF MemberInv, TypeOK, RoomTypeOK, StartsFollowStatus, CanTransition,
                        Successors, Statuses, IsNoOp
    <3>3. AnsweredOrAcknowledged'
      <4> SUFFICES ASSUME status' \in {"matching", "ready", "active", "completed"},
                          entry' = "complete", NEW r \in Active
                   PROVE  ver[r] > 0
        BY <1>2 DEF AnsweredOrAcknowledged, Active
      <4>1. CASE to # "matching" \/ status = "matching"
        <5>1. status \in {"matching", "ready", "active", "completed"}
          BY <2>2, <4>1 DEF MemberInv, TypeOK, RoomTypeOK, CanTransition, Successors, Statuses
        <5> QED
          BY <2>2, <4>1, <5>1 DEF MemberInv, AnsweredOrAcknowledged
      <4>2. CASE to = "matching" /\ status # "matching"
        <5>1. Cardinality(Active \ Done) = 0
          BY <2>2, <4>2 DEF MatchingReady
        <5>2. r \in Done
          BY <5>1, AllDone
        <5> QED
          BY <5>2 DEF Done, Active, MemberInv, CompletedIsAnswered
      <4> QED
        BY <4>1, <4>2
    <3> QED
      BY <3>1, <3>2, <3>3
  <2> QED
    BY <2>1, <2>2 DEF UpdateStatus
<1> QED
  BY <1>3, <1>4, <1>5, <1>6 DEF MemberInv, TypeOK

LEMMA SaveStep ==
    ASSUME MemberInv, NEW q \in Requests, NEW choice \in Choices, Save(q, choice)
    PROVE  MemberInv'
<1> DEFINE r == reqs[q].row
<1>1. r \in Rows /\ seat[r] # "absent"
  BY DEF Save, MemberInv, TypeOK, Request, RequestsAreReal
<1>2. /\ ver' = [ver EXCEPT ![r] = @ + 1]
      /\ chosen' = [chosen EXCEPT ![r] = choice]
      /\ sel' = [sel EXCEPT ![r] = "in_progress"]
      /\ Close(q)
      /\ UNCHANGED <<status, lapsed, entry, starts, seat, who, via, code, cap, used>>
  BY DEF Save, room, members, invites
<1> HIDE DEF r
<1>3. ver' \in [Rows -> Nat] /\ ver'[r] > 0 /\ \A s \in Rows : ver[s] > 0 => ver'[s] > 0
  BY <1>1, <1>2 DEF MemberInv, TypeOK, MembersTypeOK
<1>4. MembersTypeOK' /\ AnswersHaveRows' /\ ChoiceIsSaved'
  BY <1>1, <1>2, <1>3, ChoicesAreKnown DEF MemberInv, TypeOK, MembersTypeOK,
                                           AnswersHaveRows, ChoiceIsSaved
<1>5. RequestsAreReal' /\ reqs' \in [Requests -> Request]
  BY <1>2, <1>3, RequestsStayReal
<1>6. UsesCover' /\ InvitesTypeOK'
  BY <1>2, UsesStayCovered
<1>7. RoomTypeOK' /\ OneSeatEach' /\ StartsFollowStatus'
  BY <1>2 DEF MemberInv, TypeOK, RoomTypeOK, OneSeatEach, StartsFollowStatus
<1>8. CompletedIsAnswered'
  BY <1>1, <1>2, <1>3 DEF MemberInv, TypeOK, MembersTypeOK, CompletedIsAnswered
<1>9. AnsweredOrAcknowledged'
  BY <1>2, <1>3 DEF MemberInv, AnsweredOrAcknowledged, Active
<1> QED
  BY <1>4, <1>5, <1>6, <1>7, <1>8, <1>9 DEF MemberInv, TypeOK

LEMMA CompleteStep ==
    ASSUME MemberInv, NEW q \in Requests, Complete(q)
    PROVE  MemberInv'
<1> DEFINE r == reqs[q].row
<1>1. r \in Rows /\ seat[r] # "absent" /\ ver[r] > 0
  BY DEF Complete, MemberInv, TypeOK, Request, RequestsAreReal
<1>2. /\ sel' = [sel EXCEPT ![r] = "completed"]
      /\ Close(q)
      /\ UNCHANGED <<lapsed, starts, seat, who, via, ver, chosen, code, cap, used>>
      /\ status \in AnswersOpen
      /\ \/ /\ Active \subseteq Done \cup {r} /\ status \in Joinable
            /\ status' = "matching" /\ entry' = "complete"
         \/ UNCHANGED <<status, entry>>
  BY DEF Complete, members, invites
<1> HIDE DEF r
<1>3. MembersTypeOK' /\ AnswersHaveRows' /\ ChoiceIsSaved' /\ CompletedIsAnswered'
  BY <1>1, <1>2 DEF MemberInv, TypeOK, MembersTypeOK, AnswersHaveRows, ChoiceIsSaved,
                    CompletedIsAnswered
<1>4. RequestsAreReal' /\ reqs' \in [Requests -> Request]
  BY <1>2, RequestsStayReal
<1>5. UsesCover' /\ InvitesTypeOK'
  BY <1>2, UsesStayCovered
<1>6. RoomTypeOK' /\ OneSeatEach' /\ StartsFollowStatus'
  BY <1>2 DEF MemberInv, TypeOK, RoomTypeOK, OneSeatEach, StartsFollowStatus, Statuses,
              AnswersOpen, Joinable
<1>7. AnsweredOrAcknowledged'
  <2>1. CASE Active \subseteq Done \cup {r}
    BY <1>1, <1>2, <2>1 DEF MemberInv, AnsweredOrAcknowledged, CompletedIsAnswered, Active, Done
  <2>2. CASE UNCHANGED <<status, entry>>
    BY <1>2, <2>2 DEF MemberInv, AnsweredOrAcknowledged, Active
  <2> QED
    BY <1>2, <2>1, <2>2
<1> QED
  BY <1>3, <1>4, <1>5, <1>6, <1>7 DEF MemberInv, TypeOK

LEMMA AbandonStep ==
    ASSUME MemberInv, NEW q \in Requests, Abandon(q)
    PROVE  MemberInv'
<1>1. /\ Close(q)
      /\ UNCHANGED <<status, lapsed, entry, starts, seat, who, via, sel, ver,
                     chosen, code, cap, used>>
  BY DEF Abandon, room, members, answers, invites
<1>2. RequestsAreReal' /\ reqs' \in [Requests -> Request]
  BY <1>1, RequestsStayReal
<1>3. UsesCover' /\ InvitesTypeOK'
  BY <1>1, UsesStayCovered
<1>4. RoomTypeOK' /\ MembersTypeOK' /\ AnswersHaveRows' /\ ChoiceIsSaved'
  BY <1>1 DEF MemberInv, TypeOK, RoomTypeOK, MembersTypeOK, AnswersHaveRows, ChoiceIsSaved
<1>5. CompletedIsAnswered' /\ OneSeatEach' /\ StartsFollowStatus' /\ AnsweredOrAcknowledged'
  BY <1>1 DEF MemberInv, CompletedIsAnswered, OneSeatEach, StartsFollowStatus,
              AnsweredOrAcknowledged, Active
<1> QED
  BY <1>2, <1>3, <1>4, <1>5 DEF MemberInv, TypeOK

(* The steps that open and close no request. *)
LEMMA OutsideStep ==
    ASSUME MemberInv,
           \/ \E i \in Invites : RevokeInvite(i)
           \/ \E r \in Rows, u \in Users : ClaimGuest(r, u)
           \/ \E r \in Rows : RemoveMember(r)
           \/ Lapse
    PROVE  MemberInv'
<1>1. CASE \E i \in Invites : RevokeInvite(i)
  <2> PICK i \in Invites : RevokeInvite(i)
    BY <1>1
  <2>1. /\ code[i] = "live" /\ code' = [code EXCEPT ![i] = "dead"]
        /\ UNCHANGED <<status, lapsed, entry, starts, seat, who, via, sel, ver,
                       chosen, cap, used, reqs>>
    BY DEF RevokeInvite, room, members, answers
  <2>2. InvitesTypeOK' /\ UsesCover'
    BY <2>1 DEF MemberInv, TypeOK, InvitesTypeOK, UsesCover, Admitted
  <2>3. RoomTypeOK' /\ MembersTypeOK' /\ AnswersHaveRows' /\ ChoiceIsSaved'
        /\ (reqs \in [Requests -> Request])'
    BY <2>1 DEF MemberInv, TypeOK, RoomTypeOK, MembersTypeOK, AnswersHaveRows, ChoiceIsSaved
  <2>4. RequestsAreReal' /\ CompletedIsAnswered' /\ OneSeatEach' /\ StartsFollowStatus'
        /\ AnsweredOrAcknowledged'
    BY <2>1 DEF MemberInv, RequestsAreReal, CompletedIsAnswered, OneSeatEach,
                StartsFollowStatus, AnsweredOrAcknowledged, Active
  <2> QED
    BY <2>2, <2>3, <2>4 DEF MemberInv, TypeOK
<1>2. CASE \E r \in Rows : RemoveMember(r)
  <2> PICK r \in Rows : RemoveMember(r)
    BY <1>2
  <2>1. /\ seat[r] = "active" /\ seat' = [seat EXCEPT ![r] = "removed"]
        /\ UNCHANGED <<status, lapsed, entry, starts, who, via, sel, ver,
                       chosen, code, cap, used, reqs>>
    BY DEF RemoveMember, room, answers, invites
  <2>2. InvitesTypeOK' /\ UsesCover'
    BY <2>1, UsesStayCovered
  <2>3. RoomTypeOK' /\ MembersTypeOK' /\ AnswersHaveRows' /\ ChoiceIsSaved'
        /\ (reqs \in [Requests -> Request])'
    BY <2>1 DEF MemberInv, TypeOK, RoomTypeOK, MembersTypeOK, AnswersHaveRows, ChoiceIsSaved
  <2>4. RequestsAreReal'
    <3>1. \A p \in Requests : reqs[p].row \in Rows
      BY DEF MemberInv, TypeOK, Request
    <3> QED
      BY <2>1, <3>1 DEF MemberInv, TypeOK, MembersTypeOK, RequestsAreReal
  <2>5. CompletedIsAnswered' /\ OneSeatEach' /\ StartsFollowStatus'
    BY <2>1 DEF MemberInv, TypeOK, MembersTypeOK, CompletedIsAnswered, OneSeatEach,
                StartsFollowStatus
  <2>6. AnsweredOrAcknowledged'
    BY <2>1 DEF MemberInv, TypeOK, MembersTypeOK, AnsweredOrAcknowledged, Active
  <2> QED
    BY <2>2, <2>3, <2>4, <2>5, <2>6 DEF MemberInv, TypeOK
<1>3. CASE Lapse
  <2>1. /\ lapsed' = "yes"
        /\ UNCHANGED <<status, entry, starts, seat, who, via, sel, ver,
                       chosen, code, cap, used, reqs>>
    BY <1>3 DEF Lapse, members, answers, invites
  <2>2. InvitesTypeOK' /\ UsesCover'
    BY <2>1, UsesStayCovered
  <2>3. RoomTypeOK' /\ MembersTypeOK' /\ AnswersHaveRows' /\ ChoiceIsSaved'
        /\ (reqs \in [Requests -> Request])'
    BY <2>1 DEF MemberInv, TypeOK, RoomTypeOK, MembersTypeOK, AnswersHaveRows, ChoiceIsSaved
  <2>4. RequestsAreReal' /\ CompletedIsAnswered' /\ OneSeatEach' /\ StartsFollowStatus'
        /\ AnsweredOrAcknowledged'
    BY <2>1 DEF MemberInv, RequestsAreReal, CompletedIsAnswered, OneSeatEach,
                StartsFollowStatus, AnsweredOrAcknowledged, Active
  <2> QED
    BY <2>2, <2>3, <2>4 DEF MemberInv, TypeOK
<1>4. CASE \E r \in Rows, u \in Users : ClaimGuest(r, u)
  <2> PICK r \in Rows, u \in Users : ClaimGuest(r, u)
    BY <1>4
  <2>1. /\ \A s \in Rows : who[s] # u
        /\ who' = [who EXCEPT ![r] = u] /\ seat[r] # "absent"
        /\ UNCHANGED <<status, lapsed, entry, starts, seat, via, sel, ver, chosen, code, cap,
                       used, reqs>>
    BY DEF ClaimGuest, room, answers, invites
  <2>2. InvitesTypeOK' /\ UsesCover'
    BY <2>1, UsesStayCovered
  <2>3. RoomTypeOK' /\ MembersTypeOK' /\ AnswersHaveRows' /\ ChoiceIsSaved'
        /\ (reqs \in [Requests -> Request])'
    BY <2>1 DEF MemberInv, TypeOK, RoomTypeOK, MembersTypeOK, AnswersHaveRows, ChoiceIsSaved
  <2>4. RequestsAreReal' /\ CompletedIsAnswered' /\ StartsFollowStatus' /\ AnsweredOrAcknowledged'
    BY <2>1 DEF MemberInv, RequestsAreReal, CompletedIsAnswered, StartsFollowStatus,
                AnsweredOrAcknowledged, Active
  <2>5. OneSeatEach'
    BY <2>1 DEF MemberInv, TypeOK, MembersTypeOK, OneSeatEach
  <2> QED
    BY <2>2, <2>3, <2>4, <2>5 DEF MemberInv, TypeOK
<1> QED
  BY <1>1, <1>2, <1>3, <1>4
-----------------------------------------------------------------------------
LEMMA StepInv == MemberInv /\ [Next]_vars => MemberInv'
<1> SUFFICES ASSUME MemberInv, [Next]_vars PROVE MemberInv'
  OBVIOUS
<1>1. ASSUME NEW q \in Requests, FirstHalf(q) PROVE MemberInv'
  BY <1>1, FirstHalfStep
<1>2. ASSUME NEW q \in Requests, SecondHalf(q) PROVE MemberInv'
  BY <1>2, CreateInviteStep, JoinStep, GuestJoinStep, UpdateStatusStep, SaveStep,
     CompleteStep, AbandonStep DEF SecondHalf
<1>3. CASE UNCHANGED vars
  <2>1. UNCHANGED <<status, lapsed, entry, starts, seat, who, via, sel, ver,
                    chosen, code, cap, used, reqs>>
    BY <1>3 DEF vars, room, members, answers, invites
  <2>2. InvitesTypeOK' /\ UsesCover'
    BY <2>1, UsesStayCovered
  <2>3. RoomTypeOK' /\ MembersTypeOK' /\ AnswersHaveRows' /\ ChoiceIsSaved'
        /\ (reqs \in [Requests -> Request])'
    BY <2>1 DEF MemberInv, TypeOK, RoomTypeOK, MembersTypeOK, AnswersHaveRows, ChoiceIsSaved
  <2>4. RequestsAreReal' /\ CompletedIsAnswered' /\ OneSeatEach' /\ StartsFollowStatus'
        /\ AnsweredOrAcknowledged'
    BY <2>1 DEF MemberInv, RequestsAreReal, CompletedIsAnswered, OneSeatEach,
                StartsFollowStatus, AnsweredOrAcknowledged, Active
  <2> QED
    BY <2>2, <2>3, <2>4 DEF MemberInv, TypeOK
<1> QED
  BY <1>1, <1>2, <1>3, OutsideStep DEF Next

(* Everything below follows from the inductive invariant. *)
THEOREM MembershipInvariant == Spec => []MemberInv
  BY InitInv, StepInv, PTL DEF Spec

(* The rows, answers and invites keep their columns' types, and answers      *)
(* belong to a row of room_members, whatever requests run side by side.      *)
THEOREM TypeCorrect == Spec => []TypeOK
<1>1. MemberInv => TypeOK
  BY DEF MemberInv
<1> QED
  BY <1>1, MembershipInvariant, PTL

(* consumeInvite: a use limit bounds the people let in, for any number of    *)
(* joins in flight.                                                          *)
THEOREM QuotaKept == Spec => []QuotaHolds
<1>1. MemberInv => QuotaHolds
  <2> SUFFICES ASSUME MemberInv, NEW i \in Invites, cap[i] > 0
               PROVE  Cardinality(Admitted(i)) <= cap[i]
    BY DEF QuotaHolds
  <2>1. Cardinality(Admitted(i)) <= used[i] /\ used[i] <= cap[i]
    BY DEF MemberInv, UsesCover
  <2>2. Cardinality(Admitted(i)) \in Nat /\ used[i] \in Nat /\ cap[i] \in Nat
    BY RowSets DEF Admitted, MemberInv, TypeOK, InvitesTypeOK
  <2> QED
    BY <2>1, <2>2
<1> QED
  BY <1>1, MembershipInvariant, PTL

(* Nobody joins or reopens their answers between the tally and the move to   *)
(* matching: whoever is in a room that matched without acknowledgement has   *)
(* answered.                                                                 *)
THEOREM NobodySlipsIn == Spec => []AnsweredOrAcknowledged
<1>1. MemberInv => AnsweredOrAcknowledged
  BY DEF MemberInv
<1> QED
  BY <1>1, MembershipInvariant, PTL

(* A room is started once, for any number of racing starts. *)
THEOREM SingleStart == Spec => []OneStart
<1>1. MemberInv => OneStart
  BY DEF MemberInv, StartsFollowStatus, OneStart
<1> QED
  BY <1>1, MembershipInvariant, PTL

(* Two completed seats are two people. *)
LEMMA TwoSeatsTwoPeople ==
    OneSeatEach /\ Cardinality(Done) >= 2 => TwoPeople
<1> SUFFICES ASSUME OneSeatEach, Cardinality(Done) >= 2 PROVE TwoPeople
  OBVIOUS
<1>1. Done \in SUBSET Rows
  BY DEF Done, Active
<1>2. PICK r, s \in Done : r # s
  BY <1>1, TwoRows
<1> QED
  BY <1>2 DEF TwoPeople, OneSeatEach, Done, Active

(* Only updateStatus and completeMine move a room to matching. *)
LEMMA WhoMatches ==
    ASSUME Next, status # "matching", status' = "matching"
    PROVE  \E q \in Requests : UpdateStatus(q) \/ Complete(q)
  BY DEF Next, FirstHalf, SecondHalf, RequestInvite, RequestJoin, RequestGuestJoin,
         RequestTransition, RequestSave, RequestComplete, Open, CreateInvite, Join, GuestJoin,
         Save, Abandon, RevokeInvite, ClaimGuest, RemoveMember, Lapse, room

(* assertMatchingReady counts rows; as no account has two active rows, the   *)
(* quorum it enforces is two people, at the moment the status moves.         *)
THEOREM TwoPeopleQuorum == Spec => QuorumIsTwoPeople
<1>1. MemberInv /\ MemberInv' /\ [Next]_vars =>
          [status # "matching" /\ status' = "matching" => TwoPeople']_vars
  <2> SUFFICES ASSUME MemberInv, MemberInv', Next, status # "matching", status' = "matching"
               PROVE  TwoPeople'
    BY DEF vars, room
  <2>1. PICK q \in Requests : UpdateStatus(q) \/ Complete(q)
    BY WhoMatches
  <2>2. Cardinality(Done)' >= 2
    <3>1. CASE UpdateStatus(q)
      <4>1. Done' = Done
        BY <3>1 DEF UpdateStatus, members, answers, Done, Active
      <4>2. Cardinality(Done) >= 2
        BY <3>1 DEF UpdateStatus, room, MatchingReady
      <4> QED
        BY <4>1, <4>2
    <3>2. CASE Complete(q)
      <4>1. reqs[q].row \in Rows
        BY DEF MemberInv, TypeOK, Request
      <4>2. Active \subseteq Done \cup {reqs[q].row} /\ Cardinality(Active) >= 2
        BY <3>2 DEF Complete
      <4>3. Active' = Active
        BY <3>2 DEF Complete, members, Active
      <4>4. Done' = Active
        BY <3>2, <4>1, <4>2, <4>3 DEF Complete, members, Done, Active, MemberInv, TypeOK,
                                      MembersTypeOK
      <4> QED
        BY <4>2, <4>4
    <3> QED
      BY <2>1, <3>1, <3>2
  <2>3. OneSeatEach'
    BY DEF MemberInv
  <2>4. (OneSeatEach /\ Cardinality(Done) >= 2 => TwoPeople)'
    BY TwoSeatsTwoPeople, PTL
  <2> QED
    BY <2>2, <2>3, <2>4
<1> QED
  BY <1>1, MembershipInvariant, PTL DEF Spec, QuorumIsTwoPeople
=============================================================================
