-------------------------- MODULE OutboxDispatcher --------------------------
(***************************************************************************)
(* Notifications of the events of one room: the outbox (outbox_events),    *)
(* the inbox rows they are fanned out to (notifications) and the pushes    *)
(* the provider accepts.  A worker runs a batch under the job's lease      *)
(* (WorkerLease), but does not look at the lease again: one that has lost  *)
(* it finishes its batch beside the new holder.  The other may even be the *)
(* previous release, which wrote every recipient under the event's id.     *)
(* Models outbox-dispatcher.ts.                                            *)
(*                                                                         *)
(* Guests have no inbox and are not in Users.  An event of a kind nobody   *)
(* is told of, or without a room, has no targets.  Back-offs are left out  *)
(* of the data: an event that failed is due again after a step (Elapse).   *)
(* The deletion of an account, which deletes its inbox and may free the    *)
(* bare key, is not modelled.                                              *)
(***************************************************************************)
EXTENDS WorkerLease, Sequences, FiniteSets, FiniteSetsExt

CONSTANTS
    Users, Host,        \* accounts that may be members; the host always is one
    English,            \* the ones whose locale is not the default one
    NumEvents,          \* events 1 .. NumEvents, in the order of occurred_at
    Limit,              \* events of a batch
    MaxDelivery,        \* MAX_DELIVERY_ATTEMPTS
    Releases,           \* "new", and "old" for the previous release
    Nobody

ASSUME OutboxBounds ==
    /\ Host \in Users /\ English \subseteq Users /\ Nobody \notin Users
    /\ NumEvents \in Nat /\ Limit \in Nat \ {0} /\ MaxDelivery \in Nat \ {0}
    /\ Releases \subseteq {"new", "old"}

Events == 1 .. NumEvents

VARIABLES
    members,    \* members of the room that have an account
    event,      \* outbox_events
    bare,       \* who owns the inbox row under the event's id
    own,        \* who has an inbox row under a key of their own
    keys,       \* idempotency keys the provider has accepted, as event and locale
    pushed,     \* history: pushes of an event that reached a user
    job         \* the batch each worker is running

outboxVars == <<members, event, bare, own, keys, pushed, job>>
vars == <<leaseVars, outboxVars>>

(* An event: whom its kind is for, whether it is published or set aside     *)
(* (published_at, failed_at), its attempts and whether it is due.           *)
Event == [state : {"unwritten", "open", "published", "dead", "both"},
          audience : {"nobody", "host", "room"}, attempts : 0 .. MaxDelivery,
          due : {"no", "yes"}]
NoEvent == [state |-> "unwritten", audience |-> "nobody", attempts |-> 0, due |-> "yes"]

Locales == {"vi", "en"}
Locale(u) == IF u \in English THEN "en" ELSE "vi"

(* A job: its place in dispatchBatch and fanOut, the rest of the batch with  *)
(* the attempts it was read with, and what fanOut has in hand.               *)
Item == [ev : Events, attempts : 0 .. MaxDelivery]
Batches == UNION {[1 .. n -> Item] : n \in 0 .. Limit}
Job == [at : {"idle", "select", "members", "existing", "bare", "owner", "own", "vi", "en",
              "publish", "failed", "release"},
        release : {"new", "old"}, batch : Batches,
        targets : SUBSET Users, owner : Users \cup {Nobody}, todo : SUBSET Users]
NoJob == [at |-> "idle", release |-> "new", batch |-> <<>>, targets |-> {}, owner |-> Nobody,
          todo |-> {}]

TypeOK ==
    /\ LeaseTypeOK
    /\ members \in SUBSET Users /\ Host \in members
    /\ event \in [Events -> Event]
    /\ bare \in [Events -> Users \cup {Nobody}]
    /\ own \in [Events -> SUBSET Users]
    /\ keys \subseteq Events \X Locales
    /\ pushed \in [Events -> [Users -> 0 .. 2]]
    /\ job \in [Workers -> Job]

Init ==
    /\ LeaseInit
    /\ members = {Host}
    /\ event = [e \in Events |-> NoEvent]
    /\ bare = [e \in Events |-> Nobody]
    /\ own = [e \in Events |-> {}]
    /\ keys = {}
    /\ pushed = [e \in Events |-> [u \in Users |-> 0]]
    /\ job = [w \in Workers |-> NoJob]

Goto(w, at) == job' = [job EXCEPT ![w].at = at]
Item1(w) == Head(job[w].batch)
Ev(w) == Item1(w).ev
HasRow(e) == own[e] \cup ({bare[e]} \ {Nobody})

-----------------------------------------------------------------------------
(* The room, and the transactions that write an event. *)

(* addUserMember, removeMember; RoomMembership has them in full. *)
MembersChange(u) ==
    /\ u # Host
    /\ members' = IF u \in members THEN members \ {u} ELSE members \cup {u}
    /\ UNCHANGED <<leaseVars, event, bare, own, keys, pushed, job>>

WriteOutbox(e, a) ==
    /\ event[e].state = "unwritten"
    /\ \A d \in Events : d < e => event[d].state # "unwritten"
    /\ event' = [event EXCEPT ![e].state = "open", ![e].audience = a]
    /\ UNCHANGED <<leaseVars, members, bare, own, keys, pushed, job>>

(* next_attempt_at passes. *)
Elapse(e) ==
    /\ event[e].due = "no"
    /\ event' = [event EXCEPT ![e].due = "yes"]
    /\ UNCHANGED <<leaseVars, members, bare, own, keys, pushed, job>>

-----------------------------------------------------------------------------
(* The tick and the batch. *)

Tick(w, r) ==
    /\ job[w].at = "idle"
    /\ Acquire(w)
    /\ job' = [job EXCEPT ![w].at = "select", ![w].release = r]
    /\ UNCHANGED <<members, event, bare, own, keys, pushed>>

Selectable(e) == event[e].state = "open" /\ event[e].due = "yes"

(* The oldest Limit of the events that are due, in order. *)
Oldest(S) == {e \in S : Cardinality({d \in S : d <= e}) <= Limit}
Ordered(S) == [i \in 1 .. Cardinality(S) |->
                  CHOOSE e \in S : Cardinality({d \in S : d <= e}) = i]

Select(w) ==
    /\ job[w].at = "select"
    /\ LET es == Ordered(Oldest({e \in Events : Selectable(e)})) IN
       job' = [job EXCEPT ![w].at = IF es = <<>> THEN "release" ELSE "members",
                  ![w].batch = [i \in DOMAIN es |->
                                  [ev |-> es[i], attempts |-> event[es[i]].attempts]]]
    /\ UNCHANGED <<leaseVars, members, event, bare, own, keys, pushed>>

(* fanOut: who is to be told. *)
Audience(e) == CASE event[e].audience = "room" -> members
                 [] event[e].audience = "host" -> {Host}
                 [] event[e].audience = "nobody" -> {}

Members(w) ==
    /\ job[w].at = "members"
    /\ LET ts == Audience(Ev(w)) IN
       job' = [job EXCEPT ![w].targets = ts, ![w].todo = ts,
                  ![w].at = CASE ts = {} -> "publish"
                              [] ts # {} /\ job[w].release = "old" -> "own"
                              [] OTHER -> "existing"]
    /\ UNCHANGED <<leaseVars, members, event, bare, own, keys, pushed>>

(* Who has a row already, and a candidate for the bare key among the others: *)
(* the first one, in an order the query leaves open.                         *)
Existing(w) ==
    /\ job[w].at = "existing"
    /\ LET without == job[w].targets \ HasRow(Ev(w)) IN
       \/ without = {} /\ Goto(w, "owner")
       \/ \E u \in without : job' = [job EXCEPT ![w].at = "bare", ![w].owner = u]
    /\ UNCHANGED <<leaseVars, members, event, bare, own, keys, pushed>>

(* Insert under the unique bare key, or nothing if it is taken. *)
BareInsert(e, u) == IF bare[e] = Nobody THEN [bare EXCEPT ![e] = u] ELSE bare

InsertBare(w) ==
    /\ job[w].at = "bare"
    /\ bare' = BareInsert(Ev(w), job[w].owner)
    /\ Goto(w, "owner")
    /\ UNCHANGED <<leaseVars, members, event, own, keys, pushed>>

(* Whoever owns the bare key now gets no row of their own. *)
OwnerAndCandidate(w) ==
    /\ job[w].at = "owner"
    /\ job' = [job EXCEPT ![w].at = "own", ![w].owner = Nobody,
                          ![w].todo = job[w].targets \ {job[w].owner, bare[Ev(w)]}]
    /\ UNCHANGED <<leaseVars, members, event, bare, own, keys, pushed>>

OwnerIgnored(w) ==
    /\ job[w].at = "owner"
    /\ job' = [job EXCEPT ![w].at = "own", ![w].owner = Nobody]
    /\ UNCHANGED <<leaseVars, members, event, bare, own, keys, pushed>>

Owner(w) ==
    /\ job[w].at = "owner"
    /\ job' = [job EXCEPT ![w].at = "own", ![w].owner = Nobody,
                          ![w].todo = job[w].targets \ {bare[Ev(w)]}]
    /\ UNCHANGED <<leaseVars, members, event, bare, own, keys, pushed>>

InsertOwn(w) ==
    /\ job[w].at = "own"
    /\ job[w].release = "new"
    /\ \/ \E u \in job[w].todo :
          /\ own' = [own EXCEPT ![Ev(w)] = @ \cup {u}]
          /\ job' = [job EXCEPT ![w].todo = @ \ {u}]
       \/ job[w].todo = {} /\ Goto(w, "vi") /\ UNCHANGED own
    /\ UNCHANGED <<leaseVars, members, event, bare, keys, pushed>>

(* The previous release: every recipient under the bare key. *)
InsertOld(w) ==
    /\ job[w].at = "own"
    /\ job[w].release = "old"
    /\ \/ \E u \in job[w].todo :
          /\ bare' = BareInsert(Ev(w), u)
          /\ job' = [job EXCEPT ![w].todo = @ \ {u}]
       \/ job[w].todo = {} /\ Goto(w, "vi") /\ UNCHANGED bare
    /\ UNCHANGED <<leaseVars, members, event, own, keys, pushed>>

-----------------------------------------------------------------------------
(* The pushes: one call per locale, after the push switch of each account.   *)

(* pushIdempotencyKey: what the provider sees as one push. *)
KeyPerAttempt(w, l) == <<Ev(w), IF Item1(w).attempts % 2 = 0 THEN "vi" ELSE "en">>
PushKey(w, l) == <<Ev(w), l>>

Group(w, l) ==
    IF job[w].release = "old" THEN job[w].targets
    ELSE {u \in job[w].targets : Locale(u) = l}

(* The call to the provider: accepted, replayed under a key it has seen, or  *)
(* refused for good; or lost, before or after it was accepted.               *)
Push(w, l) ==
    /\ job[w].at = l
    /\ \E out \in SUBSET Group(w, l) :
       LET group == Group(w, l) \ out
           k == PushKey(w, l)
           accepted == /\ keys' = keys \cup {k}
                       /\ pushed' = IF k \in keys THEN pushed
                                    ELSE [pushed EXCEPT ![Ev(w)] =
                                            [u \in Users |-> IF u \in group /\ @[u] < 2
                                                             THEN @[u] + 1 ELSE @[u]]]
           after == IF l = "vi" /\ job[w].release = "new" THEN "en" ELSE "publish" IN
       \/ group = {} /\ Goto(w, after) /\ UNCHANGED <<keys, pushed>>
       \/ group # {} /\ accepted /\ Goto(w, after)
       \/ group # {} /\ Goto(w, after) /\ UNCHANGED <<keys, pushed>>
       \/ group # {} /\ accepted /\ Goto(w, "failed")
       \/ group # {} /\ Goto(w, "failed") /\ UNCHANGED <<keys, pushed>>
    /\ UNCHANGED <<leaseVars, members, event, bare, own>>

(* A query of the fan-out, or the mark that it is published, fails: the     *)
(* event is retried like after an outage.                                   *)
FanOutError(w) ==
    /\ job[w].at \in {"members", "existing", "bare", "owner", "own", "publish"}
    /\ Goto(w, "failed")
    /\ UNCHANGED <<leaseVars, members, event, bare, own, keys, pushed>>

-----------------------------------------------------------------------------
(* The end of an event, written whatever another worker wrote meanwhile. *)

NextItem(w) ==
    LET rest == Tail(job[w].batch) IN
    job' = [job EXCEPT ![w] = [NoJob EXCEPT !.release = job[w].release, !.batch = rest,
                                  !.at = IF rest = <<>> THEN "release" ELSE "members"]]

Publish(w) ==
    /\ job[w].at = "publish"
    /\ event' = [event EXCEPT ![Ev(w)].state = IF @ \in {"dead", "both"} THEN "both"
                                               ELSE "published"]
    /\ NextItem(w)
    /\ UNCHANGED <<leaseVars, members, bare, own, keys, pushed>>

AttemptsUncounted(w) == Item1(w).attempts
Attempts(w) == Item1(w).attempts + 1

Exhausted(n) == n >= MaxDelivery

Failed(w) ==
    /\ job[w].at = "failed"
    /\ LET n == Attempts(w)
           dead == IF event[Ev(w)].state \in {"published", "both"} THEN "both" ELSE "dead" IN
       event' = [event EXCEPT ![Ev(w)].attempts = n,
                    ![Ev(w)].due = IF Exhausted(n) THEN "yes" ELSE "no",
                    ![Ev(w)].state = IF Exhausted(n) THEN dead ELSE @]
    /\ NextItem(w)
    /\ UNCHANGED <<leaseVars, members, bare, own, keys, pushed>>

(* The bookkeeping itself fails: the batch ends, the tick with it. *)
BatchError(w) ==
    /\ job[w].at \in {"select", "failed"}
    /\ Fault
    /\ job' = [job EXCEPT ![w] = [NoJob EXCEPT !.at = "release"]]
    /\ UNCHANGED <<lease, held, members, event, bare, own, keys, pushed>>

EndTick(w) ==
    /\ job[w].at = "release"
    /\ Release(w)
    /\ job' = [job EXCEPT ![w] = NoJob]
    /\ UNCHANGED <<members, event, bare, own, keys, pushed>>

Crash(w) ==
    /\ job[w].at # "idle"
    /\ Die(w)
    /\ job' = [job EXCEPT ![w] = NoJob]
    /\ UNCHANGED <<members, event, bare, own, keys, pushed>>

-----------------------------------------------------------------------------
Run(w) ==
    \/ Select(w) \/ Members(w) \/ Existing(w) \/ InsertBare(w) \/ Owner(w)
    \/ InsertOwn(w) \/ InsertOld(w) \/ FanOutError(w)
    \/ \E l \in Locales : Push(w, l)
    \/ Publish(w) \/ Failed(w) \/ BatchError(w) \/ EndTick(w)

LeaseStep == (RunsOut \/ \E w \in Workers : Lose(w)) /\ UNCHANGED outboxVars

Next ==
    \/ \E u \in Users : MembersChange(u)
    \/ \E e \in Events, a \in {"nobody", "host", "room"} : WriteOutbox(e, a)
    \/ \E e \in Events : Elapse(e)
    \/ \E w \in Workers, r \in Releases : Tick(w, r)
    \/ \E w \in Workers : Run(w) \/ Crash(w)
    \/ LeaseStep

Spec == Init /\ [][Next]_vars

(* The schedule ticks, what a worker has begun goes on, back-offs pass, and  *)
(* a lease nobody renews runs out.                                           *)
Fairness ==
    /\ WF_vars(\E w \in Workers, r \in Releases : Tick(w, r))
    /\ \A w \in Workers : WF_vars(Run(w))
    /\ \A e \in Events : WF_vars(Elapse(e))
    /\ WF_vars(RunsOut /\ UNCHANGED outboxVars /\ faults' = faults)

FairSpec == Spec /\ Fairness

-----------------------------------------------------------------------------
(* Properties. *)

(* Nobody has two inbox rows of one event, whoever fans it out beside whom,  *)
(* the previous release included.                                            *)
InboxOnce == \A e \in Events : bare[e] \notin own[e]

(* When a worker of this release comes to the pushes of an event, everyone   *)
(* the event is for has an inbox row, whoever won the bare key.              *)
EveryoneHasRow == \A w \in Workers :
    job[w].at \in Locales /\ job[w].release = "new" => job[w].targets \subseteq HasRow(Ev(w))

(* An account of the default locale is pushed an event at most once, over    *)
(* retries, lost answers, two workers at once and both releases.             *)
PushedOnce == \A e \in Events, u \in Users \ English : pushed[e][u] <= 1

(* Every event is published or set aside for a person in the end, once       *)
(* crashes, late renewals and failed bookkeeping stop.                       *)
Settled == \A e \in Events :
    event[e].state = "open" ~> event[e].state \in {"published", "dead", "both"}
=============================================================================
