------------------------ MODULE OutboxDispatcherProofs ------------------------
(***************************************************************************)
(* Proofs about the dispatcher of the outbox: TypeOK, InboxOnce,           *)
(* EveryoneHasRow and PushedOnce hold for any set of accounts and workers, *)
(* any number of events and any size of a batch.                           *)
(*                                                                         *)
(* What the rows rest on is the order in which this release writes them:   *)
(* nobody gets a row of their own before the bare key of the event is      *)
(* taken (RowsOK), and from then on its owner never changes.  A worker     *)
(* that is about to write the others therefore knows the owner of the bare *)
(* key for good (JobOK), whoever runs beside it.                           *)
(***************************************************************************)
EXTENDS OutboxDispatcher, FiniteSetTheorems, FunctionTheorems, TLAPS

Busy == {"members", "existing", "bare", "owner", "own", "vi", "en", "publish", "failed"}

(* The event a job is at, and who has an inbox row under keys b and o. *)
EvOf(j) == Head(j.batch).ev
Rows(b, o, e) == o[e] \cup ({b[e]} \ {Nobody})

Fresh(batch) == \A i \in DOMAIN batch : batch[i].attempts < MaxDelivery

(* What a job knows where it stands, against the inbox rows. *)
JobOK(j, b, o) ==
    /\ Fresh(j.batch)
    /\ j.at \in Busy => j.batch # <<>>
    /\ j.at \in {"existing", "bare", "owner", "en"} => j.release = "new"
    /\ j.at \in {"existing", "bare", "owner"} => j.targets # {}
    /\ j.at = "bare" => j.owner # Nobody
    /\ j.at = "owner" => b[EvOf(j)] # Nobody
    /\ j.at = "own" /\ j.release = "new" =>
          /\ b[EvOf(j)] # Nobody
          /\ b[EvOf(j)] \notin j.todo
          /\ j.targets \ j.todo \subseteq Rows(b, o, EvOf(j))
    /\ j.at \in Locales /\ j.release = "new" => j.targets \subseteq Rows(b, o, EvOf(j))

JobsOK(js, b, o) ==
    /\ js \in [Workers -> Job]
    /\ \A w \in Workers : JobOK(js[w], b, o)

(* The rows: nobody has one of their own while the bare key is free, and    *)
(* the owner of the bare key never has another.                             *)
RowsOK(b, o) ==
    /\ b \in [Events -> Users \cup {Nobody}]
    /\ o \in [Events -> SUBSET Users]
    /\ \A e \in Events : (o[e] # {} => b[e] # Nobody) /\ b[e] \notin o[e]

(* An event that is not set aside has attempts left. *)
EventsOK(ev) ==
    /\ ev \in [Events -> Event]
    /\ \A e \in Events : ev[e].state \in {"unwritten", "open"} => ev[e].attempts < MaxDelivery

(* A push that reached an account of the default locale used the key of     *)
(* that locale.                                                             *)
PushesOK(ks, ps) ==
    /\ ks \subseteq Events \X Locales
    /\ ps \in [Events -> [Users -> 0 .. 2]]
    /\ \A e \in Events, u \in Users \ English :
          ps[e][u] <= 1 /\ (ps[e][u] > 0 => <<e, "vi">> \in ks)

MembersOK == members \in SUBSET Users /\ Host \in members

IInv ==
    /\ LeaseTypeOK /\ MembersOK /\ EventsOK(event)
    /\ RowsOK(bare, own) /\ PushesOK(keys, pushed) /\ JobsOK(job, bare, own)

(* What no step takes back: a row, and who owns the bare key. *)
Grows(b, o, b2, o2) ==
    \A e \in Events : (b[e] # Nobody => b2[e] = b[e]) /\ o[e] \subseteq o2[e]

-----------------------------------------------------------------------------
(* The batch: the oldest events that are due, in order. *)

Rank(S, e) == Cardinality({d \in S : d <= e})

LEMMA EventsFinite == IsFiniteSet(Events)
  BY FS_Interval, OutboxBounds DEF Events

(* The place of an event among those of a set. *)
LEMMA RankType ==
    ASSUME NEW S \in SUBSET Events, NEW e \in S
    PROVE  Rank(S, e) \in 1 .. Cardinality(S) /\ Rank(S, e) \in Nat /\ IsFiniteSet(S)
  <1>1. IsFiniteSet(S) /\ Cardinality(S) \in Nat
    BY EventsFinite, FS_Subset, FS_CardinalityType
  <1> DEFINE T == {d \in S : d <= e}
  <1>2. T \in SUBSET S
    OBVIOUS
  <1>3. IsFiniteSet(T) /\ Cardinality(T) <= Cardinality(S) /\ Cardinality(T) \in Nat
    BY <1>1, <1>2, FS_Subset, FS_CardinalityType
  <1>4. e \in T
    BY OutboxBounds DEF Events
  <1>5. Cardinality(T) # 0
    BY <1>3, <1>4, FS_EmptySet
  <1> HIDE DEF T
  <1>6. Cardinality(T) \in 1 .. Cardinality(S)
    BY <1>1, <1>3, <1>5
  <1> QED BY <1>1, <1>3, <1>6 DEF T, Rank

(* No two events have the same place. *)
LEMMA RankInjective ==
    ASSUME NEW S \in SUBSET Events, NEW a \in S, NEW b \in S, Rank(S, a) = Rank(S, b)
    PROVE  a = b
  <1>1. IsFiniteSet(S)
    BY RankType
  <1>2. ASSUME NEW c \in S, NEW d \in S, c < d
        PROVE  Rank(S, c) # Rank(S, d)
    <2> DEFINE C == {x \in S : x <= c}
               D == {x \in S : x <= d}
    <2>0. S \subseteq Int
      BY DEF Events
    <2>1. C \in SUBSET D /\ D \in SUBSET S
      <3>1. ASSUME NEW x \in S, x <= c PROVE x <= d
        BY <1>2, <2>0, <3>1
      <3> QED BY <3>1
    <2>2. d \in D /\ d \notin C
      BY <1>2 DEF Events
    <2>3. IsFiniteSet(D)
      BY <1>1, <2>1, FS_Subset
    <2>4. Cardinality(C) # Cardinality(D)
      <3> HIDE DEF C, D
      <3> QED BY <2>1, <2>2, <2>3, FS_Subset
    <2> QED BY <2>4 DEF Rank
  <1>3. a \in Int /\ b \in Int
    BY DEF Events
  <1> QED BY <1>2, <1>3

(* Every place is taken: an injection between finite sets of one size. *)
LEMMA RankOnto ==
    ASSUME NEW S \in SUBSET Events, NEW i \in 1 .. Cardinality(S)
    PROVE  \E e \in S : Rank(S, e) = i
  <1> DEFINE f == [e \in S |-> Rank(S, e)]
             T == 1 .. Cardinality(S)
  <1>1. IsFiniteSet(S) /\ Cardinality(S) \in Nat
    BY EventsFinite, FS_Subset, FS_CardinalityType
  <1>2. f \in [S -> T]
    BY RankType
  <1>3. \A a, b \in S : f[a] = f[b] => a = b
    BY RankInjective
  <1>4. f \in Injection(S, T)
    BY <1>2, <1>3 DEF Injection, IsInjective
  <1>5. IsFiniteSet(T) /\ Cardinality(T) = Cardinality(S)
    BY <1>1, FS_Interval
  <1>6. f \in Surjection(S, T)
    <2> HIDE DEF f, T
    <2> QED BY <1>4, <1>5, FS_Injection
  <1>7. \E e \in S : f[e] = i
    BY <1>6 DEF Surjection
  <1> QED BY <1>7

LEMMA OrderedType ==
    ASSUME NEW S \in SUBSET Events
    PROVE  /\ DOMAIN Ordered(S) = 1 .. Cardinality(S)
           /\ \A i \in 1 .. Cardinality(S) : Ordered(S)[i] \in S
  <1>1. ASSUME NEW i \in 1 .. Cardinality(S)
        PROVE  (CHOOSE e \in S : Rank(S, e) = i) \in S
    BY RankOnto
  <1> QED BY <1>1 DEF Ordered, Rank

LEMMA OldestSize ==
    ASSUME NEW S \in SUBSET Events
    PROVE  /\ Oldest(S) \in SUBSET S
           /\ Cardinality(Oldest(S)) \in 0 .. Limit
  <1> DEFINE O == Oldest(S)
             f == [e \in O |-> Rank(S, e)]
             T == 1 .. Limit
  <1>1. O \in SUBSET S
    BY DEF Oldest
  <1>2. f \in [O -> T]
    <2> SUFFICES ASSUME NEW e \in O PROVE Rank(S, e) \in T
      OBVIOUS
    <2>1. Rank(S, e) <= Limit
      BY DEF Oldest, Rank
    <2>2. Rank(S, e) \in 1 .. Cardinality(S) /\ Rank(S, e) \in Nat
      BY <1>1, RankType
    <2> QED BY <2>1, <2>2, OutboxBounds
  <1>3. \A a, b \in O : f[a] = f[b] => a = b
    BY <1>1, RankInjective
  <1>4. f \in Injection(O, T)
    BY <1>2, <1>3 DEF Injection, IsInjective
  <1>5. IsFiniteSet(T) /\ Cardinality(T) = Limit
    BY OutboxBounds, FS_Interval
  <1>6. IsFiniteSet(O) /\ Cardinality(O) <= Limit
    <2> HIDE DEF f, T, O
    <2> QED BY <1>4, <1>5, FS_Injection
  <1>7. Cardinality(O) \in Nat
    BY <1>6, FS_CardinalityType
  <1> QED BY <1>1, <1>6, <1>7, OutboxBounds

(* The batch that Select reads. *)
LEMMA SelectedBatch ==
    ASSUME NEW S \in SUBSET Events, NEW g, \A e \in S : g[e].attempts \in 0 .. MaxDelivery
    PROVE  LET es == Ordered(Oldest(S))
               b == [i \in DOMAIN es |-> [ev |-> es[i], attempts |-> g[es[i]].attempts]] IN
           /\ b \in Batches
           /\ es # <<>> => b # <<>>
           /\ \A i \in DOMAIN b : \E e \in S : b[i].attempts = g[e].attempts
  <1> DEFINE O == Oldest(S)
             n == Cardinality(O)
             es == Ordered(O)
             b == [i \in DOMAIN es |-> [ev |-> es[i], attempts |-> g[es[i]].attempts]]
  <1>1. O \in SUBSET S /\ n \in 0 .. Limit
    BY OldestSize
  <1>2. DOMAIN es = 1 .. n /\ \A i \in 1 .. n : es[i] \in S
    BY <1>1, OrderedType
  <1> HIDE DEF es, n
  <1>3. b \in [1 .. n -> Item]
    BY <1>2 DEF Item
  <1>4. b \in Batches
    BY <1>1, <1>3 DEF Batches
  <1>5. es # <<>> => b # <<>>
    <2> SUFFICES ASSUME b = <<>> PROVE es = <<>>
      OBVIOUS
    <2>1. DOMAIN b = {}
      OBVIOUS
    <2>2. 1 .. n = {}
      BY <1>2, <2>1
    <2>3. es = [i \in 1 .. n |-> es[i]]
      BY <1>2 DEF es, n, Ordered
    <2> QED BY <2>2, <2>3
  <1>6. \A i \in DOMAIN b : \E e \in S : b[i].attempts = g[e].attempts
    BY <1>2
  <1> QED BY <1>4, <1>5, <1>6 DEF es

LEMMA BatchParts ==
    ASSUME NEW b \in Batches, b # <<>>
    PROVE  /\ Head(b) \in Item /\ Head(b).ev \in Events /\ 1 \in DOMAIN b
           /\ Tail(b) \in Batches
           /\ Fresh(b) => Fresh(Tail(b)) /\ Head(b).attempts < MaxDelivery
  <1> PICK n \in 0 .. Limit : b \in [1 .. n -> Item]
    BY DEF Batches
  <1>1. n \in Nat /\ n # 0 /\ DOMAIN b = 1 .. n
    BY OutboxBounds
  <1>2. b \in Seq(Item) /\ Len(b) = n
    BY <1>1
  <1>3. Head(b) = b[1] /\ 1 \in 1 .. n
    BY <1>1, <1>2
  <1>4. Tail(b) \in [1 .. n - 1 -> Item] /\ \A i \in 1 .. n - 1 : Tail(b)[i] = b[i + 1]
    <2>1. Tail(b) \in Seq(Item) /\ Len(Tail(b)) = n - 1
      BY <1>1, <1>2
    <2>2. \A i \in 1 .. n - 1 : Tail(b)[i] = b[i + 1]
      BY <1>1, <1>2
    <2>3. Tail(b) \in [1 .. Len(Tail(b)) -> Item]
      <3> HIDE DEF Item
      <3> DEFINE t == Tail(b)
      <3>1. t \in Seq(Item)
        BY <2>1
      <3> HIDE DEF t
      <3>2. t \in [1 .. Len(t) -> Item]
        BY <3>1
      <3> QED BY <3>2 DEF t
    <2> QED BY <2>1, <2>2, <2>3
  <1>5. n - 1 \in 0 .. Limit
    BY <1>1, OutboxBounds
  <1>6. Tail(b) \in Batches
    BY <1>4, <1>5 DEF Batches
  <1>7. ASSUME Fresh(b) PROVE Fresh(Tail(b)) /\ Head(b).attempts < MaxDelivery
    BY <1>1, <1>3, <1>4, <1>7 DEF Fresh
  <1> QED BY <1>1, <1>3, <1>6, <1>7 DEF Item

-----------------------------------------------------------------------------
(* Steps of one worker, against the rows. *)

LEMMA NoJobOK ==
    ASSUME NEW b, NEW o, NEW at \in {"idle", "release"}
    PROVE  /\ NoJob \in Job /\ JobOK(NoJob, b, o)
           /\ LET x == [NoJob EXCEPT !.at = at] IN x \in Job /\ JobOK(x, b, o)
  <1>1. <<>> \in Batches
    <2>1. <<>> \in [1 .. 0 -> Item] /\ 0 \in 0 .. Limit
      BY OutboxBounds
    <2> QED BY <2>1 DEF Batches
  <1>2. Fresh(<<>>)
    BY DEF Fresh
  <1>3. NoJob \in Job
    BY <1>1 DEF NoJob, Job
  <1> DEFINE x == [NoJob EXCEPT !.at = at]
  <1>4. x \in Job
    BY <1>3 DEF Job
  <1>5. x.at = at /\ x.batch = <<>>
    BY DEF NoJob
  <1> HIDE DEF x
  <1>6. JobOK(x, b, o)
    BY <1>2, <1>5 DEF JobOK, Busy, Locales
  <1>7. NoJob.at = "idle" /\ NoJob.batch = <<>>
    BY DEF NoJob
  <1>8. JobOK(NoJob, b, o)
    <2> HIDE DEF NoJob
    <2> QED BY <1>2, <1>7 DEF JobOK, Busy, Locales
  <1> QED BY <1>3, <1>4, <1>6, <1>8 DEF x

(* What a job knows stays true while the rows grow. *)
LEMMA JobKept ==
    ASSUME NEW j \in Job, NEW b, NEW o, NEW b2, NEW o2, JobOK(j, b, o), Grows(b, o, b2, o2)
    PROVE  JobOK(j, b2, o2)
  <1>1. CASE j.at \notin Busy
    BY <1>1 DEF JobOK, Busy, Locales
  <1>2. CASE j.at \in Busy
    <2> DEFINE e == EvOf(j)
    <2>1. j.batch \in Batches /\ j.batch # <<>>
      BY <1>2 DEF JobOK, Job
    <2>2. e \in Events
      BY <2>1, BatchParts DEF EvOf
    <2> HIDE DEF e
    <2>3. (b[e] # Nobody => b2[e] = b[e]) /\ o[e] \subseteq o2[e]
      BY <2>2 DEF Grows
    <2>4. Rows(b, o, e) \subseteq Rows(b2, o2, e)
      BY <2>3 DEF Rows
    <2> QED BY <2>3, <2>4 DEF JobOK, e
  <1> QED BY <1>1, <1>2

LEMMA JobStep ==
    ASSUME NEW js, NEW w \in Workers, NEW x \in Job, NEW b, NEW o, NEW b2, NEW o2,
           JobsOK(js, b, o), Grows(b, o, b2, o2), JobOK(x, b2, o2)
    PROVE  JobsOK([js EXCEPT ![w] = x], b2, o2)
  <1> DEFINE y == [js EXCEPT ![w] = x]
  <1>1. y \in [Workers -> Job]
    BY DEF JobsOK
  <1>2. ASSUME NEW v \in Workers PROVE JobOK(y[v], b2, o2)
    <2>1. CASE v = w
      BY <2>1 DEF JobsOK
    <2>2. CASE v # w
      BY <2>2, JobKept DEF JobsOK
    <2> QED BY <2>1, <2>2
  <1> QED BY <1>1, <1>2 DEF JobsOK

LEMMA SameRows == \A b, o : Grows(b, o, b, o)
  BY DEF Grows

(* The job of a worker, as its actions use it. *)
LEMMA JobFacts ==
    ASSUME IInv, NEW w \in Workers
    PROVE  /\ job[w] \in Job /\ JobOK(job[w], bare, own) /\ JobsOK(job, bare, own)
           /\ job[w].at \in Busy =>
                /\ job[w].batch \in Batches /\ job[w].batch # <<>>
                /\ Ev(w) \in Events /\ Ev(w) = EvOf(job[w])
  <1>1. job[w] \in Job /\ JobOK(job[w], bare, own)
    BY DEF IInv, JobsOK
  <1>2. ASSUME job[w].at \in Busy PROVE job[w].batch \in Batches /\ job[w].batch # <<>>
    BY <1>1, <1>2 DEF JobOK, Job
  <1>3. ASSUME job[w].at \in Busy PROVE Ev(w) \in Events
    BY <1>2, <1>3, BatchParts DEF Ev, Item1
  <1> QED BY <1>1, <1>2, <1>3 DEF IInv, Ev, Item1, EvOf

(* A worker that is set to at without a claim about rows. *)
LEMMA GotoPlain ==
    ASSUME IInv, NEW w \in Workers, NEW at \in {"publish", "failed"},
           job[w].at \in Busy, Goto(w, at)
    PROVE  JobsOK(job', bare, own)
  <1> DEFINE x == [job[w] EXCEPT !.at = at]
  <1>1. job[w] \in Job /\ JobOK(job[w], bare, own) /\ JobsOK(job, bare, own)
        /\ job[w].batch # <<>>
    BY JobFacts
  <1>2. x \in Job /\ x.at = at /\ x.batch = job[w].batch
    BY <1>1 DEF Job
  <1>3. job' = [job EXCEPT ![w] = x]
    BY DEF Goto
  <1> HIDE DEF x
  <1>4. JobOK(x, bare, own)
    BY <1>1, <1>2 DEF JobOK, Busy, Locales
  <1> QED BY <1>1, <1>2, <1>3, <1>4, JobStep, SameRows

-----------------------------------------------------------------------------
(* The room, the events and the lease. *)

(* What is left of a step of a worker that only its job tells. *)
LEMMA OnlyJob ==
    ASSUME IInv, JobsOK(job', bare, own),
           UNCHANGED <<leaseVars, members, event, bare, own, keys, pushed>>
    PROVE  IInv'
  BY DEF IInv, LeaseTypeOK, leaseVars, MembersOK, EventsOK, RowsOK, PushesOK

LEMMA MembersChangeKeeps ==
    ASSUME IInv, NEW u \in Users, MembersChange(u) PROVE IInv'
  <1>1. MembersOK'
    BY DEF IInv, MembersOK, MembersChange
  <1> QED
    BY <1>1 DEF IInv, LeaseTypeOK, leaseVars, EventsOK, RowsOK, PushesOK, MembersChange

(* A step that writes an event, and nothing but an event and a job. *)
LEMMA EventStep ==
    ASSUME IInv, EventsOK(event'), JobsOK(job', bare, own),
           UNCHANGED <<leaseVars, members, bare, own, keys, pushed>>
    PROVE  IInv'
  BY DEF IInv, LeaseTypeOK, leaseVars, MembersOK, RowsOK, PushesOK

LEMMA WriteOutboxKeeps ==
    ASSUME IInv, NEW e \in Events, NEW a \in {"nobody", "host", "room"}, WriteOutbox(e, a)
    PROVE  IInv'
  <1>1. EventsOK(event')
    <2> DEFINE x == [event[e] EXCEPT !.state = "open", !.audience = a]
    <2>1. event \in [Events -> Event] /\ event[e] \in Event
      BY DEF IInv, EventsOK
    <2>2. x \in Event /\ x.attempts = event[e].attempts /\ event[e].attempts < MaxDelivery
      BY <2>1 DEF Event, WriteOutbox, IInv, EventsOK
    <2>3. event' = [event EXCEPT ![e] = x]
      BY DEF WriteOutbox
    <2> HIDE DEF x
    <2> QED BY <2>1, <2>2, <2>3 DEF IInv, EventsOK
  <1>2. JobsOK(job', bare, own)
    BY DEF WriteOutbox, IInv
  <1> QED BY <1>1, <1>2, EventStep DEF WriteOutbox

LEMMA ElapseKeeps ==
    ASSUME IInv, NEW e \in Events, Elapse(e) PROVE IInv'
  <1>1. EventsOK(event')
    <2> DEFINE x == [event[e] EXCEPT !.due = "yes"]
    <2>1. event \in [Events -> Event] /\ event[e] \in Event
      BY DEF IInv, EventsOK
    <2>2. x \in Event /\ x.attempts = event[e].attempts /\ x.state = event[e].state
      BY <2>1 DEF Event
    <2>3. event' = [event EXCEPT ![e] = x]
      BY DEF Elapse
    <2> HIDE DEF x
    <2> QED BY <2>1, <2>2, <2>3 DEF IInv, EventsOK
  <1>2. JobsOK(job', bare, own)
    BY DEF Elapse, IInv
  <1> QED BY <1>1, <1>2, EventStep DEF Elapse

LEMMA FaultType ==
    ASSUME LeaseTypeOK, Fault \/ UNCHANGED faults PROVE faults' \in 0 .. MaxFaults
  BY LeaseBounds DEF LeaseTypeOK, Fault

(* A step of the lease, and of a job with it. *)
LEMMA LeaseStepKeeps ==
    ASSUME IInv, LeaseTypeOK', JobsOK(job', bare, own),
           UNCHANGED <<members, event, bare, own, keys, pushed>>
    PROVE  IInv'
  BY DEF IInv, MembersOK, EventsOK, RowsOK, PushesOK

LEMMA LeaseTypes ==
    ASSUME LeaseTypeOK, NEW w \in Workers, Acquire(w) \/ RunsOut \/ Lose(w) \/ Release(w) \/ Die(w)
    PROVE  LeaseTypeOK'
  <1>1. CASE Acquire(w)
    BY <1>1 DEF LeaseTypeOK, Acquire
  <1>2. CASE RunsOut
    <2>1. faults' \in 0 .. MaxFaults
      BY <1>2, FaultType DEF RunsOut
    <2> QED BY <1>2, <2>1 DEF LeaseTypeOK, RunsOut
  <1>3. CASE Lose(w)
    <2>1. faults' \in 0 .. MaxFaults
      BY <1>3, FaultType DEF Lose
    <2> QED BY <1>3, <2>1 DEF LeaseTypeOK, Lose
  <1>4. CASE Release(w)
    BY <1>4 DEF LeaseTypeOK, Release
  <1>5. CASE Die(w)
    <2>1. faults' \in 0 .. MaxFaults
      BY <1>5, FaultType DEF Die
    <2> QED BY <1>5, <2>1 DEF LeaseTypeOK, Die
  <1> QED BY <1>1, <1>2, <1>3, <1>4, <1>5

LEMMA LeaseStepOK ==
    ASSUME IInv, LeaseStep PROVE IInv'
  <1>1. UNCHANGED outboxVars
    BY DEF LeaseStep
  <1>2. CASE RunsOut
    <2>1. LeaseTypeOK'
      <3>1. faults' \in 0 .. MaxFaults
        BY <1>2, FaultType DEF RunsOut, IInv
      <3> QED BY <1>2, <3>1 DEF LeaseTypeOK, RunsOut, IInv
    <2> QED BY <1>1, <2>1, LeaseStepKeeps DEF outboxVars, IInv
  <1>3. CASE \E w \in Workers : Lose(w)
    BY <1>1, <1>3, LeaseTypes, LeaseStepKeeps DEF outboxVars, IInv
  <1> QED BY <1>2, <1>3 DEF LeaseStep

LEMMA TickKeeps ==
    ASSUME IInv, NEW w \in Workers, NEW r \in Releases, Tick(w, r) PROVE IInv'
  <1> DEFINE x == [job[w] EXCEPT !.at = "select", !.release = r]
  <1>1. LeaseTypeOK'
    BY LeaseTypes DEF Tick, IInv
  <1>2. job[w] \in Job /\ JobOK(job[w], bare, own) /\ JobsOK(job, bare, own)
    BY JobFacts
  <1>3. r \in {"new", "old"}
    BY OutboxBounds
  <1>4. x \in Job /\ x.at = "select" /\ x.batch = job[w].batch
    BY <1>2, <1>3 DEF Job
  <1>5. job' = [job EXCEPT ![w] = x]
    BY DEF Tick
  <1> HIDE DEF x
  <1>6. JobOK(x, bare, own)
    BY <1>2, <1>4 DEF JobOK, Busy, Locales
  <1>7. JobsOK(job', bare, own)
    BY <1>2, <1>4, <1>5, <1>6, JobStep, SameRows
  <1> QED BY <1>1, <1>7, LeaseStepKeeps DEF Tick

(* A tick that ends, with or without its lease. *)
LEMMA EndKeeps ==
    ASSUME IInv, NEW w \in Workers, BatchError(w) \/ EndTick(w) \/ Crash(w) PROVE IInv'
  <1>1. JobsOK(job, bare, own)
    BY DEF IInv
  <1>2. CASE BatchError(w)
    <2> DEFINE x == [NoJob EXCEPT !.at = "release"]
    <2>1. x \in Job /\ JobOK(x, bare, own)
      BY NoJobOK
    <2>2. job' = [job EXCEPT ![w] = x]
      BY <1>2 DEF BatchError, NoJob
    <2>3. JobsOK(job', bare, own)
      <3> HIDE DEF x
      <3> QED BY <1>1, <2>1, <2>2, JobStep, SameRows
    <2>4. faults' \in 0 .. MaxFaults
      BY <1>2, FaultType DEF BatchError, IInv
    <2>5. LeaseTypeOK'
      BY <1>2, <2>4 DEF BatchError, LeaseTypeOK, IInv
    <2> QED BY <1>2, <2>3, <2>5, LeaseStepKeeps DEF BatchError
  <1>3. CASE EndTick(w) \/ Crash(w)
    <2>1. NoJob \in Job /\ JobOK(NoJob, bare, own)
      BY NoJobOK
    <2>2. job' = [job EXCEPT ![w] = NoJob]
      BY <1>3 DEF EndTick, Crash
    <2>3. JobsOK(job', bare, own)
      BY <1>1, <2>1, <2>2, JobStep, SameRows
    <2>4. LeaseTypeOK'
      BY <1>3, LeaseTypes DEF EndTick, Crash, IInv
    <2> QED BY <1>3, <2>3, <2>4, LeaseStepKeeps DEF EndTick, Crash
  <1> QED BY <1>2, <1>3

-----------------------------------------------------------------------------
(* The fan-out of one event. *)

LEMMA SelectKeeps ==
    ASSUME IInv, NEW w \in Workers, Select(w) PROVE IInv'
  <1> DEFINE S == {e \in Events : Selectable(e)}
             es == Ordered(Oldest(S))
             b == [i \in DOMAIN es |-> [ev |-> es[i], attempts |-> event[es[i]].attempts]]
             at == IF es = <<>> THEN "release" ELSE "members"
             x == [job[w] EXCEPT !.at = at, !.batch = b]
  <1>1. job[w] \in Job /\ JobOK(job[w], bare, own) /\ JobsOK(job, bare, own)
    BY JobFacts
  <1>2. \A e \in Events : event[e].attempts \in 0 .. MaxDelivery
    BY DEF IInv, EventsOK, Event
  <1>3. S \in SUBSET Events /\ \A e \in S : event[e].attempts < MaxDelivery
    BY DEF Selectable, IInv, EventsOK
  <1>4. b \in Batches /\ (es # <<>> => b # <<>>)
        /\ \A i \in DOMAIN b : \E e \in S : b[i].attempts = event[e].attempts
    <2> HIDE DEF S
    <2> QED BY <1>2, <1>3, SelectedBatch
  <1>5. Fresh(b)
    <2> HIDE DEF b, S
    <2> QED BY <1>3, <1>4 DEF Fresh
  <1>6. job' = [job EXCEPT ![w] = x]
    BY DEF Select
  <1>7. at \in {"release", "members"} /\ (at = "members" => es # <<>>)
    OBVIOUS
  <1> HIDE DEF b, at, es
  <1>8. x \in Job /\ x.at = at /\ x.batch = b
    BY <1>1, <1>4, <1>7 DEF Job
  <1> HIDE DEF x
  <1>9. JobOK(x, bare, own)
    BY <1>4, <1>5, <1>7, <1>8 DEF JobOK, Busy, Locales
  <1>10. JobsOK(job', bare, own)
    BY <1>1, <1>6, <1>8, <1>9, JobStep, SameRows
  <1> QED BY <1>10, OnlyJob DEF Select

LEMMA MembersKeeps ==
    ASSUME IInv, NEW w \in Workers, Members(w) PROVE IInv'
  <1> DEFINE ts == Audience(Ev(w))
             at == CASE ts = {} -> "publish"
                     [] ts # {} /\ job[w].release = "old" -> "own"
                     [] OTHER -> "existing"
             x == [job[w] EXCEPT !.targets = ts, !.todo = ts, !.at = at]
  <1>1. job[w] \in Job /\ JobOK(job[w], bare, own) /\ JobsOK(job, bare, own)
        /\ Ev(w) \in Events /\ job[w].batch # <<>>
    BY JobFacts DEF Members, Busy
  <1>2. ts \in SUBSET Users
    <2>1. event[Ev(w)].audience \in {"nobody", "host", "room"}
      BY <1>1 DEF IInv, EventsOK, Event
    <2> QED BY <2>1, OutboxBounds DEF Audience, IInv, MembersOK
  <1> HIDE DEF ts
  <1>3. job[w].release \in {"new", "old"}
    BY <1>1 DEF Job
  <1>4. /\ at \in {"publish", "own", "existing"}
        /\ at = "own" => job[w].release = "old"
        /\ at = "existing" => job[w].release = "new" /\ ts # {}
    BY <1>3
  <1>5. job' = [job EXCEPT ![w] = x]
    BY DEF Members, ts
  <1> HIDE DEF at
  <1>6. x \in Job /\ x.at = at /\ x.batch = job[w].batch /\ x.targets = ts
        /\ x.release = job[w].release
    BY <1>1, <1>2, <1>4 DEF Job
  <1> HIDE DEF x
  <1>7. JobOK(x, bare, own)
    BY <1>1, <1>4, <1>6 DEF JobOK, Busy, Locales
  <1>8. JobsOK(job', bare, own)
    BY <1>1, <1>5, <1>6, <1>7, JobStep, SameRows
  <1> QED BY <1>8, OnlyJob DEF Members

LEMMA ExistingKeeps ==
    ASSUME IInv, NEW w \in Workers, Existing(w) PROVE IInv'
  <1> DEFINE without == job[w].targets \ HasRow(Ev(w))
             e == Ev(w)
  <1>1. /\ job[w] \in Job /\ JobOK(job[w], bare, own) /\ JobsOK(job, bare, own)
        /\ e \in Events /\ e = EvOf(job[w]) /\ job[w].batch # <<>>
        /\ job[w].release = "new" /\ job[w].targets # {} /\ job[w].targets \in SUBSET Users
    BY JobFacts DEF Existing, Busy, JobOK, Job
  <1> HIDE DEF e
  <1>2. CASE without = {} /\ Goto(w, "owner")
    <2> DEFINE x == [job[w] EXCEPT !.at = "owner"]
    <2>1. bare[e] # Nobody
      BY <1>1, <1>2 DEF HasRow, IInv, RowsOK, e
    <2>2. x \in Job /\ x.at = "owner" /\ x.batch = job[w].batch /\ x.targets = job[w].targets
          /\ x.release = job[w].release /\ EvOf(x) = e
      BY <1>1 DEF Job, EvOf
    <2>3. job' = [job EXCEPT ![w] = x]
      BY <1>2 DEF Goto
    <2> HIDE DEF x
    <2>4. JobOK(x, bare, own)
      BY <1>1, <2>1, <2>2 DEF JobOK, Busy, Locales
    <2>5. JobsOK(job', bare, own)
      BY <1>1, <2>2, <2>3, <2>4, JobStep, SameRows
    <2> QED BY <2>5, OnlyJob DEF Existing
  <1>3. ASSUME NEW u \in without, job' = [job EXCEPT ![w].at = "bare", ![w].owner = u]
        PROVE  IInv'
    <2> DEFINE x == [job[w] EXCEPT !.at = "bare", !.owner = u]
    <2>1. u \in Users /\ u # Nobody
      BY <1>1, OutboxBounds
    <2>2. x \in Job /\ x.at = "bare" /\ x.batch = job[w].batch /\ x.targets = job[w].targets
          /\ x.release = job[w].release /\ x.owner = u
      BY <1>1, <2>1 DEF Job
    <2>3. job' = [job EXCEPT ![w] = x]
      BY <1>3
    <2> HIDE DEF x
    <2>4. JobOK(x, bare, own)
      BY <1>1, <2>1, <2>2 DEF JobOK, Busy, Locales
    <2>5. JobsOK(job', bare, own)
      BY <1>1, <2>2, <2>3, <2>4, JobStep, SameRows
    <2> QED BY <2>5, OnlyJob DEF Existing
  <1> QED BY <1>2, <1>3 DEF Existing

(* Inserting under the bare key: nobody who already owns it loses it. *)
LEMMA BareRows ==
    ASSUME NEW e \in Events, NEW u \in Users, RowsOK(bare, own)
    PROVE  /\ RowsOK(BareInsert(e, u), own)
           /\ Grows(bare, own, BareInsert(e, u), own)
           /\ BareInsert(e, u)[e] # Nobody
  <1>1. CASE bare[e] = Nobody
    <2>1. BareInsert(e, u) = [bare EXCEPT ![e] = u]
      BY <1>1 DEF BareInsert
    <2>2. own[e] = {}
      BY <1>1 DEF RowsOK
    <2> QED BY <1>1, <2>1, <2>2, OutboxBounds DEF RowsOK, Grows
  <1>2. CASE bare[e] # Nobody
    BY <1>2 DEF BareInsert, Grows
  <1> QED BY <1>1, <1>2

(* A step that writes rows and a job. *)
LEMMA RowStep ==
    ASSUME IInv, RowsOK(bare', own'), JobsOK(job', bare', own'),
           UNCHANGED <<leaseVars, members, event, keys, pushed>>
    PROVE  IInv'
  BY DEF IInv, LeaseTypeOK, leaseVars, MembersOK, EventsOK, PushesOK

LEMMA InsertBareKeeps ==
    ASSUME IInv, NEW w \in Workers, InsertBare(w) PROVE IInv'
  <1> DEFINE e == Ev(w)
             x == [job[w] EXCEPT !.at = "owner"]
  <1>1. /\ job[w] \in Job /\ JobOK(job[w], bare, own) /\ JobsOK(job, bare, own)
        /\ e \in Events /\ e = EvOf(job[w]) /\ job[w].batch # <<>>
        /\ job[w].release = "new" /\ job[w].targets # {} /\ job[w].owner \in Users
    BY JobFacts DEF InsertBare, Busy, JobOK, Job
  <1>2. x \in Job /\ x.at = "owner" /\ x.batch = job[w].batch /\ x.targets = job[w].targets
        /\ x.release = job[w].release /\ EvOf(x) = e
    BY <1>1 DEF Job, EvOf
  <1>3. job' = [job EXCEPT ![w] = x] /\ bare' = BareInsert(e, job[w].owner) /\ own' = own
    BY DEF InsertBare, Goto
  <1> HIDE DEF x, e
  <1>4. RowsOK(bare', own') /\ Grows(bare, own, bare', own') /\ bare'[e] # Nobody
    BY <1>1, <1>3, BareRows DEF IInv
  <1>5. JobOK(x, bare', own')
    BY <1>1, <1>2, <1>4 DEF JobOK, Busy, Locales
  <1>6. JobsOK(job', bare', own')
    BY <1>1, <1>2, <1>3, <1>4, <1>5, JobStep
  <1> QED BY <1>4, <1>6, RowStep DEF InsertBare

LEMMA OwnerKeeps ==
    ASSUME IInv, NEW w \in Workers, Owner(w) PROVE IInv'
  <1> DEFINE e == Ev(w)
             todo == job[w].targets \ {bare[e]}
             x == [job[w] EXCEPT !.at = "own", !.owner = Nobody, !.todo = todo]
  <1>1. /\ job[w] \in Job /\ JobOK(job[w], bare, own) /\ JobsOK(job, bare, own)
        /\ e \in Events /\ e = EvOf(job[w]) /\ job[w].batch # <<>>
        /\ bare[e] # Nobody /\ job[w].targets \in SUBSET Users
    BY JobFacts DEF Owner, Busy, JobOK, Job
  <1>2. x \in Job /\ x.at = "own" /\ x.batch = job[w].batch /\ x.targets = job[w].targets
        /\ x.todo = todo /\ EvOf(x) = e
    BY <1>1 DEF Job, EvOf
  <1>3. job' = [job EXCEPT ![w] = x]
    BY DEF Owner
  <1>4. bare[e] \notin todo /\ job[w].targets \ todo \subseteq Rows(bare, own, e)
    BY <1>1 DEF Rows
  <1> HIDE DEF x, e, todo
  <1>5. JobOK(x, bare, own)
    BY <1>1, <1>2, <1>4 DEF JobOK, Busy, Locales
  <1>6. JobsOK(job', bare, own)
    BY <1>1, <1>2, <1>3, <1>5, JobStep, SameRows
  <1> QED BY <1>6, OnlyJob DEF Owner

LEMMA InsertOwnKeeps ==
    ASSUME IInv, NEW w \in Workers, InsertOwn(w) PROVE IInv'
  <1> DEFINE e == Ev(w)
             j == job[w]
  <1>1. /\ j \in Job /\ JobOK(j, bare, own) /\ JobsOK(job, bare, own)
        /\ e \in Events /\ e = EvOf(j) /\ j.batch # <<>> /\ Fresh(j.batch)
        /\ bare[e] # Nobody /\ bare[e] \notin j.todo /\ j.todo \in SUBSET Users
        /\ j.targets \ j.todo \subseteq Rows(bare, own, e) /\ j.release = "new"
    BY JobFacts DEF InsertOwn, Busy, JobOK, Job
  <1>2. RowsOK(bare, own)
    BY DEF IInv
  <1>3. ASSUME NEW u \in j.todo, own' = [own EXCEPT ![e] = @ \cup {u}],
               job' = [job EXCEPT ![w].todo = @ \ {u}]
        PROVE  IInv'
    <2> DEFINE x == [j EXCEPT !.todo = j.todo \ {u}]
    <2>1. x \in Job /\ x.at = "own" /\ x.batch = j.batch /\ x.targets = j.targets
          /\ x.todo = j.todo \ {u} /\ x.release = "new" /\ EvOf(x) = e
      BY <1>1 DEF Job, EvOf, InsertOwn
    <2>2. job' = [job EXCEPT ![w] = x] /\ bare' = bare
      BY <1>3 DEF InsertOwn
    <2> HIDE DEF x, e, j
    <2>3. RowsOK(bare', own') /\ Grows(bare, own, bare', own')
      BY <1>1, <1>2, <1>3, <2>2 DEF RowsOK, Grows
    <2>4. own'[e] = own[e] \cup {u}
      BY <1>1, <1>2, <1>3 DEF RowsOK
    <2>5. j.targets \ (j.todo \ {u}) \subseteq Rows(bare', own', e)
      BY <1>1, <2>2, <2>4 DEF Rows
    <2>6. JobOK(x, bare', own')
      BY <1>1, <2>1, <2>2, <2>5 DEF JobOK, Busy, Locales
    <2>7. JobsOK(job', bare', own')
      BY <1>1, <2>1, <2>2, <2>3, <2>6, JobStep
    <2> QED BY <2>3, <2>7, RowStep DEF InsertOwn
  <1>4. CASE j.todo = {} /\ Goto(w, "vi") /\ UNCHANGED own
    <2> DEFINE x == [j EXCEPT !.at = "vi"]
    <2>1. x \in Job /\ x.at = "vi" /\ x.batch = j.batch /\ x.targets = j.targets
          /\ EvOf(x) = e
      BY <1>1 DEF Job, EvOf
    <2>2. job' = [job EXCEPT ![w] = x]
      BY <1>4 DEF Goto
    <2>3. j.targets \subseteq Rows(bare, own, e)
      BY <1>1, <1>4
    <2> HIDE DEF x, e, j
    <2>4. JobOK(x, bare, own)
      BY <1>1, <2>1, <2>3 DEF JobOK, Busy, Locales
    <2>5. JobsOK(job', bare, own)
      BY <1>1, <2>1, <2>2, <2>4, JobStep, SameRows
    <2> QED BY <1>4, <2>5, OnlyJob DEF InsertOwn
  <1> QED BY <1>3, <1>4 DEF InsertOwn

LEMMA InsertOldKeeps ==
    ASSUME IInv, NEW w \in Workers, InsertOld(w) PROVE IInv'
  <1> DEFINE e == Ev(w)
             j == job[w]
  <1>1. /\ j \in Job /\ JobOK(j, bare, own) /\ JobsOK(job, bare, own)
        /\ e \in Events /\ j.batch # <<>> /\ Fresh(j.batch)
        /\ j.todo \in SUBSET Users /\ j.release = "old" /\ j.at = "own"
    BY JobFacts DEF InsertOld, Busy, JobOK, Job
  <1>2. ASSUME NEW u \in j.todo, bare' = BareInsert(e, u),
               job' = [job EXCEPT ![w].todo = @ \ {u}]
        PROVE  IInv'
    <2> DEFINE x == [j EXCEPT !.todo = j.todo \ {u}]
    <2>1. x \in Job /\ x.at = "own" /\ x.batch = j.batch /\ x.release = "old"
      BY <1>1 DEF Job
    <2>2. job' = [job EXCEPT ![w] = x] /\ own' = own
      BY <1>2 DEF InsertOld
    <2> HIDE DEF x, e, j
    <2>3. RowsOK(bare', own') /\ Grows(bare, own, bare', own')
      BY <1>1, <1>2, <2>2, BareRows DEF IInv
    <2>4. JobOK(x, bare', own')
      BY <1>1, <2>1 DEF JobOK, Busy, Locales
    <2>5. JobsOK(job', bare', own')
      BY <1>1, <2>1, <2>2, <2>3, <2>4, JobStep
    <2> QED BY <2>3, <2>5, RowStep DEF InsertOld
  <1>3. CASE j.todo = {} /\ Goto(w, "vi") /\ UNCHANGED bare
    <2> DEFINE x == [j EXCEPT !.at = "vi"]
    <2>1. x \in Job /\ x.at = "vi" /\ x.batch = j.batch /\ x.release = "old"
      BY <1>1 DEF Job
    <2>2. job' = [job EXCEPT ![w] = x]
      BY <1>3 DEF Goto
    <2> HIDE DEF x, e, j
    <2>3. JobOK(x, bare, own)
      BY <1>1, <2>1 DEF JobOK, Busy, Locales
    <2>4. JobsOK(job', bare, own)
      BY <1>1, <2>1, <2>2, <2>3, JobStep, SameRows
    <2> QED BY <1>3, <2>4, OnlyJob DEF InsertOld
  <1> QED BY <1>2, <1>3 DEF InsertOld

LEMMA FanOutErrorKeeps ==
    ASSUME IInv, NEW w \in Workers, FanOutError(w) PROVE IInv'
  <1>1. JobsOK(job', bare, own)
    BY GotoPlain DEF FanOutError, Busy
  <1> QED BY <1>1, OnlyJob DEF FanOutError

-----------------------------------------------------------------------------
(* The pushes, and the end of an event. *)

(* The provider takes a push of an event to a group under the key of l. *)
Accepts(ks, ps, ks2, ps2, e, l, group) ==
    /\ ks2 = ks \cup {<<e, l>>}
    /\ ps2 = IF <<e, l>> \in ks THEN ps
             ELSE [ps EXCEPT ![e] = [u \in Users |-> IF u \in group /\ @[u] < 2
                                                     THEN @[u] + 1 ELSE @[u]]]

(* What the provider counts as one push reaches an account of the default   *)
(* locale once: its group is pushed under the key of that locale only.      *)
LEMMA Accepted ==
    ASSUME NEW ks, NEW ps, NEW e \in Events, NEW l \in Locales, NEW group \in SUBSET Users,
           PushesOK(ks, ps), l = "en" => group \subseteq English,
           NEW ks3, NEW ps3, Accepts(ks, ps, ks3, ps3, e, l, group)
    PROVE  PushesOK(ks3, ps3)
  <1> DEFINE k == <<e, l>>
             f == [u \in Users |-> IF u \in group /\ ps[e][u] < 2 THEN ps[e][u] + 1
                                   ELSE ps[e][u]]
             ps2 == [ps EXCEPT ![e] = f]
             ks2 == ks \cup {k}
  <1>1. ks2 \subseteq Events \X Locales
    BY DEF PushesOK
  <1>2. CASE k \in ks
    BY <1>1, <1>2 DEF PushesOK, Accepts
  <1>3. CASE k \notin ks
    <2>0. ps \in [Events -> [Users -> 0 .. 2]] /\ ps[e] \in [Users -> 0 .. 2]
      BY DEF PushesOK
    <2>1. f \in [Users -> 0 .. 2]
      <3> SUFFICES ASSUME NEW u \in Users PROVE f[u] \in 0 .. 2
        OBVIOUS
      <3>1. ps[e][u] \in 0 .. 2
        BY <2>0
      <3> QED BY <3>1
    <2>2. ASSUME NEW u \in Users \ English
          PROVE  f[u] <= 1 /\ (f[u] > 0 => <<e, "vi">> \in ks2)
      <3>1. ps[e][u] \in 0 .. 2 /\ ps[e][u] <= 1 /\ (ps[e][u] > 0 => <<e, "vi">> \in ks)
        BY <2>0 DEF PushesOK
      <3>2. CASE l = "vi"
        <4>1. ps[e][u] = 0
          BY <1>3, <3>1, <3>2
        <4> QED BY <3>2, <4>1
      <3>3. CASE l = "en"
        <4>1. f[u] = ps[e][u]
          BY <3>3
        <4> QED BY <3>1, <4>1
      <3> QED BY <3>2, <3>3 DEF Locales
    <2>3. ps2 \in [Events -> [Users -> 0 .. 2]]
      BY <2>0, <2>1
    <2>4. ASSUME NEW d \in Events, NEW u \in Users \ English
          PROVE  ps2[d][u] <= 1 /\ (ps2[d][u] > 0 => <<d, "vi">> \in ks2)
      <3> HIDE DEF f
      <3>1. CASE d = e
        <4>1. ps2[d] = f
          BY <2>0, <3>1
        <4> QED BY <2>2, <3>1, <4>1
      <3>2. CASE d # e
        <4>1. ps2[d] = ps[d]
          BY <2>0, <3>2
        <4>2. ps[d][u] <= 1 /\ (ps[d][u] > 0 => <<d, "vi">> \in ks)
          BY DEF PushesOK
        <4> QED BY <4>1, <4>2
      <3> QED BY <3>1, <3>2
    <2>5. PushesOK(ks2, ps2)
      <3> HIDE DEF ps2, ks2
      <3> QED BY <1>1, <2>3, <2>4 DEF PushesOK
    <2> QED BY <1>3, <2>5 DEF Accepts
  <1> QED BY <1>2, <1>3

LEMMA PushKeeps ==
    ASSUME IInv, NEW w \in Workers, NEW l \in Locales, Push(w, l) PROVE IInv'
  <1> DEFINE e == Ev(w)
             j == job[w]
             after == IF l = "vi" /\ j.release = "new" THEN "en" ELSE "publish"
  <1>1. /\ j \in Job /\ JobOK(j, bare, own) /\ JobsOK(job, bare, own)
        /\ e \in Events /\ e = EvOf(j) /\ j.batch # <<>> /\ Fresh(j.batch)
        /\ j.at = l /\ j.at \in Busy /\ j.targets \in SUBSET Users
        /\ l = "en" => j.release = "new"
    BY JobFacts DEF Push, Busy, JobOK, Job, Locales
  <1>2. ASSUME Goto(w, after) PROVE JobsOK(job', bare, own)
    <2>1. CASE l = "vi" /\ j.release = "new"
      <3> DEFINE x == [j EXCEPT !.at = "en"]
      <3>1. x \in Job /\ x.at = "en" /\ x.batch = j.batch /\ x.targets = j.targets
            /\ x.release = j.release /\ EvOf(x) = e
        BY <1>1 DEF Job, EvOf
      <3>2. job' = [job EXCEPT ![w] = x]
        BY <1>2, <2>1 DEF Goto
      <3>3. j.targets \subseteq Rows(bare, own, e)
        BY <1>1, <2>1 DEF JobOK, Locales
      <3> HIDE DEF x, e, j
      <3>4. JobOK(x, bare, own)
        BY <1>1, <2>1, <3>1, <3>3 DEF JobOK, Busy, Locales
      <3> QED BY <1>1, <3>1, <3>2, <3>4, JobStep, SameRows
    <2>2. CASE ~(l = "vi" /\ j.release = "new")
      BY <1>1, <1>2, <2>2, GotoPlain
    <2> QED BY <2>1, <2>2
  <1>3. ASSUME Goto(w, "failed") PROVE JobsOK(job', bare, own)
    BY <1>1, <1>3, GotoPlain
  <1>4. JobsOK(job', bare, own)
    BY <1>2, <1>3 DEF Push
  <1>5. PushesOK(keys, pushed)
    BY DEF IInv
  <1>6. PushesOK(keys', pushed')
    <2>1. PICK out \in SUBSET Group(w, l) :
            LET group == Group(w, l) \ out
                k == PushKey(w, l) IN
            \/ UNCHANGED <<keys, pushed>>
            \/ /\ keys' = keys \cup {k}
               /\ pushed' = IF k \in keys THEN pushed
                            ELSE [pushed EXCEPT ![Ev(w)] =
                                    [u \in Users |-> IF u \in group /\ @[u] < 2
                                                     THEN @[u] + 1 ELSE @[u]]]
      BY DEF Push
    <2> DEFINE group == Group(w, l) \ out
    <2>2. group \in SUBSET Users /\ (l = "en" => group \subseteq English)
      BY <1>1 DEF Group, Locale
    <2> HIDE DEF group
    <2>3. CASE UNCHANGED <<keys, pushed>>
      BY <1>5, <2>3 DEF PushesOK
    <2>4. CASE ~UNCHANGED <<keys, pushed>>
      <3>1. Accepts(keys, pushed, keys', pushed', e, l, group)
        BY <2>1, <2>4 DEF group, PushKey, Accepts
      <3> HIDE DEF e
      <3> QED BY <1>1, <1>5, <2>2, <3>1, Accepted
    <2> QED BY <2>3, <2>4
  <1> QED BY <1>4, <1>6 DEF Push, IInv, LeaseTypeOK, leaseVars, MembersOK, EventsOK, RowsOK

LEMMA NextItemKeeps ==
    ASSUME IInv, NEW w \in Workers, job[w].at \in Busy, NextItem(w)
    PROVE  JobsOK(job', bare, own)
  <1> DEFINE rest == Tail(job[w].batch)
             at == IF rest = <<>> THEN "release" ELSE "members"
             x == [NoJob EXCEPT !.release = job[w].release, !.batch = rest, !.at = at]
  <1>1. job[w] \in Job /\ JobsOK(job, bare, own) /\ Fresh(job[w].batch)
        /\ job[w].batch \in Batches /\ job[w].batch # <<>>
    BY JobFacts DEF JobOK
  <1>2. rest \in Batches /\ Fresh(rest)
    BY <1>1, BatchParts
  <1>3. at \in {"release", "members"} /\ (at = "members" => rest # <<>>)
    OBVIOUS
  <1>4. job' = [job EXCEPT ![w] = x]
    BY DEF NextItem
  <1>5. job[w].release \in {"new", "old"}
    BY <1>1 DEF Job
  <1> HIDE DEF rest, at
  <1>6. NoJob \in Job
    BY NoJobOK
  <1>7. x \in Job /\ x.at = at /\ x.batch = rest
    BY <1>2, <1>3, <1>5, <1>6 DEF Job
  <1> HIDE DEF x
  <1>8. JobOK(x, bare, own)
    BY <1>2, <1>3, <1>7 DEF JobOK, Busy, Locales
  <1> QED BY <1>1, <1>4, <1>7, <1>8, JobStep, SameRows

LEMMA PublishKeeps ==
    ASSUME IInv, NEW w \in Workers, Publish(w) PROVE IInv'
  <1> DEFINE e == Ev(w)
             s == IF event[e].state \in {"dead", "both"} THEN "both" ELSE "published"
             x == [event[e] EXCEPT !.state = s]
  <1>1. e \in Events /\ job[w].at \in Busy
    BY JobFacts DEF Publish, Busy
  <1>2. event \in [Events -> Event] /\ event[e] \in Event
    BY <1>1 DEF IInv, EventsOK
  <1>3. x \in Event /\ x.state = s /\ s \in {"both", "published"}
    BY <1>2 DEF Event
  <1>4. event' = [event EXCEPT ![e] = x]
    BY DEF Publish
  <1>5. EventsOK(event')
    <2> HIDE DEF x, s, e
    <2> QED BY <1>1, <1>2, <1>3, <1>4 DEF EventsOK, IInv
  <1>6. JobsOK(job', bare, own)
    BY <1>1, NextItemKeeps DEF Publish
  <1> QED BY <1>5, <1>6, EventStep DEF Publish

LEMMA FailedKeeps ==
    ASSUME IInv, NEW w \in Workers, Failed(w) PROVE IInv'
  <1> DEFINE e == Ev(w)
             n == Attempts(w)
             dead == IF event[e].state \in {"published", "both"} THEN "both" ELSE "dead"
             due == IF Exhausted(n) THEN "yes" ELSE "no"
             s == IF Exhausted(n) THEN dead ELSE event[e].state
             x == [event[e] EXCEPT !.attempts = n, !.due = due, !.state = s]
  <1>1. /\ e \in Events /\ job[w].at \in Busy
        /\ job[w].batch \in Batches /\ job[w].batch # <<>> /\ Fresh(job[w].batch)
    BY JobFacts DEF Failed, Busy, JobOK
  <1>2. event \in [Events -> Event] /\ event[e] \in Event
    BY <1>1 DEF IInv, EventsOK
  <1>3. n \in 0 .. MaxDelivery
    <2>1. Item1(w) \in Item /\ Item1(w).attempts < MaxDelivery
      BY <1>1, BatchParts DEF Item1
    <2>2. Item1(w).attempts \in 0 .. MaxDelivery
      BY <2>1 DEF Item
    <2> QED BY <2>1, <2>2, OutboxBounds DEF Attempts
  <1>4. event' = [event EXCEPT ![e] = x]
    BY DEF Failed
  <1> HIDE DEF n, e
  <1>5. Exhausted(n) => s \in {"both", "dead"}
    OBVIOUS
  <1>6. ~Exhausted(n) => s = event[e].state /\ n < MaxDelivery
    BY <1>3, OutboxBounds DEF Exhausted
  <1>7. x \in Event /\ x.state = s /\ x.attempts = n
    BY <1>2, <1>3 DEF Event
  <1>8. EventsOK(event')
    <2> HIDE DEF x, s
    <2>1. ASSUME NEW d \in Events, event'[d].state \in {"unwritten", "open"}
          PROVE  event'[d].attempts < MaxDelivery
      <3>1. CASE d = e
        BY <1>1, <1>2, <1>4, <1>5, <1>6, <1>7, <2>1, <3>1
      <3>2. CASE d # e
        BY <1>2, <1>4, <2>1, <3>2 DEF EventsOK, IInv
      <3> QED BY <3>1, <3>2
    <2> QED BY <1>1, <1>2, <1>4, <1>7, <2>1 DEF EventsOK
  <1>9. JobsOK(job', bare, own)
    BY <1>1, NextItemKeeps DEF Failed
  <1> QED BY <1>8, <1>9, EventStep DEF Failed

-----------------------------------------------------------------------------
(* The theorems. *)

LEMMA Initially == Init => IInv
  <1> SUFFICES ASSUME Init PROVE IInv
    OBVIOUS
  <1>1. LeaseTypeOK
    BY LeaseBounds DEF Init, LeaseInit, LeaseTypeOK
  <1>2. MembersOK
    BY OutboxBounds DEF Init, MembersOK
  <1>3. EventsOK(event)
    <2>1. NoEvent \in Event /\ NoEvent.attempts = 0
      BY OutboxBounds DEF NoEvent, Event
    <2> QED BY <2>1, OutboxBounds DEF Init, EventsOK
  <1>4. RowsOK(bare, own)
    BY DEF Init, RowsOK
  <1>5. PushesOK(keys, pushed)
    BY DEF Init, PushesOK
  <1>6. JobsOK(job, bare, own)
    <2>1. NoJob \in Job /\ JobOK(NoJob, bare, own)
      BY NoJobOK
    <2> QED BY <2>1 DEF Init, JobsOK
  <1> QED BY <1>1, <1>2, <1>3, <1>4, <1>5, <1>6 DEF IInv

LEMMA RunKeeps ==
    ASSUME IInv, NEW w \in Workers, Run(w) PROVE IInv'
  BY SelectKeeps, MembersKeeps, ExistingKeeps, InsertBareKeeps, OwnerKeeps, InsertOwnKeeps,
     InsertOldKeeps, FanOutErrorKeeps, PushKeeps, PublishKeeps, FailedKeeps, EndKeeps DEF Run

LEMMA StepKeeps == IInv /\ [Next]_vars => IInv'
  <1> SUFFICES ASSUME IInv, [Next]_vars PROVE IInv'
    OBVIOUS
  <1>1. ASSUME NEW u \in Users, MembersChange(u) PROVE IInv'
    BY <1>1, MembersChangeKeeps
  <1>2. ASSUME NEW e \in Events, NEW a \in {"nobody", "host", "room"}, WriteOutbox(e, a)
        PROVE  IInv'
    BY <1>2, WriteOutboxKeeps
  <1>3. ASSUME NEW e \in Events, Elapse(e) PROVE IInv'
    BY <1>3, ElapseKeeps
  <1>4. ASSUME NEW w \in Workers, NEW r \in Releases, Tick(w, r) PROVE IInv'
    BY <1>4, TickKeeps
  <1>5. ASSUME NEW w \in Workers, Run(w) \/ Crash(w) PROVE IInv'
    BY <1>5, RunKeeps, EndKeeps
  <1>6. CASE LeaseStep
    BY <1>6, LeaseStepOK
  <1>7. CASE UNCHANGED vars
    <2>1. JobsOK(job', bare, own)
      BY <1>7 DEF vars, outboxVars, IInv
    <2> QED BY <1>7, <2>1, OnlyJob DEF vars, outboxVars
  <1> QED BY <1>1, <1>2, <1>3, <1>4, <1>5, <1>6, <1>7 DEF Next

(* The inductive invariant of the dispatcher: no row of one's own before    *)
(* the bare key is taken, and what each place in fanOut knows of the rows.  *)
THEOREM Invariance == Spec => []IInv
  BY Initially, StepKeeps, PTL DEF Spec

(* Every variable keeps its type: batches stay within the limit of the      *)
(* query, attempts within MAX_DELIVERY_ATTEMPTS, for every worker and batch *)
(* of dispatchBatch.                                                        *)
THEOREM TypeCorrect == Spec => []TypeOK
  <1>1. IInv => TypeOK
    BY DEF IInv, TypeOK, MembersOK, EventsOK, RowsOK, PushesOK, JobsOK
  <1> QED BY <1>1, Invariance, PTL

(* Nobody ever has two inbox rows of one event, however many workers fan it *)
(* out at once, after any number of failures, the previous release's too.   *)
THEOREM NobodyTwice == Spec => []InboxOnce
  <1>1. IInv => InboxOnce
    BY DEF IInv, RowsOK, InboxOnce
  <1> QED BY <1>1, Invariance, PTL

(* A worker of this release that comes to the pushes of an event leaves     *)
(* nobody it is for without an inbox row, whoever took the bare key.        *)
THEOREM NobodyLeftOut == Spec => []EveryoneHasRow
  <1>1. IInv => EveryoneHasRow
    <2> SUFFICES ASSUME IInv, NEW w \in Workers, job[w].at \in Locales,
                        job[w].release = "new"
                 PROVE  job[w].targets \subseteq HasRow(Ev(w))
      BY DEF EveryoneHasRow
    <2>1. JobOK(job[w], bare, own) /\ Ev(w) = EvOf(job[w])
      BY JobFacts DEF Locales, Busy
    <2> QED BY <2>1 DEF JobOK, Rows, HasRow
  <1> QED BY <1>1, Invariance, PTL

(* An account of the default locale is pushed an event at most once, over   *)
(* retries, answers that were lost and workers of both releases.            *)
THEOREM NobodyPushedTwice == Spec => []PushedOnce
  <1>1. IInv => PushedOnce
    BY DEF IInv, PushesOK, PushedOnce
  <1> QED BY <1>1, Invariance, PTL
===============================================================================
