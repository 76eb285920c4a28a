# GoGo-BE in TLA+

GoGo-BE is the back end of a date-planning product: a NestJS modular monolith
(`apps/api`, `apps/worker` over `libs/modules/*`) on PostgreSQL/PostGIS through
Drizzle, Redis, and server-sent events to the clients. People open a room,
invite others with or without an account, answer preferences in private, get a
ranking of places, vote, and end with a plan they follow on the day.

This directory models in TLA+ the life of a room, the idempotency keys in front
of every mutating route, and what the worker does behind them: notifications,
campaigns and secure data exports. TLC checks the models on small instances and
TLAPS proves the main results for all instances. `PROJECT.json` maps every
definition to the lines it models and lists the runs, mutants, hazards and
theorems.

    tlc -workers 2 -config MCRoomStream.cfg MCRoomStream      # a run
    tlapm RoomStreamProofs.tla                                # the proofs

## 1. Inventory

| Component | State | Operations | Interacts with | What is hard | What makes it correct |
|---|---|---|---|---|---|
| realtime | per room in Redis: generation, sequence, replay buffer; per connection a `RoomSubscription`; per actor a count of streams | publish, attach, replay, live delivery, recovery, generation rotation | every writer of a room publishes after its commit; clients reconnect with a cursor | the hand-over from replay to live, a bounded queue, a generation that changes while a read is in flight, lossy pub/sub | no silent gap, nothing missed, catches up |
| rooms | status, constraint version, members, invites | create, transition, edit constraints, invite, revoke, join, remove | preferences move it to matching, suggestions to ready; plans and scores go stale with its constraints | checks before the row lock, joins racing the tally, retried starts | quotas, a real quorum, one start |
| preferences | one versioned answer per member, its completion | save, complete | rooms (automatic move to matching), suggestions (staleness) | what was read before the lock decides what is done under it | matching only with everyone's answers or the host's word |
| suggestions | runs, candidate scores, votes | generate, vote, match, finalize | rooms, preferences, plans | inputs that change while a ranking is computed, concurrent generates, members who come and go | one current ranking, of the current inputs; a match is mutual |
| plans | versions of a plan, stops and their locks | build around the winner, regenerate, edit, lock, complete stops, check in | rooms (status guards), places (relocation) | seconds between reading and publishing | nothing overwritten, decided once, frozen once started |
| identity | users, session families, guest sessions, denylist | register, log in, refresh, log out, join as guest, claim | rooms, guards | rotation that is not a compare-and-set, cached revocations | a token is used once, a revoked session stays out |
| idempotency (`shared`) | keys with claim, body, response and expiry | claim, take over, replay, migrate or purge an old shape, complete, release | wraps every mutating route | the claim and the mutation commit separately; records expire under running calls; two releases write two shapes | a repeated request is applied once, replays are faithful, nobody ends another's claim |
| notifications | outbox events, inbox rows, attempts; campaigns with their dispatch key, recipients' rows and delivery facts | dispatch a batch, fan out, push, back off, give up; edit, schedule, cancel, preview, claim and send a campaign | rooms, plans, users, operators; a push provider that may lose its answer | at least once, two workers, two releases, operators overtaken by workers | one inbox row and one push per recipient, every event published or dead-lettered, nobody messaged twice |
| privacy | export artifacts with claim, attempt and expiry; deletion records; objects in a bucket; the ledger of requests; download slots | issue, claim, generate, upload, publish, redeem, revoke, expire, clean, reap, reconcile | worker, object store, sessions, operators (cms) | a processor that lost its claim, a PUT that takes effect after its deadline, a download overtaken by expiry or sign-out | no object without an owner, an export is served once and deleted in the end, the ledger tells the truth |
| uploads, media clean-up (`profile`) | upload keys, clean-up jobs | presign, verify, attach, replace an avatar, delete the old one | worker, object store | retries against a store that fails | nothing in use is deleted |
| cms | privacy requests (below), and the catalogue | acknowledge, execute, close, record a delivery; CRUD with an audit log | privacy | reads and writes in separate statements | a closed request tells what happened |
| assistant, reviews, profile, links, search, places, travel | rows | CRUD and queries | providers | quotas and moderation | local to one row |
| ingestion, administrative, cost observability, providers | imported data | batch imports, clients with circuit breakers | outside services | volume and conversion, not protocol | data quality |
| worker (`apps/worker`) | one lease row per periodic job | tick, acquire, renew, release | outbox, campaigns, exports and their sweep | a job that outlived its lease | its jobs stay right beside a second holder |
| database, observability, `apps/api` | schema, wiring | migrations, process start | all | | |

Concurrency is everywhere the same: requests run interleaved on several node
processes; what a service reads before its transaction may be out of date
inside it, and the transactions that matter take the row lock of the room. The
models keep exactly this structure: an operation is two or more actions when it
reads outside a transaction and writes inside, and one action per transaction.

## 2. Modules

| Module | Models | |
|---|---|---|
| `RoomFeed` | what a room's stream promises a client (ADR-0027) | abstract specification |
| `RoomStream` | one client's stream of a room: `room-event-scripts.ts`, `redis-room-event-bus.ts`, `room-subscription.ts`, `room-events.service.ts`, the rotation | refines `RoomFeed` |
| `RoomState` | the status machine, joinability and the readiness rule | shared operators |
| `RoomMembership` | members, invites, answers and status of a room | |
| `RoomDecision` | generate, vote, match and finalize, with what makes scores stale | |
| `PlanVersions` | the writers of a room's plan | |
| `Idempotency` | the replay records and the calls that claim them: `idempotency.interceptor.ts` | |
| `WorkerLease` | the lease of a periodic job: `worker-lease.ts`, the tick of `periodic.ts` | extended by the dispatcher |
| `OutboxDispatcher` | the fan-out of a room's events: `outbox-dispatcher.ts` | composes `WorkerLease` |
| `Campaigns` | one campaign between operators and workers: `campaigns.service.ts`, `campaign-dispatcher.ts`, `domain/campaign.ts` | |
| `PrivacyLedger` | the rows of `privacy_requests` for exports and the operators' calls: `privacy-requests.service.ts` | extended by the next |
| `PrivacyExport` | artifacts, uploads, deletion records and the sweep: `privacy-export.processor.ts`, `export-artifacts.ts`, the issuing half of `privacy-export.service.ts` | composes `PrivacyLedger` |
| `ExportDelivery` | redemption: sessions, slots, transfer | composes `PrivacyExport` |
| `RoomStreamProofs`, `RoomMembershipProofs`, `RoomDecisionProofs`, `PlanVersionsProofs`, `IdempotencyProofs`, `OutboxDispatcherProofs`, `CampaignsProofs`, `PrivacyExportProofs` | theorems; the last one about all three privacy layers | |
| `MC*` | instances for TLC: model values and symmetry | |

`RoomMembership`, `RoomDecision` and `PlanVersions` are three views of the same
room over the rules of `RoomState`. Each keeps the part of the room it is about
in full and the other operations on the room only as far as they change what it
reads: `RoomDecision` has a join without its invite, `PlanVersions` a finalize
without its votes.

### RoomStream

State: the Redis keys of the room (`made` generations, whether the metadata
hash exists, its `seq`, the `buffer`), the channel (`subscribed`, the `wire`),
the fields of the `RoomSubscription` under their own names, the snapshot read
in flight, and the client's frames and cursor. A generation is a UUID in the
code and the number of its creation here; the code only compares generations
for equality, and so does the model. Actions: the two Lua scripts (each
atomic), rotation and expiry of keys, SUBSCRIBE and its acknowledgement, the
execution of a snapshot read, `begin`, `activate`, `push` in each phase, the
drain loop of `activate` one event at a time (the node runs nothing else
meanwhile, Redis and other publishers do), the end of a recovery, disconnect,
failure, and the loss of the subscriber connection. `Lossy` lets a message be
lost while the connection is up.

### RoomMembership

State: the room row (with how it last entered matching, and how many
`room.status_active` events were written), membership rows with the person and
the invite behind each, `selection_status`, version and emptiness of each
answer, invites with limit and uses, and the requests that have passed their
first half. Joins (user and guest), saves, completions, transitions and invites
are a request action and a transaction action; `Abandon` is a refusal, a
failure or a crash in between. `removeMember` takes no lock, but it reads
nothing of the room, so it is one action before or after whatever it races. A
claim of a guest is one action: registration creates the account and rebinds
the row in one transaction. The partial unique index on (room, user) is the
reason two inserts for one account cannot both land (`SeatsOf`).

### RoomDecision

State: the room, seats and answers, the runs with their snapshot, ranking and
staleness, votes, the decision with the ballots and members it was taken on,
and the requests in flight. Generating is five steps: checks and snapshot,
`createRun`, `persistScores` (one transaction under the room lock, which looks
at constraint version, revision and status again), `finishRun`, and the failure
path; voting is check, upsert and, in a match room, the look at all votes;
deciding is the choice of a winner and the claim of the room. The engine's
ranking is any injective sequence of places. `buildSnapshot` is several queries
in the code and one step here; the queries of vote and finalize that commute
with what can happen between them are merged in the same way. Where the code
orders by rank and several unranked places tie, any of them may win.

### PlanVersions

State: room status and constraint version, the plan's versions with stops,
locks, positions used, staleness, and the version and locks each was built from,
and the writes in flight. Finalize, regenerate and edit ask, compute (the
snapshot and the facts read in one step) and publish; publishing is one action,
because each writer holds the room row until it commits. Of an existing version
only locks and staleness ever change. The new stops are any set the operation
allows. Order, times, totals and optional flags of stops are left out.

### Idempotency

State: the record of each key (claiming call, body, shape of the stored answer,
whether its day has passed), the calls under way with the point they have
reached, and two history counters: how often the mutation was committed in the
life of the record, and how many of these commits the code cannot answer for.
Every statement of `beginIdempotent` is an action: the claim (insert or
take-over), the read of the record that was in the way, the migration or purge
of one of the old shape, each followed by another round up to `CLAIM_ATTEMPTS`.
An ordinary route commits and stores its answer in two steps, a manual one in
one transaction that is refused when the claim is gone. `Crash` may happen
anywhere, `Expire` under a running call, and a completion may be of an instance
of the previous release. Keys share nothing, so one key stands for each kind of
route.

### WorkerLease and OutboxDispatcher

State: the lease row and what each worker believes of it; the room's members
with an account, the outbox rows, the inbox row under the bare event id and
the rows of single recipients, the idempotency keys the provider has seen, and
the batch each worker is running. A batch is one action per statement: select,
resolve the targets, the insert under the bare key, the reads and inserts of
the rest, one push per locale, publish or count the failure. The worker never
looks at its lease again inside a batch, which is why one that lost it goes on
beside the new holder. A push is accepted, refused, or accepted with its answer
lost; a worker may die between any two statements. `InsertOld` is the previous
release's fan-out and external to this tree. Accounts whose locale is not the
default one have another push key per release, as the code says.

### Campaigns

State: the campaign row, the dispatch keys minted, recipients' rows with their
delivery fact, what the provider has accepted under each key and recipient,
the operators' calls between their read and their write, and the send each
worker is running. Two variables are history that no guard reads: the keys of
cancelled dispatches, and the keys that a `schedule` took the row from although
it had read another row (`overtaken`). `send` is audience, then for each recipient row, read, push
and mark; a public campaign continues with devices. An outage of the provider
ends the send as failed, an answer may be lost, a worker may die. Numbers of
recipients, pictures, names and audit are left out.

### PrivacyLedger, PrivacyExport and ExportDelivery

The three are layers of one specification. The ledger has the requests and the
operators' calls; acknowledging and closing are a read and a write outside any
transaction, as in the code. Exports add the account (status and export epoch),
artifacts, deletion records, the objects of the bucket, PUTs under way and the
generations of the workers. A generation is claim, collect, the upload permit
(which commits the deletion record that covers the upload), PUT, publish or
fail, each fenced by owner and attempt. A PUT is under way until it is
acknowledged, fails, or, aborted or orphaned by a crash, takes effect late.
Leases, covers and PUTs are timers counted down by `Tick`; the long periods
pass in actions of their own. The sweep's statements are actions: expire, time
out, clean (or be refused, up to a dead letter), reap, reconcile. Delivery adds
sessions, the process's download slots and the redemptions: check, slot, fetch
and open, consume in one transaction, send, record; clients leave, sessions are
revoked, the process dies. The events that end a transfer (finish, close, error,
deadline, a throwing send) may follow each other: every one after the first
finds the transfer settled. An object that is no good marks the artifact in one
step and gives the slot back in a later one; the immediate clean-up between
them is a pass of the sweep's `Cleanup`. Sessions are revoked one by one, also
by moderation, which in the code does it in its own transaction: the model
allows more.

## 3. Runs

Bounds are named constants; each run is the smallest instance in which its
question can go wrong, which its mutants confirm: each property is violated
when one mapped definition is replaced by a plausible bug.

| Run | Instance | Shows |
|---|---|---|
| `room_stream` | 2 generations, 3 sequences, 2 connections, buffer 2, queue 2, lossy | `TypeOK`, `GapFree`; implements `RoomFeed` (`FeedSpec`). Two connections give a resume, buffer 2 < 3 sequences a resume that cannot be served, queue 2 an overflow |
| `room_stream_fair` | 3 generations, 2 sequences, 2 connections, buffer 1, queue 1, lossless | `NothingMissed`, `RetiredIsSuperseded`, and `CatchesUp` under fairness. Three generations are needed for a read to return a generation that is neither the held one nor the last |
| `room_membership` | host, 2 more rows, 1 account and guests, 1 invite of limit 1 or none, 2 requests | `QuotaHolds`, `AnsweredOrAcknowledged`, `OneStart`, `QuorumIsTwoPeople` with two requests between check and transaction |
| `plan_versions` | 1 place, 3 versions, 2 constraint versions, 2 rounds, 1 move, 2 writes | `TypeOK`, `NothingOverwritten`, `FreshAsComputed`, `OneDecision`, `FrozenOnceStarted` |
| `room_decision` | a match and a host room, 2 members, 1 place, votes yes and no, 2 runs, 2 constraint versions, 1 save, 2 requests | `FreshOfConstraints`, `OneFreshRanking`, `MatchIsMutual`. Two runs and two requests are rankings that race each other, let votes of the first ranking count for the second, and a vote look while another is written |
| `idempotency` | 2 calls, a manual and a versioned route, 2 bodies, 3 attempts, 2 commits per record | `ManualExact`, `AppliedOnce`, `ReplayFaithful`, `ClaimKept`. Two calls give a claim, its loss and its take-over; a third only repeats one of them, and the theorems cover any number |
| `outbox` | 2 workers of either release, 1 fault, 2 accounts of two locales, 1 event, 2 attempts | `InboxOnce`, `EveryoneHasRow`, `PushedOnce`, and `Settled` under fairness. One fault is what it takes for two workers in one batch; two attempts for a retry and a dead letter |
| `campaigns` | 2 operators, 1 worker, 1 account, 2 dispatch keys, 2 texts, 1 crash | `SendingIsMarked`, `TwiceIsExcused`, and `SendingEnds` under fairness. Two operators give schedules that overlap, two keys a resumed and a renewed dispatch. What ends a send is the worker's own doing, and two workers send at once only after an overlapping schedule: that, and any number of workers, devices and keys, is in the theorems |
| `campaigns_twice` (violation) | 2 operators, 2 workers, 1 account, 2 keys | `NotTwice` fails: two operators, no cancel, two messages. See section 4 |
| `privacy_export` | 1 export, 2 workers, 1 request, 1 operator, 2 attempts, 2 failures, 2 refused deletions, 1 password change; lease 2, upload 1 | `NoOrphan`, `ReadyIsStored`, `LedgerTruthful`. Two attempts and two workers are a superseded attempt beside a live one; a lease longer than an upload keeps the code's order of the timers |
| `privacy_export_fair` | 1 export, 1 worker, 1 request, no operator, 2 attempts | `EventuallyDeleted` and `RequestsClose` under fairness |
| `export_delivery` | 2 exports of one request, one an hour, 1 worker, 2 downloads, 2 slots, 1 session, 1 attempt each, 1 password change or deletion | `LedgerTruthful` with a request that is executed again, `SlotsExact`, `ServedOnce`, `DeliveryObserved`, `EndedStays`, `RevokedNotServed` in the composition of all three layers |

Deadlock is not checked: a room that is cancelled or completed, a stream at its
bounds, a published event and an export that is gone may all stop. The type
invariants of `RoomMembership`, `RoomDecision`, `Idempotency`, `OutboxDispatcher`, `Campaigns`
and the privacy modules are proved; no run asks for them.

### Fairness

Weak fairness only, and only of what the code or the infrastructure does by
itself; nothing is assumed of publishers, operators or clients.

- `room_stream_fair`: the acknowledgement of SUBSCRIBE, the execution of a
  snapshot read, and the continuations of the subscription (`begin`,
  `activate`, `push`, the drain loop, the end of a recovery). A read that never
  returns is ended by the attach deadline or the loss of the connection, which
  close the subscription; `CatchesUp` allows that. `MaxGenerations` and
  `MaxSeq` bound the publishers, as the property must: a room that changes
  generation for ever need never be caught up with.
- `outbox`: the schedule ticks as long as some worker is up, a batch that was
  begun goes on, back-offs pass, and a lease nobody renews runs out. Faults
  (late renewals, unreachable databases, crashes) are bounded; so `Settled`
  says that an event ends once they stop.
- `campaigns`: a worker goes on with the campaign it has claimed. A crash is
  excepted in the property, see below.
- `privacy_export_fair`: a PUT ends (it has a deadline), the clock goes on, and
  every statement of the sweep runs again and again (`periodic.ts` schedules
  it). Nothing makes a worker take up or finish a generation: `RequestsClose`
  holds because the sweep times it out.

## 4. Met while modelling

The models do what the code does. In these cases that differs from what a
document or comment of the repository says, or from what one would expect. The
first has a run in which TLC shows it (`findings` in `PROJECT.json`); of the
others no property of a run claims the contrary.

- **A campaign goes out twice.** `schedule` writes the status and a new
  dispatch key without looking at the row again (`campaigns.service.ts:456`).
  Two operators open the same draft and schedule it; the first dispatch is
  claimed and sent, the second write puts the row back to scheduled, and
  everyone is messaged again: `NotTwice` fails in `campaigns_twice`. The comment
  at `campaign-dispatcher.ts:96-99` says that the claim "is the entire
  concurrency control, and it is why a campaign cannot go out twice".
  `TwiceIsExcused`, checked and proved, says that such a schedule and a cancel
  are the only two ways.
- **A cancellation that cancels nothing.** The same write, while a worker is
  sending, lets `cancel` succeed, where its comment promises to refuse "rather
  than reporting a cancellation the backend cannot perform"
  (`campaigns.service.ts:483`). `SendingIsMarked` says that nothing else takes
  the status from a campaign that is being sent.
- **Who an automatic match waits for.** It waits for as many voters as the
  run's snapshot had members (`suggestion.service.ts:317-318`); who joined later
  is not waited for, and the votes of removed members count, though
  `docs/suggestion-engine.md:50-51` has the room decide once every member has
  voted. `MatchIsMutual` is what remains: two people want the place.

- **A member completed with nothing chosen.** `completeMine` reads the
  selections before the room lock (`preferences.service.ts:143`, `:149`); an
  autosave of none may commit in between.
- **A plan published on old constraints.** Finalize publishes under its claim
  of the room but without the guard of the other writers
  (`plan-builder.service.ts:123`), so constraints edited since its snapshot go
  unnoticed; compare `docs/database.md:78-79`. `FreshAsComputed` therefore
  speaks of edits and regenerates.
- **A place that moves while a plan with it is computed.** Only plans already
  written are marked stale (`place-relocation.ts:76`; ADR-0007, lines 142-145).
- **A ranking of old answers stays current.** Answers changed and completed
  after the host took the room back to collecting leave the scores of the round
  before fresh (`preferences.service.ts:160`; ADR-0024, line 7).
- **Two uses for one seat.** Two concurrent first joins of one account spend two
  uses of an invite (`rooms.repository.ts:537`), though `rooms.service.ts:596`
  says nothing is spent.
- **The older generate wins.** Of two generates on the same inputs the one
  created first may persist last and mark the newer ranking, the one
  `latestRun` answers with, as stale (`suggestions.repository.ts:294`).
- **A late acknowledgement.** `acknowledge` reads and writes in two statements
  (`privacy-requests.service.ts:233-235`): a request executed or closed in
  between becomes acknowledged again. `LedgerTruthful` speaks of the requests
  that are closed.
- **A crash leaves a campaign in sending.** So do a failed write in the catch
  of `send`, and for the other campaigns claimed in the same batch a crash on
  the first. Nothing takes them up again, though the comment of `deliver`
  speaks of a run after a crash. `SendingEnds` excepts the crash.
- **Two texts in one dispatch.** A push accepted without its mark, followed by
  an edit and a resumed send, gives recipients of one dispatch two versions:
  the check in `update` counts delivery facts only.
- **A preview locks edits.** `deliveredRecipients` counts rows of test sends
  too (`campaigns.service.ts:765-778`).
- **A second push across releases.** An account whose locale is not the default
  one may be pushed by both releases during a rollout, as the code's own comment
  says; `PushedOnce` is about the default locale.
- **Applied twice on an ordinary route.** A commit whose answer cannot be stored
  releases the claim, and a call may outlive its record; `AppliedOnce` counts
  these and shows that there are no others.

## 5. Theorems

All for every value of the constants under the named assumptions of the modules
(natural bounds, finite sets of members, places and downloads, distinct
people). Every safety property that a passing run checks is stated by a theorem. The
argument is always an inductive invariant that says what each piece of work in
flight still knows of the shared state, at the point it has reached, and that
no step of anybody else takes that from it.

**RoomStreamProofs.** `StreamInvariant` (`Spec => []StreamInv`), from which
`TypeCorrect`, `NoSilentGap` (`GapFree`) and `OnlySupersededRetired`
(`RetiredIsSuperseded`) follow. `GapFree` speaks of frames; to be inductive it
needs that the last frame is where the subscription stands
(`FramesReachDelivered`: before activation, that the pending decision leads
there). That a retired generation is really superseded needs that a reply is no
older than what had been seen when its read was issued (`ReplyIsCurrent`), for
which everything in the node must have been published (`CreatedOnly`,
`BehindHead`, `ReplayBehind`). `LoopIsActive` says that no read is in flight
while the drain loop runs.

`NothingIsMissed` (`NothingMissed`, of a channel that loses nothing while it is
up: `~Lossy`) adds `LiveInv`: the room's latest event was delivered, or is on
the wire, in the queue or in the loop, or a read is on its way that shows it,
or the queue was given up and the next activation reads (`Awaited`). Only the
latest event has to be followed: when it is processed it is next, or dropped,
which `ReplayBehind` and `RetiredIsSuperseded` allow only at the head
(`LatestDropped`), or it causes a read.

`StreamImplementsFeed` (`FeedSpec`) maps every step to one of `RoomFeed` or to
a stutter: the scripts advance the head, `begin` opens, `activate`, `push`, the
loop and a recovery write a run of events (`FeedRun`) or a resync
(`FeedResyncs`), the ends of a connection shut it. It needs one more fact, that
a connection starts where its resync leads, and nowhere before its decision
(`BaseKnown`).

**RoomMembershipProofs.** `MembershipInvariant`, from which `TypeCorrect`,
`QuotaKept`, `NobodySlipsIn`, `SingleStart` and the action property
`TwoPeopleQuorum`. The quota rests on `UsesCover` (seats through an invite are
at most its uses, and uses at most the limit), the tally on
`CompletedIsAnswered` with what a request in flight may rely on
(`RequestsAreReal`: answers it saw are never deleted), two people on
`OneSeatEach` and the cardinality lemma `TwoRows`.

**RoomDecisionProofs.** `Invariance`, from which `TypeCorrect`,
`ConstraintsFresh` (`FreshOfConstraints`), `RankingUnique` (`OneFreshRanking`)
and `MatchTakesTwo` (`MatchIsMutual`). None is inductive alone: a generate
between its snapshot and `persistScores` could land anything. The invariant says
that a running generate has a run to itself, still without scores, under the
constraint version of its snapshot (`RequestOK`, `RequestsOK`), which is the one
`persistScores` compares; and that what some run suggested stays suggested
(`Suggested`), so that every vote is for a suggested place. That a match is
mutual is a chain of counts: `generate` asks for two completed answers, those
who completed are in the snapshot (`QuorumAsked`), so every run's snapshot has
two members (`RunsOK`); a vote in flight knows a run that was created, at least
as many have voted as its snapshot has members, and a match is what all of them
want, which the decision carries until it claims the room (`Carried`).

**PlanVersionsProofs.** `PlanInvariant`, from which `TypeCorrect`,
`NoLostLock` (`NothingOverwritten`), `SingleDecision`, `FreshOnlyAsComputed`
and the action property `FrozenPlan`. The invariant adds that versions beyond
the head are empty (`Unwritten`), that a write in flight read a version that
exists (`ReadsAreReal`), and that a room in matching has a round left to decide
(`RoundToDecide`): each entry into matching pays for the one decision that
leaves it.

**IdempotencyProofs.** `IdempotencyInvariant`, from which `TypeCorrect`,
`ManualIsExact`, `AppliedAtMostOnce` and the action properties `ClaimsAreKept`
and `ReplaysAreFaithful`. `AppliedOnce` is not inductive: a release would let
the next claim commit again. The invariant says where a commit must already be
excused (`AbsentIsUnspent`, `ClaimIsUnspent`: no record, or a claim before its
commit or on its way to release), and what is stored or about to be stored was
applied (`StoredIsApplied`, `AnswerIsApplied`). `RecordMoves` shows once what a
step that changes a record owes the invariant (`Sound`); each action is then an
instance.

**OutboxDispatcherProofs.** `Invariance`, from which `TypeCorrect`,
`NobodyTwice` (`InboxOnce`), `NobodyLeftOut` (`EveryoneHasRow`) and
`NobodyPushedTwice` (`PushedOnce`), for any number of workers of both releases
in the same batch. The rows rest on the order in which this release writes
them: nobody has a row of their own while the bare key is free (`RowsOK`), and
a taken bare key keeps its owner (`Grows`). A worker about to write the other
rows therefore knows that owner for good, and whoever it leaves out has a row
(`JobOK`). That the batch is a sequence of distinct due events is a lemma on
ranks in finite sets. Pushes to the default locale go out under one key per
event, of which the provider accepts the first (`PushesOK`).

**CampaignsProofs.** `Invariance`, `TypeCorrect`, `OnlyScheduleUnmarks`
(`SendingIsMarked`) and `OnlyScheduleDoubles` (`TwiceIsExcused`), of every
behaviour, with any number of operators whose calls overlap as they like. The
invariant says that a schedule in flight has read a row that could be scheduled
(`CallsOK`), that until a schedule is written over a changed row at most one
worker sends, under the key of a row that reads `sending` (`SendersOK`), and
that of the keys minted every one but the campaign's own was cancelled or overtaken (`KeysOK`). The
schedule is the one step that can break the second part and pays for it in
`overtaken`; the stronger claims of the comments fail, see section 4.

**PrivacyExportProofs.** Of generation and deletion (`Spec`): `Invariance`,
`TypeCorrect`, `NothingOrphaned` (`NoOrphan`), `ReadyHasObject`
(`ReadyIsStored`), `LedgerTellsTheTruth` (`LedgerTruthful`). Of all three layers
(`DeliverySpec`): `DeliveryInvariance`, `SlotsNeitherLeakNorMultiply`,
`ServedAtMostOnce`, `DeliveriesAreObserved`, the action
properties `EndsAreFinal` (`EndedStays`) and `CutOffGetNothing`
(`RevokedNotServed`), and `DeliveryKeepsTheRest`: with downloads beside them the
properties of exports still hold. The heart is an argument about timers, from
the relations between lease, cover and upload deadline in `ExportBounds`: a
permit that is still fresh leaves its deletion record armed for its own rest
and two more upload deadlines (`JobOK`), so a PUT that starts under it ends
before its record runs out (`KeyOK`) and the reaper never takes a record whose
object may still appear. A record is given up only for an artifact that names
the object and is not cleaned (`Cover`). Slots are the cardinality of the
downloads that hold one; that no second end of a transfer gives one back needs
that a transfer has an outcome exactly from its end until it is recorded
(`Ends`).

Only model-checked: liveness (`CatchesUp`, `Settled`, `SendingEnds`,
`EventuallyDeleted`, `RequestsClose`), which is out of the prover's reach. Each
inductive invariant was also checked by TLC on the instance of its run before
it was proved.

## 6. Not modelled

`components` in `PROJECT.json` has each part and the reason. In short:

- **Planned**: sessions (refresh rotation, reuse, revocation), the stream slots
  and the shared channels of the bus, the assistant's turns, the import jobs of
  ingestion and the clean-up of replaced media.
- **Arithmetic and conversion** on data the protocols do not look at: the
  ranking engine, the itinerary optimizer, imports and normalisation of places,
  administrative boundaries, prices, search, templates and copy. They are most
  of the tree's lines.
- **Single rows**: the CRUD of the back office, profiles, reviews, links.
- **Left out of modelled parts**: what the deletion of an account removes from
  the inbox, which may free the bare key of an event
  (`user-content.service.ts:441`); the collection and encryption of an export
  and the removal of its tombstone; device registration; counters and audit.

## 7. Plan

Done: `RoomStream` over `RoomFeed`, `RoomMembership`, `RoomDecision`,
`PlanVersions`, `Idempotency`, `OutboxDispatcher` over `WorkerLease`,
`Campaigns`, and `ExportDelivery` over `PrivacyExport` over `PrivacyLedger`,
each checked and its safety proved. Next, in this order:

1. Proofs: abstract specifications of the outbox (an event's recipients each
   get one row) and of an export (issued, available, ended), and that the
   detailed ones implement them.
2. `AuthSessions` (`identity`): refresh rotation, reuse detection, revocation
   and the denylist.
3. `StreamSlots` (`room-events.service.ts`): a slot is returned exactly once on
   every way out; the reference count of a channel in the bus.
4. The assistant's turns (`assistant-orchestrator.service.ts`) and the import
   jobs (`place-import-job.service.ts`): claims, leases and resumption.
5. Composition: finalize of `RoomDecision` with the claim and publication of
   `PlanVersions`.
