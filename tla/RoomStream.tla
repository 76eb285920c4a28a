------------------------------ MODULE RoomStream ------------------------------
(***************************************************************************)
(* One client's event stream of one room: the Redis side of the room       *)
(* (generation, sequence, replay buffer, Pub/Sub channel), the server-side *)
(* RoomSubscription that hands over from replay to live delivery, and the  *)
(* client that reconnects with the last event id it has received.          *)
(*                                                                         *)
(* A generation is the UUID of one life of the room's metadata hash; here  *)
(* it is the number of its creation, which the code never looks at: it     *)
(* only compares generations for equality.  An event is identified by its  *)
(* generation and sequence, as its event_id is unique to a publication.    *)
(*                                                                         *)
(* The node process is single threaded: while activate() drains its queue  *)
(* (draining # <<>>) no other handler of the process runs, but Redis and   *)
(* the other publishers do.                                                *)
(***************************************************************************)
EXTENDS Integers, Sequences, FiniteSets

CONSTANTS
  MaxGenerations,   \* bound: generations a room goes through
  MaxSeq,           \* bound: the sequence at which PUBLISH_SCRIPT refuses
  MaxAttach,        \* bound: connections the client makes
  Lossy,            \* may a published message fail to reach push()?
  BufferSize,       \* REPLAY_BUFFER_SIZE
  QueueLimit        \* LIVE_QUEUE_LIMIT

ASSUME BoundsAreNatural ==
  /\ MaxGenerations \in Nat \ {0}
  /\ MaxSeq \in Nat
  /\ MaxAttach \in Nat
  /\ BufferSize \in Nat \ {0}
  /\ QueueLimit \in Nat \ {0}

ASSUME LossyIsFlag == Lossy \in BOOLEAN

VARIABLES
  made,        \* generations created so far; the latest is the current one
  meta,        \* does the metadata hash exist?
  seq,         \* its seq field: the high-water mark of generation made
  buffer,      \* sequences retained by the replay ZSET
  subscribed,  \* is the channel subscribed on the node's connection?
  wire,        \* published messages on their way to the node
  phase,       \* RoomSubscription.phase
  queue,       \* RoomSubscription.queue
  overflowed,  \* RoomSubscription.overflowed
  replayIds,   \* RoomSubscription.replayIds
  retired,     \* RoomSubscription.retired
  reads,       \* RoomSubscription.reads
  seenAt,      \* RoomSubscription.seenAt
  generation,  \* RoomSubscription.generation
  delivered,   \* RoomSubscription.delivered
  draining,    \* the part of activate()'s `pending` still to process
  reading,     \* the snapshot read in flight: none, issued or replied
  reply,       \* the snapshot it returned
  decision,    \* what begin() returned, until the service emits it
  resume,      \* kind of the resume point of this connection
  frames,      \* frames written to this connection
  base,        \* position the frames of this connection continue from
  cursor,      \* the client's Last-Event-ID
  attaches     \* connections made so far

redisVars == <<made, meta, seq, buffer>>
subVars == <<phase, queue, overflowed, replayIds, retired, reads, seenAt,
             generation, delivered, draining, reading, reply, decision>>
clientVars == <<resume, frames, base, cursor, attaches>>
vars == <<redisVars, subscribed, wire, subVars, clientVars>>

Generations == 1 .. MaxGenerations
NotSeen == -1

\* A position, which is also the identity of an event.  NoPosition is "none".
Pos(g, s) == [gen |-> g, seq |-> s]
NoPosition == Pos(0, 0)
Positions == [gen : Nat, seq : Nat]
Events == [gen : Generations, seq : 1 .. MaxSeq]

EventFrame(p) == [kind |-> "event", at |-> p]
ResyncFrame(p) == [kind |-> "resync", at |-> p]
Frames == [kind : {"event", "resync"}, at : Positions]

\* The events (p.seq, high] of p's generation, in order.
Following(p, high) == [i \in 1 .. high - p.seq |-> Pos(p.gen, p.seq + i)]

-----------------------------------------------------------------------------
(* The two Redis scripts.                                                  *)

\* What the shared prologue leaves: missing metadata starts a generation at
\* sequence 0 and discards the buffer that survived.
PrologueEnabled == meta \/ made < MaxGenerations
PrologueGen == IF meta THEN made ELSE made + 1
PrologueSeq == IF meta THEN seq ELSE 0
PrologueBuffer == IF meta THEN buffer ELSE {}

\* ZREMRANGEBYRANK: the BufferSize highest scores stay.
Trim(b) == {s \in b : Cardinality({t \in b : t >= s}) <= BufferSize}

\* PUBLISH_SCRIPT, one execution: sequence, append, trim, PUBLISH.
Publish ==
  /\ PrologueEnabled
  /\ PrologueSeq < MaxSeq
  /\ meta' = TRUE
  /\ made' = PrologueGen
  /\ seq' = PrologueSeq + 1
  /\ buffer' = Trim(PrologueBuffer \cup {PrologueSeq + 1})
  /\ wire' = IF subscribed
             THEN Append(wire, Pos(PrologueGen, PrologueSeq + 1)) ELSE wire
  /\ UNCHANGED <<subscribed, subVars, clientVars>>

\* The prologue of a snapshot some other stream of the room reads.
OtherSnapshot ==
  /\ ~meta
  /\ PrologueEnabled
  /\ meta' = TRUE
  /\ made' = PrologueGen
  /\ seq' = PrologueSeq
  /\ buffer' = PrologueBuffer
  /\ UNCHANGED <<subscribed, wire, subVars, clientVars>>

\* rotateRoomEventGenerations (or a lost key) deletes the metadata only.
Rotate ==
  /\ meta
  /\ made < MaxGenerations
  /\ meta' = FALSE
  /\ UNCHANGED <<made, seq, buffer, subscribed, wire, subVars, clientVars>>

\* The buffer's TTL passes with no publication.
ExpireBuffer ==
  /\ buffer # {}
  /\ buffer' = {}
  /\ UNCHANGED <<made, meta, seq, subscribed, wire, subVars, clientVars>>

\* The cursor a read asks after: the resume cursor, or where delivery stands.
Requested ==
  IF phase = "attaching"
  THEN IF resume = "cursor" THEN cursor ELSE NoPosition
  ELSE Pos(generation, delivered)

\* Events are returned only for the generation asked for.
Snapshot ==
  [generation |-> PrologueGen,
   high |-> PrologueSeq,
   events |-> IF Requested.gen = PrologueGen
              THEN {s \in PrologueBuffer : s > Requested.seq /\ s <= PrologueSeq}
              ELSE {}]

\* SNAPSHOT_SCRIPT runs in Redis; its answer is on its way to the node.
ExecSnapshot ==
  /\ reading = "issued"
  /\ PrologueEnabled
  /\ reading' = "replied"
  /\ reply' = Snapshot
  /\ meta' = TRUE
  /\ made' = PrologueGen
  /\ seq' = PrologueSeq
  /\ buffer' = PrologueBuffer
  /\ UNCHANGED <<subscribed, wire, phase, queue, overflowed, replayIds, retired,
                 reads, seenAt, generation, delivered, draining, decision,
                 clientVars>>

-----------------------------------------------------------------------------
(* Resume decision.                                                        *)

\* contiguousRange(snapshot, after) is not null.
Contiguous(s, after) ==
  /\ after <= s.high
  /\ \A n \in after + 1 .. s.high : n \in s.events

\* Mutant of DecideResume: the generations are not compared.
DecideResumeAnyGeneration(kind, c, s) ==
  LET honoured == kind = "cursor" /\ Contiguous(s, c.seq)
  IN [replay |-> IF honoured THEN Following(c, s.high) ELSE <<>>,
      resync |-> kind # "fresh" /\ ~honoured,
      checkpoint |-> Pos(s.generation, s.high)]

\* decideResume: generation before sequence, then the whole range or resync.
DecideResume(kind, c, s) ==
  LET honoured == kind = "cursor" /\ c.gen = s.generation /\ Contiguous(s, c.seq)
  IN [replay |-> IF honoured THEN Following(c, s.high) ELSE <<>>,
      resync |-> kind # "fresh" /\ ~honoured,
      checkpoint |-> Pos(s.generation, s.high)]

NoDecision == [replay |-> <<>>, resync |-> FALSE, checkpoint |-> NoPosition]

EventFrames(evs) == [i \in DOMAIN evs |-> EventFrame(evs[i])]

\* What the service writes before activate(): resync if any, then the replay.
DecisionFrames(d) ==
  IF d.resync THEN <<ResyncFrame(d.checkpoint)>> ELSE EventFrames(d.replay)

-----------------------------------------------------------------------------
(* RoomSubscription.                                                       *)

\* Mutants of Enqueue: the limit is off by one; an overflow leaves no trace.
EnqueueOffByOne(evs) ==
  /\ overflowed' = (overflowed \/ Len(queue) + Len(evs) > QueueLimit + 1)
  /\ queue' = IF overflowed' THEN <<>> ELSE queue \o evs

EnqueueSilentDrop(evs) ==
  /\ queue' = IF Len(queue) + Len(evs) > QueueLimit THEN <<>> ELSE queue \o evs
  /\ UNCHANGED overflowed

\* enqueue() of each event in turn: past the limit the queue is given up and
\* the flag makes the next activation read instead.
Enqueue(evs) ==
  /\ overflowed' = (overflowed \/ Len(queue) + Len(evs) > QueueLimit)
  /\ queue' = IF overflowed' THEN <<>> ELSE queue \o evs

\* push(): the first sight of a generation is dated by the reads issued so far.
See(e) ==
  seenAt' = IF seenAt[e.gen] = NotSeen THEN [seenAt EXCEPT ![e.gen] = reads] ELSE seenAt

\* Mutant of IssueRead: the phase is set but no read is sent.
IssueReadForgotten ==
  /\ phase' = "recovering"
  /\ reads' = reads + 1
  /\ reading' = "none"
  /\ draining' = <<>>

\* recover(), from the phase active.
IssueRead ==
  /\ phase' = "recovering"
  /\ reads' = reads + 1
  /\ reading' = "issued"
  /\ draining' = <<>>

\* process(event): what it ignores, what it delivers; the rest needs a read.
Dropped(e) ==
  \/ e \in replayIds
  \/ e.gen # generation /\ e.gen \in retired
  \/ e.gen = generation /\ e.seq <= delivered

\* Mutant of IsNext: any later event will do.
IsNextWithGaps(e) == e.gen = generation /\ e.seq > delivered

IsNext(e) == e.gen = generation /\ e.seq = delivered + 1

\* process(e) with the events of activate()'s loop still behind it.
Process(e, rest) ==
  \/ /\ Dropped(e)
     /\ draining' = rest
     /\ UNCHANGED <<phase, queue, overflowed, reads, reading, delivered, frames>>
  \/ /\ ~Dropped(e)
     /\ IsNext(e)
     /\ delivered' = e.seq
     /\ frames' = Append(frames, EventFrame(e))
     /\ draining' = rest
     /\ UNCHANGED <<phase, queue, overflowed, reads, reading>>
  \/ /\ ~Dropped(e)
     /\ ~IsNext(e)
     /\ Enqueue(<<e>> \o rest)
     /\ IssueRead
     /\ UNCHANGED <<delivered, frames>>

\* activate() up to its loop, which Drain takes one event at a time.
StartDrain ==
  IF overflowed
  THEN /\ overflowed' = FALSE
       /\ queue' = <<>>
       /\ IssueRead
  ELSE /\ phase' = "active"
       /\ draining' = queue
       /\ queue' = <<>>
       /\ reading' = "none"
       /\ UNCHANGED <<overflowed, reads>>

Idle == draining = <<>>

\* onMessage with no member left on the channel.
DropMessage ==
  /\ phase = "closed"
  /\ wire # <<>>
  /\ wire' = Tail(wire)
  /\ UNCHANGED <<redisVars, subscribed, subVars, clientVars>>

\* Pub/Sub delivers at most once, and a message that does not parse is skipped.
LoseMessage ==
  /\ Lossy
  /\ wire # <<>>
  /\ wire' = Tail(wire)
  /\ UNCHANGED <<redisVars, subscribed, subVars, clientVars>>

\* push() while attaching, paused or recovering.
PushQueued ==
  /\ Idle
  /\ phase \in {"attaching", "paused", "recovering"}
  /\ wire # <<>>
  /\ wire' = Tail(wire)
  /\ See(Head(wire))
  /\ Enqueue(<<Head(wire)>>)
  /\ UNCHANGED <<redisVars, subscribed, phase, replayIds, retired, reads,
                 generation, delivered, draining, reading, reply, decision,
                 clientVars>>

\* push() while active.
PushActive ==
  /\ Idle
  /\ phase = "active"
  /\ wire # <<>>
  /\ wire' = Tail(wire)
  /\ See(Head(wire))
  /\ Process(Head(wire), <<>>)
  /\ UNCHANGED <<redisVars, subscribed, replayIds, retired, generation, reply,
                 decision, resume, base, cursor, attaches>>

\* One turn of activate()'s loop.
Drain ==
  /\ draining # <<>>
  /\ Process(Head(draining), Tail(draining))
  /\ UNCHANGED <<redisVars, subscribed, wire, replayIds, retired, seenAt,
                 generation, reply, decision, resume, base, cursor, attaches>>

\* begin(): the attach snapshot has arrived.
Begin ==
  /\ phase = "attaching"
  /\ reading = "replied"
  /\ LET d == DecideResume(resume, cursor, reply)
     IN /\ decision' = d
        /\ replayIds' = {d.replay[i] : i \in DOMAIN d.replay}
        /\ base' = IF resume = "cursor" /\ ~d.resync THEN cursor ELSE d.checkpoint
  /\ generation' = reply.generation
  /\ delivered' = reply.high
  /\ phase' = "paused"
  /\ reading' = "none"
  /\ UNCHANGED <<redisVars, subscribed, wire, queue, overflowed, retired, reads,
                 seenAt, draining, reply, resume, frames, cursor, attaches>>

\* RoomEventsService.stream: resync or replay is written, then activate().
Activate ==
  /\ phase = "paused"
  /\ frames' = frames \o DecisionFrames(decision)
  /\ StartDrain
  /\ decision' = NoDecision
  /\ UNCHANGED <<redisVars, subscribed, wire, replayIds, retired, seenAt,
                 generation, delivered, reply, resume, base, cursor, attaches>>

\* Mutant of Superseded: first sight and read are not compared.
SupersededUndated(held) ==
  {g \in {queue[i].gen : i \in DOMAIN queue} : g # held}

\* Of the generations still queued, those a read issued after their first
\* sight shows to be superseded.
Superseded(held) ==
  {g \in {queue[i].gen : i \in DOMAIN queue} :
     g # held /\ seenAt[g] # NotSeen /\ seenAt[g] < reads}

\* The events of evs the attach replay has not already carried.
Unreplayed(evs) ==
  IF \A i \in DOMAIN evs : evs[i] \notin replayIds
  THEN evs
  ELSE SelectSeq(evs, LAMBDA e : e \notin replayIds)

\* recover()'s continuation: adopt, fill or resync, then retire and activate().
Recovered ==
  /\ phase = "recovering"
  /\ reading = "replied"
  /\ generation' = reply.generation
  /\ delivered' = reply.high
  /\ frames' = frames \o
       IF reply.generation = generation /\ Contiguous(reply, delivered)
       THEN EventFrames(Unreplayed(Following(Pos(generation, delivered), reply.high)))
       ELSE <<ResyncFrame(Pos(reply.generation, reply.high))>>
  /\ retired' = retired \cup Superseded(reply.generation)
                        \cup ({generation} \ {reply.generation})
  /\ StartDrain
  /\ UNCHANGED <<redisVars, subscribed, wire, replayIds, seenAt, reply, decision,
                 resume, base, cursor, attaches>>

-----------------------------------------------------------------------------
(* The connection's life.                                                  *)

\* A new request: a new RoomSubscription, installed before SUBSCRIBE.  The
\* client sends its cursor, none (a fresh page) or one the server cannot read.
Attach ==
  /\ phase = "closed"
  /\ attaches < MaxAttach
  /\ attaches' = attaches + 1
  /\ resume' \in {"fresh", "invalid"}
                   \cup (IF cursor = NoPosition THEN {} ELSE {"cursor"})
  /\ phase' = "attaching"
  /\ queue' = <<>>
  /\ overflowed' = FALSE
  /\ replayIds' = {}
  /\ retired' = {}
  /\ reads' = 0
  /\ seenAt' = [g \in Generations |-> NotSeen]
  /\ generation' = 0
  /\ delivered' = 0
  /\ UNCHANGED <<redisVars, subscribed, wire, draining, reading, reply, decision,
                 frames, base, cursor>>

\* The channel's ACK: the snapshot is asked for only now.
SubscribeAck ==
  /\ phase = "attaching"
  /\ reading = "none"
  /\ subscribed' = TRUE
  /\ reading' = "issued"
  /\ UNCHANGED <<redisVars, wire, phase, queue, overflowed, replayIds, retired,
                 reads, seenAt, generation, delivered, draining, reply, decision,
                 clientVars>>

\* close(): the reply of a read still in flight will find the phase closed.
\* The client has received some prefix of the frames, and its cursor is the
\* last event of it: a resync frame carries no id.
Close ==
  /\ Idle
  /\ phase # "closed"
  /\ phase' = "closed"
  /\ queue' = <<>>
  /\ reading' = "none"
  /\ decision' = NoDecision
  /\ frames' = <<>>
  /\ base' = NoPosition
  /\ cursor' \in {cursor} \cup
       {frames[i].at : i \in {j \in DOMAIN frames : frames[j].kind = "event"}}
  /\ UNCHANGED <<redisVars, overflowed, replayIds, retired, reads, seenAt,
                 generation, delivered, draining, reply, resume, attaches>>

\* The client goes away: release() of the channel comes later.
Disconnect ==
  /\ Close
  /\ UNCHANGED <<subscribed, wire>>

\* The attach deadline, a failed SUBSCRIBE or a failed snapshot read ends it.
Fail ==
  /\ phase = "attaching" \/ reading = "issued"
  /\ Close
  /\ UNCHANGED <<subscribed, wire>>

\* onSubscriberLost: what was on the connection is gone, its members fail.
SubscriberLost ==
  /\ subscribed
  /\ subscribed' = FALSE
  /\ wire' = <<>>
  /\ \/ Close
     \/ phase = "closed" /\ UNCHANGED <<redisVars, subVars, clientVars>>

\* The queued UNSUBSCRIBE of a channel without members.
Unsubscribe ==
  /\ phase = "closed"
  /\ subscribed
  /\ subscribed' = FALSE
  /\ UNCHANGED <<redisVars, wire, subVars, clientVars>>

Init ==
  /\ made = 0 /\ meta = FALSE /\ seq = 0 /\ buffer = {}
  /\ subscribed = FALSE /\ wire = <<>>
  /\ phase = "closed" /\ queue = <<>> /\ overflowed = FALSE
  /\ replayIds = {} /\ retired = {} /\ reads = 0
  /\ seenAt = [g \in Generations |-> NotSeen]
  /\ generation = 0 /\ delivered = 0 /\ draining = <<>>
  /\ reading = "none" /\ reply = [generation |-> 0, high |-> 0, events |-> {}]
  /\ decision = NoDecision
  /\ resume = "fresh" /\ frames = <<>> /\ base = NoPosition
  /\ cursor = NoPosition /\ attaches = 0

Next ==
  \/ Publish \/ OtherSnapshot \/ Rotate \/ ExpireBuffer
  \/ Attach \/ SubscribeAck \/ ExecSnapshot \/ Begin \/ Activate
  \/ DropMessage \/ LoseMessage \/ PushQueued \/ PushActive \/ Drain \/ Recovered
  \/ Disconnect \/ Fail \/ SubscriberLost \/ Unsubscribe

\* Redis answers and the node handles what reaches it; a client, a publisher or
\* an operator owes nothing.
Fairness ==
  /\ WF_vars(SubscribeAck)
  /\ WF_vars(ExecSnapshot)
  /\ WF_vars(Begin)
  /\ WF_vars(Activate)
  /\ WF_vars(PushQueued)
  /\ WF_vars(PushActive)
  /\ WF_vars(Drain)
  /\ WF_vars(Recovered)

Spec == Init /\ [][Next]_vars
FairSpec == Spec /\ Fairness

-----------------------------------------------------------------------------
(* Properties.                                                             *)

FlagsOK ==
  /\ meta \in BOOLEAN
  /\ subscribed \in BOOLEAN
  /\ overflowed \in BOOLEAN

RedisTypeOK ==
  /\ made \in 0 .. MaxGenerations
  /\ seq \in 0 .. MaxSeq
  /\ buffer \subseteq 1 .. MaxSeq
  /\ wire \in Seq(Events)

SubscriptionTypeOK ==
  /\ phase \in {"closed", "attaching", "paused", "active", "recovering"}
  /\ queue \in Seq(Events)
  /\ Len(queue) <= QueueLimit
  /\ draining \in Seq(Events)
  /\ Len(draining) <= QueueLimit
  /\ replayIds \subseteq Positions
  /\ retired \subseteq Generations
  /\ reads \in Nat
  /\ seenAt \in [Generations -> Nat \cup {NotSeen}]
  /\ generation \in 0 .. MaxGenerations
  /\ delivered \in 0 .. MaxSeq
  /\ reading \in {"none", "issued", "replied"}

DecisionTypeOK ==
  /\ reply \in [generation : 0 .. MaxGenerations, high : 0 .. MaxSeq,
                events : SUBSET (1 .. MaxSeq)]
  /\ decision \in [replay : Seq(Positions), resync : BOOLEAN, checkpoint : Positions]

ClientTypeOK ==
  /\ resume \in {"fresh", "invalid", "cursor"}
  /\ frames \in Seq(Frames)
  /\ base \in Positions
  /\ cursor \in Positions
  /\ attaches \in Nat

\* The state has the shape the code gives it; the queue respects its limit.
TypeOK ==
  FlagsOK /\ RedisTypeOK /\ SubscriptionTypeOK /\ DecisionTypeOK /\ ClientTypeOK

\* No silent gap (ADR-0027 D2, D3): every event frame is the event right after
\* the position the client knew, which is the previous frame's, or where the
\* connection started; a jump is always a resync frame.
GapFree ==
  \A i \in DOMAIN frames :
    frames[i].kind = "event" =>
      LET p == IF i = 1 THEN base ELSE frames[i - 1].at
      IN frames[i].at = Pos(p.gen, p.seq + 1)

\* Nothing is missed: an active subscription with nothing queued or on the wire
\* (and none lost on the way) stands at the room's latest event, or the
\* generation that replaced its own has published nothing.  Overflow, recovery
\* and generation changes included.
NothingMissed ==
  (phase = "active" /\ Idle /\ wire = <<>>) =>
    \/ generation = made /\ delivered = seq
    \/ generation < made /\ seq = 0

\* process() drops the messages of a retired generation unseen, so one that is
\* retired must be superseded for good: older than the generation held.
RetiredIsSuperseded == \A g \in retired : g < generation

\* A subscription that is attached catches up with the room, or ends: no chain
\* of gaps, overflows and generation changes keeps it recovering for ever.
CatchesUp ==
  (phase # "closed") ~>
    \/ phase = "closed"
    \/ /\ phase = "active" /\ Idle /\ wire = <<>>
       /\ (generation = made /\ delivered = seq) \/ seq = 0

-----------------------------------------------------------------------------
(* The inductive invariant behind GapFree and RetiredIsSuperseded.         *)

\* The position the client knows after the frames written so far.
Held == IF frames = <<>> THEN base ELSE frames[Len(frames)].at

Begun == phase \in {"paused", "active", "recovering"}

\* Position p, and every event of evs, is at or before sequence s of generation g.
AtOrBefore(p, g, s) == p.gen < g \/ (p.gen = g /\ p.seq <= s)
UpTo(evs, g, s) == \A i \in DOMAIN evs : AtOrBefore(evs[i], g, s)

\* Every message in the node was published, every generation named was created,
\* and the held one is a real one.
CreatedOnly ==
  /\ meta => made >= 1
  /\ UpTo(wire, made, seq) /\ UpTo(queue, made, seq) /\ UpTo(draining, made, seq)
  /\ \A g \in Generations : seenAt[g] # NotSeen => g <= made
  /\ Begun => generation >= 1 /\ generation <= made

\* A reply is no older than where delivery stands, and no older than any
\* generation first seen before the read was issued.
ReplyIsCurrent ==
  reading = "replied" =>
    /\ reply.generation >= 1 /\ reply.generation <= made
    /\ phase = "recovering" =>
         /\ generation <= reply.generation
         /\ generation = reply.generation => delivered <= reply.high
         /\ \A g \in Generations :
              seenAt[g] # NotSeen /\ seenAt[g] < reads => g <= reply.generation

\* A sequence held in the current generation has been published.
BehindHead ==
  /\ Begun /\ generation = made => delivered <= seq
  /\ reading = "replied" /\ reply.generation = made => reply.high <= seq

\* What the replay carried lies at or before the delivered position.
ReplayBehind ==
  Begun => \A e \in replayIds : AtOrBefore(e, generation, delivered)

\* The frames end where the subscription stands; before activation the decision
\* leads there.
FramesReachDelivered ==
  /\ phase \in {"closed", "attaching", "paused"} => frames = <<>>
  /\ phase \in {"active", "recovering"} => Held = Pos(generation, delivered)
  /\ phase = "paused" =>
       IF decision.resync
       THEN decision.checkpoint = Pos(generation, delivered)
       ELSE /\ base.gen = generation
            /\ base.seq <= delivered
            /\ decision.replay = Following(base, delivered)

\* activate()'s loop runs in the phase active, and no read is then in flight; a
\* new subscription has retired nothing.
LoopIsActive ==
  /\ phase = "attaching" => retired = {}
  /\ draining # <<>> => phase = "active"
  /\ reading # "none" => phase \in {"attaching", "recovering"}

StreamInv ==
  /\ TypeOK /\ CreatedOnly /\ ReplyIsCurrent /\ BehindHead /\ ReplayBehind
  /\ FramesReachDelivered /\ LoopIsActive /\ GapFree /\ RetiredIsSuperseded

\* The stream implements the promise of RoomFeed.
Feed == INSTANCE RoomFeed WITH
  head <- Pos(made, seq),
  open <- phase \in {"paused", "active", "recovering"}
FeedSpec == Feed!Spec
=============================================================================
