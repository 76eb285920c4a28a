--------------------------- MODULE RoomStreamProofs ---------------------------
(***************************************************************************)
(* Theorems about RoomStream, for every bound: the inductive invariant     *)
(* StreamInv and what follows from it; nothing is missed when the channel  *)
(* loses nothing; the stream implements RoomFeed.                          *)
(***************************************************************************)
EXTENDS RoomStream, SequenceTheorems, TLAPS

\* Elements of a sequence of events are events, with natural generations.
LEMMA ElementIsEvent ==
  ASSUME NEW s \in Seq(Events), NEW i \in DOMAIN s
  PROVE  s[i] \in Events /\ s[i].gen \in Generations /\ s[i].gen \in Nat /\ s[i].seq \in Nat
  <1>1. s[i] \in Events
    BY ElementOfSeq
  <1> QED BY <1>1, BoundsAreNatural DEF Events, Generations

\* Elements of a sequence of frames are frames, at positions.
LEMMA ElementIsFrame ==
  ASSUME NEW s \in Seq(Frames), NEW i \in DOMAIN s
  PROVE  s[i] \in Frames /\ s[i].at \in Positions
  <1>1. s[i] \in Frames
    BY ElementOfSeq
  <1> QED BY <1>1 DEF Frames

\* A later position bounds what an earlier one bounds.
LEMMA UpToLater ==
  ASSUME NEW es \in Seq(Events), NEW m \in Nat, NEW s \in Nat, NEW n \in Nat, NEW t \in Nat,
         m <= n, m = n => s <= t, UpTo(es, m, s)
  PROVE  UpTo(es, n, t)
  <1> SUFFICES ASSUME NEW i \in DOMAIN es PROVE AtOrBefore(es[i], n, t)
    BY DEF UpTo
  <1>1. AtOrBefore(es[i], m, s) /\ es[i].gen \in Nat /\ es[i].seq \in Nat
    BY ElementIsEvent DEF UpTo
  <1> QED BY <1>1 DEF AtOrBefore

\* No event, no bound to check.
LEMMA UpToNone == \A n, t : UpTo(<<>>, n, t)
  BY DEF UpTo

\* The first event and the others of a bounded sequence are bounded.
LEMMA UpToHeadTail ==
  ASSUME NEW es \in Seq(Events), NEW n \in Nat, NEW t \in Nat, UpTo(es, n, t), es # <<>>
  PROVE  /\ Head(es) \in Events /\ AtOrBefore(Head(es), n, t)
         /\ Tail(es) \in Seq(Events) /\ UpTo(Tail(es), n, t)
         /\ Len(Tail(es)) = Len(es) - 1
  <1>1. /\ Len(es) \in Nat /\ Len(es) >= 1
        /\ Head(es) = es[1] /\ 1 \in DOMAIN es
        /\ Tail(es) \in Seq(Events) /\ Len(Tail(es)) = Len(es) - 1
        /\ \A i \in 1 .. Len(Tail(es)) : Tail(es)[i] = es[i + 1]
    BY HeadTailProperties, LenProperties, EmptySeq
  <1>2. \A i \in DOMAIN Tail(es) : Tail(es)[i] = es[i + 1] /\ i + 1 \in DOMAIN es
    BY <1>1, LenProperties
  <1> QED BY <1>1, <1>2, ElementIsEvent DEF UpTo

\* Joining two bounded sequences.
LEMMA UpToJoin ==
  ASSUME NEW es \in Seq(Events), NEW fs \in Seq(Events), NEW n \in Nat, NEW t \in Nat,
         UpTo(es, n, t), UpTo(fs, n, t)
  PROVE  /\ es \o fs \in Seq(Events) /\ UpTo(es \o fs, n, t)
         /\ Len(es \o fs) = Len(es) + Len(fs)
  <1>1. /\ es \o fs \in Seq(Events) /\ Len(es \o fs) = Len(es) + Len(fs)
        /\ \A i \in 1 .. Len(es) + Len(fs) :
             (es \o fs)[i] = IF i <= Len(es) THEN es[i] ELSE fs[i - Len(es)]
    BY ConcatProperties
  <1>2. ASSUME NEW i \in DOMAIN (es \o fs) PROVE AtOrBefore((es \o fs)[i], n, t)
    <2>1. i \in 1 .. Len(es) + Len(fs) /\ Len(es) \in Nat /\ Len(fs) \in Nat
      BY <1>1, LenProperties
    <2>2. CASE i <= Len(es)
      BY <1>1, <2>1, <2>2, LenProperties DEF UpTo
    <2>3. CASE ~(i <= Len(es))
      <3>1. i - Len(es) \in DOMAIN fs
        BY <2>1, <2>3, LenProperties
      <3> QED BY <1>1, <2>1, <2>3, <3>1 DEF UpTo
    <2> QED BY <2>2, <2>3
  <1> QED BY <1>1, <1>2 DEF UpTo

\* A sequence of one event.
LEMMA UpToOne ==
  ASSUME NEW e \in Events, NEW n \in Nat, NEW t \in Nat, AtOrBefore(e, n, t)
  PROVE  <<e>> \in Seq(Events) /\ UpTo(<<e>>, n, t) /\ Len(<<e>>) = 1
  BY DEF UpTo

\* ADR-0027's counters start at zero and nothing is attached.
LEMMA InitStreamInv == Init => StreamInv
  <1> USE BoundsAreNatural
  <1> SUFFICES ASSUME Init PROVE StreamInv
    OBVIOUS
  <1>0. FlagsOK
    BY Zenon DEF Init, FlagsOK
  <1>1. RedisTypeOK /\ SubscriptionTypeOK
    BY DEF Init, RedisTypeOK, SubscriptionTypeOK, NotSeen
  <1>2. DecisionTypeOK /\ ClientTypeOK
    BY DEF Init, DecisionTypeOK, ClientTypeOK, NoDecision, NoPosition, Pos, Positions
  <1>3. CreatedOnly /\ ReplyIsCurrent /\ BehindHead /\ ReplayBehind /\ LoopIsActive
    BY UpToNone DEF Init, CreatedOnly, ReplyIsCurrent, BehindHead, ReplayBehind,
                    Begun, LoopIsActive
  <1>4. FramesReachDelivered /\ GapFree /\ RetiredIsSuperseded
    BY DEF Init, FramesReachDelivered, GapFree, RetiredIsSuperseded
  <1> QED BY <1>0, <1>1, <1>2, <1>3, <1>4 DEF StreamInv, TypeOK

\* Where the prologue of either script leaves the room: never behind.
LEMMA PrologueFacts ==
  ASSUME StreamInv, PrologueEnabled
  PROVE  /\ PrologueGen \in Generations /\ PrologueGen \in 0 .. MaxGenerations
         /\ PrologueGen >= made /\ PrologueGen >= 1
         /\ PrologueSeq \in 0 .. MaxSeq
         /\ PrologueGen = made => PrologueSeq = seq
         /\ PrologueBuffer \subseteq 1 .. MaxSeq
  BY BoundsAreNatural
     DEF StreamInv, TypeOK, RedisTypeOK, CreatedOnly, PrologueEnabled, PrologueGen,
         PrologueSeq, PrologueBuffer, Generations

\* A step of Redis or of the channel that leaves the subscription and the client
\* alone keeps the invariant, provided the room's position moves forward.
LEMMA ForwardStep ==
  ASSUME StreamInv, FlagsOK',
         made' \in 0 .. MaxGenerations, made' >= made, meta' => made' >= 1,
         seq' \in 0 .. MaxSeq, made' = made => seq' >= seq,
         buffer' \subseteq 1 .. MaxSeq,
         wire' \in Seq(Events), UpTo(wire', made', seq'),
         UNCHANGED <<subVars, clientVars>>
  PROVE  StreamInv'
  <1> USE BoundsAreNatural DEF subVars, clientVars
  <1>1. RedisTypeOK'
    BY DEF RedisTypeOK
  <1>2. SubscriptionTypeOK' /\ DecisionTypeOK' /\ ClientTypeOK'
    BY DEF StreamInv, TypeOK, SubscriptionTypeOK, DecisionTypeOK, ClientTypeOK
  <1>3. CreatedOnly'
    <2>1. UpTo(queue', made', seq') /\ UpTo(draining', made', seq')
      BY UpToLater DEF StreamInv, TypeOK, RedisTypeOK, SubscriptionTypeOK, CreatedOnly
    <2> QED
      BY <2>1 DEF StreamInv, TypeOK, RedisTypeOK, SubscriptionTypeOK, CreatedOnly,
                  Begun, Generations
  <1>4. ReplyIsCurrent' /\ BehindHead'
    BY DEF StreamInv, TypeOK, RedisTypeOK, SubscriptionTypeOK, DecisionTypeOK,
           CreatedOnly, ReplyIsCurrent, BehindHead, Begun
  <1>5. ReplayBehind' /\ LoopIsActive' /\ RetiredIsSuperseded'
    BY DEF StreamInv, ReplayBehind, LoopIsActive, RetiredIsSuperseded, Begun
  <1>6. FramesReachDelivered' /\ GapFree'
    BY DEF StreamInv, FramesReachDelivered, GapFree, Held
  <1> QED
    BY <1>1, <1>2, <1>3, <1>4, <1>5, <1>6 DEF StreamInv, TypeOK

\* PUBLISH_SCRIPT.
LEMMA PublishStep == StreamInv /\ Publish => StreamInv'
  <1> USE BoundsAreNatural
  <1> SUFFICES ASSUME StreamInv, Publish PROVE StreamInv'
    OBVIOUS
  <1> DEFINE e == Pos(PrologueGen, PrologueSeq + 1)
  <1>0. /\ made' \in 0 .. MaxGenerations /\ made' >= made /\ made' >= 1
        /\ made' \in Nat /\ made \in Nat /\ seq' \in Nat /\ seq \in Nat
        /\ seq' \in 0 .. MaxSeq /\ (made' = made => seq' >= seq)
        /\ made' = PrologueGen /\ PrologueSeq + 1 \in 1 .. MaxSeq /\ seq' = PrologueSeq + 1
        /\ PrologueGen \in Generations
    BY PrologueFacts DEF Publish, StreamInv, TypeOK, RedisTypeOK
  <1>1. FlagsOK'
    BY Zenon DEF StreamInv, TypeOK, FlagsOK, Publish, subVars
  <1>2. wire' \in Seq(Events) /\ UpTo(wire', made', seq')
    <2>1. wire \in Seq(Events) /\ UpTo(wire, made', seq')
      BY <1>0, UpToLater DEF StreamInv, TypeOK, RedisTypeOK, CreatedOnly
    <2>2. e \in Events /\ AtOrBefore(e, made', seq')
      BY <1>0 DEF Pos, Events, AtOrBefore
    <2>3. wire' = wire \o <<e>> \/ wire' = wire
      BY <2>1, <2>2, AppendIsConcat DEF Publish
    <2> HIDE DEF e
    <2>4. made' \in Nat /\ seq' \in Nat
      BY <1>0
    <2>5. <<e>> \in Seq(Events) /\ UpTo(<<e>>, made', seq')
      BY <2>2, <2>4, UpToOne
    <2>6. wire \o <<e>> \in Seq(Events) /\ UpTo(wire \o <<e>>, made', seq')
      BY <2>1, <2>4, <2>5, UpToJoin
    <2> QED BY <2>1, <2>3, <2>6
  <1>3. buffer' \subseteq 1 .. MaxSeq
    BY <1>0, PrologueFacts DEF Publish, Trim
  <1> QED
    BY <1>0, <1>1, <1>2, <1>3, ForwardStep DEF Publish

\* The other steps outside the subscription.
LEMMA OutsideStep ==
  ASSUME StreamInv, OtherSnapshot \/ Rotate \/ ExpireBuffer \/ Unsubscribe
           \/ DropMessage \/ LoseMessage
  PROVE  StreamInv'
  <1> USE BoundsAreNatural
  <1>0. /\ made \in 0 .. MaxGenerations /\ made \in Nat /\ seq \in 0 .. MaxSeq /\ seq \in Nat
        /\ buffer \subseteq 1 .. MaxSeq
        /\ wire \in Seq(Events) /\ UpTo(wire, made, seq) /\ (meta => made >= 1)
    BY DEF StreamInv, TypeOK, RedisTypeOK, CreatedOnly
  <1>1. FlagsOK'
    BY Zenon DEF StreamInv, TypeOK, FlagsOK, OtherSnapshot, Rotate, ExpireBuffer,
                 Unsubscribe, DropMessage, LoseMessage, subVars, redisVars
  <1>2. CASE OtherSnapshot
    <2>1. /\ made' \in 0 .. MaxGenerations /\ made' >= made /\ made' >= 1
          /\ seq' \in 0 .. MaxSeq /\ (made' = made => seq' >= seq)
          /\ buffer' \subseteq 1 .. MaxSeq /\ wire' = wire /\ made' \in Nat /\ seq' \in Nat
      BY <1>0, <1>2, PrologueFacts DEF OtherSnapshot
    <2>2. UpTo(wire, made', seq')
      BY <1>0, <2>1, UpToLater
    <2> QED BY <1>0, <1>1, <1>2, <2>1, <2>2, ForwardStep DEF OtherSnapshot
  <1>3. CASE Rotate
    BY <1>0, <1>1, <1>3, ForwardStep DEF Rotate
  <1>4. CASE ExpireBuffer
    BY <1>0, <1>1, <1>4, ForwardStep DEF ExpireBuffer
  <1>5. CASE Unsubscribe
    BY <1>0, <1>1, <1>5, ForwardStep DEF Unsubscribe, redisVars
  <1>6. CASE DropMessage \/ LoseMessage
    <2>1. wire' \in Seq(Events) /\ UpTo(wire', made, seq)
      BY <1>0, <1>6, UpToHeadTail DEF DropMessage, LoseMessage
    <2>2. UNCHANGED <<redisVars, subVars, clientVars>>
      BY <1>6 DEF DropMessage, LoseMessage
    <2> QED BY <1>0, <1>1, <2>1, <2>2, ForwardStep DEF redisVars
  <1> QED BY <1>2, <1>3, <1>4, <1>5, <1>6

\* SNAPSHOT_SCRIPT: its answer is the room's position when it ran, so it is not
\* behind any generation a message has already named.
LEMMA ExecSnapshotStep == StreamInv /\ ExecSnapshot => StreamInv'
  <1> USE BoundsAreNatural
  <1> SUFFICES ASSUME StreamInv, ExecSnapshot PROVE StreamInv'
    OBVIOUS
  <1>0. /\ made' \in 0 .. MaxGenerations /\ made' >= made /\ made' >= 1
        /\ made' \in Nat /\ made \in Nat /\ seq' \in Nat /\ seq \in Nat
        /\ seq' \in 0 .. MaxSeq /\ (made' = made => seq' = seq)
        /\ buffer' \subseteq 1 .. MaxSeq
        /\ reply' = Snapshot /\ reply'.generation = made' /\ reply'.high = seq'
        /\ reply'.events \subseteq 1 .. MaxSeq
    BY PrologueFacts DEF ExecSnapshot, StreamInv, TypeOK, RedisTypeOK, Snapshot
  <1>1. FlagsOK'
    BY Zenon DEF StreamInv, TypeOK, FlagsOK, ExecSnapshot
  <1>2. UpTo(wire, made', seq') /\ UpTo(queue, made', seq') /\ UpTo(draining, made', seq')
    BY <1>0, UpToLater DEF StreamInv, TypeOK, RedisTypeOK, SubscriptionTypeOK, CreatedOnly
  <1>3. RedisTypeOK' /\ SubscriptionTypeOK' /\ ClientTypeOK'
    BY <1>0 DEF StreamInv, TypeOK, RedisTypeOK, SubscriptionTypeOK, ClientTypeOK,
                ExecSnapshot, clientVars
  <1>4. DecisionTypeOK'
    BY <1>0 DEF StreamInv, TypeOK, DecisionTypeOK, ExecSnapshot, Snapshot
  <1>5. CreatedOnly'
    BY <1>0, <1>2 DEF StreamInv, TypeOK, SubscriptionTypeOK, CreatedOnly, ExecSnapshot,
                      Begun, Generations
  <1>6. ReplyIsCurrent' /\ BehindHead'
    BY <1>0 DEF StreamInv, TypeOK, RedisTypeOK, SubscriptionTypeOK, CreatedOnly,
                ReplyIsCurrent, BehindHead, ExecSnapshot, Begun, Generations
  <1>7. ReplayBehind' /\ LoopIsActive' /\ RetiredIsSuperseded'
    BY DEF StreamInv, ReplayBehind, LoopIsActive, RetiredIsSuperseded, ExecSnapshot, Begun
  <1>8. FramesReachDelivered' /\ GapFree'
    BY DEF StreamInv, FramesReachDelivered, GapFree, Held, ExecSnapshot, clientVars
  <1> QED
    BY <1>1, <1>3, <1>4, <1>5, <1>6, <1>7, <1>8 DEF StreamInv, TypeOK

\* A connection begins with a new subscription, then hears the channel's ACK.
LEMMA AttachStep == StreamInv /\ (Attach \/ SubscribeAck) => StreamInv'
  <1> USE BoundsAreNatural
  <1> SUFFICES ASSUME StreamInv, Attach \/ SubscribeAck PROVE StreamInv'
    OBVIOUS
  <1>1. FlagsOK'
    BY Zenon DEF StreamInv, TypeOK, FlagsOK, Attach, SubscribeAck, redisVars
  <1>2. RedisTypeOK'
    BY DEF StreamInv, TypeOK, RedisTypeOK, Attach, SubscribeAck, redisVars
  <1>3. SubscriptionTypeOK' /\ ClientTypeOK'
    <2>1. CASE Attach
      <3>1. SubscriptionTypeOK'
        BY <2>1 DEF StreamInv, TypeOK, SubscriptionTypeOK, Attach
      <3>2. ClientTypeOK'
        BY <2>1 DEF StreamInv, TypeOK, ClientTypeOK, Attach
      <3> QED BY <3>1, <3>2
    <2>2. CASE SubscribeAck
      BY <2>2 DEF StreamInv, TypeOK, SubscriptionTypeOK, ClientTypeOK, SubscribeAck,
                  clientVars
    <2> QED BY <2>1, <2>2
  <1>4. DecisionTypeOK'
    BY DEF StreamInv, TypeOK, DecisionTypeOK, Attach, SubscribeAck
  <1>5. CreatedOnly'
    BY UpToNone DEF StreamInv, CreatedOnly, Attach, SubscribeAck, Begun, redisVars
  <1>6. ReplyIsCurrent' /\ BehindHead' /\ ReplayBehind' /\ LoopIsActive'
    BY DEF StreamInv, ReplyIsCurrent, BehindHead, ReplayBehind, LoopIsActive, Attach,
           SubscribeAck, Begun, redisVars
  <1>7. RetiredIsSuperseded' /\ FramesReachDelivered' /\ GapFree'
    BY DEF StreamInv, RetiredIsSuperseded, FramesReachDelivered, GapFree, Held, Attach,
           SubscribeAck, clientVars
  <1> QED
    BY <1>1, <1>2, <1>3, <1>4, <1>5, <1>6, <1>7 DEF StreamInv, TypeOK

\* However a connection ends, the client keeps a cursor it has received.
LEMMA CloseStep == StreamInv /\ (Disconnect \/ Fail \/ SubscriberLost) => StreamInv'
  <1> USE BoundsAreNatural
  <1> SUFFICES ASSUME StreamInv, Disconnect \/ Fail \/ SubscriberLost PROVE StreamInv'
    OBVIOUS
  <1>0. /\ RedisTypeOK /\ CreatedOnly /\ made \in Nat /\ seq \in Nat /\ wire \in Seq(Events)
    BY DEF StreamInv, TypeOK, RedisTypeOK
  <1>1. FlagsOK'
    BY Zenon DEF StreamInv, TypeOK, FlagsOK, Disconnect, Fail, SubscriberLost, Close,
                 redisVars, subVars
  <1>2. wire' \in Seq(Events) /\ UpTo(wire', made, seq)
    <2>1. wire' = wire \/ wire' = <<>>
      BY DEF Disconnect, Fail, SubscriberLost
    <2> QED BY <1>0, <2>1, UpToNone, EmptySeq DEF CreatedOnly
  <1>3. CASE UNCHANGED <<redisVars, subVars, clientVars>>
    <2>1. /\ made' \in 0 .. MaxGenerations /\ made' >= made /\ (meta' => made' >= 1)
          /\ seq' \in 0 .. MaxSeq /\ (made' = made => seq' >= seq)
          /\ buffer' \subseteq 1 .. MaxSeq /\ UpTo(wire', made', seq')
      BY <1>0, <1>2, <1>3 DEF RedisTypeOK, CreatedOnly, redisVars
    <2> QED BY <1>1, <1>2, <1>3, <2>1, ForwardStep
  <1>4. CASE Close
    <2>1. RedisTypeOK'
      BY <1>0, <1>2, <1>4 DEF RedisTypeOK, Close, redisVars
    <2>2. SubscriptionTypeOK'
      BY <1>4 DEF StreamInv, TypeOK, SubscriptionTypeOK, Close
    <2>3. DecisionTypeOK'
      BY <1>4 DEF StreamInv, TypeOK, DecisionTypeOK, Close, NoDecision, NoPosition, Pos,
                  Positions
    <2>4. cursor' \in Positions
      <3>1. frames \in Seq(Frames) /\ cursor \in Positions
        BY DEF StreamInv, TypeOK, ClientTypeOK
      <3>2. \A i \in DOMAIN frames : frames[i].at \in Positions
        BY <3>1, ElementIsFrame
      <3> QED BY <1>4, <3>1, <3>2 DEF Close
    <2>5. ClientTypeOK'
      BY <1>4, <2>4 DEF StreamInv, TypeOK, ClientTypeOK, Close, NoPosition, Pos, Positions
    <2>6. CreatedOnly'
      BY <1>2, <1>4, UpToNone DEF StreamInv, CreatedOnly, Close, Begun, redisVars
    <2>7. ReplyIsCurrent' /\ BehindHead' /\ ReplayBehind' /\ LoopIsActive'
      BY <1>4 DEF StreamInv, ReplyIsCurrent, BehindHead, ReplayBehind, LoopIsActive, Close,
                  Begun, Idle
    <2>8. RetiredIsSuperseded' /\ FramesReachDelivered' /\ GapFree'
      BY <1>4 DEF StreamInv, RetiredIsSuperseded, FramesReachDelivered, GapFree, Close
    <2> QED
      BY <1>1, <2>1, <2>2, <2>3, <2>5, <2>6, <2>7, <2>8 DEF StreamInv, TypeOK
  <1> QED BY <1>3, <1>4 DEF Disconnect, Fail, SubscriberLost

\* An index past the first of an appended run, counted from the run's start.
LEMMA IndexInRun ==
  ASSUME NEW l \in Nat, NEW n \in Nat, NEW j \in 1 .. l + n, j > l + 1
  PROVE  /\ j - l \in 1 .. n /\ (j - l) - 1 \in 1 .. n
         /\ j = l + (j - l) /\ j # 1 /\ j - 1 = l + ((j - l) - 1)
  OBVIOUS

\* The frames after a run of consecutive events from where the client stands.
LEMMA EventsExtend ==
  ASSUME frames \in Seq(Frames), base \in Positions, GapFree, NEW n \in Nat,
         NEW ext \in Seq(Frames), Len(ext) = n,
         \A i \in 1 .. n : ext[i] = EventFrame(Pos(Held.gen, Held.seq + i)),
         frames' = frames \o ext, base' = base
  PROVE  /\ frames' \in Seq(Frames)
         /\ GapFree'
         /\ Held' = Pos(Held.gen, Held.seq + n)
  <1> DEFINE L == Len(frames)
  <1>0. /\ L \in Nat /\ DOMAIN frames = 1 .. L
        /\ (frames = <<>>) <=> (L = 0)
    BY LenProperties, EmptySeq
  <1>1. /\ frames' \in Seq(Frames) /\ Len(frames') = L + n
        /\ DOMAIN frames' = 1 .. L + n
        /\ \A i \in 1 .. L : frames'[i] = frames[i]
        /\ \A i \in 1 .. n : frames'[L + i] = ext[i]
    <2>1. frames' \in Seq(Frames) /\ Len(frames') = L + n
      BY ConcatProperties
    <2>2. \A i \in 1 .. L + n : frames'[i] = IF i <= L THEN frames[i] ELSE ext[i - L]
      BY ConcatProperties
    <2>3. \A i \in 1 .. n : L + i \in 1 .. L + n /\ ~(L + i <= L) /\ (L + i) - L = i
      BY <1>0
    <2>4. \A i \in 1 .. n : frames'[L + i] = ext[i]
      BY <2>2, <2>3
    <2>5. \A i \in 1 .. L : frames'[i] = frames[i]
      BY <1>0, <2>2
    <2> QED BY <2>1, <2>4, <2>5, LenProperties
  <1>2. Held \in Positions
    BY <1>0, ElementIsFrame DEF Held
  <1>3. Held.gen \in Nat /\ Held.seq \in Nat /\ Held = Pos(Held.gen, Held.seq)
    BY <1>2 DEF Positions, Pos
  <1>4. \A i \in 1 .. n : /\ frames'[L + i].kind = "event"
                          /\ frames'[L + i].at = Pos(Held.gen, Held.seq + i)
    BY <1>1 DEF EventFrame
  <1>5. L > 0 => frames[L].at = Held
    BY <1>0 DEF Held
  <1>6. GapFree'
    <2> SUFFICES ASSUME NEW j \in 1 .. L + n, frames'[j].kind = "event"
                 PROVE  frames'[j].at = Pos((IF j = 1 THEN base ELSE frames'[j - 1].at).gen,
                                            (IF j = 1 THEN base ELSE frames'[j - 1].at).seq + 1)
      BY <1>1 DEF GapFree
    <2>1. CASE j <= L
      <3>1. frames'[j] = frames[j] /\ (j # 1 => frames'[j - 1] = frames[j - 1]) /\ j \in 1 .. L
        BY <1>0, <1>1, <2>1
      <3> QED BY <1>0, <3>1 DEF GapFree
    <2>2. CASE j = L + 1
      <3>1. frames'[j].at = Pos(Held.gen, Held.seq + 1)
        BY <1>0, <1>4, <2>2
      <3>2. (IF j = 1 THEN base ELSE frames'[j - 1].at) = Held
        <4>1. CASE L = 0
          BY <1>0, <2>2, <4>1 DEF Held
        <4>2. CASE L > 0
          <5>1. j # 1 /\ j - 1 = L /\ L \in 1 .. L
            BY <1>0, <2>2, <4>2
          <5> QED BY <1>1, <1>5, <4>2, <5>1
        <4> QED BY <1>0, <4>1, <4>2
      <3> QED BY <3>1, <3>2
    <2>3. CASE j > L + 1
      <3> DEFINE k == j - L
      <3> HIDE DEF L
      <3>1. k \in 1 .. n /\ k - 1 \in 1 .. n /\ j = L + k /\ j # 1 /\ j - 1 = L + (k - 1)
        BY <1>0, <1>3, <2>3, IndexInRun
      <3> HIDE DEF k
      <3>2. (Held.seq + (k - 1)) + 1 = Held.seq + k
        <4>1. \A s \in Nat : (s + (k - 1)) + 1 = s + k
          BY <3>1
        <4> QED BY <4>1, <1>3, Zenon
      <3>3. frames'[j].at = Pos(Held.gen, Held.seq + k)
        BY <1>4, <3>1
      <3>4. frames'[j - 1].at = Pos(Held.gen, Held.seq + (k - 1))
        BY <1>4, <3>1
      <3> DEFINE prev == IF j = 1 THEN base ELSE frames'[j - 1].at
      <3>5. prev = Pos(Held.gen, Held.seq + (k - 1))
        BY <3>1, <3>4
      <3> HIDE DEF prev
      <3>6. prev.gen = Held.gen /\ prev.seq = Held.seq + (k - 1)
        BY <3>5 DEF Pos
      <3>7. frames'[j].at = Pos(prev.gen, prev.seq + 1)
        BY <3>2, <3>3, <3>6
      <3> QED BY <3>7 DEF prev
    <2>4. j <= L \/ j = L + 1 \/ j > L + 1
      BY <1>0
    <2> QED BY <2>1, <2>2, <2>3, <2>4
  <1>7. Held' = Pos(Held.gen, Held.seq + n)
    <2>1. CASE n = 0
      <3>1. Len(frames') = L
        BY <1>0, <1>1, <2>1
      <3>2. (frames' = <<>>) <=> (L = 0)
        BY <1>1, <3>1, EmptySeq
      <3>3. Held' = Held
        BY <1>0, <1>1, <3>1, <3>2 DEF Held
      <3> QED BY <1>3, <2>1, <3>3
    <2>2. CASE n > 0
      <3>1. frames' # <<>> /\ Len(frames') = L + n /\ n \in 1 .. n
        BY <1>0, <1>1, <2>2, EmptySeq
      <3>2. Held' = frames'[L + n].at
        BY <3>1 DEF Held
      <3> QED BY <1>4, <3>1, <3>2
    <2> QED BY <2>1, <2>2
  <1> QED BY <1>1, <1>6, <1>7

\* The frames after a resync: the client then knows its checkpoint.
LEMMA ResyncExtends ==
  ASSUME frames \in Seq(Frames), base \in Positions, GapFree, NEW p \in Positions,
         frames' = frames \o <<ResyncFrame(p)>>, base' = base
  PROVE  frames' \in Seq(Frames) /\ GapFree' /\ Held' = p
  <1> DEFINE L == Len(frames)
  <1>0. L \in Nat /\ DOMAIN frames = 1 .. L /\ ResyncFrame(p) \in Frames
    BY LenProperties DEF ResyncFrame, Frames
  <1>1. frames' = Append(frames, ResyncFrame(p))
    BY <1>0, AppendIsConcat
  <1>2. /\ frames' \in Seq(Frames) /\ Len(frames') = L + 1
        /\ DOMAIN frames' = 1 .. L + 1
        /\ \A i \in 1 .. L : frames'[i] = frames[i]
        /\ frames'[L + 1] = ResyncFrame(p)
    BY <1>0, <1>1, AppendProperties, LenProperties
  <1>3. Held' = p
    BY <1>0, <1>2 DEF Held, ResyncFrame
  <1>4. GapFree'
    <2> SUFFICES ASSUME NEW j \in 1 .. L + 1, frames'[j].kind = "event"
                 PROVE  frames'[j].at = Pos((IF j = 1 THEN base ELSE frames'[j - 1].at).gen,
                                            (IF j = 1 THEN base ELSE frames'[j - 1].at).seq + 1)
      BY <1>2 DEF GapFree
    <2>1. j \in 1 .. L
      BY <1>0, <1>2 DEF ResyncFrame
    <2>2. frames'[j] = frames[j] /\ (j # 1 => frames'[j - 1] = frames[j - 1])
      BY <1>0, <1>2, <2>1
    <2> QED BY <1>0, <2>1, <2>2 DEF GapFree
  <1> QED BY <1>2, <1>3, <1>4

\* enqueue() respects the limit, whatever it is given.
LEMMA EnqueueKeeps ==
  ASSUME StreamInv, NEW evs \in Seq(Events), UpTo(evs, made, seq), Enqueue(evs)
  PROVE  /\ overflowed' \in BOOLEAN
         /\ queue' \in Seq(Events) /\ Len(queue') <= QueueLimit /\ UpTo(queue', made, seq)
  <1> USE BoundsAreNatural
  <1>1. overflowed' \in BOOLEAN
    BY Zenon DEF Enqueue
  <1>2. /\ queue \in Seq(Events) /\ UpTo(queue, made, seq) /\ made \in Nat /\ seq \in Nat
        /\ Len(queue) \in Nat /\ Len(evs) \in Nat
    BY LenProperties DEF StreamInv, TypeOK, RedisTypeOK, SubscriptionTypeOK, CreatedOnly
  <1>3. /\ queue \o evs \in Seq(Events) /\ UpTo(queue \o evs, made, seq)
        /\ Len(queue \o evs) = Len(queue) + Len(evs)
    BY <1>2, UpToJoin
  <1>4. queue' = <<>> \/ (queue' = queue \o evs /\ Len(queue) + Len(evs) <= QueueLimit)
    <2>1. overflowed' => queue' = <<>>
      BY Zenon DEF Enqueue
    <2>2. ~overflowed' => queue' = queue \o evs /\ ~(Len(queue) + Len(evs) > QueueLimit)
      BY Zenon DEF Enqueue
    <2> QED BY <1>2, <2>1, <2>2
  <1>5. CASE queue' = <<>>
    <2>1. queue' \in Seq(Events) /\ Len(queue') = 0
      BY <1>5
    <2> QED BY <1>1, <1>5, <2>1, UpToNone
  <1>6. CASE queue' = queue \o evs /\ Len(queue) + Len(evs) <= QueueLimit
    BY <1>1, <1>3, <1>6
  <1> QED BY <1>4, <1>5, <1>6

\* The first sight of a created generation is dated no later than now.
LEMMA SeeKeeps ==
  ASSUME StreamInv, NEW e \in Events, AtOrBefore(e, made, seq), See(e)
  PROVE  /\ seenAt' \in [Generations -> Nat \cup {NotSeen}]
         /\ \A g \in Generations : seenAt'[g] # NotSeen => g <= made
         /\ \A g \in Generations : seenAt'[g] = seenAt[g] \/ seenAt'[g] = reads
  <1>1. /\ seenAt \in [Generations -> Nat \cup {NotSeen}] /\ reads \in Nat
        /\ \A g \in Generations : seenAt[g] # NotSeen => g <= made
        /\ e.gen \in Generations /\ e.gen <= made
    BY BoundsAreNatural
       DEF StreamInv, TypeOK, RedisTypeOK, SubscriptionTypeOK, CreatedOnly, Events,
           Generations, AtOrBefore
  <1> QED BY <1>1 DEF See

\* push() while the subscription queues.
LEMMA PushQueuedStep == StreamInv /\ PushQueued => StreamInv'
  <1> USE BoundsAreNatural
  <1> SUFFICES ASSUME StreamInv, PushQueued PROVE StreamInv'
    OBVIOUS
  <1> DEFINE e == Head(wire)
  <1>0. wire \in Seq(Events) /\ UpTo(wire, made, seq) /\ made \in Nat /\ seq \in Nat /\ wire # <<>>
    BY DEF StreamInv, TypeOK, RedisTypeOK, CreatedOnly, PushQueued
  <1>1. e \in Events /\ AtOrBefore(e, made, seq) /\ wire' \in Seq(Events) /\ UpTo(wire', made, seq)
    BY <1>0, UpToHeadTail DEF PushQueued
  <1>2. <<e>> \in Seq(Events) /\ UpTo(<<e>>, made, seq)
    BY <1>0, <1>1, UpToOne
  <1>3. See(e) /\ Enqueue(<<e>>)
    BY DEF PushQueued
  <1>4. /\ seenAt' \in [Generations -> Nat \cup {NotSeen}]
        /\ \A g \in Generations : seenAt'[g] # NotSeen => g <= made
        /\ \A g \in Generations : seenAt'[g] = seenAt[g] \/ seenAt'[g] = reads
    <2> HIDE DEF e
    <2> QED BY <1>1, <1>3, SeeKeeps
  <1>5. /\ overflowed' \in BOOLEAN
        /\ queue' \in Seq(Events) /\ Len(queue') <= QueueLimit /\ UpTo(queue', made, seq)
    <2> HIDE DEF e
    <2> QED BY <1>2, <1>3, EnqueueKeeps
  <1>6. FlagsOK'
    BY <1>5, Zenon DEF StreamInv, TypeOK, FlagsOK, PushQueued, redisVars
  <1>7. RedisTypeOK'
    BY <1>1 DEF StreamInv, TypeOK, RedisTypeOK, PushQueued, redisVars
  <1>8. SubscriptionTypeOK'
    BY <1>4, <1>5 DEF StreamInv, TypeOK, SubscriptionTypeOK, PushQueued
  <1>9. DecisionTypeOK' /\ ClientTypeOK'
    BY DEF StreamInv, TypeOK, DecisionTypeOK, ClientTypeOK, PushQueued, clientVars
  <1>10. CreatedOnly'
    BY <1>1, <1>4, <1>5 DEF StreamInv, CreatedOnly, PushQueued, Begun, redisVars
  <1>11. ReplyIsCurrent'
    BY <1>4 DEF StreamInv, TypeOK, SubscriptionTypeOK, ReplyIsCurrent, PushQueued, redisVars
  <1>12. BehindHead' /\ ReplayBehind' /\ LoopIsActive'
    BY DEF StreamInv, BehindHead, ReplayBehind, LoopIsActive, PushQueued, Begun, redisVars
  <1>13. RetiredIsSuperseded' /\ FramesReachDelivered' /\ GapFree'
    BY DEF StreamInv, RetiredIsSuperseded, FramesReachDelivered, GapFree, Held,
           PushQueued, clientVars
  <1> QED
    BY <1>6, <1>7, <1>8, <1>9, <1>10, <1>11, <1>12, <1>13 DEF StreamInv, TypeOK

\* process(): whatever the event, what follows the client's position goes out,
\* what does not is dropped or waits for a read.
LEMMA ProcessStep ==
  ASSUME StreamInv, phase = "active",
         NEW e \in Events, AtOrBefore(e, made, seq),
         NEW rest \in Seq(Events), UpTo(rest, made, seq), Len(rest) <= QueueLimit,
         Process(e, rest),
         wire' \in Seq(Events), UpTo(wire', made, seq),
         seenAt' \in [Generations -> Nat \cup {NotSeen}],
         \A g \in Generations : seenAt'[g] # NotSeen => g <= made,
         UNCHANGED <<redisVars, subscribed, replayIds, retired, generation, reply,
                     decision, resume, base, cursor, attaches>>
  PROVE  StreamInv'
  <1> USE BoundsAreNatural
  <1>0. /\ made \in Nat /\ seq \in Nat /\ reading = "none" /\ reads \in Nat
        /\ generation \in 0 .. MaxGenerations /\ delivered \in 0 .. MaxSeq
        /\ frames \in Seq(Frames) /\ base \in Positions /\ GapFree
        /\ Held = Pos(generation, delivered)
        /\ e.gen \in Generations /\ e.seq \in 1 .. MaxSeq /\ e = Pos(e.gen, e.seq)
    BY DEF StreamInv, TypeOK, RedisTypeOK, SubscriptionTypeOK, ClientTypeOK, LoopIsActive,
           FramesReachDelivered, Events, Pos
  <1>1. <<e>> \o rest \in Seq(Events) /\ UpTo(<<e>> \o rest, made, seq)
    BY <1>0, UpToOne, UpToJoin
  <1>2. Enqueue(<<e>> \o rest) =>
          /\ overflowed' \in BOOLEAN
          /\ queue' \in Seq(Events) /\ Len(queue') <= QueueLimit /\ UpTo(queue', made, seq)
    BY <1>1, EnqueueKeeps
  <1>3. FlagsOK'
    BY <1>2, Zenon DEF StreamInv, TypeOK, FlagsOK, Process, redisVars
  <1>4. RedisTypeOK' /\ DecisionTypeOK'
    BY DEF StreamInv, TypeOK, RedisTypeOK, DecisionTypeOK, redisVars
  <1>5. /\ queue' \in Seq(Events) /\ Len(queue') <= QueueLimit /\ UpTo(queue', made, seq)
        /\ draining' \in Seq(Events) /\ Len(draining') <= QueueLimit /\ UpTo(draining', made, seq)
    <2>1. CASE UNCHANGED queue /\ draining' = rest
      BY <2>1 DEF StreamInv, TypeOK, SubscriptionTypeOK, CreatedOnly
    <2>2. CASE Enqueue(<<e>> \o rest) /\ draining' = <<>>
      BY <1>2, <2>2, UpToNone
    <2> QED BY <2>1, <2>2 DEF Process, IssueRead
  <1>6. /\ frames' \in Seq(Frames) /\ GapFree'
        /\ Held' = Pos(generation, delivered') /\ delivered' \in 0 .. MaxSeq
        /\ delivered' >= delivered
    <2>1. CASE UNCHANGED <<delivered, frames>>
      BY <1>0, <2>1 DEF GapFree, Held
    <2>2. CASE IsNext(e) /\ delivered' = e.seq /\ frames' = Append(frames, EventFrame(e))
      <3>1. e = Pos(generation, delivered + 1) /\ delivered' = delivered + 1
        BY <1>0, <2>2 DEF IsNext
      <3>2. EventFrame(e) \in Frames
        BY <1>0 DEF EventFrame, Frames, Positions, Pos, Generations
      <3>3. Held.gen = generation /\ Held.seq = delivered
        BY <1>0 DEF Pos
      <3>4. frames' = frames \o <<EventFrame(e)>> /\ <<EventFrame(e)>> \in Seq(Frames)
        BY <1>0, <2>2, <3>2, AppendIsConcat
      <3>5. \A i \in 1 .. 1 : <<EventFrame(e)>>[i] = EventFrame(Pos(Held.gen, Held.seq + i))
        BY <3>1, <3>3
      <3>6. frames' \in Seq(Frames) /\ GapFree' /\ Held' = Pos(Held.gen, Held.seq + 1)
        <4> DEFINE ext == <<EventFrame(e)>>
        <4>1. ext \in Seq(Frames) /\ Len(ext) = 1 /\ 1 \in Nat
          BY <3>4
        <4>2. \A i \in 1 .. 1 : ext[i] = EventFrame(Pos(Held.gen, Held.seq + i))
          BY <3>5
        <4>3. frames' = frames \o ext
          BY <3>4
        <4> HIDE DEF ext
        <4> QED BY <1>0, <4>1, <4>2, <4>3, EventsExtend
      <3> QED BY <1>0, <2>2, <3>1, <3>3, <3>6
    <2> QED BY <2>1, <2>2 DEF Process
  <1>7. /\ phase' \in {"active", "recovering"} /\ reads' \in Nat
        /\ reading' \in {"none", "issued"}
        /\ reading' = "issued" => phase' = "recovering"
        /\ draining' # <<>> => phase' = "active"
    BY <1>0 DEF Process, IssueRead
  <1>8. SubscriptionTypeOK'
    BY <1>5, <1>6, <1>7 DEF StreamInv, TypeOK, SubscriptionTypeOK
  <1>9. ClientTypeOK'
    BY <1>6 DEF StreamInv, TypeOK, ClientTypeOK
  <1>10. CreatedOnly' /\ ReplyIsCurrent' /\ LoopIsActive'
    BY <1>5, <1>7 DEF StreamInv, CreatedOnly, ReplyIsCurrent, LoopIsActive, Begun, redisVars
  <1>11. BehindHead'
    BY <1>0 DEF StreamInv, TypeOK, RedisTypeOK, BehindHead, Process, IssueRead, IsNext,
                AtOrBefore, Begun, redisVars
  <1>12. ReplayBehind' /\ RetiredIsSuperseded'
    BY <1>0, <1>6 DEF StreamInv, TypeOK, SubscriptionTypeOK, ReplayBehind,
                      RetiredIsSuperseded, Begun, Positions, AtOrBefore
  <1>13. FramesReachDelivered'
    BY <1>6, <1>7 DEF FramesReachDelivered
  <1> QED
    BY <1>3, <1>4, <1>6, <1>8, <1>9, <1>10, <1>11, <1>12, <1>13 DEF StreamInv, TypeOK

\* push() while active: the wire's first message is processed at once.
LEMMA PushActiveStep == StreamInv /\ PushActive => StreamInv'
  <1> USE BoundsAreNatural
  <1> SUFFICES ASSUME StreamInv, PushActive PROVE StreamInv'
    OBVIOUS
  <1> DEFINE e == Head(wire)
  <1>0. wire \in Seq(Events) /\ UpTo(wire, made, seq) /\ made \in Nat /\ seq \in Nat
    BY DEF StreamInv, TypeOK, RedisTypeOK, CreatedOnly
  <1>1. /\ e \in Events /\ AtOrBefore(e, made, seq)
        /\ wire' \in Seq(Events) /\ UpTo(wire', made, seq)
    BY <1>0, UpToHeadTail DEF PushActive
  <1>2. /\ See(e) /\ Process(e, <<>>) /\ phase = "active"
        /\ UNCHANGED <<redisVars, subscribed, replayIds, retired, generation, reply,
                       decision, resume, base, cursor, attaches>>
    BY DEF PushActive
  <1>3. <<>> \in Seq(Events) /\ Len(<<>>) <= QueueLimit /\ UpTo(<<>>, made, seq)
    BY UpToNone
  <1> HIDE DEF e
  <1>4. /\ seenAt' \in [Generations -> Nat \cup {NotSeen}]
        /\ \A g \in Generations : seenAt'[g] # NotSeen => g <= made
    BY <1>1, <1>2, SeeKeeps
  <1> QED BY <1>1, <1>2, <1>3, <1>4, ProcessStep

\* One turn of activate()'s loop.
LEMMA DrainStep == StreamInv /\ Drain => StreamInv'
  <1> USE BoundsAreNatural
  <1> SUFFICES ASSUME StreamInv, Drain PROVE StreamInv'
    OBVIOUS
  <1> DEFINE e == Head(draining)
             rest == Tail(draining)
  <1>0. /\ draining \in Seq(Events) /\ UpTo(draining, made, seq) /\ draining # <<>>
        /\ made \in Nat /\ seq \in Nat /\ phase = "active"
        /\ Len(draining) \in Nat /\ Len(draining) <= QueueLimit
        /\ wire \in Seq(Events) /\ UpTo(wire, made, seq)
        /\ seenAt \in [Generations -> Nat \cup {NotSeen}]
        /\ \A g \in Generations : seenAt[g] # NotSeen => g <= made
    BY LenProperties DEF StreamInv, TypeOK, RedisTypeOK, SubscriptionTypeOK, CreatedOnly,
                         LoopIsActive, Drain
  <1>1. /\ e \in Events /\ AtOrBefore(e, made, seq)
        /\ rest \in Seq(Events) /\ UpTo(rest, made, seq) /\ Len(rest) <= QueueLimit
    BY <1>0, UpToHeadTail
  <1>2. /\ Process(e, rest) /\ wire' = wire /\ seenAt' = seenAt
        /\ UNCHANGED <<redisVars, subscribed, replayIds, retired, generation, reply,
                       decision, resume, base, cursor, attaches>>
    BY DEF Drain
  <1> HIDE DEF e, rest
  <1> QED BY <1>0, <1>1, <1>2, ProcessStep

\* The run of events after a position, as a sequence.
LEMMA FollowingFacts ==
  ASSUME NEW q \in Positions, NEW h \in Nat, q.seq <= h
  PROVE  /\ Following(q, h) \in Seq(Positions)
         /\ Len(Following(q, h)) = h - q.seq
         /\ DOMAIN Following(q, h) = 1 .. h - q.seq
         /\ \A i \in 1 .. h - q.seq : Following(q, h)[i] = Pos(q.gen, q.seq + i)
         /\ h - q.seq \in Nat
  <1>1. q.gen \in Nat /\ q.seq \in Nat
    BY DEF Positions
  <1>2. h - q.seq \in Nat
    BY <1>1
  <1>3. \A i \in 1 .. h - q.seq : Pos(q.gen, q.seq + i) \in Positions
    BY <1>1, <1>2 DEF Pos, Positions
  <1> QED BY <1>2, <1>3, IsASeq, LenProperties DEF Following

\* Nothing follows the latest event.
LEMMA FollowingNone ==
  ASSUME NEW q \in Positions
  PROVE  Following(q, q.seq) = <<>>
  <1>1. q.seq \in Nat
    BY DEF Positions
  <1>2. Following(q, q.seq) \in Seq(Positions) /\ Len(Following(q, q.seq)) = 0
    BY <1>1, FollowingFacts
  <1> QED BY <1>2, EmptySeq

\* The frames of a run of events continue from the position before it.
LEMMA RunFrames ==
  ASSUME NEW q \in Positions, NEW h \in Nat, q.seq <= h
  PROVE  /\ EventFrames(Following(q, h)) \in Seq(Frames)
         /\ Len(EventFrames(Following(q, h))) = h - q.seq
         /\ \A i \in 1 .. h - q.seq :
              EventFrames(Following(q, h))[i] = EventFrame(Pos(q.gen, q.seq + i))
         /\ h - q.seq \in Nat /\ q.seq + (h - q.seq) = h
  <1>1. q.gen \in Nat /\ q.seq \in Nat /\ h - q.seq \in Nat /\ q.seq + (h - q.seq) = h
    BY DEF Positions
  <1>2. \A i \in 1 .. h - q.seq : EventFrame(Pos(q.gen, q.seq + i)) \in Frames
    BY <1>1 DEF Pos, Positions, EventFrame, Frames
  <1>3. EventFrames(Following(q, h)) =
          [i \in 1 .. h - q.seq |-> EventFrame(Pos(q.gen, q.seq + i))]
    BY FollowingFacts DEF EventFrames
  <1> QED BY <1>1, <1>2, <1>3, IsASeq, LenProperties

\* activate() up to its loop.
LEMMA StartDrainFacts ==
  ASSUME StreamInv, StartDrain
  PROVE  /\ overflowed' \in BOOLEAN
         /\ queue' = <<>> /\ UpTo(queue', made, seq)
         /\ draining' \in Seq(Events) /\ Len(draining') <= QueueLimit
         /\ UpTo(draining', made, seq)
         /\ phase' \in {"active", "recovering"} /\ reads' \in Nat
         /\ reading' \in {"none", "issued"}
         /\ reading' = "issued" => phase' = "recovering"
         /\ draining' # <<>> => phase' = "active"
  <1>1. overflowed' \in BOOLEAN
    BY Zenon DEF StreamInv, TypeOK, FlagsOK, StartDrain
  <1>2. CASE overflowed
    BY <1>1, <1>2, UpToNone, BoundsAreNatural
       DEF StreamInv, TypeOK, SubscriptionTypeOK, StartDrain, IssueRead
  <1>3. CASE ~overflowed
    BY <1>1, <1>3, UpToNone
       DEF StreamInv, TypeOK, SubscriptionTypeOK, CreatedOnly, StartDrain
  <1> QED BY <1>2, <1>3

\* begin(): the decision leads from where the client stands to the snapshot.
LEMMA BeginStep == StreamInv /\ Begin => StreamInv'
  <1> USE BoundsAreNatural
  <1> SUFFICES ASSUME StreamInv, Begin PROVE StreamInv'
    OBVIOUS
  <1> DEFINE d == DecideResume(resume, cursor, reply)
             at == Pos(reply.generation, reply.high)
             honoured == /\ resume = "cursor" /\ cursor.gen = reply.generation
                         /\ Contiguous(reply, cursor.seq)
  <1>0. /\ reply.generation \in 1 .. MaxGenerations /\ reply.generation <= made
        /\ reply.high \in 0 .. MaxSeq /\ reply.high \in Nat /\ reply.generation \in Nat
        /\ (reply.generation = made => reply.high <= seq)
        /\ cursor \in Positions /\ frames = <<>> /\ draining = <<>>
        /\ at \in Positions /\ at.gen = reply.generation /\ at.seq = reply.high
    BY DEF StreamInv, TypeOK, DecisionTypeOK, ClientTypeOK, RedisTypeOK, ReplyIsCurrent,
           BehindHead, FramesReachDelivered, LoopIsActive, Begin, Pos, Positions
  <1>1. /\ d.checkpoint = at
        /\ d.resync = (resume # "fresh" /\ ~honoured)
        /\ d.replay = (IF honoured THEN Following(cursor, reply.high) ELSE <<>>)
        /\ d = [replay |-> d.replay, resync |-> d.resync, checkpoint |-> d.checkpoint]
    BY DEF DecideResume
  <1>2. honoured => cursor.gen = at.gen /\ cursor.seq <= at.seq
    BY <1>0 DEF Contiguous
  <1>3. d.replay \in Seq(Positions)
        /\ \A i \in DOMAIN d.replay : AtOrBefore(d.replay[i], reply.generation, reply.high)
    <2>1. CASE honoured
      <3>1. /\ DOMAIN d.replay = 1 .. reply.high - cursor.seq
            /\ \A i \in 1 .. reply.high - cursor.seq :
                 d.replay[i] = Pos(cursor.gen, cursor.seq + i)
            /\ d.replay \in Seq(Positions)
        BY <1>0, <1>1, <1>2, <2>1, FollowingFacts
      <3>2. cursor.seq \in Nat
        BY <1>0 DEF Positions
      <3>3. \A i \in 1 .. reply.high - cursor.seq : cursor.seq + i <= reply.high
        BY <1>0, <3>2
      <3>4. cursor.gen = reply.generation
        BY <2>1
      <3> HIDE DEF d, honoured
      <3>5. ASSUME NEW i \in DOMAIN d.replay
            PROVE  AtOrBefore(d.replay[i], reply.generation, reply.high)
        <4>1. /\ i \in 1 .. reply.high - cursor.seq
              /\ d.replay[i] = Pos(cursor.gen, cursor.seq + i)
          BY <3>1
        <4>2. cursor.seq + i <= reply.high
          BY <3>3, <4>1
        <4> QED BY <3>4, <4>1, <4>2 DEF AtOrBefore, Pos
      <3> QED BY <3>1, <3>5
    <2>2. CASE ~honoured
      BY <1>1, <2>2
    <2> QED BY <2>1, <2>2
  <1>4. /\ decision' = d /\ generation' = reply.generation /\ delivered' = reply.high
        /\ replayIds' = {d.replay[i] : i \in DOMAIN d.replay}
        /\ base' = IF resume = "cursor" /\ ~d.resync THEN cursor ELSE at
        /\ phase' = "paused" /\ reading' = "none"
    BY <1>1 DEF Begin
  <1>5. IF d.resync
        THEN d.checkpoint = at
        ELSE /\ base'.gen = reply.generation /\ base'.seq <= reply.high
             /\ d.replay = Following(base', reply.high)
    <2>1. CASE honoured
      BY <1>0, <1>1, <1>2, <1>4, <2>1
    <2>2. CASE ~honoured /\ resume = "fresh"
      <3>1. Following(at, at.seq) = <<>>
        BY <1>0, FollowingNone
      <3> QED BY <1>0, <1>1, <1>4, <2>2, <3>1
    <2>3. CASE ~honoured /\ resume # "fresh"
      BY <1>1, <2>3
    <2> QED BY <2>1, <2>2, <2>3
  <1>6. d.resync \in BOOLEAN
    BY <1>1, Zenon
  <1> HIDE DEF d
  <1>7. FlagsOK'
    BY Zenon DEF StreamInv, TypeOK, FlagsOK, Begin, redisVars
  <1>8. RedisTypeOK'
    BY DEF StreamInv, TypeOK, RedisTypeOK, Begin, redisVars
  <1>9. replayIds' \subseteq Positions
    <2>1. \A i \in DOMAIN d.replay : d.replay[i] \in Positions
      BY <1>3, ElementOfSeq, LenProperties
    <2> QED BY <1>4, <2>1
  <1>10. SubscriptionTypeOK'
    BY <1>0, <1>4, <1>9 DEF StreamInv, TypeOK, SubscriptionTypeOK, Begin
  <1>11. DecisionTypeOK'
    <2>1. decision' \in [replay : Seq(Positions), resync : BOOLEAN, checkpoint : Positions]
      BY <1>0, <1>1, <1>3, <1>4, <1>6
    <2> QED BY <2>1 DEF StreamInv, TypeOK, DecisionTypeOK, Begin
  <1>12. ClientTypeOK'
    <2>1. base' \in Positions
      BY <1>0, <1>4
    <2> QED BY <2>1 DEF StreamInv, TypeOK, ClientTypeOK, Begin
  <1>13. CreatedOnly' /\ LoopIsActive'
    BY <1>0, <1>4 DEF StreamInv, CreatedOnly, LoopIsActive, Begin, Begun, redisVars
  <1>14. ReplyIsCurrent' /\ BehindHead'
    BY <1>0, <1>4 DEF ReplyIsCurrent, BehindHead, Begin, redisVars
  <1>15. ReplayBehind'
    BY <1>3, <1>4 DEF ReplayBehind
  <1>16. FramesReachDelivered' /\ GapFree'
    BY <1>0, <1>4, <1>5 DEF FramesReachDelivered, GapFree, Begin
  <1>17. RetiredIsSuperseded'
    <2>1. retired = {}
      BY DEF StreamInv, LoopIsActive, Begin
    <2> QED BY <2>1 DEF RetiredIsSuperseded, Begin
  <1> QED
    BY <1>7, <1>8, <1>10, <1>11, <1>12, <1>13, <1>14, <1>15, <1>16, <1>17
    DEF StreamInv, TypeOK

\* The service writes the decision and calls activate().
LEMMA ActivateStep == StreamInv /\ Activate => StreamInv'
  <1> USE BoundsAreNatural
  <1> SUFFICES ASSUME StreamInv, Activate PROVE StreamInv'
    OBVIOUS
  <1> USE StartDrainFacts DEF Activate
  <1>0. /\ frames \in Seq(Frames) /\ base \in Positions /\ GapFree /\ frames = <<>>
        /\ Held = base /\ base' = base /\ generation \in Nat /\ delivered \in Nat
        /\ phase = "paused"
    BY DEF StreamInv, TypeOK, SubscriptionTypeOK, ClientTypeOK, FramesReachDelivered, Held
  <1>1. frames' \in Seq(Frames) /\ GapFree' /\ Held' = Pos(generation, delivered)
    <2>1. CASE decision.resync
      <3>1. frames' = frames \o <<ResyncFrame(Pos(generation, delivered))>>
        BY <1>0, <2>1 DEF StreamInv, FramesReachDelivered, DecisionFrames
      <3>2. Pos(generation, delivered) \in Positions
        BY <1>0 DEF Pos, Positions
      <3> QED BY <1>0, <3>1, <3>2, ResyncExtends
    <2>2. CASE ~decision.resync
      <3>1. /\ base.gen = generation /\ base.seq <= delivered
            /\ decision.replay = Following(base, delivered)
        BY <1>0, <2>2 DEF StreamInv, FramesReachDelivered
      <3> DEFINE ext == EventFrames(Following(base, delivered))
                 n == delivered - base.seq
      <3>2. frames' = frames \o ext
        BY <2>2, <3>1 DEF DecisionFrames
      <3>3. /\ ext \in Seq(Frames) /\ Len(ext) = n /\ n \in Nat /\ base.seq + n = delivered
            /\ \A i \in 1 .. n : ext[i] = EventFrame(Pos(base.gen, base.seq + i))
        BY <1>0, <3>1, RunFrames
      <3> HIDE DEF ext, n
      <3>4. \A i \in 1 .. n : ext[i] = EventFrame(Pos(Held.gen, Held.seq + i))
        BY <1>0, <3>3
      <3>5. frames' \in Seq(Frames) /\ GapFree' /\ Held' = Pos(Held.gen, Held.seq + n)
        BY <1>0, <3>2, <3>3, <3>4, EventsExtend
      <3> QED BY <1>0, <3>1, <3>3, <3>5
    <2> QED BY <2>1, <2>2
  <1>2. FlagsOK'
    <2>1. overflowed' \in BOOLEAN
      OBVIOUS
    <2> QED BY <2>1, Zenon DEF StreamInv, TypeOK, FlagsOK, redisVars
  <1>3. RedisTypeOK'
    BY DEF StreamInv, TypeOK, RedisTypeOK, redisVars
  <1>4. SubscriptionTypeOK'
    <2>1. queue' \in Seq(Events) /\ Len(queue') <= QueueLimit
      OBVIOUS
    <2> QED BY <2>1 DEF StreamInv, TypeOK, SubscriptionTypeOK
  <1>5. DecisionTypeOK'
    BY DEF StreamInv, TypeOK, DecisionTypeOK, NoDecision, NoPosition, Pos, Positions
  <1>6. ClientTypeOK'
    BY <1>1 DEF StreamInv, TypeOK, ClientTypeOK
  <1>7. CreatedOnly' /\ ReplyIsCurrent' /\ LoopIsActive'
    BY <1>0 DEF StreamInv, CreatedOnly, ReplyIsCurrent, LoopIsActive, Begun, redisVars
  <1>8. BehindHead' /\ ReplayBehind' /\ RetiredIsSuperseded'
    BY <1>0 DEF StreamInv, BehindHead, ReplayBehind, RetiredIsSuperseded, Begun, redisVars
  <1>9. FramesReachDelivered'
    BY <1>1 DEF FramesReachDelivered
  <1> QED
    BY <1>1, <1>2, <1>3, <1>4, <1>5, <1>6, <1>7, <1>8, <1>9 DEF StreamInv, TypeOK

\* recover()'s continuation: the gap is filled or announced, and only superseded
\* generations are retired.
LEMMA RecoveredStep == StreamInv /\ Recovered => StreamInv'
  <1> USE BoundsAreNatural
  <1> SUFFICES ASSUME StreamInv, Recovered PROVE StreamInv'
    OBVIOUS
  <1> USE DEF Recovered
  <1> DEFINE at == Pos(reply.generation, reply.high)
             q == Pos(generation, delivered)
  <1>0. /\ frames \in Seq(Frames) /\ base \in Positions /\ GapFree /\ base' = base
        /\ Held = q /\ generation \in Nat /\ delivered \in Nat
        /\ reply.generation \in 1 .. MaxGenerations /\ reply.generation <= made
        /\ reply.high \in 0 .. MaxSeq /\ reply.high \in Nat /\ reply.generation \in Nat
        /\ (reply.generation = made => reply.high <= seq)
        /\ generation <= reply.generation
        /\ (generation = reply.generation => delivered <= reply.high)
        /\ generation >= 1 /\ generation \in Generations /\ made \in Nat /\ seq \in Nat
    BY DEF StreamInv, TypeOK, RedisTypeOK, SubscriptionTypeOK, DecisionTypeOK, ClientTypeOK,
           FramesReachDelivered, ReplyIsCurrent, BehindHead, CreatedOnly, Begun, Generations
  <1>1. q \in Positions /\ at \in Positions /\ q.seq = delivered /\ q.gen = generation
    BY <1>0 DEF Pos, Positions
  <1>2. frames' \in Seq(Frames) /\ GapFree' /\ Held' = at
    <2>1. CASE reply.generation = generation /\ Contiguous(reply, delivered)
      <3> DEFINE n == reply.high - delivered
                 run == Following(q, reply.high)
                 ext == EventFrames(run)
      <3>1. delivered <= reply.high
        BY <2>1 DEF Contiguous
      <3>2. /\ DOMAIN run = 1 .. n /\ n \in Nat
            /\ \A i \in 1 .. n : run[i] = Pos(generation, delivered + i)
        BY <1>0, <1>1, <3>1, FollowingFacts
      <3>3. \A e \in replayIds : e.gen < generation \/ (e.gen = generation /\ e.seq <= delivered)
        BY DEF StreamInv, ReplayBehind, Begun, AtOrBefore
      <3>4. \A i \in 1 .. n : ~(delivered + i <= delivered) /\ ~(generation < generation)
        BY <1>0, <3>2
      <3>5. \A i \in DOMAIN run : run[i] \notin replayIds
        <4> HIDE DEF run, n
        <4> QED BY <3>2, <3>3, <3>4 DEF Pos
      <3>6. frames' = frames \o ext
        BY <2>1, <3>5 DEF Unreplayed
      <3>7. /\ ext \in Seq(Frames) /\ Len(ext) = n /\ delivered + n = reply.high
            /\ \A i \in 1 .. n : ext[i] = EventFrame(Pos(generation, delivered + i))
        BY <1>0, <1>1, <3>1, RunFrames
      <3> HIDE DEF ext, n
      <3>8. \A i \in 1 .. n : ext[i] = EventFrame(Pos(Held.gen, Held.seq + i))
        BY <1>0, <1>1, <3>7
      <3>9. frames' \in Seq(Frames) /\ GapFree' /\ Held' = Pos(Held.gen, Held.seq + n)
        BY <1>0, <3>2, <3>6, <3>7, <3>8, EventsExtend
      <3> QED BY <1>0, <1>1, <2>1, <3>7, <3>9
    <2>2. CASE ~(reply.generation = generation /\ Contiguous(reply, delivered))
      <3>1. frames' = frames \o <<ResyncFrame(at)>>
        BY <2>2
      <3> HIDE DEF at
      <3> QED BY <1>0, <1>1, <3>1, ResyncExtends
    <2> QED BY <2>1, <2>2
  <1>3. retired' \subseteq Generations /\ \A g \in retired' : g < reply.generation
    <2>1. ASSUME NEW g \in Superseded(reply.generation)
          PROVE  g \in Generations /\ g < reply.generation
      <3>1. PICK i \in DOMAIN queue : g = queue[i].gen
        BY DEF Superseded
      <3>2. g \in Generations /\ g \in Nat
        BY <3>1, ElementIsEvent DEF StreamInv, TypeOK, SubscriptionTypeOK
      <3>3. g # reply.generation /\ seenAt[g] # NotSeen /\ seenAt[g] < reads
        BY DEF Superseded
      <3>4. g <= reply.generation
        BY <3>2, <3>3 DEF StreamInv, ReplyIsCurrent
      <3> QED BY <1>0, <3>2, <3>3, <3>4
    <2>2. \A g \in retired : g \in Generations /\ g \in Nat /\ g < generation
      BY DEF StreamInv, TypeOK, SubscriptionTypeOK, RetiredIsSuperseded, Generations
    <2>3. \A g \in retired : g < reply.generation
      BY <1>0, <2>2
    <2>4. \A g \in {generation} \ {reply.generation} : g \in Generations /\ g < reply.generation
      BY <1>0
    <2> QED BY <2>1, <2>2, <2>3, <2>4
  <1>4. /\ overflowed' \in BOOLEAN
        /\ queue' = <<>> /\ UpTo(queue', made, seq)
        /\ draining' \in Seq(Events) /\ Len(draining') <= QueueLimit
        /\ UpTo(draining', made, seq)
        /\ phase' \in {"active", "recovering"} /\ reads' \in Nat
        /\ reading' \in {"none", "issued"}
        /\ (reading' = "issued" => phase' = "recovering")
        /\ (draining' # <<>> => phase' = "active")
    BY StartDrainFacts
  <1>5. FlagsOK'
    BY <1>4, Zenon DEF StreamInv, TypeOK, FlagsOK, redisVars
  <1>6. RedisTypeOK' /\ DecisionTypeOK'
    BY DEF StreamInv, TypeOK, RedisTypeOK, DecisionTypeOK, redisVars
  <1>7. SubscriptionTypeOK'
    <2>1. queue' \in Seq(Events) /\ Len(queue') <= QueueLimit
      BY <1>4
    <2> QED BY <1>0, <1>3, <1>4, <2>1 DEF StreamInv, TypeOK, SubscriptionTypeOK
  <1>8. ClientTypeOK'
    BY <1>2 DEF StreamInv, TypeOK, ClientTypeOK
  <1>9. CreatedOnly' /\ ReplyIsCurrent' /\ LoopIsActive'
    BY <1>0, <1>4 DEF StreamInv, CreatedOnly, ReplyIsCurrent, LoopIsActive, Begun, redisVars
  <1>10. BehindHead'
    BY <1>0, <1>4 DEF BehindHead, redisVars
  <1>11. ReplayBehind'
    <2>1. \A e \in replayIds :
            AtOrBefore(e, generation, delivered) /\ e.gen \in Nat /\ e.seq \in Nat
      BY DEF StreamInv, TypeOK, SubscriptionTypeOK, ReplayBehind, Begun, Positions
    <2> QED BY <1>0, <2>1 DEF ReplayBehind, AtOrBefore
  <1>12. RetiredIsSuperseded' /\ FramesReachDelivered'
    BY <1>2, <1>3, <1>4 DEF RetiredIsSuperseded, FramesReachDelivered
  <1> QED
    BY <1>2, <1>5, <1>6, <1>7, <1>8, <1>9, <1>10, <1>11, <1>12 DEF StreamInv, TypeOK

\* StreamInv is inductive: every step of Redis, of the node and of the client
\* keeps it.
THEOREM StreamInvariant == Spec => []StreamInv
  <1>1. StreamInv /\ [Next]_vars => StreamInv'
    <2> SUFFICES ASSUME StreamInv, [Next]_vars PROVE StreamInv'
      OBVIOUS
    <2>1. CASE Next
      BY <2>1, PublishStep, OutsideStep, AttachStep, ExecSnapshotStep, BeginStep,
         ActivateStep, PushQueuedStep, PushActiveStep, DrainStep, RecoveredStep, CloseStep
      DEF Next
    <2>2. CASE UNCHANGED vars
      <3>1. /\ FlagsOK' /\ made' \in 0 .. MaxGenerations /\ made' >= made
            /\ (meta' => made' >= 1) /\ seq' \in 0 .. MaxSeq /\ (made' = made => seq' >= seq)
            /\ buffer' \subseteq 1 .. MaxSeq /\ wire' \in Seq(Events) /\ UpTo(wire', made', seq')
        <4>1. FlagsOK'
          BY <2>2, Zenon DEF StreamInv, TypeOK, FlagsOK, vars, redisVars, subVars
        <4> QED BY <2>2, <4>1, BoundsAreNatural
                DEF StreamInv, TypeOK, RedisTypeOK, CreatedOnly, vars, redisVars
      <3> QED BY <2>2, <3>1, ForwardStep DEF vars
    <2> QED BY <2>1, <2>2
  <1> QED BY <1>1, InitStreamInv, PTL DEF Spec

\* The shape of the state and the queue's limit hold of every run.
THEOREM TypeCorrect == Spec => []TypeOK
  BY StreamInvariant, PTL DEF StreamInv

\* ADR-0027's promise that no gap is silent, for every buffer size, queue limit,
\* number of generations and of reconnections.
THEOREM NoSilentGap == Spec => []GapFree
  BY StreamInvariant, PTL DEF StreamInv

\* A retired generation is never the one the room is in or comes back to.
THEOREM OnlySupersededRetired == Spec => []RetiredIsSuperseded
  BY StreamInvariant, PTL DEF StreamInv


-----------------------------------------------------------------------------
(* Nothing is missed.  When no message is lost on the way, the latest event  *)
(* of the room is never out of sight: it was delivered, or it is on the      *)
(* wire, in the queue or in the loop, or a read that shows it is on its way, *)
(* or the queue was given up and the next activation reads.                  *)

Has(s, p) == \E i \in DOMAIN s : s[i] = p

\* A read is asked for, and a reply awaited, only with the channel subscribed.
Hooked == Begun \/ reading # "none" => subscribed

\* An active subscription queues nothing and has nothing to make good.
ActiveIsClear == phase = "active" => ~overflowed /\ queue = <<>>

InSight(p) == Has(wire, p) \/ Has(queue, p) \/ Has(draining, p)

Awaited ==
  \/ Begun /\ generation = made /\ delivered = seq
  \/ reading = "issued"
  \/ reading = "replied" /\ reply.generation = made /\ reply.high = seq
  \/ overflowed
  \/ InSight(Pos(made, seq))

Tracked == (Begun \/ reading = "replied") /\ seq > 0 => Awaited

LiveInv == Hooked /\ ActiveIsClear /\ Tracked

\* An element of a sequence is its first or one of the others.
LEMMA HasHeadTail ==
  ASSUME NEW s \in Seq(Events), s # <<>>, NEW p, Has(s, p)
  PROVE  p = Head(s) \/ Has(Tail(s), p)
  <1>1. PICK i \in DOMAIN s : s[i] = p
    BY DEF Has
  <1>2. /\ Len(s) \in Nat /\ i \in 1 .. Len(s) /\ Head(s) = s[1]
        /\ Tail(s) \in Seq(Events) /\ Len(Tail(s)) = Len(s) - 1
        /\ \A j \in 1 .. Len(Tail(s)) : Tail(s)[j] = s[j + 1]
    BY HeadTailProperties, LenProperties, EmptySeq
  <1>3. CASE i = 1
    BY <1>1, <1>2, <1>3
  <1>4. CASE i # 1
    <2>1. i - 1 \in 1 .. Len(Tail(s)) /\ (i - 1) + 1 = i
      BY <1>2, <1>4
    <2>2. Tail(s)[i - 1] = p /\ i - 1 \in DOMAIN Tail(s)
      BY <1>1, <1>2, <2>1, LenProperties
    <2> QED BY <2>2 DEF Has
  <1> QED BY <1>3, <1>4

\* Joining sequences loses nothing.
LEMMA HasJoin ==
  ASSUME NEW s \in Seq(Events), NEW t \in Seq(Events), NEW p, Has(s, p) \/ Has(t, p)
  PROVE  Has(s \o t, p)
  <1>1. /\ Len(s) \in Nat /\ Len(t) \in Nat /\ s \o t \in Seq(Events)
        /\ Len(s \o t) = Len(s) + Len(t)
        /\ \A i \in 1 .. Len(s) + Len(t) :
             (s \o t)[i] = IF i <= Len(s) THEN s[i] ELSE t[i - Len(s)]
        /\ DOMAIN s = 1 .. Len(s) /\ DOMAIN t = 1 .. Len(t)
        /\ DOMAIN (s \o t) = 1 .. Len(s) + Len(t)
    BY ConcatProperties, LenProperties
  <1>2. CASE Has(s, p)
    <2>1. PICK i \in 1 .. Len(s) : s[i] = p
      BY <1>1, <1>2 DEF Has
    <2>2. i \in 1 .. Len(s) + Len(t) /\ (s \o t)[i] = p
      BY <1>1, <2>1
    <2> QED BY <1>1, <2>2 DEF Has
  <1>3. CASE Has(t, p)
    <2>1. PICK i \in 1 .. Len(t) : t[i] = p
      BY <1>1, <1>3 DEF Has
    <2>2. /\ Len(s) + i \in 1 .. Len(s) + Len(t)
          /\ ~(Len(s) + i <= Len(s)) /\ (Len(s) + i) - Len(s) = i
      BY <1>1, <2>1
    <2>3. (s \o t)[Len(s) + i] = p
      BY <1>1, <2>1, <2>2
    <2> QED BY <1>1, <2>2, <2>3 DEF Has
  <1> QED BY <1>2, <1>3

LEMMA HasLast ==
  ASSUME NEW s \in Seq(Events), NEW p \in Events
  PROVE  Has(Append(s, p), p)
  <1>1. /\ Append(s, p) \in Seq(Events) /\ Len(Append(s, p)) = Len(s) + 1
        /\ Append(s, p)[Len(s) + 1] = p /\ Len(s) \in Nat
    BY AppendProperties, LenProperties
  <1>2. DOMAIN Append(s, p) = 1 .. Len(s) + 1
    BY <1>1, LenProperties
  <1>3. Len(s) + 1 \in 1 .. Len(s) + 1
    BY <1>1
  <1> QED BY <1>1, <1>2, <1>3 DEF Has

LEMMA HasOne == \A p : Has(<<p>>, p)
  BY DEF Has

\* A publication goes over the wire of whoever waits for it.
LEMMA PublishTracked == StreamInv /\ LiveInv /\ Publish => LiveInv'
  <1> SUFFICES ASSUME StreamInv, LiveInv, Publish PROVE LiveInv'
    OBVIOUS
  <1>1. /\ UNCHANGED <<subscribed, subVars, clientVars>> /\ made' = PrologueGen
        /\ seq' = PrologueSeq + 1
        /\ wire' = IF subscribed THEN Append(wire, Pos(PrologueGen, PrologueSeq + 1)) ELSE wire
    BY DEF Publish
  <1>2. Hooked' /\ ActiveIsClear'
    BY <1>1 DEF LiveInv, Hooked, ActiveIsClear, Begun, subVars
  <1>3. Tracked'
    <2> SUFFICES ASSUME (Begun \/ reading = "replied")' PROVE InSight(Pos(made, seq))'
      BY DEF Tracked, Awaited
    <2>1. subscribed
      BY <1>1 DEF LiveInv, Hooked, Begun, subVars
    <2>2. Pos(PrologueGen, PrologueSeq + 1) \in Events /\ wire \in Seq(Events)
      <3>1. PrologueGen \in Generations /\ PrologueSeq + 1 \in 1 .. MaxSeq
        BY PrologueFacts, BoundsAreNatural DEF Publish
      <3> QED BY <3>1 DEF Pos, Events, StreamInv, TypeOK, RedisTypeOK
    <2>3. Has(wire', Pos(made', seq'))
      BY <1>1, <2>1, <2>2, HasLast
    <2> QED BY <2>3 DEF InSight
  <1> QED BY <1>2, <1>3 DEF LiveInv

\* A generation that begins has published nothing yet.
LEMMA OutsideTracked ==
  StreamInv /\ LiveInv /\ (OtherSnapshot \/ Rotate \/ ExpireBuffer) => LiveInv'
  <1> SUFFICES ASSUME StreamInv, LiveInv, OtherSnapshot \/ Rotate \/ ExpireBuffer PROVE LiveInv'
    OBVIOUS
  <1>1. UNCHANGED <<subscribed, wire, subVars, clientVars>>
    BY DEF OtherSnapshot, Rotate, ExpireBuffer
  <1>2. Hooked' /\ ActiveIsClear'
    BY <1>1 DEF LiveInv, Hooked, ActiveIsClear, Begun, subVars
  <1>3. seq' = 0 \/ (UNCHANGED <<made, seq>>)
    BY DEF OtherSnapshot, Rotate, ExpireBuffer, PrologueSeq
  <1>4. CASE seq' = 0
    BY <1>2, <1>4 DEF Tracked, LiveInv
  <1>5. CASE UNCHANGED <<made, seq>>
    BY <1>1, <1>2, <1>5 DEF Tracked, LiveInv, Awaited, InSight, Begun, subVars
  <1> QED BY <1>3, <1>4, <1>5

\* The snapshot a read returns is the room as it is then.
LEMMA ExecSnapshotTracked == StreamInv /\ LiveInv /\ ExecSnapshot => LiveInv'
  <1> SUFFICES ASSUME StreamInv, LiveInv, ExecSnapshot PROVE LiveInv'
    OBVIOUS
  <1>1. /\ UNCHANGED <<subscribed, phase, overflowed, queue>> /\ subscribed
        /\ phase # "active"
    BY DEF ExecSnapshot, LiveInv, Hooked, StreamInv, LoopIsActive
  <1>2. reading' = "replied" /\ reply'.generation = made' /\ reply'.high = seq'
    BY DEF ExecSnapshot, Snapshot
  <1> QED BY <1>1, <1>2 DEF LiveInv, Hooked, ActiveIsClear, Tracked, Awaited, Begun

\* A closed subscription waits for nothing, an attaching one for its first read.
LEMMA DetachedTracked ==
  ASSUME StreamInv', phase' \in {"closed", "attaching"},
         phase' = "attaching" => reading' = "none" \/ (reading' = "issued" /\ subscribed')
  PROVE  LiveInv'
  <1>1. phase' = "closed" => reading' = "none"
    BY DEF StreamInv, TypeOK, SubscriptionTypeOK, LoopIsActive
  <1> QED BY <1>1 DEF LiveInv, Hooked, ActiveIsClear, Tracked, Begun

LEMMA DetachTracked ==
  ASSUME StreamInv, StreamInv',
         \/ Attach \/ SubscribeAck \/ DropMessage \/ Disconnect \/ Fail \/ SubscriberLost
         \/ Unsubscribe
  PROVE  LiveInv'
  <1>1. CASE Attach
    <2>1. reading' = "none" /\ phase' = "attaching"
      BY <1>1 DEF Attach, StreamInv, TypeOK, SubscriptionTypeOK, LoopIsActive
    <2> QED BY <2>1, DetachedTracked
  <1>2. CASE SubscribeAck
    <2>1. reading' = "issued" /\ subscribed' /\ phase' = "attaching"
      BY <1>2 DEF SubscribeAck
    <2> QED BY <2>1, DetachedTracked
  <1>3. CASE DropMessage \/ Disconnect \/ Fail \/ SubscriberLost \/ Unsubscribe
    <2>1. phase' = "closed"
      BY <1>3 DEF DropMessage, Disconnect, Fail, SubscriberLost, Unsubscribe, Close, subVars
    <2> QED BY <2>1, DetachedTracked
  <1> QED BY <1>1, <1>2, <1>3

LEMMA BeginTracked == StreamInv /\ LiveInv /\ Begin => LiveInv'
  <1> SUFFICES ASSUME StreamInv, LiveInv, Begin PROVE LiveInv'
    OBVIOUS
  <1>1. /\ phase' = "paused" /\ generation' = reply.generation /\ delivered' = reply.high
        /\ phase = "attaching" /\ reading = "replied"
        /\ UNCHANGED <<made, seq, subscribed, wire, queue, draining, overflowed>>
    BY DEF Begin, redisVars
  <1>2. Hooked' /\ ActiveIsClear'
    BY <1>1 DEF LiveInv, Hooked, ActiveIsClear
  <1>3. Tracked'
    <2> SUFFICES ASSUME seq > 0 PROVE Awaited'
      BY <1>1 DEF Tracked
    <2>1. Awaited
      BY <1>1 DEF LiveInv, Tracked
    <2> QED BY <1>1, <2>1 DEF Awaited, InSight, Begun
  <1> QED BY <1>2, <1>3 DEF LiveInv

\* activate(): the queue becomes the loop, or was given up and a read is issued.
LEMMA StartDrainTracked ==
  ASSUME StartDrain, UNCHANGED <<made, seq, subscribed, wire>>, subscribed,
         (Begun /\ generation = made /\ delivered = seq)' \/ overflowed
           \/ Has(wire, Pos(made, seq)) \/ Has(queue, Pos(made, seq)) \/ ~(seq > 0)
  PROVE  LiveInv'
  <1>1. CASE overflowed
    BY <1>1 DEF StartDrain, IssueRead, LiveInv, Hooked, ActiveIsClear, Tracked, Awaited
  <1>2. CASE ~overflowed
    <2>1. /\ phase' = "active" /\ draining' = queue /\ queue' = <<>> /\ reading' = "none"
          /\ overflowed' = overflowed
      BY <1>2 DEF StartDrain
    <2>2. Hooked' /\ ActiveIsClear'
      BY <1>2, <2>1 DEF Hooked, ActiveIsClear
    <2>3. Tracked'
      BY <1>2, <2>1 DEF Tracked, Awaited, InSight
    <2> QED BY <2>2, <2>3 DEF LiveInv
  <1> QED BY <1>1, <1>2


LEMMA ActivateTracked == StreamInv /\ LiveInv /\ Activate => LiveInv'
  <1> SUFFICES ASSUME StreamInv, LiveInv, Activate PROVE LiveInv'
    OBVIOUS
  <1>1. /\ StartDrain /\ UNCHANGED <<made, seq, subscribed, wire, generation, delivered>>
        /\ phase = "paused"
    BY DEF Activate, redisVars
  <1>2. subscribed /\ (seq > 0 => Awaited) /\ reading = "none" /\ draining = <<>>
    BY <1>1 DEF LiveInv, Hooked, Tracked, Begun, StreamInv, TypeOK, SubscriptionTypeOK,
                LoopIsActive
  <1>3. Begun'
    BY <1>1 DEF StartDrain, IssueRead, Begun
  <1>4. ~Has(draining, Pos(made, seq))
    BY <1>2 DEF Has
  <1>5. \/ (Begun /\ generation = made /\ delivered = seq)' \/ overflowed
        \/ Has(wire, Pos(made, seq)) \/ Has(queue, Pos(made, seq)) \/ ~(seq > 0)
    BY <1>1, <1>2, <1>3, <1>4 DEF Awaited, InSight
  <1> QED BY <1>1, <1>2, <1>5, StartDrainTracked

\* recover()'s continuation: where delivery stood at the head, the reply does too.
LEMMA RecoveredTracked == StreamInv /\ LiveInv /\ Recovered => LiveInv'
  <1> SUFFICES ASSUME StreamInv, LiveInv, Recovered PROVE LiveInv'
    OBVIOUS
  <1>1. /\ StartDrain /\ UNCHANGED <<made, seq, subscribed, wire>>
        /\ phase = "recovering" /\ reading = "replied"
        /\ generation' = reply.generation /\ delivered' = reply.high
    BY DEF Recovered, redisVars
  <1>2. subscribed /\ (seq > 0 => Awaited) /\ draining = <<>>
    BY <1>1 DEF LiveInv, Hooked, Tracked, Begun, StreamInv, LoopIsActive
  <1>3. Begun'
    BY <1>1 DEF StartDrain, IssueRead, Begun
  <1>4. ~Has(draining, Pos(made, seq))
    BY <1>2 DEF Has
  <1>5. generation = made /\ delivered = seq => reply.generation = made /\ reply.high = seq
    BY <1>1, BoundsAreNatural
       DEF StreamInv, TypeOK, RedisTypeOK, SubscriptionTypeOK, DecisionTypeOK, ReplyIsCurrent,
           BehindHead
  <1>6. \/ (Begun /\ generation = made /\ delivered = seq)' \/ overflowed
        \/ Has(wire, Pos(made, seq)) \/ Has(queue, Pos(made, seq)) \/ ~(seq > 0)
    BY <1>1, <1>2, <1>3, <1>4, <1>5 DEF Awaited, InSight
  <1> QED BY <1>1, <1>2, <1>6, StartDrainTracked

\* push() while queueing: from the wire to the queue, or the queue is given up.
LEMMA PushQueuedTracked == StreamInv /\ LiveInv /\ PushQueued => LiveInv'
  <1> SUFFICES ASSUME StreamInv, LiveInv, PushQueued PROVE LiveInv'
    OBVIOUS
  <1> DEFINE e == Head(wire)
             p == Pos(made, seq)
  <1>1. /\ wire \in Seq(Events) /\ wire # <<>> /\ wire' = Tail(wire) /\ Enqueue(<<e>>)
        /\ UNCHANGED <<made, seq, subscribed, phase, generation, delivered, draining, reading,
                       reply>>
        /\ phase # "active" /\ queue \in Seq(Events)
    BY DEF PushQueued, redisVars, StreamInv, TypeOK, RedisTypeOK, SubscriptionTypeOK
  <1>2. e \in Events /\ <<e>> \in Seq(Events)
    BY <1>1, HeadTailProperties
  <1> HIDE DEF e, p
  <1>3. Hooked' /\ ActiveIsClear'
    BY <1>1 DEF LiveInv, Hooked, ActiveIsClear, Begun
  <1>4. overflowed' \/ (~overflowed /\ queue' = queue \o <<e>>)
    BY <1>1, Zenon DEF Enqueue
  <1>5. ASSUME InSight(p), ~overflowed' PROVE InSight(p)'
    <2>1. queue' = queue \o <<e>>
      BY <1>4, <1>5
    <2>2. CASE Has(wire, p)
      <3>1. p = Head(wire) \/ Has(Tail(wire), p)
        BY <1>1, <2>2, HasHeadTail
      <3>2. CASE p = Head(wire)
        BY <1>1, <1>2, <2>1, <3>2, HasOne, HasJoin DEF InSight, e, p
      <3>3. CASE Has(Tail(wire), p)
        BY <1>1, <3>3 DEF InSight, p
      <3> QED BY <3>1, <3>2, <3>3
    <2>3. CASE Has(queue, p)
      BY <1>1, <1>2, <2>1, <2>3, HasJoin DEF InSight, p
    <2>4. CASE Has(draining, p)
      BY <1>1, <2>4 DEF InSight, p
    <2> QED BY <1>5, <2>2, <2>3, <2>4 DEF InSight
  <1>6. Tracked'
    BY <1>1, <1>4, <1>5 DEF LiveInv, Tracked, Awaited, Begun, p
  <1> QED BY <1>3, <1>6 DEF LiveInv

\* The latest event is dropped only where delivery already stands at it.
LEMMA LatestDropped ==
  ASSUME StreamInv, phase = "active", Dropped(Pos(made, seq))
  PROVE  generation = made /\ delivered = seq
  <1>1. /\ made \in Nat /\ seq \in Nat /\ generation \in Nat /\ delivered \in Nat
        /\ generation <= made /\ (generation = made => delivered <= seq)
    BY BoundsAreNatural DEF StreamInv, TypeOK, RedisTypeOK, SubscriptionTypeOK, CreatedOnly,
                            BehindHead, Begun
  <1>2. Pos(made, seq).gen = made /\ Pos(made, seq).seq = seq
    BY DEF Pos
  <1>3. CASE Pos(made, seq) \in replayIds
    BY <1>1, <1>2, <1>3 DEF StreamInv, ReplayBehind, AtOrBefore, Begun
  <1>4. CASE made # generation /\ made \in retired
    BY <1>1, <1>4 DEF StreamInv, RetiredIsSuperseded
  <1>5. CASE made = generation /\ seq <= delivered
    BY <1>1, <1>5
  <1> QED BY <1>2, <1>3, <1>4, <1>5 DEF Dropped

\* process(): the latest event, if it is the one at hand, is delivered, or was,
\* or a read is issued.
LEMMA ProcessTracked ==
  ASSUME StreamInv, LiveInv, phase = "active",
         NEW e \in Events, AtOrBefore(e, made, seq), NEW rest, Process(e, rest),
         InSight(Pos(made, seq)) =>
           e = Pos(made, seq) \/ Has(wire', Pos(made, seq)) \/ Has(rest, Pos(made, seq)),
         UNCHANGED <<made, seq, subscribed, generation>>
  PROVE  LiveInv'
  <1>1. /\ made \in Nat /\ seq \in Nat /\ generation \in Nat /\ delivered \in Nat
        /\ subscribed /\ reading = "none" /\ ~overflowed /\ queue = <<>>
        /\ (seq > 0 => Awaited)
    BY BoundsAreNatural DEF StreamInv, TypeOK, RedisTypeOK, SubscriptionTypeOK, LoopIsActive,
                            LiveInv, Hooked, ActiveIsClear, Tracked, Begun
  <1>2. CASE phase' = "recovering" /\ reading' = "issued"
    BY <1>1, <1>2 DEF LiveInv, Hooked, ActiveIsClear, Tracked, Awaited
  <1>3. CASE UNCHANGED <<phase, queue, overflowed, reading>> /\ draining' = rest
             /\ ((Dropped(e) /\ delivered' = delivered) \/ (IsNext(e) /\ delivered' = e.seq))
    <2>1. Hooked' /\ ActiveIsClear'
      BY <1>1, <1>3 DEF Hooked, ActiveIsClear, Begun
    <2>2. ASSUME seq > 0 PROVE Awaited'
      <3>1. CASE generation = made /\ delivered = seq
        <4>1. delivered' = delivered
          BY <1>1, <1>3, <3>1 DEF IsNext, AtOrBefore
        <4> QED BY <1>3, <3>1, <4>1 DEF Awaited, Begun
      <3>2. CASE e = Pos(made, seq)
        <4>1. CASE Dropped(e)
          BY <3>1, <3>2, <4>1, LatestDropped
        <4>2. CASE IsNext(e) /\ delivered' = e.seq
          BY <1>3, <3>2, <4>2 DEF IsNext, Awaited, Begun, Pos
        <4> QED BY <1>3, <4>1, <4>2
      <3>3. CASE Has(wire', Pos(made, seq)) \/ Has(rest, Pos(made, seq))
        BY <1>3, <3>3 DEF Awaited, InSight
      <3> QED BY <1>1, <2>2, <3>1, <3>2, <3>3 DEF Awaited
    <2> QED BY <2>1, <2>2 DEF LiveInv, Tracked
  <1> QED BY <1>2, <1>3 DEF Process, IssueRead

LEMMA PushActiveTracked == StreamInv /\ LiveInv /\ PushActive => LiveInv'
  <1> SUFFICES ASSUME StreamInv, LiveInv, PushActive PROVE LiveInv'
    OBVIOUS
  <1> DEFINE e == Head(wire)
  <1>1. /\ wire \in Seq(Events) /\ wire # <<>> /\ wire' = Tail(wire) /\ phase = "active"
        /\ made \in Nat /\ seq \in Nat /\ UpTo(wire, made, seq)
        /\ UNCHANGED <<made, seq, subscribed, generation>> /\ draining = <<>> /\ queue = <<>>
        /\ Process(e, <<>>)
    BY DEF PushActive, redisVars, StreamInv, TypeOK, RedisTypeOK, CreatedOnly, Idle,
           LiveInv, ActiveIsClear
  <1>2. e \in Events /\ AtOrBefore(e, made, seq)
    BY <1>1, UpToHeadTail
  <1>3. \A p : Has(wire, p) => p = e \/ Has(wire', p)
    BY <1>1, HasHeadTail
  <1>4. InSight(Pos(made, seq)) =>
          e = Pos(made, seq) \/ Has(wire', Pos(made, seq)) \/ Has(<<>>, Pos(made, seq))
    BY <1>1, <1>3 DEF InSight
  <1> HIDE DEF e
  <1> QED BY <1>1, <1>2, <1>4, ProcessTracked

LEMMA DrainTracked == StreamInv /\ LiveInv /\ Drain => LiveInv'
  <1> SUFFICES ASSUME StreamInv, LiveInv, Drain PROVE LiveInv'
    OBVIOUS
  <1> DEFINE e == Head(draining)
             rest == Tail(draining)
  <1>1. /\ draining \in Seq(Events) /\ draining # <<>> /\ wire' = wire /\ phase = "active"
        /\ made \in Nat /\ seq \in Nat /\ UpTo(draining, made, seq)
        /\ UNCHANGED <<made, seq, subscribed, generation>> /\ queue = <<>>
        /\ Process(e, rest)
    BY DEF Drain, redisVars, StreamInv, TypeOK, RedisTypeOK, SubscriptionTypeOK, CreatedOnly,
           LoopIsActive, LiveInv, ActiveIsClear
  <1>2. e \in Events /\ AtOrBefore(e, made, seq)
    BY <1>1, UpToHeadTail
  <1>3. \A p : Has(draining, p) => p = e \/ Has(rest, p)
    BY <1>1, HasHeadTail
  <1>4. ~Has(queue, Pos(made, seq))
    BY <1>1 DEF Has
  <1>5. InSight(Pos(made, seq)) =>
          e = Pos(made, seq) \/ Has(wire', Pos(made, seq)) \/ Has(rest, Pos(made, seq))
    BY <1>1, <1>3, <1>4 DEF InSight
  <1> HIDE DEF e, rest
  <1> QED BY <1>1, <1>2, <1>5, ProcessTracked

\* An active subscription that has processed all it was sent stands at the
\* room's latest event, through overflow, recovery and changes of generation,
\* for every limit of the queue and the buffer, if the channel loses nothing.
THEOREM NothingIsMissed ==
  ASSUME ~Lossy PROVE Spec => []NothingMissed
  <1>1. Init => LiveInv
    BY DEF Init, LiveInv, Hooked, ActiveIsClear, Tracked, Begun
  <1>2. StreamInv /\ StreamInv' /\ LiveInv /\ [Next]_vars => LiveInv'
    <2> SUFFICES ASSUME StreamInv, StreamInv', LiveInv, [Next]_vars PROVE LiveInv'
      OBVIOUS
    <2>1. CASE Next
      BY <2>1, PublishTracked, OutsideTracked, ExecSnapshotTracked, DetachTracked,
         BeginTracked, ActivateTracked, PushQueuedTracked, PushActiveTracked, DrainTracked,
         RecoveredTracked
      DEF Next, LoseMessage
    <2>2. CASE UNCHANGED vars
      BY <2>2 DEF vars, redisVars, subVars, LiveInv, Hooked, ActiveIsClear, Tracked, Awaited,
                  InSight, Begun
    <2> QED BY <2>1, <2>2
  <1>3. StreamInv /\ LiveInv => NothingMissed
    <2> SUFFICES ASSUME StreamInv, LiveInv, phase = "active", Idle, wire = <<>>
                 PROVE  \/ generation = made /\ delivered = seq
                        \/ generation < made /\ seq = 0
      BY DEF NothingMissed
    <2>1. /\ made \in Nat /\ seq \in Nat /\ generation \in Nat /\ delivered \in Nat
          /\ generation <= made /\ (generation = made => delivered <= seq)
          /\ reading = "none" /\ ~overflowed /\ queue = <<>> /\ draining = <<>>
      BY BoundsAreNatural DEF StreamInv, TypeOK, RedisTypeOK, SubscriptionTypeOK, CreatedOnly,
           BehindHead, Begun, LoopIsActive, LiveInv, ActiveIsClear, Idle
    <2>2. CASE seq = 0
      BY <2>1, <2>2
    <2>3. CASE seq > 0
      <3>1. ~InSight(Pos(made, seq))
        BY <2>1 DEF InSight, Has
      <3> QED BY <2>1, <2>3, <3>1 DEF LiveInv, Tracked, Awaited, Begun
    <2> QED BY <2>1, <2>2, <2>3
  <1> QED BY StreamInvariant, <1>1, <1>2, <1>3, PTL DEF Spec


-----------------------------------------------------------------------------
(* The stream implements RoomFeed: every step is one of the promised ones,   *)
(* or leaves the room's head, the connection and its frames alone.           *)

\* The position a connection starts from is known from its decision on: it is
\* where a resync leads, and there is none before.
BaseKnown ==
  /\ phase \in {"closed", "attaching"} => base = NoPosition
  /\ phase = "paused" /\ decision.resync => base = Pos(generation, delivered)

FeedStep == [Feed!Next]_(Feed!vars)

\* The room has gone on.
LEMMA FeedAdvances ==
  ASSUME StreamInv, UNCHANGED <<phase, base, frames>>,
         \/ made' = made /\ seq' \in {seq, seq + 1}
         \/ made' = made + 1 /\ seq' \in {0, 1}
  PROVE  FeedStep
  <1>1. CASE UNCHANGED <<made, seq>>
    BY <1>1 DEF FeedStep, Feed!vars
  <1>2. CASE ~UNCHANGED <<made, seq>>
    <2>1. Pos(made', seq') \in {[gen |-> made, seq |-> seq + 1], [gen |-> made + 1, seq |-> 1],
                                [gen |-> made + 1, seq |-> 0]}
      BY <1>2 DEF Pos
    <2>2. Pos(made, seq).gen = made /\ Pos(made, seq).seq = seq
      BY DEF Pos
    <2>3. Feed!Advance
      BY <2>1, <2>2 DEF Feed!Advance
    <2> QED BY <2>3 DEF FeedStep, Feed!Next
  <1> QED BY <1>1, <1>2

LEMMA FeedStands ==
  ASSUME UNCHANGED <<made, seq, base, frames>>, Begun' <=> Begun
  PROVE  FeedStep
  <1>1. UNCHANGED Feed!vars
    BY DEF Feed!vars, Begun
  <1> QED BY <1>1 DEF FeedStep

\* Consecutive events from where the client stands, or none.
LEMMA FeedRun ==
  ASSUME frames \in Seq(Frames), base \in Positions, GapFree, NEW n \in Nat,
         NEW ext \in Seq(Frames), Len(ext) = n,
         \A i \in 1 .. n : ext[i] = EventFrame(Pos(Held.gen, Held.seq + i)),
         frames' = frames \o ext, UNCHANGED <<made, seq, base>>, Begun, Begun',
         AtOrBefore(Pos(Held.gen, Held.seq + n), made, seq)
  PROVE  FeedStep
  <1>1. Len(frames) \in Nat /\ ((frames = <<>>) <=> (Len(frames) = 0))
        /\ DOMAIN frames = 1 .. Len(frames)
    BY LenProperties, EmptySeq
  <1>2. Held \in Positions
    BY <1>1, ElementIsFrame DEF Held
  <1>3. Held.gen \in Nat /\ Held.seq \in Nat
    BY <1>2 DEF Positions
  <1>4. /\ frames' \in Seq(Frames) /\ Len(frames') = Len(frames) + n
        /\ Held' = Pos(Held.gen, Held.seq + n)
    BY EventsExtend, ConcatProperties
  <1>5. CASE n = 0
    <2>1. ext = <<>>
      BY <1>5, EmptySeq
    <2>2. frames' = frames
      BY <2>1, ConcatEmptySeq
    <2> QED BY <2>2, FeedStands
  <1>6. CASE n # 0
    <2>1. frames' # <<>> /\ frames'[Len(frames')].at = Pos(Held.gen, Held.seq + n)
      <3>1. Len(frames') # 0
        BY <1>1, <1>4, <1>6
      <3>2. frames' # <<>>
        BY <1>4, <3>1, EmptySeq
      <3> QED BY <1>4, <3>2 DEF Held
    <2>2. frames'[Len(frames')].at.seq = Held.seq + n
      BY <2>1 DEF Pos
    <2>3. (Held.seq + n) - Held.seq = n /\ Held.seq + n > Held.seq
      BY <1>3, <1>6
    <2>4. ext = [i \in 1 .. n |->
                   [kind |-> "event", at |-> [gen |-> Held.gen, seq |-> Held.seq + i]]]
      <3>1. ext = [i \in 1 .. n |-> ext[i]]
        BY LenProperties
      <3> QED BY <3>1 DEF EventFrame, Pos
    <2>5. Feed!Held = Held
      BY DEF Feed!Held, Held
    <2>6. Feed!AtOrBefore([gen |-> Held.gen, seq |-> Held.seq + n], Pos(made, seq))
      BY DEF Feed!AtOrBefore, AtOrBefore, Pos
    <2>7. UNCHANGED <<Pos(made, seq), base>> /\ (Begun' <=> Begun)
      OBVIOUS
    <2>8. Feed!Emit(Held.seq + n)
      BY <2>3, <2>4, <2>5, <2>6, <2>7 DEF Feed!Emit, Begun
    <2> QED BY <2>1, <2>2, <2>8 DEF FeedStep, Feed!Next
  <1> QED BY <1>5, <1>6

\* A resync, to a position no earlier than the client's.
LEMMA FeedResyncs ==
  ASSUME frames \in Seq(Frames), base \in Positions, GapFree, NEW p \in Positions,
         frames' = frames \o <<ResyncFrame(p)>>, UNCHANGED <<made, seq, base>>, Begun, Begun',
         AtOrBefore(Held, p.gen, p.seq), AtOrBefore(p, made, seq)
  PROVE  FeedStep
  <1>1. ResyncFrame(p) \in Frames
    BY DEF ResyncFrame, Frames
  <1>2. frames' = Append(frames, ResyncFrame(p))
    BY <1>1, AppendIsConcat
  <1>3. frames' \in Seq(Frames) /\ Len(frames') = Len(frames) + 1 /\ Held' = p
    BY <1>1, <1>2, ResyncExtends, AppendProperties
  <1>4. frames' # <<>> /\ frames'[Len(frames')].at = p
    <2>1. Len(frames') # 0
      BY <1>3, LenProperties
    <2>2. frames' # <<>>
      BY <1>3, <2>1, EmptySeq
    <2> QED BY <1>3, <2>2 DEF Held
  <1>5. Feed!Held = Held
    BY DEF Feed!Held, Held
  <1>6. Feed!AtOrBefore(Held, p) /\ Feed!AtOrBefore(p, Pos(made, seq))
    BY DEF Feed!AtOrBefore, AtOrBefore, Pos
  <1>7. Feed!Resync(p)
    BY <1>2, <1>5, <1>6 DEF Feed!Resync, ResyncFrame, Begun
  <1> QED BY <1>4, <1>7 DEF FeedStep, Feed!Next

\* The two scripts and what happens to their keys.
LEMMA RedisFeeds ==
  ASSUME StreamInv, Publish \/ OtherSnapshot \/ Rotate \/ ExpireBuffer \/ ExecSnapshot
  PROVE  FeedStep
  <1>1. UNCHANGED <<phase, base, frames>>
    BY DEF Publish, OtherSnapshot, Rotate, ExpireBuffer, ExecSnapshot, subVars, clientVars
  <1>2. \/ made' = made /\ seq' \in {seq, seq + 1}
        \/ made' = made + 1 /\ seq' \in {0, 1}
    BY DEF Publish, OtherSnapshot, Rotate, ExpireBuffer, ExecSnapshot, PrologueGen, PrologueSeq
  <1> QED BY <1>1, <1>2, FeedAdvances

\* What touches neither the frames nor the phase, or leaves it closed.
LEMMA QuietFeeds ==
  ASSUME StreamInv,
         Attach \/ SubscribeAck \/ DropMessage \/ LoseMessage \/ PushQueued \/ Unsubscribe
  PROVE  FeedStep
  <1>1. UNCHANGED <<made, seq, base, frames>> /\ (Begun' <=> Begun)
    BY DEF Attach, SubscribeAck, DropMessage, LoseMessage, PushQueued, Unsubscribe,
           redisVars, subVars, clientVars, Begun
  <1> QED BY <1>1, FeedStands

\* begin(): the connection starts from a position the room has reached.
LEMMA BeginFeeds ==
  ASSUME StreamInv, Begin PROVE FeedStep
  <1>1. /\ phase = "attaching" /\ phase' = "paused" /\ frames = <<>>
        /\ UNCHANGED <<made, seq, frames>>
    BY DEF Begin, StreamInv, FramesReachDelivered, redisVars
  <1>2. /\ reply.generation \in Nat /\ reply.high \in Nat /\ reply.generation <= made
        /\ (reply.generation = made => reply.high <= seq) /\ made \in Nat /\ seq \in Nat
        /\ cursor \in Positions
    BY BoundsAreNatural
       DEF StreamInv, TypeOK, DecisionTypeOK, RedisTypeOK, ClientTypeOK, ReplyIsCurrent,
           BehindHead, Begin
  <1>3. cursor.seq \in Nat /\ cursor.gen \in Nat
    BY <1>2 DEF Positions
  <1>4. \/ base' = Pos(reply.generation, reply.high)
        \/ base' = cursor /\ cursor.gen = reply.generation /\ cursor.seq <= reply.high
    BY DEF Begin, DecideResume, Contiguous
  <1>5. Feed!AtOrBefore(base', Pos(made, seq))
    BY <1>2, <1>3, <1>4 DEF Feed!AtOrBefore, Pos
  <1>6. Feed!Open
    BY <1>1, <1>5 DEF Feed!Open
  <1> QED BY <1>6 DEF FeedStep, Feed!Next

\* The end of a connection.
LEMMA CloseFeeds ==
  ASSUME StreamInv, BaseKnown, Disconnect \/ Fail \/ SubscriberLost PROVE FeedStep
  <1>1. CASE ~Close
    <2>1. UNCHANGED <<made, seq, base, frames, phase>>
      BY <1>1 DEF Disconnect, Fail, SubscriberLost, redisVars, subVars, clientVars
    <2> QED BY <2>1, FeedStands DEF Begun
  <1>2. CASE Close
    <2>1. /\ UNCHANGED <<made, seq>> /\ phase' = "closed" /\ frames' = <<>>
          /\ base' = NoPosition
      BY <1>2 DEF Close, redisVars
    <2>2. CASE Begun
      <3>1. Feed!Shut
        BY <2>1, <2>2 DEF Feed!Shut, Begun, NoPosition, Pos
      <3> QED BY <3>1 DEF FeedStep, Feed!Next
    <2>3. CASE ~Begun
      <3>1. frames = <<>> /\ base = NoPosition
        BY <2>3 DEF Begun, StreamInv, TypeOK, SubscriptionTypeOK, FramesReachDelivered, BaseKnown
      <3> QED BY <2>1, <2>3, <3>1, FeedStands DEF Begun
    <2> QED BY <2>2, <2>3
  <1> QED BY <1>1, <1>2


\* The room's head bounds where a begun subscription stands.
LEMMA DeliveredBehind ==
  ASSUME StreamInv, Begun
  PROVE  /\ AtOrBefore(Pos(generation, delivered), made, seq)
         /\ generation \in Nat /\ delivered \in Nat /\ made \in Nat /\ seq \in Nat
         /\ frames \in Seq(Frames) /\ base \in Positions /\ GapFree
  <1>1. /\ generation \in Nat /\ delivered \in Nat /\ made \in Nat /\ seq \in Nat
        /\ generation <= made /\ (generation = made => delivered <= seq)
        /\ frames \in Seq(Frames) /\ base \in Positions /\ GapFree
    BY BoundsAreNatural DEF StreamInv, TypeOK, RedisTypeOK, SubscriptionTypeOK, ClientTypeOK,
                            CreatedOnly, BehindHead
  <1> QED BY <1>1 DEF AtOrBefore, Pos

\* The decision is written: the replay, or the resync to where it starts.
LEMMA ActivateFeeds ==
  ASSUME StreamInv, BaseKnown, Activate PROVE FeedStep
  <1>1. /\ phase = "paused" /\ Begun /\ UNCHANGED <<made, seq, base>>
        /\ frames' = frames \o DecisionFrames(decision)
    BY DEF Activate, redisVars, Begun
  <1>2. Begun'
    BY DEF Activate, StartDrain, IssueRead, Begun
  <1>3. Held = base
    BY <1>1 DEF StreamInv, FramesReachDelivered, Held
  <1>4. CASE decision.resync
    <2>1. frames' = frames \o <<ResyncFrame(Pos(generation, delivered))>>
      BY <1>1, <1>4 DEF StreamInv, FramesReachDelivered, DecisionFrames
    <2>2. base = Pos(generation, delivered)
      BY <1>1, <1>4 DEF BaseKnown
    <2>3. base.seq \in Nat
      BY <1>1, DeliveredBehind DEF Positions
    <2>4. AtOrBefore(Held, base.gen, base.seq)
      BY <1>3, <2>3 DEF AtOrBefore
    <2> QED BY <1>1, <1>2, <2>1, <2>2, <2>4, DeliveredBehind, FeedResyncs
  <1>5. CASE ~decision.resync
    <2>1. /\ base.gen = generation /\ base.seq <= delivered
          /\ decision.replay = Following(base, delivered)
      BY <1>1, <1>5 DEF StreamInv, FramesReachDelivered
    <2> DEFINE ext == EventFrames(Following(base, delivered))
               n == delivered - base.seq
    <2>2. frames' = frames \o ext
      BY <1>1, <1>5, <2>1 DEF DecisionFrames
    <2>3. /\ ext \in Seq(Frames) /\ Len(ext) = n /\ n \in Nat /\ base.seq + n = delivered
          /\ \A i \in 1 .. n : ext[i] = EventFrame(Pos(base.gen, base.seq + i))
      BY <1>1, <2>1, DeliveredBehind, RunFrames
    <2> HIDE DEF ext, n
    <2>4. /\ \A i \in 1 .. n : ext[i] = EventFrame(Pos(Held.gen, Held.seq + i))
          /\ AtOrBefore(Pos(Held.gen, Held.seq + n), made, seq)
      BY <1>1, <1>3, <2>1, <2>3, DeliveredBehind
    <2> QED BY <1>1, <1>2, <2>2, <2>3, <2>4, DeliveredBehind, FeedRun
  <1> QED BY <1>4, <1>5

\* An event that is delivered follows the client's position.
LEMMA ProcessFeeds ==
  ASSUME StreamInv, phase = "active", NEW e \in Events, AtOrBefore(e, made, seq),
         NEW rest, Process(e, rest), UNCHANGED <<made, seq, base, generation>>
  PROVE  FeedStep
  <1>1. Begun /\ Begun'
    BY DEF Process, IssueRead, Begun
  <1>2. CASE UNCHANGED frames
    BY <1>1, <1>2, FeedStands
  <1>3. CASE IsNext(e) /\ frames' = Append(frames, EventFrame(e))
    <2>1. e.gen \in Nat /\ e.seq \in Nat /\ e = Pos(e.gen, e.seq) /\ e \in Positions
      BY BoundsAreNatural DEF Events, Generations, Pos, Positions
    <2>2. Held = Pos(generation, delivered)
      BY DEF StreamInv, FramesReachDelivered
    <2>3. Held.gen = generation /\ Held.seq = delivered
      BY <2>2 DEF Pos
    <2>4. e = Pos(Held.gen, Held.seq + 1)
      BY <1>3, <2>1, <2>3 DEF IsNext
    <2> DEFINE ext == <<EventFrame(e)>>
    <2>5. EventFrame(e) \in Frames
      BY <2>1 DEF EventFrame, Frames
    <2>6. frames' = frames \o ext
      BY <1>1, <1>3, <2>5, DeliveredBehind, AppendIsConcat
    <2>7. ext \in Seq(Frames) /\ Len(ext) = 1 /\ ext[1] = EventFrame(e)
      BY <2>5
    <2> HIDE DEF ext
    <2>8. \A i \in 1 .. 1 : ext[i] = EventFrame(Pos(Held.gen, Held.seq + i))
      BY <2>4, <2>7
    <2>9. AtOrBefore(Pos(Held.gen, Held.seq + 1), made, seq)
      BY <2>4
    <2> QED BY <1>1, <2>6, <2>7, <2>8, <2>9, DeliveredBehind, FeedRun
  <1> QED BY <1>2, <1>3 DEF Process

LEMMA LiveFeeds ==
  ASSUME StreamInv, PushActive \/ Drain PROVE FeedStep
  <1>0. made \in Nat /\ seq \in Nat /\ wire \in Seq(Events) /\ draining \in Seq(Events)
        /\ UpTo(wire, made, seq) /\ UpTo(draining, made, seq)
    BY DEF StreamInv, TypeOK, RedisTypeOK, SubscriptionTypeOK, CreatedOnly
  <1>1. CASE PushActive
    <2> DEFINE e == Head(wire)
    <2>1. e \in Events /\ AtOrBefore(e, made, seq)
      BY <1>0, <1>1, UpToHeadTail DEF PushActive
    <2>2. /\ Process(e, <<>>) /\ phase = "active"
          /\ UNCHANGED <<made, seq, base, generation>>
      BY <1>1 DEF PushActive, redisVars
    <2> HIDE DEF e
    <2> QED BY <2>1, <2>2, ProcessFeeds
  <1>2. CASE Drain
    <2> DEFINE e == Head(draining)
               rest == Tail(draining)
    <2>1. e \in Events /\ AtOrBefore(e, made, seq)
      BY <1>0, <1>2, UpToHeadTail DEF Drain
    <2>2. /\ Process(e, rest) /\ phase = "active"
          /\ UNCHANGED <<made, seq, base, generation>>
      BY <1>2 DEF Drain, redisVars, StreamInv, LoopIsActive
    <2> HIDE DEF e, rest
    <2> QED BY <2>1, <2>2, ProcessFeeds
  <1> QED BY <1>1, <1>2

\* recover()'s continuation: the missing events, or a resync.
LEMMA RecoveredFeeds ==
  ASSUME StreamInv, Recovered PROVE FeedStep
  <1> DEFINE at == Pos(reply.generation, reply.high)
             q == Pos(generation, delivered)
  <1>1. /\ phase = "recovering" /\ Begun /\ UNCHANGED <<made, seq, base>>
        /\ frames' = frames \o
             IF reply.generation = generation /\ Contiguous(reply, delivered)
             THEN EventFrames(Unreplayed(Following(q, reply.high)))
             ELSE <<ResyncFrame(at)>>
    BY DEF Recovered, redisVars, Begun
  <1>2. Begun'
    BY DEF Recovered, StartDrain, IssueRead, Begun
  <1>3. Held = q /\ q \in Positions /\ q.gen = generation /\ q.seq = delivered
    BY <1>1, DeliveredBehind DEF StreamInv, FramesReachDelivered, Pos, Positions
  <1>4. /\ reply.generation \in Nat /\ reply.high \in Nat /\ reply.generation <= made
        /\ (reply.generation = made => reply.high <= seq)
        /\ generation <= reply.generation
        /\ (generation = reply.generation => delivered <= reply.high)
    BY DEF Recovered, StreamInv, TypeOK, DecisionTypeOK, ReplyIsCurrent, BehindHead
  <1>5. /\ at \in Positions /\ at.gen = reply.generation /\ at.seq = reply.high
        /\ AtOrBefore(at, made, seq) /\ AtOrBefore(Held, at.gen, at.seq)
    BY <1>1, <1>3, <1>4, DeliveredBehind DEF Pos, Positions, AtOrBefore
  <1>6. CASE ~(reply.generation = generation /\ Contiguous(reply, delivered))
    <2>1. frames' = frames \o <<ResyncFrame(at)>>
      BY <1>1, <1>6
    <2> HIDE DEF at
    <2> QED BY <1>1, <1>2, <1>5, <2>1, DeliveredBehind, FeedResyncs
  <1>7. CASE reply.generation = generation /\ Contiguous(reply, delivered)
    <2> DEFINE n == reply.high - delivered
               run == Following(q, reply.high)
               ext == EventFrames(run)
    <2>1. delivered <= reply.high
      BY <1>4, <1>7
    <2>2. /\ DOMAIN run = 1 .. n /\ n \in Nat
          /\ \A i \in 1 .. n : run[i] = Pos(generation, delivered + i)
      BY <1>3, <1>4, <2>1, FollowingFacts
    <2>3. \A e \in replayIds : e.gen < generation \/ (e.gen = generation /\ e.seq <= delivered)
      BY <1>1 DEF StreamInv, ReplayBehind, AtOrBefore
    <2>4. \A i \in 1 .. n : ~(delivered + i <= delivered) /\ ~(generation < generation)
      BY <1>1, <2>2, DeliveredBehind
    <2>5. \A i \in DOMAIN run : run[i] \notin replayIds
      <3> HIDE DEF run, n
      <3> QED BY <2>2, <2>3, <2>4 DEF Pos
    <2>6. frames' = frames \o ext
      BY <1>1, <1>7, <2>5 DEF Unreplayed
    <2>7. /\ ext \in Seq(Frames) /\ Len(ext) = n /\ delivered + n = reply.high
          /\ \A i \in 1 .. n : ext[i] = EventFrame(Pos(generation, delivered + i))
      BY <1>3, <1>4, <2>1, RunFrames
    <2> HIDE DEF ext, n
    <2>8. /\ \A i \in 1 .. n : ext[i] = EventFrame(Pos(Held.gen, Held.seq + i))
          /\ AtOrBefore(Pos(Held.gen, Held.seq + n), made, seq)
      BY <1>3, <1>5, <1>7, <2>7
    <2> QED BY <1>1, <1>2, <2>2, <2>6, <2>7, <2>8, DeliveredBehind, FeedRun
  <1> QED BY <1>6, <1>7

\* The start of a connection is set by begin() and forgotten by close().
LEMMA BaseStays ==
  ASSUME StreamInv, BaseKnown, [Next]_vars PROVE BaseKnown'
  <1>1. CASE Begin
    <2> DEFINE d == DecideResume(resume, cursor, reply)
    <2>1. /\ phase' = "paused" /\ decision' = d
          /\ base' = (IF resume = "cursor" /\ ~d.resync THEN cursor ELSE d.checkpoint)
          /\ generation' = reply.generation /\ delivered' = reply.high
      BY <1>1 DEF Begin
    <2>2. d.checkpoint = Pos(reply.generation, reply.high)
      BY DEF DecideResume
    <2> HIDE DEF d
    <2> QED BY <2>1, <2>2 DEF BaseKnown
  <1>2. CASE Disconnect \/ Fail \/ (SubscriberLost /\ Close)
    BY <1>2 DEF Disconnect, Fail, Close, BaseKnown
  <1>3. CASE Activate \/ PushActive \/ Drain \/ Recovered
    <2>1. phase' \in {"active", "recovering"}
      BY <1>3 DEF Activate, PushActive, Drain, Recovered, Process, StartDrain, IssueRead,
                  StreamInv, LoopIsActive
    <2> QED BY <2>1 DEF BaseKnown
  <1>4. CASE \/ UNCHANGED vars \/ Publish \/ OtherSnapshot \/ Rotate \/ ExpireBuffer
             \/ Attach \/ SubscribeAck \/ ExecSnapshot \/ DropMessage \/ LoseMessage
             \/ PushQueued \/ Unsubscribe \/ (SubscriberLost /\ ~Close)
    <2>1. /\ UNCHANGED <<base, decision>>
          /\ \/ UNCHANGED <<phase, generation, delivered>>
             \/ phase = "closed" /\ phase' = "attaching"
      BY <1>4 DEF vars, Publish, OtherSnapshot, Rotate, ExpireBuffer, Attach, SubscribeAck,
                  ExecSnapshot, DropMessage, LoseMessage, PushQueued, Unsubscribe,
                  SubscriberLost, subVars, clientVars
    <2> QED BY <2>1 DEF BaseKnown
  <1> QED BY <1>1, <1>2, <1>3, <1>4 DEF Next

\* ADR-0027's stream, with its replay buffer, queue and recovery, implements the
\* feed its client is promised: consecutive events from where the client
\* stands, jumps only by a resync and never backwards, nothing from beyond the
\* room's head.
THEOREM StreamImplementsFeed == Spec => FeedSpec
  <1>1. Init => Feed!Init
    BY DEF Init, Feed!Init, NoPosition, Pos
  <1>2. Init => BaseKnown
    BY DEF Init, BaseKnown
  <1>3. StreamInv /\ BaseKnown /\ [Next]_vars => FeedStep
    <2> SUFFICES ASSUME StreamInv, BaseKnown, [Next]_vars PROVE FeedStep
      OBVIOUS
    <2>1. CASE Next
      BY <2>1, RedisFeeds, QuietFeeds, BeginFeeds, CloseFeeds, ActivateFeeds, LiveFeeds,
         RecoveredFeeds
      DEF Next
    <2>2. CASE UNCHANGED vars
      BY <2>2, FeedStands DEF vars, redisVars, subVars, clientVars, Begun
    <2> QED BY <2>1, <2>2
  <1>4. StreamInv /\ BaseKnown /\ [Next]_vars => BaseKnown'
    BY BaseStays
  <1> QED BY StreamInvariant, <1>1, <1>2, <1>3, <1>4, PTL
          DEF Spec, FeedSpec, Feed!Spec, FeedStep
=============================================================================
