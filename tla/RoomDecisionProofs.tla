-------------------------- MODULE RoomDecisionProofs --------------------------
(***************************************************************************)
(* Theorems about RoomDecision for any members, places, number of requests *)
(* at once, runs, versions of the constraints and saves of the answers.    *)
(*                                                                         *)
(* A generate that is still running owns a run of its own, which has no    *)
(* scores yet and carries the constraints of the request's snapshot        *)
(* (RequestOK); so scores that land are of the constraints that            *)
(* persistScores has just checked, and overwrite no others.  A vote in     *)
(* flight is for a place that some run suggested, and no run ever loses    *)
(* what it suggested.                                                      *)
(*                                                                         *)
(* A match takes two people: generate asks for two completed answers, so   *)
(* the snapshot of every run has two members (RunsOK); a vote in flight    *)
(* knows a run that was created, so as many voters as that snapshot has    *)
(* members are two at least, and a match is a place that every voter       *)
(* wants (Carried).                                                        *)
(***************************************************************************)
EXTENDS RoomDecision, FiniteSetTheorems, TLAPS

HasScores(x) == x.ranked # << >>
IsFresh(x) == HasScores(x) /\ x.stale = "no"

(* The places that some run suggested. *)
Suggested(rs) == {p \in Places : \E r \in Runs : p \in Range(rs[r].ranked)}

(* The members that a snapshot was taken of. *)
Asked(inputs) == {m \in Members : inputs[m].sel # "absent"}
AskedTwo(inputs) == Cardinality(Asked(inputs)) >= 2

(* The runs and their scores, with n of them created, against constraints c. *)
RunsOK(rs, n, c) ==
    /\ rs \in [Runs -> Run]
    /\ \A r \in Runs : rs[r].state = "none" <=> r > n
    /\ \A r \in Runs : r > n => ~HasScores(rs[r])
    /\ \A r \in Runs : r <= n => AskedTwo(rs[r].inputs)
    /\ \A r \in Runs : IsFresh(rs[r]) => rs[r].cv = c
    /\ \A r, s \in Runs : IsFresh(rs[r]) /\ IsFresh(rs[s]) => r = s

VotesOK(vs, st, rs) ==
    /\ vs \in Ballots
    /\ \A m \in Members : st[m] = "absent" => vs[m] = [p \in Places |-> "none"]
    /\ VotedOn(vs) \subseteq Suggested(rs)

(* A match that two people want. *)
Carried(d) ==
    /\ d \in Decision
    /\ d.how = "matched" => Cardinality(d.wanting) >= 2

(* What a request in flight knows. *)
RequestOK(x, rs, n, st) ==
    /\ x.op = "snapshot" => AskedTwo(x.inputs)
    /\ x.op \in {"running", "persisted", "vote", "voted"} => x.run \in 1 .. n
    /\ x.op = "running" => ~HasScores(rs[x.run]) /\ rs[x.run].cv = x.cv
    /\ x.op = "vote" => st[x.member] # "absent" /\ x.place \in Suggested(rs)
    /\ x.op = "decide" => Carried(x.decides)

(* No two generates have the same run. *)
RequestsOK(qs, rs, n, st) ==
    /\ qs \in [Requests -> Request]
    /\ \A q \in Requests : RequestOK(qs[q], rs, n, st)
    /\ \A p, q \in Requests :
          qs[p].op = "running" /\ qs[q].op = "running" /\ qs[p].run = qs[q].run => p = q

RoomOK == mode \in Modes /\ status \in Statuses /\ cv \in Nat
PeopleOK == seat \in [Members -> {"absent", "active", "removed"}] /\ answer \in Answers

IInv ==
    /\ RoomOK /\ PeopleOK
    /\ created \in 0 .. MaxRuns
    /\ RunsOK(runs, created, cv)
    /\ VotesOK(votes, seat, runs)
    /\ Carried(decision)
    /\ RequestsOK(reqs, runs, created, seat)

-----------------------------------------------------------------------------
(* Types. *)

LEMMA NoPlacesInNone == Range(<< >>) = {}
  BY DEF Range

LEMMA NoneIsRanking == << >> \in Rankings
  <1>1. Cardinality(Places) \in Nat
    BY DecisionPeople, FS_CardinalityType
  <1>2. << >> \in [1 .. 0 -> Places] /\ 0 \in 0 .. Cardinality(Places)
    BY <1>1
  <1>3. IsInjective(<< >>)
    BY DEF IsInjective
  <1> QED BY <1>2, <1>3 DEF Rankings

LEMMA NoAnswersType == [m \in Members |-> NoAnswer] \in Answers
  BY DEF NoAnswer, Answer, Answers

LEMMA NoRunType == NoRun \in Run /\ NoRun.state = "none" /\ ~HasScores(NoRun)
  <1> DEFINE inputs == [m \in Members |-> NoAnswer]
  <1>1. inputs \in Answers
    BY NoAnswersType
  <1>2. NoRun = [state |-> "none", cv |-> 0, inputs |-> inputs, ranked |-> << >>, stale |-> "no"]
    BY DEF NoRun
  <1> HIDE DEF inputs
  <1> QED BY <1>1, <1>2, NoneIsRanking DEF Run, HasScores

LEMMA NoDecisionOK ==
    NoDecision \in Decision /\ Carried(NoDecision)
  <1>1. NoDecision \in Decision /\ NoDecision.how = "none"
    BY DEF NoDecision, Decision
  <1> HIDE DEF NoDecision
  <1> QED BY <1>1 DEF Carried

LEMMA BlankOK ==
    ASSUME NEW rs, NEW n, NEW st
    PROVE  Blank \in Request /\ Blank.op = "idle" /\ RequestOK(Blank, rs, n, st)
  <1>1. NoDecision \in Decision
    BY NoDecisionOK
  <1> DEFINE inputs == [m \in Members |-> NoAnswer]
  <1>2. inputs \in Answers
    BY NoAnswersType
  <1>3. 0 \in 0 .. MaxRuns
    BY DecisionBounds
  <1>4. Blank = [op |-> "idle", member |-> Host, draft |-> "no", place |-> NoPlace, run |-> 0,
                 cv |-> 0, inputs |-> inputs, decides |-> NoDecision]
    BY DEF Blank
  <1> HIDE DEF NoDecision, inputs
  <1>5. Blank \in Request /\ Blank.op = "idle"
    BY <1>1, <1>2, <1>3, <1>4, DecisionPeople DEF Request, Ops
  <1> HIDE DEF Blank
  <1> QED BY <1>5 DEF RequestOK

LEMMA RevisionType == ASSUME PeopleOK PROVE Revision \in Answers
  <1>1. NoAnswer \in Answer
    BY DEF NoAnswer, Answer
  <1> HIDE DEF NoAnswer, Answer
  <1> QED BY <1>1 DEF Revision, Answers, PeopleOK

(* A nonempty set of runs has a last one. *)
LEMMA LastRun ==
    ASSUME NEW S \in SUBSET Runs, S # {}
    PROVE  \E r \in S : \A s \in S : s <= r
  <1> DEFINE T == {MaxRuns - r : r \in S}
             R == OpToRel(<, Nat)
  <1>0. \A r \in S : MaxRuns - r \in Nat
    BY DecisionBounds DEF Runs
  <1>1. T \subseteq Nat /\ T # {}
    BY <1>0
  <1>2. \E x \in T : \A y \in T : ~(<<y, x>> \in R)
    <2> HIDE DEF T, R
    <2>1. IsWellFoundedOn(R, Nat)
      BY NatLessThanWellFounded DEF R
    <2> QED BY <1>1, <2>1, WFMin
  <1>3. PICK x \in T : \A y \in T : ~(<<y, x>> \in R)
    BY <1>2
  <1>4. \A y \in T : ~(y < x)
    BY <1>1, <1>3 DEF OpToRel
  <1>5. PICK r \in S : x = MaxRuns - r
    OBVIOUS
  <1>6. ASSUME NEW s \in S PROVE s <= r
    <2>1. MaxRuns - s \in T
      OBVIOUS
    <2>2. ~(MaxRuns - s < MaxRuns - r)
      BY <1>4, <1>5, <2>1
    <2>3. s \in Int /\ r \in Int /\ MaxRuns \in Int
      BY DecisionBounds DEF Runs
    <2> HIDE DEF T
    <2> QED BY <2>2, <2>3
  <1> QED BY <1>6

LEMMA LatestRunType ==
    /\ LatestRun \in 0 .. MaxRuns
    /\ LatestRun # 0 => LatestRun \in Runs /\ runs[LatestRun].state = "succeeded"
  <1>1. Succeeded \in SUBSET Runs
    BY DEF Succeeded
  <1>2. CASE Succeeded = {}
    BY <1>2, DecisionBounds DEF LatestRun
  <1>3. CASE Succeeded # {}
    <2>1. LatestRun \in Succeeded
      BY <1>1, <1>3, LastRun DEF LatestRun
    <2>2. runs[LatestRun].state = "succeeded" /\ LatestRun \in Runs
      BY <2>1 DEF Succeeded
    <2> QED BY <2>2 DEF Runs
  <1> QED BY <1>2, <1>3

-----------------------------------------------------------------------------
(* Steps on the runs and on one request. *)

SameScores(rs, rs2, r) == rs2[r].ranked = rs[r].ranked /\ rs2[r].cv = rs[r].cv

(* Runs that lose no scores, and seats that nobody is unseated from. *)
Keeps(rs, n, st, rs2, n2, st2) ==
    /\ n \in Nat /\ n2 \in Nat /\ n <= n2
    /\ \A r \in Runs : HasScores(rs[r]) => rs2[r].ranked = rs[r].ranked
    /\ \A m \in Members : st[m] # "absent" => st2[m] # "absent"

LEMMA SuggestedKept ==
    ASSUME NEW rs, NEW rs2, \A r \in Runs : HasScores(rs[r]) => rs2[r].ranked = rs[r].ranked
    PROVE  Suggested(rs) \subseteq Suggested(rs2)
  <1> SUFFICES ASSUME NEW p \in Places, NEW r \in Runs, p \in Range(rs[r].ranked)
               PROVE  p \in Range(rs2[r].ranked)
    BY DEF Suggested
  <1>1. HasScores(rs[r])
    BY NoPlacesInNone DEF HasScores
  <1> QED BY <1>1

LEMMA RequestKept ==
    ASSUME NEW x \in Request, NEW rs, NEW n, NEW st, NEW rs2, NEW n2, NEW st2,
           RequestOK(x, rs, n, st), Keeps(rs, n, st, rs2, n2, st2),
           x.op = "running" => SameScores(rs, rs2, x.run)
    PROVE  RequestOK(x, rs2, n2, st2)
  <1>1. Suggested(rs) \subseteq Suggested(rs2)
    BY SuggestedKept DEF Keeps
  <1>2. x.member \in Members
    BY DEF Request
  <1> QED BY <1>1, <1>2 DEF RequestOK, Keeps, SameScores, HasScores

(* Requests that stay, while the runs and the seats move on. *)
LEMMA RequestsKept ==
    ASSUME NEW qs, NEW rs, NEW n, NEW st, NEW rs2, NEW n2, NEW st2,
           RequestsOK(qs, rs, n, st), Keeps(rs, n, st, rs2, n2, st2),
           \A q \in Requests : qs[q].op = "running" => SameScores(rs, rs2, qs[q].run)
    PROVE  RequestsOK(qs, rs2, n2, st2)
  <1>1. ASSUME NEW q \in Requests PROVE RequestOK(qs[q], rs2, n2, st2)
    BY RequestKept DEF RequestsOK
  <1> QED BY <1>1 DEF RequestsOK

(* One request moves on to x, and takes no other's run. *)
OthersKept(qs, q, x, rs, rs2) ==
    \A p \in Requests \ {q} : qs[p].op = "running" =>
        /\ SameScores(rs, rs2, qs[p].run)
        /\ x.op = "running" => qs[p].run # x.run

LEMMA RequestStep ==
    ASSUME NEW qs, NEW q \in Requests, NEW x \in Request,
           NEW rs, NEW n, NEW st, NEW rs2, NEW n2, NEW st2,
           RequestsOK(qs, rs, n, st), Keeps(rs, n, st, rs2, n2, st2),
           OthersKept(qs, q, x, rs, rs2), RequestOK(x, rs2, n2, st2)
    PROVE  RequestsOK([qs EXCEPT ![q] = x], rs2, n2, st2)
  <1> DEFINE y == [qs EXCEPT ![q] = x]
  <1>1. y \in [Requests -> Request] /\ y[q] = x /\ \A p \in Requests \ {q} : y[p] = qs[p]
    BY DEF RequestsOK
  <1> HIDE DEF y
  <1>2. ASSUME NEW p \in Requests PROVE RequestOK(y[p], rs2, n2, st2)
    <2>1. CASE p = q
      BY <1>1, <2>1
    <2>2. CASE p # q
      <3>1. y[p] = qs[p] /\ qs[p] \in Request /\ RequestOK(qs[p], rs, n, st)
        BY <1>1, <2>2 DEF RequestsOK
      <3>2. qs[p].op = "running" => SameScores(rs, rs2, qs[p].run)
        BY <2>2 DEF OthersKept
      <3> QED BY <3>1, <3>2, RequestKept
    <2> QED BY <2>1, <2>2
  <1>3. ASSUME NEW a \in Requests, NEW b \in Requests,
               y[a].op = "running", y[b].op = "running", y[a].run = y[b].run
        PROVE  a = b
    <2>1. CASE a # q /\ b # q
      BY <1>1, <1>3, <2>1 DEF RequestsOK
    <2>2. CASE a = q /\ b # q
      BY <1>1, <1>3, <2>2 DEF OthersKept
    <2>3. CASE a # q /\ b = q
      BY <1>1, <1>3, <2>3 DEF OthersKept
    <2> QED BY <2>1, <2>2, <2>3
  <1>4. RequestsOK(y, rs2, n2, st2)
    BY <1>1, <1>2, <1>3 DEF RequestsOK
  <1> QED BY <1>4 DEF y

LEMMA VotesKept ==
    ASSUME NEW vs, NEW st, NEW rs, NEW rs2, NEW st2, NEW n, NEW n2,
           VotesOK(vs, st, rs), Keeps(rs, n, st, rs2, n2, st2)
    PROVE  VotesOK(vs, st2, rs2)
  <1>1. Suggested(rs) \subseteq Suggested(rs2)
    BY SuggestedKept DEF Keeps
  <1> QED BY <1>1 DEF VotesOK, Keeps

LEMMA NothingMoves ==
    ASSUME created \in Nat
    PROVE  /\ Keeps(runs, created, seat, runs, created, seat)
           /\ \A r \in Runs : SameScores(runs, runs, r)
  BY DEF Keeps, SameScores

(* Every score goes stale: none is fresh, and no run loses anything. *)
LEMMA AllStale ==
    ASSUME NEW c, NEW n, NEW d, RunsOK(runs, n, c)
    PROVE  /\ RunsOK(MarkStale, n, d)
           /\ \A r \in Runs : SameScores(runs, MarkStale, r) /\ MarkStale[r].stale = "yes"
                              /\ MarkStale[r].state = runs[r].state /\ MarkStale[r] \in Run
                              /\ MarkStale[r].inputs = runs[r].inputs
  <1>1. ASSUME NEW r \in Runs
        PROVE  /\ MarkStale[r] \in Run /\ MarkStale[r].stale = "yes"
               /\ MarkStale[r].state = runs[r].state
               /\ MarkStale[r].inputs = runs[r].inputs
               /\ SameScores(runs, MarkStale, r)
    BY DEF MarkStale, RunsOK, Run, SameScores
  <1>2. MarkStale \in [Runs -> Run]
    BY <1>1 DEF MarkStale
  <1> DEFINE ms == MarkStale
  <1>3. \A r \in Runs : ms[r] \in Run /\ ms[r].stale = "yes" /\ ms[r].state = runs[r].state
                        /\ SameScores(runs, ms, r) /\ ms[r].inputs = runs[r].inputs
    BY <1>1
  <1> HIDE DEF ms
  <1>4. RunsOK(ms, n, d)
    BY <1>2, <1>3 DEF RunsOK, IsFresh, HasScores, SameScores, ms
  <1> QED BY <1>3, <1>4 DEF ms

(* The state of one run changes, and nothing else of it. *)
LEMMA StateOfRun ==
    ASSUME NEW c, NEW n, RunsOK(runs, n, c), NEW r \in Runs, runs[r].state # "none",
           NEW s \in {"succeeded", "failed"}
    PROVE  LET rs == [runs EXCEPT ![r].state = s] IN
           RunsOK(rs, n, c) /\ \A t \in Runs : SameScores(runs, rs, t)
  <1> DEFINE x == [runs[r] EXCEPT !.state = s]
             rs == [runs EXCEPT ![r] = x]
  <1>1. runs \in [Runs -> Run] /\ runs[r] \in Run
    BY DEF RunsOK
  <1>2. x \in Run /\ x.state = s /\ x.ranked = runs[r].ranked /\ x.cv = runs[r].cv
        /\ x.stale = runs[r].stale /\ x.inputs = runs[r].inputs
    BY <1>1 DEF Run
  <1> HIDE DEF x
  <1>3. rs \in [Runs -> Run] /\ rs[r] = x /\ \A t \in Runs \ {r} : rs[t] = runs[t]
    BY <1>1, <1>2
  <1> HIDE DEF rs
  <1>4. \A t \in Runs : /\ SameScores(runs, rs, t) /\ rs[t].stale = runs[t].stale
                        /\ rs[t].state = "none" <=> runs[t].state = "none"
                        /\ rs[t].inputs = runs[t].inputs
    BY <1>2, <1>3 DEF SameScores
  <1>5. RunsOK(rs, n, c)
    BY <1>3, <1>4 DEF RunsOK, IsFresh, HasScores, SameScores
  <1>6. rs = [runs EXCEPT ![r].state = s]
    BY DEF rs, x
  <1> QED BY <1>4, <1>5, <1>6

-----------------------------------------------------------------------------
(* Requests that come and go. *)

LEMMA Parts ==
    ASSUME IInv
    PROVE  /\ RoomOK /\ PeopleOK /\ created \in Nat /\ created \in 0 .. MaxRuns
           /\ RunsOK(runs, created, cv) /\ VotesOK(votes, seat, runs)
           /\ Carried(decision) /\ RequestsOK(reqs, runs, created, seat)
  BY DEF IInv

LEMMA RunningRuns ==
    ASSUME IInv, NEW q \in Requests, reqs[q].op = "running"
    PROVE  /\ reqs[q].run \in Runs /\ reqs[q].run <= created
           /\ ~HasScores(runs[reqs[q].run]) /\ runs[reqs[q].run].cv = reqs[q].cv
  <1>1. RequestOK(reqs[q], runs, created, seat) /\ created \in 0 .. MaxRuns
    BY Parts DEF RequestsOK
  <1>2. reqs[q].run \in 1 .. created /\ ~HasScores(runs[reqs[q].run])
        /\ runs[reqs[q].run].cv = reqs[q].cv
    BY <1>1 DEF RequestOK
  <1> QED BY <1>1, <1>2, DecisionBounds DEF Runs

(* A step that only moves one request on, to one without a run. *)
LEMMA OnlyRequest ==
    ASSUME IInv, NEW q \in Requests, NEW x \in Request,
           RequestOK(x, runs, created, seat), x.op # "running",
           reqs' = [reqs EXCEPT ![q] = x], UNCHANGED <<room, people, ranking, votes, decision>>
    PROVE  IInv'
  <1>1. OthersKept(reqs, q, x, runs, runs)
    BY DEF OthersKept, SameScores
  <1>2. RequestsOK([reqs EXCEPT ![q] = x], runs, created, seat)
    BY <1>1, Parts, NothingMoves, RequestStep
  <1> QED BY <1>2 DEF IInv, RoomOK, PeopleOK, room, people, ranking

LEMMA AbandonKeeps ==
    ASSUME IInv, NEW q \in Requests, Abandon(q) PROVE IInv'
  BY OnlyRequest, BlankOK DEF Abandon, Close

(* What a request starts with: Blank but for what it needs. *)
LEMMA RequestCompleteKeeps ==
    ASSUME IInv, NEW q \in Requests, NEW m \in Members, RequestComplete(q, m) PROVE IInv'
  <1> DEFINE d == IF answer[m].sel = "completed" THEN "no" ELSE "yes"
             x == [Blank EXCEPT !.op = "complete", !.member = m, !.draft = d]
  <1>1. Blank \in Request
    BY BlankOK
  <1>2. x \in Request /\ x.op = "complete"
    BY <1>1 DEF Request, Ops
  <1>3. reqs' = [reqs EXCEPT ![q] = x] /\ UNCHANGED <<room, people, ranking, votes, decision>>
    BY DEF RequestComplete, Ask
  <1> HIDE DEF x
  <1>4. RequestOK(x, runs, created, seat)
    BY <1>2 DEF RequestOK
  <1> QED BY <1>2, <1>3, <1>4, OnlyRequest

(* Those whose answers are completed are in the snapshot. *)
LEMMA QuorumAsked ==
    ASSUME PeopleOK, Cardinality(Completed) >= 2 PROVE AskedTwo(Revision)
  <1>1. Completed \subseteq Asked(Revision)
    BY DEF Completed, Seated, Asked, Revision
  <1>2. IsFiniteSet(Asked(Revision))
    BY DecisionPeople, FS_Subset DEF Asked
  <1>3. /\ Cardinality(Completed) <= Cardinality(Asked(Revision))
        /\ Cardinality(Completed) \in Nat /\ Cardinality(Asked(Revision)) \in Nat
    BY <1>1, <1>2, FS_Subset, FS_CardinalityType
  <1> QED BY <1>3 DEF AskedTwo

LEMMA RequestGenerateKeeps ==
    ASSUME IInv, NEW q \in Requests, RequestGenerate(q) PROVE IInv'
  <1> DEFINE x == [Blank EXCEPT !.op = "snapshot", !.cv = cv, !.inputs = Revision]
  <1>1. Blank \in Request /\ Revision \in Answers /\ cv \in Nat
    BY BlankOK, RevisionType, Parts DEF RoomOK
  <1>2. x \in Request /\ x.op = "snapshot" /\ x.inputs = Revision
    BY <1>1 DEF Request, Ops
  <1>3. reqs' = [reqs EXCEPT ![q] = x] /\ UNCHANGED <<room, people, ranking, votes, decision>>
    BY DEF RequestGenerate, Ask
  <1> HIDE DEF x
  <1>4. AskedTwo(Revision)
    BY Parts, QuorumAsked DEF RequestGenerate
  <1>5. RequestOK(x, runs, created, seat)
    BY <1>2, <1>4 DEF RequestOK
  <1> QED BY <1>2, <1>3, <1>5, OnlyRequest

LEMMA RequestVoteKeeps ==
    ASSUME IInv, NEW q \in Requests, NEW m \in Members, NEW p \in Places, RequestVote(q, m, p)
    PROVE  IInv'
  <1> DEFINE x == [Blank EXCEPT !.op = "vote", !.member = m, !.place = p, !.run = LatestRun]
  <1>1. Blank \in Request /\ LatestRun \in 0 .. MaxRuns
    BY BlankOK, LatestRunType
  <1>2. x \in Request /\ x.op = "vote" /\ x.member = m /\ x.place = p /\ x.run = LatestRun
    BY <1>1 DEF Request, Ops
  <1>3. reqs' = [reqs EXCEPT ![q] = x] /\ UNCHANGED <<room, people, ranking, votes, decision>>
    BY DEF RequestVote, Ask
  <1>4. seat[m] # "absent"
    BY DEF RequestVote, Seated
  <1>5. p \in Suggested(runs)
    BY LatestRunType DEF RequestVote, IsCandidate, Suggested
  <1>6. LatestRun \in 1 .. created
    <2>1. LatestRun \in Runs /\ runs[LatestRun].state # "none"
      BY LatestRunType DEF RequestVote, IsCandidate
    <2>2. ~(LatestRun > created) /\ created \in Nat
      BY <2>1, Parts DEF RunsOK
    <2> QED BY <2>1, <2>2 DEF Runs
  <1> HIDE DEF x
  <1>7. RequestOK(x, runs, created, seat)
    BY <1>2, <1>4, <1>5, <1>6 DEF RequestOK
  <1> QED BY <1>2, <1>3, <1>7, OnlyRequest

(* A decision; if it is a match, two people want the place. *)
LEMMA DecideKeeps ==
    ASSUME IInv, NEW q \in Requests, NEW how \in {"finalized", "matched"}, NEW winner \in Places,
           how = "matched" => Cardinality(Wanting(votes, winner)) >= 2,
           Decide(q, how, winner), UNCHANGED <<room, people, ranking, votes, decision>>
    PROVE  IInv'
  <1> DEFINE d == [how |-> how, winner |-> winner, wanting |-> Wanting(votes, winner)]
             x == [Blank EXCEPT !.op = "decide", !.decides = d]
  <1>1. Wanting(votes, winner) \subseteq Members
    BY DEF Wanting
  <1>2. d \in Decision /\ d.how = how /\ d.wanting = Wanting(votes, winner)
    BY <1>1 DEF Decision
  <1> HIDE DEF d
  <1>3. Carried(d)
    BY <1>2 DEF Carried
  <1>4. Blank \in Request
    BY BlankOK
  <1>5. x \in Request /\ x.op = "decide" /\ x.decides = d
    BY <1>2, <1>4 DEF Request, Ops
  <1>6. reqs' = [reqs EXCEPT ![q] = x]
    BY DEF Decide, d
  <1> HIDE DEF x
  <1>7. RequestOK(x, runs, created, seat)
    BY <1>3, <1>5 DEF RequestOK
  <1> QED BY <1>5, <1>6, <1>7, OnlyRequest

LEMMA SeeMatchKeeps ==
    ASSUME IInv, NEW q \in Requests, NEW winner \in Places, SeeMatch(q, winner) PROVE IInv'
  <1>1. winner \in Matches
    BY DEF SeeMatch, BestRanked
  <1>2. VotersIn(votes) \subseteq Wanting(votes, winner)
    BY <1>1 DEF Matches, VotersIn, Wanting
  <1>3. IsFiniteSet(Wanting(votes, winner))
    BY DecisionPeople, FS_Subset DEF Wanting
  <1>4. /\ Cardinality(VotersIn(votes)) <= Cardinality(Wanting(votes, winner))
        /\ Cardinality(VotersIn(votes)) \in Nat /\ Cardinality(Wanting(votes, winner)) \in Nat
    BY <1>2, <1>3, FS_Subset, FS_CardinalityType
  <1> DEFINE r == reqs[q].run
  <1>5. r \in 1 .. created /\ created \in 0 .. MaxRuns
    BY Parts DEF RequestsOK, RequestOK, SeeMatch
  <1>6. r \in Runs /\ r <= created
    BY <1>5, DecisionBounds DEF Runs
  <1>7. AskedTwo(runs[r].inputs)
    BY <1>6, Parts DEF RunsOK
  <1>8. Cardinality(Asked(runs[r].inputs)) \in Nat
    BY DecisionPeople, FS_Subset, FS_CardinalityType DEF Asked
  <1>9. Cardinality(VotersIn(votes)) >= Cardinality(Asked(runs[r].inputs))
    BY DEF SeeMatch, EnoughVoted, Asked
  <1>10. Cardinality(Wanting(votes, winner)) >= 2
    BY <1>4, <1>7, <1>8, <1>9 DEF AskedTwo
  <1> QED BY <1>10, DecideKeeps DEF SeeMatch

LEMMA RequestFinalizeKeeps ==
    ASSUME IInv, NEW q \in Requests, NEW pick \in Places \cup {NoPlace}, NEW winner \in Places,
           RequestFinalize(q, pick, winner)
    PROVE  IInv'
  BY DecideKeeps DEF RequestFinalize

-----------------------------------------------------------------------------
(* The room and its members. *)

(* A step on the room, the seats or the runs that no request takes part in. *)
LEMMA NoRequest ==
    ASSUME IInv, RoomOK', PeopleOK', mode' = mode, RunsOK(runs', created, cv'),
           Keeps(runs, created, seat, runs', created, seat'),
           \A r \in Runs : SameScores(runs, runs', r),
           UNCHANGED <<created, votes, decision, reqs>>
    PROVE  IInv'
  <1>1. RequestsOK(reqs, runs, created, seat) /\ VotesOK(votes, seat, runs)
    BY Parts
  <1>2. \A q \in Requests : reqs[q].op = "running" => reqs[q].run \in Runs
    BY RunningRuns
  <1>3. RequestsOK(reqs, runs', created, seat')
    BY <1>1, <1>2, RequestsKept
  <1>4. VotesOK(votes, seat', runs')
    BY <1>1, VotesKept
  <1> QED BY <1>3, <1>4 DEF IInv

LEMMA JoinKeeps ==
    ASSUME IInv, NEW m \in Members, Join(m) \/ RemoveMember(m) PROVE IInv'
  <1>1. seat \in [Members -> {"absent", "active", "removed"}] /\ answer \in Answers
        /\ RoomOK /\ created \in Nat /\ RunsOK(runs, created, cv)
    BY Parts DEF PeopleOK
  <1>2. PICK s \in {"active", "removed"} : seat' = [seat EXCEPT ![m] = s]
    BY DEF Join, RemoveMember
  <1>3. /\ UNCHANGED <<mode, status, cv, answer, created, runs, votes, decision, reqs>>
    BY DEF Join, RemoveMember, room, ranking
  <1>4. RoomOK' /\ PeopleOK'
    BY <1>1, <1>2, <1>3 DEF RoomOK, PeopleOK
  <1>5. Keeps(runs, created, seat, runs', created, seat')
    BY <1>1, <1>2, <1>3 DEF Keeps
  <1>6. \A r \in Runs : SameScores(runs, runs', r)
    BY <1>3 DEF SameScores
  <1> QED BY <1>1, <1>3, <1>4, <1>5, <1>6, NoRequest

(* Scores that go stale, or stay. *)
LEMMA StaleOrNot ==
    ASSUME IInv, NEW c, runs' = MarkStale \/ (runs' = runs /\ c = cv), seat' = seat
    PROVE  /\ RunsOK(runs', created, c)
           /\ Keeps(runs, created, seat, runs', created, seat')
           /\ \A r \in Runs : SameScores(runs, runs', r)
  <1>1. created \in Nat /\ RunsOK(runs, created, cv)
    BY Parts
  <1>2. CASE runs' = MarkStale
    <2>1. RunsOK(runs', created, c) /\ \A r \in Runs : SameScores(runs, runs', r)
      BY <1>1, <1>2, AllStale
    <2> QED BY <1>1, <2>1 DEF Keeps, SameScores
  <1>3. CASE runs' = runs /\ c = cv
    BY <1>1, <1>3, NothingMoves
  <1> QED BY <1>2, <1>3

LEMMA SaveKeeps ==
    ASSUME IInv, NEW m \in Members, Save(m) PROVE IInv'
  <1>1. PeopleOK /\ RoomOK
    BY Parts
  <1>2. PeopleOK'
    <2> DEFINE x == [sel |-> "in_progress", version |-> answer[m].version + 1]
    <2>1. answer \in [Members -> Answer] /\ answer[m].version \in Nat
      BY <1>1 DEF PeopleOK, Answers, Answer
    <2>2. x \in Answer
      BY <2>1 DEF Answer
    <2>3. answer' = [answer EXCEPT ![m] = x]
      BY DEF Save
    <2> HIDE DEF x
    <2> QED BY <1>1, <2>1, <2>2, <2>3 DEF PeopleOK, Answers, Save
  <1>3. RoomOK' /\ mode' = mode /\ cv' = cv /\ UNCHANGED <<created, votes, decision, reqs>>
    BY <1>1 DEF RoomOK, Save, room
  <1>4. /\ RunsOK(runs', created, cv) /\ Keeps(runs, created, seat, runs', created, seat')
        /\ \A r \in Runs : SameScores(runs, runs', r)
    BY StaleOrNot DEF Save
  <1> QED BY <1>2, <1>3, <1>4, NoRequest

LEMMA TransitionKeeps ==
    ASSUME IInv, NEW to \in Statuses, NEW ack \in {"no", "yes"}, Transition(to, ack) PROVE IInv'
  <1>1. RoomOK' /\ PeopleOK' /\ mode' = mode /\ cv' = cv /\ seat' = seat /\ runs' = runs
        /\ UNCHANGED <<created, votes, decision, reqs>>
    BY Parts DEF Transition, RoomOK, PeopleOK, people, ranking
  <1>2. /\ RunsOK(runs', created, cv) /\ Keeps(runs, created, seat, runs', created, seat')
        /\ \A r \in Runs : SameScores(runs, runs', r)
    BY <1>1, StaleOrNot
  <1> QED BY <1>1, <1>2, NoRequest

LEMMA EditConstraintsKeeps ==
    ASSUME IInv, EditConstraints PROVE IInv'
  <1>1. RoomOK' /\ PeopleOK' /\ mode' = mode /\ seat' = seat /\ runs' = MarkStale
        /\ UNCHANGED <<created, votes, decision, reqs>>
    BY Parts DEF EditConstraints, RoomOK, PeopleOK, people
  <1>2. /\ RunsOK(runs', created, cv') /\ Keeps(runs, created, seat, runs', created, seat')
        /\ \A r \in Runs : SameScores(runs, runs', r)
    BY <1>1, StaleOrNot
  <1> QED BY <1>1, <1>2, NoRequest

(* A step that closes a request and loses no scores. *)
LEMMA Closing ==
    ASSUME IInv, NEW q \in Requests, Close(q), RoomOK', PeopleOK', mode' = mode,
           created' = created, RunsOK(runs', created, cv'), Carried(decision'),
           Keeps(runs, created, seat, runs', created, seat'),
           \A r \in Runs : SameScores(runs, runs', r), votes' = votes
    PROVE  IInv'
  <1>1. RequestsOK(reqs, runs, created, seat) /\ VotesOK(votes, seat, runs)
    BY Parts
  <1>2. Blank \in Request /\ Blank.op = "idle" /\ RequestOK(Blank, runs', created, seat')
    BY BlankOK
  <1>3. \A p \in Requests : reqs[p].op = "running" => reqs[p].run \in Runs
    BY RunningRuns
  <1>4. OthersKept(reqs, q, Blank, runs, runs')
    BY <1>2, <1>3 DEF OthersKept
  <1>5. RequestsOK([reqs EXCEPT ![q] = Blank], runs', created, seat')
    BY <1>1, <1>2, <1>4, RequestStep
  <1>6. VotesOK(votes, seat', runs')
    BY <1>1, VotesKept
  <1> QED BY <1>5, <1>6 DEF IInv, Close

LEMMA CompleteKeeps ==
    ASSUME IInv, NEW q \in Requests, Complete(q) PROVE IInv'
  <1>1. PeopleOK /\ RoomOK /\ Carried(decision)
    BY Parts
  <1> DEFINE m == reqs[q].member
  <1>2. m \in Members
    BY Parts DEF RequestsOK, Request
  <1>3. PeopleOK'
    <2> DEFINE x == [answer[m] EXCEPT !.sel = "completed"]
    <2>1. answer \in [Members -> Answer] /\ answer[m] \in Answer
      BY <1>1, <1>2 DEF PeopleOK, Answers
    <2>2. x \in Answer
      BY <2>1 DEF Answer
    <2>3. answer' = [answer EXCEPT ![m] = x]
      BY DEF Complete
    <2> HIDE DEF x, m
    <2> QED BY <1>1, <1>2, <2>1, <2>2, <2>3 DEF PeopleOK, Answers, Complete
  <1>4. RoomOK' /\ mode' = mode /\ cv' = cv /\ UNCHANGED <<created, votes, decision>>
    BY <1>1 DEF RoomOK, Complete, Statuses
  <1>5. /\ RunsOK(runs', created, cv) /\ Keeps(runs, created, seat, runs', created, seat')
        /\ \A r \in Runs : SameScores(runs, runs', r)
    BY StaleOrNot DEF Complete
  <1>6. Close(q)
    BY DEF Complete
  <1> QED BY <1>1, <1>3, <1>4, <1>5, <1>6, Closing

LEMMA ClaimKeeps ==
    ASSUME IInv, NEW q \in Requests, Claim(q) PROVE IInv'
  <1>1. Carried(reqs[q].decides)
    BY Parts DEF RequestsOK, RequestOK, Claim
  <1>2. RoomOK' /\ PeopleOK' /\ mode' = mode /\ cv' = cv /\ seat' = seat /\ runs' = runs
        /\ created' = created /\ votes' = votes /\ decision' = reqs[q].decides
    BY Parts DEF Claim, RoomOK, PeopleOK, people, ranking, Statuses
  <1>3. /\ RunsOK(runs', created, cv) /\ Keeps(runs, created, seat, runs', created, seat')
        /\ \A r \in Runs : SameScores(runs, runs', r)
    BY <1>2, StaleOrNot
  <1>4. Close(q)
    BY DEF Claim
  <1> QED BY <1>1, <1>2, <1>3, <1>4, Closing

-----------------------------------------------------------------------------
(* Runs that are created, get their scores and end; votes that are written. *)

LEMMA CreateRunKeeps ==
    ASSUME IInv, NEW q \in Requests, CreateRun(q) PROVE IInv'
  <1> DEFINE n == created + 1
             y == [NoRun EXCEPT !.state = "running", !.cv = reqs[q].cv,
                                !.inputs = reqs[q].inputs]
             x == [reqs[q] EXCEPT !.op = "running", !.run = n]
  <1>1. /\ created \in Nat /\ created < MaxRuns /\ n \in Nat /\ n \in Runs /\ n \in 0 .. MaxRuns
        /\ n > created
    BY Parts, DecisionBounds DEF CreateRun, Runs
  <1>2. /\ RunsOK(runs, created, cv) /\ runs \in [Runs -> Run] /\ reqs[q] \in Request
        /\ RequestsOK(reqs, runs, created, seat) /\ VotesOK(votes, seat, runs)
    BY Parts DEF RunsOK, RequestsOK
  <1>3. reqs[q].cv \in Nat /\ reqs[q].inputs \in Answers /\ AskedTwo(reqs[q].inputs)
    BY <1>2 DEF Request, RequestsOK, RequestOK, CreateRun
  <1>4. y \in Run /\ y.state = "running" /\ y.cv = reqs[q].cv /\ ~HasScores(y)
        /\ y.inputs = reqs[q].inputs
    BY <1>3, NoRunType DEF Run, HasScores
  <1>5. x \in Request /\ x.op = "running" /\ x.run = n /\ x.cv = reqs[q].cv
    BY <1>1, <1>2 DEF Request, Ops
  <1>6. runs' = [runs EXCEPT ![n] = y] /\ reqs' = [reqs EXCEPT ![q] = x] /\ created' = n
    BY DEF CreateRun
  <1> HIDE DEF x, y, n
  <1>7. runs'[n] = y /\ \A r \in Runs \ {n} : runs'[r] = runs[r]
    BY <1>1, <1>2, <1>6
  <1>8. RunsOK(runs', n, cv)
    <2>1. runs' \in [Runs -> Run]
      BY <1>2, <1>4, <1>6
    <2>2. ASSUME NEW r \in Runs
          PROVE  /\ runs'[r].state = "none" <=> r > n
                 /\ r > n => ~HasScores(runs'[r])
                 /\ r <= n => AskedTwo(runs'[r].inputs)
      <3>1. r \in Nat
        BY DEF Runs
      <3>2. CASE r = n
        BY <1>1, <1>3, <1>4, <1>7, <3>2
      <3>3. CASE r # n
        <4>1. (r > n <=> r > created) /\ (r <= n <=> r <= created)
          BY <1>1, <3>1, <3>3 DEF n
        <4> QED BY <1>2, <1>7, <3>3, <4>1 DEF RunsOK
      <3> QED BY <3>2, <3>3
    <2>3. \A r \in Runs : IsFresh(runs'[r]) => r # n /\ runs'[r] = runs[r]
      BY <1>4, <1>7 DEF IsFresh
    <2> QED BY <1>2, <2>1, <2>2, <2>3 DEF RunsOK
  <1>9. ~HasScores(runs[n])
    BY <1>1, <1>2 DEF RunsOK
  <1>10. Keeps(runs, created, seat, runs', n, seat)
    BY <1>1, <1>7, <1>9 DEF Keeps
  <1>11. RequestOK(x, runs', n, seat)
    <2>1. n \in 1 .. n
      BY <1>1 DEF Runs
    <2> QED BY <1>4, <1>5, <1>7, <2>1 DEF RequestOK
  <1>12. OthersKept(reqs, q, x, runs, runs')
    <2> SUFFICES ASSUME NEW p \in Requests, reqs[p].op = "running"
                 PROVE  SameScores(runs, runs', reqs[p].run) /\ reqs[p].run # n
      BY <1>5 DEF OthersKept
    <2>1. reqs[p].run \in Runs /\ reqs[p].run <= created
      BY RunningRuns
    <2>2. reqs[p].run # n
      BY <1>1, <2>1 DEF Runs
    <2> QED BY <1>7, <2>1, <2>2 DEF SameScores
  <1>13. RequestsOK(reqs', runs', n, seat)
    BY <1>2, <1>5, <1>6, <1>10, <1>11, <1>12, RequestStep
  <1>14. VotesOK(votes, seat, runs')
    BY <1>2, <1>10, VotesKept
  <1>15. RoomOK' /\ PeopleOK' /\ Carried(decision') /\ UNCHANGED <<cv, seat, mode, votes>>
    BY Parts DEF CreateRun, RoomOK, PeopleOK, room, people
  <1> QED BY <1>1, <1>6, <1>8, <1>13, <1>14, <1>15 DEF IInv

LEMMA PersistScoresKeeps ==
    ASSUME IInv, NEW q \in Requests, NEW ranked \in Rankings, PersistScores(q, ranked)
    PROVE  IInv'
  <1> DEFINE r == reqs[q].run
             ms == MarkStale
             y == [ms[r] EXCEPT !.ranked = ranked, !.stale = "no"]
             x == [reqs[q] EXCEPT !.op = "persisted"]
  <1>1. reqs[q].op = "running" /\ cv = reqs[q].cv
    BY DEF PersistScores, InputsUnchanged
  <1>2. r \in Runs /\ r <= created /\ ~HasScores(runs[r]) /\ runs[r].cv = cv
    BY <1>1, RunningRuns
  <1>3. /\ RunsOK(runs, created, cv) /\ reqs[q] \in Request /\ created \in Nat
        /\ RequestsOK(reqs, runs, created, seat) /\ VotesOK(votes, seat, runs)
    BY Parts DEF RequestsOK
  <1>4. /\ RunsOK(ms, created, cv)
        /\ \A t \in Runs : /\ SameScores(runs, ms, t) /\ ms[t].stale = "yes" /\ ms[t] \in Run
                           /\ ms[t].state = runs[t].state /\ ms[t].inputs = runs[t].inputs
    BY <1>3, AllStale
  <1>5. runs' = [ms EXCEPT ![r] = y] /\ reqs' = [reqs EXCEPT ![q] = x]
    BY DEF PersistScores, Landed
  <1> HIDE DEF ms
  <1>6. y \in Run /\ y.state = runs[r].state /\ y.cv = cv /\ y.inputs = runs[r].inputs
    BY <1>2, <1>4 DEF Run, SameScores
  <1>7. x \in Request /\ x.op = "persisted" /\ x.run = r
    BY <1>3 DEF Request, Ops
  <1> HIDE DEF x, y, r
  <1>8. runs' \in [Runs -> Run] /\ runs'[r] = y /\ \A t \in Runs \ {r} : runs'[t] = ms[t]
    BY <1>2, <1>4, <1>5, <1>6 DEF RunsOK
  <1>9. \A t \in Runs \ {r} : SameScores(runs, runs', t) /\ runs'[t].stale = "yes"
    BY <1>4, <1>8 DEF SameScores
  <1>10. \A t \in Runs : runs'[t].state = runs[t].state /\ runs'[t].inputs = runs[t].inputs
    BY <1>4, <1>6, <1>8
  <1>11. RunsOK(runs', created, cv)
    <2>1. \A t \in Runs : IsFresh(runs'[t]) => t = r
      BY <1>9 DEF IsFresh
    <2>2. \A t \in Runs : t > created => t # r
      BY <1>2, <1>3 DEF Runs
    <2>3. \A t \in Runs : t > created => ~HasScores(runs'[t])
      BY <1>3, <1>9, <2>2 DEF RunsOK, SameScores, HasScores
    <2>4. \A t \in Runs : IsFresh(runs'[t]) => runs'[t].cv = cv
      BY <1>6, <1>8, <2>1
    <2> QED BY <1>3, <1>8, <1>10, <2>1, <2>3, <2>4 DEF RunsOK
  <1>12. Keeps(runs, created, seat, runs', created, seat)
    BY <1>2, <1>3, <1>9 DEF Keeps, SameScores
  <1>13. OthersKept(reqs, q, x, runs, runs')
    <2> SUFFICES ASSUME NEW p \in Requests \ {q}, reqs[p].op = "running"
                 PROVE  SameScores(runs, runs', reqs[p].run)
      BY <1>7 DEF OthersKept
    <2>1. reqs[p].run \in Runs
      BY RunningRuns
    <2>2. reqs[p].run # r
      BY <1>1, <1>3 DEF RequestsOK, r
    <2> QED BY <1>9, <2>1, <2>2
  <1>14. RequestOK(x, runs', created, seat)
    <2>1. r \in 1 .. created
      BY <1>2, <1>3 DEF Runs
    <2> QED BY <1>7, <2>1 DEF RequestOK
  <1>15. RequestsOK(reqs', runs', created, seat)
    BY <1>3, <1>5, <1>7, <1>12, <1>13, <1>14, RequestStep
  <1>16. VotesOK(votes, seat, runs')
    BY <1>3, <1>12, VotesKept
  <1>17. /\ RoomOK' /\ PeopleOK' /\ Carried(decision')
         /\ UNCHANGED <<cv, seat, mode, votes, created>>
    BY Parts DEF PersistScores, RoomOK, PeopleOK, room, people
  <1> QED BY <1>11, <1>15, <1>16, <1>17, Parts DEF IInv

(* FinishRun and FailRun. *)
LEMMA EndRunKeeps ==
    ASSUME IInv, NEW q \in Requests, FinishRun(q) \/ FailRun(q) PROVE IInv'
  <1> DEFINE r == reqs[q].run
  <1>1. PICK s \in {"succeeded", "failed"} : runs' = [runs EXCEPT ![r].state = s]
    BY DEF FinishRun, FailRun
  <1>2. /\ RoomOK' /\ PeopleOK' /\ Carried(decision') /\ Close(q) /\ created \in Nat
        /\ UNCHANGED <<cv, seat, mode, votes, created>> /\ RunsOK(runs, created, cv)
    BY Parts DEF FinishRun, FailRun, RoomOK, PeopleOK, room, people
  <1> HIDE DEF r
  <1>3. r \in Runs /\ runs[r].state # "none"
    <2>1. RequestOK(reqs[q], runs, created, seat) /\ created \in 0 .. MaxRuns
      BY Parts DEF RequestsOK
    <2>2. r \in 1 .. created
      BY <2>1 DEF FinishRun, FailRun, RequestOK, r
    <2>3. r \in Runs /\ ~(r > created)
      BY <2>1, <2>2, DecisionBounds DEF Runs
    <2> QED BY <1>2, <2>3 DEF RunsOK
  <1>4. RunsOK(runs', created, cv) /\ \A t \in Runs : SameScores(runs, runs', t)
    BY <1>1, <1>2, <1>3, StateOfRun
  <1>5. Keeps(runs, created, seat, runs', created, seat')
    BY <1>2, <1>4 DEF Keeps, SameScores
  <1> QED BY <1>2, <1>4, <1>5, Closing

LEMMA UpsertVoteKeeps ==
    ASSUME IInv, NEW q \in Requests, NEW value \in Values, UpsertVote(q, value) PROVE IInv'
  <1> DEFINE m == reqs[q].member
             p == reqs[q].place
             b == [votes[m] EXCEPT ![p] = value]
             x == IF mode = "match" THEN [reqs[q] EXCEPT !.op = "voted"] ELSE Blank
  <1>1. /\ created \in Nat /\ reqs[q] \in Request /\ RunsOK(runs, created, cv)
        /\ RequestsOK(reqs, runs, created, seat) /\ VotesOK(votes, seat, runs)
        /\ RequestOK(reqs[q], runs, created, seat) /\ reqs[q].op = "vote"
    BY Parts DEF RequestsOK, UpsertVote
  <1>2. m \in Members /\ p \in Places /\ seat[m] # "absent" /\ p \in Suggested(runs)
    <2>1. m \in Members
      BY <1>1 DEF Request
    <2>2. seat[m] # "absent" /\ p \in Suggested(runs)
      BY <1>1 DEF RequestOK
    <2>3. p \in Places
      BY <2>2 DEF Suggested
    <2> QED BY <2>1, <2>2, <2>3
  <1>3. x \in Request /\ x.op \in {"idle", "voted"} /\ (x.op = "voted" => x.run = reqs[q].run)
    <2>1. Blank \in Request /\ Blank.op = "idle"
      BY BlankOK
    <2>2. [reqs[q] EXCEPT !.op = "voted"] \in Request
      BY <1>1 DEF Request, Ops
    <2>3. /\ [reqs[q] EXCEPT !.op = "voted"].op = "voted"
          /\ [reqs[q] EXCEPT !.op = "voted"].run = reqs[q].run
      BY <1>1 DEF Request
    <2> HIDE DEF Blank
    <2> QED BY <2>1, <2>2, <2>3
  <1>4. reqs' = [reqs EXCEPT ![q] = x] /\ votes' = [votes EXCEPT ![m] = b]
    BY DEF UpsertVote
  <1> HIDE DEF x
  <1>5. RequestOK(x, runs, created, seat)
    BY <1>1, <1>3 DEF RequestOK
  <1>6. OthersKept(reqs, q, x, runs, runs)
    BY <1>3 DEF OthersKept, SameScores
  <1>7. RequestsOK(reqs', runs, created, seat)
    BY <1>1, <1>3, <1>4, <1>5, <1>6, NothingMoves, RequestStep
  <1> HIDE DEF m, p
  <1>8. VotesOK(votes', seat, runs)
    <2>1. value \in {"none", "no", "yes", "star"}
      BY DecisionValues
    <2>2. votes \in [Members -> [Places -> {"none", "no", "yes", "star"}]]
      BY <1>1 DEF VotesOK, Ballots
    <2>3. /\ b \in [Places -> {"none", "no", "yes", "star"}]
          /\ \A o \in Places \ {p} : b[o] = votes[m][o]
      BY <1>2, <2>1, <2>2
    <2> HIDE DEF b
    <2>4. votes' \in Ballots /\ votes'[m] = b /\ \A k \in Members \ {m} : votes'[k] = votes[k]
      BY <1>2, <1>4, <2>2, <2>3 DEF Ballots
    <2>5. VotedOn(votes') \subseteq VotedOn(votes) \cup {p}
      BY <2>3, <2>4 DEF VotedOn
    <2> QED BY <1>1, <1>2, <2>4, <2>5 DEF VotesOK
  <1>9. /\ RoomOK' /\ PeopleOK' /\ Carried(decision')
        /\ UNCHANGED <<cv, seat, mode, created, runs>>
    BY Parts DEF UpsertVote, RoomOK, PeopleOK, room, people, ranking
  <1> QED BY <1>1, <1>7, <1>8, <1>9, Parts DEF IInv

-----------------------------------------------------------------------------
(* The theorems. *)

LEMMA Initially == Init => IInv
  <1> SUFFICES ASSUME Init PROVE IInv
    OBVIOUS
  <1>1. RoomOK
    BY DEF Init, RoomOK, Statuses
  <1>2. PeopleOK
    BY DEF Init, PeopleOK, Answers, Answer
  <1>3. created \in 0 .. MaxRuns /\ created = 0
    BY DecisionBounds DEF Init
  <1>4. RunsOK(runs, created, cv)
    <2> HIDE DEF NoRun
    <2>1. \A r \in Runs : r > 0 /\ ~(r <= 0)
      BY DEF Runs
    <2> QED BY <1>3, <2>1, NoRunType DEF Init, RunsOK, IsFresh
  <1>5. VotesOK(votes, seat, runs)
    <2>1. VotedOn(NoVotes) = {}
      BY DEF VotedOn, NoVotes
    <2>2. NoVotes \in Ballots
      BY DEF NoVotes, Ballots
    <2> QED BY <2>1, <2>2 DEF Init, VotesOK, NoVotes
  <1>6. Carried(decision)
    BY NoDecisionOK DEF Init
  <1>7. RequestsOK(reqs, runs, created, seat)
    <2>1. Blank \in Request /\ Blank.op = "idle" /\ RequestOK(Blank, runs, created, seat)
      BY BlankOK
    <2> HIDE DEF Blank
    <2> QED BY <2>1 DEF Init, RequestsOK
  <1> QED BY <1>1, <1>2, <1>3, <1>4, <1>5, <1>6, <1>7 DEF IInv

LEMMA RequestActionKeeps ==
    ASSUME IInv, NEW q \in Requests,
           Complete(q) \/ Abandon(q) \/ Generating(q) \/ Deciding(q)
    PROVE  IInv'
  <1>1. CASE Complete(q) \/ Abandon(q)
    BY <1>1, CompleteKeeps, AbandonKeeps
  <1>2. CASE Generating(q)
    BY <1>2, RequestGenerateKeeps, CreateRunKeeps, PersistScoresKeeps, EndRunKeeps
       DEF Generating
  <1>3. CASE Deciding(q)
    BY <1>3, RequestVoteKeeps, UpsertVoteKeeps, SeeMatchKeeps, RequestFinalizeKeeps, ClaimKeeps
       DEF Deciding
  <1> QED BY <1>1, <1>2, <1>3

LEMMA StepKeeps == IInv /\ [Next]_vars => IInv'
  <1> SUFFICES ASSUME IInv, [Next]_vars PROVE IInv'
    OBVIOUS
  <1>1. ASSUME NEW m \in Members, Join(m) \/ RemoveMember(m) \/ Save(m) PROVE IInv'
    BY <1>1, JoinKeeps, SaveKeeps
  <1>2. ASSUME NEW to \in Statuses, NEW ack \in {"no", "yes"}, Transition(to, ack) PROVE IInv'
    BY <1>2, TransitionKeeps
  <1>3. CASE EditConstraints
    BY <1>3, EditConstraintsKeeps
  <1>4. ASSUME NEW q \in Requests, NEW m \in Members, RequestComplete(q, m) PROVE IInv'
    BY <1>4, RequestCompleteKeeps
  <1>5. ASSUME NEW q \in Requests, Complete(q) \/ Abandon(q) \/ Generating(q) \/ Deciding(q)
        PROVE  IInv'
    BY <1>5, RequestActionKeeps
  <1>6. CASE UNCHANGED vars
    BY <1>6 DEF vars, room, people, ranking, IInv, RoomOK, PeopleOK
  <1> QED BY <1>1, <1>2, <1>3, <1>4, <1>5, <1>6 DEF Next

(* The inductive invariant of a room's decision: what each request in       *)
(* flight knows, against the runs, the seats and the votes.                 *)
THEOREM Invariance == Spec => []IInv
  BY Initially, StepKeeps, PTL DEF Spec

(* Every variable keeps its type, runs are created in order, whoever never  *)
(* had a seat has not voted, and every vote is on a place that some run     *)
(* suggested, whatever generates and votes are in flight.                   *)
THEOREM TypeCorrect == Spec => []TypeOK
  <1>1. IInv => TypeOK
    <2> SUFFICES ASSUME IInv PROVE TypeOK
      OBVIOUS
    <2>1. \A p \in VotedOn(votes) : \E r \in Runs : p \in Range(runs[r].ranked)
      BY Parts DEF VotesOK, Suggested
    <2> QED BY <2>1, Parts
            DEF TypeOK, RoomOK, PeopleOK, RunsOK, VotesOK, Carried, RequestsOK
  <1> QED BY <1>1, Invariance, PTL

(* Scores that count as fresh are of the constraints the room has now, for  *)
(* any number of generates and edits racing each other (persistScores,      *)
(* applyConstraintVersion).                                                 *)
THEOREM ConstraintsFresh == Spec => []FreshOfConstraints
  <1>1. IInv => FreshOfConstraints
    BY Parts DEF RunsOK, FreshOfConstraints, Fresh, IsFresh, HasScores
  <1> QED BY <1>1, Invariance, PTL

(* Of all the runs of a room at most one has fresh scores (persistScores).  *)
THEOREM RankingUnique == Spec => []OneFreshRanking
  <1>1. IInv => OneFreshRanking
    BY Parts DEF RunsOK, OneFreshRanking, Fresh, IsFresh, HasScores
  <1> QED BY <1>1, Invariance, PTL

(* A match room that decides itself gives at least two people the place     *)
(* they want, for any members, joins, removals and runs between the votes   *)
(* (the count that vote takes before it looks for a match, and the quorum   *)
(* of generate).                                                            *)
THEOREM MatchTakesTwo == Spec => []MatchIsMutual
  <1>1. IInv => MatchIsMutual
    BY Parts DEF Carried, MatchIsMutual
  <1> QED BY <1>1, Invariance, PTL
===============================================================================
