---------------------------- MODULE RoomDecision ----------------------------
(***************************************************************************)
(* How a room gets from answers to a winner: the host has a ranking        *)
(* generated, members vote on it, and either the host finalizes or a match *)
(* room decides itself.  Models SuggestionService.generate, vote and       *)
(* finalize, SuggestionsRepository, the decision rules of decision.ts, and *)
(* what PreferencesService and RoomsRepository do to scores.               *)
(*                                                                         *)
(* Generating reads a snapshot, creates a run, computes, persists the      *)
(* scores in a transaction on the locked room row and finishes the run: a  *)
(* step each, and anything may happen between them.  A vote is a check, a  *)
(* write and, in a match room, a look at all votes.  Which places are      *)
(* ranked, and in which order, is any choice of the engine.                *)
(***************************************************************************)
EXTENDS RoomState, FiniteSets, Sequences, Functions

CONSTANTS
    Members,         \* membership rows the room may come to have
    Host,            \* the row of the host
    Places,          \* places that may be suggested
    NoPlace,         \* no place picked, or none decided yet
    Modes,           \* the decision modes looked at, of "match", "vote" and "host"
    Values,          \* the vote values looked at, of "no", "yes" and "star"
    Requests,        \* requests in flight at the same time
    MaxRuns,         \* bound on the suggestion runs of the room
    MaxConstraints,  \* bound on the versions of the room's constraints
    MaxVersion       \* bound on the saves of one member's answers

ASSUME DecisionPeople == Host \in Members /\ IsFiniteSet(Members) /\ IsFiniteSet(Places)
ASSUME DecisionModes == Modes \subseteq {"match", "vote", "host"} /\ NoPlace \notin Places
ASSUME DecisionValues == Values \subseteq {"no", "yes", "star"}
ASSUME DecisionBounds == MaxRuns \in Nat /\ MaxConstraints \in Nat /\ MaxVersion \in Nat

VARIABLES
    mode,       \* rooms.decision_mode, which createRoom sets for good
    status,     \* rooms.status
    cv,         \* rooms.constraint_version
    seat,       \* room_members: not there, active, or removed
    answer,     \* selection_status, and the version of the answers, by member
    created,    \* how many suggestion runs there are; run r is the r-th created
    runs,       \* suggestion_runs and candidate_scores, by run
    votes,      \* votes, by member and place
    decision,   \* the last decision, and who wanted its winner when it was taken
    reqs        \* the requests in flight

room    == <<mode, status, cv>>
people  == <<seat, answer>>
ranking == <<created, runs>>
vars    == <<room, people, ranking, votes, decision, reqs>>

Runs == 1 .. MaxRuns
Answer == [sel : {"absent", "pending", "in_progress", "completed"}, version : Nat]
NoAnswer == [sel |-> "absent", version |-> 0]
Answers == [Members -> Answer]
Rankings == {r \in UNION {[1 .. n -> Places] : n \in 0 .. Cardinality(Places)} : IsInjective(r)}
Ballots == [Members -> [Places -> {"none", "no", "yes", "star"}]]

Run == [state : {"none", "running", "succeeded", "failed"}, cv : Nat, inputs : Answers,
        ranked : Rankings, stale : {"no", "yes"}]
NoRun == [state |-> "none", cv |-> 0, inputs |-> [m \in Members |-> NoAnswer],
          ranked |-> << >>, stale |-> "no"]

Decision == [how : {"none", "finalized", "matched"}, winner : Places \cup {NoPlace},
             wanting : SUBSET Members]

Ops == {"idle", "complete", "snapshot", "running", "persisted", "vote", "voted", "decide"}
Request == [op : Ops, member : Members, draft : {"no", "yes"}, place : Places \cup {NoPlace},
            run : 0 .. MaxRuns, cv : Nat, inputs : Answers, decides : Decision]
NoVotes == [m \in Members |-> [p \in Places |-> "none"]]
NoDecision == [how |-> "none", winner |-> NoPlace, wanting |-> {}]
Blank == [op |-> "idle", member |-> Host, draft |-> "no", place |-> NoPlace, run |-> 0,
          cv |-> 0, inputs |-> [m \in Members |-> NoAnswer], decides |-> NoDecision]

Seated == {m \in Members : seat[m] = "active"}
Completed == {m \in Seated : answer[m].sel = "completed"}

(* preferenceRevision: the members and where each one's answers stand. *)
Revision == [m \in Members |-> IF m \in Seated THEN answer[m] ELSE NoAnswer]

(* The scores of a run that has any. *)
Fresh(r) == runs[r].ranked # << >> /\ runs[r].stale = "no"
Outdated(r) == runs[r].ranked # << >> /\ runs[r].stale = "yes"

MarkStale == [r \in Runs |-> [runs[r] EXCEPT !.stale = "yes"]]

Ask(q, request) ==
    /\ reqs[q].op = "idle"
    /\ reqs' = [reqs EXCEPT ![q] = request]
    /\ UNCHANGED <<room, people, ranking, votes, decision>>

Close(q) == reqs' = [reqs EXCEPT ![q] = Blank]

(* A refusal, a failure or a crash: what was committed stays. *)
Abandon(q) ==
    /\ reqs[q].op # "idle"
    /\ Close(q)
    /\ UNCHANGED <<room, people, ranking, votes, decision>>
-----------------------------------------------------------------------------
(* The room and its members; RoomMembership has their requests in full. *)

Join(m) ==
    /\ seat[m] = "absent"
    /\ status \in Joinable
    /\ seat' = [seat EXCEPT ![m] = "active"]
    /\ UNCHANGED <<room, answer, ranking, votes, decision, reqs>>

(* removeMember: the row is kept, and so are its votes. *)
RemoveMember(m) ==
    /\ m # Host
    /\ seat[m] = "active"
    /\ seat' = [seat EXCEPT ![m] = "removed"]
    /\ UNCHANGED <<room, answer, ranking, votes, decision, reqs>>

(* updateStatus *)
Transition(to, ack) ==
    /\ CanTransition(status, to)
    /\ to = "matching" =>
           MatchingReady(Cardinality(Completed), Cardinality(Seated \ Completed),
                         ack = "yes" \/ status = "matching")
    /\ status' = to
    /\ UNCHANGED <<mode, cv, people, ranking, votes, decision, reqs>>

(* applyConstraintVersion *)
EditConstraints ==
    /\ status \in Planning
    /\ cv < MaxConstraints
    /\ cv' = cv + 1
    /\ runs' = MarkStale
    /\ UNCHANGED <<mode, status, people, created, votes, decision, reqs>>

(* saveMine: back to a draft; in a matching room completed answers that      *)
(* change make the scores stale.                                             *)
Save(m) ==
    /\ m \in Seated
    /\ status \in AnswersOpen
    /\ answer[m].version < MaxVersion
    /\ answer' = [answer EXCEPT ![m] = [sel |-> "in_progress", version |-> @.version + 1]]
    /\ runs' = IF status = "matching" /\ answer[m].sel = "completed" THEN MarkStale ELSE runs
    /\ UNCHANGED <<room, seat, created, votes, decision, reqs>>

(* completeMine before its transaction: it keeps the draft flag it reads. *)
RequestComplete(q, m) ==
    /\ m \in Seated
    /\ status \in AnswersOpen
    /\ answer[m].version > 0
    /\ Ask(q, [Blank EXCEPT !.op = "complete", !.member = m,
                            !.draft = IF answer[m].sel = "completed" THEN "no" ELSE "yes"])

(* completeMine's transaction *)
Complete(q) ==
    LET m == reqs[q].member
    IN  /\ reqs[q].op = "complete"
        /\ status \in AnswersOpen
        /\ answer' = [answer EXCEPT ![m].sel = "completed"]
        /\ runs' = IF status = "matching" /\ reqs[q].draft = "yes" THEN MarkStale ELSE runs
        /\ status' = IF /\ Seated \subseteq Completed \cup {m}
                        /\ Cardinality(Seated) >= 2
                        /\ status \in Joinable
                     THEN "matching" ELSE status
        /\ Close(q)
        /\ UNCHANGED <<mode, cv, seat, created, votes, decision>>
-----------------------------------------------------------------------------
(* Generating a ranking. *)

(* generate up to its snapshot *)
RequestGenerate(q) ==
    /\ status \in {"matching", "collecting"}
    /\ Cardinality(Completed) >= 2
    /\ status = "collecting" => Completed = Seated
    /\ Ask(q, [Blank EXCEPT !.op = "snapshot", !.cv = cv, !.inputs = Revision])

CreateRun(q) ==
    /\ reqs[q].op = "snapshot"
    /\ created < MaxRuns
    /\ created' = created + 1
    /\ runs' = [runs EXCEPT ![created + 1] =
                   [NoRun EXCEPT !.state = "running", !.cv = reqs[q].cv, !.inputs = reqs[q].inputs]]
    /\ reqs' = [reqs EXCEPT ![q].op = "running", ![q].run = created + 1]
    /\ UNCHANGED <<room, people, votes, decision>>

(* A transaction that does not look at the constraints again. *)
InputsUnchecked(q) == status \in {"matching", "collecting"} /\ Revision = reqs[q].inputs

(* persistScores' check under the room lock *)
InputsUnchanged(q) ==
    /\ status \in {"matching", "collecting"}
    /\ cv = reqs[q].cv
    /\ Revision = reqs[q].inputs

(* Scores inserted next to those already there. *)
LandedBeside(r, ranked) == [runs EXCEPT ![r].ranked = ranked, ![r].stale = "no"]

(* persistScores' writes: every score of the room goes stale, then these land. *)
Landed(r, ranked) == [MarkStale EXCEPT ![r].ranked = ranked, ![r].stale = "no"]

PersistScores(q, ranked) ==
    /\ reqs[q].op = "running"
    /\ InputsUnchanged(q)
    /\ runs' = Landed(reqs[q].run, ranked)
    /\ reqs' = [reqs EXCEPT ![q].op = "persisted"]
    /\ UNCHANGED <<room, people, created, votes, decision>>

FinishRun(q) ==
    /\ reqs[q].op = "persisted"
    /\ runs' = [runs EXCEPT ![reqs[q].run].state = "succeeded"]
    /\ Close(q)
    /\ UNCHANGED <<room, people, created, votes, decision>>

(* generate's catch: the ranking, the check or finishRun itself failed. *)
FailRun(q) ==
    /\ reqs[q].op \in {"running", "persisted"}
    /\ runs' = [runs EXCEPT ![reqs[q].run].state = "failed"]
    /\ Close(q)
    /\ UNCHANGED <<room, people, created, votes, decision>>

(* latestRun: by creation, not by when it finished; 0 when there is none. *)
Succeeded == {r \in Runs : runs[r].state = "succeeded"}
LatestRun == IF Succeeded = {} THEN 0 ELSE CHOOSE r \in Succeeded : \A s \in Succeeded : s <= r
-----------------------------------------------------------------------------
(* Voting and deciding. *)

(* The order of places in a ranking; those it lacks come last, together. *)
RankIn(ranked, p) ==
    IF p \in Range(ranked) THEN CHOOSE n \in DOMAIN ranked : ranked[n] = p
                           ELSE Cardinality(Places) + 1
BestRanked(S, ranked) == {p \in S : \A o \in S : RankIn(ranked, p) <= RankIn(ranked, o)}

(* tallyVotes: every place someone voted on, with its points. *)
VotedOn(ballots) == {p \in Places : \E m \in Members : ballots[m][p] # "none"}
Points(ballots, p) ==
    Cardinality({m \in Members : ballots[m][p] = "yes"})
      + 2 * Cardinality({m \in Members : ballots[m][p] = "star"})
Leaders(ballots) ==
    {p \in VotedOn(ballots) : \A o \in VotedOn(ballots) : Points(ballots, o) <= Points(ballots, p)}

(* Those who have voted on anything, and what they are for. *)
VotersIn(ballots) == {m \in Members : \E p \in Places : ballots[m][p] # "none"}
Wants(ballots, m, p) == ballots[m][p] \in {"yes", "star"}
Wanting(ballots, p) == {m \in Members : Wants(ballots, m, p)}

(* coupleMatches *)
Matches == {p \in VotedOn(votes) : \A m \in VotersIn(votes) : Wants(votes, m, p)}

(* A current candidate: in the latest ranking, which is not stale. *)
IsCandidate(p) ==
    /\ LatestRun # 0
    /\ Fresh(LatestRun)
    /\ p \in Range(runs[LatestRun].ranked)

(* vote up to its write *)
RequestVote(q, m, p) ==
    /\ m \in Seated
    /\ status = "matching"
    /\ IsCandidate(p)
    /\ Ask(q, [Blank EXCEPT !.op = "vote", !.member = m, !.place = p, !.run = LatestRun])

(* upsertVote; only a match room goes on to look for a match. *)
UpsertVote(q, value) ==
    /\ reqs[q].op = "vote"
    /\ votes' = [votes EXCEPT ![reqs[q].member][reqs[q].place] = value]
    /\ reqs' = [reqs EXCEPT ![q] = IF mode = "match" THEN [@ EXCEPT !.op = "voted"] ELSE Blank]
    /\ UNCHANGED <<room, people, ranking, decision>>

Decide(q, how, winner) ==
    reqs' = [reqs EXCEPT ![q] = [Blank EXCEPT !.op = "decide",
                !.decides = [how |-> how, winner |-> winner,
                             wanting |-> Wanting(votes, winner)]]]

(* A vote that looks for matches alone. *)
AnyoneVoted(q) == TRUE

(* As many voters as the run's snapshot has members; removed ones count, and *)
(* who came later is not asked for.                                          *)
EnoughVoted(q) ==
    Cardinality(VotersIn(votes)) >=
        Cardinality({m \in Members : runs[reqs[q].run].inputs[m].sel # "absent"})

(* The rest of vote in a match room: a place that all who voted want. *)
SeeMatch(q, winner) ==
    /\ reqs[q].op = "voted"
    /\ EnoughVoted(q)
    /\ winner \in BestRanked(Matches, runs[reqs[q].run].ranked)
    /\ Decide(q, "matched", winner)
    /\ UNCHANGED <<room, people, ranking, votes, decision>>

(* An explicit place: the host's choice in a host room, elsewhere a tie-break. *)
MayPick(pick) ==
    mode # "host" => Cardinality(Leaders(votes)) > 1 /\ pick \in Leaders(votes)

(* finalize up to buildAroundWinner *)
RequestFinalize(q, pick, winner) ==
    /\ reqs[q].op = "idle"
    /\ status = "matching"
    /\ LatestRun # 0
    /\ ~ Outdated(LatestRun)
    /\ runs[LatestRun].cv = cv
    /\ \/ /\ pick \in Range(runs[LatestRun].ranked)
          /\ MayPick(pick)
          /\ winner = pick
       \/ /\ pick = NoPlace
          /\ winner \in BestRanked(Leaders(votes), runs[LatestRun].ranked)
    /\ Decide(q, "finalized", winner)
    /\ UNCHANGED <<room, people, ranking, votes, decision>>

(* buildAroundWinner's claim; the plan it writes is PlanVersions'. *)
Claim(q) ==
    /\ reqs[q].op = "decide"
    /\ status = "matching"
    /\ status' = "ready"
    /\ decision' = reqs[q].decides
    /\ Close(q)
    /\ UNCHANGED <<mode, cv, people, ranking, votes>>
-----------------------------------------------------------------------------
Init ==
    /\ mode \in Modes
    /\ status = "collecting"
    /\ cv = 1
    /\ seat = [m \in Members |-> IF m = Host THEN "active" ELSE "absent"]
    /\ answer = [m \in Members |-> [sel |-> "pending", version |-> 0]]
    /\ created = 0
    /\ runs = [r \in Runs |-> NoRun]
    /\ votes = NoVotes
    /\ decision = NoDecision
    /\ reqs = [q \in Requests |-> Blank]

Generating(q) ==
    \/ RequestGenerate(q)
    \/ CreateRun(q)
    \/ \E ranked \in Rankings : PersistScores(q, ranked)
    \/ FinishRun(q)
    \/ FailRun(q)

Deciding(q) ==
    \/ \E m \in Members, p \in Places : RequestVote(q, m, p)
    \/ \E value \in Values : UpsertVote(q, value)
    \/ \E winner \in Places : SeeMatch(q, winner)
    \/ \E pick \in Places \cup {NoPlace}, winner \in Places : RequestFinalize(q, pick, winner)
    \/ Claim(q)

Next ==
    \/ \E m \in Members : Join(m) \/ RemoveMember(m) \/ Save(m)
    \/ \E to \in Statuses, ack \in {"no", "yes"} : Transition(to, ack)
    \/ EditConstraints
    \/ \E q \in Requests, m \in Members : RequestComplete(q, m)
    \/ \E q \in Requests : Complete(q) \/ Abandon(q) \/ Generating(q) \/ Deciding(q)

Spec == Init /\ [][Next]_vars
-----------------------------------------------------------------------------
(* Every variable holds a value of its column's type, runs are created in     *)
(* order, people who have never had a seat have not voted, and nobody has     *)
(* voted on a place that no run suggested.                                     *)
TypeOK ==
    /\ mode \in Modes
    /\ status \in Statuses
    /\ cv \in Nat
    /\ seat \in [Members -> {"absent", "active", "removed"}]
    /\ answer \in Answers
    /\ created \in 0 .. MaxRuns
    /\ runs \in [Runs -> Run]
    /\ votes \in Ballots
    /\ decision \in Decision
    /\ reqs \in [Requests -> Request]
    /\ \A r \in Runs : runs[r].state = "none" <=> r > created
    /\ \A m \in Members : seat[m] = "absent" => votes[m] = [p \in Places |-> "none"]
    /\ \A p \in VotedOn(votes) : \E r \in Runs : p \in Range(runs[r].ranked)

(* Scores that are not stale were computed from the room's constraints of      *)
(* now, whatever edits raced the ranking (persistScores,                       *)
(* applyConstraintVersion).                                                    *)
FreshOfConstraints == \A r \in Runs : Fresh(r) => runs[r].cv = cv

(* The room never has two rankings that both count as current, however many    *)
(* generates run at once (persistScores).                                      *)
OneFreshRanking == \A r, s \in Runs : Fresh(r) /\ Fresh(s) => r = s

(* A match room never decides itself on one person's wish: at least two       *)
(* different people want the place, whoever was removed, joined or ranked      *)
(* anew since their votes (vote, and the quorum of generate).                  *)
MatchIsMutual == decision.how = "matched" => Cardinality(decision.wanting) >= 2

=============================================================================
