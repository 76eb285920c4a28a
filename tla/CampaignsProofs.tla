---------------------------- MODULE CampaignsProofs ----------------------------
(***************************************************************************)
(* Theorems about push campaigns (Campaigns), for any operators, workers,  *)
(* accounts and devices and any number of dispatches, edits and crashes.   *)
(*                                                                         *)
(* The write of a schedule does not look at the status again, so it may    *)
(* take the row from a dispatch that was scheduled since its read.         *)
(* overtaken records when it does, and the invariant says what holds until *)
(* then (SendersOK) and what holds whatever happens (KeysOK): a key leaves *)
(* the row only by a cancel or by such a schedule, and a new one is minted *)
(* only for a row that has none or in such a schedule.                     *)
(***************************************************************************)
EXTENDS Campaigns, TLAPS

(* The recipient at hand has its row. *)
AtHand(j, rs) == j.at \in {"read", "push", "mark"} =>
    \E u \in Recipients : j.one = {u} /\ <<j.key, u>> \in rs

IsSending(j) == j.at \notin {"idle", "test"}
JobOK(j, rs) == j \in Job /\ (IsSending(j) => j.key \in Keys) /\ AtHand(j, rs)

Basics ==
    /\ campaign \in Campaign /\ minted \in 0 .. MaxKeys
    /\ previews \in {"no", "yes"} /\ cancelled \subseteq Keys /\ overtaken \subseteq Keys
    /\ desk \in [Admins -> Call] /\ crashes \in 0 .. MaxCrashes
    /\ message \in [Keys \X Recipients -> 0 .. MaxTexts]
    /\ rows \subseteq Keys \X Recipients /\ sentAt \subseteq rows
    /\ job \in [Workers -> Job] /\ \A w \in Workers : JobOK(job[w], rows)
    /\ campaign.status = "scheduled" => campaign.key # 0

(* A schedule in flight has read a row that could be scheduled. *)
CallsOK == \A m \in Admins : desk[m].op = "schedule" =>
    desk[m].status \in Schedulable /\ desk[m].key <= minted

(* Whoever sends has the row, alone, and under its key. *)
SendersOK == overtaken = {} =>
    /\ \A w \in Workers : IsSending(job[w]) =>
          campaign.status = "sending" /\ job[w].key = campaign.key
    /\ \A v, w \in Workers : IsSending(job[v]) /\ IsSending(job[w]) => v = w

(* The keys: the last one minted is the campaign's or has lost it, all       *)
(* others have lost it, and nothing is sent under one to come.               *)
KeysOK ==
    /\ campaign.key <= minted
    /\ campaign.status \in {"draft", "cancelled"} => campaign.key = 0
    /\ \A k \in 1 .. minted : k \in cancelled \cup overtaken \/ (k = campaign.key /\ k = minted)
    /\ \A w \in Workers : IsSending(job[w]) => job[w].key <= minted
    /\ \A k \in Keys, u \in Recipients : message[<<k, u>>] # 0 => k <= minted

IInv == Basics /\ CallsOK /\ SendersOK /\ KeysOK

-----------------------------------------------------------------------------
(* The turn of a worker: its job becomes x, rows and pushes may be added.   *)
Turn(w, x) ==
    /\ job' = [job EXCEPT ![w] = x] /\ JobOK(x, rows')
    /\ rows \subseteq rows' /\ rows' \subseteq Keys \X Recipients /\ sentAt' \subseteq rows'
    /\ message' \in [Keys \X Recipients -> 0 .. MaxTexts]
    /\ \A k \in Keys, u \in Recipients : message'[<<k, u>>] # 0 =>
          message[<<k, u>>] # 0 \/ (IsSending(job[w]) /\ k = job[w].key)
    /\ previews' \in {"no", "yes"} /\ crashes' \in 0 .. MaxCrashes
    /\ UNCHANGED <<minted, past, desk>>

(* It goes on with the campaign it has, or has none. *)
Continues(w, x) == IsSending(x) => IsSending(job[w]) /\ x.key = job[w].key

LEMMA TurnBasics ==
    ASSUME Basics, NEW w \in Workers, NEW x, Turn(w, x), campaign' \in Campaign,
           campaign'.status = "scheduled" => campaign'.key # 0
    PROVE  Basics'
  <1>1. job \in [Workers -> Job] /\ x \in Job
    BY DEF Basics, Turn, JobOK
  <1>2. /\ job' \in [Workers -> Job] /\ job'[w] = x
        /\ \A v \in Workers : v # w => job'[v] = job[v]
    BY <1>1 DEF Turn
  <1>3. ASSUME NEW v \in Workers PROVE JobOK(job'[v], rows')
    <2>1. CASE v = w
      BY <1>2, <2>1 DEF Turn
    <2>2. CASE v # w
      BY <1>2, <2>2 DEF Turn, Basics, JobOK, AtHand
    <2> QED BY <2>1, <2>2
  <1> QED BY <1>2, <1>3 DEF Basics, Turn, past

LEMMA TurnSenders ==
    ASSUME Basics, SendersOK, NEW w \in Workers, NEW x, Turn(w, x), Continues(w, x),
           campaign'.status = campaign.status, campaign'.key = campaign.key
    PROVE  SendersOK'
  <1>1. /\ job'[w] = x /\ \A v \in Workers : v # w => job'[v] = job[v]
    BY DEF Basics, Turn
  <1>2. ASSUME NEW v \in Workers, IsSending(job'[v])
        PROVE  IsSending(job[v]) /\ job'[v].key = job[v].key
    <2>1. CASE v = w
      BY <1>1, <1>2, <2>1 DEF Continues
    <2>2. CASE v # w
      BY <1>1, <1>2, <2>2
    <2> QED BY <2>1, <2>2
  <1> QED BY <1>2 DEF SendersOK, Turn, past

(* A turn sends under the keys that are known: the row's, or the worker's. *)
LEMMA TurnKeys ==
    ASSUME Basics, KeysOK, NEW w \in Workers, NEW x, Turn(w, x),
           campaign'.key = campaign.key,
           campaign'.status \in {"draft", "cancelled"} => campaign'.status = campaign.status,
           IsSending(x) => x.key = campaign.key \/ (IsSending(job[w]) /\ x.key = job[w].key)
    PROVE  KeysOK'
  <1>1. UNCHANGED <<minted, cancelled, overtaken>>
    BY DEF Turn, past
  <1>2. job'[w] = x /\ \A v \in Workers : v # w => job'[v] = job[v]
    BY DEF Basics, Turn
  <1>3. \A v \in Workers : IsSending(job'[v]) => job'[v].key <= minted
    <2> SUFFICES ASSUME NEW v \in Workers, IsSending(job'[v]) PROVE job'[v].key <= minted
      OBVIOUS
    <2>1. CASE v = w
      BY <1>2, <2>1 DEF KeysOK
    <2>2. CASE v # w
      BY <1>2, <2>2 DEF KeysOK
    <2> QED BY <2>1, <2>2
  <1>4. \A k \in Keys, u \in Recipients : message'[<<k, u>>] # 0 => k <= minted
    <2> SUFFICES ASSUME NEW k \in Keys, NEW u \in Recipients, message'[<<k, u>>] # 0
                 PROVE  k <= minted
      OBVIOUS
    <2>1. CASE message[<<k, u>>] # 0
      BY <2>1 DEF KeysOK
    <2>2. CASE IsSending(job[w]) /\ k = job[w].key
      BY <2>2 DEF KeysOK
    <2> QED BY <2>1, <2>2 DEF Turn
  <1> QED BY <1>1, <1>3, <1>4 DEF KeysOK

LEMMA WorkerFacts ==
    ASSUME Basics, NEW w \in Workers
    PROVE  /\ job[w] \in Job /\ JobOK(job[w], rows)
           /\ campaign \in Campaign /\ (campaign.status = "scheduled" => campaign.key # 0)
  BY DEF Basics

(* The recipient at hand. *)
LEMMA MeIsAtHand ==
    ASSUME Basics, NEW w \in Workers, job[w].at \in {"read", "push", "mark"}
    PROVE  Key(w, Me(w)) \in rows
  <1>1. PICK u \in Recipients : job[w].one = {u} /\ <<job[w].key, u>> \in rows
    BY WorkerFacts DEF JobOK, AtHand
  <1>2. Me(w) = u
    <2>1. \E v \in job[w].one : TRUE
      BY <1>1
    <2>2. Me(w) \in job[w].one
      BY <2>1 DEF Me
    <2> QED BY <1>1, <2>2
  <1> QED BY <1>1, <1>2 DEF Key

LEMMA NoJobOK == \A rs : JobOK(NoJob, rs) /\ ~IsSending(NoJob)
  <1>1. NoJob \in Job /\ NoJob.at = "idle"
    BY CampaignBounds DEF NoJob, Job, Texts
  <1> QED BY <1>1 DEF JobOK, IsSending, AtHand

(* A job whose place, audience or reach changes. *)
LEMMA JobGoes ==
    ASSUME NEW rs, NEW j, JobOK(j, rs), IsSending(j), NEW x \in Job, x.key = j.key,
           \/ x.at \notin {"read", "push", "mark"}
           \/ x.one = j.one /\ j.at \in {"read", "push", "mark"}
    PROVE  JobOK(x, rs)
  BY DEF JobOK, AtHand

Placed(j, at) == [j EXCEPT !.at = at]
Nexted(j, r) == [j EXCEPT !.at = j.half, !.one = {}, !.reached = r]

LEMMA PlacedJob ==
    ASSUME NEW j \in Job,
           NEW at \in {"idle", "resolve", "accounts", "devices", "read", "push", "mark", "error",
                       "test"}
    PROVE  /\ Placed(j, at) \in Job /\ Placed(j, at).at = at /\ Placed(j, at).key = j.key
           /\ Placed(j, at).one = j.one
  BY DEF Placed, Job

LEMMA NextedJob ==
    ASSUME NEW j \in Job, NEW r \in {"no", "yes"}
    PROVE  /\ Nexted(j, r) \in Job /\ Nexted(j, r).at = j.half /\ Nexted(j, r).key = j.key
           /\ j.half \in {"accounts", "devices"}
  <1>1. j.half \in {"accounts", "devices"}
    BY DEF Job
  <1>2. Nexted(j, r) \in Job
    BY <1>1 DEF Nexted, Job
  <1> QED BY <1>1, <1>2 DEF Nexted, Job

(* A turn that leaves the campaign's row alone. *)
Quiet(w) == campaign' = campaign /\ \E x : Turn(w, x) /\ Continues(w, x)

(* A turn that touches the job alone. *)
LEMMA JobOnly ==
    ASSUME Basics, NEW w \in Workers, NEW x, job' = [job EXCEPT ![w] = x], JobOK(x, rows),
           Continues(w, x),
           UNCHANGED <<campaign, minted, delivery, previews, past, desk>>,
           crashes' \in 0 .. MaxCrashes
    PROVE  Quiet(w)
  <1>1. UNCHANGED <<rows, sentAt, message>>
    BY DEF delivery
  <1>2. Turn(w, x)
    BY <1>1 DEF Turn, Basics
  <1> QED BY <1>2 DEF Quiet

LEMMA CrashesStay ==
    ASSUME Basics PROVE crashes \in 0 .. MaxCrashes
  BY DEF Basics

LEMMA TurnGoto ==
    ASSUME Basics, NEW w \in Workers, IsSending(job[w]), NEW at \in {"devices", "push", "error"},
           Goto(w, at), at = "push" => job[w].at = "read",
           UNCHANGED <<campaign, minted, delivery, previews, past, desk, crashes>>
    PROVE  Quiet(w)
  <1> DEFINE x == Placed(job[w], at)
  <1>1. job' = [job EXCEPT ![w] = x]
    BY DEF Goto, Basics, Placed
  <1>2. x \in Job /\ x.at = at /\ x.key = job[w].key /\ x.one = job[w].one
    BY WorkerFacts, PlacedJob
  <1> HIDE DEF x
  <1>3. JobOK(x, rows)
    BY <1>2, WorkerFacts, JobGoes
  <1>4. Continues(w, x)
    BY <1>2 DEF Continues
  <1> QED BY <1>1, <1>3, <1>4, CrashesStay, JobOnly

(* The next recipient, with the reach of this run. *)
LEMMA TurnNext ==
    ASSUME Basics, NEW w \in Workers, IsSending(job[w]), NEW reached, Next1(w, reached)
    PROVE  \E x : /\ job' = [job EXCEPT ![w] = x] /\ JobOK(x, rows) /\ Continues(w, x)
  <1> DEFINE r == IF reached /\ job[w].half = "accounts" THEN "yes" ELSE job[w].reached
             x == Nexted(job[w], r)
  <1>1. job' = [job EXCEPT ![w] = x]
    BY DEF Next1, Basics, Nexted
  <1>2. r \in {"no", "yes"}
    BY WorkerFacts DEF Job
  <1> HIDE DEF r
  <1>3. /\ x \in Job /\ x.at = job[w].half /\ x.key = job[w].key
        /\ job[w].half \in {"accounts", "devices"}
    BY <1>2, WorkerFacts, NextedJob
  <1> HIDE DEF x
  <1>4. JobOK(x, rows)
    BY <1>3, WorkerFacts, JobGoes
  <1>5. Continues(w, x)
    BY <1>3 DEF Continues
  <1> QED BY <1>1, <1>4, <1>5

LEMMA TurnResolve ==
    ASSUME Basics, NEW w \in Workers, Resolve(w) PROVE Quiet(w)
  <1>1. IsSending(job[w])
    BY DEF Resolve, IsSending
  <1>2. PICK us \in SUBSET Accounts : job' = [job EXCEPT ![w].at = "accounts", ![w].todo = us]
    BY DEF Resolve
  <1> DEFINE x == [job[w] EXCEPT !.at = "accounts", !.todo = us]
  <1>3. x \in Job /\ x.at = "accounts" /\ x.key = job[w].key
    BY WorkerFacts DEF Job, Recipients
  <1>4. job' = [job EXCEPT ![w] = x]
    BY <1>2 DEF Basics
  <1> HIDE DEF x
  <1>5. JobOK(x, rows) /\ Continues(w, x)
    BY <1>1, <1>3, WorkerFacts, JobGoes DEF Continues
  <1> QED BY <1>4, <1>5, CrashesStay, JobOnly DEF Resolve

LEMMA TurnToDevices ==
    ASSUME Basics, NEW w \in Workers, ToDevices(w) PROVE Quiet(w)
  <1>1. IsSending(job[w])
    BY DEF ToDevices, IsSending
  <1>2. ASSUME NEW ds \in SUBSET Devices,
               job' = [job EXCEPT ![w].at = "devices", ![w].half = "devices", ![w].todo = ds]
        PROVE  Quiet(w)
    <2> DEFINE x == [job[w] EXCEPT !.at = "devices", !.half = "devices", !.todo = ds]
    <2>1. x \in Job /\ x.at = "devices" /\ x.key = job[w].key
      BY WorkerFacts DEF Job, Recipients
    <2>2. job' = [job EXCEPT ![w] = x]
      BY <1>2 DEF Basics
    <2> HIDE DEF x
    <2>3. JobOK(x, rows) /\ Continues(w, x)
      BY <1>1, <2>1, WorkerFacts, JobGoes DEF Continues
    <2> QED BY <2>2, <2>3, CrashesStay, JobOnly DEF ToDevices
  <1>3. CASE Goto(w, "devices")
    BY <1>1, <1>3, TurnGoto DEF ToDevices
  <1> QED BY <1>2, <1>3 DEF ToDevices

LEMMA TurnInsertRow ==
    ASSUME Basics, NEW w \in Workers, InsertRow(w) PROVE Quiet(w)
  <1>1. IsSending(job[w])
    BY DEF InsertRow, IsSending
  <1>2. PICK u \in job[w].todo :
           /\ rows' = rows \cup {Key(w, u)}
           /\ job' = [job EXCEPT ![w].at = "read", ![w].todo = @ \ {u}, ![w].one = {u}]
    BY DEF InsertRow
  <1>3. u \in Recipients /\ job[w].key \in Keys
    BY <1>1, WorkerFacts DEF Job, JobOK
  <1> DEFINE x == [job[w] EXCEPT !.at = "read", !.todo = job[w].todo \ {u}, !.one = {u}]
  <1>4. x \in Job /\ x.at = "read" /\ x.key = job[w].key /\ x.one = {u}
    BY <1>3, WorkerFacts DEF Job
  <1>5. job' = [job EXCEPT ![w] = x]
    BY <1>2 DEF Basics
  <1> HIDE DEF x
  <1>6. rows \subseteq rows' /\ <<job[w].key, u>> \in rows' /\ rows' \subseteq Keys \X Recipients
    BY <1>2, <1>3 DEF Key, Basics
  <1>7. JobOK(x, rows')
    BY <1>3, <1>4, <1>6 DEF JobOK, AtHand
  <1>8. Turn(w, x)
    BY <1>5, <1>6, <1>7 DEF InsertRow, Turn, Basics
  <1>9. Continues(w, x)
    BY <1>1, <1>4 DEF Continues
  <1> QED BY <1>8, <1>9 DEF Quiet, InsertRow

LEMMA TurnReadRow ==
    ASSUME Basics, NEW w \in Workers, ReadRow(w) PROVE Quiet(w)
  <1>1. IsSending(job[w]) /\ job[w].at = "read"
    BY DEF ReadRow, IsSending
  <1>2. CASE Goto(w, "push")
    BY <1>1, <1>2, TurnGoto DEF ReadRow
  <1>3. CASE Next1(w, TRUE)
    BY <1>1, <1>3, TurnNext, CrashesStay, JobOnly DEF ReadRow
  <1> QED BY <1>2, <1>3 DEF ReadRow

LEMMA TurnMark ==
    ASSUME Basics, NEW w \in Workers, Mark(w) PROVE Quiet(w)
  <1>1. IsSending(job[w]) /\ job[w].at = "mark"
    BY DEF Mark, IsSending
  <1>2. PICK x : /\ job' = [job EXCEPT ![w] = x] /\ JobOK(x, rows) /\ Continues(w, x)
    BY <1>1, TurnNext DEF Mark
  <1>3. sentAt' \subseteq rows
    BY <1>1, MeIsAtHand DEF Mark, Basics
  <1>4. Turn(w, x)
    BY <1>2, <1>3 DEF Mark, Turn, Basics
  <1> QED BY <1>2, <1>4 DEF Quiet, Mark

(* The provider accepts under the key of the campaign, or not at all. *)
LEMMA TurnPush ==
    ASSUME Basics, NEW w \in Workers, Push(w) PROVE Quiet(w)
  <1>1. /\ IsSending(job[w]) /\ job[w].at = "push"
        /\ UNCHANGED <<campaign, minted, rows, sentAt, previews, past, desk, crashes>>
    BY DEF Push, IsSending
  <1> DEFINE k == Key(w, Me(w))
  <1>2. CASE message' = message
    <2>1. CASE Next1(w, FALSE)
      <3>1. PICK x : job' = [job EXCEPT ![w] = x] /\ JobOK(x, rows) /\ Continues(w, x)
        BY <1>1, <2>1, TurnNext
      <3> QED BY <1>1, <1>2, <3>1, CrashesStay, JobOnly DEF delivery
    <2>2. CASE Goto(w, "error")
      BY <1>1, <1>2, <2>2, TurnGoto DEF delivery
    <2>3. CASE Goto(w, "mark")
      <3> DEFINE x == Placed(job[w], "mark")
      <3>1. job' = [job EXCEPT ![w] = x]
        BY <2>3 DEF Goto, Basics, Placed
      <3>2. x \in Job /\ x.at = "mark" /\ x.key = job[w].key /\ x.one = job[w].one
        BY WorkerFacts, PlacedJob
      <3> HIDE DEF x
      <3>3. JobOK(x, rows) /\ Continues(w, x)
        BY <1>1, <3>2, WorkerFacts, JobGoes DEF Continues
      <3> QED BY <1>1, <1>2, <3>1, <3>3, CrashesStay, JobOnly DEF delivery
    <2> QED BY <1>2, <2>1, <2>2, <2>3 DEF Push
  <1>3. ASSUME message' = [message EXCEPT ![k] = IF message[k] = 0 THEN job[w].text
                                                 ELSE message[k]],
               NEW at \in {"mark", "error"}, Goto(w, at)
        PROVE  Quiet(w)
    <2> DEFINE x == Placed(job[w], at)
    <2>1. job' = [job EXCEPT ![w] = x]
      BY <1>3 DEF Goto, Basics, Placed
    <2>2. x \in Job /\ x.at = at /\ x.key = job[w].key /\ x.one = job[w].one
      BY WorkerFacts, PlacedJob
    <2> HIDE DEF x
    <2>3. JobOK(x, rows) /\ Continues(w, x)
      BY <1>1, <2>2, WorkerFacts, JobGoes DEF Continues
    <2>4. k \in Keys \X Recipients /\ k = <<job[w].key, Me(w)>>
      BY <1>1, MeIsAtHand DEF Basics, Key
    <2>5. job[w].text \in 0 .. MaxTexts
      BY WorkerFacts, CampaignBounds DEF Job, Texts
    <2> HIDE DEF k
    <2>6. message \in [Keys \X Recipients -> 0 .. MaxTexts]
      BY DEF Basics
    <2>7. message' \in [Keys \X Recipients -> 0 .. MaxTexts]
      BY <1>3, <2>4, <2>5, <2>6
    <2>8. ASSUME NEW l \in Keys, NEW u \in Recipients, message'[<<l, u>>] # 0,
                 message[<<l, u>>] = 0
          PROVE  l = job[w].key
      <3>1. <<l, u>> = k
        BY <1>3, <2>6, <2>8
      <3> QED BY <2>4, <3>1
    <2>9. Turn(w, x)
      BY <1>1, <2>1, <2>3, <2>7, <2>8 DEF Turn, Basics
    <2> QED BY <1>1, <2>3, <2>9 DEF Quiet
  <1> QED BY <1>2, <1>3 DEF Push

LEMMA TurnEnds ==
    ASSUME Basics, NEW w \in Workers, Crash(w) \/ DeliverTest(w) PROVE Quiet(w)
  <1>1. job' = [job EXCEPT ![w] = NoJob] /\ JobOK(NoJob, rows) /\ Continues(w, NoJob)
    BY NoJobOK DEF Crash, DeliverTest, Continues
  <1>2. crashes' \in 0 .. MaxCrashes
    BY CampaignBounds DEF Basics, Crash, DeliverTest
  <1>3. CASE Crash(w)
    BY <1>1, <1>2, <1>3, JobOnly DEF Crash
  <1>4. CASE DeliverTest(w)
    <2>1. previews' \in {"no", "yes"}
      BY <1>4 DEF DeliverTest, Basics
    <2>2. Turn(w, NoJob)
      BY <1>1, <1>2, <1>4, <2>1 DEF DeliverTest, Turn, Basics, delivery
    <2> QED BY <1>1, <1>4, <2>2 DEF Quiet, DeliverTest
  <1> QED BY <1>3, <1>4


(* The row keeps its status and its key. *)
SameRow == /\ campaign' \in Campaign /\ campaign'.status = campaign.status
           /\ campaign'.key = campaign.key
Stays(w) == SameRow /\ \E x : Turn(w, x) /\ Continues(w, x)

LEMMA QuietStays ==
    ASSUME Basics, NEW w \in Workers, Quiet(w) PROVE Stays(w)
  BY DEF Quiet, Stays, SameRow, Basics

LEMMA TurnClaimTest ==
    ASSUME Basics, NEW w \in Workers, ClaimTest(w) PROVE Stays(w)
  <1> DEFINE x == Placed(job[w], "test")
  <1>1. job' = [job EXCEPT ![w] = x]
    BY DEF ClaimTest, Goto, Basics, Placed
  <1>2. x \in Job /\ x.at = "test"
    BY WorkerFacts, PlacedJob
  <1> HIDE DEF x
  <1>3. JobOK(x, rows) /\ ~IsSending(x)
    BY <1>2 DEF JobOK, IsSending, AtHand
  <1>4. UNCHANGED <<rows, sentAt, message>>
    BY DEF ClaimTest, delivery
  <1>5. Turn(w, x) /\ Continues(w, x)
    BY <1>1, <1>3, <1>4 DEF ClaimTest, Turn, Basics, Continues
  <1>6. SameRow
    BY WorkerFacts DEF ClaimTest, SameRow, Campaign
  <1> QED BY <1>5, <1>6 DEF Stays

LEMMA TurnSendError ==
    ASSUME Basics, NEW w \in Workers, SendError(w) PROVE Quiet(w)
  <1>1. IsSending(job[w]) /\ Goto(w, "error")
    BY DEF SendError, IsSending
  <1> QED BY <1>1, TurnGoto DEF SendError

(* The send ends: the row gets its outcome. *)
Ends(w) ==
    /\ IsSending(job[w]) /\ Turn(w, NoJob)
    /\ campaign' \in Campaign /\ campaign'.key = campaign.key
    /\ campaign'.status \in {"sent", "failed"}

LEMMA TurnOutcome ==
    ASSUME Basics, NEW w \in Workers, Finish(w) \/ Fail(w) PROVE Ends(w)
  <1>1. IsSending(job[w]) /\ job' = [job EXCEPT ![w] = NoJob]
    BY DEF Finish, Fail, IsSending
  <1>2. UNCHANGED <<rows, sentAt, message, minted, previews, past, desk, crashes>>
    BY DEF Finish, Fail, delivery
  <1>3. Turn(w, NoJob)
    BY <1>1, <1>2, NoJobOK DEF Turn, Basics
  <1>4. PICK s \in {"sent", "failed"} : campaign' = [campaign EXCEPT !.status = s]
    BY DEF Finish, Fail, Outcome
  <1>5. /\ campaign' \in Campaign /\ campaign'.key = campaign.key
        /\ campaign'.status \in {"sent", "failed"}
    BY <1>4, WorkerFacts DEF Campaign, Statuses
  <1> QED BY <1>1, <1>3, <1>5 DEF Ends

(* The claim: the row is sending, and so is the worker, under its key. *)
Claims(w) ==
    /\ campaign.status = "scheduled" /\ campaign'.status = "sending"
    /\ campaign' \in Campaign /\ campaign'.key = campaign.key
    /\ \E x : Turn(w, x) /\ x.key = campaign.key

LEMMA TurnClaim ==
    ASSUME Basics, NEW w \in Workers, Claim(w) PROVE Claims(w)
  <1>1. campaign.status = "scheduled" /\ campaign' = [campaign EXCEPT !.status = "sending"]
    BY DEF Claim
  <1>2. /\ campaign' \in Campaign /\ campaign'.key = campaign.key
        /\ campaign'.status = "sending"
    BY <1>1, WorkerFacts DEF Campaign, Statuses
  <1>3. campaign.key \in Keys /\ campaign.key \in 0 .. MaxKeys /\ campaign.text \in Texts
    BY <1>1, WorkerFacts, CampaignBounds DEF Campaign, Keys
  <1> DEFINE x == [NoJob EXCEPT !.at = "resolve", !.key = campaign.key,
                                !.text = campaign.text]
  <1>4. x \in Job /\ x.at = "resolve" /\ x.key = campaign.key
    BY <1>3 DEF NoJob, Job
  <1>5. job' = [job EXCEPT ![w] = x]
    BY DEF Claim
  <1> HIDE DEF x
  <1>6. JobOK(x, rows)
    BY <1>3, <1>4 DEF JobOK, AtHand
  <1>7. UNCHANGED <<rows, sentAt, message>>
    BY DEF Claim, delivery
  <1>8. Turn(w, x)
    BY <1>5, <1>6, <1>7 DEF Claim, Turn, Basics
  <1> QED BY <1>1, <1>2, <1>4, <1>8 DEF Claims

(* Every step of a worker is one of the three. *)
LEMMA WorkerSteps ==
    ASSUME Basics, NEW w \in Workers,
           Claim(w) \/ Send(w) \/ ClaimTest(w) \/ DeliverTest(w) \/ Crash(w)
    PROVE  Stays(w) \/ Ends(w) \/ Claims(w)
  BY TurnResolve, TurnInsertRow, TurnReadRow, TurnPush, TurnMark, TurnToDevices, TurnEnds,
     TurnSendError, QuietStays, TurnClaimTest, TurnOutcome, TurnClaim DEF Send

LEMMA CallsStay ==
    ASSUME CallsOK, UNCHANGED <<desk, minted>> PROVE CallsOK'
  BY DEF CallsOK

LEMMA StaysKeeps ==
    ASSUME IInv, NEW w \in Workers, Stays(w)
    PROVE  IInv'
  <1>1. PICK x : Turn(w, x) /\ Continues(w, x)
    BY DEF Stays
  <1>2. SameRow /\ UNCHANGED <<desk, minted>>
    BY <1>1 DEF Stays, Turn
  <1>3. Basics'
    BY <1>1, <1>2, TurnBasics, WorkerFacts DEF SameRow, IInv
  <1>4. SendersOK'
    BY <1>1, <1>2, TurnSenders DEF SameRow, IInv
  <1>5. KeysOK'
    BY <1>1, <1>2, TurnKeys DEF SameRow, IInv, Continues
  <1> QED BY <1>2, <1>3, <1>4, <1>5, CallsStay DEF IInv

LEMMA EndsKeeps ==
    ASSUME IInv, NEW w \in Workers, Ends(w)
    PROVE  IInv'
  <1>1. Basics'
    BY TurnBasics DEF Ends, IInv
  <1>2. job'[w] = NoJob /\ \A v \in Workers : v # w => job'[v] = job[v]
    BY DEF Ends, Turn, Basics, IInv
  <1>3. UNCHANGED <<desk, minted, overtaken>>
    BY DEF Ends, Turn, past
  <1>4. ASSUME overtaken = {}, NEW v \in Workers PROVE ~IsSending(job'[v])
    <2>1. CASE v = w
      BY <1>2, <2>1, NoJobOK
    <2>2. CASE v # w
      BY <1>2, <1>4, <2>2 DEF IInv, SendersOK, Ends
    <2> QED BY <2>1, <2>2
  <1>5. SendersOK'
    BY <1>3, <1>4 DEF SendersOK
  <1>6. KeysOK'
    BY NoJobOK, TurnKeys DEF Ends, IInv
  <1> QED BY <1>1, <1>3, <1>5, <1>6, CallsStay DEF IInv

LEMMA ClaimsKeeps ==
    ASSUME IInv, NEW w \in Workers, Claims(w)
    PROVE  IInv'
  <1>1. PICK x : Turn(w, x) /\ x.key = campaign.key
    BY DEF Claims
  <1>2. Basics'
    BY <1>1, TurnBasics DEF Claims, IInv
  <1>3. job'[w] = x /\ \A v \in Workers : v # w => job'[v] = job[v]
    BY <1>1 DEF Turn, Basics, IInv
  <1>4. UNCHANGED <<desk, minted, overtaken>>
    BY <1>1 DEF Turn, past
  <1>5. overtaken = {} => \A v \in Workers : ~IsSending(job[v])
    BY DEF IInv, SendersOK, Claims
  <1>6. SendersOK'
    BY <1>1, <1>3, <1>4, <1>5 DEF SendersOK, Claims
  <1>7. KeysOK'
    BY <1>1, TurnKeys DEF IInv, Claims
  <1> QED BY <1>2, <1>4, <1>6, <1>7, CallsStay DEF IInv


-----------------------------------------------------------------------------
(* The operators. *)

(* A step of an operator leaves the workers and the deliveries alone. *)
AtTheDesk(m, c) ==
    /\ desk' = [desk EXCEPT ![m] = c] /\ c \in Call
    /\ UNCHANGED <<rows, sentAt, message, previews, job, crashes>>

LEMMA DeskBasics ==
    ASSUME Basics, NEW m \in Admins, NEW c, AtTheDesk(m, c), campaign' \in Campaign,
           campaign'.status = "scheduled" => campaign'.key # 0,
           minted' \in 0 .. MaxKeys, cancelled' \subseteq Keys, overtaken' \subseteq Keys
    PROVE  Basics'
  BY DEF AtTheDesk, Basics

LEMMA NoCallOK == NoCall \in Call /\ NoCall.op = "idle"
  BY CampaignBounds DEF NoCall, Call, Statuses

LEMMA DeskFacts ==
    ASSUME Basics, NEW m \in Admins
    PROVE  /\ desk[m] \in Call /\ campaign \in Campaign /\ minted \in 0 .. MaxKeys
           /\ cancelled \subseteq Keys /\ overtaken \subseteq Keys
           /\ (campaign.status = "scheduled" => campaign.key # 0)
  BY DEF Basics

(* Whoever is left at the desk was there before. *)
LEMMA DeskOthers ==
    ASSUME Basics, NEW m \in Admins, NEW c, AtTheDesk(m, c)
    PROVE  desk'[m] = c /\ \A n \in Admins : n # m => desk'[n] = desk[n]
  BY DEF AtTheDesk, Basics

LEMMA DeskCalls ==
    ASSUME Basics, CallsOK, NEW m \in Admins, NEW c, AtTheDesk(m, c),
           minted' = minted \/ minted' = minted + 1,
           c.op = "schedule" => c.status \in Schedulable /\ c.key <= minted'
    PROVE  CallsOK'
  <1> SUFFICES ASSUME NEW n \in Admins, desk'[n].op = "schedule"
               PROVE  desk'[n].status \in Schedulable /\ desk'[n].key <= minted'
    BY DEF CallsOK
  <1>1. CASE n = m
    BY <1>1, DeskOthers
  <1>2. CASE n # m
    <2>1. desk'[n] = desk[n] /\ desk[n].key \in Nat /\ minted \in Nat
      BY <1>2, DeskOthers, CampaignBounds DEF Basics, Call
    <2> QED BY <2>1 DEF CallsOK
  <1> QED BY <1>1, <1>2

(* A call that leaves the status and the key of the row as they are. *)
LEMMA DeskKeeps ==
    ASSUME IInv, NEW m \in Admins, NEW c, AtTheDesk(m, c), SameRow,
           UNCHANGED <<minted, past>>,
           c.op = "schedule" => c.status \in Schedulable /\ c.key <= minted
    PROVE  IInv'
  <1>1. UNCHANGED <<cancelled, overtaken>> /\ UNCHANGED <<job, message>>
    BY DEF past, AtTheDesk
  <1>2. Basics'
    BY <1>1, DeskBasics, DeskFacts DEF SameRow, IInv
  <1>3. CallsOK'
    BY DeskCalls DEF IInv
  <1>4. SendersOK' /\ KeysOK'
    BY <1>1 DEF IInv, SendersOK, KeysOK, SameRow
  <1> QED BY <1>2, <1>3, <1>4 DEF IInv

(* The reads. *)
LEMMA LoadKeeps ==
    ASSUME IInv, NEW m \in Admins, NEW c \in Call, Load(m, c),
           c.op = "schedule" => c.status \in Schedulable /\ c.key <= minted
    PROVE  IInv'
  <1>1. AtTheDesk(m, c) /\ UNCHANGED <<campaign, minted, past>>
    BY DEF Load, AtTheDesk, delivery
  <1>2. SameRow
    BY <1>1 DEF SameRow, IInv, Basics
  <1> QED BY <1>1, <1>2, DeskKeeps

LEMMA LoadsKeep ==
    ASSUME IInv, NEW m \in Admins, UpdateLoad(m) \/ ScheduleLoad(m) \/ CancelLoad(m)
    PROVE  IInv'
  <1>1. NoCall \in Call
    BY NoCallOK
  <1>2. CASE UpdateLoad(m)
    <2> DEFINE c == [NoCall EXCEPT !.op = "update"]
    <2>1. c \in Call /\ c.op = "update"
      BY <1>1 DEF Call
    <2>2. Load(m, c)
      BY <1>2 DEF UpdateLoad
    <2> HIDE DEF c
    <2> QED BY <2>1, <2>2, LoadKeeps
  <1>3. CASE ScheduleLoad(m)
    <2> DEFINE c == [op |-> "schedule", status |-> campaign.status, key |-> campaign.key]
    <2>1. c \in Call /\ c.op = "schedule" /\ c.status = campaign.status /\ c.key = campaign.key
      BY DeskFacts DEF Campaign, Call, IInv
    <2>2. Load(m, c) /\ campaign.status \in Schedulable
      BY <1>3 DEF ScheduleLoad
    <2>3. campaign.key <= minted
      BY DEF IInv, KeysOK
    <2> HIDE DEF c
    <2> QED BY <2>1, <2>2, <2>3, LoadKeeps
  <1>4. CASE CancelLoad(m)
    <2> DEFINE c == [NoCall EXCEPT !.op = "cancel", !.status = "scheduled"]
    <2>1. c \in Call /\ c.op = "cancel"
      BY <1>1 DEF Call, Statuses
    <2>2. Load(m, c)
      BY <1>4 DEF CancelLoad
    <2> HIDE DEF c
    <2> QED BY <2>1, <2>2, LoadKeeps
  <1> QED BY <1>2, <1>3, <1>4

(* The edit. *)
LEMMA UpdateKeeps ==
    ASSUME IInv, NEW m \in Admins, UpdateWrite(m)
    PROVE  IInv'
  <1>1. AtTheDesk(m, NoCall) /\ UNCHANGED <<minted, past>>
    BY NoCallOK DEF UpdateWrite, AtTheDesk, delivery
  <1>2. campaign \in Campaign
    BY DEF IInv, Basics
  <1>3. campaign.text + 1 \in Texts
    BY <1>2, CampaignBounds DEF UpdateWrite, Campaign, Texts
  <1>4. SameRow
    BY <1>2, <1>3 DEF UpdateWrite, SameRow, Campaign
  <1> QED BY <1>1, <1>4, NoCallOK, DeskKeeps

(* The cancel: the key of a scheduled campaign is recorded as cancelled. *)
LEMMA CancelKeeps ==
    ASSUME IInv, NEW m \in Admins, CancelWrite(m)
    PROVE  IInv'
  <1>1. AtTheDesk(m, NoCall) /\ UNCHANGED <<minted, overtaken>>
    BY NoCallOK DEF CancelWrite, AtTheDesk, delivery
  <1>2. CASE ~Cancellable(m)
    <2>1. UNCHANGED <<campaign, past>>
      BY <1>1, <1>2 DEF CancelWrite, past
    <2>2. SameRow
      BY <2>1 DEF SameRow, IInv, Basics
    <2> QED BY <1>1, <2>1, <2>2, NoCallOK, DeskKeeps
  <1>3. CASE Cancellable(m)
    <2>1. /\ campaign' = [campaign EXCEPT !.status = "cancelled", !.key = 0]
          /\ cancelled' = cancelled \cup ({campaign.key} \ {0})
          /\ campaign.status = "scheduled"
      BY <1>3 DEF CancelWrite, Cancellable
    <2>2. Basics /\ minted \in Nat /\ campaign \in Campaign
      BY CampaignBounds DEF IInv, Basics
    <2>3. campaign' \in Campaign /\ campaign'.status = "cancelled" /\ campaign'.key = 0
      <3>1. 0 \in 0 .. MaxKeys
        BY CampaignBounds
      <3> QED BY <2>1, <2>2, <3>1 DEF Campaign, Statuses
    <2>4. cancelled' \subseteq Keys
      BY <2>1, <2>2, DeskFacts, CampaignBounds DEF Campaign, Keys
    <2>5. Basics'
      BY <1>1, <2>2, <2>3, <2>4, DeskBasics, DeskFacts
    <2>6. UNCHANGED <<job, message>>
      BY <1>1 DEF AtTheDesk
    <2>7. CallsOK'
      BY <1>1, <2>2, NoCallOK, DeskCalls DEF IInv
    <2>8. SendersOK'
      <3>1. overtaken = {} => \A w \in Workers : ~IsSending(job[w])
        BY <2>1 DEF IInv, SendersOK
      <3> QED BY <1>1, <2>6, <3>1 DEF SendersOK
    <2>9. KeysOK'
      <3>1. \A k \in 1 .. minted : k \in cancelled' \cup overtaken'
        <4>1. \A k \in 1 .. minted : k \in cancelled \cup overtaken \/ k = campaign.key
          BY DEF IInv, KeysOK
        <4>2. \A k \in 1 .. minted : k # 0
          BY <2>2
        <4> QED BY <1>1, <2>1, <4>1, <4>2
      <3> QED BY <1>1, <2>2, <2>3, <2>6, <3>1 DEF IInv, KeysOK
    <2> QED BY <2>5, <2>7, <2>8, <2>9 DEF IInv
  <1> QED BY <1>2, <1>3

(* The schedule: what it writes. *)
LEMMA ScheduleWrites ==
    ASSUME IInv, NEW m \in Admins, ScheduleWrite(m)
    PROVE  /\ campaign' \in Campaign /\ campaign'.status = "scheduled"
           /\ \/ /\ Resumes(m) /\ minted' = minted
                 /\ campaign'.key = desk[m].key /\ desk[m].key # 0
              \/ /\ ~Resumes(m) /\ minted' = minted + 1 /\ campaign'.key = minted + 1
           /\ campaign'.key # 0 /\ minted' \in 0 .. MaxKeys
  <1>1. Basics /\ minted \in Nat
    BY CampaignBounds DEF IInv, Basics
  <1>2. CASE Resumes(m)
    <2>1. /\ campaign' = [campaign EXCEPT !.status = "scheduled", !.key = desk[m].key]
          /\ minted' = minted
      BY <1>2 DEF ScheduleWrite
    <2>2. desk[m].key \in 0 .. MaxKeys /\ desk[m].key # 0
      BY <1>1, <1>2, DeskFacts DEF Call, Resumes
    <2>3. /\ campaign' \in Campaign /\ campaign'.status = "scheduled"
          /\ campaign'.key = desk[m].key
      BY <1>1, <2>1, <2>2, DeskFacts DEF Campaign, Statuses
    <2> QED BY <1>1, <1>2, <2>1, <2>2, <2>3, DeskFacts
  <1>3. CASE ~Resumes(m)
    <2>1. /\ campaign' = [campaign EXCEPT !.status = "scheduled", !.key = minted + 1]
          /\ minted' = minted + 1 /\ minted < MaxKeys
      BY <1>3 DEF ScheduleWrite
    <2>2. minted + 1 \in 0 .. MaxKeys /\ minted + 1 # 0
      BY <1>1, <2>1, CampaignBounds
    <2>3. /\ campaign' \in Campaign /\ campaign'.status = "scheduled"
          /\ campaign'.key = minted + 1
      BY <1>1, <2>1, <2>2, DeskFacts DEF Campaign, Statuses
    <2> QED BY <1>3, <2>1, <2>2, <2>3
  <1> QED BY <1>2, <1>3

(* The key that is in the row stays, or was cancelled or is overtaken. *)
LEMMA ScheduleExcuses ==
    ASSUME IInv, NEW m \in Admins, ScheduleWrite(m), NEW k \in 1 .. minted
    PROVE  \/ k \in cancelled' \cup overtaken'
           \/ Resumes(m) /\ AsRead(m) /\ k = campaign.key /\ k = minted
  <1>1. /\ cancelled' = cancelled
        /\ overtaken' = IF AsRead(m) THEN overtaken ELSE overtaken \cup ({campaign.key} \ {0})
    BY DEF ScheduleWrite
  <1>2. k \in cancelled \cup overtaken \/ (k = campaign.key /\ k = minted)
    BY DEF IInv, KeysOK
  <1>3. k # 0
    BY CampaignBounds DEF IInv, Basics
  <1>4. CASE ~AsRead(m)
    BY <1>1, <1>2, <1>3, <1>4
  <1>5. CASE AsRead(m) /\ ~Resumes(m)
    <2>1. desk[m].status \in Schedulable
      BY DEF IInv, CallsOK, ScheduleWrite
    <2>2. campaign.key = 0
      BY <1>5, <2>1 DEF AsRead, Resumes, Schedulable, IInv, KeysOK
    <2> QED BY <1>1, <1>2, <1>3, <2>2
  <1>6. CASE AsRead(m) /\ Resumes(m)
    BY <1>1, <1>2, <1>6
  <1> QED BY <1>4, <1>5, <1>6

LEMMA ScheduleKeeps ==
    ASSUME IInv, NEW m \in Admins, ScheduleWrite(m)
    PROVE  IInv'
  <1>1. Basics /\ minted \in Nat /\ Keys \subseteq Nat /\ campaign \in Campaign
    BY CampaignBounds DEF IInv, Basics, Keys
  <1>2. AtTheDesk(m, NoCall) /\ cancelled' = cancelled
    BY NoCallOK DEF ScheduleWrite, AtTheDesk, delivery
  <1>3. UNCHANGED <<job, message>>
    BY <1>2 DEF AtTheDesk
  <1>4. overtaken' \subseteq Keys
    BY <1>1, DeskFacts, CampaignBounds DEF ScheduleWrite, Campaign, Keys
  <1>5. Basics'
    BY <1>1, <1>2, <1>4, ScheduleWrites, DeskBasics, DeskFacts
  <1>6. minted' \in Nat /\ minted <= minted' /\ (minted' = minted \/ minted' = minted + 1)
    BY <1>1, ScheduleWrites
  <1>7. CallsOK'
    BY <1>1, <1>2, <1>6, NoCallOK, DeskCalls DEF IInv
  <1>8. SendersOK'
    <2> SUFFICES ASSUME overtaken' = {} PROVE \A w \in Workers : ~IsSending(job[w])
      BY <1>3 DEF SendersOK
    <2>1. overtaken = {} /\ (AsRead(m) \/ campaign.key = 0)
      BY DEF ScheduleWrite
    <2>2. CASE AsRead(m)
      <3>1. campaign.status \in Schedulable
        BY <2>2 DEF AsRead, IInv, CallsOK, ScheduleWrite
      <3> QED BY <2>1, <3>1 DEF IInv, SendersOK, Schedulable
    <2>3. CASE campaign.key = 0
      <3>1. \A w \in Workers : IsSending(job[w]) => job[w].key \in Keys /\ job[w].key = 0
        BY <1>1, <2>1, <2>3, WorkerFacts DEF IInv, SendersOK, JobOK
      <3>2. 0 \notin Keys
        BY CampaignBounds DEF Keys
      <3> QED BY <3>1, <3>2
    <2> QED BY <2>1, <2>2, <2>3
  <1>9. KeysOK'
    <2>1. campaign'.key <= minted'
      <3>1. CASE Resumes(m)
        <4>1. desk[m].key <= minted
          BY DEF IInv, CallsOK, ScheduleWrite
        <4> QED BY <3>1, <4>1, ScheduleWrites
      <3>2. CASE ~Resumes(m)
        BY <1>1, <3>2, ScheduleWrites
      <3> QED BY <3>1, <3>2
    <2>2. \A k \in 1 .. minted' :
             k \in cancelled' \cup overtaken' \/ (k = campaign'.key /\ k = minted')
      <3> SUFFICES ASSUME NEW k \in 1 .. minted', k \notin cancelled' \cup overtaken'
                   PROVE  k = campaign'.key /\ k = minted'
        OBVIOUS
      <3>1. CASE k \in 1 .. minted
        <4>1. Resumes(m) /\ AsRead(m) /\ k = campaign.key /\ k = minted
          BY <3>1, ScheduleExcuses
        <4>2. campaign'.key = desk[m].key /\ minted' = minted
          BY <4>1, ScheduleWrites
        <4> QED BY <4>1, <4>2 DEF AsRead
      <3>2. CASE k \notin 1 .. minted
        <4>1. minted' = minted + 1 /\ k = minted + 1
          BY <1>1, <1>6, <3>2
        <4>2. campaign'.key = minted + 1
          BY <1>1, <4>1, ScheduleWrites
        <4> QED BY <4>1, <4>2
      <3> QED BY <3>1, <3>2
    <2>3. \A w \in Workers : IsSending(job'[w]) => job'[w].key <= minted'
      <3> SUFFICES ASSUME NEW w \in Workers, IsSending(job[w]) PROVE job[w].key <= minted'
        BY <1>3
      <3>1. job[w].key \in Nat
        BY <1>1, WorkerFacts DEF JobOK
      <3>2. job[w].key <= minted
        BY DEF IInv, KeysOK
      <3> QED BY <1>1, <1>6, <3>1, <3>2
    <2>4. \A k \in Keys, u \in Recipients : message'[<<k, u>>] # 0 => k <= minted'
      <3>1. \A k \in Keys, u \in Recipients : message'[<<k, u>>] # 0 => k <= minted
        BY <1>3 DEF IInv, KeysOK
      <3>2. \A k \in Keys : k <= minted => k <= minted'
        BY <1>1, <1>6
      <3> QED BY <3>1, <3>2
    <2>5. campaign'.status = "scheduled"
      BY ScheduleWrites
    <2> QED BY <2>1, <2>2, <2>3, <2>4, <2>5 DEF KeysOK
  <1> QED BY <1>5, <1>7, <1>8, <1>9 DEF IInv

LEMMA TestKeeps ==
    ASSUME IInv, RequestTestSend
    PROVE  IInv'
  <1>1. /\ UNCHANGED <<minted, rows, sentAt, message, previews, desk, job, crashes>>
        /\ UNCHANGED <<cancelled, overtaken>>
    BY DEF RequestTestSend, delivery, past
  <1>2. SameRow
    BY DEF RequestTestSend, SameRow, Campaign, Basics, IInv
  <1>3. Basics'
    BY <1>1, <1>2 DEF Basics, SameRow, IInv
  <1> QED BY <1>1, <1>2, <1>3 DEF IInv, CallsOK, SendersOK, KeysOK, SameRow

-----------------------------------------------------------------------------
(* The step. *)

LEMMA StepKeeps ==
    ASSUME IInv, [Next]_vars
    PROVE  IInv'
  <1>1. ASSUME NEW m \in Admins, Operate(m) PROVE IInv'
    BY <1>1, LoadsKeep, UpdateKeeps, ScheduleKeeps, CancelKeeps DEF Operate
  <1>2. CASE RequestTestSend
    BY <1>2, TestKeeps
  <1>3. ASSUME NEW w \in Workers,
               Claim(w) \/ Send(w) \/ ClaimTest(w) \/ DeliverTest(w) \/ Crash(w)
        PROVE  IInv'
    <2>1. Stays(w) \/ Ends(w) \/ Claims(w)
      BY <1>3, WorkerSteps DEF IInv
    <2> QED BY <2>1, StaysKeeps, EndsKeeps, ClaimsKeeps
  <1>4. CASE UNCHANGED vars
    BY <1>4 DEF vars, IInv, Basics, CallsOK, SendersOK, KeysOK
  <1> QED BY <1>1, <1>2, <1>3, <1>4 DEF Next

LEMMA Initially == Init => IInv
  <1> SUFFICES ASSUME Init PROVE IInv
    OBVIOUS
  <1>1. /\ campaign \in Campaign /\ campaign.status = "draft" /\ campaign.key = 0
        /\ minted = 0 /\ minted \in 0 .. MaxKeys
    BY CampaignBounds DEF Init, Campaign, Statuses, Texts
  <1>2. job \in [Workers -> Job] /\ \A w \in Workers : job[w] = NoJob
    BY NoJobOK DEF Init, JobOK
  <1>3. desk \in [Admins -> Call] /\ \A m \in Admins : desk[m] = NoCall
    BY NoCallOK DEF Init
  <1>4. message \in [Keys \X Recipients -> 0 .. MaxTexts]
    BY CampaignBounds DEF Init
  <1>5. Basics
    BY <1>1, <1>2, <1>3, <1>4, NoJobOK, CampaignBounds DEF Init, Basics
  <1>6. CallsOK
    BY <1>3, NoCallOK DEF CallsOK
  <1>7. SendersOK
    BY <1>2, NoJobOK DEF SendersOK
  <1>8. KeysOK
    <2>1. \A k \in 1 .. minted : k \in cancelled \cup overtaken
      BY <1>1
    <2>2. \A k \in Keys, u \in Recipients : message[<<k, u>>] = 0
      BY DEF Init
    <2>3. \A w \in Workers : ~IsSending(job[w])
      BY <1>2, NoJobOK
    <2> QED BY <1>1, <2>1, <2>2, <2>3 DEF KeysOK
  <1> QED BY <1>5, <1>6, <1>7, <1>8 DEF IInv


-----------------------------------------------------------------------------
(* For any number of operators and workers, whatever their calls overlap:    *)
(* until a schedule overtakes another, one worker at most is sending, under  *)
(* the key of the row; and always every key but the last has been cancelled  *)
(* or overtaken.                                                             *)
THEOREM Invariance == Spec => []IInv
  <1>1. IInv /\ [Next]_vars => IInv'
    BY StepKeeps
  <1> QED BY Initially, <1>1, PTL DEF Spec

(* Every state and call of the console and the workers is well-formed: a     *)
(* push is recorded only on a recipient's row, whatever overlaps.            *)
THEOREM TypeCorrect == Spec => []TypeOK
  <1>1. IInv => TypeOK
    BY DEF IInv, Basics, TypeOK
  <1> QED BY Invariance, <1>1, PTL

(* Of all behaviours: a worker that is sending is visible as such unless a   *)
(* schedule was written over a row that had been scheduled since its read;   *)
(* no cancel, edit, outage or crash takes the status from it.                *)
THEOREM OnlyScheduleUnmarks == Spec => []SendingIsMarked
  <1>1. IInv => SendingIsMarked
    BY DEF IInv, SendersOK, SendingIsMarked, Sending, IsSending
  <1> QED BY Invariance, <1>1, PTL

(* Of all behaviours: whoever holds two messages of the campaign holds the   *)
(* earlier from a dispatch that was cancelled or overtaken by a schedule.    *)
(* That one unguarded write is the only way for a campaign to go out twice.  *)
THEOREM OnlyScheduleDoubles == Spec => []TwiceIsExcused
  <1>1. IInv => TwiceIsExcused
    <2> SUFFICES ASSUME IInv, NEW u \in Recipients, NEW k \in Keys, NEW l \in Keys,
                        k < l, message[<<l, u>>] # 0
                 PROVE  k \in cancelled \cup overtaken
      BY DEF TwiceIsExcused
    <2>1. minted \in Nat /\ k \in Nat /\ l \in Nat /\ 1 <= k
      BY CampaignBounds DEF IInv, Basics, Keys
    <2>2. l <= minted
      BY DEF IInv, KeysOK
    <2>3. k \in 1 .. minted /\ k # minted
      BY <2>1, <2>2
    <2> QED BY <2>3 DEF IInv, KeysOK
  <1> QED BY Invariance, <1>1, PTL
=============================================================================
