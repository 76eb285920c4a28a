------------------------------ MODULE Campaigns ------------------------------
(***************************************************************************)
(* One push campaign (notification_campaigns): operators edit, schedule,   *)
(* cancel and preview it in the console, workers claim it when it is due   *)
(* and deliver it recipient by recipient.  A recipient's row (the inbox    *)
(* row of an account, the ledger row of a device) carries the delivery     *)
(* fact push_sent_at, written after the provider accepted the push.        *)
(* Models CampaignsService and CampaignDispatcher.                         *)
(*                                                                         *)
(* An operator's call reads the row in one statement and writes it in      *)
(* another.  Dispatch keys are numbered as they are minted, messages as    *)
(* they are edited.  Counters, names, pictures and the audit are left out. *)
(***************************************************************************)
EXTENDS Naturals, FiniteSets

CONSTANTS
    Admins,         \* operators, each with one call in flight
    Workers,
    Accounts,       \* accounts the audience may hold
    Devices,        \* devices of a public campaign
    MaxKeys,        \* bound on the dispatch keys minted
    MaxTexts,       \* bound on the versions of the message
    MaxCrashes      \* bound on the workers that die

ASSUME CampaignBounds ==
    /\ MaxKeys \in Nat /\ MaxTexts \in Nat \ {0} /\ MaxCrashes \in Nat
    /\ Accounts \cap Devices = {}

Recipients == Accounts \cup Devices
Keys == 1 .. MaxKeys
Texts == 1 .. MaxTexts

VARIABLES
    campaign,   \* the row: status, dispatch key (0 for null), message, test send
    minted,     \* dispatch keys minted so far
    rows,       \* recipients' rows, by key and recipient
    sentAt,     \* the ones whose push_sent_at is set
    previews,   \* whether a preview of the composer has its push_sent_at
    message,    \* the provider: the message accepted under a key and recipient, or 0
    cancelled,  \* history: keys of dispatches an operator cancelled
    overtaken,  \* history: keys a schedule took the row from, having read it before
    desk,       \* the calls of the operators between their read and their write
    job,        \* the campaign each worker is sending
    crashes

vars == <<campaign, minted, rows, sentAt, previews, message, cancelled, overtaken, desk, job,
          crashes>>

Statuses == {"draft", "scheduled", "sending", "sent", "cancelled", "failed"}
Campaign == [status : Statuses, key : 0 .. MaxKeys, text : Texts, test : {"no", "yes"}]

(* A call: what it does, and of the row as it was read what it goes on to use. *)
Call == [op : {"idle", "update", "schedule", "cancel"}, status : Statuses, key : 0 .. MaxKeys]
NoCall == [op |-> "idle", status |-> "draft", key |-> 0]

(* A send: the row as it was claimed, who is left, whether the provider      *)
(* accepted any account, and the recipient at hand.                          *)
Job == [at : {"idle", "resolve", "accounts", "devices", "read", "push", "mark", "error",
              "test"},
        half : {"accounts", "devices"}, key : 0 .. MaxKeys, text : Texts,
        todo : SUBSET Recipients, reached : {"no", "yes"}, one : SUBSET Recipients]
NoJob == [at |-> "idle", half |-> "accounts", key |-> 0, text |-> 1, todo |-> {},
          reached |-> "no", one |-> {}]

TypeOK ==
    /\ campaign \in Campaign
    /\ minted \in 0 .. MaxKeys
    /\ rows \subseteq Keys \X Recipients
    /\ sentAt \subseteq rows
    /\ previews \in {"no", "yes"}
    /\ message \in [Keys \X Recipients -> 0 .. MaxTexts]
    /\ cancelled \subseteq Keys /\ overtaken \subseteq Keys
    /\ desk \in [Admins -> Call]
    /\ job \in [Workers -> Job]
    /\ crashes \in 0 .. MaxCrashes

Init ==
    /\ campaign = [status |-> "draft", key |-> 0, text |-> 1, test |-> "no"]
    /\ minted = 0
    /\ rows = {} /\ sentAt = {} /\ previews = "no"
    /\ message = [r \in Keys \X Recipients |-> 0]
    /\ cancelled = {} /\ overtaken = {}
    /\ desk = [m \in Admins |-> NoCall]
    /\ job = [w \in Workers |-> NoJob]
    /\ crashes = 0

delivery == <<rows, sentAt, message>>
past == <<cancelled, overtaken>>

-----------------------------------------------------------------------------
(* The console. *)

Editable == {"draft", "cancelled", "failed"}
Schedulable == {"draft", "cancelled", "failed"}

Load(m, call) ==
    /\ desk[m].op = "idle"
    /\ desk' = [desk EXCEPT ![m] = call]
    /\ UNCHANGED <<campaign, minted, delivery, previews, past, job, crashes>>

(* update: refused once anything was delivered; deliveredRecipients counts   *)
(* the rows of previews too.                                                 *)
Delivered == sentAt # {} \/ previews = "yes"

UpdateLoad(m) == campaign.status \in Editable /\ ~Delivered /\ Load(m, [NoCall EXCEPT !.op = "update"])
ScheduleLoad(m) ==
    /\ campaign.status \in Schedulable
    /\ Load(m, [op |-> "schedule", status |-> campaign.status, key |-> campaign.key])
CancelLoad(m) ==
    /\ campaign.status = "scheduled"
    /\ Load(m, [NoCall EXCEPT !.op = "cancel", !.status = "scheduled"])

UpdateWrite(m) ==
    /\ desk[m].op = "update"
    /\ campaign.text < MaxTexts
    /\ campaign' = [campaign EXCEPT !.text = @ + 1]
    /\ desk' = [desk EXCEPT ![m] = NoCall]
    /\ UNCHANGED <<minted, delivery, previews, past, job, crashes>>

(* schedule: a failed campaign goes on under the key it was read with, any   *)
(* other gets a new one.  The status is not looked at again: the row may be  *)
(* another one than was read.                                                *)
ResumesNever(m) == FALSE
Resumes(m) == desk[m].status = "failed" /\ desk[m].key # 0

AsRead(m) == campaign.status = desk[m].status /\ campaign.key = desk[m].key

ScheduleWrite(m) ==
    /\ desk[m].op = "schedule"
    /\ \/ /\ Resumes(m)
          /\ campaign' = [campaign EXCEPT !.status = "scheduled", !.key = desk[m].key]
          /\ UNCHANGED minted
       \/ /\ ~Resumes(m)
          /\ minted < MaxKeys
          /\ minted' = minted + 1
          /\ campaign' = [campaign EXCEPT !.status = "scheduled", !.key = minted + 1]
    /\ overtaken' = IF AsRead(m) THEN overtaken ELSE overtaken \cup ({campaign.key} \ {0})
    /\ desk' = [desk EXCEPT ![m] = NoCall]
    /\ UNCHANGED <<delivery, previews, cancelled, job, crashes>>

(* cancel: only a row that is still scheduled. *)
CancellableAsRead(m) == desk[m].status = "scheduled"
Cancellable(m) == campaign.status = "scheduled"

CancelWrite(m) ==
    /\ desk[m].op = "cancel"
    /\ IF Cancellable(m)
       THEN /\ campaign' = [campaign EXCEPT !.status = "cancelled", !.key = 0]
            /\ cancelled' = cancelled \cup ({campaign.key} \ {0})
       ELSE UNCHANGED <<campaign, cancelled>>
    /\ desk' = [desk EXCEPT ![m] = NoCall]
    /\ UNCHANGED <<minted, delivery, previews, overtaken, job, crashes>>

RequestTestSend ==
    /\ campaign.test = "no"
    /\ campaign' = [campaign EXCEPT !.test = "yes"]
    /\ UNCHANGED <<minted, delivery, previews, past, desk, job, crashes>>

-----------------------------------------------------------------------------
(* The worker. *)

Goto(w, at) == job' = [job EXCEPT ![w].at = at]
Key(w, u) == <<job[w].key, u>>
Me(w) == CHOOSE u \in job[w].one : TRUE

(* dispatchDue: scheduled -> sending in one statement. *)
Claim(w) ==
    /\ job[w].at = "idle"
    /\ campaign.status = "scheduled"
    /\ campaign' = [campaign EXCEPT !.status = "sending"]
    /\ job' = [job EXCEPT ![w] = [NoJob EXCEPT !.at = "resolve", !.key = campaign.key,
                                               !.text = campaign.text]]
    /\ UNCHANGED <<minted, delivery, previews, past, desk, crashes>>

(* Whoever qualifies now: any of the accounts. *)
Resolve(w) ==
    /\ job[w].at = "resolve"
    /\ \E us \in SUBSET Accounts : job' = [job EXCEPT ![w].at = "accounts", ![w].todo = us]
    /\ UNCHANGED <<campaign, minted, delivery, previews, past, desk, crashes>>

(* The next recipient: its row, inserted unless it is there. *)
InsertRow(w) ==
    /\ job[w].at \in {"accounts", "devices"}
    /\ \E u \in job[w].todo :
       /\ rows' = rows \cup {Key(w, u)}
       /\ job' = [job EXCEPT ![w].at = "read", ![w].todo = @ \ {u}, ![w].one = {u}]
    /\ UNCHANGED <<campaign, minted, sentAt, message, previews, past, desk, crashes>>

Next1(w, reached) ==
    job' = [job EXCEPT ![w].at = job[w].half, ![w].one = {},
               ![w].reached = IF reached /\ job[w].half = "accounts" THEN "yes" ELSE @]

(* already_sent, or the push is owed. *)
ReadRow(w) ==
    /\ job[w].at = "read"
    /\ IF Key(w, Me(w)) \in sentAt THEN Next1(w, TRUE) ELSE Goto(w, "push")
    /\ UNCHANGED <<campaign, minted, delivery, previews, past, desk, crashes>>

(* The provider: one message per key and recipient, a repeat is a replay;    *)
(* nobody to send to; or an error, before or after it accepted.              *)
Push(w) ==
    /\ job[w].at = "push"
    /\ LET k == Key(w, Me(w))
           accepted == message' = [message EXCEPT ![k] = IF @ = 0 THEN job[w].text ELSE @] IN
       \/ accepted /\ Goto(w, "mark")
       \/ accepted /\ Goto(w, "error")
       \/ UNCHANGED message /\ (Next1(w, FALSE) \/ Goto(w, "error"))
    /\ UNCHANGED <<campaign, minted, rows, sentAt, previews, past, desk, crashes>>

Mark(w) ==
    /\ job[w].at = "mark"
    /\ sentAt' = sentAt \cup {Key(w, Me(w))}
    /\ Next1(w, TRUE)
    /\ UNCHANGED <<campaign, minted, rows, message, previews, past, desk, crashes>>

(* sendToDevices, after the accounts.  Another audience, or the flag turned  *)
(* off, leaves the whole half out, its ledger included.                      *)
ToDevices(w) ==
    /\ job[w].at = "accounts" /\ job[w].todo = {}
    /\ \/ \E ds \in SUBSET Devices :
          job' = [job EXCEPT ![w].at = "devices", ![w].half = "devices", ![w].todo = ds]
       \/ Goto(w, "devices")
    /\ UNCHANGED <<campaign, minted, delivery, previews, past, desk, crashes>>

(* campaignOutcome: sent if an account was reached in this run, or, when     *)
(* devices were addressed, one in any run of this dispatch.                  *)
Outcome(w) ==
    IF \/ job[w].reached = "yes"
       \/ job[w].half = "devices" /\ \E d \in Devices : Key(w, d) \in sentAt
    THEN "sent" ELSE "failed"

Finish(w) ==
    /\ job[w].at = "devices" /\ job[w].todo = {}
    /\ campaign' = [campaign EXCEPT !.status = Outcome(w)]
    /\ job' = [job EXCEPT ![w] = NoJob]
    /\ UNCHANGED <<minted, delivery, previews, past, desk, crashes>>

(* A query fails, or the destination cannot be opened: the campaign fails. *)
SendError(w) ==
    /\ job[w].at \in {"resolve", "accounts", "devices", "read", "mark"}
    /\ Goto(w, "error")
    /\ UNCHANGED <<campaign, minted, delivery, previews, past, desk, crashes>>

FailSilently(w) ==
    /\ job[w].at = "error"
    /\ job' = [job EXCEPT ![w] = NoJob]
    /\ UNCHANGED <<campaign, minted, delivery, previews, past, desk, crashes>>

Fail(w) ==
    /\ job[w].at = "error"
    /\ campaign' = [campaign EXCEPT !.status = "failed"]
    /\ job' = [job EXCEPT ![w] = NoJob]
    /\ UNCHANGED <<minted, delivery, previews, past, desk, crashes>>

(* deliverTestSends: the request is handled by the claim, whatever becomes   *)
(* of the push.                                                              *)
ClaimTest(w) ==
    /\ job[w].at = "idle"
    /\ campaign.test = "yes"
    /\ campaign' = [campaign EXCEPT !.test = "no"]
    /\ Goto(w, "test")
    /\ UNCHANGED <<minted, delivery, previews, past, desk, crashes>>

DeliverTest(w) ==
    /\ job[w].at = "test"
    /\ previews' \in {previews, "yes"}
    /\ job' = [job EXCEPT ![w] = NoJob]
    /\ UNCHANGED <<campaign, minted, delivery, past, desk, crashes>>

(* The worker's process dies, or the write that would mark the campaign as  *)
(* failed fails itself.  Nothing takes a campaign out of sending then.      *)
Crash(w) ==
    /\ job[w].at # "idle"
    /\ crashes < MaxCrashes
    /\ crashes' = crashes + 1
    /\ job' = [job EXCEPT ![w] = NoJob]
    /\ UNCHANGED <<campaign, minted, delivery, previews, past, desk>>

-----------------------------------------------------------------------------
Operate(m) ==
    \/ UpdateLoad(m) \/ ScheduleLoad(m) \/ CancelLoad(m)
    \/ UpdateWrite(m) \/ ScheduleWrite(m) \/ CancelWrite(m)

Send(w) ==
    \/ Resolve(w) \/ InsertRow(w) \/ ReadRow(w) \/ Push(w) \/ Mark(w) \/ ToDevices(w)
    \/ Finish(w) \/ SendError(w) \/ Fail(w)

Next ==
    \/ \E m \in Admins : Operate(m)
    \/ RequestTestSend
    \/ \E w \in Workers : Claim(w) \/ Send(w) \/ ClaimTest(w) \/ DeliverTest(w) \/ Crash(w)

Spec == Init /\ [][Next]_vars

(* A worker goes on with the campaign it has claimed. *)
FairSpec == Spec /\ \A w \in Workers : WF_vars(Send(w))

-----------------------------------------------------------------------------
(* Properties. *)

Sending(w) == job[w].at \notin {"idle", "test"}

(* Until a schedule overtakes another, a worker that is sending the campaign *)
(* is visible as such: no cancel or edit that was decided before its claim   *)
(* takes the status away, and no second worker starts.                       *)
SendingIsMarked ==
    overtaken = {} => \A w \in Workers : Sending(w) => campaign.status = "sending"

(* Two messages of the campaign reach somebody only when an operator         *)
(* cancelled the earlier dispatch, or when a schedule was written over it    *)
(* that had read the row before: no outage, crash, lost answer or resumed    *)
(* send makes a second one.                                                  *)
TwiceIsExcused == \A u \in Recipients, k, l \in Keys :
    k < l /\ message[<<k, u>>] # 0 /\ message[<<l, u>>] # 0 => k \in cancelled \cup overtaken

(* What the comment of dispatchDue says of the claim, "it is why a campaign  *)
(* cannot go out twice": nobody holds two messages of it, except that the    *)
(* earlier dispatch was cancelled and the campaign scheduled anew.  Does not *)
(* hold of two operators.                                                    *)
NotTwice == \A u \in Recipients, k, l \in Keys :
    k < l /\ message[<<k, u>>] # 0 /\ message[<<l, u>>] # 0 => k \in cancelled

(* A provider outage, or any other error of the send, never leaves the       *)
(* campaign in sending, from where no operator can take it; only the death   *)
(* of the worker, or of the write that records the error, does.              *)
SendingEnds == campaign.status = "sending" ~> campaign.status # "sending" \/ crashes > 0
=============================================================================
