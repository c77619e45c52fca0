------------------------------- MODULE Campaign -------------------------------
(***************************************************************************)
(* Campaigns on top of the durable scheduler.  A campaign is a row of its  *)
(* own beside the scheduled job that posts its message to a WAHA group;    *)
(* the service keeps the two in step with a sequence of awaited calls, and *)
(* the transport writes the campaign's state before the scheduler settles  *)
(* the job.  Once a campaign is "sent", a reaction starts a follow-up: an  *)
(* immediate send to the person who reacted.                               *)
(*                                                                         *)
(* The module composes Scheduler: each step is one of its actions with     *)
(* what it does to the campaign rows, or a step of the campaign rows only. *)
(***************************************************************************)
EXTENDS Scheduler

CONSTANTS
  Campaigns,   \* campaigns; the job "campaign:<id>" has the campaign's name
  FollowUps,   \* the jobs "campaign:<id>:reaction:<participant>:<message>"
  ParentOf     \* the campaign a follow-up belongs to

(* No WAHA error is classified as retryable.                               *)
ASSUME CampaignAssumption ==
  /\ Campaigns \cap FollowUps = {}
  /\ Jobs = Campaigns \cup FollowUps
  /\ ParentOf \in [FollowUps -> Campaigns]
  /\ RetryableFailures = FALSE

VARIABLES
  campaign,    \* the campaigns rows: state, and whether scheduler_job_id is set
  creating,    \* progress of the POST that creates each campaign
  cancelling,  \* progress of a cancel request
  reacting,    \* follow-ups whose trigger has read its campaign as sent
  mark         \* the campaign state a transport is about to write

cvars == <<campaign, creating, cancelling, reacting, mark>>
allvars == <<vars, cvars>>

CampaignStates == {"none", "scheduled", "sent", "failed", "cancelled", "deleted"}

NoMark == [w \in Workers |-> "none"]

CampaignTypeOK ==
  /\ campaign \in [Campaigns -> [state: CampaignStates, job: BOOLEAN]]
  /\ creating \in [Campaigns -> {"no", "created", "queued"}]
  /\ cancelling \in [Campaigns -> {"no", "job", "row", "withdrawn"}]
  /\ reacting \subseteq FollowUps
  /\ mark \in [Workers -> {"none", "sent", "failed"}]

CampaignInit ==
  /\ Init
  /\ campaign = [c \in Campaigns |-> [state |-> "none", job |-> FALSE]]
  /\ creating = [c \in Campaigns |-> "no"]
  /\ cancelling = [c \in Campaigns |-> "no"]
  /\ reacting = {}
  /\ mark = NoMark

Live(c) == campaign[c].state \notin {"none", "deleted"}

------------------------------------------------------------------------------
(* The campaign service.                                                   *)

(* schedule: insert the campaign; with a WAHA group go on to its job.      *)
CreateCampaign(c) ==
  /\ campaign[c].state = "none"
  /\ campaign' = [campaign EXCEPT ![c].state = "scheduled"]
  /\ \E next \in {"created", "no"} : creating' = [creating EXCEPT ![c] = next]
  /\ UNCHANGED <<vars, cancelling, reacting, mark>>

(* The requested time was in the future when the request was checked.      *)
QueueJob(c) ==
  /\ creating[c] = "created"
  /\ \E t \in 1..MaxTime : InsertRow(c, t)
  /\ creating' = [creating EXCEPT ![c] = "queued"]
  /\ UNCHANGED <<now, attempt, run, tick, deleting, accepted, faults,
                 campaign, cancelling, reacting, mark>>

AttachSchedulerJob(c) ==
  /\ creating[c] = "queued"
  /\ creating' = [creating EXCEPT ![c] = "no"]
  /\ campaign' = IF Live(c) /\ job[c].state # "deleted"
                 THEN [campaign EXCEPT ![c].job = TRUE] ELSE campaign
  /\ UNCHANGED <<vars, cancelling, reacting, mark>>

(* cancel: read the campaign, cancel the job if the row names one, and     *)
(* only then the campaign.                                                 *)
CancelRead(c) ==
  /\ cancelling[c] = "no"
  /\ campaign[c].state = "scheduled"
  /\ cancelling' = [cancelling EXCEPT ![c] = IF campaign[c].job THEN "job" ELSE "row"]
  /\ UNCHANGED <<vars, campaign, creating, reacting, mark>>

(* Mutants: the scheduler's refusal is ignored; the job is overwritten.    *)
MutCancelJobIgnored(c) ==
  /\ cancelling[c] = "job"
  /\ cancelling' = [cancelling EXCEPT ![c] = "withdrawn"]
  /\ IF Unclaimed(c) THEN Cancel(c) ELSE UNCHANGED vars
  /\ UNCHANGED <<campaign, creating, reacting, mark>>

MutCancelJobForced(c) ==
  /\ cancelling[c] = "job"
  /\ cancelling' = [cancelling EXCEPT ![c] = "withdrawn"]
  /\ job' = [job EXCEPT ![c].state = "cancelled"]
  /\ UNCHANGED <<now, attempt, run, tick, deleting, accepted, faults>>
  /\ UNCHANGED <<campaign, creating, reacting, mark>>

CancelJob(c) ==
  /\ cancelling[c] = "job"
  /\ \/ /\ Cancel(c)
        /\ cancelling' = [cancelling EXCEPT ![c] = "withdrawn"]
     \/ /\ ~Unclaimed(c)
        /\ cancelling' = [cancelling EXCEPT ![c] = "no"]
        /\ UNCHANGED vars
  /\ UNCHANGED <<campaign, creating, reacting, mark>>

CancelRow(c) ==
  /\ cancelling[c] \in {"row", "withdrawn"}
  /\ cancelling' = [cancelling EXCEPT ![c] = "no"]
  /\ campaign' = IF campaign[c].state = "scheduled"
                 THEN [campaign EXCEPT ![c].state = "cancelled"] ELSE campaign
  /\ UNCHANGED <<vars, creating, reacting, mark>>

(* The DELETE of a campaign states its condition again in the statement.   *)
RemoveCampaign(c) ==
  /\ campaign[c].state \in {"cancelled", "sent", "failed"}
  /\ campaign' = [campaign EXCEPT ![c] = [state |-> "deleted", job |-> FALSE]]
  /\ UNCHANGED <<vars, creating, cancelling, reacting, mark>>

(* A reaction of a member of the campaign's group: listForReaction, then   *)
(* an immediate send under the follow-up's own key.                        *)
ReactionRead(f) ==
  /\ f \notin reacting
  /\ job[f].state = "unborn"
  /\ campaign[ParentOf[f]].state = "sent"
  /\ reacting' = reacting \cup {f}
  /\ UNCHANGED <<vars, campaign, creating, cancelling, mark>>

FollowUp(f) ==
  /\ f \in reacting
  /\ reacting' = reacting \ {f}
  /\ SendNow(f)
  /\ UNCHANGED <<campaign, creating, cancelling, mark>>

------------------------------------------------------------------------------
(* The campaign transport.  Every key here starts with "campaign:", so the *)
(* gate always allows and this transport serves follow-ups as well.        *)

GateBypass(w) == GateAllows(w) /\ UNCHANGED cvars

SetMark(w, m) == mark' = [mark EXCEPT ![w] = m]

(* The provider took the message: the campaign is sent, or failed when the *)
(* answer did not arrive or was malformed, or when writing "sent" failed.  *)
CampaignAccepted(w) ==
  /\ TransportAccepted(w)
  /\ SetMark(w, IF run'[w].result = "submitted" THEN "sent" ELSE "failed")
  /\ UNCHANGED <<campaign, creating, cancelling, reacting>>

(* Mutant: the campaign is marked sent before the answer is looked at.     *)
MutCampaignRefused(w) ==
  /\ TransportRefused(w)
  /\ SetMark(w, "sent")
  /\ UNCHANGED <<campaign, creating, cancelling, reacting>>

(* A session that no longer exists fails the job without a mark.           *)
CampaignRefused(w) ==
  /\ TransportRefused(w)
  /\ \/ SetMark(w, "failed")
     \/ run'[w].result = "failed" /\ UNCHANGED mark
  /\ UNCHANGED <<campaign, creating, cancelling, reacting>>

(* Mutant: the campaign's row is not written.                              *)
MutMarkCampaign(w) ==
  /\ mark[w] # "none"
  /\ run[w].job \in Campaigns
  /\ SetMark(w, "none")
  /\ UNCHANGED <<vars, campaign, creating, cancelling, reacting>>

(* markSent and markFailed write whatever state the row has.  The key of a *)
(* follow-up yields no campaign id: its update throws (see Throw).         *)
MarkCampaign(w) ==
  LET c == run[w].job
  IN /\ mark[w] # "none"
     /\ c \in Campaigns
     /\ SetMark(w, "none")
     /\ campaign' = IF Live(c) THEN [campaign EXCEPT ![c].state = mark[w]] ELSE campaign
     /\ UNCHANGED <<vars, creating, cancelling, reacting>>

(* The job is settled after its transport has returned.                    *)
SettleMarked(w) == mark[w] = "none" /\ Settle(w) /\ UNCHANGED cvars

CampaignThrow(w) ==
  /\ Throw(w)
  /\ SetMark(w, "none")
  /\ UNCHANGED <<campaign, creating, cancelling, reacting>>

CampaignCrash ==
  /\ Crash
  /\ creating' = [c \in Campaigns |-> "no"]
  /\ cancelling' = [c \in Campaigns |-> "no"]
  /\ reacting' = {}
  /\ mark' = NoMark
  /\ UNCHANGED campaign

(* Removing a job first clears scheduler_job_id in the campaign.           *)
DeleteJob(j) ==
  /\ DeleteRemove(j)
  /\ campaign' = IF j \in Campaigns THEN [campaign EXCEPT ![j].job = FALSE] ELSE campaign
  /\ UNCHANGED <<creating, cancelling, reacting, mark>>

------------------------------------------------------------------------------
(* The scheduler's other steps do not touch campaigns.                     *)
SchedulerOnly ==
  /\ \/ \E j \in Jobs : \/ Edit(j) \/ Cancel(j) \/ DeleteCheck(j) \/ Acknowledge(j)
                        \/ ImmediateClaim(j) \/ ImmediateNothing(j)
     \/ TickerStep
     \/ PassTime
  /\ UNCHANGED cvars

Service(c) ==
  \/ CreateCampaign(c) \/ QueueJob(c) \/ AttachSchedulerJob(c)
  \/ CancelRead(c) \/ CancelJob(c) \/ CancelRow(c) \/ RemoveCampaign(c)

CampaignDispatch(w) ==
  \/ GateBypass(w) \/ CampaignAccepted(w) \/ CampaignRefused(w)
  \/ MarkCampaign(w) \/ SettleMarked(w) \/ CampaignThrow(w)

CampaignNext ==
  \/ \E c \in Campaigns : Service(c)
  \/ \E f \in FollowUps : ReactionRead(f) \/ FollowUp(f)
  \/ \E w \in Workers : CampaignDispatch(w)
  \/ \E j \in Jobs : DeleteJob(j)
  \/ SchedulerOnly
  \/ CampaignCrash

CampaignSpec == CampaignInit /\ [][CampaignNext]_allvars

------------------------------------------------------------------------------
(* Properties.                                                             *)

(* Campaigns keep to the scheduler's rules: whatever the service and the   *)
(* transport await, every step is a step of Scheduler, so everything it    *)
(* guarantees of jobs holds of campaign jobs and follow-ups.               *)
CampaignsUseScheduler == Spec

(* The campaign's state is not ahead of the provider: "sent" is written    *)
(* only after WAHA took the message, and a follow-up starts only then.     *)
SentCampaignWasSent ==
  /\ \A c \in Campaigns : campaign[c].state = "sent" => accepted[c] = 1
  /\ \A f \in FollowUps : job[f].state # "unborn" => accepted[ParentOf[f]] = 1

(* A campaign cancelled together with its job is never sent: the job was   *)
(* withdrawn before the campaign's row said so, and no transport that is   *)
(* still running can mark the campaign afterwards.                         *)
CancelledWithJobStays ==
  [][\A c \in Campaigns :
       campaign[c].state = "cancelled" /\ job[c].state = "cancelled"
         => campaign'[c].state \in {"cancelled", "deleted"}]_allvars

(* A cancel request that withdrew the job can finish at its leisure: the   *)
(* message was not sent, and no dispatch can send it any more.             *)
WithdrawnIsSafe ==
  \A c \in Campaigns : cancelling[c] = "withdrawn" =>
    accepted[c] = 0 /\ ~(\E w \in Workers : InFlight(w) /\ run[w].job = c)

(* The transport writes the campaign's row before the scheduler writes the *)
(* job's: a job that reached "submitted" has its campaign at "sent", even  *)
(* if a cancel or a removal came in between.                               *)
SubmittedCampaignIsSent ==
  \A c \in Campaigns : job[c].state = "submitted" => campaign[c].state \in {"sent", "deleted"}

(* What a transport is about to write is what the provider did, and a      *)
(* submission not yet settled is about to be written, or has been.         *)
MarksAreTrue ==
  \A w \in Workers :
    /\ mark[w] # "none" => run[w].pc = "settle"
    /\ mark[w] = "sent" => accepted[run[w].job] = 1
    /\ run[w].pc = "settle" /\ run[w].result = "submitted" /\ run[w].job \in Campaigns =>
         \/ mark[w] = "sent"
         \/ mark[w] = "none" /\ campaign[run[w].job].state \in {"sent", "deleted"}

(* A job never precedes its campaign, nor a reaction the message.          *)
InOrder ==
  /\ \A c \in Campaigns :
       creating[c] # "no" \/ job[c].state # "unborn" => campaign[c].state # "none"
  /\ \A f \in reacting : accepted[ParentOf[f]] = 1

WithdrawnJobs ==
  \A c \in Campaigns : cancelling[c] = "withdrawn" => job[c].state \in {"cancelled", "deleted"}

(* The inductive invariant of campaigns, beside the scheduler's own.       *)
CInv ==
  /\ CampaignTypeOK
  /\ MarksAreTrue
  /\ InOrder
  /\ SentCampaignWasSent
  /\ SubmittedCampaignIsSent
  /\ WithdrawnJobs
  /\ WithdrawnIsSafe

(* What the cancel test says, that cancelling "marks campaign cancelled    *)
(* and cancels the linked scheduler job": nothing is sent afterwards.      *)
CancelledNeverSent ==
  \A c \in Campaigns : campaign[c].state = "cancelled" => accepted[c] = 0
=============================================================================
