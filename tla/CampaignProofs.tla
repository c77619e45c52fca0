---------------------------- MODULE CampaignProofs ----------------------------
(***************************************************************************)
(* Proofs about Campaign, for every set of campaigns and follow-ups and    *)
(* every value of the scheduler's constants: every step of a campaign is a *)
(* step of the scheduler, and CInv is inductive given the scheduler's      *)
(* invariant.                                                              *)
(***************************************************************************)
EXTENDS Campaign, SchedulerProofs

LEMMA NamesAreJobs == Campaigns \subseteq Jobs /\ FollowUps \subseteq Jobs /\ Jobs \subseteq Workers
  BY CampaignAssumption DEF Workers

LEMMA StepIsSchedulers == [CampaignNext]_allvars => [Next]_vars
<1> SUFFICES ASSUME [CampaignNext]_allvars PROVE [Next]_vars
  OBVIOUS
<1>1. ASSUME NEW c \in Campaigns, Service(c) PROVE [Next]_vars
  <2>1. CASE QueueJob(c)
    <3>1. PICK t \in 1..MaxTime : InsertRow(c, t)
      BY <2>1 DEF QueueJob
    <3>2. t \in 0..MaxTime
      BY TimeAssumption
    <3>3. Schedule(c)
      BY <2>1, <3>1, <3>2 DEF QueueJob, Schedule
    <3> QED
      BY <3>3, NamesAreJobs DEF Next, Request
  <2>2. CASE CancelJob(c)
    BY <2>2, NamesAreJobs DEF CancelJob, Next, Request
  <2>3. CASE UNCHANGED vars
    BY <2>3
  <2> QED
    BY <1>1, <2>1, <2>2, <2>3 DEF Service, CreateCampaign, AttachSchedulerJob, CancelRead, CancelRow,
       RemoveCampaign
<1>2. ASSUME NEW f \in FollowUps, ReactionRead(f) \/ FollowUp(f) PROVE [Next]_vars
  BY <1>2, NamesAreJobs DEF ReactionRead, FollowUp, Next, Request
<1>3. ASSUME NEW w \in Workers, CampaignDispatch(w) PROVE [Next]_vars
  <2>1. CASE MarkCampaign(w)
    BY <2>1 DEF MarkCampaign
  <2>2. CASE ~MarkCampaign(w)
    <3>1. Dispatch(w) \/ Throw(w)
      BY <1>3, <2>2 DEF CampaignDispatch, GateBypass, CampaignAccepted, CampaignRefused,
         SettleMarked, CampaignThrow, Dispatch
    <3> QED
      BY <3>1 DEF Next
  <2> QED
    BY <2>1, <2>2
<1>4. ASSUME NEW j \in Jobs, DeleteJob(j) PROVE Next
  BY <1>4 DEF DeleteJob, Next, Request
<1>5. CASE SchedulerOnly
  BY <1>5 DEF SchedulerOnly, Next, Request
<1>6. CASE CampaignCrash
  BY <1>6 DEF CampaignCrash, Next
<1>7. CASE UNCHANGED allvars
  BY <1>7 DEF allvars
<1> QED
  BY <1>1, <1>2, <1>3, <1>4, <1>5, <1>6, <1>7 DEF CampaignNext

(* Whatever the campaign service and transport await, every behaviour of   *)
(* campaigns is one of the durable scheduler.                              *)
THEOREM CampaignIsScheduling == CampaignSpec => CampaignsUseScheduler
<1>1. CampaignInit => Init
  BY DEF CampaignInit
<1> QED
  BY <1>1, StepIsSchedulers, PTL DEF CampaignSpec, Spec, CampaignsUseScheduler

(* No campaign and no follow-up is handed to the provider twice.           *)
THEOREM CampaignDeliveredAtMostOnce == CampaignSpec => []AtMostOnceDelivery
  BY CampaignIsScheduling, DeliveredAtMostOnce, PTL DEF CampaignsUseScheduler

------------------------------------------------------------------------------
LEMMA InitCInv == CampaignInit => CInv
<1> SUFFICES ASSUME CampaignInit PROVE CInv
  OBVIOUS
<1> USE NamesAreJobs DEF CampaignInit, Init
<1>1. CampaignTypeOK
  BY DEF CampaignTypeOK, CampaignStates, NoMark
<1>2. MarksAreTrue
  BY DEF MarksAreTrue, NoMark, NoRun, NewRun
<1>3. InOrder /\ WithdrawnJobs /\ WithdrawnIsSafe
  BY DEF InOrder, WithdrawnJobs, WithdrawnIsSafe, NewRow
<1>4. SentCampaignWasSent
  BY DEF SentCampaignWasSent, NewRow
<1>5. SubmittedCampaignIsSent
  BY DEF SubmittedCampaignIsSent, NewRow
<1> QED
  BY <1>1, <1>2, <1>3, <1>4, <1>5 DEF CInv

(* What one step may do to the rows of campaigns.                          *)
LEMMA RowMoves ==
  ASSUME CInv, [CampaignNext]_allvars, NEW c \in Campaigns
  PROVE  /\ campaign'[c].state # campaign[c].state =>
              \/ campaign[c].state = "none" /\ campaign'[c].state = "scheduled"
              \/ campaign[c].state = "scheduled" /\ campaign'[c].state = "cancelled"
              \/ /\ campaign[c].state \in {"cancelled", "sent", "failed"}
                 /\ campaign'[c].state = "deleted"
              \/ \E w \in Workers : MarkCampaign(w) /\ run[w].job = c /\ campaign'[c].state = mark[w]
         /\ campaign' \in [Campaigns -> [state: CampaignStates, job: BOOLEAN]]
<1> USE DEF CInv, CampaignTypeOK, CampaignStates
<1> DEFINE Rows == [Campaigns -> [state: CampaignStates, job: BOOLEAN]]
<1>1. ASSUME NEW d \in Campaigns, CreateCampaign(d)
      PROVE  /\ campaign' \in Rows /\ campaign[d].state = "none"
             /\ campaign'[c].state = campaign[c].state \/ (c = d /\ campaign'[c].state = "scheduled")
  BY <1>1 DEF CreateCampaign
<1>2. ASSUME NEW d \in Campaigns, AttachSchedulerJob(d)
      PROVE  campaign' \in Rows /\ campaign'[c].state = campaign[c].state
  BY <1>2 DEF AttachSchedulerJob
<1>3. ASSUME NEW d \in Campaigns, CancelRow(d)
      PROVE  /\ campaign' \in Rows
             /\ \/ campaign'[c].state = campaign[c].state
                \/ campaign[c].state = "scheduled" /\ campaign'[c].state = "cancelled"
  BY <1>3 DEF CancelRow
<1>4. ASSUME NEW d \in Campaigns, RemoveCampaign(d)
      PROVE  /\ campaign' \in Rows
             /\ \/ campaign'[c].state = campaign[c].state
                \/ /\ campaign[c].state \in {"cancelled", "sent", "failed"}
                   /\ campaign'[c].state = "deleted"
  BY <1>4 DEF RemoveCampaign
<1>5. ASSUME NEW w \in Workers, MarkCampaign(w)
      PROVE  /\ campaign' \in Rows
             /\ \/ campaign'[c].state = campaign[c].state
                \/ run[w].job = c /\ campaign'[c].state = mark[w]
  <2>1. run[w].job \in Campaigns /\ mark[w] \in {"sent", "failed"}
    BY <1>5 DEF MarkCampaign
  <2> QED
    BY <1>5, <2>1 DEF MarkCampaign
<1>6. ASSUME NEW j \in Jobs, DeleteJob(j)
      PROVE  campaign' \in Rows /\ campaign'[c].state = campaign[c].state
  BY <1>6 DEF DeleteJob
<1>7. CASE UNCHANGED campaign
  BY <1>7
<1>8. ASSUME NEW w \in Workers, CampaignDispatch(w)
      PROVE  UNCHANGED campaign \/ MarkCampaign(w)
  BY <1>8 DEF CampaignDispatch, GateBypass, CampaignAccepted, CampaignRefused, SettleMarked,
     CampaignThrow, cvars
<1>9. ASSUME NEW d \in Campaigns, Service(d)
      PROVE  \/ UNCHANGED campaign
             \/ CreateCampaign(d) \/ AttachSchedulerJob(d) \/ CancelRow(d) \/ RemoveCampaign(d)
  BY <1>9 DEF Service, QueueJob, CancelRead, CancelJob
<1>10. ASSUME \/ \E f \in FollowUps : ReactionRead(f) \/ FollowUp(f)
              \/ SchedulerOnly \/ CampaignCrash \/ UNCHANGED allvars
       PROVE  UNCHANGED campaign
  BY <1>10 DEF ReactionRead, FollowUp, SchedulerOnly, CampaignCrash, allvars, cvars
<1> HIDE DEF CInv, CampaignTypeOK, CampaignStates, Rows
<1>11. \/ UNCHANGED campaign
       \/ \E d \in Campaigns : CreateCampaign(d) \/ AttachSchedulerJob(d) \/ CancelRow(d) \/ RemoveCampaign(d)
       \/ \E w \in Workers : MarkCampaign(w)
       \/ \E j \in Jobs : DeleteJob(j)
  BY <1>8, <1>9, <1>10 DEF CampaignNext
<1>12. ASSUME NEW d \in Campaigns,
              CreateCampaign(d) \/ AttachSchedulerJob(d) \/ CancelRow(d) \/ RemoveCampaign(d)
       PROVE  /\ campaign' \in Rows
              /\ campaign'[c].state # campaign[c].state =>
                   \/ campaign[c].state = "none" /\ campaign'[c].state = "scheduled"
                   \/ campaign[c].state = "scheduled" /\ campaign'[c].state = "cancelled"
                   \/ /\ campaign[c].state \in {"cancelled", "sent", "failed"}
                      /\ campaign'[c].state = "deleted"
  BY <1>1, <1>2, <1>3, <1>4, <1>12
<1> QED
  BY <1>5, <1>6, <1>7, <1>11, <1>12 DEF Rows

(* What the provider took stays taken; it takes only what is being sent.   *)
LEMMA AcceptedMoves ==
  ASSUME IInv, [Next]_vars, NEW j \in Jobs
  PROVE  /\ accepted[j] = 1 => accepted'[j] = 1
         /\ \/ accepted'[j] = accepted[j]
            \/ \E w \in Workers : InFlight(w) /\ run[w].job = j
<1>1. ASSUME NEW w \in Workers, TransportAccepted(w)
      PROVE  /\ accepted[j] = 1 => accepted'[j] = 1
             /\ accepted'[j] = accepted[j] \/ (InFlight(w) /\ run[w].job = j)
  <2>1. InFlight(w) /\ run[w].job \in Jobs /\ accepted[run[w].job] = 0
    BY <1>1 DEF TransportAccepted, InFlight, IInv, DispatchesSound, SentAsReported
  <2> QED
    BY <1>1, <2>1 DEF TransportAccepted, IInv, TypeOK
<1>2. UNCHANGED accepted \/ \E w \in Workers : TransportAccepted(w)
  BY DEF Next, vars, Request, Schedule, SendNow, Edit, Cancel, DeleteCheck, DeleteRemove,
     ImmediateClaim, ImmediateNothing, Dispatch, GateAllows, GateDenies, TransportRefused, Settle,
     Acknowledge, Throw, TickerStep, TickRecover, TickMarkMissed, TickerClaim, TickEnd, Crash, PassTime
<1> QED
  BY <1>1, <1>2

LEMMA TypeKept ==
  ASSUME CInv, [CampaignNext]_allvars
  PROVE  CampaignTypeOK'
<1> USE DEF CInv, CampaignTypeOK
<1>1. campaign' \in [Campaigns -> [state: CampaignStates, job: BOOLEAN]]
  <2>1. CASE Campaigns = {}
    BY <2>1 DEF CampaignNext, Service, ReactionRead, FollowUp, CampaignDispatch, GateBypass,
       CampaignAccepted, CampaignRefused, MarkCampaign, SettleMarked, CampaignThrow, DeleteJob,
       SchedulerOnly, CampaignCrash, allvars, cvars
  <2>2. CASE Campaigns # {}
    BY <2>2, RowMoves
  <2> QED
    BY <2>1, <2>2
<1>2. creating' \in [Campaigns -> {"no", "created", "queued"}]
  BY DEF CampaignNext, Service, CreateCampaign, QueueJob, AttachSchedulerJob, CancelRead, CancelJob,
     CancelRow, RemoveCampaign, ReactionRead, FollowUp, CampaignDispatch, GateBypass,
     CampaignAccepted, CampaignRefused, MarkCampaign, SettleMarked, CampaignThrow, DeleteJob,
     SchedulerOnly, CampaignCrash, allvars, cvars
<1>3. cancelling' \in [Campaigns -> {"no", "job", "row", "withdrawn"}]
  BY DEF CampaignNext, Service, CreateCampaign, QueueJob, AttachSchedulerJob, CancelRead, CancelJob,
     CancelRow, RemoveCampaign, ReactionRead, FollowUp, CampaignDispatch, GateBypass,
     CampaignAccepted, CampaignRefused, MarkCampaign, SettleMarked, CampaignThrow, DeleteJob,
     SchedulerOnly, CampaignCrash, allvars, cvars
<1>4. reacting' \subseteq FollowUps
  BY DEF CampaignNext, Service, CreateCampaign, QueueJob, AttachSchedulerJob, CancelRead, CancelJob,
     CancelRow, RemoveCampaign, ReactionRead, FollowUp, CampaignDispatch, GateBypass,
     CampaignAccepted, CampaignRefused, MarkCampaign, SettleMarked, CampaignThrow, DeleteJob,
     SchedulerOnly, CampaignCrash, allvars, cvars
<1>5. mark' \in [Workers -> {"none", "sent", "failed"}]
  BY DEF CampaignNext, Service, CreateCampaign, QueueJob, AttachSchedulerJob, CancelRead, CancelJob,
     CancelRow, RemoveCampaign, ReactionRead, FollowUp, CampaignDispatch, GateBypass,
     CampaignAccepted, CampaignRefused, MarkCampaign, SettleMarked, CampaignThrow, DeleteJob,
     SchedulerOnly, CampaignCrash, allvars, cvars, SetMark, NoMark
<1> QED
  BY <1>1, <1>2, <1>3, <1>4, <1>5

------------------------------------------------------------------------------
(* The marks of the transport.                                             *)

(* A step that leaves each dispatch alone, or abandons or starts it, and   *)
(* takes no campaign back from "sent".                                     *)
LEMMA MarksKeptBy ==
  ASSUME IInv, CInv, [CampaignNext]_allvars,
         \A v \in Workers : \/ run'[v] = run[v] /\ mark'[v] = mark[v]
                            \/ run'[v].pc # "settle" /\ mark'[v] = "none",
         \A c \in Campaigns : campaign[c].state \in {"sent", "deleted"}
                               => campaign'[c].state \in {"sent", "deleted"}
  PROVE  MarksAreTrue'
<1> SUFFICES ASSUME NEW w \in Workers, run'[w] = run[w], mark'[w] = mark[w]
             PROVE  MarksAreTrue!(w)'
  BY DEF MarksAreTrue
<1>1. run[w].pc = "settle" => run[w].job \in Jobs
  BY DEF IInv, DispatchesSound, InFlight
<1>2. run[w].pc = "settle" /\ accepted[run[w].job] = 1 => accepted'[run[w].job] = 1
  BY <1>1, StepIsSchedulers, AcceptedMoves
<1> QED
  BY <1>2 DEF CInv, MarksAreTrue

(* The three steps of a transport: it sends, it marks, and only then does  *)
(* the scheduler settle.                                                   *)
LEMMA SendKeepsMarks ==
  ASSUME IInv, CInv, NEW w \in Workers, CampaignAccepted(w) \/ CampaignRefused(w)
  PROVE  MarksAreTrue'
<1> USE DEF CInv, CampaignTypeOK, MarksAreTrue
<1>0. /\ run \in [Workers -> Run] /\ accepted \in [Jobs -> Nat] /\ mark[w] = "none"
      /\ run[w].pc = "send" /\ run[w].job \in Jobs /\ accepted[run[w].job] = 0
      /\ \A v \in Workers : v # w => run'[v] = run[v] /\ mark'[v] = mark[v]
      /\ campaign' = campaign
  <2>1. run[w].pc = "send" /\ campaign' = campaign
    BY DEF CampaignAccepted, CampaignRefused, TransportAccepted, TransportRefused
  <2>2. run \in [Workers -> Run] /\ accepted \in [Jobs -> Nat]
    BY DEF IInv, TypeOK
  <2>3. \A v \in Workers : v # w => run'[v] = run[v]
    BY <2>2 DEF CampaignAccepted, CampaignRefused, TransportAccepted, TransportRefused, Advance
  <2>4. \A v \in Workers : v # w => mark'[v] = mark[v]
    BY DEF CampaignAccepted, CampaignRefused, SetMark
  <2>5. run[w].job \in Jobs /\ accepted[run[w].job] = 0
    BY <2>1 DEF IInv, DispatchesSound, InFlight, SentAsReported
  <2> QED
    BY <2>1, <2>2, <2>3, <2>4, <2>5
<1>1. \A v \in Workers : v # w /\ run[v].pc = "settle" => run[v].job # run[w].job /\ run[v].job \in Jobs
  BY <1>0 DEF IInv, OneDispatchPerJob, DispatchesSound, InFlight
<1>2. PICK r \in Results :
        /\ run' = [run EXCEPT ![w] = [run[w] EXCEPT !.pc = "settle", !.result = r]]
        /\ CampaignRefused(w) => r # "submitted"
        /\ CampaignAccepted(w) /\ r # "submitted" => run'[w].result # "submitted"
  <2>1. CASE CampaignAccepted(w)
    <3>1. PICK r \in {"submitted", "unknown", "failed"} : Advance(w, "settle", r)
      BY <2>1 DEF CampaignAccepted, TransportAccepted
    <3>2. run'[w].result = r
      BY <1>0, <3>1 DEF Advance, Run
    <3>3. run[w].pc = "send" /\ ~CampaignRefused(w)
      <4>1. accepted'[run[w].job] = 1
        BY <1>0, <2>1 DEF CampaignAccepted, TransportAccepted
      <4> QED
        BY <1>0, <4>1 DEF CampaignRefused, TransportRefused
    <3> QED
      BY <3>1, <3>2, <3>3 DEF Advance, Results
  <2>2. CASE CampaignRefused(w)
    <3>1. PICK r \in {"failed", "unknown", "retryable"} : Advance(w, "settle", r)
      BY <2>2, CampaignAssumption DEF CampaignRefused, TransportRefused
    <3>2. run'[w].result = r
      BY <1>0, <3>1 DEF Advance, Run
    <3> QED
      BY <3>1, <3>2 DEF Advance, Results
  <2> QED
    BY <2>1, <2>2
<1>3. run'[w].pc = "settle" /\ run'[w].job = run[w].job /\ run'[w].result = r
  BY <1>0, <1>2 DEF Run
<1>4. CASE CampaignAccepted(w)
  <2>1. accepted' = [accepted EXCEPT ![run[w].job] = accepted[run[w].job] + 1]
    BY <1>4 DEF CampaignAccepted, TransportAccepted
  <2>2. mark'[w] = IF run'[w].result = "submitted" THEN "sent" ELSE "failed"
    BY <1>4 DEF CampaignAccepted, SetMark
  <2> QED
    BY <1>0, <1>1, <1>3, <2>1, <2>2
<1>5. CASE CampaignRefused(w)
  <2>1. accepted' = accepted /\ r # "submitted" /\ mark'[w] \in {"none", "failed"}
    BY <1>0, <1>2, <1>5 DEF CampaignRefused, TransportRefused, SetMark
  <2> QED
    BY <1>0, <1>3, <2>1
<1> QED
  BY <1>4, <1>5

LEMMA MarkKeepsMarks ==
  ASSUME IInv, CInv, NEW w \in Workers, MarkCampaign(w)
  PROVE  MarksAreTrue'
<1> USE DEF CInv, CampaignTypeOK, MarksAreTrue
<1> DEFINE c == run[w].job
<1>0. /\ UNCHANGED <<run, accepted>> /\ mark[w] \in {"sent", "failed"} /\ c \in Campaigns
      /\ run[w].pc = "settle" /\ mark' = [mark EXCEPT ![w] = "none"]
      /\ campaign' = IF Live(c) THEN [campaign EXCEPT ![c].state = mark[w]] ELSE campaign
  BY DEF MarkCampaign, SetMark, vars
<1>1. campaign[c].state # "none"
  <2>1. job[c].state # "unborn"
    BY <1>0 DEF IInv, DispatchesSound, InFlight, HoldsOrLost
  <2> QED
    BY <1>0, <2>1 DEF InOrder
<1>2. run[w].result = "submitted" => campaign'[c].state \in {"sent", "deleted"}
  BY <1>0, <1>1 DEF Live
<1>3. \A v \in Workers : v # w /\ run[v].pc = "settle" /\ run[v].job \in Campaigns
        => run[v].job # c /\ campaign'[run[v].job] = campaign[run[v].job]
  BY <1>0 DEF IInv, OneDispatchPerJob, InFlight
<1> QED
  BY <1>0, <1>2, <1>3

LEMMA MarksKept ==
  ASSUME IInv, CInv, [CampaignNext]_allvars
  PROVE  MarksAreTrue'
<1> DEFINE Quiet == \A v \in Workers : \/ run'[v] = run[v] /\ mark'[v] = mark[v]
                                       \/ run'[v].pc # "settle" /\ mark'[v] = "none"
<1>0. run \in [Workers -> Run] /\ mark \in [Workers -> {"none", "sent", "failed"}]
      /\ \A v \in Workers : run[v].pc # "settle" => mark[v] = "none"
  BY DEF IInv, TypeOK, CInv, CampaignTypeOK, MarksAreTrue
<1>1. ASSUME NEW c \in Campaigns, Service(c) PROVE Quiet
  BY <1>1 DEF Service, CreateCampaign, QueueJob, AttachSchedulerJob, CancelRead, CancelJob, Cancel,
     CancelRow, RemoveCampaign, vars
<1>2. ASSUME NEW f \in FollowUps, ReactionRead(f) \/ FollowUp(f) PROVE Quiet
  <2> DEFINE called == NewRun("called")
  <2>1. CASE ReactionRead(f)
    BY <2>1 DEF ReactionRead, vars
  <2>2. CASE FollowUp(f)
    <3>1. run' = [run EXCEPT ![f] = called] /\ run[f].pc = "idle" /\ mark' = mark
      BY <2>2 DEF FollowUp, SendNow
    <3>2. called.pc = "called"
      BY DEF NewRun
    <3> HIDE DEF called
    <3> QED
      BY <1>0, <3>1, <3>2, NamesAreJobs
  <2> QED
    BY <1>2, <2>1, <2>2
<1>3. ASSUME NEW w \in Workers, GateBypass(w) \/ SettleMarked(w) \/ CampaignThrow(w) PROVE Quiet
  <2>1. CASE GateBypass(w)
    <3>1. run[w].pc = "gate" /\ run' = [run EXCEPT ![w] = [run[w] EXCEPT !.pc = "send", !.result = "none"]]
          /\ mark' = mark
      BY <2>1 DEF GateBypass, GateAllows, Advance, cvars
    <3>2. run'[w].pc = "send"
      BY <1>0, <3>1 DEF Run
    <3> QED
      BY <1>0, <3>1, <3>2
  <2>2. CASE SettleMarked(w)
    <3>1. mark[w] = "none" /\ run' = [run EXCEPT ![w] = NoRun] /\ mark' = mark
      BY <2>2 DEF SettleMarked, Settle, cvars
    <3> QED
      BY <1>0, <3>1 DEF NoRun, NewRun
  <2>3. CASE CampaignThrow(w)
    <3>1. run' = [run EXCEPT ![w] = NoRun] /\ mark' = [mark EXCEPT ![w] = "none"]
      BY <2>3 DEF CampaignThrow, Throw, SetMark
    <3> QED
      BY <1>0, <3>1 DEF NoRun, NewRun
  <2> QED
    BY <1>3, <2>1, <2>2, <2>3
<1>4. ASSUME NEW j \in Jobs, DeleteJob(j) PROVE Quiet
  BY <1>4 DEF DeleteJob, DeleteRemove
<1>5. ASSUME SchedulerOnly PROVE Quiet
  <2>0. mark' = mark
    BY <1>5 DEF SchedulerOnly, cvars
  <2>1. ASSUME NEW w \in Workers, NEW j \in Jobs, ClaimDue(w, j), run[w].pc \in {"idle", "called"} PROVE Quiet
    <3>1. run'[w].pc = "gate" /\ \A v \in Workers : v # w => run'[v] = run[v]
      BY <1>0, <2>1 DEF ClaimDue
    <3> QED
      BY <1>0, <2>0, <2>1, <3>1
  <2>2. ASSUME NEW j \in Jobs, ImmediateNothing(j) PROVE Quiet
    <3>1. run[j].pc = "called" /\ run' = [run EXCEPT ![j] = NoRun]
      BY <2>2 DEF ImmediateNothing
    <3> QED
      BY <1>0, <2>0, <3>1, NamesAreJobs DEF NoRun, NewRun
  <2>3. CASE run' = run
    BY <2>0, <2>3
  <2>4. Ticker \in Workers
    BY DEF Workers
  <2> QED
    BY <1>5, <2>1, <2>2, <2>3, <2>4, NamesAreJobs DEF SchedulerOnly, Edit, Cancel, DeleteCheck,
       Acknowledge, ImmediateClaim, TickerStep, TickRecover, TickMarkMissed, TickerClaim, TickEnd, PassTime
<1>6. ASSUME CampaignCrash PROVE Quiet
  BY <1>6 DEF CampaignCrash, Crash, NoMark, NoRun, NewRun
<1>7. ASSUME UNCHANGED allvars PROVE Quiet
  BY <1>7 DEF allvars, vars, cvars
<1>8. (\A w \in Workers : ~MarkCampaign(w)) =>
        \A c \in Campaigns : campaign[c].state \in {"sent", "deleted"}
                            => campaign'[c].state \in {"sent", "deleted"}
  BY RowMoves
<1>9. CASE \E w \in Workers : MarkCampaign(w)
  BY <1>9, MarkKeepsMarks
<1>10. CASE ~(\E w \in Workers : MarkCampaign(w)) /\ Quiet
  BY <1>8, <1>10, MarksKeptBy
<1>11. CASE \E w \in Workers : CampaignAccepted(w) \/ CampaignRefused(w)
  BY <1>11, SendKeepsMarks
<1> HIDE DEF Quiet
<1> QED
  BY <1>1, <1>2, <1>3, <1>4, <1>5, <1>6, <1>7, <1>9, <1>10, <1>11 DEF CampaignNext, CampaignDispatch

------------------------------------------------------------------------------
(* Campaigns and their jobs.                                               *)

(* Every step but the two insertions and the settling leaves the unborn    *)
(* unborn and submits nothing.                                             *)
LEMMA JobMoves ==
  ASSUME IInv, CInv, [CampaignNext]_allvars, NEW j \in Jobs
  PROVE  /\ job[j].state = "unborn" /\ job'[j].state # "unborn" =>
              \/ j \in Campaigns /\ QueueJob(j)
              \/ j \in FollowUps /\ FollowUp(j)
         /\ job[j].state # "submitted" /\ job'[j].state = "submitted" =>
              \E w \in Workers : /\ SettleMarked(w) /\ run[w].job = j
                                 /\ run[w].pc = "settle" /\ run[w].result = "submitted"
         /\ job[j].state \in {"cancelled", "deleted"} => job'[j].state \in {"cancelled", "deleted"}
<1> DEFINE Unborn == job[j].state = "unborn" => job'[j].state = "unborn"
           Unsent == job'[j].state = "submitted" => job[j].state = "submitted"
<1>0. job \in [Jobs -> Row]
  BY DEF IInv, TypeOK
<1>1. job[j].state \in {"cancelled", "deleted"} => job'[j].state \in {"cancelled", "deleted"}
  BY StepIsSchedulers, MovesOfAJob DEF Terminal, Deletable
<1>2. ASSUME NEW k \in Jobs, NEW t, InsertRow(k, t)
      PROVE  Unsent /\ (k # j => Unborn)
  BY <1>0, <1>2 DEF InsertRow, NewRow
<1>3. ASSUME NEW c \in Campaigns, Service(c)
      PROVE  Unsent /\ (Unborn \/ (c = j /\ QueueJob(c)))
  <2>1. CASE QueueJob(c)
    BY <1>2, <2>1, NamesAreJobs DEF QueueJob
  <2>2. CASE CancelJob(c)
    <3>1. Cancel(c) \/ UNCHANGED job
      BY <2>2 DEF CancelJob, vars
    <3> QED
      BY <3>1, QuietMoves, NamesAreJobs
  <2>3. CASE UNCHANGED job
    BY <2>3
  <2> QED
    BY <1>3, <2>1, <2>2, <2>3 DEF Service, CreateCampaign, AttachSchedulerJob, CancelRead, CancelRow,
       RemoveCampaign, vars
<1>4. ASSUME NEW f \in FollowUps, ReactionRead(f) \/ FollowUp(f)
      PROVE  Unsent /\ (Unborn \/ (f = j /\ FollowUp(f)))
  <2>1. CASE ReactionRead(f)
    BY <2>1 DEF ReactionRead, vars
  <2>2. CASE FollowUp(f)
    BY <1>2, <2>2, NamesAreJobs DEF FollowUp, SendNow
  <2> QED
    BY <1>4, <2>1, <2>2
<1>5. ASSUME NEW w \in Workers, SettleMarked(w)
      PROVE  Unborn /\ (Unsent \/ (run[w].job = j /\ run[w].pc = "settle" /\ run[w].result = "submitted"))
  <2> DEFINE k == run[w].job
  <2>1. run[w].pc = "settle" /\ Settle(w)
    BY <1>5 DEF SettleMarked, Settle
  <2>2. CASE job[k].state = "attempting" /\ job[k].leaseOwner = w
    <3>1. job' = [job EXCEPT ![k] = SettledRow(w, job[k])] /\ k \in Jobs
      BY <2>1, <2>2 DEF Settle, IInv, DispatchesSound, InFlight
    <3>2. SettledRow(w, job[k]).state = SettledState(w)
      BY <1>0, <2>1, <3>1, SettledRowInRow
    <3>3. SettledState(w) = "submitted" => run[w].result = "submitted"
      BY DEF SettledState
    <3> QED
      BY <1>0, <2>1, <2>2, <3>1, <3>2, <3>3
  <2>3. CASE ~(job[k].state = "attempting" /\ job[k].leaseOwner = w)
    BY <2>1, <2>3 DEF Settle
  <2> QED
    BY <2>2, <2>3
<1>6. ASSUME NEW w \in Workers, CampaignDispatch(w), ~SettleMarked(w)
      PROVE  Unsent /\ Unborn
  BY <1>6 DEF CampaignDispatch, GateBypass, CampaignAccepted, CampaignRefused, MarkCampaign,
     CampaignThrow, GateAllows, TransportAccepted, TransportRefused, Throw, vars
<1>7. ASSUME NEW k \in Jobs, DeleteJob(k)
      PROVE  Unsent /\ Unborn
  BY <1>7, QuietMoves DEF DeleteJob
<1>8. ASSUME SchedulerOnly
      PROVE  Unsent /\ Unborn
  BY <1>8, QuietMoves DEF SchedulerOnly, PassTime
<1>9. ASSUME CampaignCrash \/ UNCHANGED allvars
      PROVE  Unsent /\ Unborn
  BY <1>9 DEF CampaignCrash, Crash, allvars, vars
<1> HIDE DEF Unborn, Unsent
<1>10. Unborn \/ (j \in Campaigns /\ QueueJob(j)) \/ (j \in FollowUps /\ FollowUp(j))
  BY <1>3, <1>4, <1>5, <1>6, <1>7, <1>8, <1>9 DEF CampaignNext
<1>11. \/ Unsent
       \/ \E w \in Workers : /\ SettleMarked(w) /\ run[w].job = j
                             /\ run[w].pc = "settle" /\ run[w].result = "submitted"
  BY <1>3, <1>4, <1>5, <1>6, <1>7, <1>8, <1>9 DEF CampaignNext
<1> QED
  BY <1>1, <1>10, <1>11 DEF Unborn, Unsent

LEMMA InOrderKept ==
  ASSUME IInv, CInv, [CampaignNext]_allvars
  PROVE  InOrder'
<1> USE DEF CInv, CampaignTypeOK
<1>1. ASSUME NEW c \in Campaigns, campaign'[c].state = "none"
      PROVE  creating'[c] = "no" /\ job'[c].state = "unborn"
  <2>1. campaign[c].state = "none"
    <3>1. ASSUME NEW w \in Workers, MarkCampaign(w) PROVE mark[w] # "none"
      BY <3>1 DEF MarkCampaign
    <3> QED
      BY <1>1, <3>1, RowMoves
  <2>2. creating[c] = "no" /\ job[c].state = "unborn"
    BY <2>1 DEF InOrder
  <2>3. creating'[c] = "no"
    <3>1. ~CreateCampaign(c)
      BY <1>1 DEF CreateCampaign
    <3>2. ASSUME NEW d \in Campaigns, Service(d) PROVE creating'[c] = "no"
      BY <2>2, <3>1, <3>2 DEF Service, CreateCampaign, QueueJob, AttachSchedulerJob, CancelRead,
         CancelJob, CancelRow, RemoveCampaign
    <3> QED
      BY <2>2, <3>2 DEF CampaignNext, ReactionRead, FollowUp, CampaignDispatch, GateBypass,
         CampaignAccepted, CampaignRefused, MarkCampaign, SettleMarked, CampaignThrow, DeleteJob,
         SchedulerOnly, CampaignCrash, allvars, cvars
  <2>4. job'[c].state = "unborn"
    <3>1. ~QueueJob(c)
      BY <2>2 DEF QueueJob
    <3>2. c \notin FollowUps
      BY CampaignAssumption
    <3> QED
      BY <2>2, <3>1, <3>2, JobMoves, NamesAreJobs
  <2> QED
    BY <2>3, <2>4
<1>2. ASSUME NEW f \in reacting' PROVE accepted'[ParentOf[f]] = 1
  <2>1. f \in reacting \/ (f \in FollowUps /\ ReactionRead(f))
    BY <1>2 DEF CampaignNext, Service, CreateCampaign, QueueJob, AttachSchedulerJob, CancelRead,
       CancelJob, CancelRow, RemoveCampaign, ReactionRead, FollowUp, CampaignDispatch, GateBypass,
       CampaignAccepted, CampaignRefused, MarkCampaign, SettleMarked, CampaignThrow, DeleteJob,
       SchedulerOnly, CampaignCrash, allvars, cvars
  <2>2. ParentOf[f] \in Campaigns
    BY <2>1, CampaignAssumption
  <2>3. accepted[ParentOf[f]] = 1
    BY <2>1, <2>2 DEF InOrder, ReactionRead, SentCampaignWasSent
  <2> QED
    BY <2>2, <2>3, NamesAreJobs, StepIsSchedulers, AcceptedMoves
<1> QED
  BY <1>1, <1>2 DEF InOrder

LEMMA SentKept ==
  ASSUME IInv, CInv, [CampaignNext]_allvars
  PROVE  SentCampaignWasSent'
<1> USE DEF CInv
<1>1. ASSUME NEW c \in Campaigns, campaign'[c].state = "sent" PROVE accepted'[c] = 1
  <2>1. CASE campaign[c].state = "sent"
    BY <2>1, NamesAreJobs, StepIsSchedulers, AcceptedMoves DEF SentCampaignWasSent
  <2>2. CASE campaign[c].state # "sent"
    <3>1. PICK w \in Workers : run[w].job = c /\ mark[w] = "sent"
      BY <1>1, <2>2, RowMoves
    <3>2. accepted[c] = 1
      BY <3>1 DEF MarksAreTrue
    <3> QED
      BY <3>2, NamesAreJobs, StepIsSchedulers, AcceptedMoves
  <2> QED
    BY <2>1, <2>2
<1>2. ASSUME NEW f \in FollowUps, job'[f].state # "unborn" PROVE accepted'[ParentOf[f]] = 1
  <2>1. ParentOf[f] \in Campaigns /\ f \notin Campaigns
    BY CampaignAssumption
  <2>2. job[f].state # "unborn" \/ FollowUp(f)
    BY <1>2, <2>1, NamesAreJobs, JobMoves
  <2>3. accepted[ParentOf[f]] = 1
    BY <2>2 DEF SentCampaignWasSent, InOrder, FollowUp
  <2> QED
    BY <2>1, <2>3, NamesAreJobs, StepIsSchedulers, AcceptedMoves
<1> QED
  BY <1>1, <1>2 DEF SentCampaignWasSent

LEMMA SubmittedKept ==
  ASSUME IInv, CInv, [CampaignNext]_allvars
  PROVE  SubmittedCampaignIsSent'
<1> USE DEF CInv
<1> SUFFICES ASSUME NEW c \in Campaigns, job'[c].state = "submitted"
             PROVE  campaign'[c].state \in {"sent", "deleted"}
  BY DEF SubmittedCampaignIsSent
<1>1. CASE job[c].state = "submitted"
  <2>1. campaign[c].state \in {"sent", "deleted"}
    BY <1>1 DEF SubmittedCampaignIsSent
  <2>2. ASSUME NEW w \in Workers, MarkCampaign(w) PROVE run[w].job # c
    <3>1. InFlight(w)
      BY <2>2 DEF MarkCampaign, MarksAreTrue, InFlight
    <3> QED
      BY <1>1, <3>1 DEF IInv, DispatchesSound, HoldsOrLost
  <2> QED
    BY <2>1, <2>2, RowMoves
<1>2. CASE job[c].state # "submitted"
  <2>1. PICK w \in Workers : /\ SettleMarked(w) /\ run[w].job = c
                             /\ run[w].pc = "settle" /\ run[w].result = "submitted"
    BY <1>2, NamesAreJobs, JobMoves
  <2>2. campaign[c].state \in {"sent", "deleted"} /\ campaign' = campaign
    BY <2>1 DEF SettleMarked, MarksAreTrue, cvars
  <2> QED
    BY <2>2
<1> QED
  BY <1>1, <1>2

(* A dispatch starts only with a job that may be claimed.                  *)
LEMMA RunMoves ==
  ASSUME IInv, [Next]_vars, NEW w \in Workers, InFlight(w)'
  PROVE  \/ InFlight(w) /\ run'[w].job = run[w].job
         \/ run'[w].job \in Jobs /\ job[run'[w].job].state \in Claimable
<1> DEFINE Goal == \/ InFlight(w) /\ run'[w].job = run[w].job
                   \/ run'[w].job \in Jobs /\ job[run'[w].job].state \in Claimable
<1>0. run \in [Workers -> Run]
  BY DEF IInv, TypeOK
<1>1. ASSUME NEW v \in Workers, NEW j \in Jobs, ClaimDue(v, j) PROVE Goal
  BY <1>0, <1>1 DEF ClaimDue, EarliestDue, Due, InFlight
<1>2. ASSUME NEW v \in Workers, run[v].pc \in {"gate", "send"}, NEW pc, NEW r, Advance(v, pc, r)
      PROVE  Goal
  <2>1. run'[v].job = run[v].job
    BY <1>0, <1>2 DEF Advance, Run
  <2>2. v # w => run'[w] = run[w]
    BY <1>0, <1>2 DEF Advance
  <2> QED
    BY <1>2, <2>1, <2>2 DEF InFlight
<1>3. ASSUME NEW v \in Workers, run' = [run EXCEPT ![v] = NoRun] PROVE Goal
  BY <1>0, <1>3 DEF InFlight, NoRun, NewRun
<1>4. CASE run' = run
  BY <1>4 DEF InFlight
<1>5. ASSUME NEW j \in Jobs, run' = [run EXCEPT ![j] = NewRun("called")] PROVE Goal
  BY <1>0, <1>5 DEF InFlight, NewRun
<1>6. CASE Crash
  BY <1>6 DEF Crash, InFlight, NoRun, NewRun
<1>7. ASSUME NEW v \in Workers, Dispatch(v) \/ Throw(v) PROVE Goal
  BY <1>2, <1>3, <1>7 DEF Dispatch, GateAllows, GateDenies, TransportAccepted, TransportRefused,
     Settle, Throw
<1>8. ASSUME NEW j \in Jobs, Request(j) \/ ImmediateClaim(j) \/ ImmediateNothing(j) PROVE Goal
  BY <1>1, <1>3, <1>4, <1>5, <1>8 DEF Request, Schedule, SendNow, Edit, Cancel, DeleteCheck,
     DeleteRemove, ImmediateClaim, ImmediateNothing, Workers
<1>9. CASE TickerStep \/ (\E j \in Jobs : Acknowledge(j)) \/ PassTime \/ UNCHANGED vars
  BY <1>1, <1>4, <1>9 DEF Acknowledge, TickerStep, TickRecover, TickMarkMissed, TickerClaim, TickEnd, PassTime,
     vars, Workers
<1> QED
  BY <1>6, <1>7, <1>8, <1>9 DEF Next

LEMMA WithdrawnKept ==
  ASSUME IInv, IInv', CInv, [CampaignNext]_allvars
  PROVE  WithdrawnJobs' /\ WithdrawnIsSafe'
<1> USE NamesAreJobs DEF CInv, CampaignTypeOK
<1> SUFFICES ASSUME NEW c \in Campaigns, cancelling'[c] = "withdrawn"
             PROVE  /\ job'[c].state \in {"cancelled", "deleted"}
                    /\ accepted'[c] = 0
                    /\ ~(\E w \in Workers : InFlight(w)' /\ run'[w].job = c)
  BY DEF WithdrawnJobs, WithdrawnIsSafe
<1>1. cancelling[c] = "withdrawn" \/ (CancelJob(c) /\ Cancel(c))
  BY DEF CampaignNext, Service, CreateCampaign, QueueJob, AttachSchedulerJob, CancelRead, CancelJob,
     CancelRow, RemoveCampaign, ReactionRead, FollowUp, CampaignDispatch, GateBypass,
     CampaignAccepted, CampaignRefused, MarkCampaign, SettleMarked, CampaignThrow, DeleteJob,
     SchedulerOnly, CampaignCrash, allvars, cvars
<1>2. CASE job'[c].state = "cancelled"
  <2>1. accepted'[c] = 0
    BY <1>2 DEF IInv, StateMatchesProvider
  <2>2. ASSUME NEW w \in Workers, InFlight(w)', run'[w].job = c PROVE FALSE
    BY <1>2, <2>2 DEF IInv, DispatchesSound, HoldsOrLost
  <2> QED
    BY <1>2, <2>1, <2>2
<1>3. CASE cancelling[c] = "withdrawn"
  <2>1. /\ job[c].state \in {"cancelled", "deleted"}
        /\ accepted[c] = 0 /\ ~(\E w \in Workers : InFlight(w) /\ run[w].job = c)
    BY <1>3 DEF WithdrawnJobs, WithdrawnIsSafe
  <2>2. job'[c].state \in {"cancelled", "deleted"}
    BY <2>1, JobMoves
  <2>3. accepted'[c] = 0
    BY <2>1, StepIsSchedulers, AcceptedMoves
  <2>4. ASSUME NEW w \in Workers, InFlight(w)', run'[w].job = c PROVE FALSE
    BY <2>1, <2>4, StepIsSchedulers, RunMoves DEF Claimable
  <2> QED
    BY <2>2, <2>3, <2>4
<1>4. CASE Cancel(c)
  <2>1. job'[c].state = "cancelled"
    BY <1>4 DEF Cancel, IInv, TypeOK, Row
  <2> QED
    BY <1>2, <2>1
<1> QED
  BY <1>1, <1>3, <1>4

------------------------------------------------------------------------------
(* CInv holds in every reachable state of campaigns.                       *)
THEOREM CampaignImpliesCInv == CampaignSpec => []CInv
<1>1. IInv /\ IInv' /\ CInv /\ [CampaignNext]_allvars => CInv'
  <2> SUFFICES ASSUME IInv, IInv', CInv, [CampaignNext]_allvars PROVE CInv'
    OBVIOUS
  <2> QED
    BY TypeKept, MarksKept, InOrderKept, SentKept, SubmittedKept, WithdrawnKept DEF CInv
<1> QED
  BY <1>1, InitCInv, CampaignIsScheduling, SpecImpliesIInv, PTL DEF CampaignSpec, CampaignsUseScheduler

(* A campaign is shown as sent only when WAHA took its message, and a      *)
(* follow-up exists only then.                                             *)
THEOREM SentOnlyIfSent == CampaignSpec => []SentCampaignWasSent
<1>1. CInv => SentCampaignWasSent
  BY DEF CInv
<1> QED
  BY <1>1, CampaignImpliesCInv, PTL

(* A campaign's row is never behind its submitted job.                     *)
THEOREM SubmittedIsShown == CampaignSpec => []SubmittedCampaignIsSent
<1>1. CInv => SubmittedCampaignIsSent
  BY DEF CInv
<1> QED
  BY <1>1, CampaignImpliesCInv, PTL

(* Once a cancel has withdrawn the job, nothing can send its message.      *)
THEOREM WithdrawnIsNeverSent == CampaignSpec => []WithdrawnIsSafe
<1>1. CInv => WithdrawnIsSafe
  BY DEF CInv
<1> QED
  BY <1>1, CampaignImpliesCInv, PTL

(* A campaign cancelled together with its job stays cancelled.             *)
THEOREM CancelledStaysCancelled == CampaignSpec => CancelledWithJobStays
<1> DEFINE Step == \A c \in Campaigns :
                     campaign[c].state = "cancelled" /\ job[c].state = "cancelled"
                       => campaign'[c].state \in {"cancelled", "deleted"}
<1>1. IInv /\ CInv /\ [CampaignNext]_allvars => [Step]_allvars
  <2> SUFFICES ASSUME IInv, CInv, [CampaignNext]_allvars, NEW c \in Campaigns,
                      campaign[c].state = "cancelled", job[c].state = "cancelled"
               PROVE  campaign'[c].state \in {"cancelled", "deleted"}
    OBVIOUS
  <2>1. ASSUME NEW w \in Workers, MarkCampaign(w) PROVE run[w].job # c
    <3>1. InFlight(w)
      BY <2>1 DEF MarkCampaign, CInv, MarksAreTrue, InFlight
    <3> QED
      BY <3>1 DEF IInv, DispatchesSound, HoldsOrLost
  <2> QED
    BY <2>1, RowMoves
<1> QED
  BY <1>1, CampaignImpliesCInv, CampaignIsScheduling, SpecImpliesIInv, PTL
     DEF CampaignSpec, CampaignsUseScheduler, CancelledWithJobStays
=============================================================================
