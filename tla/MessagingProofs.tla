--------------------------- MODULE MessagingProofs ---------------------------
(***************************************************************************)
(* Proofs about Messaging, for every finite set of jobs, every budget and  *)
(* every value of the scheduler's constants: messaging is a scheduler, so  *)
(* what SchedulerProofs shows holds of it, and its own invariant MInv is   *)
(* inductive given the scheduler's.                                        *)
(***************************************************************************)
EXTENDS Messaging, SchedulerProofs, FiniteSetTheorems

(* Every step of messaging is a step of the scheduler, or leaves it alone. *)
LEMMA StepIsSchedulers == [MessagingNext]_messagingvars => [Next]_vars
<1> SUFFICES ASSUME [MessagingNext]_messagingvars PROVE [Next]_vars
  OBVIOUS
<1>1. ASSUME PurgeContact \/ \E granted \in BOOLEAN : SetConsent(granted) PROVE UNCHANGED vars
  BY <1>1 DEF PurgeContact, SetConsent
<1>2. ASSUME NEW j \in Jobs, Prepare(j) PROVE [Next]_vars
  <2>1. CASE QueueMessage(j)
    BY <2>1 DEF QueueMessage, Next, Request
  <2>2. CASE FindContact(j) \/ SaveContact(j) \/ CheckSafety(j) \/ Deny(j)
    BY <2>2 DEF FindContact, SaveContact, CheckSafety, Deny
  <2> QED
    BY <1>2, <2>1, <2>2 DEF Prepare
<1>3. ASSUME NEW j \in Jobs, AnswerNothing(j) PROVE Next
  BY <1>3 DEF AnswerNothing, Next
<1>4. ASSUME NEW w \in Workers, MessagingDispatch(w) PROVE [Next]_vars
  <2>1. CASE GateContact(w) \/ GateStats(w) \/ TransportContact(w)
    BY <2>1 DEF GateContact, GateStats, TransportContact
  <2>2. CASE GatePasses(w) \/ GateBlocks(w) \/ MessageAccepted(w) \/ MessageRefused(w) \/ Answer(w)
    <3>1. Dispatch(w)
      BY <2>2 DEF GatePasses, GateBlocks, MessageAccepted, MessageRefused, Answer, Dispatch
    <3> QED
      BY <3>1 DEF Next
  <2>3. CASE MessagingThrow(w)
    BY <2>3 DEF MessagingThrow, Next
  <2> QED
    BY <1>4, <2>1, <2>2, <2>3 DEF MessagingDispatch
<1>5. CASE SchedulerOnly
  BY <1>5 DEF SchedulerOnly, Next, Request
<1>6. CASE MessagingCrash
  BY <1>6 DEF MessagingCrash, Next
<1>7. CASE UNCHANGED messagingvars
  BY <1>7 DEF messagingvars
<1> QED
  BY <1>1, <1>2, <1>3, <1>4, <1>5, <1>6, <1>7 DEF MessagingNext

(* The messages of this module are jobs of the durable scheduler: all that *)
(* holds of every behaviour of the scheduler holds of messaging.           *)
THEOREM MessagingIsScheduling == MessagingSpec => Spec
<1>1. MessagingInit => Init
  BY DEF MessagingInit
<1> QED
  BY <1>1, StepIsSchedulers, PTL DEF MessagingSpec, Spec

------------------------------------------------------------------------------
(* Finite cardinalities.                                                   *)

LEMMA WorkersFinite ==
  /\ IsFiniteSet(Jobs) /\ IsFiniteSet(Workers)
  /\ Cardinality(Workers) \in Nat
<1>1. IsFiniteSet(Workers)
  BY BudgetAssumption, FS_AddElement DEF Workers
<1> QED
  BY <1>1, BudgetAssumption, FS_CardinalityType

LEMMA Counts ==
  /\ IsFiniteSet(Submitted) /\ Cardinality(Submitted) \in Nat
  /\ IsFiniteSet(PastBudget) /\ Cardinality(PastBudget) \in Nat
<1>1. Submitted \in SUBSET Jobs /\ PastBudget \in SUBSET Workers
  BY DEF Submitted, PastBudget
<1>2. IsFiniteSet(Submitted) /\ IsFiniteSet(PastBudget)
  BY <1>1, WorkersFinite, FS_Subset
<1> QED
  BY <1>2, FS_CardinalityType

LEMMA InitMInv == MessagingInit => MInv
<1> SUFFICES ASSUME MessagingInit PROVE MInv
  OBVIOUS
<1> USE DEF MessagingInit
<1>1. MessagingTypeOK
  <2>1. 0 \in 0..Cardinality(Workers)
    BY WorkersFinite
  <2>2. /\ NoRequest \in [pc: {"no", "found", "saved", "checked"}, contact: ContactRows]
        /\ NothingSeen \in [Workers -> {"none", "consented", "allowed", "denied"}]
    BY DEF NoRequest, NothingSeen, ContactRows
  <2> QED
    BY <2>1, <2>2 DEF MessagingTypeOK, ContactRows
<1>2. SeenWhileAsking /\ ConsentIsLastDecision /\ SaversFindTheirRow /\ LapsedUnconsented
  BY DEF SeenWhileAsking, NothingSeen, ConsentIsLastDecision, SaversFindTheirRow, Savers,
     NoRequest, LapsedUnconsented
<1>3. Submitted = {} /\ PastBudget = {}
  BY DEF Init, Submitted, PastBudget, NewRow, NoRun, NewRun
<1>4. BudgetAccounted
  BY <1>3, FS_EmptySet DEF BudgetAccounted
<1> QED
  BY <1>1, <1>2, <1>4 DEF MInv

------------------------------------------------------------------------------
(* Types.                                                                  *)

LEMMA TypeKept ==
  ASSUME IInv, MInv, [MessagingNext]_messagingvars
  PROVE  MessagingTypeOK'
<1> USE DEF MInv, MessagingTypeOK
<1> DEFINE Requests == [Jobs -> [pc: {"no", "found", "saved", "checked"}, contact: ContactRows]]
           Seen == [Workers -> {"none", "consented", "allowed", "denied"}]
<1>1. ASSUME PurgeContact \/ \E granted \in BOOLEAN : SetConsent(granted)
      PROVE  MessagingTypeOK'
  BY <1>1 DEF PurgeContact, SetConsent, StillLapsed, ContactRows
<1>2. ASSUME NEW j \in Jobs, Prepare(j) PROVE MessagingTypeOK'
  <2>1. UNCHANGED <<seen, told, decided, overtaken, overlap>>
    BY <1>2 DEF Prepare, FindContact, SaveContact, CheckSafety, Deny, QueueMessage, history
  <2>2. request' \in Requests
    <3>1. CASE request' = [request EXCEPT ![j] = [pc |-> "found", contact |-> contact]]
      BY <3>1
    <3>2. CASE QueueMessage(j)
      BY <3>2 DEF QueueMessage, NoRequest, ContactRows
    <3>3. ASSUME NEW pc \in {"no", "saved", "checked"}, RequestGoesTo(j, pc)
          PROVE  request' \in Requests
      BY <3>3 DEF RequestGoesTo, NoRequest, ContactRows
    <3> QED
      BY <1>2, <3>1, <3>2, <3>3 DEF Prepare, FindContact, SaveContact, CheckSafety, Deny
  <2>3. contact' \in ContactRows /\ lapsed' \subseteq Workers
    BY <1>2 DEF Prepare, FindContact, SaveContact, SavedContact, StillLapsed, CheckSafety, Deny,
       QueueMessage, history, ContactRows
  <2> QED
    BY <2>1, <2>2, <2>3
<1>3. ASSUME NEW j \in Jobs, AnswerNothing(j) PROVE MessagingTypeOK'
  BY <1>3 DEF AnswerNothing, mvars, history
<1>4. ASSUME NEW w \in Workers, MessagingDispatch(w) PROVE MessagingTypeOK'
  <2>1. UNCHANGED <<contact, request, decided, overtaken>>
    BY <1>4 DEF MessagingDispatch, GateContact, GateStats, GatePasses, GateBlocks, TransportContact,
       MessageAccepted, MessageRefused, Answer, MessagingThrow, history
  <2>2. seen' \in Seen
    BY <1>4 DEF MessagingDispatch, GateContact, GateStats, GatePasses, GateBlocks, TransportContact,
       MessageAccepted, MessageRefused, Answer, MessagingThrow, See
  <2>3. told' \subseteq Jobs
    BY <1>4 DEF MessagingDispatch, GateContact, GateStats, GatePasses, GateBlocks, TransportContact,
       MessageAccepted, MessageRefused, Answer, MessagingThrow, AnswersSubmitted
  <2>4. lapsed' \subseteq Workers
    BY <1>4 DEF MessagingDispatch, GateContact, GateStats, GatePasses, GateBlocks, TransportContact,
       MessageAccepted, MessageRefused, Answer, MessagingThrow, history
  <2>5. overlap' \in 0..Cardinality(Workers)
    <3>1. CASE GateStats(w)
      <4>1. PastBudget \cup {w} \in SUBSET Workers
        BY DEF PastBudget
      <4>2. /\ Cardinality(PastBudget \cup {w}) <= Cardinality(Workers)
            /\ Cardinality(PastBudget \cup {w}) \in Nat
        BY <4>1, WorkersFinite, FS_Subset, FS_CardinalityType
      <4> QED
        BY <3>1, <4>2, WorkersFinite DEF GateStats
    <3>2. CASE ~GateStats(w)
      BY <1>4, <3>2 DEF MessagingDispatch, GateContact, GatePasses, GateBlocks, TransportContact,
         MessageAccepted, MessageRefused, Answer, MessagingThrow, history
    <3> QED
      BY <3>1, <3>2
  <2> QED
    BY <2>1, <2>2, <2>3, <2>4, <2>5
<1>5. CASE SchedulerOnly
  BY <1>5 DEF SchedulerOnly, mvars, history
<1>6. CASE MessagingCrash
  BY <1>6 DEF MessagingCrash, history, NoRequest, NothingSeen, ContactRows
<1>7. CASE UNCHANGED messagingvars
  BY <1>7 DEF messagingvars, mvars, history
<1> QED
  BY <1>1, <1>2, <1>3, <1>4, <1>5, <1>6, <1>7 DEF MessagingNext

------------------------------------------------------------------------------
(* Consent.                                                                *)

(* Only the dispatch itself is moved by its own steps.                     *)
LEMMA DispatchMoves ==
  ASSUME IInv, MInv, NEW w \in Workers, MessagingDispatch(w)
  PROVE  /\ \A v \in Workers : v # w => run'[v] = run[v] /\ seen'[v] = seen[v]
         /\ run'[w].pc \notin {"gate", "send"} => seen'[w] = "none"
<1> USE DEF IInv, TypeOK, MInv, MessagingTypeOK, SeenWhileAsking
<1>1. CASE GateContact(w) \/ GateStats(w) \/ TransportContact(w)
  BY <1>1 DEF GateContact, GateStats, TransportContact, See, vars
<1>2. CASE GatePasses(w) \/ GateBlocks(w) \/ MessageAccepted(w) \/ MessageRefused(w)
  <2>1. seen' = [seen EXCEPT ![w] = "none"]
    BY <1>2 DEF GatePasses, GateBlocks, MessageAccepted, MessageRefused, See
  <2>2. PICK pc \in {"send", "settle"}, r \in Results \cup {"none"} : Advance(w, pc, r)
    BY <1>2 DEF GatePasses, GateBlocks, MessageAccepted, MessageRefused,
       GateAllows, GateDenies, TransportAccepted, TransportRefused, Results
  <2> DEFINE new == [run[w] EXCEPT !.pc = pc, !.result = r]
  <2>3. run' = [run EXCEPT ![w] = new]
    BY <2>2 DEF Advance
  <2>4. run \in [Workers -> Run] /\ seen \in [Workers -> {"none", "consented", "allowed", "denied"}]
    OBVIOUS
  <2> HIDE DEF new, IInv, TypeOK, MInv, MessagingTypeOK, SeenWhileAsking
  <2>5. \A v \in Workers : v # w => run'[v] = run[v] /\ seen'[v] = seen[v]
    BY <2>1, <2>3, <2>4
  <2> QED
    BY <2>1, <2>4, <2>5
<1>3. CASE Answer(w)
  BY <1>3 DEF Answer, Settle, NoRun, NewRun
<1>4. CASE MessagingThrow(w)
  BY <1>4 DEF MessagingThrow, Throw, See, NoRun, NewRun
<1> QED
  BY <1>1, <1>2, <1>3, <1>4 DEF MessagingDispatch

(* The scheduler's other steps move a dispatch only by starting it.        *)
LEMMA OthersOnlyClaim ==
  ASSUME IInv, SchedulerOnly
  PROVE  \/ run' = run
         \/ \E w \in Workers : /\ run[w].pc \in {"idle", "called"}
                               /\ run'[w].pc = "gate"
                               /\ \A v \in Workers : v # w => run'[v] = run[v]
<1>0. run \in [Workers -> Run]
  BY DEF IInv, TypeOK
<1>1. ASSUME NEW w \in Workers, NEW j \in Jobs, ClaimDue(w, j)
      PROVE  run'[w].pc = "gate" /\ \A v \in Workers : v # w => run'[v] = run[v]
  BY <1>0, <1>1 DEF ClaimDue
<1>2. Ticker \in Workers /\ Jobs \subseteq Workers
  BY DEF Workers
<1>3. CASE TickerClaim \/ (\E j \in Jobs : ImmediateClaim(j))
  BY <1>1, <1>2, <1>3 DEF TickerClaim, ImmediateClaim
<1>4. CASE run' = run
  BY <1>4
<1> QED
  BY <1>3, <1>4 DEF SchedulerOnly, Edit, Cancel, DeleteCheck, DeleteRemove, Acknowledge,
     TickerStep, TickRecover, TickMarkMissed, TickEnd, PassTime

LEMMA SeenKept ==
  ASSUME IInv, MInv, [MessagingNext]_messagingvars
  PROVE  SeenWhileAsking'
<1> USE DEF MInv, MessagingTypeOK, SeenWhileAsking
<1>1. ASSUME PurgeContact \/ \E granted \in BOOLEAN : SetConsent(granted)
      PROVE  SeenWhileAsking'
  BY <1>1 DEF PurgeContact, SetConsent, vars
<1>2. ASSUME NEW j \in Jobs, Prepare(j) PROVE SeenWhileAsking'
  <2>1. seen' = seen
    BY <1>2 DEF Prepare, FindContact, SaveContact, CheckSafety, Deny, QueueMessage
  <2>2. run' = run \/ (run[j].pc = "idle" /\ run' = [run EXCEPT ![j] = NewRun("called")])
    BY <1>2 DEF Prepare, FindContact, SaveContact, CheckSafety, Deny, QueueMessage, vars,
       Schedule, SendNow
  <2>3. \A v \in Workers : run'[v].pc \notin {"gate", "send"} => seen[v] = "none"
    BY <2>2 DEF IInv, TypeOK
  <2> QED
    BY <2>1, <2>3
<1>3. ASSUME NEW j \in Jobs, AnswerNothing(j) PROVE SeenWhileAsking'
  <2>1. seen' = seen /\ run[j].pc = "called" /\ run' = [run EXCEPT ![j] = NoRun]
    BY <1>3 DEF AnswerNothing, ImmediateNothing, mvars
  <2>2. \A v \in Workers : run'[v].pc \notin {"gate", "send"} => seen[v] = "none"
    BY <2>1 DEF IInv, TypeOK
  <2> QED
    BY <2>1, <2>2
<1>4. ASSUME NEW w \in Workers, MessagingDispatch(w) PROVE SeenWhileAsking'
  BY <1>4, DispatchMoves
<1>5. CASE SchedulerOnly
  <2>1. seen' = seen
    BY <1>5 DEF SchedulerOnly, mvars
  <2>2. \/ run' = run
        \/ \E w \in Workers : /\ run[w].pc \in {"idle", "called"}
                              /\ run'[w].pc = "gate"
                              /\ \A v \in Workers : v # w => run'[v] = run[v]
    BY <1>5, OthersOnlyClaim
  <2> QED
    BY <2>1, <2>2
<1>6. CASE MessagingCrash
  BY <1>6 DEF MessagingCrash, NothingSeen
<1>7. CASE UNCHANGED messagingvars
  BY <1>7 DEF messagingvars, vars, mvars
<1> QED
  BY <1>1, <1>2, <1>3, <1>4, <1>5, <1>6, <1>7 DEF MessagingNext

(* A request that saves its contact writes back the consent it finds, or   *)
(* inserts what it read, which a purge has then overtaken.                 *)
LEMMA PrepareKeepsConsent ==
  ASSUME MInv, NEW j \in Jobs, Prepare(j)
  PROVE  ConsentIsLastDecision' /\ SaversFindTheirRow' /\ LapsedUnconsented'
<1> USE DEF MInv, MessagingTypeOK
<1>1. UNCHANGED <<seen, decided, overtaken>>
  BY DEF Prepare, FindContact, SaveContact, CheckSafety, Deny, QueueMessage, history
<1>2. CASE SaveContact(j)
  <2>1. /\ contact' = SavedContact(j) /\ lapsed' = StillLapsed
        /\ Savers' \subseteq Savers
    BY <1>2 DEF SaveContact, RequestGoesTo, NoRequest, Savers
  <2>2. contact' # "absent"
    BY <2>1 DEF SavedContact
  <2>3. CASE contact # "absent"
    BY <1>1, <2>1, <2>2, <2>3 DEF SavedContact, StillLapsed, ConsentIsLastDecision,
       SaversFindTheirRow, LapsedUnconsented
  <2>4. CASE contact = "absent"
    <3>1. contact' = "granted" => j \in Savers
      BY <1>2, <2>1, <2>4 DEF SavedContact, SaveContact, AtRequest, Savers
    <3> QED
      BY <1>1, <2>1, <2>2, <2>4, <3>1 DEF StillLapsed, ConsentIsLastDecision,
         SaversFindTheirRow, LapsedUnconsented
  <2> QED
    BY <2>3, <2>4
<1>3. CASE FindContact(j)
  <2>1. UNCHANGED <<contact, lapsed>>
    BY <1>3 DEF FindContact, history
  <2>2. Savers' \subseteq Savers \cup {j} /\ (j \in Savers' => contact = "granted")
    BY <1>3 DEF FindContact, RequestGoesTo, NoRequest, Savers
  <2> QED
    BY <1>1, <2>1, <2>2 DEF ConsentIsLastDecision, SaversFindTheirRow, LapsedUnconsented
<1>4. CASE CheckSafety(j) \/ Deny(j) \/ QueueMessage(j)
  <2>1. UNCHANGED <<contact, lapsed>>
    BY <1>4 DEF CheckSafety, Deny, QueueMessage, history
  <2>2. Savers' \subseteq Savers
    BY <1>4 DEF CheckSafety, Deny, QueueMessage, RequestGoesTo, NoRequest, Savers
  <2> QED
    BY <1>1, <2>1, <2>2 DEF ConsentIsLastDecision, SaversFindTheirRow, LapsedUnconsented
<1> QED
  BY <1>2, <1>3, <1>4 DEF Prepare

(* Requests write back the consent they find; dispatches only read it, and *)
(* one that lapsed reads that it may not send.                             *)
LEMMA ConsentKept ==
  ASSUME IInv, MInv, [MessagingNext]_messagingvars
  PROVE  ConsentIsLastDecision' /\ SaversFindTheirRow' /\ LapsedUnconsented'
<1> USE DEF MInv, MessagingTypeOK, ConsentIsLastDecision, SaversFindTheirRow, LapsedUnconsented
<1> DEFINE Goal == ConsentIsLastDecision' /\ SaversFindTheirRow' /\ LapsedUnconsented'
<1>1. ASSUME NEW granted \in BOOLEAN, SetConsent(granted) PROVE Goal
  BY <1>1 DEF SetConsent, StillLapsed
<1>2. CASE PurgeContact
  <2>1. Savers' = Savers
    BY <1>2 DEF PurgeContact, Savers
  <2> QED
    BY <1>2, <2>1 DEF PurgeContact
<1>3. ASSUME NEW j \in Jobs, Prepare(j) PROVE Goal
  BY <1>3, PrepareKeepsConsent
<1>4. ASSUME NEW w \in Workers, MessagingDispatch(w) PROVE Goal
  <2>1. UNCHANGED <<contact, request, decided, overtaken>>
    BY <1>4 DEF MessagingDispatch, GateContact, GateStats, GatePasses, GateBlocks, TransportContact,
       MessageAccepted, MessageRefused, Answer, MessagingThrow, history
  <2>0. Savers' = Savers
    BY <2>1 DEF Savers
  <2>2. CASE GateContact(w) \/ TransportContact(w)
    BY <2>0, <2>1, <2>2 DEF GateContact, TransportContact, See, history
  <2>3. CASE GateStats(w)
    BY <2>0, <2>1, <2>3 DEF GateStats, See
  <2>4. CASE GatePasses(w)
    BY <2>0, <2>1, <2>4 DEF GatePasses, See
  <2>5. CASE GateBlocks(w) \/ MessageAccepted(w) \/ MessageRefused(w) \/ MessagingThrow(w)
    BY <2>0, <2>1, <2>5 DEF GateBlocks, MessageAccepted, MessageRefused, MessagingThrow, See, history
  <2>6. CASE Answer(w)
    BY <2>0, <2>1, <2>6 DEF Answer, history
  <2> QED
    BY <1>4, <2>2, <2>3, <2>4, <2>5, <2>6 DEF MessagingDispatch
<1>5. CASE SchedulerOnly \/ (\E j \in Jobs : AnswerNothing(j)) \/ UNCHANGED messagingvars
  <2>1. UNCHANGED mvars
    BY <1>5 DEF SchedulerOnly, AnswerNothing, messagingvars
  <2>2. Savers' = Savers
    BY <2>1 DEF Savers, mvars
  <2> QED
    BY <2>1, <2>2 DEF mvars, history
<1>6. CASE MessagingCrash
  <2>1. Savers' = {}
    BY <1>6 DEF MessagingCrash, NoRequest, Savers
  <2> QED
    BY <1>6, <2>1 DEF MessagingCrash, history, NothingSeen
<1> QED
  BY <1>1, <1>2, <1>3, <1>4, <1>5, <1>6 DEF MessagingNext

------------------------------------------------------------------------------
(* The budget.                                                             *)

(* Fewer submitted jobs and fewer dispatches past the count keep the       *)
(* account, as long as the overlap it is made with is the same.            *)
LEMMA ShrinkingKeepsAccount ==
  ASSUME MInv, overlap' = overlap, Submitted' \subseteq Submitted,
         PastBudget' \subseteq PastBudget
  PROVE  BudgetAccounted'
<1>1. /\ Cardinality(Submitted)' <= Cardinality(Submitted) /\ Cardinality(Submitted)' \in Nat
      /\ Cardinality(PastBudget)' <= Cardinality(PastBudget) /\ Cardinality(PastBudget)' \in Nat
  <2>1. /\ Cardinality(Submitted') <= Cardinality(Submitted) /\ IsFiniteSet(Submitted')
        /\ Cardinality(PastBudget') <= Cardinality(PastBudget) /\ IsFiniteSet(PastBudget')
    BY Counts, FS_Subset
  <2> QED
    BY <2>1, FS_CardinalityType
<1>2. overlap \in Nat /\ Budget \in Nat
  BY BudgetAssumption, WorkersFinite DEF MInv, MessagingTypeOK
<1> QED
  BY <1>1, <1>2, Counts DEF MInv, BudgetAccounted

(* A job becomes submitted only when its dispatch is settled so.           *)
LEMMA OthersSubmitNothing ==
  ASSUME IInv,
         \/ \E j \in Jobs : Request(j) \/ ImmediateClaim(j) \/ ImmediateNothing(j) \/ Acknowledge(j)
         \/ TickerStep
         \/ UNCHANGED job
  PROVE  Submitted' \subseteq Submitted
<1>0. job \in [Jobs -> Row]
  BY DEF IInv, TypeOK
<1> SUFFICES ASSUME NEW k \in Jobs, job'[k].state = "submitted" PROVE job[k].state = "submitted"
  BY DEF Submitted
<1>1. ASSUME NEW j \in Jobs, Schedule(j) \/ SendNow(j) PROVE job[k].state = "submitted"
  <2>1. PICK t : job' = [job EXCEPT ![j] = NewRow("scheduled", t)]
    BY <1>1 DEF Schedule, SendNow, InsertRow
  <2> QED
    BY <1>0, <2>1 DEF NewRow
<1> QED
  BY <1>1, QuietMoves DEF Request

(* Steps that move no dispatch nearer to the provider.                     *)
LEMMA OthersKeepAccount ==
  ASSUME IInv, MInv,
         \/ PurgeContact \/ \E granted \in BOOLEAN : SetConsent(granted)
         \/ \E j \in Jobs : Prepare(j) \/ AnswerNothing(j)
         \/ SchedulerOnly
         \/ MessagingCrash
         \/ UNCHANGED messagingvars
  PROVE  BudgetAccounted'
<1> USE DEF IInv, TypeOK, MInv, MessagingTypeOK, SeenWhileAsking
<1>1. ASSUME PurgeContact \/ \E granted \in BOOLEAN : SetConsent(granted)
      PROVE  BudgetAccounted'
  <2>1. UNCHANGED <<job, run, seen, overlap>>
    BY <1>1 DEF PurgeContact, SetConsent, vars
  <2>2. Submitted' = Submitted /\ PastBudget' = PastBudget
    BY <2>1 DEF Submitted, PastBudget
  <2> QED
    BY <2>1, <2>2, ShrinkingKeepsAccount
<1>2. ASSUME NEW j \in Jobs, Prepare(j) PROVE BudgetAccounted'
  <2>1. UNCHANGED <<seen, overlap>>
    BY <1>2 DEF Prepare, FindContact, SaveContact, CheckSafety, Deny, QueueMessage, history
  <2>2. UNCHANGED vars \/ Request(j)
    BY <1>2 DEF Prepare, FindContact, SaveContact, CheckSafety, Deny, QueueMessage, Request
  <2> DEFINE called == NewRun("called")
  <2>3. run' = run \/ run' = [run EXCEPT ![j] = called]
    BY <1>2 DEF Prepare, FindContact, SaveContact, CheckSafety, Deny, QueueMessage, vars,
       Schedule, SendNow
  <2>4. called.pc = "called"
    BY DEF NewRun
  <2> HIDE DEF called
  <2>5. \A v \in Workers : run'[v] = run[v] \/ run'[v].pc = "called"
    BY <2>3, <2>4
  <2> HIDE DEF IInv, TypeOK, MInv, MessagingTypeOK, SeenWhileAsking
  <2>6. PastBudget' \subseteq PastBudget
    BY <2>1, <2>5 DEF PastBudget
  <2>7. Submitted' \subseteq Submitted
    <3>1. Request(j) \/ UNCHANGED job
      BY <2>2 DEF vars
    <3> QED
      BY <3>1, OthersSubmitNothing
  <2> QED
    BY <2>1, <2>6, <2>7, ShrinkingKeepsAccount
<1>3. ASSUME NEW j \in Jobs, AnswerNothing(j) PROVE BudgetAccounted'
  <2>1. /\ UNCHANGED <<job, seen, overlap>>
        /\ run' = [run EXCEPT ![j] = NoRun]
    BY <1>3 DEF AnswerNothing, ImmediateNothing, mvars, history
  <2>2. PastBudget' \subseteq PastBudget
    BY <2>1 DEF PastBudget, NoRun, NewRun
  <2>3. Submitted' = Submitted
    BY <2>1 DEF Submitted
  <2> QED
    BY <2>1, <2>2, <2>3, ShrinkingKeepsAccount
<1>4. CASE SchedulerOnly
  <2>1. UNCHANGED <<seen, overlap>>
    BY <1>4 DEF SchedulerOnly, mvars, history
  <2>2. Submitted' \subseteq Submitted
    <3>1. \/ \E j \in Jobs : Request(j) \/ ImmediateClaim(j) \/ Acknowledge(j)
          \/ TickerStep
          \/ UNCHANGED job
      BY <1>4 DEF SchedulerOnly, Request, PassTime
    <3> HIDE DEF IInv, TypeOK, MInv, MessagingTypeOK
    <3> QED
      BY <3>1, OthersSubmitNothing
  <2>3. \/ run' = run
        \/ \E w \in Workers : /\ run[w].pc \in {"idle", "called"}
                              /\ run'[w].pc = "gate"
                              /\ \A v \in Workers : v # w => run'[v] = run[v]
    BY <1>4, OthersOnlyClaim
  <2>4. PastBudget' \subseteq PastBudget
    BY <2>1, <2>3 DEF PastBudget
  <2> QED
    BY <2>1, <2>2, <2>4, ShrinkingKeepsAccount
<1>5. CASE MessagingCrash
  <2>1. UNCHANGED <<job, overlap>> /\ run' = [w \in Workers |-> NoRun]
    BY <1>5 DEF MessagingCrash, Crash, history
  <2>2. PastBudget' \subseteq PastBudget
    BY <2>1 DEF PastBudget, NoRun, NewRun
  <2>3. Submitted' = Submitted
    BY <2>1 DEF Submitted
  <2> QED
    BY <2>1, <2>2, <2>3, ShrinkingKeepsAccount
<1>6. CASE UNCHANGED messagingvars
  <2>1. UNCHANGED <<job, run, seen, overlap>>
    BY <1>6 DEF messagingvars, vars, mvars, history
  <2>2. Submitted' = Submitted /\ PastBudget' = PastBudget
    BY <2>1 DEF Submitted, PastBudget
  <2> QED
    BY <2>1, <2>2, ShrinkingKeepsAccount
<1> QED
  BY <1>1, <1>2, <1>3, <1>4, <1>5, <1>6

(* The count: within the budget, one more dispatch is accounted for, and   *)
(* with it the overlap.                                                    *)
LEMMA CountKeepsAccount ==
  ASSUME IInv, MInv, NEW w \in Workers, GateStats(w)
  PROVE  BudgetAccounted'
<1> USE DEF MInv, MessagingTypeOK
<1>1. UNCHANGED <<job, run>> /\ run[w].pc = "gate" /\ seen[w] = "consented"
  BY DEF GateStats, vars
<1>2. Submitted' = Submitted
  BY <1>1 DEF Submitted
<1>3. CASE WithinBudget
  <2>1. PastBudget' = PastBudget \cup {w} /\ w \notin PastBudget
    BY <1>1, <1>3 DEF GateStats, See, PastBudget
  <2>2. Cardinality(PastBudget') = Cardinality(PastBudget) + 1
    BY <2>1, Counts, FS_AddElement
  <2>3. overlap' = IF Cardinality(PastBudget') > overlap THEN Cardinality(PastBudget') ELSE overlap
    BY <1>3, <2>1 DEF GateStats
  <2>4. overlap \in Nat /\ Budget \in Nat
    BY WorkersFinite, BudgetAssumption
  <2> QED
    BY <1>2, <1>3, <2>2, <2>3, <2>4, Counts DEF WithinBudget, BudgetAccounted
<1>4. CASE ~WithinBudget
  <2>1. PastBudget' \subseteq PastBudget /\ overlap' = overlap
    BY <1>1, <1>4 DEF GateStats, See, PastBudget
  <2> QED
    BY <1>2, <2>1, ShrinkingKeepsAccount
<1> QED
  BY <1>3, <1>4

(* The answer: a submission takes the place of its dispatch.               *)
LEMMA AnswerKeepsAccount ==
  ASSUME IInv, MInv, NEW w \in Workers, Answer(w)
  PROVE  BudgetAccounted'
<1> USE DEF MInv, MessagingTypeOK
<1> DEFINE j == run[w].job
           held == job[j].state = "attempting" /\ job[j].leaseOwner = w
<1>1. /\ run[w].pc = "settle" /\ run' = [run EXCEPT ![w] = NoRun]
      /\ UNCHANGED <<seen, overlap>>
      /\ j \in Jobs /\ job \in [Jobs -> Row] /\ run \in [Workers -> Run]
  BY DEF Answer, Settle, history, IInv, TypeOK, DispatchesSound, InFlight
<1>2. PastBudget' = PastBudget \ {w}
  BY <1>1 DEF PastBudget, NoRun, NewRun
<1>3. CASE held /\ SettledState(w) = "submitted"
  <2>1. job' = [job EXCEPT ![j] = SettledRow(w, job[j])]
    BY <1>3 DEF Answer, Settle
  <2>2. SettledRow(w, job[j]).state = "submitted"
    BY <1>1, <1>3, SettledRowInRow
  <2>3. Submitted' = Submitted \cup {j} /\ j \notin Submitted
    BY <1>1, <1>3, <2>1, <2>2 DEF Submitted
  <2>4. w \in PastBudget
    BY <1>1, <1>3 DEF PastBudget, SettledState
  <2>5. /\ Cardinality(Submitted') = Cardinality(Submitted) + 1
        /\ Cardinality(PastBudget') = Cardinality(PastBudget) - 1
    BY <1>2, <2>3, <2>4, Counts, FS_AddElement, FS_RemoveElement
  <2>6. Cardinality(PastBudget) # 0
    BY <2>4, Counts, FS_EmptySet
  <2>7. overlap \in Nat /\ Budget \in Nat
    BY WorkersFinite, BudgetAssumption
  <2> QED
    BY <1>1, <2>5, <2>6, <2>7, Counts DEF BudgetAccounted
<1>4. CASE ~(held /\ SettledState(w) = "submitted")
  <2>1. Submitted' \subseteq Submitted
    <3>1. CASE held
      <4>1. job' = [job EXCEPT ![j] = SettledRow(w, job[j])]
        BY <3>1 DEF Answer, Settle
      <4>2. SettledRow(w, job[j]).state # "submitted"
        BY <1>1, <1>4, <3>1, SettledRowInRow
      <4> QED
        BY <1>1, <4>1, <4>2 DEF Submitted
    <3>2. CASE ~held
      BY <3>2 DEF Answer, Settle, Submitted
    <3> QED
      BY <3>1, <3>2
  <2> QED
    BY <1>1, <1>2, <2>1, ShrinkingKeepsAccount
<1> QED
  BY <1>3, <1>4

(* A dispatch on its way keeps its place in the account or gives it up.    *)
LEMMA DispatchKeepsAccount ==
  ASSUME IInv, MInv, NEW w \in Workers, MessagingDispatch(w)
  PROVE  BudgetAccounted'
<1>1. CASE GateStats(w) \/ Answer(w)
  BY <1>1, CountKeepsAccount, AnswerKeepsAccount
<1>2. CASE /\ UNCHANGED <<job, overlap>>
           /\ w \in PastBudget' => w \in PastBudget
  <2>1. Submitted' = Submitted
    BY <1>2 DEF Submitted
  <2>2. PastBudget' \subseteq PastBudget
    BY <1>2, DispatchMoves DEF PastBudget
  <2> QED
    BY <1>2, <2>1, <2>2, ShrinkingKeepsAccount
<1>3. ASSUME \/ GateContact(w) \/ TransportContact(w) \/ GatePasses(w) \/ GateBlocks(w)
             \/ MessageAccepted(w) \/ MessageRefused(w) \/ MessagingThrow(w)
      PROVE  UNCHANGED <<job, overlap>>
  BY <1>3 DEF GateContact, TransportContact, GatePasses, GateBlocks, MessageAccepted,
     MessageRefused, MessagingThrow, GateAllows, GateDenies, TransportAccepted, TransportRefused,
     Throw, vars, history
<1>4. ASSUME \/ GateContact(w) \/ TransportContact(w) \/ GatePasses(w) \/ GateBlocks(w)
             \/ MessageAccepted(w) \/ MessageRefused(w) \/ MessagingThrow(w),
             w \in PastBudget'
      PROVE  w \in PastBudget
  <2> USE DEF IInv, TypeOK, MInv, MessagingTypeOK, SeenWhileAsking, PastBudget
  <2>1. CASE GateContact(w) \/ TransportContact(w)
    BY <1>4, <2>1 DEF GateContact, TransportContact, See, vars
  <2>2. CASE GatePasses(w)
    BY <2>2 DEF GatePasses, GateAllows
  <2>3. CASE MessageAccepted(w) \/ MessageRefused(w)
    BY <2>3 DEF MessageAccepted, MessageRefused, TransportAccepted, TransportRefused
  <2>4. CASE GateBlocks(w)
    <3> DEFINE new == [run[w] EXCEPT !.pc = "settle", !.result = "failed"]
    <3>1. run' = [run EXCEPT ![w] = new] /\ run[w] \in Run
      BY <2>4 DEF GateBlocks, GateDenies, Advance
    <3>2. new.pc = "settle" /\ new.result = "failed"
      BY <3>1 DEF Run
    <3> HIDE DEF new
    <3> QED
      BY <1>4, <3>1, <3>2
  <2>5. CASE MessagingThrow(w)
    BY <1>4, <2>5 DEF MessagingThrow, Throw, NoRun, NewRun
  <2> QED
    BY <1>4, <2>1, <2>2, <2>3, <2>4, <2>5
<1> QED
  BY <1>1, <1>2, <1>3, <1>4 DEF MessagingDispatch

------------------------------------------------------------------------------
(* MInv holds in every reachable state of messaging.                       *)
THEOREM MessagingImpliesMInv == MessagingSpec => []MInv
<1>1. IInv /\ MInv /\ [MessagingNext]_messagingvars => MInv'
  <2> SUFFICES ASSUME IInv, MInv, [MessagingNext]_messagingvars PROVE MInv'
    OBVIOUS
  <2>1. BudgetAccounted'
    BY OthersKeepAccount, DispatchKeepsAccount DEF MessagingNext
  <2> QED
    BY <2>1, TypeKept, SeenKept, ConsentKept DEF MInv
<1> QED
  BY <1>1, InitMInv, MessagingIsScheduling, SpecImpliesIInv, PTL DEF MessagingSpec

(* No request and no dispatch brings back consent the operator withdrew or *)
(* a purge erased, whatever a request read before it asked WAHA and saved  *)
(* the contact, unless the purge came between that request's two steps.    *)
THEOREM ConsentNeverResurrected == MessagingSpec => []ConsentIsLastDecision
<1>1. MInv => ConsentIsLastDecision
  BY DEF MInv
<1> QED
  BY <1>1, MessagingImpliesMInv, PTL

(* The budget is exceeded by at most the dispatches that overlapped past   *)
(* their count, less one: sending one at a time never exceeds it.          *)
THEOREM BudgetExceededOnlyByOverlap == MessagingSpec => []BudgetOvershootBounded
<1>1. ASSUME MInv PROVE BudgetOvershootBounded
  <2>1. overlap \in Nat /\ Budget \in Nat
    BY <1>1, WorkersFinite, BudgetAssumption DEF MInv, MessagingTypeOK
  <2>2. CASE overlap = 0
    BY <1>1, <2>1, <2>2, FS_EmptySet DEF MInv, BudgetAccounted, BudgetOvershootBounded
  <2>3. CASE overlap > 0
    BY <1>1, <2>1, <2>3, Counts DEF MInv, BudgetAccounted, BudgetOvershootBounded
  <2> QED
    BY <2>1, <2>2, <2>3
<1> QED
  BY <1>1, MessagingImpliesMInv, PTL

(* A contact whose consent was withdrawn before a dispatch passed its gate *)
(* or while it waited to send is not sent the message.                     *)
THEOREM OptedOutIsNotSent == MessagingSpec => OptedOutNotSent
<1> DEFINE Step == \A w \in lapsed : run[w].pc = "send" /\ run'[w].pc = "settle"
                     => accepted'[run[w].job] = accepted[run[w].job]
<1>1. IInv /\ MInv /\ [MessagingNext]_messagingvars => [Step]_messagingvars
  <2> SUFFICES ASSUME IInv, MInv, MessagingNext,
                      NEW w \in lapsed, run[w].pc = "send", run'[w].pc = "settle"
               PROVE  accepted'[run[w].job] = accepted[run[w].job]
    OBVIOUS
  <2>0. w \in Workers /\ seen[w] \in {"none", "denied"} /\ run \in [Workers -> Run]
    BY DEF MInv, MessagingTypeOK, LapsedUnconsented, IInv, TypeOK
  <2>1. ASSUME NEW v \in Workers, MessagingDispatch(v) PROVE accepted' = accepted
    <3>1. v = w
      BY <2>0, <2>1, DispatchMoves
    <3>2. ~MessageAccepted(v)
      BY <2>0, <3>1 DEF MessageAccepted
    <3> QED
      BY <2>1, <3>2 DEF MessagingDispatch, GateContact, GateStats, GatePasses, GateBlocks,
         TransportContact, MessageRefused, Answer, MessagingThrow, GateAllows, GateDenies,
         TransportRefused, Settle, Throw, vars
  <2>2. ASSUME PurgeContact \/ \E granted \in BOOLEAN : SetConsent(granted)
        PROVE  accepted' = accepted
    BY <2>2 DEF PurgeContact, SetConsent, vars
  <2>3. ASSUME NEW j \in Jobs, Prepare(j) \/ AnswerNothing(j) PROVE accepted' = accepted
    BY <2>3 DEF Prepare, FindContact, SaveContact, CheckSafety, Deny, QueueMessage, AnswerNothing,
       Schedule, SendNow, ImmediateNothing, vars
  <2>4. CASE SchedulerOnly \/ MessagingCrash
    BY <2>4 DEF SchedulerOnly, MessagingCrash, Crash, Edit, Cancel, DeleteCheck, DeleteRemove,
       Acknowledge,
       ImmediateClaim, TickerStep, TickRecover, TickMarkMissed, TickerClaim, TickEnd, PassTime
  <2> QED
    BY <2>1, <2>2, <2>3, <2>4 DEF MessagingNext
<1> QED
  BY <1>1, MessagingImpliesMInv, MessagingIsScheduling, SpecImpliesIInv, PTL
     DEF MessagingSpec, OptedOutNotSent
=============================================================================
