------------------------------ MODULE Messaging ------------------------------
(***************************************************************************)
(* Text messages to one consenting contact of one session, on top of the   *)
(* durable scheduler: the checks a request passes before its job exists,   *)
(* the checks its dispatch passes again at the gate and in the transport,  *)
(* the contact's row, whose consent an operator may withdraw at any moment *)
(* and which a retention purge may remove, the session's budget, and what  *)
(* sendImmediate answers.                                                  *)
(*                                                                         *)
(* Every check reads a row and acts on it some awaits later.  The module   *)
(* composes Scheduler: each step is one of its actions, or changes only    *)
(* the variables declared here.                                            *)
(***************************************************************************)
EXTENDS Scheduler

CONSTANT Budget   \* messages the safety limits allow within the run

ASSUME BudgetAssumption == Budget \in Nat \ {0} /\ IsFiniteSet(Jobs)

VARIABLES
  contact,    \* the contacts row: consent granted and not opted out, or not; or no row
  request,    \* progress of prepare() for each message, and the contact it read
  seen,       \* what the gate or the transport of each dispatch has read
  told,       \* completed: the keys sendImmediate has answered with "submitted"
  decided,    \* history: the operator has granted consent, and since then neither
              \* withdrawn it nor purged the contact
  overtaken,  \* history: a purge has, since the last decision, removed a contact that
              \* a request had read as consenting and was still to save
  lapsed,     \* history: dispatches past their gate without consent ever since
  overlap     \* history: most dispatches ever past their budget check at once

history == <<decided, overtaken, lapsed, overlap>>
mvars == <<contact, request, seen, told, history>>
messagingvars == <<vars, mvars>>

ContactRows == {"absent", "withheld", "granted"}

NoRequest == [pc |-> "no", contact |-> "absent"]

NothingSeen == [w \in Workers |-> "none"]

MessagingTypeOK ==
  /\ contact \in ContactRows
  /\ request \in [Jobs -> [pc: {"no", "found", "saved", "checked"}, contact: ContactRows]]
  /\ seen \in [Workers -> {"none", "consented", "allowed", "denied"}]
  /\ told \subseteq Jobs
  /\ decided \in BOOLEAN
  /\ overtaken \in BOOLEAN
  /\ lapsed \subseteq Workers
  /\ overlap \in 0..Cardinality(Workers)

MessagingInit ==
  /\ Init
  /\ contact = "absent"
  /\ request = [j \in Jobs |-> NoRequest]
  /\ seen = NothingSeen
  /\ told = {}
  /\ decided = FALSE
  /\ overtaken = FALSE
  /\ lapsed = {}
  /\ overlap = 0

(* safetyStats: submitted jobs of the session.  Its windows (a day, five   *)
(* minutes, the pacing interval) are longer than a run.                    *)
Submitted == {j \in Jobs : job[j].state = "submitted"}

(* Mutant: one message too many.                                           *)
MutWithinBudget == Cardinality(Submitted) <= Budget

WithinBudget == Cardinality(Submitted) < Budget

------------------------------------------------------------------------------
(* The contact's row.                                                      *)

StillLapsed == IF contact' = "granted" THEN {} ELSE lapsed

(* updateConsent finds a row, or nothing is updated.                       *)
SetConsent(granted) ==
  /\ contact # "absent"
  /\ contact' = IF granted THEN "granted" ELSE "withheld"
  /\ decided' = granted
  /\ overtaken' = FALSE
  /\ lapsed' = StillLapsed
  /\ UNCHANGED <<vars, request, seen, told, overlap>>

(* Requests that have read the contact as consenting and will save it.     *)
Savers == {j \in Jobs : request[j].pc = "found" /\ request[j].contact = "granted"}

(* deleteContacts of a retention purge: the row is gone, whatever it says. *)
PurgeContact ==
  /\ contact # "absent"
  /\ contact' = "absent"
  /\ decided' = FALSE
  /\ overtaken' = (overtaken \/ Savers # {})
  /\ UNCHANGED <<vars, request, seen, told, lapsed, overlap>>

(* Mutant: the upsert writes every column of the contact it was given.     *)
MutSavedContact(j) == IF request[j].contact = "granted" THEN "granted" ELSE "withheld"

(* contacts.save: the upsert of a known contact leaves its consent alone;  *)
(* without a row it inserts the consent the request read before, which is  *)
(* none for a contact it did not find.                                     *)
SavedContact(j) ==
  IF contact # "absent" THEN contact
  ELSE IF request[j].contact = "granted" THEN "granted" ELSE "withheld"

------------------------------------------------------------------------------
(* prepare: the checks before a job exists.                                *)

AtRequest(j, pc) == request[j].pc = pc

(* The request goes on with a contact that consents, or ends.              *)
RequestGoesTo(j, pc) ==
  request' = [request EXCEPT ![j] = IF pc = "no" THEN NoRequest
                                    ELSE [pc |-> pc, contact |-> "granted"]]

(* The contact of a phone number is read, and looked up at WAHA; a contact *)
(* named by its id is read and decided upon at once.                       *)
FindContact(j) ==
  /\ AtRequest(j, "no")
  /\ job[j].state = "unborn"
  /\ \/ request' = [request EXCEPT ![j] = [pc |-> "found", contact |-> contact]]
     \/ contact = "granted" /\ RequestGoesTo(j, "saved")
  /\ UNCHANGED <<vars, contact, seen, told, history>>

(* ... and saved; the saved row decides about consent.                     *)
SaveContact(j) ==
  /\ AtRequest(j, "found")
  /\ contact' = SavedContact(j)
  /\ RequestGoesTo(j, IF contact' = "granted" THEN "saved" ELSE "no")
  /\ lapsed' = StillLapsed
  /\ UNCHANGED <<vars, seen, told, decided, overtaken, overlap>>

CheckSafety(j) ==
  /\ AtRequest(j, "saved")
  /\ RequestGoesTo(j, IF WithinBudget THEN "checked" ELSE "no")
  /\ UNCHANGED <<vars, contact, seen, told, history>>

(* Quiet hours, cooldown, the provider's timelock or capping, or an error. *)
Deny(j) ==
  /\ ~AtRequest(j, "no")
  /\ RequestGoesTo(j, "no")
  /\ UNCHANGED <<vars, contact, seen, told, history>>

QueueMessage(j) ==
  /\ AtRequest(j, "checked")
  /\ Schedule(j) \/ SendNow(j)
  /\ request' = [request EXCEPT ![j] = NoRequest]
  /\ UNCHANGED <<contact, seen, told, history>>

------------------------------------------------------------------------------
(* The checks of a dispatch.                                               *)

See(w, what) == seen' = [seen EXCEPT ![w] = what]

(* The gate reads the contact ...                                          *)
GateContact(w) ==
  /\ run[w].pc = "gate"
  /\ seen[w] = "none"
  /\ See(w, IF contact = "granted" THEN "consented" ELSE "denied")
  /\ UNCHANGED <<vars, contact, request, told, history>>

(* Dispatches that passed the count and may still end in a submission.     *)
PastBudget == {w \in Workers : \/ run[w].pc = "gate" /\ seen[w] = "allowed"
                               \/ run[w].pc = "send"
                               \/ run[w].pc = "settle" /\ run[w].result = "submitted"}

(* ... then the counts, and then asks the provider before it decides.      *)
GateStats(w) ==
  /\ run[w].pc = "gate"
  /\ seen[w] = "consented"
  /\ See(w, IF WithinBudget THEN "allowed" ELSE "denied")
  /\ overlap' = IF WithinBudget /\ Cardinality(PastBudget \cup {w}) > overlap
                THEN Cardinality(PastBudget \cup {w}) ELSE overlap
  /\ UNCHANGED <<vars, contact, request, told, decided, overtaken, lapsed>>

GatePasses(w) ==
  /\ seen[w] = "allowed"
  /\ GateAllows(w)
  /\ See(w, "none")
  /\ lapsed' = IF contact = "granted" THEN lapsed \ {w} ELSE lapsed \cup {w}
  /\ UNCHANGED <<contact, request, told, decided, overtaken, overlap>>

GateBlocks(w) ==
  /\ seen[w] \in {"denied", "allowed"}
  /\ GateDenies(w)
  /\ See(w, "none")
  /\ UNCHANGED <<contact, request, told, history>>

(* Mutant: the transport trusts the gate.                                  *)
MutTransportContact(w) ==
  /\ run[w].pc = "send"
  /\ seen[w] = "none"
  /\ See(w, "consented")
  /\ UNCHANGED <<vars, contact, request, told, history>>

(* The transport reads the contact once more before it calls WAHA.         *)
TransportContact(w) ==
  /\ run[w].pc = "send"
  /\ seen[w] = "none"
  /\ See(w, IF contact = "granted" THEN "consented" ELSE "denied")
  /\ UNCHANGED <<vars, contact, request, told, history>>

MessageAccepted(w) ==
  /\ seen[w] = "consented"
  /\ TransportAccepted(w)
  /\ See(w, "none")
  /\ UNCHANGED <<contact, request, told, history>>

(* WAHA refuses, or the session or the contact could not be read, or the   *)
(* contact does not consent.                                               *)
MessageRefused(w) ==
  /\ TransportRefused(w)
  /\ See(w, "none")
  /\ UNCHANGED <<contact, request, told, history>>

(* sendImmediate answers for the key it was given with the outcome of the  *)
(* dispatch it ran, and remembers that answer.                             *)
AnswersSubmitted(w) ==
  w \in Jobs /\ job[run[w].job].leaseOwner = w /\ SettledState(w) = "submitted"

Answer(w) ==
  /\ Settle(w)
  /\ told' = IF AnswersSubmitted(w) THEN told \cup {w} ELSE told
  /\ UNCHANGED <<contact, request, seen, history>>

(* Nothing was due: the answer is "unknown".                               *)
AnswerNothing(j) ==
  /\ ImmediateNothing(j)
  /\ UNCHANGED mvars

------------------------------------------------------------------------------
(* Failures, and the scheduler's other steps.                              *)

MessagingThrow(w) ==
  /\ Throw(w)
  /\ See(w, "none")
  /\ UNCHANGED <<contact, request, told, history>>

MessagingCrash ==
  /\ Crash
  /\ request' = [j \in Jobs |-> NoRequest]
  /\ seen' = NothingSeen
  /\ told' = {}
  /\ UNCHANGED <<contact, history>>

SchedulerOnly ==
  /\ \/ \E j \in Jobs : \/ Edit(j) \/ Cancel(j) \/ DeleteCheck(j) \/ DeleteRemove(j)
                        \/ ImmediateClaim(j) \/ Acknowledge(j)
     \/ TickerStep
     \/ PassTime
  /\ UNCHANGED mvars

Prepare(j) ==
  FindContact(j) \/ SaveContact(j) \/ CheckSafety(j) \/ Deny(j) \/ QueueMessage(j)

MessagingDispatch(w) ==
  \/ GateContact(w) \/ GateStats(w) \/ GatePasses(w) \/ GateBlocks(w)
  \/ TransportContact(w) \/ MessageAccepted(w) \/ MessageRefused(w)
  \/ Answer(w) \/ MessagingThrow(w)

MessagingNext ==
  \/ PurgeContact \/ \E granted \in BOOLEAN : SetConsent(granted)
  \/ \E j \in Jobs : Prepare(j) \/ AnswerNothing(j)
  \/ \E w \in Workers : MessagingDispatch(w)
  \/ SchedulerOnly
  \/ MessagingCrash

MessagingSpec == MessagingInit /\ [][MessagingNext]_messagingvars

------------------------------------------------------------------------------
(* Properties.                                                             *)

(* Consent is what the operator last decided: requests read the contact,   *)
(* ask WAHA about it and save it again, and none of them brings back an    *)
(* older decision, or consent that a purge erased.  There is one way, and  *)
(* the code has it: a request that read the contact as consenting, then    *)
(* a purge, and the save inserts what was read.                            *)
ConsentIsLastDecision ==
  /\ decided => contact = "granted"
  /\ contact = "granted" => decided \/ overtaken

(* A request that would insert consent has the row before it, or a purge   *)
(* has overtaken it.                                                       *)
SaversFindTheirRow == Savers # {} => contact # "absent" \/ overtaken

(* A dispatch without consent since its gate has not read any since.       *)
LapsedUnconsented ==
  \A w \in lapsed : contact # "granted" /\ seen[w] \in {"none", "denied"}

(* What was submitted, and what may still be, was under the budget when    *)
(* its dispatch counted, but for the dispatches that overlapped it.        *)
BudgetAccounted ==
  /\ Cardinality(PastBudget) <= overlap
  /\ overlap = 0 => Submitted = {}
  /\ overlap > 0 => Cardinality(Submitted) + Cardinality(PastBudget) <= Budget + overlap - 1

(* A dispatch has read something only between its claim and its settling.  *)
SeenWhileAsking ==
  \A w \in Workers : run[w].pc \notin {"gate", "send"} => seen[w] = "none"

(* The inductive invariant of messaging.                                   *)
MInv ==
  /\ MessagingTypeOK
  /\ SeenWhileAsking
  /\ ConsentIsLastDecision
  /\ SaversFindTheirRow
  /\ LapsedUnconsented
  /\ BudgetAccounted

(* A contact who has opted out, or was purged, while a dispatch was queued *)
(* or waited for the gate's answers from the provider, and has not been    *)
(* seen to consent since, is not sent its message.                         *)
OptedOutNotSent ==
  [][\A w \in lapsed : run[w].pc = "send" /\ run'[w].pc = "settle" =>
        accepted'[run[w].job] = accepted[run[w].job]]_messagingvars

(* The budget is exceeded by no more than the dispatches that overlapped:  *)
(* with one dispatch at a time past its budget check, it holds.            *)
BudgetOvershootBounded == Cardinality(Submitted) <= Budget + (IF overlap > 1 THEN overlap - 1 ELSE 0)

(* What the decision record says of the safety boundary, that sending is   *)
(* gated by hard budgets: no more messages are sent than the budget.       *)
BudgetIsHard == Cardinality(Submitted) <= Budget

(* ... and of delivery uncertainty, that it prevents false success: a send *)
(* that was answered "submitted" was taken by the provider.                *)
NoFalseSuccess == \A j \in told : accepted[j] = 1
=============================================================================
