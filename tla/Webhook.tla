------------------------------- MODULE Webhook -------------------------------
(***************************************************************************)
(* The WAHA webhook: signed events arrive over HTTP, are stored once in    *)
(* normalized_events, and move the delivery evidence of sent messages      *)
(* (dispatch_attempts), the status of the session, and the reaction        *)
(* trigger of campaigns.                                                   *)
(*                                                                         *)
(* WAHA is external: it may deliver an event late, out of order, several   *)
(* times and to several handlers at once, and delivers it again while it   *)
(* has no 2xx answer.  A handler awaits the database several times; each   *)
(* await is a step here.  A request that fails the signature, replay or    *)
(* schema checks changes nothing and is left out.                          *)
(***************************************************************************)
EXTENDS Integers, Sequences

CONSTANTS
  Handlers,       \* requests served at the same time
  Messages,       \* messages with a dispatch_attempts row
  Acks,           \* message.ack events
  AckOf,          \* the level an ack event reports, -1..4
  MessageOf,      \* the message an ack event is about
  Reactions,      \* message.reaction events
  None,           \* no event
  MaxTime,        \* bound on the changes of the session's status
  MaxFaults       \* bound on failed awaits and crashes

Changes == 1..MaxTime
Events  == Acks \cup Reactions \cup Changes

ASSUME EventsAssumption ==
  /\ MaxTime \in Nat
  /\ Acks \cap Reactions = {}
  /\ (Acks \cup Reactions) \cap Nat = {}
  /\ None \notin Events
  /\ AckOf \in [Acks -> -1..4]
  /\ MessageOf \in [Acks -> Messages]
ASSUME LimitsAssumption == MaxFaults \in Nat

VARIABLES
  handler,    \* what each request in progress is about to do
  chain,      \* dispatchUpdates: the handlers queued on each message's key
  stored,     \* normalized_events
  evidence,   \* dispatch_attempts.state; "unlinked" until it has a provider id
  session,    \* sessions.status and status_occurred_at
  latest,     \* latestSessionEvent, in memory
  now,        \* the number of the provider's last change
  calls,      \* status each operator call in progress got from the provider
  answered,   \* history: events WAHA has a 2xx answer for
  applied,    \* history: acks whose transaction found the message's row
  triggered,  \* history: completed reaction triggers
  stale,      \* history: the last change after which an operator's call stored the
              \* status of an earlier one
  faults      \* history: failed awaits and crashes

rows == <<stored, evidence, session>>
vars == <<handler, chain, stored, evidence, session, latest, now, calls,
          answered, applied, triggered, stale, faults>>

EvidenceStates == {"unlinked", "attempting", "submitted", "acknowledged", "failed"}

(* The states an ack can bring and their order in the update's WHERE.      *)
Rank == [attempting |-> 1, submitted |-> 2, acknowledged |-> 3, failed |-> 5]

AckState(e) ==
  CASE AckOf[e] < 0 -> "failed"
    [] AckOf[e] = 0 -> "attempting"
    [] AckOf[e] = 1 -> "submitted"
    [] OTHER        -> "acknowledged"

(* The provider's changes happen at the even instants, and an operator's   *)
(* call stores its answer at the odd ones between them.                    *)
Instant(change) == 2 * change

Idle == [pc |-> "idle", event |-> None]

NoChain == [m \in Messages |-> <<>>]

TypeOK ==
  /\ handler \in [Handlers -> [pc: {"idle", "find", "insert", "status", "react", "reply"},
                               event: Events \cup {None}]]
  /\ chain \in [Messages -> Seq(Handlers)]
  /\ stored \subseteq Events
  /\ evidence \in [Messages -> EvidenceStates]
  /\ session \in [status: 0..MaxTime, at: -1..Instant(MaxTime) + 1]
  /\ latest \in -1..MaxTime
  /\ now \in 0..MaxTime
  /\ calls \subseteq 1..now
  /\ answered \subseteq Events
  /\ applied \subseteq Acks
  /\ triggered \in [Reactions -> Nat]
  /\ stale \in 0..MaxTime
  /\ faults \in 0..MaxFaults

Init ==
  /\ handler = [h \in Handlers |-> Idle]
  /\ chain = NoChain
  /\ stored = {}
  /\ evidence = [m \in Messages |-> "unlinked"]
  /\ session = [status |-> 0, at |-> -1]
  /\ latest = -1
  /\ now = 0
  /\ calls = {}
  /\ answered = {}
  /\ applied = {}
  /\ triggered = [e \in Reactions |-> 0]
  /\ stale = 0
  /\ faults = 0

------------------------------------------------------------------------------
(* One request: ingest, await by await.                                    *)

GoTo(h, pc) == handler' = [handler EXCEPT ![h].pc = pc]

(* The awaits between these steps resume with the event's own closure.     *)
At(h, pc) == handler[h].pc = pc

Deliver(h, e) ==
  /\ At(h, "idle")
  /\ e \in Changes => e <= now
  /\ handler' = [handler EXCEPT ![h] = [pc |-> "find", event |-> e]]
  /\ UNCHANGED <<chain, rows, latest, now, calls, answered, applied, triggered, stale, faults>>

(* findSession has answered: an ack queues on its message's key.           *)
FindSession(h) ==
  LET e == handler[h].event
  IN /\ At(h, "find")
     /\ GoTo(h, "insert")
     /\ chain' = IF e \in Acks THEN [chain EXCEPT ![MessageOf[e]] = Append(@, h)] ELSE chain
     /\ UNCHANGED <<rows, latest, now, calls, answered, applied, triggered, stale, faults>>

(* Mutant: the update has no condition on the row's present state.         *)
MutAdvanced(m, e) ==
  IF evidence[m] = "unlinked" THEN evidence[m] ELSE AckState(e)

(* The UPDATE reaches only a row with the message's provider id, and only  *)
(* while its state ranks lower than the ack's.                             *)
Advanced(m, e) ==
  IF evidence[m] # "unlinked" /\ Rank[evidence[m]] < Rank[AckState(e)]
  THEN AckState(e) ELSE evidence[m]

(* insertEventAndUpdateDispatchState: one transaction per key at a time,   *)
(* the same for a duplicate.                                               *)
InsertAck(h) ==
  LET e == handler[h].event
      m == MessageOf[e]
  IN /\ At(h, "insert")
     /\ e \in Acks
     /\ Head(chain[m]) = h
     /\ chain' = [chain EXCEPT ![m] = Tail(@)]
     /\ stored' = stored \cup {e}
     /\ evidence' = [evidence EXCEPT ![m] = Advanced(m, e)]
     /\ applied' = IF evidence[m] = "unlinked" THEN applied ELSE applied \cup {e}
     /\ GoTo(h, "reply")
     /\ UNCHANGED <<session, latest, now, calls, answered, triggered, stale, faults>>

(* Mutants: a duplicate returns before the status update, or runs the      *)
(* trigger again.                                                          *)
MutAfterInsertStatus(e) ==
  CASE e \in stored                   -> "reply"
    [] e \in Changes /\ e >= latest   -> "status"
    [] e \in Reactions                -> "react"
    [] OTHER                          -> "reply"

MutAfterInsertReact(e) ==
  CASE e \in Changes /\ e >= latest -> "status"
    [] e \in Reactions              -> "react"
    [] OTHER                        -> "reply"

(* A status event goes on to its update unless a newer one has been seen,  *)
(* stored before or not; only a new reaction goes on to the trigger.       *)
AfterInsert(e) ==
  CASE e \in Changes /\ e >= latest         -> "status"
    [] e \in Reactions /\ e \notin stored   -> "react"
    [] OTHER                                -> "reply"

InsertEvent(h) ==
  LET e == handler[h].event
  IN /\ At(h, "insert")
     /\ e \notin Acks
     /\ stored' = stored \cup {e}
     /\ GoTo(h, AfterInsert(e))
     /\ UNCHANGED <<chain, evidence, session, latest, now, calls, answered, applied,
                    triggered, stale, faults>>

(* Mutant: the row's own time is not asked.                                *)
MutSaveStatus(status, at) == session' = [status |-> status, at |-> at]

(* sessions.updateStatus: only a later time replaces the row's status.     *)
SaveStatus(status, at) ==
  session' = IF session.at < at THEN [status |-> status, at |-> at] ELSE session

(* The map in memory is then set to this event's time, even backwards.     *)
UpdateStatus(h) ==
  /\ At(h, "status")
  /\ SaveStatus(handler[h].event, Instant(handler[h].event))
  /\ latest' = handler[h].event
  /\ GoTo(h, "reply")
  /\ UNCHANGED <<chain, stored, evidence, now, calls, answered, applied, triggered, stale, faults>>

Trigger(h) ==
  /\ At(h, "react")
  /\ triggered' = [triggered EXCEPT ![handler[h].event] = @ + 1]
  /\ GoTo(h, "reply")
  /\ UNCHANGED <<chain, rows, latest, now, calls, answered, applied, stale, faults>>

(* 202, or 200 for a duplicate: WAHA has its answer.                       *)
Reply(h) ==
  /\ At(h, "reply")
  /\ answered' = answered \cup {handler[h].event}
  /\ handler' = [handler EXCEPT ![h] = Idle]
  /\ UNCHANGED <<chain, rows, latest, now, calls, applied, triggered, stale, faults>>

------------------------------------------------------------------------------
(* Failures.                                                               *)

(* An await other than an ack's transaction rejects: 503, or 500 from the  *)
(* trigger, and nothing of that step is done.                              *)
FailRequest(h) ==
  /\ \/ handler[h].pc \in {"find", "status", "react"}
     \/ At(h, "insert") /\ handler[h].event \notin Acks
  /\ faults < MaxFaults
  /\ faults' = faults + 1
  /\ handler' = [handler EXCEPT ![h] = Idle]
  /\ UNCHANGED <<chain, rows, latest, now, calls, answered, applied, triggered, stale>>

(* Mutant: the followers wait for a promise that is never settled.         *)
MutFailAck(m) ==
  /\ chain[m] # <<>>
  /\ faults < MaxFaults
  /\ faults' = faults + 1
  /\ handler' = [handler EXCEPT ![Head(chain[m])] = Idle]
  /\ UNCHANGED <<chain, rows, latest, now, calls, answered, applied, triggered, stale>>

(* An ack's transaction rejects, and with its promise every handler        *)
(* chained behind it: all of them answer 503.                              *)
FailAck(m) ==
  /\ chain[m] # <<>>
  /\ faults < MaxFaults
  /\ faults' = faults + 1
  /\ handler' = [h \in Handlers |->
                   IF h \in {chain[m][i] : i \in 1..Len(chain[m])} THEN Idle ELSE handler[h]]
  /\ chain' = [chain EXCEPT ![m] = <<>>]
  /\ UNCHANGED <<rows, latest, now, calls, answered, applied, triggered, stale>>

Crash ==
  /\ faults < MaxFaults
  /\ faults' = faults + 1
  /\ handler' = [h \in Handlers |-> Idle]
  /\ chain' = NoChain
  /\ latest' = -1
  /\ calls' = {}
  /\ UNCHANGED <<rows, now, answered, applied, triggered, stale>>

------------------------------------------------------------------------------
(* The rest of the system.                                                 *)

(* The scheduler's complete(): the row gets the provider's message id.     *)
Settle(m) ==
  /\ evidence[m] = "unlinked"
  /\ evidence' = [evidence EXCEPT ![m] = "submitted"]
  /\ UNCHANGED <<handler, chain, stored, session, latest, now, calls, answered, applied,
                 triggered, stale, faults>>

(* The provider's session changes its status and emits the event.          *)
ProviderChange ==
  /\ now < MaxTime
  /\ now' = now + 1
  /\ UNCHANGED <<handler, chain, rows, latest, calls, answered, applied, triggered, stale, faults>>

(* An operator's start, stop, restart or logout: the provider changes the  *)
(* session's status and returns it ...                                     *)
LifecycleCall ==
  /\ now < MaxTime
  /\ now' = now + 1
  /\ calls' = calls \cup {now'}
  /\ UNCHANGED <<handler, chain, rows, latest, answered, applied, triggered, stale, faults>>

(* ... and the API stores what was returned with the time of storing it,   *)
(* which is later than any time stored so far unless it is the same        *)
(* millisecond.                                                            *)
LifecycleSave(status) ==
  /\ status \in calls
  /\ calls' = calls \ {status}
  /\ \/ /\ session' = [status |-> status, at |-> Instant(now) + 1]
        /\ stale' = IF status < now THEN now ELSE stale
     \/ session.at >= Instant(now) /\ UNCHANGED <<session, stale>>
  /\ UNCHANGED <<handler, chain, stored, evidence, latest, now, answered, applied,
                 triggered, faults>>

------------------------------------------------------------------------------
Serve(h) ==
  \/ FindSession(h) \/ InsertAck(h) \/ InsertEvent(h)
  \/ UpdateStatus(h) \/ Trigger(h) \/ Reply(h)

Next ==
  \/ \E h \in Handlers : Serve(h) \/ FailRequest(h) \/ \E e \in Events : Deliver(h, e)
  \/ \E m \in Messages : FailAck(m) \/ Settle(m)
  \/ \E status \in Changes : LifecycleSave(status)
  \/ ProviderChange \/ LifecycleCall \/ Crash

Spec == Init /\ [][Next]_vars

(* Every awaited database call returns.                                    *)
FairSpec == Spec /\ \A h \in Handlers : WF_vars(Serve(h))

------------------------------------------------------------------------------
(* Properties.                                                             *)

Linked(m) == evidence[m] # "unlinked"

(* Out-of-order and repeated acks are handled deterministically: a row's   *)
(* state is the highest of "submitted" and the acks applied to it, in      *)
(* whatever order and however often the webhook's transactions ran.        *)
EvidenceIsHighestAck ==
  \A m \in Messages : Linked(m) =>
    LET about == {e \in applied : MessageOf[e] = m}
    IN /\ Rank[evidence[m]] >= Rank["submitted"]
       /\ \A e \in about : Rank[evidence[m]] >= Rank[AckState(e)]
       /\ evidence[m] = "submitted" \/ \E e \in about : evidence[m] = AckState(e)

(* Only a row that is linked has acks applied to it.                       *)
AppliedAreLinked == \A e \in applied : Linked(MessageOf[e])

(* The acks of a message queue on dispatchUpdates: each waiting handler    *)
(* is in its message's queue exactly once, and nobody else is.             *)
ChainHoldsWaiters ==
  /\ \A h \in Handlers : At(h, "insert") /\ handler[h].event \in Acks =>
       \E i \in 1..Len(chain[MessageOf[handler[h].event]]) :
         chain[MessageOf[handler[h].event]][i] = h
  /\ \A m \in Messages : \A i \in 1..Len(chain[m]) :
       LET h == chain[m][i]
       IN /\ At(h, "insert") /\ handler[h].event \in Acks /\ MessageOf[handler[h].event] = m
          /\ \A k \in 1..Len(chain[m]) : chain[m][k] = h => k = i

(* A status event that WAHA will not send again (it has a 2xx) has reached *)
(* the session's row or been overtaken there by a later time, whatever     *)
(* failures, restarts and duplicates came before the answer.               *)
AnsweredStatusReflected == \A k \in Changes \cap answered : session.at >= Instant(k)

(* However often and to however many handlers at once a reaction event is  *)
(* delivered, its follow-up is triggered at most once.                     *)
ReactionTriggeredOnce == \A e \in Reactions : triggered[e] <= 1

(* What a handler works on.                                                *)
HandlersSound ==
  \A h \in Handlers :
    /\ ~At(h, "idle") => handler[h].event \in Events
    /\ handler[h].event \in Changes => handler[h].event <= now
    /\ At(h, "status") => handler[h].event \in Changes
    /\ At(h, "react") => handler[h].event \in Reactions

(* One handler at most is about to trigger a reaction's follow-up, and     *)
(* only for an event just stored that was never triggered.                 *)
TriggerPending ==
  /\ \A g, h \in Handlers :
       At(g, "react") /\ At(h, "react") /\ handler[g].event = handler[h].event => g = h
  /\ \A h \in Handlers : At(h, "react") =>
       handler[h].event \in stored /\ triggered[handler[h].event] = 0
  /\ \A e \in Reactions : e \notin stored => triggered[e] = 0

(* A handler about to answer a status event has brought it to the row, and *)
(* the memory of the newest event never runs ahead of the row.             *)
StatusBeforeReply ==
  /\ \A h \in Handlers : At(h, "reply") /\ handler[h].event \in Changes =>
       session.at >= Instant(handler[h].event)
  /\ Instant(latest) <= session.at
  /\ session.at <= Instant(now) + 1

(* The row holds the status of the change whose time it has, or the status *)
(* a call has stored after it, which may be that of an earlier change.     *)
RowIsKnown ==
  \/ session.at = -1 /\ session.status = 0
  \/ session.at \in {Instant(session.status), Instant(session.status) + 1, Instant(stale) + 1}

(* The inductive invariant: every step of ingest, every failure and every  *)
(* restart keeps it, and the properties above are among its parts.         *)
IInv ==
  /\ TypeOK
  /\ HandlersSound
  /\ ChainHoldsWaiters
  /\ AppliedAreLinked
  /\ EvidenceIsHighestAck
  /\ StatusBeforeReply
  /\ RowIsKnown
  /\ AnsweredStatusReflected
  /\ TriggerPending
  /\ ReactionTriggeredOnce

(* Every delivery is answered: no handler waits for ever in a queue whose  *)
(* head has failed.                                                        *)
DeliveriesAnswered == \A h \in Handlers : ~At(h, "idle") ~> At(h, "idle")

(* Once WAHA has delivered every change, in any order and over failures and *)
(* restarts, the row shows the provider's present status, whatever calls of *)
(* operators are open, unless since the last change one of them has stored  *)
(* the status of an earlier change (lifecycle's saveStatus gives the time   *)
(* of storing); the next change's event then replaces it.                   *)
StatusConverges ==
  (1..now) \subseteq answered => session.status = now \/ stale = now

(* What the changelog says of webhook ingestion, that it tolerates         *)
(* out-of-order delivery: an ack that was stored counts, even if it came   *)
(* before the dispatch had stored the provider's message id.               *)
EarlyAckCounts ==
  \A e \in stored \cap Acks :
    Linked(MessageOf[e]) => Rank[evidence[MessageOf[e]]] >= Rank[AckState(e)]
=============================================================================
