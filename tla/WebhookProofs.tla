---------------------------- MODULE WebhookProofs ----------------------------
(***************************************************************************)
(* Proofs about Webhook, for every set of requests, messages and events    *)
(* and any number of failures, restarts and redeliveries.                  *)
(***************************************************************************)
EXTENDS Webhook, SequenceTheorems, TLAPS

Steps == {"idle", "find", "insert", "status", "react", "reply"}

Request == [pc: Steps, event: Events \cup {None}]

LEMMA EventsAreDisjoint ==
  /\ \A e \in Acks : e \in Events /\ e \notin Changes /\ e \notin Reactions
  /\ \A e \in Reactions : e \in Events /\ e \notin Changes /\ e \notin Acks
  /\ \A e \in Changes : e \in Events /\ e \notin Acks /\ e \notin Reactions /\ e \in 1..MaxTime
  /\ None \notin Events
<1>1. Changes \subseteq Nat
  BY EventsAssumption DEF Changes
<1> QED
  BY <1>1, EventsAssumption DEF Events, Changes

LEMMA RankIs ==
  /\ Rank["attempting"] = 1 /\ Rank["submitted"] = 2
  /\ Rank["acknowledged"] = 3 /\ Rank["failed"] = 5
  BY DEF Rank

LEMMA AckStates ==
  ASSUME NEW e \in Acks
  PROVE  AckState(e) \in {"failed", "attempting", "submitted", "acknowledged"}
<1>1. AckOf[e] \in -1..4
  BY EventsAssumption
<1> QED
  BY <1>1 DEF AckState

LEMMA InitIInv == Init => IInv
<1> SUFFICES ASSUME Init PROVE IInv
  OBVIOUS
<1> USE EventsAssumption, LimitsAssumption DEF Init
<1>1. \A h \in Handlers : At(h, "idle") /\ ~At(h, "insert") /\ ~At(h, "status") /\ ~At(h, "react")
                          /\ ~At(h, "reply") /\ handler[h].event = None
  BY DEF At, Idle
<1>2. TypeOK
  <2>1. <<>> \in Seq(Handlers)
    OBVIOUS
  <2>2. handler \in [Handlers -> [pc: {"idle", "find", "insert", "status", "react", "reply"},
                                  event: Events \cup {None}]]
    BY DEF Idle
  <2>3. chain \in [Messages -> Seq(Handlers)]
    BY <2>1 DEF NoChain
  <2> QED
    BY <2>2, <2>3 DEF TypeOK, EvidenceStates, Instant
<1>3. HandlersSound
  BY <1>1, EventsAreDisjoint DEF HandlersSound
<1>4. ChainHoldsWaiters
  <2>1. \A m \in Messages : Len(chain[m]) = 0
    BY DEF NoChain
  <2> QED
    BY <1>1, <2>1 DEF ChainHoldsWaiters
<1>5. AppliedAreLinked /\ EvidenceIsHighestAck
  BY DEF AppliedAreLinked, EvidenceIsHighestAck, Linked
<1>6. StatusBeforeReply /\ RowIsKnown /\ AnsweredStatusReflected
  BY <1>1 DEF StatusBeforeReply, RowIsKnown, AnsweredStatusReflected, Instant
<1>7. TriggerPending /\ ReactionTriggeredOnce
  BY <1>1 DEF TriggerPending, ReactionTriggeredOnce
<1> QED
  BY <1>2, <1>3, <1>4, <1>5, <1>6, <1>7 DEF IInv

------------------------------------------------------------------------------
(* How a step moves a request: it goes on, is answered, or is abandoned.   *)
Moved(h) ==
  \/ handler'[h] = handler[h]
  \/ handler'[h] = Idle
  \/ /\ At(h, "idle") /\ handler'[h].pc = "find"
     /\ handler'[h].event \in Events
     /\ handler'[h].event \in Changes => handler'[h].event <= now
  \/ /\ handler'[h].event = handler[h].event
     /\ \/ FindSession(h) /\ handler'[h].pc = "insert"
        \/ InsertAck(h) /\ handler'[h].pc = "reply"
        \/ InsertEvent(h) /\ handler'[h].pc = AfterInsert(handler[h].event)
        \/ (UpdateStatus(h) \/ Trigger(h)) /\ handler'[h].pc = "reply"

LEMMA Moves ==
  ASSUME IInv, [Next]_vars
  PROVE  handler' \in [Handlers -> Request] /\ \A h \in Handlers : Moved(h)
<1> USE DEF Moved
<1> DEFINE Goal == handler' \in [Handlers -> Request] /\ \A h \in Handlers : Moved(h)
<1>0. handler \in [Handlers -> Request]
  BY DEF IInv, TypeOK, Request, Steps
<1>1. Idle \in Request
  BY DEF Idle, Request, Steps
<1>2. ASSUME NEW h \in Handlers, NEW pc \in Steps, GoTo(h, pc)
      PROVE  /\ handler' \in [Handlers -> Request]
             /\ handler'[h].pc = pc /\ handler'[h].event = handler[h].event
             /\ \A g \in Handlers : g # h => handler'[g] = handler[g]
  BY <1>0, <1>2 DEF GoTo, Request
<1>3. ASSUME NEW h \in Handlers, Serve(h) PROVE Goal
  <2>1. CASE FindSession(h)
    <3>1. GoTo(h, "insert")
      BY <2>1 DEF FindSession
    <3> QED
      BY <1>2, <2>1, <3>1 DEF Steps
  <2>2. CASE InsertAck(h)
    <3>1. GoTo(h, "reply")
      BY <2>2 DEF InsertAck
    <3> QED
      BY <1>2, <2>2, <3>1 DEF Steps
  <2>3. CASE InsertEvent(h)
    <3>1. GoTo(h, AfterInsert(handler[h].event)) /\ AfterInsert(handler[h].event) \in Steps
      BY <2>3 DEF InsertEvent, AfterInsert, Steps
    <3> QED
      BY <1>2, <2>3, <3>1
  <2>4. CASE UpdateStatus(h) \/ Trigger(h)
    <3>1. GoTo(h, "reply")
      BY <2>4 DEF UpdateStatus, Trigger
    <3> QED
      BY <1>2, <2>4, <3>1 DEF Steps
  <2>5. CASE Reply(h)
    BY <1>0, <1>1, <2>5 DEF Reply
  <2> QED
    BY <1>3, <2>1, <2>2, <2>3, <2>4, <2>5 DEF Serve
<1>4. ASSUME NEW h \in Handlers, NEW e \in Events, Deliver(h, e) PROVE Goal
  BY <1>0, <1>4 DEF Deliver, Request, Steps
<1>5. ASSUME NEW h \in Handlers, FailRequest(h) PROVE Goal
  BY <1>0, <1>1, <1>5 DEF FailRequest
<1>6. ASSUME NEW m \in Messages, FailAck(m) PROVE Goal
  BY <1>0, <1>1, <1>6 DEF FailAck
<1>7. ASSUME Crash PROVE Goal
  BY <1>1, <1>7 DEF Crash
<1>8. ASSUME handler' = handler PROVE Goal
  BY <1>0, <1>8
<1> HIDE DEF Goal
<1>9. Goal
  BY <1>3, <1>4, <1>5, <1>6, <1>7, <1>8 DEF Next, vars, Settle, LifecycleSave, ProviderChange, LifecycleCall
<1> QED
  BY <1>9 DEF Goal

LEMMA TypeKept ==
  ASSUME IInv, [Next]_vars
  PROVE  TypeOK'
<1> USE DEF IInv, TypeOK
<1>1. handler' \in [Handlers -> Request]
  BY Moves
<1>2. chain' \in [Messages -> Seq(Handlers)]
  <2>1. ASSUME NEW h \in Handlers, FindSession(h) PROVE chain' \in [Messages -> Seq(Handlers)]
    <3>1. CASE handler[h].event \in Acks
      <4> DEFINE m == MessageOf[handler[h].event]
      <4>1. m \in Messages /\ chain' = [chain EXCEPT ![m] = Append(chain[m], h)]
        BY <2>1, <3>1, EventsAssumption DEF FindSession
      <4>2. Append(chain[m], h) \in Seq(Handlers)
        BY <4>1, AppendProperties
      <4> HIDE DEF m
      <4> QED
        BY <4>1, <4>2
    <3>2. CASE handler[h].event \notin Acks
      BY <2>1, <3>2 DEF FindSession
    <3> QED
      BY <3>1, <3>2
  <2>2. ASSUME NEW h \in Handlers, InsertAck(h) PROVE chain' \in [Messages -> Seq(Handlers)]
    <3> DEFINE m == MessageOf[handler[h].event]
    <3>1. m \in Messages /\ chain' = [chain EXCEPT ![m] = Tail(chain[m])]
      BY <2>2, EventsAssumption DEF InsertAck
    <3>2. chain[m] # <<>>
      BY <2>2 DEF InsertAck, ChainHoldsWaiters
    <3>3. Tail(chain[m]) \in Seq(Handlers)
      BY <3>1, <3>2, HeadTailProperties
    <3> HIDE DEF m
    <3> QED
      BY <3>1, <3>3
  <2>3. ASSUME NEW m \in Messages, FailAck(m) PROVE chain' \in [Messages -> Seq(Handlers)]
    <3>1. <<>> \in Seq(Handlers)
      OBVIOUS
    <3> QED
      BY <2>3, <3>1 DEF FailAck
  <2>4. ASSUME Crash PROVE chain' \in [Messages -> Seq(Handlers)]
    <3>1. <<>> \in Seq(Handlers)
      OBVIOUS
    <3> QED
      BY <2>4, <3>1 DEF Crash, NoChain
  <2>5. ASSUME UNCHANGED chain PROVE chain' \in [Messages -> Seq(Handlers)]
    BY <2>5
  <2> QED
    BY <2>1, <2>2, <2>3, <2>4, <2>5 DEF Next, Serve, InsertEvent, UpdateStatus, Trigger, Reply,
       FailRequest, Deliver, Settle, LifecycleSave, ProviderChange, LifecycleCall, vars
<1>3. stored' \subseteq Events /\ answered' \subseteq Events
  <2>1. ASSUME NEW h \in Handlers, Serve(h) PROVE stored' \subseteq Events /\ answered' \subseteq Events
    <3>1. At(h, "idle") \/ handler[h].event \in Events
      BY DEF HandlersSound
    <3>2. FindSession(h) \/ UpdateStatus(h) \/ Trigger(h) => UNCHANGED <<stored, answered>>
      BY DEF FindSession, UpdateStatus, Trigger, rows
    <3>3. InsertAck(h) \/ InsertEvent(h) =>
            /\ handler[h].event \in Events
            /\ stored' = stored \cup {handler[h].event} /\ answered' = answered
      BY <3>1 DEF InsertAck, InsertEvent, At
    <3>4. Reply(h) => /\ handler[h].event \in Events
                      /\ stored' = stored /\ answered' = answered \cup {handler[h].event}
      BY <3>1 DEF Reply, At, rows
    <3> QED
      BY <2>1, <3>2, <3>3, <3>4 DEF Serve
  <2>2. ASSUME UNCHANGED <<stored, answered>> PROVE stored' \subseteq Events /\ answered' \subseteq Events
    BY <2>2
  <2> QED
    BY <2>1, <2>2 DEF Next, FailRequest, Deliver, FailAck, Settle, LifecycleSave, ProviderChange,
       LifecycleCall, Crash, rows, vars
<1>4. evidence' \in [Messages -> EvidenceStates] /\ applied' \subseteq Acks
  <2>1. ASSUME NEW h \in Handlers, InsertAck(h)
        PROVE  evidence' \in [Messages -> EvidenceStates] /\ applied' \subseteq Acks
    <3> DEFINE e == handler[h].event
               new == Advanced(MessageOf[e], e)
    <3>1. e \in Acks /\ MessageOf[e] \in Messages
      BY <2>1, EventsAssumption DEF InsertAck
    <3>2. new \in EvidenceStates
      BY <3>1, AckStates DEF Advanced, EvidenceStates
    <3>3. evidence' = [evidence EXCEPT ![MessageOf[e]] = new] /\ applied' \subseteq applied \cup {e}
      BY <2>1 DEF InsertAck
    <3> HIDE DEF new, e
    <3> QED
      BY <3>1, <3>2, <3>3
  <2>2. ASSUME NEW m \in Messages, Settle(m)
        PROVE  evidence' \in [Messages -> EvidenceStates] /\ applied' \subseteq Acks
    BY <2>2 DEF Settle, EvidenceStates
  <2>3. ASSUME UNCHANGED <<evidence, applied>>
        PROVE  evidence' \in [Messages -> EvidenceStates] /\ applied' \subseteq Acks
    BY <2>3
  <2> QED
    BY <2>1, <2>2, <2>3 DEF Next, Serve, FindSession, InsertEvent, UpdateStatus, Trigger, Reply,
       FailRequest, Deliver, FailAck, LifecycleSave, ProviderChange, LifecycleCall, Crash, rows, vars
<1>5. /\ now' \in 0..MaxTime /\ calls' \subseteq 1..now'
      /\ session' \in [status: 0..MaxTime, at: -1..Instant(MaxTime) + 1] /\ latest' \in -1..MaxTime
  <2> DEFINE Goal == /\ now' \in 0..MaxTime /\ calls' \subseteq 1..now'
                     /\ session' \in [status: 0..MaxTime, at: -1..Instant(MaxTime) + 1] /\ latest' \in -1..MaxTime
  <2>0. MaxTime \in Nat
    BY EventsAssumption
  <2>1. ASSUME NEW h \in Handlers, UpdateStatus(h) PROVE Goal
    <3>1. handler[h].event \in 1..MaxTime
      BY <2>1 DEF UpdateStatus, HandlersSound, Changes
    <3> QED
      BY <2>0, <2>1, <3>1 DEF UpdateStatus, SaveStatus, Instant
  <2>2. ASSUME NEW status \in Changes, LifecycleSave(status) PROVE Goal
    BY <2>0, <2>2 DEF LifecycleSave, Changes, Instant
  <2>3. ASSUME ProviderChange \/ LifecycleCall PROVE Goal
    <3>1. now < MaxTime /\ now' = now + 1 /\ UNCHANGED <<session, latest>>
          /\ calls' \subseteq calls \cup {now'}
      BY <2>3 DEF ProviderChange, LifecycleCall, rows
    <3>2. now' \in 0..MaxTime /\ now' \in 1..now' /\ 1..now \subseteq 1..now'
      BY <2>0, <3>1
    <3> QED
      BY <3>1, <3>2
  <2>4. ASSUME Crash PROVE Goal
    BY <2>0, <2>4 DEF Crash, rows
  <2>5. ASSUME UNCHANGED <<now, calls, session, latest>> PROVE Goal
    BY <2>5
  <2> HIDE DEF Goal
  <2>6. Goal
    BY <2>1, <2>2, <2>3, <2>4, <2>5 DEF Next, Serve, FindSession, InsertAck, InsertEvent, Trigger,
       Reply, FailRequest, Deliver, FailAck, Settle, rows, vars
  <2> QED
    BY <2>6 DEF Goal
<1>6. triggered' \in [Reactions -> Nat]
  <2>1. ASSUME NEW h \in Handlers, Trigger(h) PROVE triggered' \in [Reactions -> Nat]
    BY <2>1 DEF Trigger, HandlersSound
  <2>2. ASSUME UNCHANGED triggered PROVE triggered' \in [Reactions -> Nat]
    BY <2>2
  <2> QED
    BY <2>1, <2>2 DEF Next, Serve, FindSession, InsertAck, InsertEvent, UpdateStatus, Reply,
       FailRequest, Deliver, FailAck, Settle, LifecycleSave, ProviderChange, LifecycleCall, Crash, vars
<1>7. faults' \in 0..MaxFaults
  BY LimitsAssumption DEF Next, Serve, FindSession, InsertAck, InsertEvent, UpdateStatus, Trigger,
     Reply, FailRequest, Deliver, FailAck, Settle, LifecycleSave, ProviderChange, LifecycleCall, Crash, vars
<1>8. stale' \in 0..MaxTime
  BY EventsAssumption DEF Next, Serve, FindSession, InsertAck, InsertEvent, UpdateStatus, Trigger,
     Reply, FailRequest, Deliver, FailAck, Settle, LifecycleSave, ProviderChange, LifecycleCall, Crash, vars
<1> QED
  BY <1>1, <1>2, <1>3, <1>4, <1>5, <1>6, <1>7, <1>8 DEF Request, Steps

LEMMA HandlersKept ==
  ASSUME IInv, [Next]_vars
  PROVE  HandlersSound'
<1>1. now' \in Nat /\ now \in Nat /\ now' >= now
  <2>1. now' = now \/ now' = now + 1
    BY DEF Next, Serve, FindSession, InsertAck, InsertEvent, UpdateStatus, Trigger, Reply,
       FailRequest, Deliver, FailAck, Settle, LifecycleSave, ProviderChange, LifecycleCall, Crash, vars
  <2> QED
    BY <2>1, EventsAssumption DEF IInv, TypeOK
<1> SUFFICES ASSUME NEW h \in Handlers
             PROVE  /\ handler'[h].pc # "idle" => handler'[h].event \in Events
                    /\ handler'[h].event \in Changes => handler'[h].event <= now'
                    /\ handler'[h].pc = "status" => handler'[h].event \in Changes
                    /\ handler'[h].pc = "react" => handler'[h].event \in Reactions
  BY DEF HandlersSound, At
<1>2. /\ handler[h].pc # "idle" => handler[h].event \in Events
      /\ handler[h].event \in Changes => handler[h].event <= now
      /\ handler[h].pc = "status" => handler[h].event \in Changes
      /\ handler[h].pc = "react" => handler[h].event \in Reactions
  BY DEF IInv, HandlersSound, At
<1>3. \A e \in Changes : e \in Nat
  BY DEF Changes
<1>4. AfterInsert(handler[h].event) = "status" => handler[h].event \in Changes
  BY DEF AfterInsert
<1>5. AfterInsert(handler[h].event) = "react" => handler[h].event \in Reactions
  BY DEF AfterInsert
<1>6. CASE handler'[h] = handler[h]
  BY <1>1, <1>2, <1>3, <1>6
<1>7. CASE handler'[h] = Idle
  BY <1>7, EventsAreDisjoint DEF Idle
<1>8. CASE At(h, "idle") /\ handler'[h].pc = "find" /\ handler'[h].event \in Events
           /\ (handler'[h].event \in Changes => handler'[h].event <= now)
  BY <1>1, <1>3, <1>8
<1>9. CASE /\ handler'[h].event = handler[h].event
           /\ \/ FindSession(h) /\ handler'[h].pc = "insert"
              \/ InsertAck(h) /\ handler'[h].pc = "reply"
              \/ InsertEvent(h) /\ handler'[h].pc = AfterInsert(handler[h].event)
              \/ (UpdateStatus(h) \/ Trigger(h)) /\ handler'[h].pc = "reply"
  <2>1. handler[h].pc # "idle"
    BY <1>9 DEF FindSession, InsertAck, InsertEvent, UpdateStatus, Trigger, At
  <2> QED
    BY <1>1, <1>2, <1>3, <1>4, <1>5, <1>9, <2>1
<1> QED
  BY <1>6, <1>7, <1>8, <1>9, Moves DEF Moved

------------------------------------------------------------------------------
(* The session's status.                                                   *)

LEMMA StatusKept ==
  ASSUME IInv, [Next]_vars
  PROVE  StatusBeforeReply' /\ AnsweredStatusReflected'
<1> USE DEF IInv, TypeOK, Instant
<1> DEFINE Goal == /\ session'.at >= session.at /\ Instant(latest') <= session'.at
                  /\ session'.at <= Instant(now') + 1
<1>0. /\ session.at \in Int /\ latest \in Int /\ now \in Int /\ Instant(latest) <= session.at
      /\ session.at <= Instant(now) + 1 /\ -1 <= session.at
  BY EventsAssumption DEF StatusBeforeReply
<1>1. ASSUME NEW h \in Handlers, UpdateStatus(h)
      PROVE  Goal /\ session'.at >= Instant(handler[h].event)
  <2>1. handler[h].event \in 1..MaxTime /\ handler[h].event <= now
    BY <1>1 DEF UpdateStatus, HandlersSound, Changes
  <2> QED
    BY <1>0, <1>1, <2>1 DEF UpdateStatus, SaveStatus
<1>2. ASSUME NEW status \in Changes, LifecycleSave(status) PROVE Goal
  BY <1>0, <1>2 DEF LifecycleSave
<1>3. ASSUME ProviderChange \/ LifecycleCall PROVE Goal
  <2>1. now' = now + 1 /\ UNCHANGED <<session, latest>>
    BY <1>3 DEF ProviderChange, LifecycleCall, rows
  <2> QED
    BY <1>0, <2>1
<1>4. ASSUME Crash PROVE Goal
  BY <1>0, <1>4 DEF Crash, rows
<1>5. ASSUME UNCHANGED <<now, session, latest>> PROVE Goal
  BY <1>0, <1>5
<1> HIDE DEF Goal
<1>6. Goal
  BY <1>1, <1>2, <1>3, <1>4, <1>5 DEF Next, Serve, FindSession, InsertAck, InsertEvent, Trigger,
     Reply, FailRequest, Deliver, FailAck, Settle, rows, vars
<1>7. session'.at \in Int /\ now' \in Int /\ latest' \in Int
  BY TypeKept, EventsAssumption
<1>8. ASSUME NEW h \in Handlers, handler'[h].pc = "reply", handler'[h].event \in Changes
      PROVE  session'.at >= Instant(handler'[h].event)
  <2>0. handler'[h].event \in Int
    BY <1>8 DEF Changes
  <2>1. CASE handler'[h] = handler[h]
    BY <1>0, <1>6, <1>7, <1>8, <2>0, <2>1 DEF StatusBeforeReply, At, Goal
  <2>2. CASE InsertAck(h) /\ handler'[h].event = handler[h].event
    BY <1>8, <2>2, EventsAreDisjoint DEF InsertAck
  <2>3. CASE /\ InsertEvent(h) /\ handler'[h].event = handler[h].event
             /\ handler'[h].pc = AfterInsert(handler[h].event)
    <3>1. ~(handler[h].event >= latest)
      BY <1>8, <2>3 DEF AfterInsert
    <3> QED
      BY <1>0, <1>6, <1>7, <2>0, <2>3, <3>1 DEF Goal
  <2>4. CASE UpdateStatus(h) /\ handler'[h].event = handler[h].event
    BY <1>1, <2>4
  <2>5. CASE Trigger(h) /\ handler'[h].event = handler[h].event
    BY <1>8, <2>5, EventsAreDisjoint DEF Trigger, HandlersSound
  <2>6. CASE handler'[h] = Idle \/ handler'[h].pc \in {"find", "insert"}
    BY <1>8, <2>6 DEF Idle
  <2> QED
    BY <2>1, <2>2, <2>3, <2>4, <2>5, <2>6, Moves DEF Moved
<1>9. StatusBeforeReply'
  BY <1>6, <1>8 DEF StatusBeforeReply, At, Goal
<1>10. ASSUME NEW k \in Changes, k \in answered' PROVE session'.at >= Instant(k)
  <2>0. k \in Int
    BY DEF Changes
  <2>1. k \in answered \/ \E h \in Handlers : At(h, "reply") /\ handler[h].event = k
    BY <1>10 DEF Next, Serve, FindSession, InsertAck, InsertEvent, UpdateStatus, Trigger, Reply,
       FailRequest, Deliver, FailAck, Settle, LifecycleSave, ProviderChange, LifecycleCall, Crash, vars
  <2>2. session.at >= Instant(k)
    BY <2>1 DEF StatusBeforeReply, AnsweredStatusReflected
  <2> QED
    BY <1>0, <1>6, <1>7, <2>0, <2>2 DEF Goal
<1> QED
  BY <1>9, <1>10 DEF AnsweredStatusReflected

------------------------------------------------------------------------------
(* The row's time tells whose status it holds.                             *)

LEMMA RowIsKnownKept ==
  ASSUME IInv, [Next]_vars
  PROVE  RowIsKnown'
<1>0. RowIsKnown /\ stale \in 0..MaxTime /\ now \in 0..MaxTime
  BY DEF IInv, TypeOK
<1>1. CASE UNCHANGED <<session, stale>>
  BY <1>0, <1>1 DEF RowIsKnown
<1>2. ASSUME NEW h \in Handlers, UpdateStatus(h) PROVE RowIsKnown'
  <2>1. \/ session' = session
        \/ session' = [status |-> handler[h].event, at |-> Instant(handler[h].event)]
    BY <1>2 DEF UpdateStatus, SaveStatus
  <2> QED
    BY <1>0, <1>2, <2>1 DEF UpdateStatus, RowIsKnown
<1>3. ASSUME NEW status \in Changes, LifecycleSave(status)
      PROVE  RowIsKnown'
  <2>1. CASE UNCHANGED <<session, stale>>
    BY <1>1, <2>1
  <2>2. CASE /\ session' = [status |-> status, at |-> Instant(now) + 1]
             /\ stale' = IF status < now THEN now ELSE stale
    <3>1. status \in 1..now /\ status \in Int /\ now \in Int
      BY <1>0, <1>3 DEF LifecycleSave, IInv, TypeOK
    <3>2. status = now \/ stale' = now
      BY <2>2, <3>1
    <3> QED
      BY <1>0, <2>2, <3>1, <3>2 DEF RowIsKnown
  <2> QED
    BY <1>3, <2>1, <2>2 DEF LifecycleSave
<1>4. ASSUME NEW h \in Handlers, Serve(h), ~UpdateStatus(h) PROVE UNCHANGED <<session, stale>>
  BY <1>4 DEF Serve, FindSession, InsertAck, InsertEvent, Trigger, Reply, rows
<1>5. ASSUME NEW h \in Handlers, FailRequest(h) \/ \E e \in Events : Deliver(h, e)
      PROVE  UNCHANGED <<session, stale>>
  BY <1>5 DEF FailRequest, Deliver, rows
<1>6. ASSUME NEW m \in Messages, FailAck(m) \/ Settle(m) PROVE UNCHANGED <<session, stale>>
  BY <1>6 DEF FailAck, Settle, rows
<1>7. ASSUME ProviderChange \/ LifecycleCall \/ Crash \/ UNCHANGED vars
      PROVE  UNCHANGED <<session, stale>>
  BY <1>7 DEF ProviderChange, LifecycleCall, Crash, vars, rows
<1> QED
  BY <1>1, <1>2, <1>3, <1>4, <1>5, <1>6, <1>7 DEF Next

------------------------------------------------------------------------------
(* The reaction trigger.                                                   *)

LEMMA TriggerKept ==
  ASSUME IInv, [Next]_vars
  PROVE  TriggerPending' /\ ReactionTriggeredOnce'
<1> USE DEF IInv
<1>0. \A h \in Handlers : At(h, "react") =>
        /\ handler[h].event \in Reactions /\ handler[h].event \in stored
        /\ triggered[handler[h].event] = 0
  BY DEF HandlersSound, TriggerPending
<1>1. ASSUME NEW h \in Handlers, At(h, "react")'
      PROVE  \/ At(h, "react") /\ handler'[h] = handler[h]
             \/ /\ InsertEvent(h) /\ handler'[h].event = handler[h].event
                /\ handler[h].event \in Reactions /\ handler[h].event \notin stored
  <2>1. AfterInsert(handler[h].event) = "react" =>
          handler[h].event \in Reactions /\ handler[h].event \notin stored
    BY DEF AfterInsert
  <2> QED
    BY <1>1, <2>1, Moves DEF Moved, At, Idle
<1>2. ASSUME NEW h \in Handlers, InsertEvent(h)
      PROVE  /\ stored' = stored \cup {handler[h].event} /\ triggered' = triggered
             /\ \A g \in Handlers : g # h => handler'[g] = handler[g]
  BY <1>2 DEF InsertEvent, GoTo, TypeOK
<1>3. ASSUME NEW h \in Handlers, Trigger(h)
      PROVE  /\ stored' = stored /\ At(h, "react") /\ ~At(h, "react")'
             /\ triggered' = [triggered EXCEPT ![handler[h].event] = triggered[handler[h].event] + 1]
  <2>1. handler'[h].pc = "reply"
    BY <1>3 DEF Trigger, GoTo, TypeOK
  <2> QED
    BY <1>3, <2>1 DEF Trigger, At, rows
<1>4. (\A h \in Handlers : ~Trigger(h)) => triggered' = triggered
  BY DEF Next, Serve, FindSession, InsertAck, InsertEvent, UpdateStatus, Reply,
     FailRequest, Deliver, FailAck, Settle, LifecycleSave, ProviderChange, LifecycleCall, Crash, vars
<1>5. stored \subseteq stored'
  BY DEF Next, Serve, FindSession, InsertAck, InsertEvent, UpdateStatus, Trigger, Reply,
     FailRequest, Deliver, FailAck, Settle, LifecycleSave, ProviderChange, LifecycleCall, Crash, vars, rows
<1>6. triggered \in [Reactions -> Nat]
  BY DEF TypeOK
<1>7. ASSUME NEW g \in Handlers, NEW h \in Handlers, At(g, "react")', At(h, "react")',
             handler'[g].event = handler'[h].event
      PROVE  g = h
  <2>1. CASE /\ At(g, "react") /\ handler'[g] = handler[g]
             /\ At(h, "react") /\ handler'[h] = handler[h]
    BY <1>7, <2>1 DEF TriggerPending
  <2>2. ASSUME NEW i \in Handlers, NEW k \in Handlers, InsertEvent(i), i # k, At(k, "react")'
        PROVE  At(k, "react") /\ handler'[k] = handler[k]
    BY <1>2, <2>2 DEF At
  <2>3. ASSUME NEW i \in Handlers, NEW k \in Handlers, i # k, At(k, "react"), handler'[k] = handler[k],
               handler'[i].event = handler'[k].event, handler'[i].event = handler[i].event
        PROVE  handler[i].event \in stored
    BY <1>0, <2>3
  <2> QED
    BY <1>1, <1>7, <2>1, <2>2, <2>3
<1>8. ASSUME NEW h \in Handlers, At(h, "react")'
      PROVE  handler'[h].event \in stored' /\ triggered'[handler'[h].event] = 0
  <2>1. CASE At(h, "react") /\ handler'[h] = handler[h]
    <3>1. handler'[h].event \in stored' /\ triggered[handler'[h].event] = 0
      BY <1>0, <1>5, <2>1
    <3>2. ASSUME NEW g \in Handlers, Trigger(g) PROVE triggered'[handler'[h].event] = 0
      <4>1. handler[g].event # handler[h].event
        BY <1>3, <1>8, <2>1, <3>2 DEF TriggerPending
      <4> QED
        BY <1>0, <1>3, <1>6, <2>1, <3>1, <3>2, <4>1
    <3> QED
      BY <1>4, <3>1, <3>2
  <2>2. CASE /\ InsertEvent(h) /\ handler'[h].event = handler[h].event
             /\ handler[h].event \in Reactions /\ handler[h].event \notin stored
    BY <1>2, <2>2 DEF TriggerPending
  <2> QED
    BY <1>1, <1>8, <2>1, <2>2
<1>9. ASSUME NEW e \in Reactions
      PROVE  /\ e \notin stored' => triggered'[e] = 0
             /\ triggered'[e] <= 1
  <2>1. (e \notin stored => triggered[e] = 0) /\ triggered[e] <= 1 /\ triggered[e] \in Nat
    BY <1>6 DEF TriggerPending, ReactionTriggeredOnce
  <2>2. ASSUME NEW h \in Handlers, Trigger(h)
        PROVE  (e \notin stored' => triggered'[e] = 0) /\ triggered'[e] <= 1
    BY <1>0, <1>3, <1>6, <2>1, <2>2
  <2> QED
    BY <1>4, <1>5, <2>1, <2>2
<1> QED
  BY <1>7, <1>8, <1>9 DEF TriggerPending, ReactionTriggeredOnce

------------------------------------------------------------------------------
(* Delivery evidence.                                                      *)

LEMMA AdvancedRank ==
  ASSUME NEW m \in Messages, NEW e \in Acks, evidence \in [Messages -> EvidenceStates], Linked(m)
  PROVE  LET new == Advanced(m, e)
         IN /\ new # "unlinked" /\ new \in EvidenceStates
            /\ Rank[new] >= Rank[evidence[m]] /\ Rank[new] >= Rank[AckState(e)]
            /\ new = evidence[m] \/ new = AckState(e)
<1>1. evidence[m] \in {"attempting", "submitted", "acknowledged", "failed"}
  BY DEF Linked, EvidenceStates
<1>2. AckState(e) \in {"failed", "attempting", "submitted", "acknowledged"}
  BY AckStates
<1>3. Rank[evidence[m]] \in Int /\ Rank[AckState(e)] \in Int
  BY <1>1, <1>2, RankIs
<1> QED
  BY <1>1, <1>2, <1>3 DEF Advanced, Linked, EvidenceStates

LEMMA EvidenceKept ==
  ASSUME IInv, [Next]_vars
  PROVE  AppliedAreLinked' /\ EvidenceIsHighestAck'
<1> DEFINE Highest(m) ==
      /\ Rank[evidence'[m]] >= Rank["submitted"]
      /\ \A e \in applied' : MessageOf[e] = m => Rank[evidence'[m]] >= Rank[AckState(e)]
      /\ evidence'[m] = "submitted" \/ \E e \in applied' : MessageOf[e] = m /\ evidence'[m] = AckState(e)
           Goal == /\ \A e \in applied' : evidence'[MessageOf[e]] # "unlinked"
                   /\ \A m \in Messages : evidence'[m] # "unlinked" => Highest(m)
<1>0. /\ evidence \in [Messages -> EvidenceStates] /\ applied \subseteq Acks
      /\ \A e \in applied : evidence[MessageOf[e]] # "unlinked" /\ MessageOf[e] \in Messages
      /\ \A m \in Messages : evidence[m] # "unlinked" =>
           /\ Rank[evidence[m]] >= Rank["submitted"]
           /\ \A e \in applied : MessageOf[e] = m => Rank[evidence[m]] >= Rank[AckState(e)]
           /\ evidence[m] = "submitted" \/ \E e \in applied : MessageOf[e] = m /\ evidence[m] = AckState(e)
  BY EventsAssumption DEF IInv, TypeOK, AppliedAreLinked, EvidenceIsHighestAck, Linked
<1>r. /\ \A m \in Messages : evidence[m] # "unlinked" => Rank[evidence[m]] \in Int
      /\ \A e \in Acks : Rank[AckState(e)] \in Int
      /\ Rank["submitted"] = 2
  BY <1>0, AckStates, RankIs DEF EvidenceStates
<1>1. ASSUME NEW h \in Handlers, InsertAck(h) PROVE Goal
  <2> DEFINE a == handler[h].event
             m == MessageOf[a]
             new == Advanced(m, a)
  <2>1. /\ a \in Acks /\ m \in Messages /\ evidence' = [evidence EXCEPT ![m] = new]
        /\ applied' = IF evidence[m] = "unlinked" THEN applied ELSE applied \cup {a}
    BY <1>1, EventsAssumption DEF InsertAck
  <2>2. CASE evidence[m] = "unlinked"
    <3>1. new = evidence[m]
      BY <2>2 DEF Advanced
    <3> HIDE DEF new
    <3>2. evidence' = evidence /\ applied' = applied
      BY <1>0, <2>1, <2>2, <3>1
    <3> QED
      BY <1>0, <3>2
  <2>3. CASE evidence[m] # "unlinked"
    <3>1. /\ new # "unlinked" /\ new \in EvidenceStates
          /\ Rank[new] >= Rank[evidence[m]] /\ Rank[new] >= Rank[AckState(a)]
          /\ new = evidence[m] \/ new = AckState(a)
      BY <1>0, <2>1, <2>3, AdvancedRank DEF Linked
    <3>2. Rank[new] \in Int
      BY <3>1, RankIs DEF EvidenceStates
    <3> HIDE DEF new, m, a
    <3>3. applied' = applied \cup {a} /\ evidence'[m] = new
          /\ \A k \in Messages : k # m => evidence'[k] = evidence[k]
      BY <1>0, <2>1, <2>3
    <3>4. \A e \in applied' : evidence'[MessageOf[e]] # "unlinked"
      BY <1>0, <3>1, <3>3 DEF m
    <3>5. ASSUME NEW k \in Messages, k # m, evidence'[k] # "unlinked" PROVE Highest(k)
      BY <1>0, <3>3, <3>5 DEF m
    <3>6. Highest(m)
      <4>1. Rank[evidence'[m]] >= Rank["submitted"]
        BY <1>0, <1>r, <2>1, <2>3, <3>1, <3>2, <3>3
      <4>2. ASSUME NEW e \in applied', MessageOf[e] = m PROVE Rank[evidence'[m]] >= Rank[AckState(e)]
        <5>1. CASE e = a
          BY <3>1, <3>3, <5>1
        <5>2. CASE e \in applied
          BY <1>0, <1>r, <2>1, <2>3, <3>1, <3>2, <3>3, <4>2, <5>2
        <5> QED
          BY <3>3, <4>2, <5>1, <5>2
      <4>3. evidence'[m] = "submitted" \/ \E e \in applied' : MessageOf[e] = m /\ evidence'[m] = AckState(e)
        BY <1>0, <2>1, <2>3, <3>1, <3>3 DEF m
      <4> QED
        BY <4>1, <4>2, <4>3
    <3> QED
      BY <3>4, <3>5, <3>6
  <2> QED
    BY <2>2, <2>3
<1>2. ASSUME NEW m \in Messages, Settle(m) PROVE Goal
  <2>1. evidence[m] = "unlinked" /\ evidence' = [evidence EXCEPT ![m] = "submitted"] /\ applied' = applied
    BY <1>2 DEF Settle
  <2>2. \A e \in applied : MessageOf[e] # m
    BY <1>0, <2>1
  <2> QED
    BY <1>0, <1>r, <2>1, <2>2
<1>3. ASSUME UNCHANGED <<evidence, applied>> PROVE Goal
  BY <1>0, <1>3
<1> HIDE DEF Goal
<1>4. Goal
  BY <1>1, <1>2, <1>3 DEF Next, Serve, FindSession, InsertEvent, UpdateStatus, Trigger, Reply,
     FailRequest, Deliver, FailAck, LifecycleSave, ProviderChange, LifecycleCall, Crash, rows, vars
<1> QED
  BY <1>4 DEF Goal, AppliedAreLinked, EvidenceIsHighestAck, Linked

------------------------------------------------------------------------------
(* The queues of acks.                                                     *)

Waits(h, m) == At(h, "insert") /\ handler[h].event \in Acks /\ MessageOf[handler[h].event] = m

(* ChainHoldsWaiters in the terms of the proofs.                           *)
ChainAgrees ==
  \A m \in Messages : \A h \in Handlers :
    /\ Waits(h, m) => \E i \in 1..Len(chain[m]) : chain[m][i] = h
    /\ (\E i \in 1..Len(chain[m]) : chain[m][i] = h) => Waits(h, m)
    /\ \A i, k \in 1..Len(chain[m]) : chain[m][i] = h /\ chain[m][k] = h => k = i

LEMMA ChainAgreement ==
  ASSUME chain \in [Messages -> Seq(Handlers)]
  PROVE  ChainHoldsWaiters <=> ChainAgrees
<1>1. \A m \in Messages : \A i \in 1..Len(chain[m]) : chain[m][i] \in Handlers
  OBVIOUS
<1>2. \A e \in Acks : MessageOf[e] \in Messages
  BY EventsAssumption
<1>3. ASSUME ChainHoldsWaiters PROVE ChainAgrees
  <2> SUFFICES ASSUME NEW m \in Messages, NEW h \in Handlers
               PROVE  /\ Waits(h, m) => \E i \in 1..Len(chain[m]) : chain[m][i] = h
                      /\ (\E i \in 1..Len(chain[m]) : chain[m][i] = h) => Waits(h, m)
                      /\ \A i, k \in 1..Len(chain[m]) : chain[m][i] = h /\ chain[m][k] = h => k = i
    BY DEF ChainAgrees
  <2>1. Waits(h, m) => \E i \in 1..Len(chain[m]) : chain[m][i] = h
    BY <1>3 DEF ChainHoldsWaiters, Waits
  <2>2. ASSUME NEW i \in 1..Len(chain[m]), chain[m][i] = h
        PROVE  Waits(h, m) /\ \A k \in 1..Len(chain[m]) : chain[m][k] = h => k = i
    BY <1>3, <2>2 DEF ChainHoldsWaiters, Waits
  <2> QED
    BY <2>1, <2>2
<1>4. ASSUME ChainAgrees PROVE ChainHoldsWaiters
  BY <1>1, <1>2, <1>4 DEF ChainHoldsWaiters, ChainAgrees, Waits
<1> QED
  BY <1>3, <1>4

LEMMA ChainKept ==
  ASSUME IInv, [Next]_vars
  PROVE  ChainHoldsWaiters'
<1>0. /\ chain \in [Messages -> Seq(Handlers)] /\ handler \in [Handlers -> Request]
      /\ chain' \in [Messages -> Seq(Handlers)] /\ handler' \in [Handlers -> Request]
  BY TypeKept, Moves DEF IInv, TypeOK, Request, Steps
<1>a. ChainAgrees
  BY <1>0, ChainAgreement DEF IInv
<1>b. ChainAgrees' => ChainHoldsWaiters'
  <2>1. ASSUME ChainAgrees' PROVE ChainHoldsWaiters'
    <3>1. \A m \in Messages : \A i \in 1..Len(chain'[m]) : chain'[m][i] \in Handlers
      BY <1>0
    <3>2. \A e \in Acks : MessageOf[e] \in Messages
      BY EventsAssumption
    <3> QED
      BY <2>1, <3>1, <3>2 DEF ChainHoldsWaiters, ChainAgrees, Waits
  <2> QED
    BY <2>1
<1>1. ASSUME UNCHANGED chain,
             \A h \in Handlers : \A m \in Messages : Waits(h, m)' <=> Waits(h, m)
      PROVE  ChainAgrees'
  BY <1>a, <1>1 DEF ChainAgrees
<1>2. ASSUME NEW h \in Handlers, FindSession(h), handler[h].event \in Acks PROVE ChainAgrees'
  <2>0. PICK m \in Messages : m = MessageOf[handler[h].event]
    BY <1>2, EventsAssumption
  <2> DEFINE s == chain[m]
  <2>1. /\ m \in Messages /\ s \in Seq(Handlers)
        /\ chain' = [chain EXCEPT ![m] = Append(s, h)]
    BY <1>0, <1>2, <2>0 DEF FindSession
  <2>2. /\ Waits(h, m)' /\ \A k \in Messages : ~Waits(h, k) /\ (k # m => ~Waits(h, k)')
        /\ \A g \in Handlers : g # h => \A k \in Messages : Waits(g, k)' <=> Waits(g, k)
    BY <1>0, <1>2, <2>0 DEF FindSession, GoTo, Waits, At, Request
  <2>3. /\ Len(Append(s, h)) = Len(s) + 1 /\ Len(s) \in Nat
        /\ \A i \in 1..Len(s) : Append(s, h)[i] = s[i]
        /\ Append(s, h)[Len(s) + 1] = h
    BY <2>1, AppendProperties, LenProperties
  <2> DEFINE t == Append(s, h)
  <2> HIDE DEF t, s
  <2>4. ASSUME NEW g \in Handlers
        PROVE  /\ Waits(g, m)' => \E i \in 1..Len(t) : t[i] = g
               /\ (\E i \in 1..Len(t) : t[i] = g) => Waits(g, m)'
               /\ \A i, k \in 1..Len(t) : t[i] = g /\ t[k] = g => k = i
    <3>1. /\ Waits(g, m) => \E i \in 1..Len(s) : s[i] = g
          /\ (\E i \in 1..Len(s) : s[i] = g) => Waits(g, m)
          /\ \A i, k \in 1..Len(s) : s[i] = g /\ s[k] = g => k = i
      BY <1>a, <2>1 DEF ChainAgrees, s
    <3>2. \A i \in 1..Len(t) : i = Len(s) + 1 \/ i \in 1..Len(s)
      BY <2>3 DEF t
    <3>3. 1..Len(s) \subseteq 1..Len(t) /\ Len(s) + 1 \in 1..Len(t)
      BY <2>3 DEF t
    <3>4. (\A i \in 1..Len(s) : t[i] = s[i]) /\ t[Len(s) + 1] = h
      BY <2>3 DEF t
    <3>5. CASE g = h
      <4>1. ~Waits(h, m)
        BY <2>1, <2>2
      <4>2. \A i \in 1..Len(s) : s[i] # h
        BY <3>1, <3>5, <4>1
      <4> QED
        BY <2>2, <3>2, <3>3, <3>4, <3>5, <4>2
    <3>6. CASE g # h
      <4>1. Waits(g, m)' <=> Waits(g, m)
        BY <2>1, <2>2, <3>6
      <4>2. \A i \in 1..Len(t) : t[i] = g => i \in 1..Len(s) /\ s[i] = g
        BY <3>2, <3>4, <3>6
      <4> QED
        BY <3>1, <3>3, <3>4, <4>1, <4>2
    <3> QED
      BY <3>5, <3>6
  <2>5. chain'[m] = t /\ \A k \in Messages : k # m => chain'[k] = chain[k]
    BY <1>0, <2>1 DEF t
  <2>6. ASSUME NEW k \in Messages, k # m, NEW g \in Handlers
        PROVE  Waits(g, k)' <=> Waits(g, k)
    BY <2>2, <2>6
  <2> QED
    BY <1>a, <2>4, <2>5, <2>6 DEF ChainAgrees
<1>3. ASSUME NEW h \in Handlers, InsertAck(h) PROVE ChainAgrees'
  <2>0. PICK m \in Messages : m = MessageOf[handler[h].event]
    BY <1>3, EventsAssumption DEF InsertAck
  <2> DEFINE s == chain[m]
  <2>1. /\ m \in Messages /\ s \in Seq(Handlers)
        /\ chain' = [chain EXCEPT ![m] = Tail(s)] /\ Head(s) = h
    BY <1>0, <1>3, <2>0 DEF InsertAck
  <2>2. /\ Waits(h, m) /\ \A k \in Messages : ~Waits(h, k)' /\ (k # m => ~Waits(h, k))
        /\ \A g \in Handlers : g # h => \A k \in Messages : Waits(g, k)' <=> Waits(g, k)
    BY <1>0, <1>3, <2>0 DEF InsertAck, GoTo, Waits, At, Request
  <2>3. s # <<>>
    <3>1. \E i \in 1..Len(s) : s[i] = h
      BY <1>a, <2>1, <2>2 DEF ChainAgrees
    <3> QED
      BY <3>1
  <2>4. /\ Len(Tail(s)) = Len(s) - 1 /\ Len(s) \in Nat /\ Len(s) > 0 /\ s[1] = h
        /\ \A i \in 1..Len(Tail(s)) : Tail(s)[i] = s[i + 1]
    BY <2>1, <2>3, HeadTailProperties, EmptySeq, LenProperties
  <2> DEFINE t == Tail(s)
  <2>5. chain'[m] = t /\ \A k \in Messages : k # m => chain'[k] = chain[k]
    BY <1>0, <2>1
  <2> HIDE DEF t, s
  <2>6. ASSUME NEW g \in Handlers
        PROVE  /\ Waits(g, m)' => \E i \in 1..Len(t) : t[i] = g
               /\ (\E i \in 1..Len(t) : t[i] = g) => Waits(g, m)'
               /\ \A i, k \in 1..Len(t) : t[i] = g /\ t[k] = g => k = i
    <3>1. /\ Waits(g, m) => \E i \in 1..Len(s) : s[i] = g
          /\ (\E i \in 1..Len(s) : s[i] = g) => Waits(g, m)
          /\ \A i, k \in 1..Len(s) : s[i] = g /\ s[k] = g => k = i
      BY <1>a, <2>1 DEF ChainAgrees, s
    <3>2. \A i \in 1..Len(t) : i + 1 \in 1..Len(s) /\ i + 1 # 1 /\ t[i] = s[i + 1]
      BY <2>4 DEF t
    <3>3. \A i \in 1..Len(s) : i = 1 \/ (i - 1 \in 1..Len(t) /\ t[i - 1] = s[i])
      BY <2>4 DEF t
    <3>4. 1 \in 1..Len(s)
      BY <2>4
    <3>5. CASE g = h
      <4>1. \A i \in 1..Len(t) : t[i] # h
        BY <2>4, <3>1, <3>2, <3>4, <3>5
      <4> QED
        BY <2>1, <2>2, <3>5, <4>1
    <3>6. CASE g # h
      <4>1. Waits(g, m)' <=> Waits(g, m)
        BY <2>1, <2>2, <3>6
      <4>2. (\E i \in 1..Len(t) : t[i] = g) <=> (\E i \in 1..Len(s) : s[i] = g)
        BY <2>4, <3>2, <3>3, <3>6
      <4>3. ASSUME NEW i \in 1..Len(t), NEW k \in 1..Len(t), t[i] = g, t[k] = g PROVE k = i
        <5>1. i + 1 = k + 1
          BY <3>1, <3>2, <4>3
        <5> QED
          BY <5>1
      <4> QED
        BY <3>1, <4>1, <4>2, <4>3
    <3> QED
      BY <3>5, <3>6
  <2>7. ASSUME NEW k \in Messages, k # m, NEW g \in Handlers
        PROVE  Waits(g, k)' <=> Waits(g, k)
    BY <2>2, <2>7
  <2> QED
    BY <1>a, <2>5, <2>6, <2>7 DEF ChainAgrees
<1>4. ASSUME NEW m \in Messages, FailAck(m) PROVE ChainAgrees'
  <2>1. chain'[m] = <<>> /\ \A k \in Messages : k # m => chain'[k] = chain[k]
    BY <1>0, <1>4 DEF FailAck
  <2>2. ASSUME NEW h \in Handlers
        PROVE  /\ Waits(h, m) => handler'[h] = Idle
               /\ ~Waits(h, m) => handler'[h] = handler[h]
    <3>1. (\E i \in 1..Len(chain[m]) : chain[m][i] = h) <=> Waits(h, m)
      BY <1>a DEF ChainAgrees
    <3> QED
      BY <1>4, <3>1 DEF FailAck
  <2>3. ASSUME NEW h \in Handlers
        PROVE  /\ ~Waits(h, m)'
               /\ \A k \in Messages : k # m => (Waits(h, k)' <=> Waits(h, k))
    BY <2>2 DEF Waits, At, Idle
  <2>4. Len(chain'[m]) = 0
    BY <2>1
  <2> QED
    BY <1>a, <2>1, <2>3, <2>4 DEF ChainAgrees
<1>5. ASSUME Crash PROVE ChainAgrees'
  <2>1. \A m \in Messages : Len(chain'[m]) = 0
    BY <1>5 DEF Crash, NoChain
  <2>2. \A h \in Handlers, m \in Messages : ~Waits(h, m)'
    BY <1>5 DEF Crash, Waits, At, Idle
  <2> QED
    BY <2>1, <2>2 DEF ChainAgrees
<1>6. ASSUME NEW h \in Handlers, Serve(h), ~InsertAck(h),
             ~(FindSession(h) /\ handler[h].event \in Acks)
      PROVE  ChainAgrees'
  <2>1. UNCHANGED chain
    BY <1>6 DEF Serve, FindSession, InsertEvent, UpdateStatus, Trigger, Reply
  <2>2. \A g \in Handlers : g # h => handler'[g] = handler[g]
    BY <1>0, <1>6 DEF Serve, FindSession, InsertEvent, UpdateStatus, Trigger, Reply, GoTo
  <2>3. \A m \in Messages : ~Waits(h, m)
    BY <1>6 DEF Serve, FindSession, InsertEvent, UpdateStatus, Trigger, Reply, Waits, At
  <2>4. \A m \in Messages : ~Waits(h, m)'
    <3>1. CASE FindSession(h)
      <4>1. handler'[h].event = handler[h].event
        BY <1>0, <3>1 DEF FindSession, GoTo, Request
      <4> QED
        BY <1>6, <3>1, <4>1 DEF Waits
    <3>2. CASE InsertEvent(h)
      <4>1. handler'[h].pc = AfterInsert(handler[h].event)
        BY <1>0, <3>2 DEF InsertEvent, GoTo, Request
      <4> QED
        BY <4>1 DEF AfterInsert, Waits, At
    <3>3. CASE UpdateStatus(h) \/ Trigger(h)
      <4>1. handler'[h].pc = "reply"
        BY <1>0, <3>3 DEF UpdateStatus, Trigger, GoTo, Request
      <4> QED
        BY <4>1 DEF Waits, At
    <3>4. CASE Reply(h)
      BY <1>0, <3>4 DEF Reply, Waits, At, Idle
    <3> QED
      BY <1>6, <3>1, <3>2, <3>3, <3>4 DEF Serve
  <2>5. \A g \in Handlers : \A m \in Messages : Waits(g, m)' <=> Waits(g, m)
    BY <2>2, <2>3, <2>4 DEF Waits, At
  <2> QED
    BY <1>1, <2>1, <2>5
<1>7. ASSUME NEW h \in Handlers, FailRequest(h) \/ (\E e \in Events : Deliver(h, e))
      PROVE  ChainAgrees'
  <2>1. UNCHANGED chain /\ \A g \in Handlers : g # h => handler'[g] = handler[g]
    BY <1>0, <1>7 DEF FailRequest, Deliver
  <2>2. \A m \in Messages : ~Waits(h, m)
    BY <1>7 DEF FailRequest, Deliver, Waits, At
  <2>3. handler'[h].pc \in {"idle", "find"}
    BY <1>0, <1>7 DEF FailRequest, Deliver, Idle
  <2>4. \A m \in Messages : ~Waits(h, m)'
    BY <2>3 DEF Waits, At
  <2>5. \A g \in Handlers : \A m \in Messages : Waits(g, m)' <=> Waits(g, m)
    BY <2>1, <2>2, <2>4 DEF Waits, At
  <2> QED
    BY <1>1, <2>1, <2>5
<1>8. ASSUME UNCHANGED <<handler, chain>> PROVE ChainAgrees'
  BY <1>1, <1>8 DEF Waits, At
<1>9. ChainAgrees'
  BY <1>2, <1>3, <1>4, <1>5, <1>6, <1>7, <1>8 DEF Next, Settle, LifecycleSave, ProviderChange,
     LifecycleCall, vars
<1> QED
  BY <1>9, <1>b

------------------------------------------------------------------------------
(* IInv holds in every reachable state of the webhook.                     *)
THEOREM WebhookImpliesIInv == Spec => []IInv
<1>1. IInv /\ [Next]_vars => IInv'
  <2> SUFFICES ASSUME IInv, [Next]_vars PROVE IInv'
    OBVIOUS
  <2> QED
    BY TypeKept, HandlersKept, ChainKept, EvidenceKept, StatusKept, RowIsKnownKept, TriggerKept DEF IInv
<1> QED
  BY <1>1, InitIInv, PTL DEF Spec

(* Delivery evidence does not depend on the order or number of deliveries. *)
THEOREM EvidenceIsDeterministic == Spec => []EvidenceIsHighestAck
<1>1. IInv => EvidenceIsHighestAck
  BY DEF IInv
<1> QED
  BY <1>1, WebhookImpliesIInv, PTL

(* What WAHA has an answer for has reached the session's row.              *)
THEOREM NoAnsweredStatusLost == Spec => []AnsweredStatusReflected
<1>1. IInv => AnsweredStatusReflected
  BY DEF IInv
<1> QED
  BY <1>1, WebhookImpliesIInv, PTL

(* A reaction triggers at most one follow-up.                              *)
THEOREM OneTriggerPerReaction == Spec => []ReactionTriggeredOnce
<1>1. IInv => ReactionTriggeredOnce
  BY DEF IInv
<1> QED
  BY <1>1, WebhookImpliesIInv, PTL

------------------------------------------------------------------------------
(* Once WAHA has an answer for every change, in whatever order and however *)
(* often it delivered them, the row shows the present status, unless an    *)
(* operator's call has stored an earlier one since: the last change has    *)
(* reached the row, and only such a call has a later time.                 *)
THEOREM StatusCatchesUp == Spec => []StatusConverges
<1>1. IInv => StatusConverges
  <2> SUFFICES ASSUME IInv, (1..now) \subseteq answered
               PROVE  session.status = now \/ stale = now
    BY DEF StatusConverges
  <2>1. /\ now \in 0..MaxTime /\ session.at \in Int /\ session.at <= Instant(now) + 1
        /\ session.status \in 0..MaxTime /\ stale \in 0..MaxTime /\ now \in Int
        /\ session.status \in Int /\ stale \in Int
    BY EventsAssumption DEF IInv, TypeOK, StatusBeforeReply
  <2>2. now = 0 \/ session.at >= Instant(now)
    <3>1. CASE now > 0
      <4>1. now \in Changes \cap answered
        BY <2>1, <3>1, EventsAssumption DEF Changes
      <4> QED
        BY <4>1 DEF IInv, AnsweredStatusReflected
    <3> QED
      BY <2>1, <3>1, EventsAssumption
  <2>3. CASE session.at = -1 /\ session.status = 0
    BY <2>1, <2>2, <2>3 DEF Instant
  <2>4. CASE session.at \in {Instant(session.status), Instant(session.status) + 1}
    <3>1. session.status >= 0
      BY <2>1
    <3> QED
      BY <2>1, <2>2, <2>4, <3>1 DEF Instant
  <2>5. CASE session.at = Instant(stale) + 1
    <3>1. stale >= 0
      BY <2>1
    <3> QED
      BY <2>1, <2>2, <2>5, <3>1 DEF Instant
  <2> QED
    BY <2>3, <2>4, <2>5 DEF IInv, RowIsKnown
<1> QED
  BY <1>1, WebhookImpliesIInv, PTL
=============================================================================
