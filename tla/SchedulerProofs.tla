--------------------------- MODULE SchedulerProofs ---------------------------
(***************************************************************************)
(* Proofs about Scheduler, for every set of jobs, clock bound, lease,      *)
(* grace period, attempt limit and number of faults; and that it implements *)
(* Delivery, step by step, and never moves a job that it has settled.      *)
(***************************************************************************)
EXTENDS Scheduler, TLAPS

LEMMA InitIInv == Init => IInv
<1> SUFFICES ASSUME Init PROVE IInv
  OBVIOUS
<1> USE JobsAssumption, TimeAssumption, BoundAssumption DEF Init
<1>1. TypeOK
  BY DEF TypeOK, NewRow, NoRun, NewRun, IdleTick, Row, Run, JobStates, AttemptStates, Workers, RecoveryCodes
<1>2. LeaseWhileAttempting
  BY DEF LeaseWhileAttempting, NewRow
<1>3. \A w \in Workers : ~InFlight(w)
  BY DEF InFlight, NoRun, NewRun
<1>4. OneDispatchPerJob /\ DispatchesSound
  BY <1>3 DEF OneDispatchPerJob, DispatchesSound
<1>5. TickerInLoop
  BY DEF TickerInLoop, NoRun, NewRun, Workers
<1>6. AttemptsCounted /\ DeletingSettled
  BY DEF AttemptsCounted, DeletingSettled, NewRow
<1>7. AtMostOnceDelivery /\ StateMatchesProvider
  BY DEF AtMostOnceDelivery, StateMatchesProvider, NewRow
<1> QED
  BY <1>1, <1>2, <1>4, <1>5, <1>6, <1>7 DEF IInv

(* A step that touches no dispatch and no provider count keeps what the    *)
(* dispatches rely on, provided it moves no job they hold.                 *)
LEMMA InsertKeepsIInv ==
  ASSUME IInv, NEW j \in Jobs, NEW t \in 0..MaxTime, InsertRow(j, t),
         UNCHANGED <<now, attempt, tick, deleting, accepted, faults>>,
         \/ UNCHANGED run
         \/ run[j].pc = "idle" /\ run' = [run EXCEPT ![j] = NewRun("called")]
  PROVE  IInv'
<1> USE JobsAssumption, TimeAssumption, BoundAssumption DEF IInv
<1> DEFINE new == NewRow("scheduled", t)
           called == NewRun("called")
<1>a. /\ job[j].state = "unborn"
      /\ job' = [job EXCEPT ![j] = new]
  BY DEF InsertRow
<1>b. /\ new.state = "scheduled" /\ new.attempts = 0
      /\ new.leaseOwner = None /\ new.leaseExpiresAt = None
      /\ new \in Row
  BY DEF NewRow, Row, JobStates, Claimable, RecoveryCodes
<1>c. called.pc = "called" /\ called \in Run
  BY DEF NoRun, NewRun, Run
<1>d. \A w \in Workers : run'[w] = run[w] \/ run'[w] = called
  BY DEF TypeOK, Workers
<1>e. run' \in [Workers -> Run]
  BY <1>c DEF TypeOK, Workers
<1> HIDE DEF new, called
<1>1. TypeOK'
  BY <1>a, <1>b, <1>e DEF TypeOK
<1>2. LeaseWhileAttempting'
  BY <1>a, <1>b DEF LeaseWhileAttempting, TypeOK
<1>3. \A w \in Workers : InFlight(w)' => InFlight(w) /\ run'[w] = run[w]
  BY <1>c, <1>d DEF InFlight
<1>4. OneDispatchPerJob'
  BY <1>3 DEF OneDispatchPerJob
<1>5. DispatchesSound'
  <2> SUFFICES ASSUME NEW w \in Workers, InFlight(w)'
               PROVE  /\ run'[w].job \in Jobs
                      /\ run'[w].attempt \in 1..MaxAttempts
                      /\ HoldsOrLost(w)'
                      /\ SentAsReported(w)'
    BY DEF DispatchesSound
  <2>1. /\ InFlight(w) /\ run'[w] = run[w] /\ run[w].job \in Jobs
        /\ run[w].attempt \in 1..MaxAttempts /\ HoldsOrLost(w) /\ SentAsReported(w)
    BY <1>3 DEF DispatchesSound
  <2>2. job'[run[w].job] = job[run[w].job]
    BY <1>a, <2>1 DEF HoldsOrLost, TypeOK
  <2> QED
    BY <2>1, <2>2 DEF HoldsOrLost, SentAsReported
<1>6. TickerInLoop'
  BY DEF TickerInLoop, InFlight, TypeOK, Workers
<1>7. AttemptsCounted'
  BY <1>a, <1>b DEF AttemptsCounted, TypeOK, Row
<1>8. DeletingSettled'
  BY <1>a, <1>b DEF DeletingSettled, TypeOK, Terminal, Deletable
<1>9. AtMostOnceDelivery' /\ StateMatchesProvider'
  BY <1>a, <1>b DEF AtMostOnceDelivery, StateMatchesProvider, TypeOK, Claimable
<1> QED
  BY <1>1, <1>2, <1>4, <1>5, <1>6, <1>7, <1>8, <1>9

(* Editing and cancelling rewrite one row that no dispatch holds.          *)
LEMMA RowUpdateKeepsIInv ==
  ASSUME IInv, NEW j \in Jobs, Unclaimed(j), NEW new \in Row,
         job' = [job EXCEPT ![j] = new],
         \/ new.state = job[j].state
         \/ new.state = "cancelled",
         new.leaseOwner = job[j].leaseOwner, new.leaseExpiresAt = job[j].leaseExpiresAt,
         new.attempts = job[j].attempts, new.recoveryCode = job[j].recoveryCode,
         UNCHANGED <<now, attempt, run, tick, deleting, accepted, faults>>
  PROVE  IInv'
<1> USE JobsAssumption, TimeAssumption, BoundAssumption DEF IInv, Unclaimed
<1>1. TypeOK'
  BY DEF TypeOK
<1>2. LeaseWhileAttempting'
  BY DEF LeaseWhileAttempting, TypeOK, Claimable
<1>3. OneDispatchPerJob'
  BY DEF OneDispatchPerJob, InFlight
<1>4. DispatchesSound'
  BY DEF DispatchesSound, InFlight, HoldsOrLost, SentAsReported, TypeOK, Claimable
<1>5. TickerInLoop'
  BY DEF TickerInLoop, InFlight
<1>6. AttemptsCounted'
  BY DEF AttemptsCounted, TypeOK, Row, Claimable
<1>7. DeletingSettled'
  BY DEF DeletingSettled, TypeOK, Terminal, Deletable, Claimable
<1>8. AtMostOnceDelivery' /\ StateMatchesProvider'
  BY DEF AtMostOnceDelivery, StateMatchesProvider, TypeOK, Claimable
<1> QED
  BY <1>1, <1>2, <1>3, <1>4, <1>5, <1>6, <1>7, <1>8

LEMMA EditKeepsIInv ==
  ASSUME IInv, NEW j \in Jobs, Edit(j)
  PROVE  IInv'
<1>1. PICK t \in 0..MaxTime : job' = [job EXCEPT ![j].scheduledFor = t]
  BY DEF Edit
<1> DEFINE new == [job[j] EXCEPT !.scheduledFor = t]
<1>2. new \in Row /\ new.state = job[j].state
      /\ new.leaseOwner = job[j].leaseOwner /\ new.leaseExpiresAt = job[j].leaseExpiresAt
      /\ new.attempts = job[j].attempts /\ new.recoveryCode = job[j].recoveryCode
  <2>1. t \in Nat /\ job[j] \in Row
    BY TimeAssumption DEF IInv, TypeOK
  <2> QED
    BY <2>1 DEF Row
<1>3. job' = [job EXCEPT ![j] = new]
  BY <1>1 DEF IInv, TypeOK
<1> HIDE DEF new
<1> QED
  BY <1>2, <1>3, RowUpdateKeepsIInv DEF Edit

LEMMA CancelKeepsIInv ==
  ASSUME IInv, NEW j \in Jobs, Cancel(j)
  PROVE  IInv'
<1> DEFINE new == [job[j] EXCEPT !.state = "cancelled", !.nextAttemptAt = None]
<1>1. new \in Row /\ new.state = "cancelled"
      /\ new.leaseOwner = job[j].leaseOwner /\ new.leaseExpiresAt = job[j].leaseExpiresAt
      /\ new.attempts = job[j].attempts /\ new.recoveryCode = job[j].recoveryCode
  BY DEF IInv, TypeOK, Row, JobStates, Terminal, Deletable
<1>2. job' = [job EXCEPT ![j] = new]
  BY DEF Cancel
<1> HIDE DEF new
<1> QED
  BY <1>1, <1>2, RowUpdateKeepsIInv DEF Cancel

LEMMA DeleteCheckKeepsIInv ==
  ASSUME IInv, NEW j \in Jobs, DeleteCheck(j)
  PROVE  IInv'
<1> USE DEF IInv, DeleteCheck
<1>1. TypeOK' /\ LeaseWhileAttempting'
  BY DEF TypeOK, LeaseWhileAttempting
<1>2. OneDispatchPerJob' /\ DispatchesSound' /\ TickerInLoop'
  BY DEF OneDispatchPerJob, DispatchesSound, TickerInLoop, InFlight, HoldsOrLost, SentAsReported
<1>3. AttemptsCounted' /\ DeletingSettled'
  BY DEF AttemptsCounted, DeletingSettled, Terminal
<1>4. AtMostOnceDelivery' /\ StateMatchesProvider'
  BY DEF AtMostOnceDelivery, StateMatchesProvider
<1> QED
  BY <1>1, <1>2, <1>3, <1>4

(* Removing a row that DELETE found settled: it is still settled.          *)
LEMMA DeleteRemoveKeepsIInv ==
  ASSUME IInv, NEW j \in Jobs, DeleteRemove(j)
  PROVE  IInv'
<1> USE JobsAssumption, TimeAssumption, BoundAssumption DEF IInv, DeleteRemove
<1>0. job[j].state \in Terminal \cup {"deleted"}
  BY DEF DeletingSettled
<1>1. CASE job[j].state = "deleted"
  <2>1. UNCHANGED <<job, attempt>>
    BY <1>1
  <2>2. TypeOK' /\ LeaseWhileAttempting'
    BY <2>1 DEF TypeOK, LeaseWhileAttempting
  <2>3. OneDispatchPerJob' /\ DispatchesSound' /\ TickerInLoop'
    BY <2>1 DEF OneDispatchPerJob, DispatchesSound, TickerInLoop, InFlight, HoldsOrLost, SentAsReported
  <2>4. AttemptsCounted' /\ DeletingSettled' /\ AtMostOnceDelivery' /\ StateMatchesProvider'
    BY <2>1 DEF AttemptsCounted, DeletingSettled, AtMostOnceDelivery, StateMatchesProvider
  <2> QED
    BY <2>2, <2>3, <2>4
<1>2. CASE job[j].state \in Terminal
  <2> DEFINE new == [job[j] EXCEPT !.state = "deleted"]
  <2>1. /\ job' = [job EXCEPT ![j] = new]
        /\ attempt' = [attempt EXCEPT ![j] = [n \in 1..MaxAttempts |-> "none"]]
    BY <1>2 DEF Terminal, Deletable, TypeOK
  <2>2. new \in Row /\ new.state = "deleted"
        /\ new.leaseOwner = job[j].leaseOwner /\ new.leaseExpiresAt = job[j].leaseExpiresAt
        /\ new.attempts = job[j].attempts /\ new.recoveryCode = job[j].recoveryCode
    <3>1. job[j] \in Row
      BY DEF TypeOK
    <3> QED
      BY <3>1 DEF Row, JobStates
  <2> HIDE DEF new
  <2>3. TypeOK'
    BY <2>1, <2>2 DEF TypeOK, AttemptStates
  <2>4. LeaseWhileAttempting'
    BY <1>2, <2>1, <2>2 DEF LeaseWhileAttempting, TypeOK, Terminal, Deletable
  <2>5. OneDispatchPerJob' /\ TickerInLoop'
    BY DEF OneDispatchPerJob, TickerInLoop, InFlight
  <2>6. DispatchesSound'
    BY <2>1, <2>2 DEF DispatchesSound, InFlight, HoldsOrLost, SentAsReported, TypeOK
  <2>7. AttemptsCounted'
    BY <2>1, <2>2 DEF AttemptsCounted, TypeOK
  <2>8. DeletingSettled'
    BY <2>1, <2>2 DEF DeletingSettled, TypeOK
  <2>9. AtMostOnceDelivery' /\ StateMatchesProvider'
    BY <2>1, <2>2 DEF AtMostOnceDelivery, StateMatchesProvider, TypeOK, Claimable
  <2> QED
    BY <2>3, <2>4, <2>5, <2>6, <2>7, <2>8, <2>9
<1> QED
  BY <1>0, <1>1, <1>2

(* Recovery closes leases that ran out; a dispatch that held one loses it. *)
LEMMA TickRecoverKeepsIInv ==
  ASSUME IInv, TickRecover
  PROVE  IInv'
<1> USE JobsAssumption, TimeAssumption, BoundAssumption DEF IInv
<1>1. ASSUME NEW r \in Row
      PROVE  /\ RecoveredRow(r) \in Row
             /\ RecoveredRow(r).state = "unknown"
             /\ RecoveredRow(r).recoveryCode = "lease_expired"
             /\ RecoveredRow(r).leaseOwner = None /\ RecoveredRow(r).leaseExpiresAt = None
             /\ RecoveredRow(r).attempts = r.attempts
  BY DEF Row, RecoveredRow, JobStates, Terminal, Deletable, RecoveryCodes
<1>2. \A j \in Jobs :
        \/ job'[j] = job[j]
        \/ /\ job[j].state = "attempting"
           /\ job'[j].state = "unknown" /\ job'[j].recoveryCode = "lease_expired"
           /\ job'[j].leaseOwner = None /\ job'[j].leaseExpiresAt = None
           /\ job'[j].attempts = job[j].attempts
  <2>1. \A j \in Jobs : \/ job'[j] = job[j]
                        \/ job[j].state = "attempting" /\ job'[j] = RecoveredRow(job[j])
    BY DEF TickRecover, RecoverExpiredLeases
  <2>2. \A j \in Jobs : job[j] \in Row
    BY DEF TypeOK
  <2> QED
    BY <1>1, <2>1, <2>2
<1>3. UNCHANGED <<now, attempt, run, deleting, accepted, faults>>
  BY DEF TickRecover
<1>4. run[Ticker].pc = "idle"
  BY DEF TickRecover, TickerInLoop
<1>5. TypeOK'
  <2>1. job' \in [Jobs -> Row]
    BY <1>1 DEF TickRecover, RecoverExpiredLeases, TypeOK
  <2>2. tick' \in [phase: {"idle", "missed", "loop"}, at: Nat, count: 0..MaxJobsPerTick]
    BY DEF TickRecover, TypeOK
  <2> QED
    BY <1>3, <2>1, <2>2 DEF TypeOK
<1>6. LeaseWhileAttempting'
  BY <1>2 DEF LeaseWhileAttempting
<1>7. OneDispatchPerJob' /\ TickerInLoop'
  BY <1>3, <1>4 DEF OneDispatchPerJob, TickerInLoop, InFlight
<1>8. DispatchesSound'
  <2> SUFFICES ASSUME NEW w \in Workers, InFlight(w)'
               PROVE  /\ run'[w].job \in Jobs
                      /\ run'[w].attempt \in 1..MaxAttempts
                      /\ HoldsOrLost(w)'
                      /\ SentAsReported(w)'
    BY DEF DispatchesSound
  <2>1. /\ InFlight(w) /\ run'[w] = run[w] /\ run[w].job \in Jobs
        /\ run[w].attempt \in 1..MaxAttempts /\ HoldsOrLost(w) /\ SentAsReported(w)
    BY <1>3 DEF DispatchesSound, InFlight
  <2>2. HoldsOrLost(w)'
    BY <1>2, <2>1 DEF HoldsOrLost
  <2> QED
    BY <1>3, <2>1, <2>2 DEF SentAsReported
<1>9. AttemptsCounted' /\ DeletingSettled'
  <2>1. AttemptsCounted'
    BY <1>2, <1>3 DEF AttemptsCounted
  <2>2. deleting \subseteq Jobs
    BY DEF TypeOK
  <2>3. DeletingSettled'
    BY <1>2, <1>3, <2>2 DEF DeletingSettled, Terminal, Deletable
  <2> QED
    BY <2>1, <2>3
<1>10. AtMostOnceDelivery' /\ StateMatchesProvider'
  BY <1>2, <1>3 DEF AtMostOnceDelivery, StateMatchesProvider, Claimable
<1> QED
  BY <1>5, <1>6, <1>7, <1>8, <1>9, <1>10

LEMMA TickMarkMissedKeepsIInv ==
  ASSUME IInv, TickMarkMissed
  PROVE  IInv'
<1> USE JobsAssumption, TimeAssumption, BoundAssumption DEF IInv
<1> DEFINE Missed(r) == [r EXCEPT !.state = "unknown", !.nextAttemptAt = None,
                                  !.recoveryCode = "missed_schedule"]
<1>1. ASSUME NEW r \in Row
      PROVE  /\ Missed(r) \in Row
             /\ Missed(r).state = "unknown"
             /\ Missed(r).leaseOwner = r.leaseOwner
             /\ Missed(r).leaseExpiresAt = r.leaseExpiresAt
             /\ Missed(r).attempts = r.attempts
             /\ Missed(r).recoveryCode = "missed_schedule"
  BY DEF Row, JobStates, Terminal, Deletable, RecoveryCodes
<1>2. \A j \in Jobs :
        \/ job'[j] = job[j]
        \/ /\ job[j].state \in Claimable
           /\ job'[j].state = "unknown"
           /\ job'[j].leaseOwner = job[j].leaseOwner
           /\ job'[j].leaseExpiresAt = job[j].leaseExpiresAt
           /\ job'[j].attempts = job[j].attempts
  <2>1. \A j \in Jobs : \/ job'[j] = job[j]
                        \/ job[j].state \in Claimable /\ job'[j] = Missed(job[j])
    BY DEF TickMarkMissed, MarkMissed
  <2>2. \A j \in Jobs : job[j] \in Row
    BY DEF TypeOK
  <2> HIDE DEF Missed
  <2> QED
    BY <1>1, <2>1, <2>2
<1>3. UNCHANGED <<now, attempt, run, deleting, accepted, faults>>
  BY DEF TickMarkMissed
<1>4. run[Ticker].pc = "idle"
  BY DEF TickMarkMissed, TickerInLoop
<1>5. TypeOK'
  <2>1. job' \in [Jobs -> Row]
    BY <1>1 DEF TickMarkMissed, MarkMissed, TypeOK
  <2>2. tick' \in [phase: {"idle", "missed", "loop"}, at: Nat, count: 0..MaxJobsPerTick]
    BY DEF TickMarkMissed, TypeOK
  <2> QED
    BY <1>3, <2>1, <2>2 DEF TypeOK
<1>6. LeaseWhileAttempting'
  BY <1>2 DEF LeaseWhileAttempting, Claimable
<1>7. OneDispatchPerJob' /\ TickerInLoop'
  BY <1>3, <1>4 DEF OneDispatchPerJob, TickerInLoop, InFlight
<1>8. DispatchesSound'
  BY <1>2, <1>3 DEF DispatchesSound, InFlight, HoldsOrLost, SentAsReported, Claimable
<1>9. AttemptsCounted' /\ DeletingSettled'
  <2>1. AttemptsCounted'
    BY <1>2, <1>3 DEF AttemptsCounted, Claimable
  <2>2. DeletingSettled'
    BY <1>2, <1>3 DEF DeletingSettled, TypeOK, Terminal, Deletable, Claimable
  <2> QED
    BY <2>1, <2>2
<1>10. AtMostOnceDelivery' /\ StateMatchesProvider'
  BY <1>2, <1>3 DEF AtMostOnceDelivery, StateMatchesProvider, Claimable
<1> QED
  BY <1>5, <1>6, <1>7, <1>8, <1>9, <1>10

LEMMA ClaimedRowInRow ==
  ASSUME NEW r \in Row, NEW w \in Workers,
         r.attempts + 1 \in 0..MaxAttempts, now + LeaseTime \in Nat
  PROVE  /\ ClaimedRow(r, w) \in Row
         /\ ClaimedRow(r, w).state = "attempting"
         /\ ClaimedRow(r, w).attempts = r.attempts + 1
         /\ ClaimedRow(r, w).leaseOwner = w
         /\ ClaimedRow(r, w).leaseExpiresAt = now + LeaseTime
         /\ ClaimedRow(r, w).recoveryCode = r.recoveryCode
<1> DEFINE n == r.attempts + 1
           l == now + LeaseTime
           new == [r EXCEPT !.state = "attempting", !.attempts = n,
                            !.leaseOwner = w, !.leaseExpiresAt = l]
<1>1. new = ClaimedRow(r, w)
  BY DEF ClaimedRow
<1>2. n \in 0..MaxAttempts /\ l \in Nat
  OBVIOUS
<1> HIDE DEF n, l
<1>3. /\ new \in Row /\ new.state = "attempting" /\ new.attempts = n
      /\ new.leaseOwner = w /\ new.leaseExpiresAt = l
      /\ new.recoveryCode = r.recoveryCode
  BY <1>2 DEF Row, JobStates
<1> QED
  BY <1>1, <1>3 DEF n, l

(* The claim of a job that is due: nobody has it in flight, and its next   *)
(* dispatch_attempts row is free.                                          *)
LEMMA ClaimKeepsIInv ==
  ASSUME IInv, NEW w \in Workers, NEW j \in Jobs, ClaimDue(w, j),
         run[w].pc \in {"idle", "called"},
         w = Ticker => tick.phase = "loop" /\ tick.count < MaxJobsPerTick,
         UNCHANGED <<now, tick, deleting, accepted, faults>>
  PROVE  IInv'
<1> USE JobsAssumption, TimeAssumption, BoundAssumption DEF IInv
<1> DEFINE n == job[j].attempts + 1
           new == ClaimedRow(job[j], w)
           took == [pc |-> "gate", job |-> j, attempt |-> n, at |-> now, result |-> "none"]
<1>1. job[j] \in Row /\ job[j].state \in Claimable
  BY DEF ClaimDue, EarliestDue, Due, TypeOK
<1>2. n \in 1..MaxAttempts /\ now + LeaseTime \in Nat /\ now \in Nat
  <2>1. job[j].attempts \in Nat
    BY <1>1 DEF Row
  <2>2. job[j].attempts < MaxAttempts
    BY <1>1, <2>1 DEF AttemptsCounted, Claimable
  <2>3. now \in Nat
    BY DEF TypeOK
  <2> QED
    BY <2>1, <2>2, <2>3
<1>3. /\ job' = [job EXCEPT ![j] = new]
      /\ attempt' = [attempt EXCEPT ![j][n] = "attempting"]
      /\ run' = [run EXCEPT ![w] = took]
  BY DEF ClaimDue
<1>4. /\ new \in Row /\ new.state = "attempting" /\ new.attempts = n
      /\ new.leaseOwner = w /\ new.leaseExpiresAt = now + LeaseTime
      /\ new.recoveryCode = job[j].recoveryCode
  BY <1>1, <1>2, ClaimedRowInRow
<1>5. /\ took \in Run /\ took.pc = "gate" /\ took.job = j /\ took.attempt = n
  BY <1>2 DEF Run
<1>0. n = job[j].attempts + 1
  OBVIOUS
<1> HIDE DEF n, new, took
<1>6. TypeOK'
  BY <1>2, <1>3, <1>4, <1>5 DEF TypeOK, AttemptStates
<1>7. LeaseWhileAttempting'
  BY <1>2, <1>3, <1>4 DEF LeaseWhileAttempting, TypeOK, Workers
<1>8. \A v \in Workers : InFlight(v) => run[v].job # j
  BY <1>1 DEF DispatchesSound, HoldsOrLost, Claimable
<1>9. \A v \in Workers : v # w => run'[v] = run[v]
  BY <1>3 DEF TypeOK
<1>10. run'[w] = took
  BY <1>3 DEF TypeOK
<1>11. OneDispatchPerJob'
  BY <1>5, <1>8, <1>9, <1>10 DEF OneDispatchPerJob, InFlight
<1>12. accepted[j] = 0
  BY <1>1 DEF StateMatchesProvider
<1>13. DispatchesSound'
  <2> SUFFICES ASSUME NEW v \in Workers, InFlight(v)'
               PROVE  /\ run'[v].job \in Jobs
                      /\ run'[v].attempt \in 1..MaxAttempts
                      /\ HoldsOrLost(v)'
                      /\ SentAsReported(v)'
    BY DEF DispatchesSound
  <2>1. CASE v = w
    BY <2>1, <1>2, <1>3, <1>4, <1>5, <1>10, <1>12 DEF HoldsOrLost, SentAsReported, TypeOK
  <2>2. CASE v # w
    BY <2>2, <1>3, <1>8, <1>9 DEF DispatchesSound, InFlight, HoldsOrLost, SentAsReported, TypeOK
  <2> QED
    BY <2>1, <2>2
<1>14. TickerInLoop'
  BY <1>5, <1>9, <1>10 DEF TickerInLoop, InFlight, Workers
<1>15. AttemptsCounted'
  <2> SUFFICES ASSUME NEW k \in Jobs
               PROVE  /\ job'[k].state \in {"unborn", "scheduled"} => job'[k].attempts = 0
                      /\ job'[k].state = "queued" => job'[k].attempts < MaxAttempts
                      /\ job'[k].state = "attempting" => job'[k].attempts > 0
                      /\ job'[k].state # "deleted" =>
                           \A m \in 1..MaxAttempts :
                             m > job'[k].attempts => attempt'[k][m] = "none"
    BY DEF AttemptsCounted
  <2>1. CASE k # j
    BY <2>1, <1>3 DEF AttemptsCounted, TypeOK
  <2>2. CASE k = j
    <3>1. job'[j] = new /\ attempt'[j] = [attempt[j] EXCEPT ![n] = "attempting"]
      BY <1>3 DEF TypeOK
    <3>2. job[j].attempts \in Nat
      BY <1>1 DEF Row
    <3>3. \A m \in 1..MaxAttempts : m > n => attempt'[j][m] = "none"
      <4> SUFFICES ASSUME NEW m \in 1..MaxAttempts, m > n
                   PROVE  attempt'[j][m] = "none"
        OBVIOUS
      <4>1. m > job[j].attempts /\ m # n
        BY <1>0, <1>2, <3>2
      <4>2. attempt[j][m] = "none"
        BY <1>1, <4>1 DEF AttemptsCounted, Claimable
      <4>3. attempt[j] \in [1..MaxAttempts -> AttemptStates]
        BY DEF TypeOK
      <4> QED
        BY <3>1, <4>1, <4>2, <4>3
    <3> QED
      BY <2>2, <1>2, <1>4, <3>1, <3>3
  <2> QED
    BY <2>1, <2>2
<1>16. DeletingSettled'
  BY <1>1, <1>3, <1>4 DEF DeletingSettled, TypeOK, Terminal, Deletable, Claimable
<1>17. AtMostOnceDelivery' /\ StateMatchesProvider'
  BY <1>3, <1>4 DEF AtMostOnceDelivery, StateMatchesProvider, TypeOK, Claimable
<1> QED
  BY <1>6, <1>7, <1>11, <1>13, <1>14, <1>15, <1>16, <1>17
(* A dispatch that ends without writing its job: nothing was due, the      *)
(* lease was lost, an exception was thrown or the process died.            *)
LEMMA AbandonKeepsIInv ==
  ASSUME IInv, UNCHANGED <<now, job, attempt, accepted>>,
         run' \in [Workers -> Run],
         \A w \in Workers : run'[w] = run[w] \/ run'[w].pc = "idle",
         tick' \in [phase: {"idle", "missed", "loop"}, at: Nat, count: 0..MaxJobsPerTick],
         tick' = tick \/ run'[Ticker].pc = "idle",
         deleting' \subseteq deleting,
         faults' \in 0..MaxFaults
  PROVE  IInv'
<1> USE DEF IInv
<1>1. TypeOK' /\ LeaseWhileAttempting'
  BY DEF TypeOK, LeaseWhileAttempting
<1>2. \A w \in Workers : InFlight(w)' => InFlight(w) /\ run'[w] = run[w]
  BY DEF InFlight
<1>3. OneDispatchPerJob' /\ DispatchesSound'
  BY <1>2 DEF OneDispatchPerJob, DispatchesSound, HoldsOrLost, SentAsReported
<1>4. TickerInLoop'
  BY DEF TickerInLoop, InFlight, Workers
<1>5. AttemptsCounted' /\ DeletingSettled'
  BY DEF AttemptsCounted, DeletingSettled
<1>6. AtMostOnceDelivery' /\ StateMatchesProvider'
  BY DEF AtMostOnceDelivery, StateMatchesProvider
<1> QED
  BY <1>1, <1>3, <1>4, <1>5, <1>6

LEMMA NoRunTyped == NoRun \in Run /\ NoRun.pc = "idle"
BY BoundAssumption DEF NoRun, NewRun, Run

LEMMA TickEndKeepsIInv ==
  ASSUME IInv, TickEnd
  PROVE  IInv'
<1>1. /\ tick' \in [phase: {"idle", "missed", "loop"}, at: Nat, count: 0..MaxJobsPerTick]
      /\ run \in [Workers -> Run] /\ run[Ticker].pc = "idle"
      /\ faults \in 0..MaxFaults
  BY BoundAssumption DEF IInv, TypeOK, TickEnd, IdleTick
<1> QED
  BY <1>1, AbandonKeepsIInv DEF TickEnd

LEMMA ImmediateNothingKeepsIInv ==
  ASSUME IInv, NEW w \in Jobs, ImmediateNothing(w)
  PROVE  IInv'
<1>1. /\ run \in [Workers -> Run] /\ w \in Workers /\ faults \in 0..MaxFaults
      /\ tick \in [phase: {"idle", "missed", "loop"}, at: Nat, count: 0..MaxJobsPerTick]
  BY DEF IInv, TypeOK, Workers
<1>2. run' \in [Workers -> Run]
  BY <1>1, NoRunTyped DEF ImmediateNothing
<1>3. \A v \in Workers : run'[v] = run[v] \/ run'[v].pc = "idle"
  BY <1>1, NoRunTyped DEF ImmediateNothing
<1> QED
  BY <1>1, <1>2, <1>3, AbandonKeepsIInv DEF ImmediateNothing

LEMMA ThrowKeepsIInv ==
  ASSUME IInv, NEW w \in Workers, Throw(w)
  PROVE  IInv'
<1>1. /\ run \in [Workers -> Run] /\ Ticker \in Workers
      /\ tick \in [phase: {"idle", "missed", "loop"}, at: Nat, count: 0..MaxJobsPerTick]
      /\ IdleTick \in [phase: {"idle", "missed", "loop"}, at: Nat, count: 0..MaxJobsPerTick]
  BY BoundAssumption DEF IInv, TypeOK, Workers, IdleTick
<1>2. faults' \in 0..MaxFaults
  BY BoundAssumption DEF Throw, IInv, TypeOK
<1>3. run' \in [Workers -> Run]
  BY <1>1, NoRunTyped DEF Throw
<1>4. \A v \in Workers : run'[v] = run[v] \/ run'[v].pc = "idle"
  BY <1>1, NoRunTyped DEF Throw
<1>5. run'[w].pc = "idle"
  BY <1>1, NoRunTyped DEF Throw
<1>6. /\ tick' \in [phase: {"idle", "missed", "loop"}, at: Nat, count: 0..MaxJobsPerTick]
      /\ tick' = tick \/ run'[Ticker].pc = "idle"
  BY <1>1, <1>5 DEF Throw
<1> QED
  BY <1>2, <1>3, <1>4, <1>6, AbandonKeepsIInv DEF Throw

LEMMA CrashKeepsIInv ==
  ASSUME IInv, Crash
  PROVE  IInv'
<1>1. /\ tick' \in [phase: {"idle", "missed", "loop"}, at: Nat, count: 0..MaxJobsPerTick]
      /\ faults' \in 0..MaxFaults
  BY BoundAssumption DEF IInv, TypeOK, Crash, IdleTick
<1>2. run' \in [Workers -> Run] /\ \A v \in Workers : run'[v].pc = "idle"
  BY NoRunTyped DEF Crash
<1>3. Ticker \in Workers /\ deleting' \subseteq deleting
  BY DEF Workers, Crash
<1> QED
  BY <1>1, <1>2, <1>3, AbandonKeepsIInv DEF Crash

LEMMA PassTimeKeepsIInv ==
  ASSUME IInv, PassTime
  PROVE  IInv'
<1> USE DEF IInv, PassTime
<1>1. TypeOK'
  BY TimeAssumption DEF TypeOK
<1>2. LeaseWhileAttempting' /\ OneDispatchPerJob'
  BY DEF LeaseWhileAttempting, OneDispatchPerJob, InFlight
<1>3. DispatchesSound' /\ TickerInLoop'
  BY DEF DispatchesSound, TickerInLoop, InFlight, HoldsOrLost, SentAsReported
<1>4. AttemptsCounted' /\ DeletingSettled' /\ AtMostOnceDelivery' /\ StateMatchesProvider'
  BY DEF AttemptsCounted, DeletingSettled, AtMostOnceDelivery, StateMatchesProvider
<1> QED
  BY <1>1, <1>2, <1>3, <1>4

(* An ack raises the state of an attempt that exists, and nothing else.    *)
LEMMA AcknowledgeKeepsIInv ==
  ASSUME IInv, NEW j \in Jobs, Acknowledge(j)
  PROVE  IInv'
<1>1. UNCHANGED <<now, job, run, tick, deleting, accepted, faults>>
  BY DEF Acknowledge
<1>2. PICK n \in 1..MaxAttempts, s \in {"acknowledged", "failed"} :
        attempt[j][n] # "none" /\ attempt' = [attempt EXCEPT ![j][n] = s]
  BY DEF Acknowledge
<1>3. attempt \in [Jobs -> [1..MaxAttempts -> AttemptStates]]
  BY DEF IInv, TypeOK
<1>4. attempt' \in [Jobs -> [1..MaxAttempts -> AttemptStates]]
  BY <1>2, <1>3 DEF AttemptStates
<1>5. \A k \in Jobs, m \in 1..MaxAttempts : attempt[k][m] = "none" => attempt'[k][m] = "none"
  BY <1>2, <1>3
<1>6. TypeOK'
  BY <1>1, <1>4 DEF IInv, TypeOK
<1>7. LeaseWhileAttempting' /\ OneDispatchPerJob'
  BY <1>1 DEF IInv, LeaseWhileAttempting, OneDispatchPerJob, InFlight
<1>8. DispatchesSound' /\ TickerInLoop'
  BY <1>1 DEF IInv, DispatchesSound, TickerInLoop, InFlight, HoldsOrLost, SentAsReported
<1>9. AttemptsCounted'
  BY <1>1, <1>5 DEF IInv, AttemptsCounted
<1>10. DeletingSettled' /\ AtMostOnceDelivery' /\ StateMatchesProvider'
  BY <1>1 DEF IInv, DeletingSettled, AtMostOnceDelivery, StateMatchesProvider
<1> QED
  BY <1>6, <1>7, <1>8, <1>9, <1>10 DEF IInv

(* A dispatch moves on, the provider having taken nothing.                 *)
LEMMA AdvanceKeepsIInv ==
  ASSUME IInv, NEW w \in Workers, run[w].pc \in {"gate", "send"},
         NEW pc, NEW result, Advance(w, pc, result),
         \/ pc = "send" /\ result = "none"
         \/ pc = "settle" /\ result \in {"failed", "unknown", "retryable"},
         UNCHANGED <<now, job, attempt, tick, deleting, accepted, faults>>
  PROVE  IInv'
<1> USE DEF IInv
<1> DEFINE next == [run[w] EXCEPT !.pc = pc, !.result = result]
<1>1. run[w] \in Run
  BY DEF TypeOK
<1>2. /\ next \in Run /\ next.pc = pc /\ next.result = result
      /\ next.job = run[w].job /\ next.attempt = run[w].attempt
  BY <1>1 DEF Run, Results
<1>3. run' = [run EXCEPT ![w] = next]
  BY DEF Advance
<1> HIDE DEF next
<1>4. run' \in [Workers -> Run] /\ run'[w] = next
      /\ \A v \in Workers : v # w => run'[v] = run[v]
  BY <1>2, <1>3 DEF TypeOK
<1>5. TypeOK' /\ LeaseWhileAttempting'
  BY <1>4 DEF TypeOK, LeaseWhileAttempting
<1>6. InFlight(w)
  BY DEF InFlight
<1>7. \A v \in Workers : InFlight(v)' => InFlight(v) /\ run'[v].job = run[v].job
  BY <1>2, <1>4, <1>6 DEF InFlight
<1>8. OneDispatchPerJob'
  BY <1>7 DEF OneDispatchPerJob
<1>9. DispatchesSound'
  <2> SUFFICES ASSUME NEW v \in Workers, InFlight(v)'
               PROVE  /\ run'[v].job \in Jobs
                      /\ run'[v].attempt \in 1..MaxAttempts
                      /\ HoldsOrLost(v)'
                      /\ SentAsReported(v)'
    BY DEF DispatchesSound
  <2>1. CASE v = w
    <3>1. /\ run[w].job \in Jobs /\ run[w].attempt \in 1..MaxAttempts
          /\ HoldsOrLost(w) /\ accepted[run[w].job] = 0
      BY <1>6 DEF DispatchesSound, SentAsReported
    <3> QED
      BY <2>1, <3>1, <1>2, <1>4 DEF HoldsOrLost, SentAsReported, Results
  <2>2. CASE v # w
    BY <2>2, <1>4, <1>7 DEF DispatchesSound, HoldsOrLost, SentAsReported
  <2> QED
    BY <2>1, <2>2
<1>10. TickerInLoop'
  BY <1>2, <1>4, <1>6, <1>7 DEF TickerInLoop, InFlight, Workers
<1>11. AttemptsCounted' /\ DeletingSettled' /\ AtMostOnceDelivery' /\ StateMatchesProvider'
  BY DEF AttemptsCounted, DeletingSettled, AtMostOnceDelivery, StateMatchesProvider
<1> QED
  BY <1>5, <1>8, <1>9, <1>10, <1>11
(* The provider takes a message: the dispatch that hands it over is the    *)
(* only one with that job, and the job was not sent before.                *)
LEMMA TransportAcceptedKeepsIInv ==
  ASSUME IInv, NEW w \in Workers, TransportAccepted(w)
  PROVE  IInv'
<1> USE DEF IInv
<1>1. PICK r \in {"submitted", "unknown", "failed"} : Advance(w, "settle", r)
  BY DEF TransportAccepted
<1> DEFINE next == [run[w] EXCEPT !.pc = "settle", !.result = r]
           j == run[w].job
<1>2. run[w] \in Run
  BY DEF TypeOK
<1>3. /\ next \in Run /\ next.pc = "settle" /\ next.result = r
      /\ next.job = j /\ next.attempt = run[w].attempt
  BY <1>2 DEF Run, Results
<1>4. run' = [run EXCEPT ![w] = next]
  BY <1>1 DEF Advance
<1>5. InFlight(w) /\ run[w].pc = "send"
  BY DEF InFlight, TransportAccepted
<1>6. /\ j \in Jobs /\ run[w].attempt \in 1..MaxAttempts
      /\ HoldsOrLost(w) /\ accepted[j] = 0
  BY <1>5 DEF DispatchesSound, SentAsReported
<1>7. accepted' = [accepted EXCEPT ![j] = 1]
  BY <1>6 DEF TransportAccepted
<1>8. UNCHANGED <<now, job, attempt, tick, deleting, faults>>
  BY DEF TransportAccepted
<1> HIDE DEF next
<1>9. run' \in [Workers -> Run] /\ run'[w] = next
      /\ \A v \in Workers : v # w => run'[v] = run[v]
  BY <1>3, <1>4 DEF TypeOK
<1>10. /\ accepted' \in [Jobs -> Nat] /\ accepted'[j] = 1
       /\ \A k \in Jobs : k # j => accepted'[k] = accepted[k]
  BY <1>6, <1>7 DEF TypeOK
<1>11. TypeOK' /\ LeaseWhileAttempting'
  BY <1>8, <1>9, <1>10 DEF TypeOK, LeaseWhileAttempting
<1>12. \A v \in Workers : InFlight(v)' => InFlight(v) /\ run'[v].job = run[v].job
  BY <1>3, <1>5, <1>9 DEF InFlight
<1>13. OneDispatchPerJob'
  BY <1>12 DEF OneDispatchPerJob
<1>14. DispatchesSound'
  <2> SUFFICES ASSUME NEW v \in Workers, InFlight(v)'
               PROVE  /\ run'[v].job \in Jobs
                      /\ run'[v].attempt \in 1..MaxAttempts
                      /\ HoldsOrLost(v)'
                      /\ SentAsReported(v)'
    BY DEF DispatchesSound
  <2>1. CASE v = w
    BY <2>1, <1>3, <1>6, <1>8, <1>9, <1>10 DEF HoldsOrLost, SentAsReported, Results
  <2>2. CASE v # w
    <3>1. run[v].job # j /\ run[v].job \in Jobs
      BY <2>2, <1>5, <1>12 DEF OneDispatchPerJob, DispatchesSound
    <3> QED
      BY <2>2, <3>1, <1>8, <1>9, <1>10, <1>12 DEF DispatchesSound, HoldsOrLost, SentAsReported
  <2> QED
    BY <2>1, <2>2
<1>15. TickerInLoop'
  BY <1>3, <1>5, <1>8, <1>9, <1>12 DEF TickerInLoop, InFlight, Workers
<1>16. AttemptsCounted' /\ DeletingSettled'
  BY <1>8 DEF AttemptsCounted, DeletingSettled
<1>17. AtMostOnceDelivery'
  BY <1>10 DEF AtMostOnceDelivery
<1>18. StateMatchesProvider'
  BY <1>6, <1>8, <1>10 DEF StateMatchesProvider, HoldsOrLost, Claimable
<1> QED
  BY <1>11, <1>13, <1>14, <1>15, <1>16, <1>17, <1>18

LEMMA SettledRowInRow ==
  ASSUME IInv, NEW w \in Workers, run[w].pc = "settle", NEW r \in Row
  PROVE  /\ SettledRow(w, r) \in Row
         /\ SettledRow(w, r).state = SettledState(w)
         /\ SettledRow(w, r).leaseOwner = None
         /\ SettledRow(w, r).leaseExpiresAt = None
         /\ SettledRow(w, r).attempts = r.attempts
         /\ SettledState(w) \in {"queued", "failed", "submitted", "unknown"}
         /\ SettledState(w) = "queued" => run[w].attempt < MaxAttempts
         /\ SettledState(w) = "queued" => accepted[run[w].job] = 0
         /\ SettledState(w) = "submitted" => accepted[run[w].job] = 1
         /\ SettledState(w) = "unknown" => SettledRow(w, r).recoveryCode = "dispatch"
<1>1. /\ run[w].result \in Results
      /\ run[w].result = "submitted" => accepted[run[w].job] = 1
      /\ run[w].result = "retryable" => accepted[run[w].job] = 0
      /\ run[w].attempt \in 1..MaxAttempts
  BY DEF IInv, DispatchesSound, InFlight, SentAsReported
<1>2. /\ SettledState(w) \in {"queued", "failed", "submitted", "unknown"}
      /\ SettledState(w) = "queued" => run[w].attempt < MaxAttempts
      /\ SettledState(w) = "queued" => accepted[run[w].job] = 0
      /\ SettledState(w) = "submitted" => accepted[run[w].job] = 1
  BY <1>1 DEF SettledState, Results
<1> DEFINE next == CASE SettledState(w) = "queued" -> run[w].at + Backoff[run[w].attempt]
                     [] SettledState(w) = "submitted" -> r.nextAttemptAt
                     [] OTHER -> None
           code == IF SettledState(w) = "submitted" THEN r.recoveryCode ELSE "dispatch"
           state == SettledState(w)
           new == [r EXCEPT !.state = state, !.leaseOwner = None, !.leaseExpiresAt = None,
                            !.nextAttemptAt = next, !.recoveryCode = code]
<1>3. next \in Nat \cup {None}
  <2>1. run[w].at \in Nat /\ Backoff[run[w].attempt] \in Nat
    BY <1>1, BoundAssumption DEF IInv, TypeOK, Run
  <2>2. r.nextAttemptAt \in Nat \cup {None}
    BY DEF Row
  <2> QED
    BY <2>1, <2>2
<1>4. code \in RecoveryCodes /\ (state # "submitted" => code = "dispatch")
  BY DEF Row, RecoveryCodes
<1>5. state \in JobStates
  BY <1>2 DEF JobStates, Claimable, Terminal, Deletable
<1>6. SettledRow(w, r) = new
  BY DEF SettledRow, Row
<1>7. SettledState(w) = state
  OBVIOUS
<1> HIDE DEF next, code, state
<1>8. /\ new \in Row /\ new.state = state /\ new.leaseOwner = None
      /\ new.leaseExpiresAt = None /\ new.attempts = r.attempts
      /\ new.recoveryCode = code
  BY <1>3, <1>4, <1>5 DEF Row
<1> HIDE DEF new
<1> QED
  BY <1>2, <1>4, <1>6, <1>7, <1>8

(* Settling under the lease: the job gets the state its dispatch reports.  *)
LEMMA SettleHeldKeepsIInv ==
  ASSUME IInv, NEW w \in Workers, Settle(w),
         job[run[w].job].state = "attempting", job[run[w].job].leaseOwner = w
  PROVE  IInv'
<1> USE DEF IInv
<1> DEFINE j == run[w].job
           new == SettledRow(w, job[j])
<1>1. run[w].pc = "settle" /\ InFlight(w)
  BY DEF Settle, InFlight
<1>2. /\ j \in Jobs /\ run[w].attempt \in 1..MaxAttempts
      /\ job[j].attempts = run[w].attempt
  BY <1>1 DEF DispatchesSound, HoldsOrLost
<1>3. job[j] \in Row
  BY <1>2 DEF TypeOK
<1>4. /\ job' = [job EXCEPT ![j] = new]
      /\ attempt' = [attempt EXCEPT ![j][job[j].attempts] = SettledState(w)]
      /\ run' = [run EXCEPT ![w] = NoRun]
      /\ tick' = IF w # Ticker THEN tick ELSE [tick EXCEPT !.count = tick.count + 1]
      /\ UNCHANGED <<now, deleting, accepted, faults>>
  BY DEF Settle
<1>5. /\ new \in Row
      /\ new.state = SettledState(w)
      /\ new.leaseOwner = None
      /\ new.leaseExpiresAt = None
      /\ new.attempts = job[j].attempts
      /\ SettledState(w) \in {"queued", "failed", "submitted", "unknown"}
      /\ SettledState(w) = "queued" => run[w].attempt < MaxAttempts
      /\ SettledState(w) = "queued" => accepted[j] = 0
      /\ SettledState(w) = "submitted" => accepted[j] = 1
      /\ SettledState(w) = "unknown" => new.recoveryCode = "dispatch"
  BY <1>1, <1>3, SettledRowInRow
<1> HIDE DEF new
<1>6. /\ run' \in [Workers -> Run] /\ run'[w].pc = "idle"
      /\ \A v \in Workers : v # w => run'[v] = run[v]
  BY <1>4, NoRunTyped DEF TypeOK
<1>7. /\ job' \in [Jobs -> Row] /\ job'[j] = new
      /\ \A k \in Jobs : k # j => job'[k] = job[k]
  BY <1>2, <1>4, <1>5 DEF TypeOK
<1>8. /\ attempt' \in [Jobs -> [1..MaxAttempts -> AttemptStates]]
      /\ \A k \in Jobs : \A n \in 1..MaxAttempts :
           (k # j \/ n # job[j].attempts) => attempt'[k][n] = attempt[k][n]
  BY <1>2, <1>4, <1>5 DEF TypeOK, AttemptStates
<1>9. tick' \in [phase: {"idle", "missed", "loop"}, at: Nat, count: 0..MaxJobsPerTick]
  <2>1. CASE w # Ticker
    BY <2>1, <1>4 DEF TypeOK
  <2>2. CASE w = Ticker
    <3>1. tick.count < MaxJobsPerTick
      BY <2>2, <1>1 DEF TickerInLoop
    <3>2. tick.count + 1 \in 0..MaxJobsPerTick
      BY <3>1, BoundAssumption DEF TypeOK
    <3> QED
      BY <2>2, <1>4, <3>2 DEF TypeOK
  <2> QED
    BY <2>1, <2>2
<1>10. TypeOK'
  BY <1>4, <1>6, <1>7, <1>8, <1>9 DEF TypeOK
<1>11. LeaseWhileAttempting'
  BY <1>5, <1>7 DEF LeaseWhileAttempting
<1>12. \A v \in Workers : InFlight(v)' => v # w /\ InFlight(v) /\ run'[v] = run[v]
  BY <1>6 DEF InFlight
<1>13. OneDispatchPerJob'
  BY <1>12 DEF OneDispatchPerJob
<1>14. \A v \in Workers : InFlight(v)' => run[v].job # j /\ run[v].job \in Jobs
  BY <1>1, <1>12 DEF OneDispatchPerJob, DispatchesSound
<1>15. DispatchesSound'
  BY <1>4, <1>7, <1>12, <1>14 DEF DispatchesSound, HoldsOrLost, SentAsReported
<1>16. TickerInLoop'
  BY <1>4, <1>6, <1>12 DEF TickerInLoop, InFlight, Workers
<1>17. AttemptsCounted'
  <2> SUFFICES ASSUME NEW k \in Jobs
               PROVE  /\ job'[k].state \in {"unborn", "scheduled"} => job'[k].attempts = 0
                      /\ job'[k].state = "queued" => job'[k].attempts < MaxAttempts
                      /\ job'[k].state = "attempting" => job'[k].attempts > 0
                      /\ job'[k].state # "deleted" =>
                           \A n \in 1..MaxAttempts :
                             n > job'[k].attempts => attempt'[k][n] = "none"
    BY DEF AttemptsCounted
  <2>1. CASE k = j
    BY <2>1, <1>2, <1>5, <1>7, <1>8 DEF AttemptsCounted
  <2>2. CASE k # j
    BY <2>2, <1>7, <1>8 DEF AttemptsCounted
  <2> QED
    BY <2>1, <2>2
<1>18. DeletingSettled'
  BY <1>4, <1>5, <1>7 DEF DeletingSettled, TypeOK, Terminal, Deletable
<1>19. AtMostOnceDelivery'
  BY <1>4 DEF AtMostOnceDelivery
<1>20. StateMatchesProvider'
  BY <1>4, <1>5, <1>7 DEF StateMatchesProvider, Claimable
<1> QED
  BY <1>10, <1>11, <1>13, <1>15, <1>16, <1>17, <1>18, <1>19, <1>20

LEMMA SettleKeepsIInv ==
  ASSUME IInv, NEW w \in Workers, Settle(w)
  PROVE  IInv'
<1> DEFINE j == run[w].job
           held == job[j].state = "attempting" /\ job[j].leaseOwner = w
<1>1. CASE held
  BY <1>1, SettleHeldKeepsIInv
<1>2. CASE ~held
  <2>1. /\ UNCHANGED <<now, job, attempt, accepted, deleting, faults>>
        /\ run' = [run EXCEPT ![w] = NoRun]
        /\ tick' = IF w # Ticker THEN tick ELSE IdleTick
    BY <1>2 DEF Settle
  <2>2. /\ run \in [Workers -> Run] /\ Ticker \in Workers /\ faults \in 0..MaxFaults
        /\ tick \in [phase: {"idle", "missed", "loop"}, at: Nat, count: 0..MaxJobsPerTick]
        /\ IdleTick \in [phase: {"idle", "missed", "loop"}, at: Nat, count: 0..MaxJobsPerTick]
    BY BoundAssumption DEF IInv, TypeOK, Workers, IdleTick
  <2>3. run' \in [Workers -> Run] /\ run'[w].pc = "idle"
        /\ \A v \in Workers : run'[v] = run[v] \/ run'[v].pc = "idle"
    BY <2>1, <2>2, NoRunTyped
  <2>4. /\ tick' \in [phase: {"idle", "missed", "loop"}, at: Nat, count: 0..MaxJobsPerTick]
        /\ tick' = tick \/ run'[Ticker].pc = "idle"
    BY <2>1, <2>2, <2>3
  <2> QED
    BY <2>1, <2>2, <2>3, <2>4, AbandonKeepsIInv
<1> QED
  BY <1>1, <1>2
LEMMA NextKeepsIInv == IInv /\ [Next]_vars => IInv'
<1> SUFFICES ASSUME IInv, [Next]_vars PROVE IInv'
  OBVIOUS
<1>1. ASSUME NEW j \in Jobs, Request(j) PROVE IInv'
  <2>1. CASE Schedule(j)
    <3>1. PICK t \in 0..MaxTime : InsertRow(j, t)
      BY <2>1 DEF Schedule
    <3> QED
      BY <2>1, <3>1, InsertKeepsIInv DEF Schedule
  <2>2. CASE SendNow(j)
    <3>1. now \in 0..MaxTime
      BY DEF IInv, TypeOK
    <3> QED
      BY <2>2, <3>1, InsertKeepsIInv DEF SendNow
  <2>3. CASE Edit(j) \/ Cancel(j)
    BY <2>3, EditKeepsIInv, CancelKeepsIInv
  <2>4. CASE DeleteCheck(j) \/ DeleteRemove(j)
    BY <2>4, DeleteCheckKeepsIInv, DeleteRemoveKeepsIInv
  <2> QED
    BY <1>1, <2>1, <2>2, <2>3, <2>4 DEF Request
<1>2. ASSUME NEW w \in Jobs, ImmediateClaim(w) \/ ImmediateNothing(w) PROVE IInv'
  <2>1. CASE ImmediateClaim(w)
    <3>1. PICK j \in Jobs : ClaimDue(w, j)
      BY <2>1 DEF ImmediateClaim
    <3>2. w \in Workers /\ w # Ticker
      BY JobsAssumption DEF Workers
    <3> QED
      BY <2>1, <3>1, <3>2, ClaimKeepsIInv DEF ImmediateClaim
  <2> QED
    BY <1>2, <2>1, ImmediateNothingKeepsIInv
<1>3. ASSUME NEW w \in Workers, Dispatch(w) PROVE IInv'
  <2>1. CASE GateAllows(w)
    BY <2>1, AdvanceKeepsIInv DEF GateAllows
  <2>2. CASE GateDenies(w)
    BY <2>2, AdvanceKeepsIInv DEF GateDenies
  <2>3. CASE TransportRefused(w)
    <3>1. PICK r \in {"failed", "unknown", "retryable"} : Advance(w, "settle", r)
      BY <2>3 DEF TransportRefused
    <3> QED
      BY <2>3, <3>1, AdvanceKeepsIInv DEF TransportRefused
  <2> QED
    BY <1>3, <2>1, <2>2, <2>3, TransportAcceptedKeepsIInv, SettleKeepsIInv DEF Dispatch
<1>4. ASSUME TickerStep PROVE IInv'
  <2>1. CASE TickerClaim
    <3>1. PICK j \in Jobs : ClaimDue(Ticker, j)
      BY <2>1 DEF TickerClaim
    <3>2. Ticker \in Workers
      BY DEF Workers
    <3> QED
      BY <2>1, <3>1, <3>2, ClaimKeepsIInv DEF TickerClaim
  <2> QED
    BY <1>4, <2>1, TickRecoverKeepsIInv, TickMarkMissedKeepsIInv, TickEndKeepsIInv DEF TickerStep
<1>5. CASE UNCHANGED vars
  BY <1>5 DEF vars, IInv, TypeOK, LeaseWhileAttempting, OneDispatchPerJob, DispatchesSound,
     TickerInLoop, AttemptsCounted, DeletingSettled, AtMostOnceDelivery, StateMatchesProvider,
     InFlight, HoldsOrLost, SentAsReported
<1> QED
  BY <1>1, <1>2, <1>3, <1>4, <1>5, AcknowledgeKeepsIInv, ThrowKeepsIInv, CrashKeepsIInv,
     PassTimeKeepsIInv DEF Next

------------------------------------------------------------------------------
(* IInv holds in every reachable state: the types of the columns and of    *)
(* the dispatches, the leases, the attempt counts and the promises below.  *)
THEOREM SpecImpliesIInv == Spec => []IInv
<1>1. IInv /\ [Next]_vars => IInv'
  BY NextKeepsIInv
<1> QED
  BY InitIInv, <1>1, PTL DEF Spec

(* Type correctness.                                                       *)
THEOREM TypeCorrect == Spec => []TypeOK
<1>1. IInv => TypeOK
  BY DEF IInv
<1> QED
  BY SpecImpliesIInv, <1>1, PTL

(* No schedule is handed to the provider twice, for any number of jobs,    *)
(* workers, retries, lease recoveries, exceptions and crashes.             *)
THEOREM DeliveredAtMostOnce == Spec => []AtMostOnceDelivery
<1>1. IInv => AtMostOnceDelivery
  BY DEF IInv
<1> QED
  BY SpecImpliesIInv, <1>1, PTL

(* Two asynchronous dispatches never work on the same job.                 *)
THEOREM OneDispatchAtATime == Spec => []OneDispatchPerJob
<1>1. IInv => OneDispatchPerJob
  BY DEF IInv
<1> QED
  BY SpecImpliesIInv, <1>1, PTL

(* The state recorded for a job never contradicts the provider.            *)
THEOREM RecordedStateIsTrue == Spec => []StateMatchesProvider
<1>1. IInv => StateMatchesProvider
  BY DEF IInv
<1> QED
  BY SpecImpliesIInv, <1>1, PTL

(* A claim always finds an attempt left and its dispatch_attempts row free.*)
THEOREM ClaimsNeverCollide == Spec => []ClaimNeverCollides
<1>1. ASSUME IInv PROVE ClaimNeverCollides
  <2> SUFFICES ASSUME NEW j \in Jobs, job[j].state \in Claimable
               PROVE  /\ job[j].attempts < MaxAttempts
                      /\ attempt[j][job[j].attempts + 1] = "none"
    BY DEF ClaimNeverCollides
  <2>1. job[j].attempts \in Nat
    BY <1>1 DEF IInv, TypeOK, Row
  <2>2. job[j].attempts < MaxAttempts
    BY <1>1, <2>1, BoundAssumption DEF IInv, AttemptsCounted, Claimable
  <2>3. job[j].attempts + 1 \in 1..MaxAttempts /\ job[j].attempts + 1 > job[j].attempts
    BY <2>1, <2>2, BoundAssumption
  <2> QED
    BY <1>1, <2>2, <2>3 DEF IInv, AttemptsCounted, Claimable
<1> QED
  BY SpecImpliesIInv, <1>1, PTL
------------------------------------------------------------------------------
(* Which moves of a job's state a single step can make.                    *)
LEMMA MovesOfAJob ==
  ASSUME IInv, [Next]_vars, NEW j \in Jobs
  PROVE  /\ job[j].state \in Terminal => job'[j].state \in {job[j].state, "deleted"}
         /\ job[j].state # "deleted" /\ job'[j].state = "deleted" => job[j].state \in Terminal
         /\ job[j].state = "deleted" => job'[j].state = "deleted"
<1> DEFINE Goal == /\ job[j].state \in Terminal => job'[j].state \in {job[j].state, "deleted"}
                   /\ job[j].state # "deleted" /\ job'[j].state = "deleted"
                        => job[j].state \in Terminal
                   /\ job[j].state = "deleted" => job'[j].state = "deleted"
<1>0. job \in [Jobs -> Row] /\ job[j] \in Row
  BY DEF IInv, TypeOK
<1>1. ASSUME NEW k \in Jobs, Request(k) PROVE Goal
  <2>1. CASE Schedule(k) \/ SendNow(k)
    <3>1. PICK t : InsertRow(k, t)
      BY <2>1 DEF Schedule, SendNow
    <3>2. job' = [job EXCEPT ![k] = NewRow("scheduled", t)] /\ job[k].state = "unborn"
      BY <3>1 DEF InsertRow
    <3>3. NewRow("scheduled", t).state = "scheduled"
      BY DEF NewRow
    <3> QED
      BY <1>0, <3>2, <3>3 DEF Terminal, Deletable
  <2>2. CASE Edit(k)
    <3>1. job'[j].state = job[j].state
      BY <1>0, <2>2 DEF Edit, Row
    <3> QED
      BY <3>1
  <2>3. CASE Cancel(k)
    <3>1. /\ job[k].state \in Claimable
          /\ job'[j].state = job[j].state \/ (j = k /\ job'[j].state = "cancelled")
      BY <1>0, <2>3 DEF Cancel, Unclaimed, Row
    <3> QED
      BY <3>1 DEF Claimable, Terminal, Deletable
  <2>4. CASE DeleteCheck(k)
    BY <2>4 DEF DeleteCheck
  <2>5. CASE DeleteRemove(k)
    <3>1. job[k].state \in Terminal \cup {"deleted"}
      BY <2>5 DEF DeleteRemove, IInv, DeletingSettled
    <3>2. job'[j].state = job[j].state \/ (j = k /\ job'[j].state = "deleted")
      BY <1>0, <2>5 DEF DeleteRemove, Row
    <3> QED
      BY <3>1, <3>2
  <2> QED
    BY <1>1, <2>1, <2>2, <2>3, <2>4, <2>5 DEF Request
<1>2. ASSUME NEW w \in Workers, NEW k \in Jobs, ClaimDue(w, k) PROVE Goal
  <2>1. job[k].state \in Claimable /\ job' = [job EXCEPT ![k] = ClaimedRow(job[k], w)]
    BY <1>2 DEF ClaimDue, EarliestDue, Due
  <2>2. k = j => ClaimedRow(job[k], w).state = "attempting"
    BY <1>0 DEF ClaimedRow, Row
  <2> QED
    BY <1>0, <2>1, <2>2 DEF Claimable, Terminal, Deletable
<1>3. ASSUME NEW w \in Workers, Settle(w) PROVE Goal
  <2> DEFINE k == run[w].job
  <2>1. CASE job[k].state = "attempting" /\ job[k].leaseOwner = w
    <3>1. run[w].pc = "settle" /\ job' = [job EXCEPT ![k] = SettledRow(w, job[k])]
      BY <1>3, <2>1 DEF Settle
    <3>2. /\ SettledRow(w, job[j]).state = SettledState(w)
          /\ SettledState(w) \in {"queued", "failed", "submitted", "unknown"}
      BY <1>0, <3>1, SettledRowInRow
    <3>3. CASE k = j
      BY <1>0, <2>1, <3>1, <3>2, <3>3 DEF Terminal, Deletable
    <3>4. CASE k # j
      BY <1>0, <3>1, <3>4
    <3> QED
      BY <3>3, <3>4
  <2>2. CASE ~(job[k].state = "attempting" /\ job[k].leaseOwner = w)
    BY <1>3, <2>2 DEF Settle
  <2> QED
    BY <2>1, <2>2
<1>4. CASE TickRecover
  <2>1. RecoveredRow(job[j]).state = "unknown"
    BY <1>0 DEF RecoveredRow, Row
  <2> QED
    BY <1>4, <2>1 DEF TickRecover, RecoverExpiredLeases, Terminal, Deletable
<1>5. CASE TickMarkMissed
  BY <1>0, <1>5 DEF TickMarkMissed, MarkMissed, Row, Terminal, Deletable, Claimable
<1>6. CASE UNCHANGED job
  BY <1>6
<1> QED
  BY <1>1, <1>2, <1>3, <1>4, <1>5, <1>6 DEF Next, TickerStep, Dispatch, vars, Workers,
     ImmediateClaim, ImmediateNothing, TickerClaim, TickEnd, GateAllows, GateDenies,
     TransportAccepted, TransportRefused, Acknowledge, Throw, Crash, PassTime

(* Only an insertion makes a job, and only its settling submits it.        *)
LEMMA QuietMoves ==
  ASSUME IInv, NEW k \in Jobs,
         \/ \E j \in Jobs : \/ Edit(j) \/ Cancel(j) \/ DeleteCheck(j) \/ DeleteRemove(j)
                            \/ ImmediateClaim(j) \/ ImmediateNothing(j) \/ Acknowledge(j)
         \/ TickerStep
         \/ UNCHANGED job
  PROVE  /\ job'[k].state = "submitted" => job[k].state = "submitted"
         /\ job[k].state = "unborn" => job'[k].state = "unborn"
<1> DEFINE Goal == /\ job'[k].state = "submitted" => job[k].state = "submitted"
                   /\ job[k].state = "unborn" => job'[k].state = "unborn"
<1>0. job \in [Jobs -> Row]
  BY DEF IInv, TypeOK
<1>1. ASSUME NEW j \in Jobs, Edit(j) \/ Cancel(j) \/ DeleteCheck(j) \/ DeleteRemove(j)
      PROVE  Goal
  <2>1. CASE Edit(j)
    BY <1>0, <2>1 DEF Edit, Row
  <2>2. CASE Cancel(j)
    BY <1>0, <2>2 DEF Cancel, Unclaimed, Claimable, Row
  <2>3. CASE DeleteCheck(j)
    BY <2>3 DEF DeleteCheck
  <2>4. CASE DeleteRemove(j)
    BY <1>0, <2>4 DEF DeleteRemove, Row
  <2> QED
    BY <1>1, <2>1, <2>2, <2>3, <2>4
<1>2. ASSUME NEW w \in Workers, NEW j \in Jobs, ClaimDue(w, j) PROVE Goal
  <2>1. job' = [job EXCEPT ![j] = ClaimedRow(job[j], w)] /\ job[j].state \in Claimable
    BY <1>2 DEF ClaimDue, EarliestDue, Due
  <2>2. ClaimedRow(job[j], w).state = "attempting"
    BY <1>0 DEF ClaimedRow, Row
  <2> QED
    BY <1>0, <2>1, <2>2 DEF Claimable
<1>3. CASE TickRecover
  BY <1>0, <1>3 DEF TickRecover, RecoverExpiredLeases, RecoveredRow, Row
<1>4. CASE TickMarkMissed
  BY <1>0, <1>4 DEF TickMarkMissed, MarkMissed, Row, Claimable
<1>5. CASE TickEnd \/ (\E j \in Jobs : ImmediateNothing(j)) \/ UNCHANGED job
  BY <1>5 DEF TickEnd, ImmediateNothing
<1>6. CASE \E j \in Jobs : Acknowledge(j)
  BY <1>6 DEF Acknowledge
<1> QED
  BY <1>1, <1>2, <1>3, <1>4, <1>5, <1>6 DEF TickerStep, TickerClaim, ImmediateClaim, Workers

(* A settled job moves only to be deleted.                                 *)
THEOREM SettledJobsStay == Spec => SettledIsFinal
<1>1. IInv /\ [Next]_vars =>
        [\A j \in Jobs : job[j].state \in Terminal
                           => job'[j].state \in {job[j].state, "deleted"}]_vars
  BY MovesOfAJob
<1> QED
  BY SpecImpliesIInv, <1>1, PTL DEF Spec, SettledIsFinal

(* DELETE removes only settled jobs that nobody holds.                     *)
THEOREM OnlySettledDeleted == Spec => DeletesOnlySettled
<1>1. IInv /\ [Next]_vars =>
        [\A j \in Jobs : job[j].state # "deleted" /\ job'[j].state = "deleted"
           => job[j].state \in Terminal /\ ~(\E w \in Workers : job[j].leaseOwner = w)]_vars
  <2> SUFFICES ASSUME IInv, [Next]_vars, NEW j \in Jobs,
                      job[j].state # "deleted", job'[j].state = "deleted"
               PROVE  job[j].state \in Terminal /\ ~(\E w \in Workers : job[j].leaseOwner = w)
    OBVIOUS
  <2>1. job[j].state \in Terminal
    BY MovesOfAJob
  <2>2. job[j].leaseOwner = None
    BY <2>1 DEF IInv, LeaseWhileAttempting, Terminal, Deletable
  <2> QED
    BY <2>1, <2>2, JobsAssumption DEF Workers
<1> QED
  BY SpecImpliesIInv, <1>1, PTL DEF Spec, DeletesOnlySettled
------------------------------------------------------------------------------
(* What AttemptAgreesWithJob says of one job.                              *)
LastAgrees(j) ==
  job[j].attempts > 0 /\ job[j].state # "deleted" =>
    LET last == attempt[j][job[j].attempts]
    IN \/ last = job[j].state
       \/ last = "attempting" /\ job[j].state = "unknown"
       \/ last = "queued" /\ job[j].state \in {"cancelled", "unknown"}
       \/ last \in {"acknowledged", "failed"} /\ job[j].state = "submitted"

(* Each step keeps a job's last attempt in agreement with the job, or      *)
(* leaves it behind, or ahead, in one of the ways that are allowed.        *)
LEMMA StepKeepsLastAgreeing ==
  ASSUME IInv, [Next]_vars, NEW j \in Jobs, LastAgrees(j)
  PROVE  LastAgrees(j)'
<1>0. /\ job \in [Jobs -> Row] /\ job[j] \in Row
      /\ attempt \in [Jobs -> [1..MaxAttempts -> AttemptStates]]
      /\ attempt[j] \in [1..MaxAttempts -> AttemptStates]
      /\ job[j].attempts \in 0..MaxAttempts /\ MaxAttempts \in Nat
  BY BoundAssumption DEF IInv, TypeOK, Row
<1>c. /\ job[j].state \in {"unborn", "scheduled"} => job[j].attempts = 0
      /\ job[j].state = "queued" => job[j].attempts < MaxAttempts
  BY DEF IInv, AttemptsCounted
<1>s. ASSUME job'[j] = job[j], attempt'[j] = attempt[j] PROVE LastAgrees(j)'
  BY <1>s DEF LastAgrees
<1>1. ASSUME NEW k \in Jobs, Request(k) PROVE LastAgrees(j)'
  <2>1. CASE Schedule(k) \/ SendNow(k)
    <3>1. PICK t : InsertRow(k, t)
      BY <2>1 DEF Schedule, SendNow
    <3>2. job' = [job EXCEPT ![k] = NewRow("scheduled", t)] /\ attempt' = attempt
      BY <2>1, <3>1 DEF InsertRow, Schedule, SendNow
    <3>3. NewRow("scheduled", t).attempts = 0
      BY DEF NewRow
    <3> QED
      BY <1>0, <1>s, <3>2, <3>3 DEF LastAgrees
  <2>2. CASE Edit(k)
    <3>1. job'[j].state = job[j].state /\ job'[j].attempts = job[j].attempts /\ attempt' = attempt
      BY <1>0, <2>2 DEF Edit, Row
    <3> QED
      BY <3>1 DEF LastAgrees
  <2>3. CASE Cancel(k)
    <3>1. CASE k = j
      <4>1. /\ job[j].state \in Claimable /\ attempt' = attempt
            /\ job'[j].state = "cancelled" /\ job'[j].attempts = job[j].attempts
        BY <1>0, <2>3, <3>1 DEF Cancel, Unclaimed, Row
      <4> QED
        BY <1>0, <1>c, <4>1 DEF LastAgrees, Claimable
    <3>2. CASE k # j
      BY <1>0, <1>s, <2>3, <3>2 DEF Cancel
    <3> QED
      BY <3>1, <3>2
  <2>4. CASE DeleteCheck(k)
    BY <1>s, <2>4 DEF DeleteCheck
  <2>5. CASE DeleteRemove(k)
    <3>1. CASE k = j /\ job[j].state \notin {"unborn", "deleted"}
      <4>1. job'[j].state = "deleted"
        BY <1>0, <2>5, <3>1 DEF DeleteRemove, Row
      <4> QED
        BY <4>1 DEF LastAgrees
    <3>2. CASE ~(k = j /\ job[j].state \notin {"unborn", "deleted"})
      <4>1. job'[j] = job[j] /\ attempt'[j] = attempt[j]
        BY <1>0, <2>5, <3>2 DEF DeleteRemove
      <4> QED
        BY <1>s, <4>1
    <3> QED
      BY <3>1, <3>2
  <2> QED
    BY <1>1, <2>1, <2>2, <2>3, <2>4, <2>5 DEF Request
<1>2. ASSUME NEW w \in Workers, NEW k \in Jobs, ClaimDue(w, k) PROVE LastAgrees(j)'
  <2>1. CASE k = j
    <3>1. /\ job[j].state \in Claimable
          /\ job' = [job EXCEPT ![j] = ClaimedRow(job[j], w)]
          /\ attempt' = [attempt EXCEPT ![j][job[j].attempts + 1] = "attempting"]
      BY <1>2, <2>1 DEF ClaimDue, EarliestDue, Due
    <3>2. /\ ClaimedRow(job[j], w).state = "attempting"
          /\ ClaimedRow(job[j], w).attempts = job[j].attempts + 1
      BY <1>0 DEF ClaimedRow, Row
    <3>3. job[j].attempts + 1 \in 1..MaxAttempts
      BY <1>0, <1>c, <3>1, BoundAssumption DEF Claimable
    <3> QED
      BY <1>0, <3>1, <3>2, <3>3 DEF LastAgrees
  <2>2. CASE k # j
    BY <1>0, <1>2, <1>s, <2>2 DEF ClaimDue
  <2> QED
    BY <2>1, <2>2
<1>3. ASSUME NEW w \in Workers, Settle(w) PROVE LastAgrees(j)'
  <2> DEFINE k == run[w].job
             held == job[k].state = "attempting" /\ job[k].leaseOwner = w
  <2>1. CASE held /\ k = j
    <3>1. /\ run[w].pc = "settle"
          /\ job' = [job EXCEPT ![j] = SettledRow(w, job[j])]
          /\ attempt' = [attempt EXCEPT ![j][job[j].attempts] = SettledState(w)]
      BY <1>3, <2>1 DEF Settle
    <3>2. SettledRow(w, job[j]).state = SettledState(w)
      BY <1>0, <3>1, SettledRowInRow
    <3>3. SettledRow(w, job[j]).attempts = job[j].attempts
      BY <1>0 DEF SettledRow, Row
    <3>4. CASE job[j].attempts > 0
      <4>1. job[j].attempts \in 1..MaxAttempts
        BY <1>0, <3>4
      <4> QED
        BY <1>0, <3>1, <3>2, <3>3, <4>1 DEF LastAgrees
    <3>5. CASE ~(job[j].attempts > 0)
      BY <1>0, <3>1, <3>3, <3>5 DEF LastAgrees
    <3> QED
      BY <3>4, <3>5
  <2>2. CASE held /\ k # j
    BY <1>0, <1>3, <1>s, <2>2 DEF Settle
  <2>3. CASE ~held
    BY <1>3, <1>s, <2>3 DEF Settle
  <2> QED
    BY <2>1, <2>2, <2>3
<1>4. CASE TickRecover
  <2>1. \/ job'[j] = job[j]
        \/ job[j].state = "attempting" /\ job'[j] = RecoveredRow(job[j])
    BY <1>4 DEF TickRecover, RecoverExpiredLeases
  <2>2. RecoveredRow(job[j]).state = "unknown" /\ RecoveredRow(job[j]).attempts = job[j].attempts
    BY <1>0 DEF RecoveredRow, Row
  <2>3. attempt' = attempt
    BY <1>4 DEF TickRecover
  <2> QED
    BY <1>s, <2>1, <2>2, <2>3 DEF LastAgrees
<1>5. CASE TickMarkMissed
  <2>1. /\ attempt' = attempt
        /\ \/ job'[j] = job[j]
           \/ /\ job[j].state \in Claimable
              /\ job'[j].state = "unknown" /\ job'[j].attempts = job[j].attempts
    BY <1>0, <1>5 DEF TickMarkMissed, MarkMissed, Row
  <2> QED
    BY <1>0, <1>c, <1>s, <2>1 DEF LastAgrees, Claimable
<1>6. CASE UNCHANGED <<job, attempt>>
  BY <1>6, <1>s
<1>7. ASSUME NEW k \in Jobs, Acknowledge(k) PROVE LastAgrees(j)'
  <2>1. job' = job
    BY <1>7 DEF Acknowledge
  <2>2. PICK n \in 1..MaxAttempts, s \in {"acknowledged", "failed"} :
          /\ attempt[k][n] \in {"submitted", "acknowledged"}
          /\ attempt' = [attempt EXCEPT ![k][n] = s]
    BY <1>7 DEF Acknowledge
  <2>3. CASE k = j /\ n = job[j].attempts
    <3>1. attempt[j][job[j].attempts] \in {"submitted", "acknowledged"}
      BY <2>2, <2>3
    <3>2. /\ attempt'[j][job[j].attempts] \in {"acknowledged", "failed"}
      BY <1>0, <2>2, <2>3
    <3>3. job[j].state # "acknowledged"
      BY <1>0 DEF Row, JobStates, Claimable, Terminal, Deletable
    <3> QED
      BY <2>1, <3>1, <3>2, <3>3 DEF LastAgrees
  <2>4. CASE ~(k = j /\ n = job[j].attempts)
    <3>1. job[j].attempts > 0 => attempt'[j][job[j].attempts] = attempt[j][job[j].attempts]
      BY <1>0, <2>2, <2>4
    <3> QED
      BY <2>1, <3>1 DEF LastAgrees
  <2> QED
    BY <2>3, <2>4
<1> QED
  BY <1>1, <1>2, <1>3, <1>4, <1>5, <1>6, <1>7 DEF Next, TickerStep, Dispatch, vars, Workers,
     ImmediateClaim, ImmediateNothing, TickerClaim, TickEnd, GateAllows, GateDenies,
     TransportAccepted, TransportRefused, Acknowledge, Throw, Crash, PassTime

(* The last row of dispatch_attempts tells the job's story: it lags only   *)
(* behind a recovered lease, or a retry that was cancelled or missed, and  *)
(* runs ahead only of a submitted job on which an ack has reported.        *)
THEOREM LastAttemptAgrees == Spec => []AttemptAgreesWithJob
<1>1. Init => AttemptAgreesWithJob
  BY DEF Init, AttemptAgreesWithJob, NewRow
<1>2. IInv /\ AttemptAgreesWithJob /\ [Next]_vars => AttemptAgreesWithJob'
  <2> SUFFICES ASSUME IInv, [Next]_vars, AttemptAgreesWithJob, NEW j \in Jobs
               PROVE  LastAgrees(j)'
    BY DEF AttemptAgreesWithJob, LastAgrees
  <2>1. LastAgrees(j)
    BY DEF AttemptAgreesWithJob, LastAgrees
  <2> QED
    BY <2>1, StepKeepsLastAgreeing
<1> QED
  BY SpecImpliesIInv, <1>1, <1>2, PTL DEF Spec

-----------------------------------------------------------------------------
(* Delivery. *)

(* Steps that move no job to another phase, start or end no dispatch and   *)
(* send nothing are invisible to Delivery.                                 *)
LEMMA Invisible ==
  ASSUME \A j \in Jobs : Phase(j)' = Phase(j),
         \A w \in Workers : InFlight(w)' = InFlight(w),
         \A w \in Workers : InFlight(w) => run'[w].job = run[w].job,
         UNCHANGED accepted
  PROVE  UNCHANGED Promise!dvars
<1>1. [j \in Jobs |-> Phase(j)]' = [j \in Jobs |-> Phase(j)]
  OBVIOUS
<1>2. Flying' = Flying
  BY DEF Flying
<1> QED
  BY <1>1, <1>2 DEF Promise!dvars

LEMMA InsertRefines ==
  ASSUME IInv, NEW j \in Jobs, NEW t, InsertRow(j, t), UNCHANGED accepted,
         \/ UNCHANGED run
         \/ run[j].pc = "idle" /\ run' = [run EXCEPT ![j] = NewRun("called")]
  PROVE  Promise!Accept(j)
<1>1. Phase(j) = "unborn" /\ Phase(j)' = "pending"
  BY DEF InsertRow, Phase, NewRow, Claimable, IInv, TypeOK
<1>2. \A k \in Jobs : k # j => Phase(k)' = Phase(k)
  BY DEF InsertRow, Phase, IInv, TypeOK
<1>3. [k \in Jobs |-> Phase(k)]' = [[k \in Jobs |-> Phase(k)] EXCEPT ![j] = "pending"]
  BY <1>1, <1>2
<1>4. \A w \in Workers : InFlight(w)' = InFlight(w) /\ (InFlight(w) => run'[w].job = run[w].job)
  BY DEF InFlight, NewRun, IInv, TypeOK, Workers
<1>5. Flying' = Flying
  BY <1>4 DEF Flying
<1> QED
  BY <1>1, <1>3, <1>5 DEF Promise!Accept

LEMMA ClaimRefines ==
  ASSUME IInv, NEW w \in Workers, NEW j \in Jobs, ClaimDue(w, j),
         run[w].pc \in {"idle", "called"}, UNCHANGED accepted
  PROVE  Promise!Start(j)
<1>1. job[j] \in Row /\ job[j].state \in Claimable
  BY DEF ClaimDue, EarliestDue, Due, IInv, TypeOK
<1>2. job'[j].state = "attempting" /\ \A k \in Jobs : k # j => job'[k] = job[k]
  <2>1. job' = [job EXCEPT ![j] = ClaimedRow(job[j], w)]
    BY DEF ClaimDue
  <2>2. ClaimedRow(job[j], w).state = "attempting"
    BY <1>1 DEF ClaimedRow, Row
  <2> QED
    BY <2>1, <2>2 DEF IInv, TypeOK
<1>3. Phase(j) = "pending" /\ Phase(j)' = "trying"
  BY <1>1, <1>2 DEF Phase, Claimable
<1>4. [k \in Jobs |-> Phase(k)]' = [[k \in Jobs |-> Phase(k)] EXCEPT ![j] = "trying"]
  <2>1. \A k \in Jobs : k # j => Phase(k)' = Phase(k)
    BY <1>2 DEF Phase
  <2> QED
    BY <1>3, <2>1
<1>5. \A v \in Workers : InFlight(v) => run[v].job # j
  BY <1>1 DEF IInv, DispatchesSound, HoldsOrLost, Claimable
<1>6. run'[w].pc = "gate" /\ run'[w].job = j /\ \A v \in Workers : v # w => run'[v] = run[v]
  BY DEF ClaimDue, IInv, TypeOK
<1>7. j \notin Flying
  BY <1>5 DEF Flying
<1>8. Flying' = Flying \cup {j}
  BY <1>6 DEF Flying, InFlight
<1> QED
  BY <1>3, <1>4, <1>7, <1>8 DEF Promise!Start

LEMMA SendRefines ==
  ASSUME IInv, NEW w \in Workers, TransportAccepted(w)
  PROVE  Promise!Send(run[w].job)
<1>1. InFlight(w) /\ run[w].pc = "send"
  BY DEF InFlight, TransportAccepted
<1>2. run[w].job \in Flying /\ accepted[run[w].job] = 0
  BY <1>1 DEF Flying, IInv, DispatchesSound, SentAsReported
<1>3. accepted' = [accepted EXCEPT ![run[w].job] = 1]
  BY <1>2 DEF TransportAccepted
<1>4. PICK r : Advance(w, "settle", r)
  BY DEF TransportAccepted
<1>5. \A v \in Workers : InFlight(v)' = InFlight(v) /\ run'[v].job = run[v].job
  BY <1>1, <1>4 DEF Advance, InFlight, IInv, TypeOK, Run
<1>6. Flying' = Flying
  BY <1>5 DEF Flying
<1>7. UNCHANGED job
  BY DEF TransportAccepted
<1>8. [k \in Jobs |-> Phase(k)]' = [k \in Jobs |-> Phase(k)]
  BY <1>7 DEF Phase
<1> QED
  BY <1>2, <1>3, <1>6, <1>8 DEF Promise!Send

LEMMA SettleRefines ==
  ASSUME IInv, NEW w \in Workers, Settle(w), NEW j, j = run[w].job
  PROVE  Promise!Land(j)
<1>1. run[w].pc = "settle" /\ InFlight(w)
  BY DEF Settle, InFlight
<1>2. j \in Jobs /\ HoldsOrLost(w)
  BY <1>1 DEF IInv, DispatchesSound
<1>3. j \in Flying
  BY <1>1 DEF Flying
<1>4. run'[w].pc = "idle" /\ \A v \in Workers : v # w => run'[v] = run[v]
  BY NoRunTyped DEF Settle, IInv, TypeOK
<1>5. \A v \in Workers : InFlight(v) /\ v # w => run[v].job # j
  BY <1>1 DEF IInv, OneDispatchPerJob
<1>6. Flying' = Flying \ {j}
  BY <1>1, <1>4, <1>5 DEF Flying, InFlight
<1>7. UNCHANGED accepted
  BY DEF Settle
<1>8. CASE job[j].state = "attempting" /\ job[j].leaseOwner = w
  <2>1. job[j] \in Row
    BY <1>2 DEF IInv, TypeOK
  <2>2. job' = [job EXCEPT ![j] = SettledRow(w, job[j])]
    BY <1>8 DEF Settle
  <2>3. /\ SettledRow(w, job[j]).state = SettledState(w)
        /\ SettledState(w) \in {"queued", "failed", "submitted", "unknown"}
        /\ SettledState(w) = "queued" => accepted[j] = 0
    BY <1>1, <2>1, SettledRowInRow
  <2>4. job'[j].state = SettledState(w) /\ \A k \in Jobs : k # j => job'[k] = job[k]
    BY <1>2, <2>2, <2>3 DEF IInv, TypeOK
  <2>5. Phase(j) = "trying"
    BY <1>8 DEF Phase, Claimable
  <2>6. CASE SettledState(w) = "queued"
    <3>1. Phase(j)' = "pending" /\ accepted[j] = 0
      BY <2>3, <2>4, <2>6 DEF Phase, Claimable
    <3>2. [k \in Jobs |-> Phase(k)]' = [[k \in Jobs |-> Phase(k)] EXCEPT ![j] = "pending"]
      <4>1. \A k \in Jobs : k # j => Phase(k)' = Phase(k)
        BY <2>4 DEF Phase
      <4> QED
        BY <1>2, <3>1, <4>1
    <3> QED
      BY <1>2, <1>3, <1>6, <1>7, <2>5, <3>1, <3>2 DEF Promise!Land
  <2>7. CASE SettledState(w) # "queued"
    <3>1. Phase(j)' = "closed"
      BY <2>3, <2>4, <2>7 DEF Phase, Claimable
    <3>2. [k \in Jobs |-> Phase(k)]' = [[k \in Jobs |-> Phase(k)] EXCEPT ![j] = "closed"]
      <4>1. \A k \in Jobs : k # j => Phase(k)' = Phase(k)
        BY <2>4 DEF Phase
      <4> QED
        BY <1>2, <3>1, <4>1
    <3> QED
      BY <1>2, <1>3, <1>6, <1>7, <2>5, <3>2 DEF Promise!Land
  <2> QED
    BY <2>6, <2>7
<1>9. CASE ~(job[j].state = "attempting" /\ job[j].leaseOwner = w)
  <2>1. UNCHANGED job
    BY <1>9 DEF Settle
  <2>2. Phase(j) = "closed"
    BY <1>2, <1>9 DEF HoldsOrLost, Phase, Claimable
  <2>3. [k \in Jobs |-> Phase(k)]' = [k \in Jobs |-> Phase(k)]
    BY <2>1 DEF Phase
  <2> QED
    BY <1>2, <1>3, <1>6, <1>7, <2>2, <2>3 DEF Promise!Land
<1> QED
  BY <1>8, <1>9
LEMMA CloseRefines ==
  ASSUME NEW from \in {"pending", "trying"},
         \A j \in Jobs : \/ Phase(j)' = Phase(j)
                         \/ Phase(j) = from /\ Phase(j)' = "closed",
         UNCHANGED <<run, accepted>>
  PROVE  Promise!Close(from)
<1> DEFINE S == {j \in Jobs : Phase(j) = from /\ Phase(j)' = "closed"}
<1>1. [j \in Jobs |-> Phase(j)]' = [j \in Jobs |-> IF j \in S THEN "closed" ELSE Phase(j)]
  OBVIOUS
<1>2. S \in SUBSET {j \in Jobs : Phase(j) = from}
  OBVIOUS
<1>3. Flying' = Flying
  BY DEF Flying, InFlight
<1> HIDE DEF S
<1> QED
  BY <1>1, <1>2, <1>3 DEF Promise!Close

LEMMA LoseRefines ==
  ASSUME UNCHANGED <<job, accepted>>,
         \A w \in Workers : run'[w] = run[w] \/ run'[w].pc = "idle"
  PROVE  Promise!Lose
<1>1. [j \in Jobs |-> Phase(j)]' = [j \in Jobs |-> Phase(j)]
  BY DEF Phase
<1>2. Flying' \in SUBSET Flying
  BY DEF Flying, InFlight
<1> QED
  BY <1>1, <1>2 DEF Promise!Lose

LEMMA AdvanceInvisible ==
  ASSUME IInv, NEW w \in Workers, run[w].pc \in {"gate", "send"},
         NEW pc \in {"send", "settle"}, NEW result, Advance(w, pc, result),
         UNCHANGED <<job, accepted>>
  PROVE  UNCHANGED Promise!dvars
<1>1. \A v \in Workers : InFlight(v)' = InFlight(v) /\ run'[v].job = run[v].job
  BY DEF Advance, InFlight, IInv, TypeOK, Run
<1>2. \A j \in Jobs : Phase(j)' = Phase(j)
  BY DEF Phase
<1> QED
  BY <1>1, <1>2, Invisible

LEMMA NextRefines == IInv /\ [Next]_vars => [Promise!Next]_(Promise!dvars)
<1> SUFFICES ASSUME IInv, [Next]_vars
             PROVE  Promise!Next \/ UNCHANGED Promise!dvars
  OBVIOUS
<1>1. ASSUME NEW j \in Jobs, Request(j) PROVE Promise!Next \/ UNCHANGED Promise!dvars
  <2>1. CASE Schedule(j) \/ SendNow(j)
    <3>1. PICK t : InsertRow(j, t)
      BY <2>1 DEF Schedule, SendNow
    <3> QED
      BY <2>1, <3>1, InsertRefines DEF Schedule, SendNow, Promise!Next
  <2>2. CASE Edit(j)
    <3>1. \A k \in Jobs : job'[k].state = job[k].state
      BY <2>2 DEF Edit, IInv, TypeOK, Row
    <3>2. \A k \in Jobs : Phase(k)' = Phase(k)
      BY <3>1 DEF Phase
    <3> QED
      BY <2>2, <3>2, Invisible DEF Edit, InFlight
  <2>3. CASE Cancel(j)
    <3>1. /\ job[j].state \in Claimable /\ job'[j].state = "cancelled"
          /\ \A k \in Jobs : k # j => job'[k] = job[k]
      BY <2>3 DEF Cancel, Unclaimed, IInv, TypeOK, Row
    <3>2. \A k \in Jobs : \/ Phase(k)' = Phase(k)
                          \/ Phase(k) = "pending" /\ Phase(k)' = "closed"
      BY <3>1 DEF Phase, Claimable
    <3>3. Promise!Close("pending")
      BY <2>3, <3>2, CloseRefines DEF Cancel
    <3> QED
      BY <3>3 DEF Promise!Next
  <2>4. CASE DeleteCheck(j)
    <3>1. \A k \in Jobs : Phase(k)' = Phase(k)
      BY <2>4 DEF Phase, DeleteCheck
    <3> QED
      BY <2>4, <3>1, Invisible DEF DeleteCheck, InFlight
  <2>5. CASE DeleteRemove(j)
    <3>1. job[j].state \in Terminal \cup {"deleted"}
      BY <2>5 DEF DeleteRemove, IInv, DeletingSettled
    <3>2. /\ job'[j].state = "deleted"
          /\ \A k \in Jobs : k # j => job'[k].state = job[k].state
      BY <2>5, <3>1 DEF DeleteRemove, IInv, TypeOK, Row, Terminal, Deletable
    <3>3. \A k \in Jobs : Phase(k)' = Phase(k)
      BY <3>1, <3>2 DEF Phase, Terminal, Deletable, Claimable
    <3> QED
      BY <2>5, <3>3, Invisible DEF DeleteRemove, InFlight
  <2> QED
    BY <1>1, <2>1, <2>2, <2>3, <2>4, <2>5 DEF Request
<1>2. ASSUME NEW w \in Workers, NEW j \in Jobs, ClaimDue(w, j),
             run[w].pc \in {"idle", "called"}, UNCHANGED accepted
      PROVE  Promise!Next
  BY <1>2, ClaimRefines DEF Promise!Next
<1>3. ASSUME NEW w \in Jobs, ImmediateClaim(w) \/ ImmediateNothing(w)
      PROVE  Promise!Next \/ UNCHANGED Promise!dvars
  <2>1. w \in Workers
    BY DEF Workers
  <2>2. CASE ImmediateClaim(w)
    BY <1>2, <2>1, <2>2 DEF ImmediateClaim
  <2>3. CASE ImmediateNothing(w)
    <3>1. \A v \in Workers : run'[v] = run[v] \/ run'[v].pc = "idle"
      BY <2>1, <2>3, NoRunTyped DEF ImmediateNothing, IInv, TypeOK
    <3> QED
      BY <2>3, <3>1, LoseRefines DEF ImmediateNothing, Promise!Next
  <2> QED
    BY <1>3, <2>2, <2>3
<1>4. ASSUME NEW w \in Workers, Dispatch(w)
      PROVE  Promise!Next \/ UNCHANGED Promise!dvars
  <2>1. CASE GateAllows(w) \/ GateDenies(w)
    BY <2>1, AdvanceInvisible DEF GateAllows, GateDenies
  <2>2. CASE TransportRefused(w)
    <3>1. PICK r : Advance(w, "settle", r)
      BY <2>2 DEF TransportRefused
    <3> QED
      BY <2>2, <3>1, AdvanceInvisible DEF TransportRefused
  <2>3. CASE TransportAccepted(w)
    <3>1. run[w].job \in Jobs
      BY <2>3 DEF TransportAccepted, InFlight, IInv, DispatchesSound
    <3> QED
      BY <2>3, <3>1, SendRefines DEF Promise!Next
  <2>4. CASE Settle(w)
    <3>1. run[w].job \in Jobs
      BY <2>4 DEF Settle, InFlight, IInv, DispatchesSound
    <3> QED
      BY <2>4, <3>1, SettleRefines DEF Promise!Next
  <2> QED
    BY <1>4, <2>1, <2>2, <2>3, <2>4 DEF Dispatch
<1>5. ASSUME TickerStep PROVE Promise!Next \/ UNCHANGED Promise!dvars
  <2>1. CASE TickRecover
    <3>1. \A j \in Jobs : \/ job'[j] = job[j]
                          \/ job[j].state = "attempting" /\ job'[j].state = "unknown"
      <4> SUFFICES ASSUME NEW j \in Jobs
                   PROVE  \/ job'[j] = job[j]
                          \/ job[j].state = "attempting" /\ job'[j].state = "unknown"
        OBVIOUS
      <4>1. job[j] \in Row /\ RecoveredRow(job[j]).state = "unknown"
        BY DEF RecoveredRow, Row, IInv, TypeOK
      <4> QED
        BY <2>1, <4>1 DEF TickRecover, RecoverExpiredLeases
    <3>2. \A j \in Jobs : \/ Phase(j)' = Phase(j)
                          \/ Phase(j) = "trying" /\ Phase(j)' = "closed"
      BY <3>1 DEF Phase, Claimable
    <3> QED
      BY <2>1, <3>2, CloseRefines DEF TickRecover, Promise!Next
  <2>2. CASE TickMarkMissed
    <3>1. \A j \in Jobs : \/ job'[j] = job[j]
                          \/ job[j].state \in Claimable /\ job'[j].state = "unknown"
      <4> SUFFICES ASSUME NEW j \in Jobs
                   PROVE  \/ job'[j] = job[j]
                          \/ job[j].state \in Claimable /\ job'[j].state = "unknown"
        OBVIOUS
      <4>1. job[j] \in Row
        BY DEF IInv, TypeOK
      <4> QED
        BY <2>2, <4>1 DEF TickMarkMissed, MarkMissed, Row
    <3>2. \A j \in Jobs : \/ Phase(j)' = Phase(j)
                          \/ Phase(j) = "pending" /\ Phase(j)' = "closed"
      BY <3>1 DEF Phase, Claimable
    <3> QED
      BY <2>2, <3>2, CloseRefines DEF TickMarkMissed, Promise!Next
  <2>3. CASE TickerClaim
    <3>1. Ticker \in Workers
      BY DEF Workers
    <3> QED
      BY <1>2, <2>3, <3>1 DEF TickerClaim
  <2>4. CASE TickEnd
    BY <2>4, Invisible DEF TickEnd, Phase, InFlight
  <2> QED
    BY <1>5, <2>1, <2>2, <2>3, <2>4 DEF TickerStep
<1>6. ASSUME NEW w \in Workers, Throw(w) PROVE Promise!Next
  <2>1. \A v \in Workers : run'[v] = run[v] \/ run'[v].pc = "idle"
    BY <1>6, NoRunTyped DEF Throw, IInv, TypeOK
  <2> QED
    BY <1>6, <2>1, LoseRefines DEF Throw, Promise!Next
<1>7. CASE Crash
  <2>1. \A v \in Workers : run'[v] = run[v] \/ run'[v].pc = "idle"
    BY <1>7, NoRunTyped DEF Crash
  <2> QED
    BY <1>7, <2>1, LoseRefines DEF Crash, Promise!Next
<1>8. CASE PassTime \/ (\E j \in Jobs : Acknowledge(j)) \/ UNCHANGED vars
  BY <1>8, Invisible DEF PassTime, Acknowledge, vars, Phase, InFlight
<1> QED
  BY <1>1, <1>3, <1>4, <1>5, <1>6, <1>7, <1>8 DEF Next

LEMMA InitRefines == Init => Promise!Init
<1> SUFFICES ASSUME Init PROVE Promise!Init
  OBVIOUS
<1>1. \A j \in Jobs : Phase(j) = "unborn"
  BY DEF Init, Phase, NewRow, Claimable
<1>2. Flying = {}
  BY DEF Flying, InFlight, Init, NoRun, NewRun
<1> QED
  BY <1>1, <1>2 DEF Init, Promise!Init

(* The scheduler, with its leases, ticks, recoveries, faults and clock,    *)
(* does nothing that Delivery does not allow.                              *)
THEOREM SchedulerImplementsDelivery == Spec => ImplementsDelivery
<1>1. Init => Promise!Init
  BY InitRefines
<1>2. IInv /\ [Next]_vars => [Promise!Next]_(Promise!dvars)
  BY NextRefines
<1> QED
  BY SpecImpliesIInv, <1>1, <1>2, PTL DEF Spec, ImplementsDelivery, Promise!Spec
=============================================================================
