------------------------------ MODULE Scheduler ------------------------------
(***************************************************************************)
(* The durable one-time scheduler of RelayNest: the rows of                *)
(* scheduled_jobs and dispatch_attempts, and every caller that moves them. *)
(*                                                                         *)
(* A dispatch (runOnce) is asynchronous: it claims a job in one database   *)
(* transaction, then awaits the safety gate, the WAHA call, an audit       *)
(* insert and the settling transaction.  Each await is a step here, so     *)
(* the ticker, the immediate senders, the HTTP handlers, the clock and a   *)
(* crash of the process interleave between any two of them.                *)
(***************************************************************************)
EXTENDS Integers, FiniteSets

CONSTANTS
  Jobs,               \* ids of scheduled_jobs rows
  Ticker,             \* lease owner "scheduler-ticker-<pid>"
  None,               \* SQL NULL
  MaxTime,            \* bound of the clock
  LeaseTime,          \* DEFAULT_LEASE_MS
  MissedGrace,        \* DEFAULT_MISSED_GRACE_MS
  MaxAttempts,        \* DEFAULT_MAX_ATTEMPTS
  Backoff,            \* delay before the next attempt, by attempts made
  MaxJobsPerTick,     \* DEFAULT_MAX_JOBS_PER_TICK
  MaxFaults,          \* bound on exceptions and crashes
  RetryableFailures   \* TRUE: the transport may report retryable failures

ASSUME JobsAssumption ==
  /\ Ticker \notin Jobs
  /\ None \notin Jobs \cup {Ticker} \cup Nat
ASSUME TimeAssumption ==
  /\ MaxTime \in Nat
  /\ LeaseTime \in Nat \ {0}
  /\ MissedGrace \in Nat
ASSUME BoundAssumption ==
  /\ MaxAttempts \in Nat \ {0}
  /\ Backoff \in [1..MaxAttempts -> Nat]
  /\ MaxJobsPerTick \in Nat \ {0}
  /\ MaxFaults \in Nat
  /\ RetryableFailures \in BOOLEAN

VARIABLES
  now,        \* the clock every caller reads with new Date()
  job,        \* the scheduled_jobs rows
  attempt,    \* the dispatch_attempts rows, by job and attempt number
  run,        \* the dispatch each lease owner has in flight
  tick,       \* the ticker's progress through one tick()
  deleting,   \* jobs a DELETE handler has read and found deletable
  accepted,   \* history: how many messages the provider took for each job
  faults      \* history: exceptions and crashes so far

vars == <<now, job, attempt, run, tick, deleting, accepted, faults>>

(* An immediate send dispatches with the owner "messaging-<its own job>",  *)
(* so a job id also names the sender that created it.                      *)
Workers == Jobs \cup {Ticker}

Claimable == {"scheduled", "queued"}
Deletable == {"submitted", "failed", "unknown", "cancelled"}
Terminal  == Deletable
JobStates == {"unborn", "attempting", "deleted"} \cup Claimable \cup Terminal

AttemptStates ==
  {"none", "attempting", "queued", "submitted", "acknowledged", "failed", "unknown"}

(* What the awaited gate or transport tells settleResult.                  *)
Results == {"submitted", "unknown", "failed", "retryable"}

(* "dispatch" stands for every code a gate or a transport reports.         *)
RecoveryCodes == {"none", "dispatch", "lease_expired", "missed_schedule"}

Row == [state: JobStates, attempts: 0..MaxAttempts, scheduledFor: Nat,
        nextAttemptAt: Nat \cup {None}, leaseOwner: Workers \cup {None},
        leaseExpiresAt: Nat \cup {None}, recoveryCode: RecoveryCodes]

Run == [pc: {"idle", "called", "gate", "send", "settle"},
        job: Jobs \cup {None}, attempt: 0..MaxAttempts, at: Nat,
        result: Results \cup {"none"}]

NewRow(state, t) ==
  [state |-> state, attempts |-> 0, scheduledFor |-> t, nextAttemptAt |-> t,
   leaseOwner |-> None, leaseExpiresAt |-> None, recoveryCode |-> "none"]

NewRun(pc) == [pc |-> pc, job |-> None, attempt |-> 0, at |-> 0, result |-> "none"]

NoRun == NewRun("idle")

IdleTick == [phase |-> "idle", at |-> 0, count |-> 0]

TypeOK ==
  /\ now \in 0..MaxTime
  /\ job \in [Jobs -> Row]
  /\ attempt \in [Jobs -> [1..MaxAttempts -> AttemptStates]]
  /\ run \in [Workers -> Run]
  /\ tick \in [phase: {"idle", "missed", "loop"}, at: Nat, count: 0..MaxJobsPerTick]
  /\ deleting \subseteq Jobs
  /\ accepted \in [Jobs -> Nat]
  /\ faults \in 0..MaxFaults

Init ==
  /\ now = 0
  /\ job = [j \in Jobs |-> NewRow("unborn", 0)]
  /\ attempt = [j \in Jobs |-> [n \in 1..MaxAttempts |-> "none"]]
  /\ run = [w \in Workers |-> NoRun]
  /\ tick = IdleTick
  /\ deleting = {}
  /\ accepted = [j \in Jobs |-> 0]
  /\ faults = 0

------------------------------------------------------------------------------
(* Creating, editing, cancelling and deleting schedules.                   *)

(* scheduleText: the row of a schedule; nextAttemptAt starts equal to      *)
(* scheduledFor, and nothing refuses a time already past.                  *)
InsertRow(j, t) ==
  /\ job[j].state = "unborn"
  /\ job' = [job EXCEPT ![j] = NewRow("scheduled", t)]

Schedule(j) ==
  /\ \E t \in 0..MaxTime : InsertRow(j, t)
  /\ UNCHANGED <<now, attempt, run, tick, deleting, accepted, faults>>

(* sendImmediate: insert a job due now and go on to dispatch it.           *)
SendNow(j) ==
  /\ run[j].pc = "idle"
  /\ InsertRow(j, now)
  /\ run' = [run EXCEPT ![j] = NewRun("called")]
  /\ UNCHANGED <<now, attempt, tick, deleting, accepted, faults>>

Unclaimed(j) == job[j].state \in Claimable /\ job[j].leaseOwner = None

(* The HTTP edit hands the validated body, a time and a timezone, to the   *)
(* raw repository, so nextAttemptAt keeps its old value.                   *)
Edit(j) ==
  /\ Unclaimed(j)
  /\ \E t \in 0..MaxTime : job' = [job EXCEPT ![j].scheduledFor = t]
  /\ UNCHANGED <<now, attempt, run, tick, deleting, accepted, faults>>

Cancel(j) ==
  /\ Unclaimed(j)
  /\ job' = [job EXCEPT ![j] = [@ EXCEPT !.state = "cancelled", !.nextAttemptAt = None]]
  /\ UNCHANGED <<now, attempt, run, tick, deleting, accepted, faults>>

(* Mutant: DELETE asks only whether somebody holds the lease.              *)
MutDeleteCheck(j) ==
  /\ job[j].state \notin {"unborn", "deleted"}
  /\ job[j].leaseOwner = None
  /\ deleting' = deleting \cup {j}
  /\ UNCHANGED <<now, job, attempt, run, tick, accepted, faults>>

(* DELETE reads the row and decides, then removes whatever is there.       *)
DeleteCheck(j) ==
  /\ job[j].state \in Deletable
  /\ job[j].leaseOwner = None
  /\ deleting' = deleting \cup {j}
  /\ UNCHANGED <<now, job, attempt, run, tick, accepted, faults>>

(* The row is gone for the program: the model keeps its other columns only *)
(* to remember that the job once existed.                                  *)
DeleteRemove(j) ==
  /\ j \in deleting
  /\ deleting' = deleting \ {j}
  /\ IF job[j].state \in {"unborn", "deleted"}
     THEN UNCHANGED <<job, attempt>>
     ELSE /\ job' = [job EXCEPT ![j].state = "deleted"]
          /\ attempt' = [attempt EXCEPT ![j] = [n \in 1..MaxAttempts |-> "none"]]
  /\ UNCHANGED <<now, run, tick, accepted, faults>>

------------------------------------------------------------------------------
(* Recovery: the first two statements of every tick.                       *)

RecoveredRow(r) ==
  [r EXCEPT !.state = "unknown", !.leaseOwner = None, !.leaseExpiresAt = None,
            !.nextAttemptAt = None, !.recoveryCode = "lease_expired"]

(* Mutant: recovery queues the job again.                                  *)
MutRecoverRequeues(t) ==
  job' = [j \in Jobs |->
            IF job[j].state = "attempting" /\ job[j].leaseExpiresAt <= t
            THEN [RecoveredRow(job[j]) EXCEPT !.state = "queued", !.nextAttemptAt = t]
            ELSE job[j]]

(* recoverExpiredLeases leaves the dispatch_attempts row untouched.        *)
RecoverExpiredLeases(t) ==
  job' = [j \in Jobs |->
            IF job[j].state = "attempting" /\ job[j].leaseExpiresAt <= t
            THEN RecoveredRow(job[j]) ELSE job[j]]

(* Mutant: no job is ever marked missed.                                   *)
MutMarkMissed(t) == job' = job

MarkMissed(t) ==
  job' = [j \in Jobs |->
            IF /\ job[j].state \in Claimable
               /\ job[j].scheduledFor <= t - MissedGrace
               /\ job[j].leaseOwner = None
            THEN [job[j] EXCEPT !.state = "unknown", !.nextAttemptAt = None,
                                !.recoveryCode = "missed_schedule"]
            ELSE job[j]]

(* tick() returns at once while an earlier tick is running; otherwise it   *)
(* reads the clock once for both recovery statements.                      *)
TickRecover ==
  /\ tick.phase = "idle"
  /\ RecoverExpiredLeases(now)
  /\ tick' = [phase |-> "missed", at |-> now, count |-> 0]
  /\ UNCHANGED <<now, attempt, run, deleting, accepted, faults>>

TickMarkMissed ==
  /\ tick.phase = "missed"
  /\ MarkMissed(tick.at)
  /\ tick' = [tick EXCEPT !.phase = "loop", !.at = 0]
  /\ UNCHANGED <<now, attempt, run, deleting, accepted, faults>>

------------------------------------------------------------------------------
(* runOnce, step by step.                                                  *)

Due(j) ==
  /\ job[j].state \in Claimable
  /\ job[j].scheduledFor <= now
  /\ job[j].nextAttemptAt # None => job[j].nextAttemptAt <= now
  /\ job[j].leaseExpiresAt # None => job[j].leaseExpiresAt <= now

(* ORDER BY scheduled_for LIMIT 1                                          *)
EarliestDue(j) ==
  /\ Due(j)
  /\ \A k \in Jobs : Due(k) => job[j].scheduledFor <= job[k].scheduledFor

NothingDue == \A j \in Jobs : ~Due(j)

ClaimedRow(r, w) ==
  [r EXCEPT !.state = "attempting", !.attempts = r.attempts + 1,
            !.leaseOwner = w, !.leaseExpiresAt = now + LeaseTime]

(* claimDue: one transaction takes the lease, counts the attempt and       *)
(* inserts its dispatch_attempts row.                                      *)
ClaimDue(w, j) ==
  /\ EarliestDue(j)
  /\ job' = [job EXCEPT ![j] = ClaimedRow(@, w)]
  /\ attempt' = [attempt EXCEPT ![j][job[j].attempts + 1] = "attempting"]
  /\ run' = [run EXCEPT ![w] = [pc |-> "gate", job |-> j, attempt |-> job[j].attempts + 1,
                                at |-> now, result |-> "none"]]

TickerClaim ==
  /\ tick.phase = "loop"
  /\ run[Ticker].pc = "idle"
  /\ tick.count < MaxJobsPerTick
  /\ \E j \in Jobs : ClaimDue(Ticker, j)
  /\ UNCHANGED <<now, tick, deleting, accepted, faults>>

(* Mutant: the running flag is never reset.                                *)
MutTickEnd ==
  /\ tick.phase = "loop"
  /\ run[Ticker].pc = "idle"
  /\ NothingDue \/ tick.count = MaxJobsPerTick
  /\ UNCHANGED vars

(* The loop ends when a claim finds nothing or the tick's quota is used.   *)
TickEnd ==
  /\ tick.phase = "loop"
  /\ run[Ticker].pc = "idle"
  /\ NothingDue \/ tick.count = MaxJobsPerTick
  /\ tick' = IdleTick
  /\ UNCHANGED <<now, job, attempt, run, deleting, accepted, faults>>

(* dispatch(jobId) of an immediate send claims whatever is due first.      *)
ImmediateClaim(w) ==
  /\ run[w].pc = "called"
  /\ \E j \in Jobs : ClaimDue(w, j)
  /\ UNCHANGED <<now, tick, deleting, accepted, faults>>

ImmediateNothing(w) ==
  /\ run[w].pc = "called"
  /\ NothingDue
  /\ run' = [run EXCEPT ![w] = NoRun]
  /\ UNCHANGED <<now, job, attempt, tick, deleting, accepted, faults>>

Advance(w, pc, result) ==
  run' = [run EXCEPT ![w] = [@ EXCEPT !.pc = pc, !.result = result]]

(* The gate allows the send, or a refusal is settled as a failure without  *)
(* calling the transport.                                                  *)
GateAllows(w) ==
  /\ run[w].pc = "gate"
  /\ Advance(w, "send", "none")
  /\ UNCHANGED <<now, job, attempt, tick, deleting, accepted, faults>>

GateDenies(w) ==
  /\ run[w].pc = "gate"
  /\ Advance(w, "settle", "failed")
  /\ UNCHANGED <<now, job, attempt, tick, deleting, accepted, faults>>

(* The provider takes the message; its answer arrives, or the request      *)
(* times out and the outcome is unknown, or the answer is malformed or an  *)
(* HTTP error, which the classifier reports as a failure.  The audit row   *)
(* the transport then appends is no state of this module: an audit insert  *)
(* that throws is Throw(w) with the message already sent.                  *)
TransportAccepted(w) ==
  /\ run[w].pc = "send"
  /\ accepted' = [accepted EXCEPT ![run[w].job] = @ + 1]
  /\ \E r \in {"submitted", "unknown", "failed"} : Advance(w, "settle", r)
  /\ UNCHANGED <<now, job, attempt, tick, deleting, faults>>

(* The message never reaches the provider: a refused contact, an HTTP      *)
(* error, or a network failure that the classifier cannot tell from a      *)
(* lost answer.                                                            *)
TransportRefused(w) ==
  /\ run[w].pc = "send"
  /\ \E r \in {"failed", "unknown"} \cup (IF RetryableFailures THEN {"retryable"} ELSE {}) :
        Advance(w, "settle", r)
  /\ UNCHANGED <<now, job, attempt, tick, deleting, accepted, faults>>

(* Mutants: one retry too many; a timeout taken for a success.             *)
MutSettledOneMore(w) ==
  IF run[w].result = "retryable"
  THEN IF run[w].attempt <= MaxAttempts THEN "queued" ELSE "failed"
  ELSE run[w].result

MutSettledTimeout(w) ==
  IF run[w].result = "retryable"
  THEN IF run[w].attempt < MaxAttempts THEN "queued" ELSE "failed"
  ELSE IF run[w].result = "unknown" THEN "submitted" ELSE run[w].result

(* The state settleResult writes, and when the job may be tried again.     *)
SettledState(w) ==
  IF run[w].result = "retryable"
  THEN IF run[w].attempt < MaxAttempts THEN "queued" ELSE "failed"
  ELSE run[w].result

SettledRow(w, r) ==
  [r EXCEPT !.state = SettledState(w), !.leaseOwner = None, !.leaseExpiresAt = None,
            !.nextAttemptAt =
              CASE SettledState(w) = "queued"    -> run[w].at + Backoff[run[w].attempt]
                [] SettledState(w) = "submitted" -> @
                [] OTHER                         -> None,
            !.recoveryCode = IF SettledState(w) = "submitted" THEN @ ELSE "dispatch"]

(* Mutants: no fence on the lease; the attempt's row is not updated.       *)
MutSettleUnfenced(w) ==
  LET j == run[w].job
  IN /\ run[w].pc = "settle"
     /\ job' = [job EXCEPT ![j] = SettledRow(w, @)]
     /\ attempt' = [attempt EXCEPT ![j][run[w].attempt] = SettledState(w)]
     /\ run' = [run EXCEPT ![w] = NoRun]
     /\ tick' = IF w # Ticker THEN tick ELSE [tick EXCEPT !.count = @ + 1]
     /\ UNCHANGED <<now, deleting, accepted, faults>>

MutSettleJobOnly(w) ==
  LET j == run[w].job
      held == job[j].state = "attempting" /\ job[j].leaseOwner = w
  IN /\ run[w].pc = "settle"
     /\ job' = IF held THEN [job EXCEPT ![j] = SettledRow(w, @)] ELSE job
     /\ run' = [run EXCEPT ![w] = NoRun]
     /\ tick' = IF w # Ticker THEN tick
                ELSE IF held THEN [tick EXCEPT !.count = @ + 1] ELSE IdleTick
     /\ UNCHANGED <<now, attempt, deleting, accepted, faults>>

(* complete and fail write only while the caller still holds the lease;    *)
(* otherwise they return null, which ends the ticker's tick.               *)
Settle(w) ==
  LET j == run[w].job
      held == job[j].state = "attempting" /\ job[j].leaseOwner = w
  IN /\ run[w].pc = "settle"
     /\ IF held
        THEN /\ job' = [job EXCEPT ![j] = SettledRow(w, @)]
             /\ attempt' = [attempt EXCEPT ![j][job[j].attempts] = SettledState(w)]
        ELSE UNCHANGED <<job, attempt>>
     /\ run' = [run EXCEPT ![w] = NoRun]
     /\ tick' = IF w # Ticker THEN tick
                ELSE IF held THEN [tick EXCEPT !.count = @ + 1] ELSE IdleTick
     /\ UNCHANGED <<now, deleting, accepted, faults>>

(* insertAndUpdateDispatchState: an ack of WAHA's webhook, however late,   *)
(* finds the attempt by the provider's message id, which only complete has *)
(* stored, and raises its state.  The job's own row is left as it is.      *)
Acknowledge(j) ==
  /\ \E n \in 1..MaxAttempts :
       \/ /\ attempt[j][n] = "submitted"
          /\ attempt' = [attempt EXCEPT ![j][n] = "acknowledged"]
       \/ /\ attempt[j][n] \in {"submitted", "acknowledged"}
          /\ attempt' = [attempt EXCEPT ![j][n] = "failed"]
  /\ UNCHANGED <<now, job, run, tick, deleting, accepted, faults>>

------------------------------------------------------------------------------
(* Faults and time.                                                        *)

(* A gate lookup, audit insert or database statement throws: the dispatch  *)
(* is abandoned with its lease still in the row, and a tick ends.          *)
Throw(w) ==
  /\ run[w].pc # "idle" \/ (w = Ticker /\ tick.phase # "idle")
  /\ faults < MaxFaults
  /\ faults' = faults + 1
  /\ run' = [run EXCEPT ![w] = NoRun]
  /\ tick' = IF w = Ticker THEN IdleTick ELSE tick
  /\ UNCHANGED <<now, job, attempt, deleting, accepted>>

(* The API process dies and starts again: only the rows survive.           *)
Crash ==
  /\ faults < MaxFaults
  /\ faults' = faults + 1
  /\ run' = [w \in Workers |-> NoRun]
  /\ tick' = IdleTick
  /\ deleting' = {}
  /\ UNCHANGED <<now, job, attempt, accepted>>

PassTime ==
  /\ now < MaxTime
  /\ now' = now + 1
  /\ UNCHANGED <<job, attempt, run, tick, deleting, accepted, faults>>

------------------------------------------------------------------------------
Request(j) ==
  \/ Schedule(j) \/ SendNow(j) \/ Edit(j) \/ Cancel(j)
  \/ DeleteCheck(j) \/ DeleteRemove(j)

Dispatch(w) ==
  \/ GateAllows(w) \/ GateDenies(w)
  \/ TransportAccepted(w) \/ TransportRefused(w)
  \/ Settle(w)

TickerStep == TickRecover \/ TickMarkMissed \/ TickerClaim \/ TickEnd

Next ==
  \/ \E j \in Jobs : Request(j) \/ ImmediateClaim(j) \/ ImmediateNothing(j) \/ Acknowledge(j)
  \/ \E w \in Workers : Dispatch(w) \/ Throw(w)
  \/ TickerStep
  \/ Crash
  \/ PassTime

Spec == Init /\ [][Next]_vars

(* setInterval keeps ticking, every awaited call of a dispatch returns     *)
(* (the WAHA client has a timeout), and time passes.  Nothing obliges a    *)
(* user to send, edit, cancel or delete.                                   *)
Fairness ==
  /\ WF_vars(TickerStep)
  /\ \A w \in Workers : WF_vars(Dispatch(w))
  /\ WF_vars(PassTime)

FairSpec == Spec /\ Fairness
------------------------------------------------------------------------------
(* Properties.                                                             *)

InFlight(w) == run[w].pc \notin {"idle", "called"}

(* The inductive invariant behind the safety properties.                   *)

(* A job is under lease exactly while it is attempting.                    *)
LeaseWhileAttempting ==
  \A j \in Jobs :
    /\ job[j].state = "attempting" <=> job[j].leaseOwner # None
    /\ job[j].state = "attempting" <=> job[j].leaseExpiresAt # None

(* What a dispatch in flight may rely on: it still holds the lease of the  *)
(* attempt it claimed, or its lease was recovered (and the job perhaps     *)
(* deleted since), and in both cases nobody else is sending its message.   *)
HoldsOrLost(w) ==
  LET r == job[run[w].job]
  IN \/ r.state = "attempting" /\ r.leaseOwner = w /\ r.attempts = run[w].attempt
     \/ r.state = "unknown" /\ r.recoveryCode = "lease_expired"
     \/ r.state = "deleted"

SentAsReported(w) ==
  /\ run[w].pc \in {"gate", "send"} => accepted[run[w].job] = 0
  /\ run[w].pc = "settle" =>
       /\ run[w].result \in Results
       /\ run[w].result = "submitted" => accepted[run[w].job] = 1
       /\ run[w].result = "retryable" => accepted[run[w].job] = 0

DispatchesSound ==
  \A w \in Workers : InFlight(w) =>
    /\ run[w].job \in Jobs
    /\ run[w].attempt \in 1..MaxAttempts
    /\ HoldsOrLost(w)
    /\ SentAsReported(w)

TickerInLoop ==
  run[Ticker].pc # "idle" =>
    /\ InFlight(Ticker)
    /\ tick.phase = "loop"
    /\ tick.count < MaxJobsPerTick

AttemptsCounted ==
  \A j \in Jobs :
    /\ job[j].state \in {"unborn", "scheduled"} => job[j].attempts = 0
    /\ job[j].state = "queued" => job[j].attempts < MaxAttempts
    /\ job[j].state = "attempting" => job[j].attempts > 0
    /\ job[j].state # "deleted" =>
         \A n \in 1..MaxAttempts : n > job[j].attempts => attempt[j][n] = "none"

DeletingSettled == \A j \in deleting : job[j].state \in Terminal \cup {"deleted"}

(* No schedule is handed to the provider twice, whatever crashes, slow     *)
(* calls, lease recoveries, retries and concurrent immediate sends do to   *)
(* the dispatches of runOnce.                                              *)
AtMostOnceDelivery == \A j \in Jobs : accepted[j] <= 1

(* Two asynchronous dispatches never hold the same job, not even when the  *)
(* lease of the first ran out while its WAHA call was still pending.       *)
OneDispatchPerJob ==
  \A v, w \in Workers : InFlight(v) /\ InFlight(w) /\ run[v].job = run[w].job => v = w

(* The recorded state never contradicts the provider: "submitted" is never *)
(* a false success, and a job that is cancelled, missed or still to be     *)
(* dispatched (again) was never sent.                                      *)
StateMatchesProvider ==
  \A j \in Jobs :
    /\ job[j].state = "submitted" => accepted[j] = 1
    /\ \/ job[j].state \in {"unborn", "cancelled"} \cup Claimable
       \/ job[j].state = "unknown" /\ job[j].recoveryCode = "missed_schedule"
       => accepted[j] = 0

(* The dispatch_attempts row a claim inserts is never there already (its   *)
(* unique index would make the job impossible to claim), and a job that    *)
(* may be claimed has an attempt left.                                     *)
ClaimNeverCollides ==
  \A j \in Jobs : job[j].state \in Claimable =>
    /\ job[j].attempts < MaxAttempts
    /\ attempt[j][job[j].attempts + 1] = "none"

(* The inductive strengthening of the properties above: they follow from   *)
(* it, and every step of runOnce, recovery and the HTTP handlers keeps it. *)
IInv ==
  /\ TypeOK
  /\ LeaseWhileAttempting
  /\ OneDispatchPerJob
  /\ DispatchesSound
  /\ TickerInLoop
  /\ AttemptsCounted
  /\ DeletingSettled
  /\ AtMostOnceDelivery
  /\ StateMatchesProvider

(* The last dispatch_attempts row tells the job's story: it agrees with    *)
(* the job's state, lags at "attempting" only behind a recovered lease,    *)
(* stays "queued" only behind a retry that was cancelled or missed, and is *)
(* ahead of the job only when an ack reported on what was submitted.       *)
AttemptAgreesWithJob ==
  \A j \in Jobs : job[j].attempts > 0 /\ job[j].state # "deleted" =>
    LET last == attempt[j][job[j].attempts]
    IN \/ last = job[j].state
       \/ last = "attempting" /\ job[j].state = "unknown"
       \/ last = "queued" /\ job[j].state \in {"cancelled", "unknown"}
       \/ last \in {"acknowledged", "failed"} /\ job[j].state = "submitted"

(* A settled job never moves again except to be deleted: a recovery state  *)
(* is not silently turned into a late success by the worker that lost it.  *)
SettledIsFinal ==
  [][\A j \in Jobs : job[j].state \in Terminal => job'[j].state \in {job[j].state, "deleted"}]_vars

(* DELETE decides on a row it read earlier, yet never removes a job that   *)
(* is still to be sent or is being sent.                                   *)
DeletesOnlySettled ==
  [][\A j \in Jobs : job[j].state # "deleted" /\ job'[j].state = "deleted"
        => job[j].state \in Terminal /\ ~(\E w \in Workers : job[j].leaseOwner = w)]_vars

(* Every overdue schedule leaves the queue: the ticker dispatches it or    *)
(* marks it missed, whatever its earlier attempts met.                     *)
OverdueLeavesQueue ==
  \A j \in Jobs :
    job[j].state \in Claimable /\ job[j].scheduledFor + MissedGrace <= MaxTime
      ~> job[j].state \notin Claimable \/ job[j].scheduledFor + MissedGrace > MaxTime

(* No job stays in "attempting": its worker settles it or the ticker       *)
(* recovers the expired lease.  (A lease that would expire beyond the      *)
(* bound of the clock is outside the model.)                               *)
AttemptsEnd ==
  \A j \in Jobs :
    job[j].state = "attempting" /\ job[j].leaseExpiresAt <= MaxTime
      ~> job[j].state # "attempting"

(* The scheduler keeps what Delivery promises to those who schedule.       *)
Phase(j) ==
  CASE job[j].state = "unborn"      -> "unborn"
    [] job[j].state \in Claimable   -> "pending"
    [] job[j].state = "attempting"  -> "trying"
    [] OTHER                        -> "closed"

Flying == {run[w].job : w \in {v \in Workers : InFlight(v)}}

Promise == INSTANCE Delivery
             WITH phase <- [j \in Jobs |-> Phase(j)], flying <- Flying, sent <- accepted

ImplementsDelivery == Promise!Spec

(* What the product decision record promises of missed jobs: none is sent  *)
(* late, so no claim takes a schedule past its grace period.  (A job whose *)
(* own immediate send is still on its way to the claim is no schedule.)    *)
NoLateDispatch ==
  [][\A j \in Jobs : job[j].state \in Claimable /\ job'[j].state = "attempting"
                     /\ run[j].pc # "called"
        => now <= job[j].scheduledFor + MissedGrace]_vars

(* What the decision record promises of edits: a job not yet tried is due  *)
(* for the next claim as soon as its (edited) time has come.               *)
EditTakesEffect ==
  \A j \in Jobs : job[j].state = "scheduled" /\ job[j].scheduledFor <= now => Due(j)
=============================================================================
