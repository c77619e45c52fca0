------------------------------ MODULE Analytics ------------------------------
(***************************************************************************)
(* The figures of the messages and jobs of a scope (analytics/).  A reader *)
(* asks for a window of time and one session or all; the sessions listed   *)
(* are authorized one after another, and then the events, the attempts and *)
(* the jobs are read with statements of their own, in any order, while the *)
(* scheduler, the webhook and other requests change them.  The figures are *)
(* sums over what was read.  An instance has one scope, and contacts, the  *)
(* safety events and failure codes, counted row by row, are left out.      *)
(***************************************************************************)
EXTENDS Integers, FiniteSets, Functions

CONSTANTS
  Sessions,
  Jobs,
  SessionOf,    \* the session of each job and of each envelope
  Envelopes,    \* webhook calls with a message, by the id of their envelope
  MaxTime,      \* bound on the clock
  MaxAttempts,  \* bound on the attempts of a job
  MaxChanges,   \* bound on what others change while a request is served
  MaxWindow,    \* MAX_ANALYTICS_WINDOW_MS
  Froms, Tos,   \* beginnings and ends asked for, or None
  None

VARIABLES
  now,
  stored,       \* sessions in the table
  granted,      \* those the reader has a grant and a role for
  job,          \* the jobs, by id: state, attempts and when updated, or None
  attempts,     \* dispatch attempts; id is the message's, or None
  events,       \* message events, by envelope: when it occurred, or None
  request       \* the request being served, with its history, or None

vars == <<now, stored, granted, job, attempts, events, request>>

Tables == {"events", "attempts", "jobs"}
JobStates == {"scheduled", "queued", "attempting", "submitted", "failed", "unknown", "cancelled"}

TypeOK ==
  /\ now \in 0..MaxTime /\ granted \subseteq stored /\ stored \subseteq Sessions
  /\ job \in [Jobs -> {None} \cup [state : JobStates, attempts : 0..MaxAttempts, updated : 0..MaxTime]]
  /\ \A a \in attempts : a.job \in Jobs /\ a.number \in 1..MaxAttempts /\ a.at \in 0..MaxTime
  /\ events \in [Envelopes -> {None} \cup 0..MaxTime]
  /\ request # None => request.shown \subseteq Sessions /\ DOMAIN request.read \subseteq Tables

(* The rest, and what was read, is empty at first.  A job is scheduled for   *)
(* now.                                                                      *)
Init ==
  /\ now = 0 /\ stored = Sessions /\ granted \in SUBSET Sessions
  /\ job = [j \in Jobs |-> [state |-> "scheduled", attempts |-> 0, updated |-> 0]]
  /\ attempts = {} /\ events = [e \in Envelopes |-> None] /\ request = None

-----------------------------------------------------------------------------
(* What the figures are computed from. *)
inWindow(t, w) == w.from <= t /\ t < w.to

(* What is encrypted and stored of a webhook call is its whole body, and the *)
(* id read at the top of it is the envelope's, not the message's.            *)
messageIdentity(e) == e

messageRows(evs, s, w) == {e \in Envelopes : evs[e] # None /\ SessionOf[e] = s /\ inWindow(evs[e], w)}
AttemptRows(ats, s, w) == {a \in ats : SessionOf[a.job] = s /\ inWindow(a.at, w)}
JobRows(js, s, w) == {j \in Jobs : js[j] # None /\ SessionOf[j] = s /\ inWindow(js[j].updated, w)}

(* attemptState: a state of the analytics, "queued" being unknown to it *)
attemptState(s) == IF s \in {"attempting", "submitted", "acknowledged", "failed"} THEN s ELSE "unknown"
Figure(s) == IF s = "attempting" THEN "unknown" ELSE s

(* byMessage: what the latest attempt says of a message *)
StateOfMessage(id, ats) ==
  LET of == {a \in ats : a.id = id} IN
  IF of = {} THEN "unknown"
  ELSE attemptState((CHOOSE a \in of : \A b \in of : b.at <= a.at).state)

Orphans(rows, ats) == {a \in ats : a.id # None /\ a.id \notin {messageIdentity(e) : e \in rows}}

(* acknowledgmentBreakdown: messages by the state of their attempt, and the  *)
(* attempts of messages no event tells of.                                   *)
acknowledgmentBreakdown(rows, ats) ==
  [f \in {"submitted", "acknowledged", "failed", "unknown"} |->
     Cardinality({e \in rows : Figure(StateOfMessage(messageIdentity(e), ats)) = f})
     + Cardinality({a \in Orphans(rows, ats) : Figure(attemptState(a.state)) = f})]

outcomes(js, rows) == [s \in JobStates |-> Cardinality({j \in rows : js[j].state = s})]
Over(n) == IF n > 1 THEN n - 1 ELSE 0

(* The figures of one session, of what was read. *)
sessionProjection(read, s, w) ==
  LET rows == messageRows(read["events"], s, w)
      jobs == JobRows(read["jobs"], s, w) IN
  [messages |-> Cardinality(rows),
   acknowledgments |-> acknowledgmentBreakdown(rows, AttemptRows(read["attempts"], s, w)),
   outcomes |-> outcomes(read["jobs"], jobs),
   retries |-> SumFunction([j \in jobs |-> Over(read["jobs"][j].attempts)])]

(* The sums over the sessions, and the failure rate: a pair, or None.        *)
projectAnalytics(read, shown, w) ==
  LET of(s) == sessionProjection(read, s, w)
      acks == [f \in {"submitted", "acknowledged", "failed", "unknown"} |->
                 SumFunction([s \in shown |-> of(s).acknowledgments[f]])]
      completed == acks["submitted"] + acks["acknowledged"] + acks["failed"] IN
  [messages |-> SumFunction([s \in shown |-> of(s).messages]),
   acknowledgments |-> acks,
   outcomes |-> [st \in JobStates |-> SumFunction([s \in shown |-> of(s).outcomes[st]])],
   retries |-> SumFunction([s \in shown |-> of(s).retries]),
   failureRate |-> IF acks["unknown"] > 0 \/ completed = 0 THEN None ELSE <<acks["failed"], completed>>]

(* The status history is read from the top of the body as well, where there  *)
(* is no status, so it is empty; the time up is checked for any history of   *)
(* entries at different times, which the code sorts: the next of one is the  *)
(* earliest of the later ones.                                               *)
statusHistory(entries, w) == {e \in entries : e.at < w.to}
activeStatuses == {"WORKING", "CONNECTED", "READY"}
uptimeMs(entries, w) ==
  LET active == {e \in entries : e.status \in activeStatuses}
      later(e) == {d \in entries : d.at > e.at}
      next(e) == CHOOSE d \in later(e) : \A x \in later(e) : d.at <= x.at
      start(e) == IF e.at > w.from THEN e.at ELSE w.from
      end(e) == IF next(e).at < w.to THEN next(e).at ELSE w.to
      length(e) == IF end(e) > start(e) THEN end(e) - start(e) ELSE 0 IN
  IF \E e \in active : later(e) = {} THEN None ELSE SumFunction([e \in active |-> length(e)])

-----------------------------------------------------------------------------
Stored == <<now, stored, granted, job, attempts, events>>
Tabled(t) == CASE t = "events" -> events [] t = "attempts" -> attempts [] t = "jobs" -> job

(* The window asked for: without an end it ends now, without a beginning it  *)
(* is as long as a window may be; a longer one is refused.                   *)
Windows ==
  {w \in [from : Froms, to : Tos] :
     w.from # None /\ w.to # None => w.from < w.to}
Resolved(w) == [from |-> IF w.from = None THEN now - MaxWindow ELSE w.from,
                to |-> IF w.to = None THEN now ELSE w.to]

(* s is the session asked for, or None for all that may be seen. *)
Ask(w, s) ==
  /\ request = None
  /\ Resolved(w).to - Resolved(w).from <= MaxWindow
  /\ s \in stored \cup {None}
  /\ request' = [window |-> Resolved(w), asked |-> s, left |-> IF s = None THEN stored ELSE {s},
                 shown |-> {}, read |-> <<>>, jobsFirst |-> FALSE,
                 could |-> granted, removed |-> FALSE, changes |-> 0]
  /\ UNCHANGED Stored

(* The sessions are authorized in turn; one asked for must be granted. *)
Authorize(s) ==
  /\ request # None /\ s \in request.left
  /\ request' = IF s \in granted THEN [request EXCEPT !.left = @ \ {s}, !.shown = @ \cup {s}]
                ELSE IF request.asked = s THEN None
                ELSE [request EXCEPT !.left = @ \ {s}]
  /\ UNCHANGED Stored

(* One of the statements, and nothing without a session to show. *)
Read(t) ==
  /\ request # None /\ request.left = {} /\ request.shown # {}
  /\ t \notin DOMAIN request.read
  /\ request' = [request EXCEPT !.jobsFirst = @ \/ (t = "jobs" /\ "attempts" \notin DOMAIN request.read),
                   !.read = [u \in DOMAIN @ \cup {t} |-> IF u = t THEN Tabled(t) ELSE @[u]]]
  /\ UNCHANGED Stored

Complete == request # None /\ DOMAIN request.read = Tables

Answer ==
  /\ request # None /\ request.left = {} /\ (Complete \/ request.shown = {})
  /\ request' = None
  /\ UNCHANGED Stored

-----------------------------------------------------------------------------
(* What the others do, also while a request is served. *)
Changing(removes) ==
  \/ request = None /\ request' = None
  \/ /\ request # None /\ ~Complete /\ request.changes < MaxChanges
     /\ request' = [request EXCEPT !.changes = @ + 1, !.could = @ \cup granted', !.removed = @ \/ removes]

Set(j, state, tried) == job' = [job EXCEPT ![j] = [state |-> state, attempts |-> tried, updated |-> now]]
IsCurrent(a, j) == a.job = j /\ a.number = job[j].attempts

claimDue(j) ==
  /\ job[j] # None /\ job[j].state \in {"scheduled", "queued"} /\ job[j].attempts < MaxAttempts
  /\ Set(j, "attempting", job[j].attempts + 1)
  /\ attempts' = attempts \cup {[job |-> j, number |-> job[j].attempts + 1, at |-> now, id |-> None, state |-> "attempting"]}
  /\ UNCHANGED <<now, stored, granted, events>> /\ Changing(FALSE)

(* One transaction for the job and its attempt; a message is named by its    *)
(* job.                                                                      *)
Finish(j, state, id) ==
  /\ job[j] # None /\ job[j].state = "attempting"
  /\ Set(j, state, job[j].attempts)
  /\ attempts' = {IF IsCurrent(a, j) THEN [a EXCEPT !.state = state, !.id = id] ELSE a : a \in attempts}
  /\ UNCHANGED <<now, stored, granted, events>> /\ Changing(FALSE)
complete(j) == Finish(j, "submitted", j)
fail(j, state) == Finish(j, state, None)

(* An acknowledgement tells the attempts of its message and not the job.     *)
Acked(a, state) == a.state = "submitted" \/ (a.state = "acknowledged" /\ state = "failed")
ack(j, state) ==
  LET told == {a \in attempts : a.id = j /\ Acked(a, state)} IN
  /\ told # {}
  /\ attempts' = (attempts \ told) \cup {[a EXCEPT !.state = state] : a \in told}
  /\ UNCHANGED <<now, stored, granted, job, events>> /\ Changing(FALSE)

(* A message event is stored, with a time it occurred at. *)
insert(e, t) ==
  /\ SessionOf[e] \in stored /\ events[e] = None /\ t <= now
  /\ events' = [events EXCEPT ![e] = t]
  /\ UNCHANGED <<now, stored, granted, job, attempts>> /\ Changing(FALSE)

cancel(j) ==
  /\ job[j] # None /\ job[j].state \in {"scheduled", "queued"}
  /\ Set(j, "cancelled", job[j].attempts)
  /\ UNCHANGED <<now, stored, granted, attempts, events>> /\ Changing(FALSE)

remove(j) ==
  /\ job[j] # None
  /\ job' = [job EXCEPT ![j] = None] /\ attempts' = {a \in attempts : a.job # j}
  /\ UNCHANGED <<now, stored, granted, events>> /\ Changing(TRUE)

removeSession(s) ==
  /\ s \in stored
  /\ stored' = stored \ {s} /\ granted' = granted \ {s}
  /\ job' = [j \in Jobs |-> IF SessionOf[j] = s THEN None ELSE job[j]]
  /\ attempts' = {a \in attempts : SessionOf[a.job] # s}
  /\ events' = [e \in Envelopes |-> IF SessionOf[e] = s THEN None ELSE events[e]]
  /\ UNCHANGED now /\ Changing(TRUE)

Grant(s) ==
  /\ s \in stored
  /\ granted' = IF s \in granted THEN granted \ {s} ELSE granted \cup {s}
  /\ UNCHANGED <<now, stored, job, attempts, events>> /\ Changing(FALSE)

Tick == now < MaxTime /\ now' = now + 1 /\ UNCHANGED <<stored, granted, job, attempts, events>> /\ Changing(FALSE)

Next ==
  \/ \E w \in Windows, s \in Sessions \cup {None} : Ask(w, s)
  \/ \E s \in Sessions : Authorize(s)
  \/ \E t \in Tables : Read(t)
  \/ Answer
  \/ \E j \in Jobs : claimDue(j) \/ complete(j) \/ cancel(j) \/ remove(j)
  \/ \E j \in Jobs, st \in {"failed", "unknown", "queued"} : fail(j, st)
  \/ \E j \in Jobs, st \in {"acknowledged", "failed"} : ack(j, st)
  \/ \E e \in Envelopes, t \in 0..MaxTime : insert(e, t)
  \/ \E s \in Sessions : removeSession(s) \/ Grant(s)
  \/ Tick

Spec == Init /\ [][Next]_vars

-----------------------------------------------------------------------------
(* Only sessions granted at some time of the request are shown, and no other *)
(* than one asked for (read of the service).                                 *)
OnlyGranted ==
  request # None =>
    /\ request.shown \subseteq request.could
    /\ Complete => (request.asked = None \/ request.shown = {request.asked})

Reported == projectAnalytics(request.read, request.shown, request.window)
WholeTime == Complete /\ request.window.from <= 0 /\ request.window.to > now
Submitted(s) == {j \in Jobs : request.read["jobs"][j] # None /\ SessionOf[j] = s
                                /\ request.read["jobs"][j].state = "submitted"}

(* The jobs and the attempts are read apart.  Over all the time, and if      *)
(* nothing was removed meanwhile, the jobs submitted are no more than the    *)
(* messages with evidence when the attempts were read last, and no fewer     *)
(* when they were read first: the transaction of complete, and acks that     *)
(* never take an attempt back.  A message event adds nothing to them.        *)
JobsAndAttemptsAgree ==
  WholeTime /\ ~request.removed =>
    LET a == Reported.acknowledgments
        evidenced == a["submitted"] + a["acknowledged"] + a["failed"]
        sent == Reported.outcomes["submitted"] IN
    IF request.jobsFirst THEN sent <= evidenced ELSE evidenced <= sent

(* A retry is an attempt after the first: over all the time the retries of   *)
(* the jobs are the attempts less the jobs tried, one way or the other.      *)
RetriesAreAttempts ==
  WholeTime /\ ~request.removed =>
    LET tried == Cardinality({a \in request.read["attempts"] : SessionOf[a.job] \in request.shown /\ a.number > 1}) IN
    IF request.jobsFirst THEN Reported.retries <= tried ELSE tried <= Reported.retries

(* Windows are half open: what is stored is counted in one of two adjacent   *)
(* windows and not in both, whatever the row (inWindow).                     *)
Now == [events |-> events, attempts |-> attempts, jobs |-> job]
Figures(from, to) == projectAnalytics(Now, stored, [from |-> from, to |-> to])
AdjacentWindowsAddUp ==
  request = None =>
    \A b \in 1..MaxTime :
      LET all == Figures(0, MaxTime + 1)  before == Figures(0, b)  after == Figures(b, MaxTime + 1) IN
      /\ all.messages = before.messages + after.messages
      /\ all.retries = before.retries + after.retries
      /\ \A f \in DOMAIN all.acknowledgments :
           all.acknowledgments[f] = before.acknowledgments[f] + after.acknowledgments[f]
      /\ \A st \in JobStates : all.outcomes[st] = before.outcomes[st] + after.outcomes[st]

(* A failure rate is given only where no message event was received in the   *)
(* window, and it is about the messages WAHA took: a send that failed has no *)
(* id and is not among them (acknowledgmentBreakdown).                       *)
RateOfTheTaken ==
  Complete /\ Reported.failureRate # None =>
    /\ Reported.messages = 0
    /\ Reported.failureRate[2] <= Cardinality({a \in request.read["attempts"] : a.id # None})

(* uptimeMs is the time of the window at which the latest status known was   *)
(* an active one, and unknown while it still is; what comes after the window *)
(* does not matter.                                                          *)
Histories == {h \in SUBSET [at : 0..(MaxTime + 1), status : {"WORKING", "STOPPED"}] :
                \A d, e \in h : d.at = e.at => d = e}
ActiveAt(h, t) == \E e \in h : e.at <= t /\ e.status = "WORKING" /\ \A d \in h : d.at <= t => d.at <= e.at
UptimeIsTimeActive ==
  (request = None /\ now = 0 /\ attempts = {} /\ \A e \in Envelopes : events[e] = None) =>
    \A h \in Histories, f \in 0..MaxTime, t \in 1..(MaxTime + 1) :
      f < t => uptimeMs(statusHistory(h, [from |-> f, to |-> t]), [from |-> f, to |-> t])
               = IF ActiveAt(h, t - 1) THEN None ELSE Cardinality({u \in f..(t - 1) : ActiveAt(h, u)})

AnalyticsInv ==
  /\ TypeOK /\ OnlyGranted /\ JobsAndAttemptsAgree /\ RetriesAreAttempts
  /\ AdjacentWindowsAddUp /\ RateOfTheTaken /\ UptimeIsTimeActive
=============================================================================
