------------------------------ MODULE WahaClient ------------------------------
(***************************************************************************)
(* The HTTP client of WAHA (waha/adapter.ts): one call is a fetch under a  *)
(* timer and, for some callers, a signal that may cancel it.  The promise  *)
(* of each await, the timer and the signal settle in any order.  WAHA is   *)
(* external: it may carry out what it was sent at any time afterwards.     *)
(***************************************************************************)
EXTENDS Integers, FiniteSets

CONSTANTS
  Calls,        \* calls in progress together, named by their operation
  Signalled,    \* those whose caller passed a signal
  None

VARIABLES
  call,         \* the local variables and the resources of each call
  cancelled,    \* the callers' signal is aborted
  carriedOut    \* history: what WAHA made of each call

vars == <<call, cancelled, carriedOut>>

(* The body each operation accepts: nothing, JSON of a schema, or a file.  *)
EmptyOps == {"remove", "requestPairingCode", "passkeyAssertion", "confirmPasskey"}
Accepts(op) == IF op \in EmptyOps THEN "empty" ELSE IF op = "downloadFile" THEN "any" ELSE "json"

(* A status is kept in the call when WAHA's answer is not ok. *)
Statuses == {"ok", "401", "463", "475", "500"}
Bodies == {"empty", "json", "other"}

ClassifyHttpStatus(status) ==
  CASE status = "401" -> "authentication"
    [] status = "463" -> "timelock"
    [] status = "475" -> "capping"
    [] OTHER -> "http"

HttpErrors == {"authentication", "timelock", "capping", "http"}
Outcomes == HttpErrors \cup {"fine", "malformed_response", "network", "timeout", "cancelled"}

Fresh == [at |-> "new", armed |-> FALSE, listening |-> FALSE, timedOut |-> FALSE,
          aborted |-> FALSE, status |-> None, outcome |-> None]

TypeOK ==
  /\ call \in [Calls -> [at : {"new", "fetch", "body", "detail", "done"}, armed : BOOLEAN,
                         listening : BOOLEAN, timedOut : BOOLEAN, aborted : BOOLEAN,
                         status : Statuses \cup {None}, outcome : Outcomes \cup {None}]]
  /\ cancelled \in BOOLEAN
  /\ carriedOut \in [Calls -> {"no", "done", "refused"}]

Init ==
  /\ call = [c \in Calls |-> Fresh]
  /\ cancelled = FALSE
  /\ carriedOut = [c \in Calls |-> "no"]

At(c, s) == call[c].at = s
Pending(c) == call[c].at \in {"fetch", "body", "detail"}
(* a cancelled signal is met before anything is sent *)
Sent(c) == Pending(c) \/ (At(c, "done") /\ call[c].status # None)
           \/ call[c].outcome \in {"network", "timeout"}
           \/ (call[c].outcome = "cancelled" /\ call[c].aborted)

(* finally: whatever the outcome, the timer is cleared and the listener removed. *)
Settle(c, outcome) ==
  call' = [call EXCEPT ![c].at = "done", ![c].outcome = outcome,
                       ![c].armed = FALSE, ![c].listening = FALSE]

Start(c) ==
  /\ At(c, "new")
  /\ IF c \in Signalled /\ cancelled THEN Settle(c, "cancelled")
     ELSE call' = [call EXCEPT ![c].at = "fetch", ![c].armed = TRUE,
                               ![c].listening = c \in Signalled]
  /\ UNCHANGED <<cancelled, carriedOut>>

(* WAHA carries out or refuses what it was sent, heard or not. *)
WahaActs(c, what) ==
  /\ Sent(c) /\ carriedOut[c] = "no"
  /\ carriedOut' = [carriedOut EXCEPT ![c] = what]
  /\ UNCHANGED <<call, cancelled>>

(* The promise of fetch resolves; an error of WAHA may follow a deed.      *)
Headers(c, status) ==
  /\ At(c, "fetch") /\ ~call[c].aborted
  /\ carriedOut[c] # "no"
  /\ status = "ok" => carriedOut[c] = "done"
  /\ status \in {"401", "463", "475"} => carriedOut[c] = "refused"
  /\ call' = [call EXCEPT ![c].at = IF status = "ok" THEN "body" ELSE "detail",
                          ![c].status = status]
  /\ UNCHANGED <<cancelled, carriedOut>>

(* The detail of a rejection is read, or not: a failure to read it is none. *)
Detail(c) ==
  /\ At(c, "detail")
  /\ Settle(c, ClassifyHttpStatus(call[c].status))
  /\ UNCHANGED <<cancelled, carriedOut>>

Body(c, body) ==
  /\ At(c, "body") /\ ~call[c].aborted
  /\ Settle(c, IF Accepts(c) \in {body, "any"} THEN "fine" ELSE "malformed_response")
  /\ UNCHANGED <<cancelled, carriedOut>>

(* The connection breaks: fetch, or the reading of the body, rejects.      *)
MutFails(c) == IF call[c].aborted THEN "malformed_response" ELSE "network"

Fails(c) ==
  IF call[c].timedOut THEN "timeout"
  ELSE IF c \in Signalled /\ cancelled THEN "cancelled" ELSE "network"

Breaks(c) ==
  /\ call[c].at \in {"fetch", "body"}
  /\ Settle(c, Fails(c))
  /\ UNCHANGED <<cancelled, carriedOut>>

(* The timer fires, or the caller aborts: the controller is aborted, and   *)
(* the awaited promise rejects next (Breaks).                              *)
TimerFires(c) ==
  /\ call[c].armed
  /\ call' = [call EXCEPT ![c].armed = FALSE, ![c].timedOut = TRUE, ![c].aborted = TRUE]
  /\ UNCHANGED <<cancelled, carriedOut>>

CallerAborts ==
  /\ ~cancelled
  /\ cancelled' = TRUE
  /\ call' = [c \in Calls |-> IF call[c].listening THEN [call[c] EXCEPT !.aborted = TRUE] ELSE call[c]]
  /\ UNCHANGED carriedOut

Next ==
  \/ \E c \in Calls :
       \/ Start(c) \/ Detail(c) \/ Breaks(c) \/ TimerFires(c)
       \/ \E what \in {"done", "refused"} : WahaActs(c, what)
       \/ \E status \in Statuses : Headers(c, status)
       \/ \E body \in Bodies : Body(c, body)
  \/ CallerAborts

Spec == Init /\ [][Next]_vars

-----------------------------------------------------------------------------
(* What the scheduler records of a message whose sendText threw.           *)
ClassifyWahaDispatchError(outcome) ==
  IF outcome \in {"timeout", "network"} THEN "unknown" ELSE "failed"

(* A call that waits has a timer running or is being aborted, on every      *)
(* await; and a call that ended left neither timer nor listener behind      *)
(* (the finally of request and downloadFile).                               *)
WaitsAreTimed ==
  \A c \in Calls :
    /\ Pending(c) => call[c].armed \/ call[c].aborted
    /\ ~Pending(c) => ~call[c].armed /\ ~call[c].listening

(* Each outcome is about what happened: a timeout to a timer that fired, a  *)
(* cancellation to a signal that was aborted, every other error to WAHA or  *)
(* the network (the order of the checks in the catch of request).           *)
OutcomesAreTrue ==
  \A c \in Calls :
    /\ call[c].outcome = "timeout" => call[c].timedOut
    /\ call[c].outcome = "cancelled" => c \in Signalled /\ cancelled
    /\ call[c].outcome = "network" => ~call[c].timedOut
    /\ call[c].outcome = "fine" => carriedOut[c] = "done"
    /\ call[c].outcome \in HttpErrors \cup {"malformed_response"} => carriedOut[c] # "no"

(* A message nobody knows the fate of is recorded unknown, never failed:    *)
(* when sendText, which no caller cancels, is recorded failed, WAHA has     *)
(* dealt with it (classifyWahaDispatchError).                               *)
UnknownWhenInDoubt ==
  \A c \in Calls \ Signalled :
    At(c, "done") /\ ClassifyWahaDispatchError(call[c].outcome) = "failed" => carriedOut[c] # "no"

ClientInv == TypeOK /\ WaitsAreTimed /\ OutcomesAreTrue /\ UnknownWhenInDoubt
=============================================================================
