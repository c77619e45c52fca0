----------------------------- MODULE ScheduleTime -----------------------------
(***************************************************************************)
(* The time of a schedule on its way between the web application and the   *)
(* server.  A request carries a wall clock to be read in its time zone, or *)
(* an instant (wall-clock.ts); the server keeps the instant; the dialog of *)
(* the history shows it again as a wall clock, cut to the minute, in two   *)
(* fields that stay editable while their request is under way              *)
(* (schedule-detail-modal.tsx, view-support.tsx).                          *)
(* Instants and wall clocks are integers: a wall clock is the instant at   *)
(* which a clock at UTC shows it.  A time zone is the offset before and    *)
(* after its only transition.  Day stands for 24 hours, longer than any    *)
(* offset, and Grain for the minute.                                       *)
(***************************************************************************)
EXTENDS Integers, FiniteSets

CONSTANTS
  Zones,    \* records [at, before, after]
  Instants, \* the instants and wall clocks that requests carry
  Day,
  Grain,
  None

VARIABLES
  job,    \* the stored schedule: its instant and zone, or None
  shown,  \* the schedule as the dialog has it, or None while it is closed
  form,   \* the dialog's two fields
  request \* the last request, unless its answer was lost

vars == <<job, shown, form, request>>

Local(w) == [kind |-> "local", at |-> w]
Offset(i) == [kind |-> "offset", at |-> i]
Malformed == [kind |-> "malformed", at |-> 0]
Minutes == {i \in Instants : i % Grain = 0}
Bogus == [at |-> 0, before |-> Day, after |-> Day] \* names no time zone
NoForm == [text |-> Malformed, zone |-> Bogus]

TypeOK ==
  /\ job = None \/ job.zone \in Zones
  /\ shown = None \/ shown.zone \in Zones
  /\ form.zone \in Zones \cup {Bogus}
  /\ request = None
     \/ request.phase \in {"sent", "served", "accepted", "refused"}

OffsetAt(zone, i) == IF i < zone.at THEN zone.before ELSE zone.after
WallAt(zone, i) == i + OffsetAt(zone, i)

(* The two instants the parser tries: the wall clock less the offset found  *)
(* where a clock at UTC shows it, and a day before; those that do show it. *)
MutProbed(zone, w) ==
  {i \in {w - OffsetAt(zone, w)} : WallAt(zone, i) = w}

Probed(zone, w) ==
  {i \in {w - OffsetAt(zone, p) : p \in {w, w - Day}} : WallAt(zone, i) = w}

Parsed(text, zone) ==
  IF zone = Bogus \/ text.kind = "malformed" THEN {}
  ELSE IF text.kind = "local" THEN Probed(zone, text.at) ELSE {text.at}

Earliest(S) == CHOOSE i \in S : \A j \in S : i <= j

Filled(j) ==
  LET w == WallAt(j.zone, j.at) IN [text |-> Local(w - (w % Grain)), zone |-> j.zone]

Ask(text, zone, edit, from) ==
  [text |-> text, zone |-> zone, edit |-> edit, from |-> from, phase |-> "sent", job |-> None]

Underway == IF request = None THEN FALSE ELSE request.phase \in {"sent", "served"}

Init == job = None /\ shown = None /\ form = NoForm /\ request = None

(* POST schedule: the composer's wall clock, or another caller's instant.   *)
Schedule(text, zone) ==
  /\ job = None /\ ~Underway
  /\ request' = Ask(text, zone, FALSE, None)
  /\ UNCHANGED <<job, shown, form>>

OpenDetail ==
  /\ job # None /\ shown # job
  /\ shown' = job /\ form' = Filled(job)
  /\ UNCHANGED <<job, request>>

ChangeTime(text) ==
  /\ shown # None /\ text # form.text
  /\ form' = [form EXCEPT !.text = text]
  /\ UNCHANGED <<job, shown, request>>

ChangeZone(zone) ==
  /\ shown # None /\ zone # form.zone
  /\ form' = [form EXCEPT !.zone = zone]
  /\ UNCHANGED <<job, shown, request>>

Save ==
  /\ shown # None /\ ~Underway
  /\ request' = Ask(form.text, form.zone, TRUE,
                    IF form = Filled(shown) THEN shown ELSE None)
  /\ UNCHANGED <<job, shown, form>>

Validated == Parsed(request.text, request.zone) # {}
Serve(stored) ==
  /\ Underway /\ request.phase = "sent"
  /\ request' = [request EXCEPT !.phase = "served", !.job = stored]
  /\ job' = IF stored = None THEN job ELSE stored
  /\ UNCHANGED <<shown, form>>

Timing == [at |-> Earliest(Parsed(request.text, request.zone)), zone |-> request.zone]

(* The routes read the timing alike; the first makes the schedule ...       *)
ServeSchedule ==
  /\ Underway /\ job = None
  /\ IF Validated THEN Serve(Timing) ELSE Serve(None)

(* ... and the second, of a schedule still waiting, moves it.               *)
ServeEdit ==
  /\ Underway /\ job # None
  /\ IF Validated THEN Serve(Timing) ELSE Serve(None)

(* The answer to an edit is a new object for the dialog even when it is the *)
(* schedule it shows already, and what was typed meanwhile is gone.         *)
Answer ==
  /\ Underway /\ request.phase = "served"
  /\ request' = [request EXCEPT !.phase = IF request.job = None THEN "refused" ELSE "accepted"]
  /\ IF request.edit /\ shown # None /\ request.job # None
     THEN shown' = request.job /\ form' = Filled(request.job)
     ELSE UNCHANGED <<shown, form>>
  /\ UNCHANGED job

Lose ==
  /\ Underway
  /\ request' = None
  /\ UNCHANGED <<job, shown, form>>

Texts == {Local(w) : w \in Instants} \cup {Offset(i) : i \in Instants} \cup {Malformed}
Typed == {Local(w) : w \in Minutes} \cup {Malformed}

Next ==
  \/ \E t \in Texts, z \in Zones \cup {Bogus} : Schedule(t, z)
  \/ OpenDetail \/ Save \/ ServeSchedule \/ ServeEdit \/ Answer \/ Lose
  \/ \E t \in Typed : ChangeTime(t)
  \/ \E z \in Zones \cup {Bogus} : ChangeZone(z)

Spec == Init /\ [][Next]_vars

(* Every instant whose clock shows this wall clock, found by search.        *)
Showing(zone, w) == {i \in (w - Day)..(w + Day) : WallAt(zone, i) = w}

(* West of UTC both tries precede the zone's transition while a clock at    *)
(* UTC has not reached it: what only the new offset shows is overlooked.    *)
Overlooked(zone, w) ==
  /\ w < zone.at /\ zone.before # zone.after
  /\ Showing(zone, w) # {}
  /\ \A i \in Showing(zone, w) : i >= zone.at

Served == IF request = None THEN FALSE ELSE request.phase \in {"served", "accepted", "refused"}
Reads == Served /\ request.text.kind = "local" /\ request.zone # Bogus

(* A schedule is stored at the first instant whose clock shows the wall     *)
(* clock that was asked for.                                                *)
EarliestInstant ==
  Reads /\ request.job # None =>
    /\ WallAt(request.zone, request.job.at) = request.text.at
    /\ \A i \in Showing(request.zone, request.text.at) : request.job.at <= i

(* A wall clock is refused only if no clock of the zone ever shows it, or   *)
(* in the hours after a transition that the parser overlooks.               *)
RefusedOnlySkipped ==
  Reads =>
    (request.job = None <=>
       \/ Showing(request.zone, request.text.at) = {}
       \/ Overlooked(request.zone, request.text.at))

(* An instant is kept whatever its zone.                                    *)
InstantKept ==
  Served /\ request.text.kind = "offset" /\ request.zone # Bogus =>
    request.job # None /\ request.job.at = request.text.at

(* Saving the dialog as it opened never delays a schedule; it goes back to  *)
(* the full minute, and further only if its clock showed that minute before *)
(* (once more an hour earlier, when clocks were put back).                  *)
UntouchedNotDelayed ==
  Served /\ (IF request = None THEN FALSE ELSE request.from # None /\ request.job # None) =>
    LET was == request.from.at
        now == request.job.at IN
    /\ now <= was
    /\ was - now < Grain
       \/ \E i \in Showing(request.zone, request.text.at) : now < i /\ i <= was

ScheduleTimeInv ==
  TypeOK /\ EarliestInstant /\ RefusedOnlySkipped /\ InstantKept /\ UntouchedNotDelayed
=============================================================================
