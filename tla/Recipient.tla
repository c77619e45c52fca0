------------------------------- MODULE Recipient -------------------------------
(***************************************************************************)
(* Choosing whom to write to (recipient-selector-state.ts), the consent    *)
(* shown for him, and the text that is submitted (message-composer.tsx),   *)
(* over the contact, consent and send calls of the dashboard's controller. *)
(* Generations and identities of the code are not counted: clearing the    *)
(* selection drops the request, and a call sets its slot as it begins, so  *)
(* a request that is kept has the current generation.                      *)
(***************************************************************************)
EXTENDS Integers, FiniteSets

CONSTANTS
  Sessions, FirstSession, Phones,
  Elsewhere,  \* the contacts whose consent may change elsewhere
  MaxCalls,   \* bound on calls under way
  None

VARIABLES
  session, typed,  \* the session and the number chosen
  lookup,          \* resolutionRequest: the contact asked for, or None
  change,          \* consentRequest: [contact, granted], or None
  contactSlot,     \* the controller's slot: kind, contact and its consent as read
  consentSlot,     \* the controller's slot of the consent call
  sendSlot,
  calls,           \* under way
  consent,         \* server: contacts that granted consent
  unsure,          \* history: contacts whose consent the page cannot know
  forgotten        \* history: a send was under way when its slot was reset

local == <<session, typed, lookup, change>>
slots == <<contactSlot, consentSlot, sendSlot>>
vars == <<local, slots, calls, consent, unsure, forgotten>>

Contacts == Sessions \X Phones
Kinds == {"idle", "submitting", "ready", "error"}

TypeOK ==
  /\ session \in Sessions /\ typed \in Phones \cup {None}
  /\ lookup \in Contacts \cup {None}
  /\ change = None \/ change \in [contact : Contacts, granted : BOOLEAN]
  /\ contactSlot.kind \in Kinds /\ consentSlot \in Kinds /\ sendSlot \in Kinds
  /\ consent \subseteq Contacts /\ unsure \subseteq Contacts /\ forgotten \in BOOLEAN

Idle == [kind |-> "idle", contact |-> None, granted |-> FALSE]

Init ==
  /\ session = FirstSession /\ typed = None /\ lookup = None /\ change = None
  /\ contactSlot = Idle /\ consentSlot = "idle" /\ sendSlot = "idle"
  /\ calls = {} /\ consent = {} /\ unsure = {} /\ forgotten = FALSE

-----------------------------------------------------------------------------
(* What the page makes of it. *)
Chosen == <<session, typed>>
ContactId == contactSlot.contact
Resolved == lookup = Chosen /\ contactSlot.kind = "ready" /\ ContactId[2] = typed
ResolutionPending == lookup # None /\ ~Resolved
MutationCurrent == Resolved /\ change # None /\ change.contact = ContactId
ConsentPending == MutationCurrent /\ consentSlot = "submitting"

MutHasServerConsent ==
  Resolved /\ IF MutationCurrent /\ consentSlot = "ready" THEN change.granted ELSE contactSlot.granted
HasServerConsent ==
  /\ Resolved /\ ~ConsentPending
  /\ IF MutationCurrent /\ consentSlot = "ready" THEN change.granted ELSE contactSlot.granted

-----------------------------------------------------------------------------
MayCall == Cardinality(calls) < MaxCalls
Call(op, k, granted) ==
  [op |-> op, target |-> Chosen, contact |-> k, granted |-> granted, current |-> TRUE, answer |-> None]

(* A newer call of its kind takes the token: of a lookup nothing is left to  *)
(* see, a consent is still stored.                                           *)
Superseded(op) ==
  {[c EXCEPT !.current = @ /\ c.op # op] :
     c \in {d \in calls : d.op = op => op = "consent" /\ d.answer = None}}

ClearSelection == lookup' = None /\ change' = None

EditRecipient(p) ==
  /\ typed' = p /\ ClearSelection
  /\ UNCHANGED <<session, slots, calls, consent, unsure, forgotten>>

ChooseSession(s) ==
  /\ s # session /\ session' = s /\ typed' = None /\ ClearSelection
  /\ UNCHANGED <<slots, calls, consent, unsure, forgotten>>

BeginResolution(p) ==
  /\ MayCall
  /\ typed' = p /\ lookup' = <<session, p>> /\ change' = None
  /\ contactSlot' = [Idle EXCEPT !.kind = "submitting"]
  /\ calls' = Superseded("lookup") \cup {[Call("lookup", <<session, p>>, FALSE) EXCEPT !.target = <<session, p>>]}
  /\ UNCHANGED <<session, consentSlot, sendSlot, consent, unsure, forgotten>>

(* The button is off while a lookup is pending; the directory is not. *)
Resolve == typed # None /\ ~ResolutionPending /\ BeginResolution(typed)
PickFromDirectory(p) == BeginResolution(p)

ChangeConsent ==
  LET granted == ~HasServerConsent IN
  /\ MayCall /\ Resolved /\ ~ConsentPending
  /\ change' = [contact |-> ContactId, granted |-> granted]
  /\ consentSlot' = "submitting"
  /\ calls' = Superseded("consent") \cup {Call("consent", ContactId, granted)}
  /\ UNCHANGED <<session, typed, lookup, contactSlot, sendSlot, consent, unsure, forgotten>>

(* Every submission has an idempotency key of its own. *)
Submit ==
  /\ MayCall /\ HasServerConsent /\ sendSlot # "submitting"
  /\ sendSlot' = "submitting" /\ calls' = calls \cup {Call("send", ContactId, FALSE)}
  /\ UNCHANGED <<local, contactSlot, consentSlot, consent, unsure, forgotten>>

(* Another page and back: the form begins again, the slots stay ... *)
Leave ==
  /\ session' = FirstSession /\ typed' = None /\ ClearSelection
  /\ UNCHANGED <<slots, calls, consent, unsure, forgotten>>

(* ... unless the scope or the window of analytics changed meanwhile. *)
LeaveAndReset ==
  /\ session' = FirstSession /\ typed' = None /\ ClearSelection
  /\ contactSlot' = Idle /\ consentSlot' = "idle" /\ sendSlot' = "idle"
  /\ calls' = {[c EXCEPT !.current = c.op = "send"] :
                 c \in {d \in calls : d.op = "send" \/ (d.op = "consent" /\ d.answer = None)}}
  /\ forgotten' = (forgotten \/ \E c \in calls : c.op = "send")
  /\ UNCHANGED <<consent, unsure>>

-----------------------------------------------------------------------------
Outstanding(k) == \E c \in calls : c.op = "consent" /\ c.contact = k /\ c.answer = None
Answered(c, a) == (calls \ {c}) \cup IF c.current THEN {[c EXCEPT !.answer = a]} ELSE {}

(* resolveContact reads the stored consent ... *)
ServeLookup(c) ==
  /\ c.op = "lookup" /\ c.answer = None
  /\ calls' = (calls \ {c}) \cup {[c EXCEPT !.answer = "ready", !.granted = c.contact \in consent]}
  /\ unsure' = IF Outstanding(c.contact) THEN unsure \cup {c.contact} ELSE unsure \ {c.contact}
  /\ UNCHANGED <<local, slots, consent, forgotten>>

(* ... setConsent stores it, and the contact must be the session's ... *)
ServeConsent(c) ==
  /\ c.op = "consent" /\ c.answer = None /\ c.contact[1] = c.target[1]
  /\ consent' = IF c.granted THEN consent \cup {c.contact} ELSE consent \ {c.contact}
  /\ calls' = Answered(c, "ready")
  /\ UNCHANGED <<local, slots, unsure, forgotten>>

(* ... and a text is accepted for a contact that granted it. *)
ServeSend(c) ==
  /\ c.op = "send" /\ c.answer = None
  /\ calls' = Answered(c, IF c.contact \in consent THEN "ready" ELSE "error")
  /\ UNCHANGED <<local, slots, consent, unsure, forgotten>>

(* The server refuses, or the answer is lost, or the request is: then it may *)
(* still be on its way.                                                      *)
Fail(c) ==
  /\ c.current /\ c.answer # "error"
  /\ \E orphan \in {{}, {[d EXCEPT !.current = FALSE] : d \in {c} \cap {x \in calls : x.op = "consent" /\ x.answer = None}}} :
       calls' = Answered(c, "error") \cup orphan
  /\ unsure' = IF c.op = "consent" THEN unsure \cup {c.contact} ELSE unsure
  /\ UNCHANGED <<local, slots, consent, forgotten>>

(* Another operator decides, or the contact replies "stop" elsewhere. *)
OtherChange(k) ==
  /\ consent' = IF k \in consent THEN consent \ {k} ELSE consent \cup {k}
  /\ unsure' = unsure \cup {k}
  /\ UNCHANGED <<local, slots, calls, forgotten>>

ShowLookup(c) ==
  /\ c.op = "lookup" /\ c.answer # None /\ calls' = calls \ {c}
  /\ contactSlot' = IF c.answer = "ready" THEN [kind |-> "ready", contact |-> c.contact, granted |-> c.granted]
                    ELSE [Idle EXCEPT !.kind = "error"]
  /\ UNCHANGED <<local, consentSlot, sendSlot, consent, unsure, forgotten>>

ShowConsent(c) ==
  /\ c.op = "consent" /\ c.answer # None /\ calls' = calls \ {c}
  /\ consentSlot' = c.answer
  /\ UNCHANGED <<local, contactSlot, sendSlot, consent, unsure, forgotten>>

ShowSend(c) ==
  /\ c.op = "send" /\ c.answer # None /\ calls' = calls \ {c}
  /\ sendSlot' = c.answer
  /\ UNCHANGED <<local, contactSlot, consentSlot, consent, unsure, forgotten>>

Next ==
  \/ \E p \in Phones : EditRecipient(p) \/ PickFromDirectory(p)
  \/ \E s \in Sessions : ChooseSession(s)
  \/ Resolve \/ ChangeConsent \/ Submit \/ Leave \/ LeaveAndReset
  \/ \E k \in Elsewhere : OtherChange(k)
  \/ \E c \in calls :
       \/ ServeLookup(c) \/ ServeConsent(c) \/ ServeSend(c) \/ Fail(c)
       \/ ShowLookup(c) \/ ShowConsent(c) \/ ShowSend(c)

Spec == Init /\ [][Next]_vars

-----------------------------------------------------------------------------
(* The contact verified is the one chosen: its session is never compared     *)
(* with the chosen one, it follows from what clears a selection and from     *)
(* the tokens.                                                               *)
VerifiesTheChosen == Resolved => ContactId = Chosen

(* "Consent recorded" is shown only of a consent the server holds, unless    *)
(* somebody else changed it, an answer was lost, or the contact was looked   *)
(* up again before a change of it had arrived.                               *)
ConsentShown == HasServerConsent => Chosen \in consent \cup unsure

(* What is pending waits for an answer; a lookup that failed goes on saying  *)
(* "Resolving..." beside its error until the number is edited.               *)
PendingAnswered ==
  /\ ResolutionPending => contactSlot.kind = "error" \/ \E c \in calls : c.op = "lookup" /\ c.target = lookup
  /\ ConsentPending => \E c \in calls : c.op = "consent" /\ c.current
  /\ sendSlot = "submitting" => \E c \in calls : c.op = "send"

(* A text names the verified contact of its own session and number, and the  *)
(* next one is submitted after the answer, unless a reset hid the first.     *)
TextsAgree ==
  /\ \A c \in calls : c.op = "send" => c.contact = c.target
  /\ ~forgotten => Cardinality({c \in calls : c.op = "send"}) <= 1

RecipientInv == TypeOK /\ VerifiesTheChosen /\ ConsentShown /\ PendingAnswered /\ TextsAgree
=============================================================================
