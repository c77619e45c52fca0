------------------------------- MODULE Dashboard -------------------------------
(***************************************************************************)
(* The controllers of the web application (dashboard-controller.ts and its *)
(* companions): what each part of the screen shows while the user changes  *)
(* the account scope and answers arrive late, in any order, or not at all. *)
(* Three disciplines meet: loads an effect gives up when it runs again,    *)
(* calls that carry a token or a generation, and calls whose answer counts *)
(* whatever happened since.  An answer that would be ignored is out of the *)
(* model from the moment it would.                                         *)
(***************************************************************************)
EXTENDS Integers, FiniteSets

CONSTANTS
  Scopes,       \* account scopes
  FirstScope,   \* the scope shown at first
  AdminIn,      \* scopes in which the user is an administrator
  Categories,   \* of retention
  FirstCategory,
  Slots,        \* the parts of the screen followed
  Tokened,      \* those whose call carries a token: contact, consent
  Free,         \* those whose call carries nothing: send, schedule, saves, ...
  None,
  MaxCalls      \* calls of the user under way together

VARIABLES
  scope, category,
  principal,    \* loading, ready, or denied: then the login form is shown
  screen,       \* what each slot shows, and whose
  request,      \* requests under way whose answer counts
  cookie,       \* server: the browser's login session is valid
  previews,     \* server: previews that may be purged
  deleted,      \* history: what was purged
  agreed        \* history: what the user saw previewed and confirmed, where it was shown

vars == <<scope, category, principal, screen, request, cookie, previews, deleted, agreed>>

Loads == {"sessions", "controls", "alerts"}
Kinds == {"idle", "loading", "submitting", "ready", "error", "denied"}
Shown == [kind : Kinds, scope : Scopes \cup {None}, category : Categories \cup {None}]
Item == [scope : Scopes, category : Categories]

TypeOK ==
  /\ scope \in Scopes /\ category \in Categories
  /\ principal \in {"loading", "ready", "denied"}
  /\ screen \in [Slots -> Shown]
  /\ cookie \in BOOLEAN /\ previews \subseteq Item /\ deleted \subseteq Item /\ agreed \subseteq Item

Is(kind) == [kind |-> kind, scope |-> None, category |-> None]
Call(op, s) == [op |-> op, scope |-> s, category |-> None, token |-> None, fresh |-> TRUE, answer |-> None]
Blank == [s \in Slots |-> IF s \in Loads THEN Is("loading") ELSE Is("idle")]

Boot ==
  /\ scope = FirstScope /\ category = FirstCategory
  /\ principal = "loading" /\ screen = Blank /\ request = {Call("principal", None)}
Init == Boot /\ cookie \in BOOLEAN /\ previews = {} /\ deleted = {} /\ agreed = {}

IsAdmin(s) == s \in AdminIn
Underway(op) == {c \in request : c.op = op}
Server == <<cookie, previews, deleted>>

-----------------------------------------------------------------------------
(* The effect of the main controller, run for a principal, a scope and a     *)
(* window of analytics: slots begin again, tokens go up, loads start.        *)
MainSlots == {"sessions", "controls", "preview", "purge"} \cup Tokened \cup Free
MainScreen(from, s) ==
  [x \in Slots |->
    IF x \notin MainSlots THEN from[x]
    ELSE IF x = "controls" /\ ~IsAdmin(s) THEN Is("denied") ELSE Blank[x]]
MainLoads(s) == {c \in {Call("sessions", s), Call("controls", s)} :
                   c.op \in Slots /\ (c.op = "controls" => IsAdmin(s))}
MutGivenUp == {"controls"} \cup Tokened
GivenUp == {"sessions", "controls"} \cup Tokened

(* The effects of the operations and session controllers, run for a scope    *)
(* and a role.                                                               *)
AlertScreen(from, s) ==
  [x \in Slots |-> IF x # "alerts" THEN from[x] ELSE IF IsAdmin(s) THEN Is("loading") ELSE Is("denied")]
AlertLoads(s) == IF "alerts" \in Slots /\ IsAdmin(s) THEN {Call("alerts", s)} ELSE {}
SessionScreen(from) == [x \in Slots |-> IF x = "lifecycle" THEN Is("idle") ELSE from[x]]

SetWindow ==
  /\ principal = "ready"
  /\ screen' = MainScreen(screen, scope)
  /\ request' = {c \in request : c.op \notin GivenUp} \cup MainLoads(scope)
  /\ UNCHANGED <<scope, category, principal, Server, agreed>>

(* setDashboardScope: a new generation, and every effect runs. *)
SetScope(s) ==
  /\ principal = "ready" /\ s # scope
  /\ scope' = s
  /\ screen' = SessionScreen(AlertScreen(MainScreen(screen, s), s))
  /\ request' = {[c EXCEPT !.fresh = FALSE] : c \in {d \in request : d.op \notin GivenUp \cup {"refresh", "alerts"}}}
                \cup MainLoads(s) \cup AlertLoads(s)
  /\ UNCHANGED <<category, principal, Server, agreed>>

ShowPrincipal(c) ==
  /\ c.op = "principal" /\ c.answer # None
  /\ IF c.answer = "ready"
     THEN /\ principal' = "ready"
          /\ screen' = AlertScreen(MainScreen(screen, scope), scope)
          /\ request' = (request \ {c}) \cup MainLoads(scope) \cup AlertLoads(scope)
     ELSE principal' = "denied" /\ request' = request \ {c} /\ UNCHANGED screen
  /\ UNCHANGED <<scope, category, Server, agreed>>

-----------------------------------------------------------------------------
(* The user acts.  A slot that is busy has its button disabled only in some  *)
(* forms, so two calls of one slot may be under way.                         *)
MayCall == principal = "ready" /\ Cardinality({c \in request : c.op \notin Loads}) < MaxCalls
Begin(slot, c) ==
  /\ MayCall /\ slot \in Slots
  /\ screen' = [screen EXCEPT ![slot] = Is("submitting")]
  /\ request' = request \cup {c}
  /\ UNCHANGED <<scope, category, principal, Server>>

(* resolveContact and setContactConsent: a new token gives up the older call *)
BeginTokened(t) ==
  /\ MayCall
  /\ screen' = [screen EXCEPT ![t] = Is("submitting")]
  /\ request' = (request \ Underway(t)) \cup {Call(t, scope)}
  /\ UNCHANGED <<scope, category, principal, Server, agreed>>

(* send, schedule; the saves of the operations controller; create and status *)
Submit(f) == Begin(f, Call(f, scope)) /\ UNCHANGED agreed

Lifecycle == Begin("lifecycle", Call("lifecycle", scope)) /\ UNCHANGED agreed

LoadNotificationHistory ==
  /\ MayCall /\ IsAdmin(scope) /\ "alerts" \in Slots
  /\ screen' = [screen EXCEPT !["alerts"] = Is("loading")]
  /\ request' = request \cup {Call("reload", scope)}
  /\ UNCHANGED <<scope, category, principal, Server, agreed>>

SetCategory(k) ==
  /\ principal = "ready" /\ IsAdmin(scope) /\ k # category /\ category' = k
  /\ UNCHANGED <<scope, principal, screen, request, Server, agreed>>

PreviewPurge ==
  /\ "preview" \in Slots /\ IsAdmin(scope) /\ screen["preview"].kind # "submitting"
  /\ Begin("preview", [Call("preview", scope) EXCEPT !.category = category]) /\ UNCHANGED agreed

ClearPurgePreview ==
  /\ "preview" \in Slots /\ IsAdmin(scope) /\ screen["preview"].kind = "ready"
  /\ screen' = [screen EXCEPT !["preview"] = Is("idle")]
  /\ UNCHANGED <<scope, category, principal, request, Server, agreed>>

(* The confirmation names the scope and the category chosen now, and the     *)
(* preview shown, whichever they are.                                        *)
Purge ==
  LET shown == [scope |-> screen["preview"].scope, category |-> screen["preview"].category] IN
  /\ {"preview", "purge"} \subseteq Slots /\ IsAdmin(scope) /\ screen["preview"].kind = "ready" /\ screen["purge"].kind # "submitting"
  /\ Begin("purge", [Call("purge", scope) EXCEPT !.category = category, !.token = shown])
  /\ agreed' = IF shown = [scope |-> scope, category |-> category] THEN agreed \cup {shown} ELSE agreed

Logout ==
  /\ MayCall /\ Underway("logout") = {}
  /\ request' = request \cup {Call("logout", None)}
  /\ UNCHANGED <<scope, category, principal, screen, Server, agreed>>

(* The login form is there until the principal is known. *)
Login ==
  /\ principal # "ready" /\ Underway("login") = {}
  /\ request' = request \cup {Call("login", None)}
  /\ UNCHANGED <<scope, category, principal, screen, Server, agreed>>

-----------------------------------------------------------------------------
Answer(c, a) == request' = (request \ {c}) \cup {[c EXCEPT !.answer = a]}

(* the check of the retention service on what it is asked to purge *)
MutPurgeable(c) == c.token \in previews /\ c.token.category = c.category
Purgeable(c) ==
  c.token \in previews /\ c.token.scope = c.scope /\ c.token.category = c.category

Serve(c) ==
  LET ok == cookie /\ (c.op = "purge" => Purgeable(c)) IN
  /\ c.answer = None /\ c.op # "login"
  /\ Answer(c, IF ok THEN "ready" ELSE IF c.op = "principal" THEN "denied" ELSE "error")
  /\ cookie' = (cookie /\ c.op # "logout")
  /\ previews' = IF ~ok THEN previews
                 ELSE IF c.op = "preview" THEN previews \cup {[scope |-> c.scope, category |-> c.category]}
                 ELSE IF c.op = "purge" THEN previews \ {c.token} ELSE previews
  /\ deleted' = IF ok /\ c.op = "purge"
                THEN deleted \cup {[scope |-> c.scope, category |-> c.category]} ELSE deleted
  /\ UNCHANGED <<scope, category, principal, screen, agreed>>

ServeLogin(c, accepted) ==
  /\ c.answer = None /\ c.op = "login"
  /\ Answer(c, IF accepted THEN "ready" ELSE "error")
  /\ cookie' = (cookie \/ accepted)
  /\ UNCHANGED <<scope, category, principal, screen, previews, deleted, agreed>>

(* The request, or its answer, is lost. *)
Lose(c) ==
  /\ c.answer # "error" /\ Answer(c, "error")
  /\ UNCHANGED <<scope, category, principal, screen, Server, agreed>>

SlotOf(op) == IF op = "refresh" THEN "sessions" ELSE IF op = "reload" THEN "alerts" ELSE op

(* After a lifecycle call the sessions are read again, in the scope of then. *)
Refreshes(c) ==
  IF c.op = "lifecycle" /\ c.fresh /\ "sessions" \in Slots THEN {Call("refresh", c.scope)} ELSE {}

ShowAnswer(c) ==
  /\ c.answer # None /\ c.op \notin {"principal", "login", "logout"}
  /\ screen' = [screen EXCEPT ![SlotOf(c.op)] =
                  [kind |-> c.answer, scope |-> c.scope, category |-> c.category]]
  /\ request' = (request \ {c}) \cup Refreshes(c)
  /\ UNCHANGED <<scope, category, principal, Server, agreed>>

(* Only a logout that succeeded brings the login form back. *)
ShowLogout(c) ==
  /\ c.op = "logout" /\ c.answer # None
  /\ principal' = IF c.answer = "ready" THEN "denied" ELSE principal
  /\ request' = (request \ {c}) \ IF c.answer = "ready" THEN UNION {Underway(x) : x \in GivenUp} ELSE {}
  /\ UNCHANGED <<scope, category, screen, Server, agreed>>

(* A login that succeeded loads the page afresh. *)
ShowLogin(c) ==
  /\ c.op = "login" /\ c.answer # None
  /\ IF c.answer = "ready"
     THEN /\ scope' = FirstScope /\ category' = FirstCategory /\ principal' = "loading"
          /\ screen' = Blank /\ request' = {Call("principal", None)}
     ELSE request' = request \ {c} /\ UNCHANGED <<scope, category, principal, screen>>
  /\ UNCHANGED <<Server, agreed>>

Next ==
  \/ SetWindow \/ \E s \in Scopes : SetScope(s)
  \/ \E t \in Tokened : BeginTokened(t)
  \/ \E f \in Free : Submit(f)
  \/ Lifecycle \/ LoadNotificationHistory
  \/ \E k \in Categories : SetCategory(k)
  \/ PreviewPurge \/ ClearPurgePreview \/ Purge \/ Logout \/ Login
  \/ \E c \in request :
       \/ Serve(c) \/ Lose(c) \/ ShowPrincipal(c) \/ ShowAnswer(c) \/ ShowLogout(c) \/ ShowLogin(c)
       \/ \E accepted \in BOOLEAN : ServeLogin(c, accepted)

Spec == Init /\ [][Next]_vars

-----------------------------------------------------------------------------
(* The sessions, the administrator's controls and the contact on the screen  *)
(* are those of the scope above them, however late an answer of the other    *)
(* scope comes, or an answer to a refresh begun there (isCurrent,            *)
(* scopeRequestIsCurrent, requestTokenIsCurrent).                            *)
OfThisScope ==
  \A x \in Slots \cap ({"sessions", "controls"} \cup Tokened) : screen[x].kind = "ready" => screen[x].scope = scope

AdminsOnly == "controls" \in Slots /\ screen["controls"].kind = "ready" => IsAdmin(scope)

(* What loads or is submitted waits for an answer that will be shown. *)
NoLostSpinner ==
  principal = "ready" =>
    \A x \in Slots : screen[x].kind \in {"loading", "submitting"} => \E c \in request : SlotOf(c.op) = x

(* One call of a token is waited for: an outcome shown is the last call's. *)
LastCallShown ==
  principal = "ready" =>
    \A t \in Tokened : Cardinality(Underway(t)) <= 1 /\ (Underway(t) # {} <=> screen[t].kind = "submitting")

(* "A stale preview, mismatched scope, or missing confirmation must fail     *)
(* closed": the previews of another scope or category may be on the screen,  *)
(* but what is purged was previewed and confirmed where it is.               *)
PurgeFailsClosed == deleted \subseteq agreed

DashboardInv ==
  TypeOK /\ OfThisScope /\ AdminsOnly /\ NoLostSpinner /\ LastCallShown /\ PurgeFailsClosed
=============================================================================
