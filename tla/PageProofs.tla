------------------------------ MODULE PageProofs ------------------------------
(***************************************************************************)
(* Proofs about the pages of the web application, for every value of their *)
(* constants.  A page is an instance with variables and constants that     *)
(* carry its letter.                                                       *)
(***************************************************************************)
EXTENDS Integers, Sequences, FiniteSets, FiniteSetTheorems, WellFoundedInduction, TLAPS

CONSTANTS
  None,
  DScopes, DFirstScope, DAdminIn, DCategories, DFirstCategory, DSlots, DTokened, DFree,
  DMaxCalls,
  PSessions, PFirstSession, PPhones, PElsewhere, PMaxCalls,
  VJobs, VStates, VPageSize, VMaxChanges,
  KSessions, KFirstSession, KRefs, KAttempts, KMaxRetries,
  QIds, QKnown, QDeeds, QPairs, QMaxPolls, QMaxMounts, QMaxCalls,
  WUsers, WSelf, WNew, WOps, WPageSize, WMaxLists, WKeys

VARIABLES
  dScope, dCategory, dPrincipal, dScreen, dRequest, dCookie, dPreviews, dDeleted, dAgreed,
  pSession, pTyped, pLookup, pChange, pContactSlot, pConsentSlot, pSendSlot, pCalls,
  pConsent, pUnsure, pForgotten,
  vStored, vQuery, vHistory, vSelected, vDetail, vAction, vOpen, vConfirming, vRequest,
  vGone, vBehind, vVerdictOf, vUnasked,
  kSession, kChats, kOpen, kMessages, kCalls, kTimer, kWarm, kTries, kAgain, kStray,
  kWarmed,
  qStored, qLast, qList, qPage, qCreate, qLifecycle, qPanel, qRun, qCall, qMounts,
  qStarted, qMoved,
  wStored, wUsers, wFilter, wMenus, wModal, wAction, wCall, wLists, wOthers, wKeyed,
  wOvertaken, wUnseen

D == INSTANCE Dashboard WITH
  scope <- dScope, category <- dCategory, principal <- dPrincipal, screen <- dScreen,
  request <- dRequest, cookie <- dCookie, previews <- dPreviews, deleted <- dDeleted,
  agreed <- dAgreed, Scopes <- DScopes, FirstScope <- DFirstScope, AdminIn <- DAdminIn,
  Categories <- DCategories, FirstCategory <- DFirstCategory, Slots <- DSlots, Tokened <-
  DTokened, Free <- DFree, MaxCalls <- DMaxCalls

P == INSTANCE Recipient WITH
  session <- pSession, typed <- pTyped, lookup <- pLookup, change <- pChange, contactSlot
  <- pContactSlot, consentSlot <- pConsentSlot, sendSlot <- pSendSlot, calls <- pCalls,
  consent <- pConsent, unsure <- pUnsure, forgotten <- pForgotten, Sessions <- PSessions,
  FirstSession <- PFirstSession, Phones <- PPhones, Elsewhere <- PElsewhere, MaxCalls <-
  PMaxCalls

V == INSTANCE HistoryView WITH
  stored <- vStored, query <- vQuery, history <- vHistory, selected <- vSelected, detail
  <- vDetail, action <- vAction, open <- vOpen, confirming <- vConfirming, request <-
  vRequest, gone <- vGone, behind <- vBehind, verdictOf <- vVerdictOf, unasked <-
  vUnasked, Jobs <- VJobs, States <- VStates, PageSize <- VPageSize, MaxChanges <-
  VMaxChanges

K == INSTANCE ChatDirectory WITH
  session <- kSession, chats <- kChats, open <- kOpen, messages <- kMessages, calls <-
  kCalls, timer <- kTimer, warm <- kWarm, tries <- kTries, again <- kAgain, stray <-
  kStray, warmed <- kWarmed, Sessions <- KSessions, FirstSession <- KFirstSession, Refs <-
  KRefs, Attempts <- KAttempts, MaxRetries <- KMaxRetries

Q == INSTANCE SessionPage WITH
  stored <- qStored, last <- qLast, list <- qList, page <- qPage, create <- qCreate,
  lifecycle <- qLifecycle, panel <- qPanel, run <- qRun, call <- qCall, mounts <- qMounts,
  started <- qStarted, moved <- qMoved, Ids <- QIds, Known <- QKnown, Deeds <- QDeeds,
  Pairs <- QPairs, MaxPolls <- QMaxPolls, MaxMounts <- QMaxMounts, MaxCalls <- QMaxCalls

W == INSTANCE UserAccess WITH
  stored <- wStored, users <- wUsers, filter <- wFilter, menus <- wMenus, modal <- wModal,
  action <- wAction, call <- wCall, lists <- wLists, others <- wOthers, keyed <- wKeyed,
  overtaken <- wOvertaken, unseen <- wUnseen, Users <- WUsers, Self <- WSelf, New <- WNew,
  Ops <- WOps, PageSize <- WPageSize, MaxLists <- WMaxLists, Keys <- WKeys

-----------------------------------------------------------------------------
(* Dashboard *)

(* The cardinality is the library's. *)
LEMMA DCardinality == \A set : D!Cardinality(set) = Cardinality(set)
BY DEF D!Cardinality, Cardinality

Fixed == {"principal", "login", "logout", "refresh", "reload",
          "sessions", "controls", "alerts", "lifecycle", "preview", "purge"}

(* The parts of the screen are known by different names.                   *)
DashboardAssumption ==
  /\ DFirstScope \in DScopes /\ DFirstCategory \in DCategories
  /\ DTokened \subseteq DSlots /\ DTokened \cap (Fixed \cup DFree) = {} /\ DFree \cap Fixed = {}
  /\ {"principal", "login", "logout"} \cap DSlots = {}

Kept == {"sessions", "controls"} \cup DTokened
Request ==
  [op : Fixed \cup DTokened \cup DFree, scope : DScopes \cup {None}, category : DCategories \cup {None},
   token : [scope : DScopes \cup {None}, category : DCategories \cup {None}] \cup {None},
   fresh : BOOLEAN, answer : {None, "ready", "error", "denied"}]

(* A call whose answer counts: what the effects give up is of the scope that *)
(* is shown, and so is what a session's call reads again; a purge of what    *)
(* was previewed where it is was agreed on.                                  *)
Sound(c) ==
  /\ D!SlotOf(c.op) \in Kept => c.scope = dScope
  /\ c.op = "controls" => D!IsAdmin(dScope)
  /\ c.op = "lifecycle" /\ c.fresh => c.scope = dScope
  /\ c.op = "preview" => c.scope \in DScopes /\ c.category \in DCategories
  /\ c.op = "purge" /\ c.token = [scope |-> c.scope, category |-> c.category] => c.token \in dAgreed
RequestsSound == \A c \in dRequest : c \in Request /\ Sound(c)

(* Until the principal is known nothing but the page's own call and a login  *)
(* is under way, and there is one such call.                                 *)
Booting ==
  /\ dPrincipal = "loading" => dScreen = D!Blank /\ \A c \in dRequest : c.op \in {"principal", "login"}
  /\ dPrincipal # "loading" => D!Underway("principal") = {}
  /\ \A c, d \in D!Underway("principal") : c = d

(* LastCallShown, without the count                                          *)
OneTokenCall ==
  dPrincipal = "ready" =>
    \A t \in DTokened :
      /\ \A c, d \in D!Underway(t) : c = d
      /\ D!Underway(t) # {} <=> dScreen[t].kind = "submitting"

DashboardIInv ==
  /\ D!TypeOK /\ RequestsSound /\ Booting /\ OneTokenCall
  /\ D!OfThisScope /\ D!AdminsOnly /\ D!NoLostSpinner /\ D!PurgeFailsClosed

LEMMA InitDashboard ==
  ASSUME DashboardAssumption, D!Init
  PROVE  DashboardIInv
<1>1. dScreen = D!Blank /\ dScreen \in [DSlots -> D!Shown] /\ \A x \in DSlots : dScreen[x].kind # "ready"
  BY DEF D!Init, D!Boot, D!Blank, D!Is, D!Shown, D!Kinds
<1>2. dRequest = {D!Call("principal", None)} /\ dPrincipal = "loading"
  BY DEF D!Init, D!Boot
<1>3. D!TypeOK
  BY <1>1 DEF DashboardAssumption, D!Init, D!Boot, D!TypeOK
<1>4. \A c \in dRequest : c \in Request /\ c.op = "principal"
  <2>1. D!Call("principal", None) \in Request /\ D!Call("principal", None).op = "principal"
    BY DEF Request, D!Call, Fixed
  <2> QED
    BY <1>2, <2>1
<1>5. RequestsSound
  BY <1>4 DEF RequestsSound, Sound, D!SlotOf, Kept, Fixed, DashboardAssumption
<1>6. Booting
  BY <1>1, <1>2, <1>4 DEF Booting, D!Underway
<1>7. OneTokenCall /\ D!NoLostSpinner
  BY <1>2 DEF OneTokenCall, D!NoLostSpinner
<1>8. D!OfThisScope /\ D!AdminsOnly /\ D!PurgeFailsClosed
  BY <1>1 DEF D!Init, D!OfThisScope, D!AdminsOnly, D!PurgeFailsClosed
<1> QED
  BY <1>3, <1>5, <1>6, <1>7, <1>8 DEF DashboardIInv

-----------------------------------------------------------------------------
(* What the effects make of the screen.                                     *)
LEMMA MainScreenIs ==
  ASSUME DashboardAssumption, NEW from \in [DSlots -> D!Shown], NEW s
  PROVE  /\ D!MainScreen(from, s) \in [DSlots -> D!Shown]
         /\ \A x \in DSlots \cap D!MainSlots :
              /\ D!MainScreen(from, s)[x].kind \in {"loading", "idle", "denied"}
              /\ D!MainScreen(from, s)[x].kind = "loading" => \E c \in D!MainLoads(s) : c.op = x
              /\ x \in DTokened => D!MainScreen(from, s)[x].kind = "idle"
         /\ \A x \in DSlots \ D!MainSlots : D!MainScreen(from, s)[x] = from[x]
<1>1. \A x \in DSlots : D!Blank[x] \in D!Shown /\ D!Is("denied") \in D!Shown
  BY DEF D!Blank, D!Is, D!Shown, D!Kinds
<1>2. \A x \in DSlots : D!MainScreen(from, s)[x] =
        IF x \notin D!MainSlots THEN from[x]
        ELSE IF x = "controls" /\ ~D!IsAdmin(s) THEN D!Is("denied") ELSE D!Blank[x]
  BY DEF D!MainScreen
<1>3. D!MainScreen(from, s) \in [DSlots -> D!Shown]
  BY <1>1, <1>2 DEF D!MainScreen
<1>4. ASSUME NEW x \in DSlots \cap D!MainSlots
      PROVE  /\ D!MainScreen(from, s)[x].kind \in {"loading", "idle", "denied"}
             /\ D!MainScreen(from, s)[x].kind = "loading" => \E c \in D!MainLoads(s) : c.op = x
             /\ x \in DTokened => D!MainScreen(from, s)[x].kind = "idle"
  <2>1. CASE x \in {"sessions", "controls"}
    <3>1. x = "controls" => D!IsAdmin(s) \/ D!MainScreen(from, s)[x].kind = "denied"
      BY <1>2 DEF D!Is
    <3>2. D!Call(x, s).op = x
      BY DEF D!Call
    <3>3. D!IsAdmin(s) \/ x = "sessions" => D!Call(x, s) \in D!MainLoads(s)
      BY <2>1, <3>2 DEF D!MainLoads
    <3>4. x \notin DTokened
      BY <2>1 DEF DashboardAssumption, Fixed
    <3> QED
      BY <1>2, <2>1, <3>1, <3>2, <3>3, <3>4 DEF D!Is, D!Blank
  <2>2. CASE x \notin {"sessions", "controls"}
    <3>1. x \notin D!Loads
      BY <2>2 DEF D!Loads, D!MainSlots, DashboardAssumption, Fixed
    <3> QED
      BY <1>2, <2>2, <3>1 DEF D!Is, D!Blank
  <2> QED
    BY <2>1, <2>2
<1> QED
  BY <1>2, <1>3, <1>4

LEMMA AlertScreenIs ==
  ASSUME NEW from \in [DSlots -> D!Shown], NEW s
  PROVE  /\ D!AlertScreen(from, s) \in [DSlots -> D!Shown]
         /\ \A x \in DSlots \ {"alerts"} : D!AlertScreen(from, s)[x] = from[x]
         /\ "alerts" \in DSlots =>
              /\ D!AlertScreen(from, s)["alerts"].kind \in {"loading", "denied"}
              /\ D!AlertScreen(from, s)["alerts"].kind = "loading" => \E c \in D!AlertLoads(s) : c.op = "alerts"
<1>1. D!Is("loading") \in D!Shown /\ D!Is("denied") \in D!Shown
  BY DEF D!Is, D!Shown, D!Kinds
<1> QED
  BY <1>1 DEF D!AlertScreen, D!AlertLoads, D!Is, D!Call

(* The loads an effect starts.                                              *)
LEMMA LoadsAre ==
  ASSUME DashboardAssumption, NEW s \in DScopes, NEW c \in D!MainLoads(s) \cup D!AlertLoads(s)
  PROVE  /\ c \in Request /\ c.op \in {"sessions", "controls", "alerts"} /\ c.scope = s
         /\ c.op = "controls" => D!IsAdmin(s)
<1>1. \A op \in Fixed : D!Call(op, s) \in Request /\ D!Call(op, s).op = op /\ D!Call(op, s).scope = s
  BY DEF D!Call, Request
<1> QED
  BY <1>1 DEF D!MainLoads, D!AlertLoads, Fixed

-----------------------------------------------------------------------------
(* The effects run again: what they start replaces what they give up, and    *)
(* every load that remains is of another part.                               *)
LEMMA SetWindowKeeps ==
  ASSUME DashboardAssumption, DashboardIInv, D!SetWindow
  PROVE  DashboardIInv'
<1>1. /\ dPrincipal = "ready" /\ dScreen' = D!MainScreen(dScreen, dScope)
      /\ dRequest' = {c \in dRequest : c.op \notin D!GivenUp} \cup D!MainLoads(dScope)
      /\ UNCHANGED <<dScope, dCategory, dPrincipal, dCookie, dPreviews, dDeleted, dAgreed>>
  BY DEF D!SetWindow, D!Server
<1>2. dScreen \in [DSlots -> D!Shown] /\ dScope \in DScopes
  BY DEF DashboardIInv, D!TypeOK
<1>3. /\ dScreen' \in [DSlots -> D!Shown]
      /\ \A x \in DSlots \cap D!MainSlots :
           /\ dScreen'[x].kind \in {"loading", "idle", "denied"}
           /\ dScreen'[x].kind = "loading" => \E c \in D!MainLoads(dScope) : c.op = x
           /\ x \in DTokened => dScreen'[x].kind = "idle"
      /\ \A x \in DSlots \ D!MainSlots : dScreen'[x] = dScreen[x]
  BY <1>1, <1>2, MainScreenIs
<1>4. \A c \in D!MainLoads(dScope) :
        /\ c \in Request /\ c.op \in {"sessions", "controls", "alerts"} /\ c.scope = dScope
        /\ c.op = "controls" => D!IsAdmin(dScope)
  BY <1>2, LoadsAre
<1>5. D!TypeOK'
  BY <1>1, <1>3 DEF DashboardIInv, D!TypeOK
<1>6. RequestsSound'
  BY <1>1, <1>4 DEF DashboardIInv, RequestsSound, Sound, D!SlotOf
<1>7. Booting'
  BY <1>1, <1>4 DEF DashboardIInv, Booting, D!Underway
<1>8. \A t \in DTokened : t \in DSlots \cap D!MainSlots /\ t \notin {"sessions", "controls", "alerts"} /\ t \in D!GivenUp
  BY DEF DashboardAssumption, D!MainSlots, D!GivenUp, Fixed
<1>9. OneTokenCall'
  BY <1>1, <1>3, <1>4, <1>8 DEF OneTokenCall, D!Underway
<1>10. D!OfThisScope' /\ D!AdminsOnly'
  BY <1>3, <1>8 DEF D!OfThisScope, D!AdminsOnly, D!MainSlots
<1>11. D!NoLostSpinner'
  <2> SUFFICES ASSUME NEW x \in DSlots, dScreen'[x].kind \in {"loading", "submitting"}
               PROVE  \E c \in dRequest' : D!SlotOf(c.op) = x
    BY DEF D!NoLostSpinner
  <2>1. CASE x \in D!MainSlots
    BY <1>1, <1>3, <1>4, <2>1 DEF D!SlotOf
  <2>2. CASE x \notin D!MainSlots
    <3>1. PICK c \in dRequest : D!SlotOf(c.op) = x
      BY <1>1, <1>3, <2>2 DEF DashboardIInv, D!NoLostSpinner
    <3>2. c.op \notin D!GivenUp
      BY <2>2, <3>1 DEF D!GivenUp, D!MainSlots, D!SlotOf, DashboardAssumption, Fixed
    <3> QED
      BY <1>1, <3>1, <3>2
  <2> QED
    BY <2>1, <2>2
<1> QED
  BY <1>1, <1>5, <1>6, <1>7, <1>9, <1>10, <1>11 DEF DashboardIInv, D!PurgeFailsClosed

LEMMA SetScopeKeeps ==
  ASSUME DashboardAssumption, DashboardIInv, NEW s \in DScopes, D!SetScope(s)
  PROVE  DashboardIInv'
<1> DEFINE old == {d \in dRequest : d.op \notin D!GivenUp \cup {"refresh", "alerts"}}
           stale(c) == [c EXCEPT !.fresh = FALSE]
           main == D!MainScreen(dScreen, s)
           alert == D!AlertScreen(main, s)
<1>1. /\ dPrincipal = "ready" /\ dScope' = s /\ dScreen' = D!SessionScreen(alert)
      /\ dRequest' = {stale(c) : c \in old} \cup D!MainLoads(s) \cup D!AlertLoads(s)
      /\ UNCHANGED <<dCategory, dPrincipal, dCookie, dPreviews, dDeleted, dAgreed>>
  BY DEF D!SetScope, D!Server
<1>2. dScreen \in [DSlots -> D!Shown] /\ dScope \in DScopes
  BY DEF DashboardIInv, D!TypeOK
<1>3. /\ main \in [DSlots -> D!Shown]
      /\ \A x \in DSlots \cap D!MainSlots :
           /\ main[x].kind \in {"loading", "idle", "denied"}
           /\ main[x].kind = "loading" => \E c \in D!MainLoads(s) : c.op = x
           /\ x \in DTokened => main[x].kind = "idle"
      /\ \A x \in DSlots \ D!MainSlots : main[x] = dScreen[x]
  BY <1>2, MainScreenIs
<1>4. /\ alert \in [DSlots -> D!Shown]
      /\ \A x \in DSlots \ {"alerts"} : alert[x] = main[x]
      /\ "alerts" \in DSlots =>
           /\ alert["alerts"].kind \in {"loading", "denied"}
           /\ alert["alerts"].kind = "loading" => \E c \in D!AlertLoads(s) : c.op = "alerts"
  BY <1>3, AlertScreenIs
<1>5. \A c \in D!MainLoads(s) \cup D!AlertLoads(s) :
        /\ c \in Request /\ c.op \in {"sessions", "controls", "alerts"} /\ c.scope = s
        /\ c.op = "controls" => D!IsAdmin(s)
  BY LoadsAre
<1> HIDE DEF main, alert
<1>6. /\ dScreen' \in [DSlots -> D!Shown]
      /\ \A x \in DSlots \ {"lifecycle"} : dScreen'[x] = alert[x]
      /\ "lifecycle" \in DSlots => dScreen'["lifecycle"].kind = "idle"
  <2>1. D!Is("idle") \in D!Shown
    BY DEF D!Is, D!Shown, D!Kinds
  <2> QED
    BY <1>1, <1>4, <2>1 DEF D!SessionScreen, D!Is
<1>7. \A t \in DTokened : t \in DSlots \cap D!MainSlots /\ t \notin {"sessions", "controls", "alerts", "lifecycle"} /\ t \in D!GivenUp
  BY DEF DashboardAssumption, D!MainSlots, D!GivenUp, Fixed
<1>8. {"alerts", "lifecycle"} \cap D!MainSlots = {}
  BY DEF DashboardAssumption, D!MainSlots, Fixed
<1>9. \A c \in old : /\ stale(c) \in Request /\ stale(c).op = c.op /\ stale(c).scope = c.scope
                     /\ stale(c).category = c.category /\ stale(c).token = c.token /\ ~stale(c).fresh
                     /\ c \in dRequest /\ c.op \notin D!GivenUp \cup {"refresh", "alerts"} /\ Sound(c)
  BY DEF DashboardIInv, RequestsSound, Request
<1> HIDE DEF old, stale
<1>10. D!TypeOK'
  BY <1>1, <1>6 DEF DashboardIInv, D!TypeOK
<1>11. RequestsSound'
  <2>1. ASSUME NEW c \in old, NEW d, d = stale(c)
        PROVE  d \in Request /\ Sound(d)'
    <3>1. D!SlotOf(d.op) \notin Kept
      BY <1>9, <2>1 DEF Kept, D!GivenUp, D!SlotOf, DashboardAssumption, Fixed
    <3> QED
      BY <1>1, <1>9, <2>1, <3>1 DEF Sound, D!GivenUp
  <2>2. ASSUME NEW c \in D!MainLoads(s) \cup D!AlertLoads(s)
        PROVE  c \in Request /\ Sound(c)'
    BY <1>1, <1>5 DEF Sound
  <2> QED
    BY <1>1, <2>1, <2>2 DEF RequestsSound
<1>12. Booting'
  <2>1. \A c \in dRequest' : c.op # "principal"
    BY <1>1, <1>5, <1>9 DEF DashboardIInv, Booting, D!Underway
  <2> QED
    BY <1>1, <2>1 DEF Booting, D!Underway
<1>13. OneTokenCall'
  <2>1. \A c \in dRequest' : c.op \notin DTokened
    BY <1>1, <1>5, <1>7, <1>9
  <2>2. \A t \in DTokened : dScreen'[t].kind = "idle"
    BY <1>3, <1>4, <1>6, <1>7
  <2> QED
    BY <2>1, <2>2 DEF OneTokenCall, D!Underway
<1>14. D!OfThisScope' /\ D!AdminsOnly'
  <2>1. \A x \in DSlots \cap ({"sessions", "controls"} \cup DTokened) : dScreen'[x].kind # "ready"
    BY <1>3, <1>4, <1>6, <1>7, <1>8 DEF D!MainSlots
  <2> QED
    BY <2>1 DEF D!OfThisScope, D!AdminsOnly
<1>15. D!NoLostSpinner'
  <2> SUFFICES ASSUME NEW x \in DSlots, dScreen'[x].kind \in {"loading", "submitting"}
               PROVE  \E c \in dRequest' : D!SlotOf(c.op) = x
    BY DEF D!NoLostSpinner
  <2>1. CASE x \in D!MainSlots
    <3>1. PICK c \in D!MainLoads(s) : c.op = x
      BY <1>3, <1>4, <1>6, <1>8, <2>1
    <3> QED
      BY <1>1, <1>5, <3>1 DEF D!SlotOf
  <2>2. CASE x = "alerts"
    BY <1>1, <1>4, <1>6, <2>2 DEF D!SlotOf
  <2>3. CASE x \notin D!MainSlots \cup {"alerts"}
    <3>1. dScreen'[x] = dScreen[x] /\ x # "lifecycle"
      BY <1>3, <1>4, <1>6, <2>3
    <3>2. PICK c \in dRequest : D!SlotOf(c.op) = x
      BY <1>1, <3>1 DEF DashboardIInv, D!NoLostSpinner
    <3>3. c \in old
      BY <2>3, <3>2 DEF old, D!GivenUp, D!MainSlots, D!SlotOf
    <3> QED
      BY <1>1, <1>9, <3>2, <3>3
  <2> QED
    BY <2>1, <2>2, <2>3
<1> QED
  BY <1>1, <1>10, <1>11, <1>12, <1>13, <1>14, <1>15 DEF DashboardIInv, D!PurgeFailsClosed

(* The page's own call is answered: the effects run for the first time, or  *)
(* the login form stays.                                                    *)
LEMMA ShowPrincipalKeeps ==
  ASSUME DashboardAssumption, DashboardIInv, NEW c \in dRequest, D!ShowPrincipal(c)
  PROVE  DashboardIInv'
<1>1. c.op = "principal" /\ UNCHANGED <<dScope, dCategory, dCookie, dPreviews, dDeleted, dAgreed>>
  BY DEF D!ShowPrincipal, D!Server
<1>2. /\ dPrincipal = "loading" /\ dScreen = D!Blank
      /\ \A d \in dRequest \ {c} : d.op = "login"
  BY <1>1 DEF DashboardIInv, Booting, D!Underway
<1>3. dScreen \in [DSlots -> D!Shown] /\ dScope \in DScopes
  BY DEF DashboardIInv, D!TypeOK
<1>4. CASE c.answer = "ready"
  <2> DEFINE main == D!MainScreen(dScreen, dScope)
  <2>1. /\ dPrincipal' = "ready" /\ dScreen' = D!AlertScreen(main, dScope)
        /\ dRequest' = (dRequest \ {c}) \cup D!MainLoads(dScope) \cup D!AlertLoads(dScope)
    BY <1>4 DEF D!ShowPrincipal
  <2>2. /\ main \in [DSlots -> D!Shown]
        /\ \A x \in DSlots \cap D!MainSlots :
             /\ main[x].kind \in {"loading", "idle", "denied"}
             /\ main[x].kind = "loading" => \E d \in D!MainLoads(dScope) : d.op = x
             /\ x \in DTokened => main[x].kind = "idle"
        /\ \A x \in DSlots \ D!MainSlots : main[x] = dScreen[x]
    BY <1>3, MainScreenIs
  <2>3. /\ dScreen' \in [DSlots -> D!Shown]
        /\ \A x \in DSlots \ {"alerts"} : dScreen'[x] = main[x]
        /\ "alerts" \in DSlots =>
             /\ dScreen'["alerts"].kind \in {"loading", "denied"}
             /\ dScreen'["alerts"].kind = "loading" => \E d \in D!AlertLoads(dScope) : d.op = "alerts"
    BY <2>1, <2>2, AlertScreenIs
  <2>4. \A d \in D!MainLoads(dScope) \cup D!AlertLoads(dScope) :
          /\ d \in Request /\ d.op \in {"sessions", "controls", "alerts"} /\ d.scope = dScope
          /\ d.op = "controls" => D!IsAdmin(dScope)
    BY <1>3, LoadsAre
  <2> HIDE DEF main
  <2>5. \A t \in DTokened : t \in DSlots \cap D!MainSlots /\ t \notin {"sessions", "controls", "alerts", "login"}
    BY DEF DashboardAssumption, D!MainSlots, Fixed
  <2>6. "alerts" \notin D!MainSlots
    BY DEF DashboardAssumption, D!MainSlots, Fixed
  <2>7. D!TypeOK'
    BY <1>1, <2>1, <2>3 DEF DashboardIInv, D!TypeOK
  <2>8. RequestsSound'
    BY <1>1, <2>1, <2>4 DEF DashboardIInv, RequestsSound, Sound
  <2>9. Booting'
    BY <1>2, <2>1, <2>4 DEF Booting, D!Underway
  <2>10. OneTokenCall'
    <3>1. \A d \in dRequest' : d.op \notin DTokened
      BY <1>2, <2>1, <2>4, <2>5
    <3>2. \A t \in DTokened : dScreen'[t].kind = "idle"
      BY <2>2, <2>3, <2>5
    <3> QED
      BY <3>1, <3>2 DEF OneTokenCall, D!Underway
  <2>11. D!OfThisScope' /\ D!AdminsOnly'
    <3>1. \A x \in DSlots \cap ({"sessions", "controls"} \cup DTokened) : dScreen'[x].kind # "ready"
      BY <2>2, <2>3, <2>5, <2>6 DEF D!MainSlots
    <3> QED
      BY <3>1 DEF D!OfThisScope, D!AdminsOnly
  <2>12. D!NoLostSpinner'
    <3> SUFFICES ASSUME NEW x \in DSlots, dScreen'[x].kind \in {"loading", "submitting"}
                 PROVE  \E d \in dRequest' : D!SlotOf(d.op) = x
      BY DEF D!NoLostSpinner
    <3>1. CASE x \in D!MainSlots
      <4>1. PICK d \in D!MainLoads(dScope) : d.op = x
        BY <2>2, <2>3, <2>6, <3>1
      <4> QED
        BY <2>1, <2>4, <4>1 DEF D!SlotOf
    <3>2. CASE x = "alerts"
      BY <2>1, <2>3, <3>2 DEF D!SlotOf
    <3>3. CASE x \notin D!MainSlots \cup {"alerts"}
      BY <1>2, <2>2, <2>3, <3>3 DEF D!Blank, D!Is, D!Loads, D!MainSlots
    <3> QED
      BY <3>1, <3>2, <3>3
  <2> QED
    BY <1>1, <2>7, <2>8, <2>9, <2>10, <2>11, <2>12 DEF DashboardIInv, D!PurgeFailsClosed
<1>5. CASE c.answer # "ready"
  <2>1. dPrincipal' = "denied" /\ dRequest' = dRequest \ {c} /\ dScreen' = dScreen
    BY <1>5 DEF D!ShowPrincipal
  <2>2. D!TypeOK' /\ RequestsSound' /\ D!OfThisScope' /\ D!AdminsOnly' /\ D!PurgeFailsClosed'
    BY <1>1, <2>1 DEF DashboardIInv, D!TypeOK, RequestsSound, Sound, D!OfThisScope, D!AdminsOnly, D!PurgeFailsClosed
  <2>3. Booting' /\ OneTokenCall' /\ D!NoLostSpinner'
    BY <1>2, <2>1 DEF Booting, D!Underway, OneTokenCall, D!NoLostSpinner
  <2> QED
    BY <2>2, <2>3 DEF DashboardIInv
<1> QED
  BY <1>4, <1>5

-----------------------------------------------------------------------------
(* The user acts: the part waits for the call just begun.                    *)
LEMMA BeginTokenedKeeps ==
  ASSUME DashboardAssumption, DashboardIInv, NEW t \in DTokened, D!BeginTokened(t)
  PROVE  DashboardIInv'
<1>1. PICK c : c = D!Call(t, dScope)
  OBVIOUS
<1>2. c \in Request /\ c.op = t /\ c.scope = dScope
  BY <1>1 DEF D!Call, Request, DashboardIInv, D!TypeOK
<1>3. /\ dPrincipal = "ready" /\ dScreen' = [dScreen EXCEPT ![t] = D!Is("submitting")]
      /\ dRequest' = {d \in dRequest : d.op # t} \cup {c}
      /\ UNCHANGED <<dScope, dCategory, dPrincipal, dCookie, dPreviews, dDeleted, dAgreed>>
  BY <1>1 DEF D!BeginTokened, D!MayCall, D!Server, D!Underway
<1>4. t \in DSlots /\ t \notin Fixed
  BY DEF DashboardAssumption
<1>5. /\ dScreen' \in [DSlots -> D!Shown] /\ dScreen'[t].kind = "submitting"
      /\ \A x \in DSlots \ {t} : dScreen'[x] = dScreen[x]
  <2>1. D!Is("submitting") \in D!Shown /\ D!Is("submitting").kind = "submitting"
    BY DEF D!Is, D!Shown, D!Kinds
  <2> QED
    BY <1>3, <1>4, <2>1 DEF DashboardIInv, D!TypeOK
<1>6. D!TypeOK'
  BY <1>3, <1>5 DEF DashboardIInv, D!TypeOK
<1>7. RequestsSound'
  BY <1>2, <1>3, <1>4 DEF DashboardIInv, RequestsSound, Sound, Fixed
<1>8. Booting'
  BY <1>2, <1>3, <1>4 DEF DashboardIInv, Booting, D!Underway, Fixed
<1>9. OneTokenCall'
  BY <1>2, <1>3, <1>4, <1>5 DEF DashboardIInv, OneTokenCall, D!Underway, DashboardAssumption
<1>10. D!OfThisScope' /\ D!AdminsOnly'
  BY <1>3, <1>4, <1>5 DEF DashboardIInv, D!OfThisScope, D!AdminsOnly, Fixed
<1>11. D!NoLostSpinner'
  <2> SUFFICES ASSUME NEW x \in DSlots, dScreen'[x].kind \in {"loading", "submitting"}
               PROVE  \E d \in dRequest' : D!SlotOf(d.op) = x
    BY DEF D!NoLostSpinner
  <2>1. D!SlotOf(t) = t
    BY <1>4 DEF D!SlotOf, Fixed
  <2>2. CASE x = t
    BY <1>2, <1>3, <2>1, <2>2
  <2>3. CASE x # t
    BY <1>3, <1>5, <2>1, <2>3 DEF DashboardIInv, D!NoLostSpinner
  <2> QED
    BY <2>2, <2>3
<1> QED
  BY <1>3, <1>6, <1>7, <1>8, <1>9, <1>10, <1>11 DEF DashboardIInv, D!PurgeFailsClosed

LEMMA BeginKeeps ==
  ASSUME DashboardAssumption, DashboardIInv, dPrincipal = "ready", NEW c \in Request, Sound(c)',
         c.op \notin DTokened \cup {"principal", "login"}, D!SlotOf(c.op) \in DSlots \ DTokened, NEW k \in {"loading", "submitting"},
         dScreen' = [dScreen EXCEPT ![D!SlotOf(c.op)] = D!Is(k)], dRequest' = dRequest \cup {c},
         UNCHANGED <<dScope, dCategory, dPrincipal, dCookie, dPreviews, dDeleted>>,
         dAgreed \subseteq dAgreed', dAgreed' \subseteq D!Item
  PROVE  DashboardIInv'
<1> DEFINE x == D!SlotOf(c.op)
<1>1. x \in DSlots \ DTokened
  OBVIOUS
<1> HIDE DEF x
<1>2. /\ dScreen' \in [DSlots -> D!Shown] /\ dScreen'[x].kind = k
      /\ \A y \in DSlots \ {x} : dScreen'[y] = dScreen[y]
  <2>1. D!Is(k) \in D!Shown /\ D!Is(k).kind = k
    BY DEF D!Is, D!Shown, D!Kinds
  <2> QED
    BY <1>1, <2>1 DEF DashboardIInv, D!TypeOK, x
<1>3. D!TypeOK'
  BY <1>2 DEF DashboardIInv, D!TypeOK
<1>4. RequestsSound'
  BY DEF DashboardIInv, RequestsSound, Sound
<1>5. Booting'
  BY DEF DashboardIInv, Booting, D!Underway
<1>6. OneTokenCall'
  BY <1>1, <1>2 DEF DashboardIInv, OneTokenCall, D!Underway, DashboardAssumption
<1>7. D!OfThisScope' /\ D!AdminsOnly'
  BY <1>1, <1>2 DEF DashboardIInv, D!OfThisScope, D!AdminsOnly
<1>8. D!NoLostSpinner'
  BY <1>2 DEF DashboardIInv, D!NoLostSpinner, x
<1> QED
  BY <1>3, <1>4, <1>5, <1>6, <1>7, <1>8 DEF DashboardIInv, D!PurgeFailsClosed

LEMMA UserActsKeeps ==
  ASSUME DashboardAssumption, DashboardIInv,
         \/ \E f \in DFree : D!Submit(f)
         \/ D!Lifecycle \/ D!LoadNotificationHistory \/ D!PreviewPurge \/ D!Purge
  PROVE  DashboardIInv'
<1>1. dScope \in DScopes /\ dCategory \in DCategories /\ \A x \in DSlots : dScreen[x] \in D!Shown
  BY DEF DashboardIInv, D!TypeOK
<1>2. \A op : D!Call(op, dScope).op = op /\ D!Call(op, dScope).scope = dScope
  BY DEF D!Call
<1>3. \A op \in Fixed \cup DFree : D!Call(op, dScope) \in Request
  BY <1>1 DEF D!Call, Request
<1>4. \A op \in DFree \cup {"lifecycle", "preview", "purge"} :
        D!SlotOf(op) = op /\ op \in Fixed \cup DFree /\ op \notin DTokened \cup {"principal", "login"}
  BY DEF D!SlotOf, DashboardAssumption, Fixed
<1>5. ASSUME NEW f \in DFree \cup {"lifecycle"}, D!Begin(f, D!Call(f, dScope)), UNCHANGED dAgreed
      PROVE  DashboardIInv'
  <2>1. PICK c : c = D!Call(f, dScope)
    OBVIOUS
  <2>2. c \in Request /\ c.op = f /\ c.scope = dScope
    BY <1>2, <1>3, <1>4, <2>1
  <2>3. /\ dPrincipal = "ready" /\ f \in DSlots /\ dScreen' = [dScreen EXCEPT ![f] = D!Is("submitting")]
        /\ dRequest' = dRequest \cup {c}
        /\ UNCHANGED <<dScope, dCategory, dPrincipal, dCookie, dPreviews, dDeleted, dAgreed>>
    BY <1>5, <2>1 DEF D!Begin, D!MayCall, D!Server
  <2>4. f \notin {"preview", "purge", "controls", "refresh", "reload"}
    BY DEF DashboardAssumption, Fixed
  <2>5. Sound(c)'
    BY <2>2, <2>3, <2>4 DEF Sound
  <2> QED
    BY <1>4, <2>2, <2>3, <2>5, BeginKeeps DEF DashboardIInv, D!TypeOK
<1>6. CASE D!LoadNotificationHistory
  <2>1. PICK c : c = D!Call("reload", dScope)
    OBVIOUS
  <2>2. c \in Request /\ c.op = "reload" /\ c.scope = dScope
    BY <1>2, <1>3, <2>1 DEF Fixed
  <2>3. /\ dPrincipal = "ready" /\ "alerts" \in DSlots /\ dScreen' = [dScreen EXCEPT !["alerts"] = D!Is("loading")]
        /\ dRequest' = dRequest \cup {c}
        /\ UNCHANGED <<dScope, dCategory, dPrincipal, dCookie, dPreviews, dDeleted, dAgreed>>
    BY <1>6, <2>1 DEF D!LoadNotificationHistory, D!MayCall, D!Server
  <2>4. D!SlotOf(c.op) = "alerts" /\ "alerts" \notin DTokened /\ "reload" \notin DTokened
    BY <2>2 DEF D!SlotOf, DashboardAssumption, Fixed
  <2>5. Sound(c)'
    BY <2>2, <2>3 DEF Sound
  <2> QED
    BY <2>2, <2>3, <2>4, <2>5, BeginKeeps DEF DashboardIInv, D!TypeOK
<1>7. CASE D!PreviewPurge
  <2>1. PICK c : c = [D!Call("preview", dScope) EXCEPT !.category = dCategory]
    OBVIOUS
  <2>2. c \in Request /\ c.op = "preview" /\ c.scope = dScope /\ c.category = dCategory
    BY <1>1, <2>1 DEF D!Call, Request, Fixed
  <2>3. /\ dPrincipal = "ready" /\ "preview" \in DSlots /\ dScreen' = [dScreen EXCEPT !["preview"] = D!Is("submitting")]
        /\ dRequest' = dRequest \cup {c}
        /\ UNCHANGED <<dScope, dCategory, dPrincipal, dCookie, dPreviews, dDeleted, dAgreed>>
    BY <1>7, <2>1 DEF D!PreviewPurge, D!Begin, D!MayCall, D!Server
  <2>4. Sound(c)'
    BY <1>1, <2>2, <2>3 DEF Sound
  <2> QED
    BY <1>4, <2>2, <2>3, <2>4, BeginKeeps DEF DashboardIInv, D!TypeOK
<1>8. CASE D!Purge
  <2>1. PICK shown : shown = [scope |-> dScreen["preview"].scope, category |-> dScreen["preview"].category]
    OBVIOUS
  <2>2. PICK c : c = [D!Call("purge", dScope) EXCEPT !.category = dCategory, !.token = shown]
    OBVIOUS
  <2>3. /\ dPrincipal = "ready" /\ {"preview", "purge"} \subseteq DSlots
        /\ dScreen' = [dScreen EXCEPT !["purge"] = D!Is("submitting")]
        /\ dRequest' = dRequest \cup {c}
        /\ UNCHANGED <<dScope, dCategory, dPrincipal, dCookie, dPreviews, dDeleted>>
        /\ dAgreed' = IF shown = [scope |-> dScope, category |-> dCategory] THEN dAgreed \cup {shown} ELSE dAgreed
    BY <1>8, <2>1, <2>2 DEF D!Purge, D!Begin, D!MayCall, D!Server
  <2>4. shown \in [scope : DScopes \cup {None}, category : DCategories \cup {None}]
    BY <1>1, <2>1, <2>3 DEF D!Shown
  <2>5. c \in Request /\ c.op = "purge" /\ c.scope = dScope /\ c.category = dCategory /\ c.token = shown
    BY <1>1, <2>2, <2>4 DEF D!Call, Request, Fixed
  <2>6. dAgreed \subseteq dAgreed' /\ dAgreed' \subseteq D!Item
    BY <1>1, <2>3 DEF DashboardIInv, D!TypeOK, D!Item
  <2>7. Sound(c)'
    BY <2>3, <2>5 DEF Sound
  <2> QED
    BY <1>4, <2>3, <2>5, <2>6, <2>7, BeginKeeps
<1> QED
  BY <1>5, <1>6, <1>7, <1>8 DEF D!Submit, D!Lifecycle

LEMMA QuietActsKeep ==
  ASSUME DashboardAssumption, DashboardIInv,
         \/ \E k \in DCategories : D!SetCategory(k)
         \/ D!ClearPurgePreview \/ D!Logout \/ D!Login \/ UNCHANGED D!vars
  PROVE  DashboardIInv'
<1>1. CASE UNCHANGED D!vars \/ \E k \in DCategories : D!SetCategory(k)
  <2>1. dCategory' \in DCategories /\ UNCHANGED <<dScope, dPrincipal, dScreen, dRequest, dCookie, dPreviews, dDeleted, dAgreed>>
    BY <1>1 DEF D!SetCategory, D!Server, D!vars, DashboardIInv, D!TypeOK
  <2> QED
    BY <2>1 DEF DashboardIInv, D!TypeOK, RequestsSound, Sound, Booting, D!Underway, OneTokenCall, D!OfThisScope,
       D!AdminsOnly, D!NoLostSpinner, D!PurgeFailsClosed
<1>2. CASE D!ClearPurgePreview
  <2>1. /\ dPrincipal = "ready" => UNCHANGED dPrincipal
        /\ dScreen' = [dScreen EXCEPT !["preview"] = D!Is("idle")] /\ "preview" \in DSlots
        /\ dScreen["preview"].kind = "ready"
        /\ UNCHANGED <<dScope, dCategory, dPrincipal, dRequest, dCookie, dPreviews, dDeleted, dAgreed>>
    BY <1>2 DEF D!ClearPurgePreview, D!Server
  <2>2. D!Is("idle") \in D!Shown /\ D!Is("idle").kind = "idle"
    BY DEF D!Is, D!Shown, D!Kinds
  <2>3. /\ dScreen' \in [DSlots -> D!Shown] /\ dScreen'["preview"].kind = "idle"
        /\ \A x \in DSlots \ {"preview"} : dScreen'[x] = dScreen[x]
    BY <2>1, <2>2 DEF DashboardIInv, D!TypeOK
  <2>4. "preview" \notin Kept
    BY DEF Kept, DashboardAssumption, Fixed
  <2>5. dScreen # D!Blank
    BY <2>1 DEF D!Blank, D!Is
  <2>6. D!TypeOK' /\ RequestsSound' /\ Booting'
    BY <2>1, <2>3, <2>5 DEF DashboardIInv, D!TypeOK, RequestsSound, Sound, Booting, D!Underway
  <2>7. OneTokenCall' /\ D!OfThisScope' /\ D!AdminsOnly'
    BY <2>1, <2>3, <2>4 DEF DashboardIInv, OneTokenCall, D!Underway, D!OfThisScope, D!AdminsOnly, Kept, DashboardAssumption
  <2>8. D!NoLostSpinner' /\ D!PurgeFailsClosed'
    BY <2>1, <2>3 DEF DashboardIInv, D!NoLostSpinner, D!PurgeFailsClosed
  <2> QED
    BY <2>6, <2>7, <2>8 DEF DashboardIInv
<1>3. ASSUME NEW op \in {"logout", "login"}, dPrincipal = "ready" \/ op = "login",
             dRequest' = dRequest \cup {D!Call(op, None)},
             UNCHANGED <<dScope, dCategory, dPrincipal, dScreen, dCookie, dPreviews, dDeleted, dAgreed>>
      PROVE  DashboardIInv'
  <2>1. PICK c : c = D!Call(op, None)
    OBVIOUS
  <2>2. c \in Request /\ c.op = op
    BY <2>1 DEF D!Call, Request, Fixed
  <2>3. op \notin DTokened /\ D!SlotOf(op) \notin Kept
    BY DEF D!SlotOf, Kept, DashboardAssumption, Fixed
  <2>4. D!TypeOK' /\ D!OfThisScope' /\ D!AdminsOnly' /\ D!PurgeFailsClosed'
    BY <1>3 DEF DashboardIInv, D!TypeOK, D!OfThisScope, D!AdminsOnly, D!PurgeFailsClosed
  <2>5. RequestsSound'
    BY <1>3, <2>1, <2>2, <2>3 DEF DashboardIInv, RequestsSound, Sound
  <2>6. Booting'
    BY <1>3, <2>1, <2>2 DEF DashboardIInv, Booting, D!Underway
  <2>7. OneTokenCall' /\ D!NoLostSpinner'
    BY <1>3, <2>1, <2>2, <2>3 DEF DashboardIInv, OneTokenCall, D!Underway, D!NoLostSpinner
  <2> QED
    BY <2>4, <2>5, <2>6, <2>7 DEF DashboardIInv
<1>4. CASE D!Logout
  BY <1>3, <1>4 DEF D!Logout, D!MayCall, D!Server
<1>5. CASE D!Login
  BY <1>3, <1>5 DEF D!Login, D!Server
<1> QED
  BY <1>1, <1>2, <1>4, <1>5

-----------------------------------------------------------------------------
(* An answer, or its loss, changes what a call heard and nothing else of it; *)
(* what the server purges was previewed where it is, and so agreed on.       *)
LEMMA DashboardAnswersKeep ==
  ASSUME DashboardAssumption, DashboardIInv, NEW c \in dRequest,
         D!Serve(c) \/ D!Lose(c) \/ \E accepted \in BOOLEAN : D!ServeLogin(c, accepted)
  PROVE  DashboardIInv'
<1>1. PICK a \in {"ready", "error", "denied"} : D!Answer(c, a)
  BY DEF D!Serve, D!Lose, D!ServeLogin
<1>2. PICK d : d = [c EXCEPT !.answer = a]
  OBVIOUS
<1>3. dRequest' = (dRequest \ {c}) \cup {d}
  BY <1>1, <1>2 DEF D!Answer
<1>4. c \in Request /\ Sound(c)
  BY DEF DashboardIInv, RequestsSound
<1>5. /\ d \in Request /\ d.op = c.op /\ d.scope = c.scope /\ d.category = c.category
      /\ d.token = c.token /\ d.fresh = c.fresh
  BY <1>2, <1>4 DEF Request
<1>6. UNCHANGED <<dScope, dCategory, dPrincipal, dScreen, dAgreed>> /\ dCookie' \in BOOLEAN
  BY DEF D!Serve, D!Lose, D!ServeLogin, D!Server, DashboardIInv, D!TypeOK
<1>7. dPreviews' \subseteq D!Item
  BY <1>4 DEF D!Serve, D!Lose, D!ServeLogin, D!Server, DashboardIInv, D!TypeOK, Sound, D!Item
<1>8. dDeleted' \subseteq dAgreed
  <2>1. CASE dDeleted' = dDeleted
    BY <2>1 DEF DashboardIInv, D!PurgeFailsClosed
  <2>2. CASE dDeleted' # dDeleted
    <3>1. /\ c.op = "purge" /\ D!Purgeable(c)
          /\ dDeleted' = dDeleted \cup {[scope |-> c.scope, category |-> c.category]}
      BY <2>2 DEF D!Serve, D!Lose, D!ServeLogin, D!Server
    <3>2. c.token \in D!Item /\ c.token.scope = c.scope /\ c.token.category = c.category
      BY <3>1 DEF D!Purgeable, DashboardIInv, D!TypeOK
    <3>3. c.token = [scope |-> c.scope, category |-> c.category]
      BY <3>2 DEF D!Item
    <3> QED
      BY <1>4, <3>1, <3>3 DEF Sound, DashboardIInv, D!PurgeFailsClosed
  <2> QED
    BY <2>1, <2>2
<1>9. D!TypeOK' /\ D!PurgeFailsClosed'
  BY <1>6, <1>7, <1>8 DEF DashboardIInv, D!TypeOK, D!PurgeFailsClosed
<1>10. RequestsSound'
  BY <1>3, <1>4, <1>5, <1>6 DEF DashboardIInv, RequestsSound, Sound
<1>11. Booting'
  BY <1>3, <1>5, <1>6 DEF DashboardIInv, Booting, D!Underway
<1>12. OneTokenCall'
  BY <1>3, <1>5, <1>6 DEF DashboardIInv, OneTokenCall, D!Underway
<1>13. D!OfThisScope' /\ D!AdminsOnly' /\ D!NoLostSpinner'
  BY <1>3, <1>5, <1>6 DEF DashboardIInv, D!OfThisScope, D!AdminsOnly, D!NoLostSpinner
<1> QED
  BY <1>9, <1>10, <1>11, <1>12, <1>13 DEF DashboardIInv

(* An answer is shown in the call's own part, and a session's call reads the *)
(* sessions of its scope again, unless the scope changed.                    *)
LEMMA ShowAnswerKeeps ==
  ASSUME DashboardAssumption, DashboardIInv, NEW c \in dRequest, D!ShowAnswer(c)
  PROVE  DashboardIInv'
<1> DEFINE x == D!SlotOf(c.op)
<1>1. c \in Request /\ Sound(c) /\ c.answer \in {"ready", "error", "denied"}
  BY DEF D!ShowAnswer, DashboardIInv, RequestsSound, Request
<1>2. PICK item : item = [kind |-> c.answer, scope |-> c.scope, category |-> c.category]
  OBVIOUS
<1>3. item \in D!Shown /\ item.kind \in {"ready", "error", "denied"} /\ item.scope = c.scope
  BY <1>1, <1>2 DEF D!Shown, D!Kinds, Request
<1>4. /\ c.op \notin {"principal", "login", "logout"}
      /\ dScreen' = [dScreen EXCEPT ![x] = item]
      /\ dRequest' = (dRequest \ {c}) \cup D!Refreshes(c)
      /\ UNCHANGED <<dScope, dCategory, dPrincipal, dCookie, dPreviews, dDeleted, dAgreed>>
  BY <1>2 DEF D!ShowAnswer, D!Server
<1>5. \A d \in D!Refreshes(c) : d \in Request /\ d.op = "refresh" /\ d.scope = dScope
  <2>1. D!Call("refresh", c.scope) \in Request /\ D!Call("refresh", c.scope).op = "refresh"
          /\ D!Call("refresh", c.scope).scope = c.scope
    BY <1>1 DEF D!Call, Request, Fixed
  <2> QED
    BY <1>1, <2>1 DEF D!Refreshes, Sound
<1>6. dPrincipal # "loading"
  BY <1>4 DEF DashboardIInv, Booting
<1>7. /\ dScreen' \in [DSlots -> D!Shown]
      /\ x \in DSlots => dScreen'[x] = item
      /\ \A y \in DSlots \ {x} : dScreen'[y] = dScreen[y]
  BY <1>3, <1>4 DEF DashboardIInv, D!TypeOK
<1>8. x \in Kept => c.scope = dScope
  BY <1>1 DEF Sound
<1>9. x = "controls" => c.op = "controls"
  BY DEF D!SlotOf
<1>10. \A t \in DTokened : (x = t <=> c.op = t) /\ t # "refresh"
  BY DEF D!SlotOf, DashboardAssumption, Fixed
<1> HIDE DEF x
<1>11. D!TypeOK'
  BY <1>4, <1>7 DEF DashboardIInv, D!TypeOK
<1>12. RequestsSound'
  BY <1>4, <1>5 DEF DashboardIInv, RequestsSound, Sound
<1>13. Booting'
  BY <1>4, <1>5, <1>6 DEF DashboardIInv, Booting, D!Underway
<1>14. OneTokenCall'
  <2> SUFFICES ASSUME dPrincipal' = "ready", NEW t \in DTokened
               PROVE  /\ \A e, d \in D!Underway(t)' : e = d
                      /\ D!Underway(t)' # {} <=> dScreen'[t].kind = "submitting"
    BY DEF OneTokenCall
  <2>1. t \in DSlots
    BY DEF DashboardAssumption
  <2>2. D!Underway(t)' = D!Underway(t) \ {c}
    BY <1>4, <1>5, <1>10 DEF D!Underway
  <2>3. CASE x = t
    <3>1. D!Underway(t)' = {}
      BY <1>4, <1>10, <2>2, <2>3 DEF DashboardIInv, OneTokenCall, D!Underway
    <3> QED
      BY <1>3, <1>7, <2>1, <2>3, <3>1
  <2>4. CASE x # t
    BY <1>4, <1>7, <1>10, <2>1, <2>2, <2>4 DEF DashboardIInv, OneTokenCall, D!Underway
  <2> QED
    BY <2>3, <2>4
<1>15. D!OfThisScope' /\ D!AdminsOnly'
  <2>1. c.op = "controls" => D!IsAdmin(dScope)
    BY <1>1 DEF Sound
  <2> QED
    BY <1>3, <1>4, <1>7, <1>8, <1>9, <2>1 DEF DashboardIInv, D!OfThisScope, D!AdminsOnly, Kept
<1>16. D!NoLostSpinner'
  BY <1>3, <1>4, <1>7 DEF DashboardIInv, D!NoLostSpinner, x
<1> QED
  BY <1>4, <1>11, <1>12, <1>13, <1>14, <1>15, <1>16 DEF DashboardIInv, D!PurgeFailsClosed

LEMMA ShowLogoutKeeps ==
  ASSUME DashboardAssumption, DashboardIInv, NEW c \in dRequest, D!ShowLogout(c)
  PROVE  DashboardIInv'
<1>1. /\ c.op = "logout" /\ dRequest' \subseteq dRequest \ {c}
      /\ dPrincipal' = IF c.answer = "ready" THEN "denied" ELSE dPrincipal
      /\ c.answer # "ready" => dRequest' = dRequest \ {c}
      /\ UNCHANGED <<dScope, dCategory, dScreen, dCookie, dPreviews, dDeleted, dAgreed>>
  BY DEF D!ShowLogout, D!Server
<1>2. dPrincipal # "loading" /\ D!Underway("principal") = {}
  BY <1>1 DEF DashboardIInv, Booting
<1>3. "logout" \notin DSlots \cup DTokened /\ D!SlotOf("logout") = "logout"
  BY DEF D!SlotOf, DashboardAssumption, Fixed
<1>4. D!TypeOK' /\ D!OfThisScope' /\ D!AdminsOnly' /\ D!PurgeFailsClosed'
  BY <1>1, <1>2 DEF DashboardIInv, D!TypeOK, D!OfThisScope, D!AdminsOnly, D!PurgeFailsClosed
<1>5. RequestsSound'
  BY <1>1 DEF DashboardIInv, RequestsSound, Sound
<1>6. Booting'
  BY <1>1, <1>2 DEF DashboardIInv, Booting, D!Underway
<1>7. OneTokenCall' /\ D!NoLostSpinner'
  <2>1. CASE c.answer = "ready"
    BY <1>1, <2>1 DEF OneTokenCall, D!NoLostSpinner
  <2>2. CASE c.answer # "ready"
    BY <1>1, <1>3, <2>2 DEF DashboardIInv, OneTokenCall, D!Underway, D!NoLostSpinner
  <2> QED
    BY <2>1, <2>2
<1> QED
  BY <1>4, <1>5, <1>6, <1>7 DEF DashboardIInv

LEMMA ShowLoginKeeps ==
  ASSUME DashboardAssumption, DashboardIInv, NEW c \in dRequest, D!ShowLogin(c)
  PROVE  DashboardIInv'
<1>1. c.op = "login" /\ UNCHANGED <<dCookie, dPreviews, dDeleted, dAgreed>>
  BY DEF D!ShowLogin, D!Server
<1>2. CASE c.answer = "ready"
  <2>1. PICK d : d = D!Call("principal", None)
    OBVIOUS
  <2>2. /\ dScope' = DFirstScope /\ dCategory' = DFirstCategory /\ dPrincipal' = "loading"
        /\ dScreen' = D!Blank /\ dRequest' = {d}
    BY <1>2, <2>1 DEF D!ShowLogin
  <2>3. d \in Request /\ d.op = "principal"
    BY <2>1 DEF D!Call, Request, Fixed
  <2>4. D!SlotOf("principal") \notin Kept
    BY DEF D!SlotOf, Kept, DashboardAssumption, Fixed
  <2>5. D!Blank \in [DSlots -> D!Shown] /\ \A x \in DSlots : D!Blank[x].kind # "ready"
    BY DEF D!Blank, D!Is, D!Shown, D!Kinds
  <2>6. D!TypeOK' /\ RequestsSound'
    BY <1>1, <2>2, <2>3, <2>4, <2>5 DEF DashboardIInv, D!TypeOK, RequestsSound, Sound, DashboardAssumption
  <2>7. D!Blank' = D!Blank
    BY DEF D!Blank, D!Is
  <2>8. Booting' /\ OneTokenCall' /\ D!NoLostSpinner'
    BY <2>2, <2>3, <2>7 DEF Booting, D!Underway, OneTokenCall, D!NoLostSpinner
  <2>9. D!OfThisScope' /\ D!AdminsOnly' /\ D!PurgeFailsClosed'
    BY <1>1, <2>2, <2>5 DEF DashboardIInv, D!OfThisScope, D!AdminsOnly, D!PurgeFailsClosed
  <2> QED
    BY <2>6, <2>8, <2>9 DEF DashboardIInv
<1>3. CASE c.answer # "ready"
  <2>1. dRequest' = dRequest \ {c} /\ UNCHANGED <<dScope, dCategory, dPrincipal, dScreen>>
    BY <1>3 DEF D!ShowLogin
  <2>2. "login" \notin DSlots \cup DTokened /\ D!SlotOf("login") = "login"
    BY DEF D!SlotOf, DashboardAssumption, Fixed
  <2>3. D!TypeOK' /\ D!OfThisScope' /\ D!AdminsOnly' /\ D!PurgeFailsClosed'
    BY <1>1, <2>1 DEF DashboardIInv, D!TypeOK, D!OfThisScope, D!AdminsOnly, D!PurgeFailsClosed
  <2>4. RequestsSound' /\ Booting'
    BY <1>1, <2>1 DEF DashboardIInv, RequestsSound, Sound, Booting, D!Underway
  <2>5. OneTokenCall' /\ D!NoLostSpinner'
    BY <1>1, <2>1, <2>2 DEF DashboardIInv, OneTokenCall, D!Underway, D!NoLostSpinner
  <2> QED
    BY <2>3, <2>4, <2>5 DEF DashboardIInv
<1> QED
  BY <1>2, <1>3

LEMMA NextDashboard ==
  ASSUME DashboardAssumption, DashboardIInv, [D!Next]_D!vars
  PROVE  DashboardIInv'
<1>1. ASSUME NEW c \in dRequest,
             \/ D!Serve(c) \/ D!Lose(c) \/ D!ShowPrincipal(c) \/ D!ShowAnswer(c) \/ D!ShowLogout(c) \/ D!ShowLogin(c)
             \/ \E accepted \in BOOLEAN : D!ServeLogin(c, accepted)
      PROVE  DashboardIInv'
  BY <1>1, DashboardAnswersKeep, ShowPrincipalKeeps, ShowAnswerKeeps, ShowLogoutKeeps, ShowLoginKeeps
<1>2. ASSUME \/ D!SetWindow \/ \E s \in DScopes : D!SetScope(s)
             \/ \E t \in DTokened : D!BeginTokened(t)
      PROVE  DashboardIInv'
  BY <1>2, SetWindowKeeps, SetScopeKeeps, BeginTokenedKeeps
<1>3. ASSUME \/ \E f \in DFree : D!Submit(f)
             \/ D!Lifecycle \/ D!LoadNotificationHistory \/ D!PreviewPurge \/ D!Purge
             \/ \E k \in DCategories : D!SetCategory(k)
             \/ D!ClearPurgePreview \/ D!Logout \/ D!Login \/ UNCHANGED D!vars
      PROVE  DashboardIInv'
  BY <1>3, UserActsKeeps, QuietActsKeep
<1> QED
  BY <1>1, <1>2, <1>3 DEF D!Next

(* At most one call of a token, counted.                                     *)
LEMMA DashboardSuffices ==
  ASSUME DashboardIInv
  PROVE  D!DashboardInv
<1> SUFFICES D!LastCallShown
  BY DEF DashboardIInv, D!DashboardInv
<1> SUFFICES ASSUME dPrincipal = "ready", NEW t \in DTokened
             PROVE  D!Cardinality(D!Underway(t)) <= 1
  BY DEF D!LastCallShown, DashboardIInv, OneTokenCall
<1>1. \A c, d \in D!Underway(t) : c = d
  BY DEF DashboardIInv, OneTokenCall
<1>2. D!Underway(t) = {} \/ \E c : D!Underway(t) = {c}
  BY <1>1
<1>3. Cardinality(D!Underway(t)) = 0 \/ Cardinality(D!Underway(t)) = 1
  BY <1>2, FS_EmptySet, FS_Singleton
<1> QED
  BY <1>3, DCardinality

(* Whenever the user changes the scope and in whatever order answers come,   *)
(* or get lost, the screen is of the scope above it, administrators' parts   *)
(* are shown in their scopes only, nothing waits in vain, and what is purged *)
(* was confirmed where it is (dashboard-controller.ts).                      *)
THEOREM DashboardHolds ==
  ASSUME DashboardAssumption
  PROVE  D!Spec => []D!DashboardInv
<1>1. D!Init => DashboardIInv
  BY InitDashboard
<1>2. DashboardIInv /\ [D!Next]_D!vars => DashboardIInv'
  BY NextDashboard
<1>3. DashboardIInv => D!DashboardInv
  BY DashboardSuffices
<1> QED
  BY <1>1, <1>2, <1>3, PTL DEF D!Spec

-----------------------------------------------------------------------------
(* Recipient *)

(* The cardinality is the library's. *)
LEMMA PCardinality == \A set : P!Cardinality(set) = Cardinality(set)
BY DEF P!Cardinality, Cardinality

RecipientAssumption ==
  /\ PFirstSession \in PSessions /\ PElsewhere \subseteq P!Contacts
  /\ None \notin PPhones /\ None \notin PSessions \X (PPhones \cup {None})
  /\ None \notin [contact : P!Contacts, granted : BOOLEAN] /\ None \notin {"ready", "error"}

Slot == [kind : P!Kinds, contact : P!Contacts \cup {None}, granted : BOOLEAN]
CallRow == [op : {"lookup", "consent", "send"}, target : P!Contacts, contact : P!Contacts,
            granted : BOOLEAN, current : BOOLEAN, answer : {None, "ready", "error"}]
RecipientTyped == P!TypeOK /\ pContactSlot \in Slot /\ pCalls \subseteq CallRow

(* A call is about the contact it was begun for; what lost its token is a    *)
(* consent that may still be stored.                                         *)
CallsSound ==
  \A c \in pCalls : c.contact = c.target /\ (~c.current => c.op = "consent" /\ c.answer = None)

(* One lookup is under way, and one consent that counts.                     *)
RecipientSingle ==
  /\ \A c \in pCalls : c.op = "lookup" => pContactSlot.kind = "submitting"
  /\ \A c, d \in pCalls : c.op = "lookup" /\ d.op = "lookup" => c = d
  /\ \A c, d \in pCalls : c.op = "consent" /\ c.current /\ d.op = "consent" /\ d.current => c = d

(* What was asked for is what is chosen, and the slot is about it.           *)
SelectionSound ==
  pLookup # None =>
    /\ pLookup = P!Chosen /\ pLookup \in P!Contacts
    /\ pContactSlot.kind \in {"ready", "error"} \/ \E c \in pCalls : c.op = "lookup"
    /\ pContactSlot.kind = "ready" => pContactSlot.contact = pLookup
    /\ \A c \in pCalls : c.op = "lookup" => c.contact = pLookup

(* A change is of the contact shown, and its call is the one that counts.    *)
ChangeSound ==
  pChange # None =>
    /\ pLookup # None /\ pContactSlot.kind = "ready" /\ pChange.contact = pLookup
    /\ pConsentSlot # "idle"
    /\ \A c \in pCalls : c.op = "consent" /\ c.current =>
         c.contact = pLookup /\ c.granted = pChange.granted /\ pConsentSlot = "submitting"

Waits ==
  /\ pConsentSlot = "submitting" => \E c \in pCalls : c.op = "consent" /\ c.current
  /\ pSendSlot = "submitting" => \E c \in pCalls : c.op = "send"
  /\ ~pForgotten => /\ \A c, d \in pCalls : c.op = "send" /\ d.op = "send" => c = d
                    /\ \A c \in pCalls : c.op = "send" => pSendSlot = "submitting"

(* A lookup that was answered read the consent the server holds, ...         *)
ReadSound ==
  \A c \in pCalls : c.op = "lookup" /\ c.answer = "ready" /\ c.contact \notin pUnsure =>
    (c.granted <=> c.contact \in pConsent) /\ ~P!Outstanding(c.contact)

(* ... so the page knows it, and so it does after a change of its own.       *)
Known ==
  pLookup # None /\ pContactSlot.kind = "ready" /\ pLookup \notin pUnsure =>
    /\ pChange = None => (pContactSlot.granted <=> pLookup \in pConsent) /\ ~P!Outstanding(pLookup)
    /\ pChange # None =>
         /\ pConsentSlot # "error"
         /\ pConsentSlot = "ready" => (pChange.granted <=> pLookup \in pConsent)
         /\ \A c \in pCalls : c.op = "consent" /\ c.contact = pLookup =>
              /\ c.current /\ c.answer # "error"
              /\ c.answer = "ready" => (c.granted <=> pLookup \in pConsent)

RecipientIInv == RecipientTyped /\ CallsSound /\ RecipientSingle /\ SelectionSound /\ ChangeSound /\ Waits /\ ReadSound /\ Known

LEMMA InitRecipient ==
  ASSUME RecipientAssumption, P!Init
  PROVE  RecipientIInv
<1>1. pCalls = {} /\ pLookup = None /\ pChange = None /\ pConsentSlot = "idle" /\ pSendSlot = "idle"
  BY DEF P!Init
<1>2. P!Idle \in Slot /\ P!Idle.kind \in P!Kinds
  BY DEF P!Idle, Slot, P!Kinds
<1>3. RecipientTyped
  BY <1>1, <1>2 DEF RecipientAssumption, P!Init, RecipientTyped, P!TypeOK, P!Kinds
<1> QED
  BY <1>1, <1>3 DEF RecipientIInv, CallsSound, RecipientSingle, SelectionSound, ChangeSound, Waits, ReadSound, Known

(* What a newer call of its kind leaves of the older ones.                   *)
LEMMA SupersededLookup == RecipientTyped => P!Superseded("lookup") = {c \in pCalls : c.op # "lookup"}
<1> SUFFICES ASSUME RecipientTyped
             PROVE  P!Superseded("lookup") = {c \in pCalls : c.op # "lookup"}
  OBVIOUS
<1>1. \A c \in pCalls : c.op # "lookup" => [c EXCEPT !.current = c.current /\ c.op # "lookup"] = c
  BY DEF RecipientTyped, CallRow
<1> QED
  BY <1>1 DEF P!Superseded

LEMMA SupersededConsent ==
  ASSUME RecipientTyped, NEW e
  PROVE  e \in P!Superseded("consent") <=>
           \/ e \in pCalls /\ e.op # "consent"
           \/ \E c \in pCalls : c.op = "consent" /\ c.answer = None /\ e = [c EXCEPT !.current = FALSE]
<1>1. \A c \in pCalls : c.op # "consent" => [c EXCEPT !.current = c.current /\ c.op # "consent"] = c
  BY DEF RecipientTyped, CallRow
<1>2. \A c \in pCalls : c.op = "consent" => [c EXCEPT !.current = c.current /\ c.op # "consent"] = [c EXCEPT !.current = FALSE]
  BY DEF RecipientTyped, CallRow
<1> QED
  BY <1>1, <1>2 DEF P!Superseded

-----------------------------------------------------------------------------
(* The selection is cleared, or the whole page.                              *)
LEMMA ClearedKeeps ==
  ASSUME RecipientAssumption, RecipientIInv, pLookup' = None, pChange' = None,
         pSession' \in PSessions, pTyped' \in PPhones \cup {None},
         UNCHANGED <<pContactSlot, pConsentSlot, pSendSlot, pCalls, pConsent, pUnsure, pForgotten>>
  PROVE  RecipientIInv'
<1>1. RecipientTyped' /\ CallsSound' /\ RecipientSingle' /\ Waits'
  BY DEF RecipientIInv, RecipientTyped, P!TypeOK, CallsSound, RecipientSingle, Waits
<1>2. SelectionSound' /\ ChangeSound' /\ Known' /\ ReadSound'
  BY DEF RecipientIInv, SelectionSound, ChangeSound, Known, ReadSound, P!Outstanding
<1> QED
  BY <1>1, <1>2 DEF RecipientIInv

LEMMA LeaveAndResetKeeps ==
  ASSUME RecipientAssumption, RecipientIInv, P!LeaveAndReset
  PROVE  RecipientIInv'
<1>1. /\ pLookup' = None /\ pChange' = None /\ pContactSlot' = P!Idle /\ pConsentSlot' = "idle" /\ pSendSlot' = "idle"
      /\ pSession' = PFirstSession /\ pTyped' = None /\ UNCHANGED <<pConsent, pUnsure>>
      /\ pForgotten' = (pForgotten \/ \E c \in pCalls : c.op = "send")
  BY DEF P!LeaveAndReset, P!ClearSelection
<1>2. ASSUME NEW e \in pCalls'
      PROVE  \/ e \in pCalls /\ e.op = "send"
             \/ /\ e \in CallRow /\ e.op = "consent" /\ e.answer = None /\ ~e.current
                /\ e.contact = e.target
  <2>1. PICK c \in pCalls : /\ c.op = "send" \/ (c.op = "consent" /\ c.answer = None)
                            /\ e = [c EXCEPT !.current = c.op = "send"]
    BY <1>2 DEF P!LeaveAndReset
  <2>2. c \in CallRow /\ c.contact = c.target /\ (c.op = "send" => c.current)
    BY DEF RecipientIInv, RecipientTyped, CallsSound
  <2>3. CASE c.op = "send"
    BY <2>1, <2>2, <2>3 DEF CallRow
  <2>4. CASE c.op # "send"
    BY <2>1, <2>2, <2>4 DEF CallRow
  <2> QED
    BY <2>3, <2>4
<1>3. RecipientTyped'
  <2>1. P!Idle \in Slot /\ P!Idle.kind \in P!Kinds
    BY DEF P!Idle, Slot, P!Kinds
  <2> QED
    BY <1>1, <1>2, <2>1 DEF RecipientIInv, RecipientTyped, P!TypeOK, RecipientAssumption, P!Kinds
<1>4. CallsSound' /\ RecipientSingle' /\ ReadSound'
  BY <1>2 DEF RecipientIInv, CallsSound, RecipientSingle, ReadSound
<1>5. SelectionSound' /\ ChangeSound' /\ Known'
  BY <1>1 DEF SelectionSound, ChangeSound, Known
<1>6. Waits'
  BY <1>1, <1>2 DEF Waits
<1> QED
  BY <1>3, <1>4, <1>5, <1>6 DEF RecipientIInv

(* A lookup begins, and the ones before it are forgotten.                    *)
LEMMA BeginResolutionKeeps ==
  ASSUME RecipientAssumption, RecipientIInv, NEW p \in PPhones, P!BeginResolution(p)
  PROVE  RecipientIInv'
<1>1. PICK k : k = <<pSession, p>>
  OBVIOUS
<1>2. PICK new : new = [P!Call("lookup", k, FALSE) EXCEPT !.target = k]
  OBVIOUS
<1>3. k \in P!Contacts
  BY <1>1 DEF RecipientIInv, RecipientTyped, P!TypeOK, P!Contacts
<1>4. /\ new \in CallRow /\ new.op = "lookup" /\ new.target = k /\ new.contact = k /\ new.current
      /\ new.answer = None
  BY <1>2, <1>3 DEF P!Call, CallRow
<1>5. /\ pTyped' = p /\ pLookup' = k /\ pChange' = None
      /\ pContactSlot' = [P!Idle EXCEPT !.kind = "submitting"]
      /\ pCalls' = {c \in pCalls : c.op # "lookup"} \cup {new}
      /\ UNCHANGED <<pSession, pConsentSlot, pSendSlot, pConsent, pUnsure, pForgotten>>
  BY <1>1, <1>2, SupersededLookup DEF P!BeginResolution, RecipientIInv
<1>6. pContactSlot' \in Slot /\ pContactSlot'.kind = "submitting"
  BY <1>5 DEF P!Idle, Slot, P!Kinds
<1>7. k # None /\ None # "ready"
  BY <1>3 DEF RecipientAssumption, P!Contacts
<1>8. RecipientTyped'
  BY <1>3, <1>4, <1>5, <1>6 DEF RecipientIInv, RecipientTyped, P!TypeOK, P!Kinds
<1>9. CallsSound' /\ RecipientSingle' /\ ReadSound'
  BY <1>4, <1>5, <1>6, <1>7 DEF RecipientIInv, CallsSound, RecipientSingle, ReadSound, P!Outstanding
<1>10. SelectionSound'
  BY <1>1, <1>3, <1>4, <1>5, <1>6 DEF SelectionSound, P!Chosen
<1>11. ChangeSound' /\ Known'
  BY <1>5, <1>6 DEF ChangeSound, Known
<1>12. Waits'
  BY <1>4, <1>5 DEF RecipientIInv, Waits
<1> QED
  BY <1>8, <1>9, <1>10, <1>11, <1>12 DEF RecipientIInv

-----------------------------------------------------------------------------
(* What a contact that is shown as verified stands for.                      *)
LEMMA ResolvedIs ==
  ASSUME RecipientAssumption, RecipientIInv, P!Resolved
  PROVE  /\ pLookup \in P!Contacts /\ pLookup # None /\ pContactSlot.kind = "ready"
         /\ pContactSlot.contact = pLookup /\ P!Chosen = pLookup
<1>1. P!Chosen \in PSessions \X (PPhones \cup {None})
  BY DEF P!Chosen, RecipientIInv, RecipientTyped, P!TypeOK
<1>2. pLookup # None
  BY <1>1 DEF P!Resolved, RecipientAssumption
<1> QED
  BY <1>2 DEF P!Resolved, RecipientIInv, SelectionSound

LEMMA ChangeConsentKeeps ==
  ASSUME RecipientAssumption, RecipientIInv, P!ChangeConsent
  PROVE  RecipientIInv'
<1>1. PICK g \in BOOLEAN : g = ~P!HasServerConsent
  OBVIOUS
<1>2. PICK new : new = P!Call("consent", pLookup, g)
  OBVIOUS
<1>3. /\ pLookup \in P!Contacts /\ pLookup # None /\ pContactSlot.kind = "ready"
      /\ pContactSlot.contact = pLookup /\ P!Chosen = pLookup
  BY ResolvedIs DEF P!ChangeConsent
<1>4. /\ new \in CallRow /\ new.op = "consent" /\ new.target = pLookup /\ new.contact = pLookup
      /\ new.current /\ new.answer = None /\ new.granted = g
  BY <1>2, <1>3 DEF P!Call, CallRow
<1>5. /\ P!Resolved /\ ~P!ConsentPending /\ pChange' = [contact |-> pLookup, granted |-> g]
      /\ pConsentSlot' = "submitting" /\ pCalls' = P!Superseded("consent") \cup {new}
      /\ UNCHANGED <<pSession, pTyped, pLookup, pContactSlot, pSendSlot, pConsent, pUnsure, pForgotten>>
  BY <1>1, <1>2, <1>3 DEF P!ChangeConsent, P!ContactId
<1>6. ASSUME NEW e \in pCalls'
      PROVE  \/ e = new
             \/ e \in pCalls /\ e.op # "consent"
             \/ /\ e \in CallRow /\ e.op = "consent" /\ e.answer = None /\ ~e.current /\ e.contact = e.target
                /\ \E c \in pCalls : c.op = "consent" /\ c.answer = None /\ c.contact = e.contact
  <2>1. CASE e = new \/ (e \in pCalls /\ e.op # "consent")
    BY <2>1
  <2>2. CASE \E c \in pCalls : c.op = "consent" /\ c.answer = None /\ e = [c EXCEPT !.current = FALSE]
    <3>1. PICK c \in pCalls : c.op = "consent" /\ c.answer = None /\ e = [c EXCEPT !.current = FALSE]
      BY <2>2
    <3>2. c \in CallRow /\ c.contact = c.target
      BY DEF RecipientIInv, RecipientTyped, CallsSound
    <3> QED
      BY <3>1, <3>2 DEF CallRow
  <2> QED
    BY <1>5, <1>6, <2>1, <2>2, SupersededConsent DEF RecipientIInv
<1>7. new \in pCalls' /\ \A e \in pCalls : e.op # "consent" => e \in pCalls'
  BY <1>5, SupersededConsent DEF RecipientIInv
<1>8. pChange' \in [contact : P!Contacts, granted : BOOLEAN] /\ pChange' # None
  BY <1>3, <1>5 DEF RecipientAssumption
<1>9. RecipientTyped'
  BY <1>4, <1>5, <1>6, <1>8 DEF RecipientIInv, RecipientTyped, P!TypeOK, P!Kinds
<1>10. \A e \in pCalls : e.op # "lookup"
  BY <1>3 DEF RecipientIInv, RecipientSingle
<1>11. CallsSound' /\ RecipientSingle' /\ ReadSound'
  BY <1>4, <1>6, <1>10 DEF RecipientIInv, CallsSound, RecipientSingle, ReadSound
<1>12. SelectionSound'
  BY <1>3, <1>4, <1>5, <1>6, <1>10 DEF SelectionSound, P!Chosen
<1>13. ChangeSound'
  BY <1>3, <1>4, <1>5, <1>6 DEF ChangeSound
<1>14. Waits'
  BY <1>4, <1>5, <1>6, <1>7 DEF RecipientIInv, Waits
<1>15. Known'
  <2> SUFFICES ASSUME pLookup \notin pUnsure, NEW e \in pCalls', e.op = "consent", e.contact = pLookup
               PROVE  e.current /\ e.answer = None
    BY <1>5, <1>8 DEF Known, RecipientAssumption
  <2>1. CASE e = new
    BY <1>4, <2>1
  <2>2. CASE e # new
    <3>1. PICK c \in pCalls : c.op = "consent" /\ c.answer = None /\ c.contact = pLookup
      BY <1>6, <2>2
    <3>2. pChange # None /\ c.current
      BY <1>3, <3>1 DEF RecipientIInv, Known, P!Outstanding
    <3>3. pChange.contact = pLookup /\ pConsentSlot = "submitting"
      BY <3>1, <3>2 DEF RecipientIInv, ChangeSound
    <3> QED
      BY <1>3, <1>5, <3>2, <3>3 DEF P!ConsentPending, P!MutationCurrent, P!ContactId
  <2> QED
    BY <2>1, <2>2
<1> QED
  BY <1>9, <1>11, <1>12, <1>13, <1>14, <1>15 DEF RecipientIInv

LEMMA RecipientSubmitKeeps ==
  ASSUME RecipientAssumption, RecipientIInv, P!Submit
  PROVE  RecipientIInv'
<1>1. P!Resolved
  BY DEF P!Submit, P!HasServerConsent
<1>2. PICK new : new = P!Call("send", pLookup, FALSE)
  OBVIOUS
<1>3. /\ pLookup \in P!Contacts /\ pContactSlot.kind = "ready" /\ pContactSlot.contact = pLookup /\ P!Chosen = pLookup
  BY <1>1, ResolvedIs
<1>4. /\ new \in CallRow /\ new.op = "send" /\ new.target = pLookup /\ new.contact = pLookup /\ new.current
  BY <1>2, <1>3 DEF P!Call, CallRow
<1>5. /\ pSendSlot # "submitting" /\ pSendSlot' = "submitting" /\ pCalls' = pCalls \cup {new}
      /\ UNCHANGED <<pSession, pTyped, pLookup, pChange, pContactSlot, pConsentSlot, pConsent, pUnsure, pForgotten>>
  BY <1>2, <1>3 DEF P!Submit, P!ContactId, P!local
<1>6. RecipientTyped'
  BY <1>4, <1>5 DEF RecipientIInv, RecipientTyped, P!TypeOK, P!Kinds
<1>7. CallsSound' /\ RecipientSingle' /\ ReadSound'
  BY <1>4, <1>5 DEF RecipientIInv, CallsSound, RecipientSingle, ReadSound, P!Outstanding
<1>8. SelectionSound'
  BY <1>4, <1>5 DEF RecipientIInv, SelectionSound, P!Chosen
<1>9. ChangeSound' /\ Known'
  BY <1>4, <1>5 DEF RecipientIInv, ChangeSound, Known, P!Outstanding
<1>10. Waits'
  BY <1>4, <1>5 DEF RecipientIInv, Waits
<1> QED
  BY <1>6, <1>7, <1>8, <1>9, <1>10 DEF RecipientIInv

-----------------------------------------------------------------------------
(* The server serves a lookup: what it reads is what it holds, and may be    *)
(* known from now on unless a change is on its way.                          *)
LEMMA ServeLookupKeeps ==
  ASSUME RecipientAssumption, RecipientIInv, NEW c \in pCalls, P!ServeLookup(c)
  PROVE  RecipientIInv'
<1>0. PICK b \in BOOLEAN : b = (c.contact \in pConsent)
  <2>1. (c.contact \in pConsent) \in BOOLEAN
    OBVIOUS
  <2> QED
    BY <2>1
<1>1. PICK d : d = [c EXCEPT !.answer = "ready", !.granted = b]
  OBVIOUS
<1>2. c \in CallRow /\ c.contact = c.target /\ c.op = "lookup" /\ c.current
  BY DEF P!ServeLookup, RecipientIInv, RecipientTyped, CallsSound
<1>3. /\ d \in CallRow /\ d.op = "lookup" /\ d.target = c.target /\ d.contact = c.contact
      /\ d.current /\ d.granted = b
  BY <1>1, <1>2 DEF CallRow
<1>4. /\ pCalls' = (pCalls \ {c}) \cup {d}
      /\ pUnsure' = IF P!Outstanding(c.contact) THEN pUnsure \cup {c.contact} ELSE pUnsure \ {c.contact}
      /\ UNCHANGED <<pSession, pTyped, pLookup, pChange, pContactSlot, pConsentSlot, pSendSlot, pConsent, pForgotten>>
  BY <1>0, <1>1 DEF P!ServeLookup, P!local, P!slots
<1>5. pContactSlot.kind = "submitting" /\ \A e \in pCalls \ {c} : e.op # "lookup"
  BY <1>2 DEF RecipientIInv, RecipientSingle
<1>6. RecipientTyped'
  BY <1>2, <1>3, <1>4 DEF RecipientIInv, RecipientTyped, P!TypeOK, CallRow
<1>7. CallsSound' /\ RecipientSingle'
  BY <1>2, <1>3, <1>4, <1>5 DEF RecipientIInv, CallsSound, RecipientSingle
<1>8. SelectionSound' /\ ChangeSound' /\ Known'
  BY <1>2, <1>3, <1>4, <1>5 DEF RecipientIInv, SelectionSound, P!Chosen, ChangeSound, Known
<1>9. Waits'
  BY <1>2, <1>3, <1>4 DEF RecipientIInv, Waits
<1>10. ReadSound'
  <2> SUFFICES ASSUME d.contact \notin pUnsure'
               PROVE  (d.granted <=> d.contact \in pConsent) /\ ~P!Outstanding(d.contact)'
    BY <1>4, <1>5 DEF ReadSound
  <2>1. ~P!Outstanding(c.contact)
    BY <1>3, <1>4
  <2>2. ~P!Outstanding(d.contact)'
    BY <1>3, <1>4, <2>1 DEF P!Outstanding
  <2>3. d.granted <=> d.contact \in pConsent'
    BY <1>0, <1>3, <1>4
  <2> QED
    BY <1>4, <2>2, <2>3
<1> QED
  BY <1>6, <1>7, <1>8, <1>9, <1>10 DEF RecipientIInv

(* The server stores a consent: if it is of the contact shown, it is the     *)
(* page's own last change.                                                   *)
LEMMA ServeConsentKeeps ==
  ASSUME RecipientAssumption, RecipientIInv, NEW c \in pCalls, P!ServeConsent(c)
  PROVE  RecipientIInv'
<1>1. PICK d : d = [c EXCEPT !.answer = "ready"]
  OBVIOUS
<1>2. c \in CallRow /\ c.contact = c.target /\ c.op = "consent" /\ c.answer = None
  BY DEF P!ServeConsent, RecipientIInv, RecipientTyped, CallsSound
<1>3. /\ d \in CallRow /\ d.op = "consent" /\ d.target = c.target /\ d.contact = c.contact
      /\ d.granted = c.granted /\ d.current = c.current /\ d.answer = "ready"
  BY <1>1, <1>2 DEF CallRow
<1>4. /\ pCalls' = (pCalls \ {c}) \cup IF c.current THEN {d} ELSE {}
      /\ pConsent' = IF c.granted THEN pConsent \cup {c.contact} ELSE pConsent \ {c.contact}
      /\ UNCHANGED <<pSession, pTyped, pLookup, pChange, pContactSlot, pConsentSlot, pSendSlot, pUnsure, pForgotten>>
  BY <1>1 DEF P!ServeConsent, P!Answered, P!local, P!slots
<1>5. /\ \A e \in pCalls' : e \in pCalls \/ (e = d /\ c.current)
      /\ \A e \in pCalls : e.op # "consent" => e \in pCalls'
  BY <1>2, <1>4
<1>6. RecipientTyped'
  BY <1>2, <1>3, <1>4, <1>5 DEF RecipientIInv, RecipientTyped, P!TypeOK, CallRow
<1>7. CallsSound' /\ RecipientSingle'
  BY <1>2, <1>3, <1>4 DEF RecipientIInv, CallsSound, RecipientSingle
<1>8. SelectionSound' /\ ChangeSound'
  BY <1>2, <1>3, <1>4, <1>5 DEF RecipientIInv, SelectionSound, P!Chosen, ChangeSound
<1>9. Waits'
  BY <1>2, <1>3, <1>4, <1>5 DEF RecipientIInv, Waits
<1>10. ReadSound'
  <2> SUFFICES ASSUME NEW e \in pCalls', e.op = "lookup", e.answer = "ready", e.contact \notin pUnsure
               PROVE  (e.granted <=> e.contact \in pConsent') /\ ~P!Outstanding(e.contact)'
    BY <1>4 DEF ReadSound
  <2>1. e \in pCalls
    BY <1>3, <1>5
  <2>2. (e.granted <=> e.contact \in pConsent) /\ ~P!Outstanding(e.contact)
    BY <2>1 DEF RecipientIInv, ReadSound
  <2>3. c.contact # e.contact
    BY <1>2, <2>2 DEF P!Outstanding
  <2>4. ~P!Outstanding(e.contact)'
    BY <1>3, <1>5, <2>2, <2>3 DEF P!Outstanding
  <2> QED
    BY <1>4, <2>2, <2>3, <2>4
<1>11. Known'
  <2> SUFFICES ASSUME pLookup # None, pContactSlot.kind = "ready", pLookup \notin pUnsure
               PROVE  /\ pChange = None => (pContactSlot.granted <=> pLookup \in pConsent') /\ ~P!Outstanding(pLookup)'
                      /\ pChange # None =>
                           /\ pConsentSlot # "error"
                           /\ pConsentSlot = "ready" => (pChange.granted <=> pLookup \in pConsent')
                           /\ \A e \in pCalls' : e.op = "consent" /\ e.contact = pLookup =>
                                /\ e.current /\ e.answer # "error"
                                /\ e.answer = "ready" => (e.granted <=> pLookup \in pConsent')
    BY <1>4 DEF Known, P!Outstanding
  <2>1. CASE c.contact # pLookup
    <3>1. pLookup \in pConsent' <=> pLookup \in pConsent
      BY <1>4, <2>1
    <3>2. \A e \in pCalls' : e.op = "consent" /\ e.contact = pLookup => e \in pCalls
      BY <1>3, <1>5, <2>1
    <3>3. CASE pChange = None
      <4>1. (pContactSlot.granted <=> pLookup \in pConsent) /\ ~P!Outstanding(pLookup)
        BY <3>3 DEF RecipientIInv, Known
      <4>2. ~P!Outstanding(pLookup)'
        BY <3>2, <4>1, <1>4 DEF P!Outstanding
      <4> QED
        BY <3>1, <3>3, <4>1, <4>2
    <3>4. CASE pChange # None
      <4>1. /\ pConsentSlot # "error"
            /\ pConsentSlot = "ready" => (pChange.granted <=> pLookup \in pConsent)
        BY <3>4 DEF RecipientIInv, Known
      <4>2. ASSUME NEW e \in pCalls', e.op = "consent", e.contact = pLookup
            PROVE  /\ e.current /\ e.answer # "error"
                   /\ e.answer = "ready" => (e.granted <=> pLookup \in pConsent)
        BY <3>2, <3>4, <4>2 DEF RecipientIInv, Known
      <4> QED
        BY <3>1, <3>4, <4>1, <4>2
    <3> QED
      BY <3>3, <3>4
  <2>2. CASE c.contact = pLookup
    <3>1. pChange # None /\ c.current
      BY <1>2, <2>2 DEF RecipientIInv, Known, P!Outstanding
    <3>2. pConsentSlot = "submitting"
      BY <1>2, <3>1 DEF RecipientIInv, ChangeSound
    <3>3. ASSUME NEW e \in pCalls', e.op = "consent", e.contact = pLookup
          PROVE  e = d
      BY <1>2, <1>4, <3>1, <3>3 DEF RecipientIInv, Known, RecipientSingle
    <3>4. c.granted <=> pLookup \in pConsent'
      BY <1>4, <2>2
    <3>5. ASSUME NEW e \in pCalls', e.op = "consent", e.contact = pLookup
          PROVE  e.current /\ e.answer # "error" /\ (e.granted <=> pLookup \in pConsent')
      <4>1. e.current = c.current /\ e.answer = "ready" /\ e.granted = c.granted
        BY <1>3, <3>3, <3>5
      <4> QED
        BY <3>1, <3>4, <4>1
    <3> QED
      BY <3>1, <3>2, <3>5
  <2> QED
    BY <2>1, <2>2
<1> QED
  BY <1>6, <1>7, <1>8, <1>9, <1>10, <1>11 DEF RecipientIInv

LEMMA ServeSendKeeps ==
  ASSUME RecipientAssumption, RecipientIInv, NEW c \in pCalls, P!ServeSend(c)
  PROVE  RecipientIInv'
<1>1. PICK a \in {"ready", "error"} : a = IF c.contact \in pConsent THEN "ready" ELSE "error"
  OBVIOUS
<1>2. PICK d : d = [c EXCEPT !.answer = a]
  OBVIOUS
<1>3. c \in CallRow /\ c.contact = c.target /\ c.op = "send" /\ c.current
  BY DEF P!ServeSend, RecipientIInv, RecipientTyped, CallsSound
<1>4. d \in CallRow /\ d.op = "send" /\ d.target = c.target /\ d.contact = c.contact /\ d.current
  BY <1>2, <1>3 DEF CallRow
<1>5. /\ pCalls' = (pCalls \ {c}) \cup {d}
      /\ UNCHANGED <<pSession, pTyped, pLookup, pChange, pContactSlot, pConsentSlot, pSendSlot, pConsent, pUnsure, pForgotten>>
  BY <1>1, <1>2, <1>3 DEF P!ServeSend, P!Answered, P!local, P!slots
<1>6. RecipientTyped' /\ CallsSound' /\ RecipientSingle' /\ Waits'
  BY <1>3, <1>4, <1>5 DEF RecipientIInv, RecipientTyped, P!TypeOK, CallsSound, RecipientSingle, Waits
<1>7. SelectionSound' /\ ChangeSound' /\ ReadSound' /\ Known'
  BY <1>3, <1>4, <1>5 DEF RecipientIInv, SelectionSound, P!Chosen, ChangeSound, ReadSound, Known, P!Outstanding
<1> QED
  BY <1>6, <1>7 DEF RecipientIInv

(* A failure leaves a consent in doubt; an orphan of it may be stored later. *)
LEMMA FailKeeps ==
  ASSUME RecipientAssumption, RecipientIInv, NEW c \in pCalls, P!Fail(c)
  PROVE  RecipientIInv'
<1>1. PICK d : d = [c EXCEPT !.answer = "error"]
  OBVIOUS
<1>2. PICK o : o = [c EXCEPT !.current = FALSE]
  OBVIOUS
<1>3. c \in CallRow /\ c.contact = c.target /\ c.current
  BY DEF P!Fail, RecipientIInv, RecipientTyped, CallsSound
<1>4. /\ d \in CallRow /\ d.op = c.op /\ d.target = c.target /\ d.contact = c.contact
      /\ d.granted = c.granted /\ d.current /\ d.answer = "error"
      /\ o \in CallRow /\ o.op = c.op /\ o.target = c.target /\ o.contact = c.contact
      /\ ~o.current /\ o.answer = c.answer
  BY <1>1, <1>2, <1>3 DEF CallRow
<1>5. /\ pCalls' = (pCalls \ {c}) \cup {d} \/ (/\ pCalls' = (pCalls \ {c}) \cup {d} \cup {o}
                                              /\ c.op = "consent" /\ c.answer = None)
      /\ pUnsure' = IF c.op = "consent" THEN pUnsure \cup {c.contact} ELSE pUnsure
      /\ UNCHANGED <<pSession, pTyped, pLookup, pChange, pContactSlot, pConsentSlot, pSendSlot, pConsent, pForgotten>>
  <2>1. {[x EXCEPT !.current = FALSE] : x \in {c} \cap {x \in pCalls : x.op = "consent" /\ x.answer = None}} =
          IF c.op = "consent" /\ c.answer = None THEN {o} ELSE {}
    BY <1>2
  <2> QED
    BY <1>1, <1>3, <2>1 DEF P!Fail, P!Answered, P!local, P!slots
<1>6. /\ d \in pCalls' /\ \A e \in pCalls \ {c} : e \in pCalls'
      /\ \A e \in pCalls' : e \in pCalls \ {c} \/ e = d \/ (e = o /\ c.op = "consent" /\ c.answer = None)
  BY <1>5
<1>7. RecipientTyped'
  BY <1>3, <1>4, <1>5, <1>6 DEF RecipientIInv, RecipientTyped, P!TypeOK, CallRow
<1>8. CallsSound' /\ RecipientSingle'
  BY <1>3, <1>4, <1>5, <1>6 DEF RecipientIInv, CallsSound, RecipientSingle
<1>9. SelectionSound' /\ ChangeSound'
  BY <1>3, <1>4, <1>5, <1>6 DEF RecipientIInv, SelectionSound, P!Chosen, ChangeSound
<1>10. Waits'
  BY <1>3, <1>4, <1>5, <1>6 DEF RecipientIInv, Waits
<1>11. \A k \in P!Contacts \ pUnsure' : P!Outstanding(k)' => P!Outstanding(k)
  BY <1>4, <1>5, <1>6, RecipientAssumption DEF P!Outstanding, RecipientAssumption
<1>12. ReadSound'
  BY <1>4, <1>5, <1>6, <1>11 DEF RecipientIInv, RecipientTyped, CallRow, ReadSound
<1>13. Known'
  <2> SUFFICES ASSUME pLookup # None, pContactSlot.kind = "ready", pLookup \notin pUnsure'
               PROVE  /\ pChange = None => (pContactSlot.granted <=> pLookup \in pConsent) /\ ~P!Outstanding(pLookup)'
                      /\ pChange # None =>
                           /\ pConsentSlot # "error"
                           /\ pConsentSlot = "ready" => (pChange.granted <=> pLookup \in pConsent)
                           /\ \A e \in pCalls' : e.op = "consent" /\ e.contact = pLookup =>
                                /\ e.current /\ e.answer # "error"
                                /\ e.answer = "ready" => (e.granted <=> pLookup \in pConsent)
    BY <1>5 DEF Known, P!Outstanding
  <2>1. pLookup \in P!Contacts /\ pLookup \notin pUnsure
    BY <1>5 DEF RecipientIInv, SelectionSound
  <2>2. \A e \in pCalls' : e.op = "consent" /\ e.contact = pLookup => e \in pCalls
    BY <1>4, <1>5, <1>6
  <2>3. CASE pChange = None
    <3>1. (pContactSlot.granted <=> pLookup \in pConsent) /\ ~P!Outstanding(pLookup)
      BY <2>1, <2>3 DEF RecipientIInv, Known
    <3>2. ~P!Outstanding(pLookup)'
      BY <1>5, <1>11, <2>1, <3>1
    <3> QED
      BY <2>3, <3>1, <3>2
  <2>4. CASE pChange # None
    <3>1. /\ pConsentSlot # "error"
          /\ pConsentSlot = "ready" => (pChange.granted <=> pLookup \in pConsent)
      BY <2>1, <2>4 DEF RecipientIInv, Known
    <3>2. ASSUME NEW e \in pCalls', e.op = "consent", e.contact = pLookup
          PROVE  /\ e.current /\ e.answer # "error"
                 /\ e.answer = "ready" => (e.granted <=> pLookup \in pConsent)
      BY <2>1, <2>2, <2>4, <3>2 DEF RecipientIInv, Known
    <3> QED
      BY <2>4, <3>1, <3>2
  <2> QED
    BY <2>3, <2>4
<1> QED
  BY <1>7, <1>8, <1>9, <1>10, <1>12, <1>13 DEF RecipientIInv

LEMMA OtherChangeKeeps ==
  ASSUME RecipientAssumption, RecipientIInv, NEW k \in PElsewhere, P!OtherChange(k)
  PROVE  RecipientIInv'
<1>1. /\ k \in P!Contacts /\ pUnsure' = pUnsure \cup {k} /\ pConsent' \subseteq P!Contacts
      /\ \A j \in P!Contacts \ {k} : j \in pConsent' <=> j \in pConsent
      /\ UNCHANGED <<pSession, pTyped, pLookup, pChange, pContactSlot, pConsentSlot, pSendSlot, pCalls, pForgotten>>
  BY DEF P!OtherChange, RecipientAssumption, RecipientIInv, RecipientTyped, P!TypeOK, P!local, P!slots
<1>2. RecipientTyped' /\ CallsSound' /\ RecipientSingle' /\ Waits' /\ SelectionSound' /\ ChangeSound'
  BY <1>1 DEF RecipientIInv, RecipientTyped, P!TypeOK, CallsSound, RecipientSingle, Waits, SelectionSound, P!Chosen, ChangeSound
<1>3. ReadSound'
  BY <1>1 DEF RecipientIInv, RecipientTyped, CallRow, ReadSound, P!Outstanding
<1>4. Known'
  BY <1>1 DEF RecipientIInv, SelectionSound, Known, P!Outstanding
<1> QED
  BY <1>2, <1>3, <1>4 DEF RecipientIInv

-----------------------------------------------------------------------------
(* The page shows an answer.                                                 *)
LEMMA ShowLookupKeeps ==
  ASSUME RecipientAssumption, RecipientIInv, NEW c \in pCalls, P!ShowLookup(c)
  PROVE  RecipientIInv'
<1>1. /\ c \in CallRow /\ c.op = "lookup" /\ c.answer \in {"ready", "error"} /\ c.granted \in BOOLEAN
      /\ pContactSlot.kind = "submitting" /\ pCalls' = pCalls \ {c}
      /\ \A e \in pCalls' : e.op # "lookup"
  BY DEF P!ShowLookup, RecipientIInv, RecipientTyped, CallRow, RecipientSingle
<1>2. /\ pContactSlot'.kind = c.answer /\ pContactSlot' \in Slot /\ pContactSlot'.kind \in P!Kinds
      /\ c.answer = "ready" => pContactSlot'.contact = c.contact /\ pContactSlot'.granted = c.granted
  <2>1. CASE c.answer = "ready"
    BY <1>1, <2>1 DEF P!ShowLookup, CallRow, Slot, P!Kinds
  <2>2. CASE c.answer = "error"
    BY <1>1, <2>2 DEF P!ShowLookup, P!Idle, Slot, P!Kinds
  <2> QED
    BY <1>1, <2>1, <2>2
<1>3. UNCHANGED <<pSession, pTyped, pLookup, pChange, pConsentSlot, pSendSlot, pConsent, pUnsure, pForgotten>>
  BY DEF P!ShowLookup, P!local
<1>4. RecipientTyped' /\ CallsSound' /\ RecipientSingle' /\ Waits' /\ ReadSound'
  BY <1>1, <1>2, <1>3 DEF RecipientIInv, RecipientTyped, P!TypeOK, CallsSound, RecipientSingle, Waits, ReadSound
<1>5. SelectionSound'
  BY <1>1, <1>2, <1>3 DEF RecipientIInv, SelectionSound, P!Chosen
<1>6. pLookup # None => pChange = None
  BY <1>1 DEF RecipientIInv, ChangeSound
<1>7. ChangeSound'
  BY <1>1, <1>3, <1>6 DEF RecipientIInv, ChangeSound
<1>8. Known'
  <2> SUFFICES ASSUME pLookup # None, pContactSlot'.kind = "ready", pLookup \notin pUnsure
               PROVE  (pContactSlot'.granted <=> pLookup \in pConsent) /\ ~P!Outstanding(pLookup)'
    BY <1>3, <1>6 DEF Known, P!Outstanding
  <2>1. c.answer = "ready" /\ c.contact = pLookup
    BY <1>1, <1>2 DEF RecipientIInv, SelectionSound
  <2>2. (c.granted <=> pLookup \in pConsent) /\ ~P!Outstanding(pLookup)
    BY <1>1, <2>1 DEF RecipientIInv, ReadSound
  <2>3. ~P!Outstanding(pLookup)'
    BY <1>1, <1>3, <2>2 DEF P!Outstanding
  <2>4. pContactSlot'.granted = c.granted
    BY <1>2, <2>1
  <2> QED
    BY <2>2, <2>3, <2>4
<1> QED
  BY <1>4, <1>5, <1>7, <1>8 DEF RecipientIInv

LEMMA ShowConsentKeeps ==
  ASSUME RecipientAssumption, RecipientIInv, NEW c \in pCalls, P!ShowConsent(c)
  PROVE  RecipientIInv'
<1>1. /\ c \in CallRow /\ c.op = "consent" /\ c.answer \in {"ready", "error"} /\ c.current
      /\ pCalls' = pCalls \ {c} /\ pConsentSlot' = c.answer
  BY DEF P!ShowConsent, RecipientIInv, RecipientTyped, CallRow, CallsSound
<1>2. UNCHANGED <<pSession, pTyped, pLookup, pChange, pContactSlot, pSendSlot, pConsent, pUnsure, pForgotten>>
  BY DEF P!ShowConsent, P!local
<1>3. \A e \in pCalls' : e.op = "consent" => ~e.current
  BY <1>1 DEF RecipientIInv, RecipientSingle
<1>4. pConsentSlot' \in P!Kinds /\ pConsentSlot' # "idle" /\ pConsentSlot' # "submitting"
  BY <1>1 DEF P!Kinds
<1>5. RecipientTyped' /\ CallsSound' /\ RecipientSingle' /\ Waits'
  BY <1>1, <1>2, <1>4 DEF RecipientIInv, RecipientTyped, P!TypeOK, CallsSound, RecipientSingle, Waits
<1>6. ReadSound'
  BY <1>1, <1>2 DEF RecipientIInv, ReadSound, P!Outstanding
<1>7. SelectionSound'
  BY <1>1, <1>2 DEF RecipientIInv, SelectionSound, P!Chosen
<1>8. ChangeSound'
  BY <1>1, <1>2, <1>3, <1>4 DEF RecipientIInv, ChangeSound
<1>9. Known'
  <2> SUFFICES ASSUME pLookup # None, pContactSlot.kind = "ready", pLookup \notin pUnsure
               PROVE  /\ pChange = None => (pContactSlot.granted <=> pLookup \in pConsent) /\ ~P!Outstanding(pLookup)'
                      /\ pChange # None =>
                           /\ c.answer # "error"
                           /\ c.answer = "ready" => (pChange.granted <=> pLookup \in pConsent)
                           /\ \A e \in pCalls' : e.op = "consent" /\ e.contact = pLookup => FALSE
    BY <1>1, <1>2, <1>3 DEF Known, P!Outstanding
  <2>1. CASE pChange = None
    <3>1. (pContactSlot.granted <=> pLookup \in pConsent) /\ ~P!Outstanding(pLookup)
      BY <2>1 DEF RecipientIInv, Known
    <3>2. ~P!Outstanding(pLookup)'
      BY <1>1, <1>2, <3>1 DEF P!Outstanding
    <3> QED
      BY <2>1, <3>1, <3>2
  <2>2. CASE pChange # None
    <3>1. c.contact = pLookup /\ c.granted = pChange.granted
      BY <1>1, <2>2 DEF RecipientIInv, ChangeSound
    <3>2. \A e \in pCalls : e.op = "consent" /\ e.contact = pLookup =>
              /\ e.current /\ e.answer # "error"
              /\ e.answer = "ready" => (e.granted <=> pLookup \in pConsent)
      BY <2>2 DEF RecipientIInv, Known
    <3>3. c.answer # "error" /\ (c.answer = "ready" => (c.granted <=> pLookup \in pConsent))
      BY <1>1, <3>1, <3>2
    <3>4. \A e \in pCalls' : e.op = "consent" /\ e.contact = pLookup => FALSE
      BY <1>1, <1>3, <3>2
    <3> QED
      BY <2>2, <3>1, <3>3, <3>4
  <2> QED
    BY <2>1, <2>2
<1> QED
  BY <1>5, <1>6, <1>7, <1>8, <1>9 DEF RecipientIInv

LEMMA ShowSendKeeps ==
  ASSUME RecipientAssumption, RecipientIInv, NEW c \in pCalls, P!ShowSend(c)
  PROVE  RecipientIInv'
<1>1. /\ c \in CallRow /\ c.op = "send" /\ c.answer \in {"ready", "error"}
      /\ pCalls' = pCalls \ {c} /\ pSendSlot' = c.answer
  BY DEF P!ShowSend, RecipientIInv, RecipientTyped, CallRow
<1>2. UNCHANGED <<pSession, pTyped, pLookup, pChange, pContactSlot, pConsentSlot, pConsent, pUnsure, pForgotten>>
  BY DEF P!ShowSend, P!local
<1>3. pSendSlot' \in P!Kinds /\ pSendSlot' # "submitting"
  BY <1>1 DEF P!Kinds
<1>4. RecipientTyped' /\ CallsSound' /\ RecipientSingle'
  BY <1>1, <1>2, <1>3 DEF RecipientIInv, RecipientTyped, P!TypeOK, CallsSound, RecipientSingle
<1>5. Waits'
  BY <1>1, <1>2, <1>3 DEF RecipientIInv, Waits
<1>6. SelectionSound' /\ ChangeSound' /\ ReadSound'
  BY <1>1, <1>2 DEF RecipientIInv, SelectionSound, P!Chosen, ChangeSound, ReadSound, P!Outstanding
<1>7. Known'
  BY <1>1, <1>2 DEF RecipientIInv, Known, P!Outstanding
<1> QED
  BY <1>4, <1>5, <1>6, <1>7 DEF RecipientIInv

LEMMA NextRecipient ==
  ASSUME RecipientAssumption, RecipientIInv, [P!Next]_P!vars
  PROVE  RecipientIInv'
<1>1. ASSUME NEW p \in PPhones, P!EditRecipient(p)
      PROVE  RecipientIInv'
  BY <1>1, ClearedKeeps DEF P!EditRecipient, P!ClearSelection, P!slots, RecipientIInv, RecipientTyped, P!TypeOK
<1>2. ASSUME NEW p \in PPhones, P!PickFromDirectory(p)
      PROVE  RecipientIInv'
  BY <1>2, BeginResolutionKeeps DEF P!PickFromDirectory
<1>3. ASSUME NEW s \in PSessions, P!ChooseSession(s)
      PROVE  RecipientIInv'
  BY <1>3, ClearedKeeps DEF P!ChooseSession, P!ClearSelection, P!slots, RecipientIInv, RecipientTyped, P!TypeOK
<1>4. CASE P!Resolve
  BY <1>4, BeginResolutionKeeps DEF P!Resolve, RecipientIInv, RecipientTyped, P!TypeOK
<1>5. CASE P!ChangeConsent
  BY <1>5, ChangeConsentKeeps
<1>6. CASE P!Submit
  BY <1>6, RecipientSubmitKeeps
<1>7. CASE P!Leave
  BY <1>7, ClearedKeeps DEF P!Leave, P!ClearSelection, P!slots, RecipientAssumption
<1>8. CASE P!LeaveAndReset
  BY <1>8, LeaveAndResetKeeps
<1>9. ASSUME NEW k \in PElsewhere, P!OtherChange(k)
      PROVE  RecipientIInv'
  BY <1>9, OtherChangeKeeps
<1>10. ASSUME NEW c \in pCalls,
              \/ P!ServeLookup(c) \/ P!ServeConsent(c) \/ P!ServeSend(c) \/ P!Fail(c)
              \/ P!ShowLookup(c) \/ P!ShowConsent(c) \/ P!ShowSend(c)
       PROVE  RecipientIInv'
  BY <1>10, ServeLookupKeeps, ServeConsentKeeps, ServeSendKeeps, FailKeeps, ShowLookupKeeps,
     ShowConsentKeeps, ShowSendKeeps
<1>11. CASE UNCHANGED P!vars
  BY <1>11 DEF P!vars, P!local, P!slots, RecipientIInv, RecipientTyped, P!TypeOK, CallsSound, RecipientSingle, SelectionSound, P!Chosen,
     ChangeSound, Waits, ReadSound, Known, P!Outstanding
<1> QED
  BY <1>1, <1>2, <1>3, <1>4, <1>5, <1>6, <1>7, <1>8, <1>9, <1>10, <1>11 DEF P!Next

LEMMA RecipientSuffices ==
  ASSUME RecipientAssumption, RecipientIInv
  PROVE  P!RecipientInv
<1>1. P!TypeOK
  BY DEF RecipientIInv, RecipientTyped
<1>2. P!VerifiesTheChosen
  BY ResolvedIs DEF P!VerifiesTheChosen, P!ContactId
<1>3. P!ConsentShown
  <2> SUFFICES ASSUME P!HasServerConsent, P!Chosen \notin pUnsure
               PROVE  P!Chosen \in pConsent
    BY DEF P!ConsentShown
  <2>1. /\ P!Resolved /\ pLookup # None /\ pContactSlot.kind = "ready" /\ pContactSlot.contact = pLookup
        /\ P!Chosen = pLookup
    BY ResolvedIs DEF P!HasServerConsent
  <2>2. CASE pChange = None
    BY <2>1, <2>2 DEF P!HasServerConsent, P!MutationCurrent, RecipientIInv, Known
  <2>3. CASE pChange # None
    <3>1. P!MutationCurrent /\ pConsentSlot # "idle" /\ pConsentSlot # "error" /\ pConsentSlot \in P!Kinds
      BY <2>1, <2>3 DEF RecipientIInv, RecipientTyped, P!TypeOK, Known, ChangeSound, P!MutationCurrent, P!ContactId
    <3>2. pConsentSlot = "ready"
      BY <3>1 DEF P!HasServerConsent, P!ConsentPending, P!Kinds
    <3> QED
      BY <2>1, <2>3, <3>1, <3>2 DEF P!HasServerConsent, RecipientIInv, Known
  <2> QED
    BY <2>2, <2>3
<1>4. P!PendingAnswered
  <2>1. ASSUME P!ResolutionPending, pContactSlot.kind # "error"
        PROVE  \E c \in pCalls : c.op = "lookup" /\ c.target = pLookup
    <3>1. pLookup # None /\ pLookup = P!Chosen
      BY <2>1 DEF P!ResolutionPending, RecipientIInv, SelectionSound
    <3>2. CASE pContactSlot.kind = "ready"
      <4>1. pContactSlot.contact[2] = pTyped
        BY <3>1, <3>2 DEF RecipientIInv, SelectionSound, P!Chosen
      <4> QED
        BY <2>1, <3>1, <3>2, <4>1 DEF P!ResolutionPending, P!Resolved, P!ContactId
    <3>3. CASE pContactSlot.kind # "ready"
      BY <2>1, <3>1, <3>3 DEF RecipientIInv, SelectionSound, CallsSound
    <3> QED
      BY <3>2, <3>3
  <2>2. P!ConsentPending => \E c \in pCalls : c.op = "consent" /\ c.current
    BY DEF P!ConsentPending, RecipientIInv, Waits
  <2>3. pSendSlot = "submitting" => \E c \in pCalls : c.op = "send"
    BY DEF RecipientIInv, Waits
  <2> QED
    BY <2>1, <2>2, <2>3 DEF P!PendingAnswered
<1>5. P!TextsAgree
  <2>1. ASSUME ~pForgotten
        PROVE  P!Cardinality({c \in pCalls : c.op = "send"}) <= 1
    <3> DEFINE sends == {c \in pCalls : c.op = "send"}
    <3>1. sends = {} \/ \E c \in pCalls : sends = {c}
      BY <2>1 DEF RecipientIInv, Waits
    <3>2. Cardinality(sends) = 0 \/ Cardinality(sends) = 1
      BY <3>1, FS_EmptySet, FS_Singleton
    <3> QED
      BY <3>2, PCardinality
  <2> QED
    BY <2>1 DEF P!TextsAgree, RecipientIInv, CallsSound
<1> QED
  BY <1>1, <1>2, <1>3, <1>4, <1>5 DEF P!RecipientInv

(* What a page shows of a recipient is of the one chosen, his consent is the *)
(* server's unless something nobody could know came between, and what is     *)
(* pending waits for an answer.                                              *)
THEOREM RecipientHolds ==
  ASSUME RecipientAssumption
  PROVE  P!Spec => []P!RecipientInv
<1>1. P!Init => RecipientIInv
  BY InitRecipient
<1>2. RecipientIInv /\ [P!Next]_P!vars => RecipientIInv'
  BY NextRecipient
<1>3. RecipientIInv => P!RecipientInv
  BY RecipientSuffices
<1> QED
  BY <1>1, <1>2, <1>3, PTL DEF P!Spec

-----------------------------------------------------------------------------
(* HistoryView *)

(* The cardinality is the library's. *)
LEMMA VCardinality == \A set : V!Cardinality(set) = Cardinality(set)
BY DEF V!Cardinality, Cardinality

JobStates == {"scheduled", "moved", "cancelled"}

HistoryViewAssumption ==
  /\ IsFiniteSet(VJobs) /\ None \notin VJobs /\ VPageSize \in Nat \ {0}
  /\ VStates \in [VJobs -> JobStates]

Views == [kind : {"loading", "ready", "error"}, job : VJobs \cup {None}, state : JobStates \cup {None}]
Query == [page : 1..(V!Cardinality(VJobs) + 1), state : V!Filters]
Pages == [kind : {"loading", "ready", "error"}, query : Query \cup {None},
          items : SUBSET [job : VJobs, state : JobStates \cup {None}], more : BOOLEAN]
Exchanges == [op : V!Ops \cup {"list", "detail"}, job : VJobs \cup {None}, query : Query \cup {None},
             answer : Views \cup Pages \cup {None}]

HistoryViewTyped ==
  /\ V!TypeOK /\ vQuery \in Query /\ vHistory \in Pages /\ vDetail \in Views
  /\ vRequest \subseteq Exchanges /\ vVerdictOf \in [V!Ops -> VJobs \cup {None}]

(* A page with another one behind it is not the last that can be asked for.  *)
NotTheLast(a) == a.more => vQuery.page < V!Cardinality(VJobs)

(* What is under way asks for what is shown above it, and so does its answer. *)
ListsSound ==
  /\ \A c, d \in vRequest : c.op = "list" /\ d.op = "list" => c = d
  /\ \A c \in vRequest : c.op = "list" =>
       /\ c.query = vQuery /\ vHistory.kind = "loading"
       /\ c.answer # None /\ c.answer.kind = "ready" =>
            c.answer \in Pages /\ c.answer.query = vQuery /\ NotTheLast(c.answer)
DetailsSound ==
  \A c \in vRequest : c.op = "detail" =>
    /\ c.job = vSelected /\ vSelected \in VJobs
    /\ c.answer # None => c.answer \in Views /\ c.answer.kind # "loading" /\ c.answer.job \in {None, c.job}
ChangesSound ==
  \A c \in vRequest : c.op \in V!Ops =>
    /\ c.job \in VJobs
    /\ c.answer # None => c.answer \in Views /\ c.answer.kind # "loading"

PageSound ==
  /\ vHistory.kind = "ready" => NotTheLast(vHistory)
  /\ vHistory.kind # "ready" => vHistory.items = {}
Confirmed == vConfirming # None => vConfirming = vDetail.job
HistoryViewOfSelected == vDetail.job \in {None, vSelected}

HistoryViewIInv ==
  /\ HistoryViewTyped /\ ListsSound /\ DetailsSound /\ ChangesSound /\ PageSound /\ Confirmed
  /\ HistoryViewOfSelected /\ V!ShowsWhatIsAsked /\ V!NoLostSpinner /\ V!DeletesWhatWasConfirmed /\ V!GoneStaysGone /\ V!VerdictsCleared

(* A page of the jobs that match.                                            *)
LEMMA JobsCounted ==
  ASSUME HistoryViewAssumption
  PROVE  /\ V!Cardinality(VJobs) \in Nat
         /\ \A q : V!Cardinality(V!Matching(q)) \in Nat /\ V!Cardinality(V!Matching(q)) <= V!Cardinality(VJobs)
<1>1. \A q : V!Matching(q) \subseteq VJobs
  BY DEF V!Matching
<1> QED
  BY <1>1, FS_CardinalityType, FS_Subset, VCardinality DEF HistoryViewAssumption

LEMMA PageWithin ==
  ASSUME NEW p \in Nat \ {0}, NEW s \in Nat \ {0}, NEW n \in Nat, NEW m \in Nat, n <= m, p * s < n
  PROVE  p < m
<1>1. s - 1 \in Nat /\ p * s = p + p * (s - 1) /\ p * (s - 1) >= 0
  OBVIOUS
<1> QED
  BY <1>1

LEMMA PageServed ==
  ASSUME HistoryViewAssumption, vStored \in [VJobs -> JobStates \cup {None}], NEW q \in Query
  PROVE  /\ V!PageOf(q) \in Pages /\ V!PageOf(q).kind = "ready" /\ V!PageOf(q).query = q
         /\ V!PageOf(q).more => q.page < V!Cardinality(VJobs)
<1>1. \A j \in V!Matching(q) : [job |-> j, state |-> vStored[j]] \in [job : VJobs, state : JobStates \cup {None}]
  BY DEF V!Matching
<1>2. PICK items : items = V!PageOf(q).items
  OBVIOUS
<1>3. items \subseteq [job : VJobs, state : JobStates \cup {None}]
  BY <1>1, <1>2 DEF V!PageOf
<1>4. PICK more \in BOOLEAN : more = (q.page * VPageSize < V!Cardinality(V!Matching(q)))
  <2>1. (q.page * VPageSize < V!Cardinality(V!Matching(q))) \in BOOLEAN
    OBVIOUS
  <2> QED
    BY <2>1
<1>5. V!PageOf(q) = [kind |-> "ready", query |-> q, more |-> more, items |-> items]
  BY <1>2, <1>4 DEF V!PageOf
<1>6. ASSUME more
      PROVE  q.page < V!Cardinality(VJobs)
  <2>1. q.page \in Nat \ {0}
    BY JobsCounted DEF Query
  <2>2. q.page * VPageSize < V!Cardinality(V!Matching(q))
    BY <1>4, <1>6
  <2> QED
    BY <2>1, <2>2, JobsCounted, PageWithin DEF HistoryViewAssumption
<1> QED
  BY <1>3, <1>5, <1>6 DEF Pages

LEMMA InitHistoryView ==
  ASSUME HistoryViewAssumption, V!Init
  PROVE  HistoryViewIInv
<1>1. V!Cardinality(VJobs) \in Nat
  BY JobsCounted
<1>2. V!FirstQuery \in Query /\ V!FirstQuery.page \in 1..(V!Cardinality(VJobs) + 1) /\ V!FirstQuery.state \in V!Filters
  BY <1>1 DEF V!FirstQuery, Query, V!Filters
<1>3. V!NoPage \in Pages /\ V!NoPage.kind = "loading" /\ V!NoPage.items = {}
  BY DEF V!NoPage, Pages
<1>4. V!Loading \in Views /\ V!Loading.kind = "loading" /\ V!Loading.job = None
  BY DEF V!Loading, Views
<1>5. PICK c : c = V!Request("list", None, V!FirstQuery)
  OBVIOUS
<1>6. c \in Exchanges /\ c.op = "list" /\ c.query = V!FirstQuery /\ c.answer = None
  BY <1>2, <1>5 DEF V!Request, Exchanges
<1>7. vRequest = {c} /\ "list" \notin V!Ops /\ V!Idle \in [V!Ops -> {"idle", "submitting", "ready", "error"}]
  BY <1>5 DEF V!Init, V!Ops, V!Idle
<1>8. HistoryViewTyped
  <2>1. vStored \in [VJobs -> {"scheduled", "moved", "cancelled", None}]
    BY DEF V!Init, HistoryViewAssumption, JobStates
  <2> QED
    BY <1>2, <1>3, <1>4, <1>6, <1>7, <2>1 DEF V!Init, HistoryViewTyped, V!TypeOK
<1>9. ListsSound /\ DetailsSound /\ ChangesSound /\ PageSound /\ Confirmed
  BY <1>3, <1>6, <1>7 DEF V!Init, ListsSound, DetailsSound, ChangesSound, PageSound, Confirmed
<1>10. HistoryViewOfSelected /\ V!ShowsWhatIsAsked /\ V!NoLostSpinner /\ V!DeletesWhatWasConfirmed /\ V!GoneStaysGone /\ V!VerdictsCleared
  BY <1>3, <1>4, <1>6, <1>7
     DEF V!Init, HistoryViewOfSelected, V!ShowsWhatIsAsked, V!NoLostSpinner, V!Underway, V!DeletesWhatWasConfirmed, V!GoneStaysGone, V!VerdictsCleared, V!Idle
<1> QED
  BY <1>8, <1>9, <1>10 DEF HistoryViewIInv

-----------------------------------------------------------------------------
(* The page is asked for again.                                              *)
LEMMA ReloadKeeps ==
  ASSUME HistoryViewAssumption, HistoryViewIInv, NEW q \in Query, V!Reload(q), vOpen' \in VJobs \cup {None}
  PROVE  HistoryViewIInv'
<1>1. q.page \in 1..(V!Cardinality(VJobs) + 1) /\ q.state \in V!Filters
  BY DEF Query
<1>2. V!NoPage \in Pages /\ V!NoPage.kind = "loading" /\ V!NoPage.items = {}
  BY DEF V!NoPage, Pages
<1>3. V!Loading \in Views /\ V!Loading.kind = "loading" /\ V!Loading.job = None
  BY DEF V!Loading, Views
<1>4. PICK new : new = V!Request("list", None, q)
  OBVIOUS
<1>5. new \in Exchanges /\ new.op = "list" /\ new.query = q /\ new.answer = None
  BY <1>4 DEF V!Request, Exchanges
<1>6. /\ vRequest' = {c \in vRequest : c.op \notin {"list", "detail"}} \cup {new}
      /\ vQuery' = q /\ vHistory' = V!NoPage /\ vSelected' = None /\ vDetail' = V!Loading /\ vAction' = V!Idle
      /\ vConfirming' = None /\ vBehind' = {} /\ vVerdictOf' = [o \in V!Ops |-> None]
      /\ UNCHANGED <<vStored, vGone, vUnasked>>
  BY <1>4 DEF V!Reload, V!GiveUp
<1>7. "list" \notin V!Ops /\ "detail" \notin V!Ops /\ V!Idle \in [V!Ops -> {"idle", "submitting", "ready", "error"}]
  BY DEF V!Ops, V!Idle
<1>8. HistoryViewTyped'
  BY <1>1, <1>2, <1>3, <1>5, <1>6, <1>7 DEF HistoryViewIInv, HistoryViewTyped, V!TypeOK
<1>9. ListsSound' /\ DetailsSound'
  BY <1>2, <1>5, <1>6 DEF ListsSound, DetailsSound
<1>10. ChangesSound' /\ PageSound' /\ Confirmed'
  BY <1>2, <1>5, <1>6, <1>7 DEF HistoryViewIInv, ChangesSound, PageSound, Confirmed
<1>11. HistoryViewOfSelected' /\ V!ShowsWhatIsAsked' /\ V!NoLostSpinner'
  BY <1>2, <1>3, <1>5, <1>6, <1>7 DEF HistoryViewOfSelected, V!ShowsWhatIsAsked, V!NoLostSpinner, V!Underway, V!Idle
<1>12. V!DeletesWhatWasConfirmed' /\ V!GoneStaysGone' /\ V!VerdictsCleared'
  BY <1>2, <1>6, <1>7 DEF HistoryViewIInv, V!DeletesWhatWasConfirmed, V!GoneStaysGone, V!VerdictsCleared, V!Idle
<1> QED
  BY <1>8, <1>9, <1>10, <1>11, <1>12 DEF HistoryViewIInv

LEMMA HistoryViewSetFilterKeeps ==
  ASSUME HistoryViewAssumption, HistoryViewIInv, NEW s \in V!Filters, V!SetFilter(s)
  PROVE  HistoryViewIInv'
<1>1. [page |-> 1, state |-> s] \in Query
  BY JobsCounted DEF Query
<1> QED
  BY <1>1, ReloadKeeps DEF V!SetFilter, HistoryViewIInv, HistoryViewTyped, V!TypeOK

LEMMA LoadPageKeeps ==
  ASSUME HistoryViewAssumption, HistoryViewIInv, NEW p \in {vQuery.page - 1, vQuery.page + 1}, V!LoadPage(p)
  PROVE  HistoryViewIInv'
<1>1. vQuery \in Query /\ vQuery.page \in 1..(V!Cardinality(VJobs) + 1) /\ V!Cardinality(VJobs) \in Nat
  BY JobsCounted DEF HistoryViewIInv, HistoryViewTyped, V!TypeOK
<1>2. p \in 1..(V!Cardinality(VJobs) + 1)
  <2>1. CASE p = vQuery.page - 1 /\ p >= 1
    BY <1>1, <2>1
  <2>2. CASE p = vQuery.page + 1 /\ vHistory.more
    <3>1. vQuery.page < V!Cardinality(VJobs)
      BY <2>2 DEF V!LoadPage, HistoryViewIInv, PageSound, NotTheLast
    <3> QED
      BY <1>1, <2>2, <3>1
  <2> QED
    BY <2>1, <2>2 DEF V!LoadPage
<1>3. [vQuery EXCEPT !.page = p] \in Query
  BY <1>1, <1>2 DEF Query
<1> QED
  BY <1>3, ReloadKeeps DEF V!LoadPage

LEMMA RefreshKeeps ==
  ASSUME HistoryViewAssumption, HistoryViewIInv, V!Refresh
  PROVE  HistoryViewIInv'
<1>1. [vQuery EXCEPT !.page = 1] \in Query
  BY JobsCounted DEF HistoryViewIInv, HistoryViewTyped, Query
<1> QED
  BY <1>1, ReloadKeeps DEF V!Refresh, HistoryViewIInv, HistoryViewTyped, V!TypeOK

LEMMA SelectJobKeeps ==
  ASSUME HistoryViewAssumption, HistoryViewIInv, NEW j \in VJobs, V!SelectJob(j)
  PROVE  HistoryViewIInv'
<1>1. V!Loading \in Views /\ V!Loading.kind = "loading" /\ V!Loading.job = None
  BY DEF V!Loading, Views
<1>2. PICK new : new = V!Request("detail", j, None)
  OBVIOUS
<1>3. new \in Exchanges /\ new.op = "detail" /\ new.job = j /\ new.answer = None
  BY <1>2 DEF V!Request, Exchanges
<1>4. /\ vRequest' = {c \in vRequest : c.op # "detail"} \cup {new}
      /\ vOpen' = j /\ vSelected' = j /\ vDetail' = V!Loading /\ vAction' = V!Idle /\ vConfirming' = None
      /\ vVerdictOf' = [o \in V!Ops |-> None] /\ UNCHANGED <<vStored, vQuery, vHistory, vGone, vBehind, vUnasked>>
  BY <1>2 DEF V!SelectJob, V!GiveUp
<1>5. "list" \notin V!Ops /\ "detail" \notin V!Ops /\ V!Idle \in [V!Ops -> {"idle", "submitting", "ready", "error"}]
  BY DEF V!Ops, V!Idle
<1>6. HistoryViewTyped'
  BY <1>1, <1>3, <1>4, <1>5 DEF HistoryViewIInv, HistoryViewTyped, V!TypeOK
<1>7. ListsSound' /\ DetailsSound'
  BY <1>3, <1>4 DEF HistoryViewIInv, ListsSound, DetailsSound, NotTheLast
<1>8. ChangesSound' /\ PageSound' /\ Confirmed'
  BY <1>3, <1>4, <1>5 DEF HistoryViewIInv, ChangesSound, PageSound, NotTheLast, Confirmed
<1>9. HistoryViewOfSelected' /\ V!ShowsWhatIsAsked' /\ V!NoLostSpinner'
  BY <1>1, <1>3, <1>4, <1>5 DEF HistoryViewIInv, HistoryViewOfSelected, V!ShowsWhatIsAsked, V!NoLostSpinner, V!Underway, V!Idle
<1>10. V!DeletesWhatWasConfirmed' /\ V!GoneStaysGone' /\ V!VerdictsCleared'
  BY <1>4, <1>5 DEF HistoryViewIInv, V!DeletesWhatWasConfirmed, V!GoneStaysGone, V!VerdictsCleared, V!Idle
<1> QED
  BY <1>6, <1>7, <1>8, <1>9, <1>10 DEF HistoryViewIInv

(* The dialog is closed, or asks for a confirmation.                         *)
LEMMA DialogKeeps ==
  ASSUME HistoryViewAssumption, HistoryViewIInv, V!CloseJob \/ V!AskDelete
  PROVE  HistoryViewIInv'
<1>1. /\ UNCHANGED <<vStored, vQuery, vHistory, vSelected, vDetail, vAction, vRequest, vGone, vBehind, vVerdictOf, vUnasked>>
      /\ vOpen' \in VJobs \cup {None} /\ vConfirming' \in {None, vDetail.job}
  BY DEF V!CloseJob, V!AskDelete, HistoryViewIInv, HistoryViewTyped, V!TypeOK
<1>2. HistoryViewTyped' /\ ListsSound' /\ DetailsSound' /\ ChangesSound' /\ PageSound' /\ Confirmed'
  BY <1>1 DEF HistoryViewIInv, HistoryViewTyped, V!TypeOK, ListsSound, DetailsSound, ChangesSound, PageSound, NotTheLast, Confirmed
<1>3. HistoryViewOfSelected' /\ V!ShowsWhatIsAsked' /\ V!NoLostSpinner' /\ V!DeletesWhatWasConfirmed' /\ V!GoneStaysGone' /\ V!VerdictsCleared'
  BY <1>1 DEF HistoryViewIInv, HistoryViewOfSelected, V!ShowsWhatIsAsked, V!NoLostSpinner, V!Underway, V!DeletesWhatWasConfirmed, V!GoneStaysGone, V!VerdictsCleared
<1> QED
  BY <1>2, <1>3 DEF HistoryViewIInv

(* A change is asked for.                                                    *)
LEMMA HistoryViewSubmitKeeps ==
  ASSUME HistoryViewAssumption, HistoryViewIInv, NEW op \in V!Ops, V!Submit(op), ~vUnasked'
  PROVE  HistoryViewIInv'
<1>1. PICK new : new = V!Request(op, vDetail.job, None)
  OBVIOUS
<1>2. vDetail.job \in VJobs
  BY DEF V!Submit, V!Shown, HistoryViewIInv, HistoryViewTyped, Views
<1>3. new \in Exchanges /\ new.op = op /\ new.job \in VJobs /\ new.answer = None
  BY <1>1, <1>2 DEF V!Request, Exchanges
<1>4. /\ vRequest' = vRequest \cup {new} /\ vAction' = [vAction EXCEPT ![op] = "submitting"]
      /\ UNCHANGED <<vStored, vQuery, vHistory, vSelected, vDetail, vOpen, vConfirming, vGone, vBehind, vVerdictOf>>
  BY <1>1 DEF V!Submit
<1>5. "list" \notin V!Ops /\ "detail" \notin V!Ops /\ vAction \in [V!Ops -> {"idle", "submitting", "ready", "error"}]
  BY DEF V!Ops, HistoryViewIInv, HistoryViewTyped, V!TypeOK
<1>6. HistoryViewTyped'
  BY <1>3, <1>4, <1>5 DEF HistoryViewIInv, HistoryViewTyped, V!TypeOK
<1>7. ListsSound' /\ DetailsSound'
  BY <1>3, <1>4, <1>5 DEF HistoryViewIInv, ListsSound, DetailsSound, NotTheLast
<1>8. ChangesSound' /\ PageSound' /\ Confirmed'
  BY <1>3, <1>4 DEF HistoryViewIInv, ChangesSound, PageSound, NotTheLast, Confirmed
<1>9. HistoryViewOfSelected' /\ V!ShowsWhatIsAsked' /\ V!NoLostSpinner'
  BY <1>3, <1>4, <1>5 DEF HistoryViewIInv, HistoryViewOfSelected, V!ShowsWhatIsAsked, V!NoLostSpinner, V!Underway
<1>10. V!DeletesWhatWasConfirmed' /\ V!GoneStaysGone' /\ V!VerdictsCleared'
  BY <1>4, <1>5 DEF HistoryViewIInv, V!DeletesWhatWasConfirmed, V!GoneStaysGone, V!VerdictsCleared
<1> QED
  BY <1>6, <1>7, <1>8, <1>9, <1>10 DEF HistoryViewIInv

LEMMA ChangesKeep ==
  ASSUME HistoryViewAssumption, HistoryViewIInv, V!EditJob \/ V!CancelJob \/ V!DeleteJob
  PROVE  HistoryViewIInv'
<1>1. ~vUnasked'
  BY DEF V!EditJob, V!CancelJob, V!DeleteJob, HistoryViewIInv, V!DeletesWhatWasConfirmed, Confirmed
<1> QED
  BY <1>1, HistoryViewSubmitKeeps DEF V!EditJob, V!CancelJob, V!DeleteJob, V!Ops

-----------------------------------------------------------------------------
(* A request is answered.                                                    *)
LEMMA HistoryViewAnswersKeep ==
  ASSUME HistoryViewAssumption, HistoryViewIInv, NEW c \in vRequest, NEW a \in Views \cup Pages,
         c.op = "list" /\ a.kind = "ready" => a \in Pages /\ a.query = vQuery /\ NotTheLast(a),
         c.op # "list" => a \in Views /\ a.kind # "loading",
         c.op = "detail" => a.job \in {None, c.job},
         vRequest' = V!Answers(c, a), vStored' \in [VJobs -> JobStates \cup {None}],
         UNCHANGED <<vQuery, vHistory, vSelected, vDetail, vAction, vOpen, vConfirming, vGone, vBehind, vVerdictOf, vUnasked>>
  PROVE  HistoryViewIInv'
<1>1. PICK d : d = [c EXCEPT !.answer = a]
  OBVIOUS
<1>2. c \in Exchanges
  BY DEF HistoryViewIInv, HistoryViewTyped
<1>3. d \in Exchanges /\ d.op = c.op /\ d.job = c.job /\ d.query = c.query /\ d.answer = a
  BY <1>1, <1>2 DEF Exchanges
<1>4. vRequest' = (vRequest \ {c}) \cup {d}
  BY <1>1 DEF V!Answers
<1>5. "list" \notin V!Ops /\ "detail" \notin V!Ops
  BY DEF V!Ops
<1>6. HistoryViewTyped'
  BY <1>3, <1>4 DEF HistoryViewIInv, HistoryViewTyped, V!TypeOK, JobStates
<1>7. ListsSound'
  BY <1>3, <1>4 DEF HistoryViewIInv, ListsSound, NotTheLast
<1>8. DetailsSound'
  BY <1>3, <1>4 DEF HistoryViewIInv, DetailsSound
<1>9. ChangesSound'
  BY <1>3, <1>4, <1>5 DEF HistoryViewIInv, ChangesSound
<1>10. PageSound' /\ Confirmed' /\ HistoryViewOfSelected' /\ V!ShowsWhatIsAsked'
  BY DEF HistoryViewIInv, PageSound, NotTheLast, Confirmed, HistoryViewOfSelected, V!ShowsWhatIsAsked
<1>11. \A op : V!Underway(op) # {} => V!Underway(op)' # {}
  BY <1>3, <1>4 DEF V!Underway
<1>12. V!NoLostSpinner'
  BY <1>11 DEF HistoryViewIInv, V!NoLostSpinner
<1>13. V!DeletesWhatWasConfirmed' /\ V!GoneStaysGone' /\ V!VerdictsCleared'
  BY DEF HistoryViewIInv, V!DeletesWhatWasConfirmed, V!GoneStaysGone, V!VerdictsCleared
<1> QED
  BY <1>6, <1>7, <1>8, <1>9, <1>10, <1>12, <1>13 DEF HistoryViewIInv

LEMMA FailedIs == V!Failed \in Views /\ V!Failed.kind = "error" /\ V!Failed.job = None
BY DEF V!Failed, Views

LEMMA LoseKeeps ==
  ASSUME HistoryViewAssumption, HistoryViewIInv, NEW c \in vRequest, V!Lose(c)
  PROVE  HistoryViewIInv'
BY FailedIs, HistoryViewAnswersKeep DEF V!Lose, V!shown, HistoryViewIInv, HistoryViewTyped, V!TypeOK, JobStates

LEMMA HistoryViewServeKeeps ==
  ASSUME HistoryViewAssumption, HistoryViewIInv, NEW c \in vRequest, V!Serve(c)
  PROVE  HistoryViewIInv'
<1>1. /\ c \in Exchanges /\ vStored \in [VJobs -> JobStates \cup {None}] /\ vQuery \in Query
      /\ UNCHANGED <<vQuery, vHistory, vSelected, vDetail, vAction, vOpen, vConfirming, vGone, vBehind, vVerdictOf, vUnasked>>
  BY DEF V!Serve, V!shown, HistoryViewIInv, HistoryViewTyped, V!TypeOK, JobStates
<1>2. CASE c.op = "list"
  <2>1. c.query = vQuery /\ c.op \notin V!Ops /\ c.op # "detail"
    BY <1>2 DEF HistoryViewIInv, ListsSound, V!Ops
  <2>2. vRequest' = V!Answers(c, V!PageOf(vQuery)) /\ vStored' = vStored
    BY <1>2, <2>1 DEF V!Serve
  <2>3. /\ V!PageOf(vQuery) \in Pages /\ V!PageOf(vQuery).query = vQuery /\ NotTheLast(V!PageOf(vQuery))
    BY <1>1, PageServed DEF NotTheLast
  <2> QED
    BY <1>1, <1>2, <2>1, <2>2, <2>3, HistoryViewAnswersKeep
<1>3. CASE c.op = "detail"
  <2>1. c.job \in VJobs /\ c.op \notin V!Ops /\ c.op # "list"
    BY <1>3 DEF HistoryViewIInv, DetailsSound, V!Ops
  <2>2. PICK a : a = IF vStored[c.job] = None THEN V!Failed ELSE V!Ready(c.job, vStored[c.job])
    OBVIOUS
  <2>3. vRequest' = V!Answers(c, a) /\ vStored' = vStored
    BY <1>3, <2>1, <2>2 DEF V!Serve
  <2>4. a \in Views /\ a.kind # "loading" /\ a.job \in {None, c.job}
    BY <1>1, <2>1, <2>2, FailedIs DEF V!Ready, Views
  <2> QED
    BY <1>1, <1>3, <2>1, <2>3, <2>4, HistoryViewAnswersKeep
<1>4. CASE c.op \in V!Ops
  <2>1. c.job \in VJobs /\ c.op # "list" /\ c.op # "detail"
    BY <1>4 DEF HistoryViewIInv, ChangesSound, V!Ops
  <2>2. PICK a : a = IF V!Allowed(c.op, c.job) THEN V!Ready(c.job, V!Became(c.op)) ELSE V!Failed
    OBVIOUS
  <2>3. vRequest' = V!Answers(c, a)
    BY <2>1, <2>2 DEF V!Serve
  <2>4. V!Became(c.op) \in JobStates \cup {None}
    BY <1>4 DEF V!Became, V!Ops, JobStates
  <2>5. a \in Views /\ a.kind # "loading"
    BY <2>1, <2>2, <2>4, FailedIs DEF V!Ready, Views
  <2>6. vStored' \in [VJobs -> JobStates \cup {None}]
    BY <1>1, <2>4 DEF V!Serve
  <2> QED
    BY <1>1, <2>1, <2>3, <2>5, <2>6, HistoryViewAnswersKeep
<1> QED
  BY <1>1, <1>2, <1>3, <1>4 DEF Exchanges

-----------------------------------------------------------------------------
(* A page is shown, and its first job is asked for.                          *)
LEMMA ShowPageKeeps ==
  ASSUME HistoryViewAssumption, HistoryViewIInv, NEW c \in vRequest, V!ShowPage(c)
  PROVE  HistoryViewIInv'
<1>1. /\ c.op = "list" /\ c.answer # None /\ c.query = vQuery /\ vHistory.kind = "loading" /\ vHistory.items = {}
      /\ \A d \in vRequest \ {c} : d.op # "list"
      /\ UNCHANGED <<vStored, vQuery, vAction, vOpen, vGone, vVerdictOf, vUnasked>>
      /\ vConfirming' = IF vDetail' = vDetail THEN vConfirming ELSE None
  BY DEF V!ShowPage, HistoryViewIInv, ListsSound, PageSound
<1>2. "list" \notin V!Ops /\ "detail" \notin V!Ops
  BY DEF V!Ops
<1>3. CASE c.answer.kind # "ready"
  <2>1. /\ vHistory' = [V!NoPage EXCEPT !.kind = "error"] /\ vRequest' = vRequest \ {c}
        /\ UNCHANGED <<vSelected, vDetail, vBehind, vConfirming>>
    BY <1>1, <1>3 DEF V!ShowPage
  <2>2. vHistory' \in Pages /\ vHistory'.kind = "error" /\ vHistory'.items = {}
    BY <2>1 DEF V!NoPage, Pages
  <2>3. HistoryViewTyped' /\ ListsSound' /\ DetailsSound' /\ ChangesSound' /\ PageSound' /\ Confirmed'
    BY <1>1, <2>1, <2>2 DEF HistoryViewIInv, HistoryViewTyped, V!TypeOK, ListsSound, DetailsSound, ChangesSound, PageSound, Confirmed
  <2>4. HistoryViewOfSelected' /\ V!ShowsWhatIsAsked' /\ V!NoLostSpinner'
    BY <1>1, <1>2, <2>1, <2>2 DEF HistoryViewIInv, HistoryViewOfSelected, V!ShowsWhatIsAsked, V!NoLostSpinner, V!Underway
  <2>5. V!DeletesWhatWasConfirmed' /\ V!GoneStaysGone' /\ V!VerdictsCleared'
    BY <1>1, <2>1, <2>2 DEF HistoryViewIInv, V!DeletesWhatWasConfirmed, V!GoneStaysGone, V!VerdictsCleared
  <2> QED
    BY <2>3, <2>4, <2>5 DEF HistoryViewIInv
<1>4. CASE c.answer.kind = "ready"
  <2>1. /\ vHistory' = c.answer /\ vBehind' = {i.job : i \in c.answer.items} \cap vGone
        /\ vHistory' \in Pages /\ vHistory'.kind = "ready" /\ vHistory'.query = vQuery /\ NotTheLast(vHistory')
        /\ \A i \in vHistory'.items : i.job \in VJobs
    BY <1>1, <1>4 DEF V!ShowPage, HistoryViewIInv, ListsSound, Pages
  <2>2. PageSound' /\ V!GoneStaysGone' /\ (vHistory.kind = "ready" => vHistory.query = vQuery)'
    BY <1>1, <2>1 DEF PageSound, NotTheLast, V!GoneStaysGone
  <2>3. V!DeletesWhatWasConfirmed' /\ V!VerdictsCleared'
    BY <1>1 DEF HistoryViewIInv, V!DeletesWhatWasConfirmed, V!VerdictsCleared
  <2>4. Confirmed'
    BY <1>1 DEF HistoryViewIInv, Confirmed
  <2>5. CASE c.answer.items = {}
    <3>1. vDetail' = V!Ready(None, None) /\ vRequest' = vRequest \ {c} /\ UNCHANGED vSelected
      BY <1>4, <2>5 DEF V!ShowPage
    <3>2. vDetail' \in Views /\ vDetail'.kind = "ready" /\ vDetail'.job = None
      BY <3>1 DEF V!Ready, Views
    <3>3. HistoryViewTyped' /\ ListsSound' /\ DetailsSound' /\ ChangesSound'
      BY <1>1, <2>1, <3>1, <3>2 DEF HistoryViewIInv, HistoryViewTyped, V!TypeOK, Pages, ListsSound, DetailsSound, ChangesSound
    <3>4. HistoryViewOfSelected' /\ V!ShowsWhatIsAsked' /\ V!NoLostSpinner'
      BY <1>1, <1>2, <2>1, <3>1, <3>2 DEF HistoryViewIInv, HistoryViewOfSelected, V!ShowsWhatIsAsked, V!NoLostSpinner, V!Underway
    <3> QED
      BY <2>2, <2>3, <2>4, <3>3, <3>4 DEF HistoryViewIInv
  <2>6. CASE c.answer.items # {}
    <3>1. PICK j \in VJobs : /\ vSelected' = j /\ vDetail' = V!Loading
                             /\ vRequest' = (V!GiveUp({"detail"}) \ {c}) \cup {V!Request("detail", j, None)}
      BY <1>4, <2>1, <2>6 DEF V!ShowPage
    <3>2. PICK new : new = V!Request("detail", j, None)
      OBVIOUS
    <3>3. new \in Exchanges /\ new.op = "detail" /\ new.job = j /\ new.answer = None
      BY <3>2 DEF V!Request, Exchanges
    <3>4. vRequest' = {d \in vRequest : d.op # "detail" /\ d # c} \cup {new}
      BY <3>1, <3>2 DEF V!GiveUp
    <3>5. vDetail' \in Views /\ vDetail'.kind = "loading" /\ vDetail'.job = None
      BY <3>1 DEF V!Loading, Views
    <3>6. HistoryViewTyped' /\ ListsSound' /\ DetailsSound' /\ ChangesSound'
      BY <1>1, <1>2, <2>1, <3>1, <3>3, <3>4, <3>5
         DEF HistoryViewIInv, HistoryViewTyped, V!TypeOK, Pages, ListsSound, DetailsSound, ChangesSound
    <3>7. HistoryViewOfSelected' /\ V!ShowsWhatIsAsked' /\ V!NoLostSpinner'
      BY <1>1, <1>2, <2>1, <3>3, <3>4, <3>5 DEF HistoryViewIInv, HistoryViewOfSelected, V!ShowsWhatIsAsked, V!NoLostSpinner, V!Underway
    <3> QED
      BY <2>2, <2>3, <2>4, <3>6, <3>7 DEF HistoryViewIInv
  <2> QED
    BY <2>5, <2>6
<1> QED
  BY <1>3, <1>4

LEMMA ShowDetailKeeps ==
  ASSUME HistoryViewAssumption, HistoryViewIInv, NEW c \in vRequest, V!ShowDetail(c)
  PROVE  HistoryViewIInv'
<1>1. /\ c.op = "detail" /\ c.answer \in Views /\ c.answer.kind # "loading" /\ c.answer.job \in {None, vSelected}
      /\ vDetail' = c.answer /\ vConfirming' = None /\ vRequest' = vRequest \ {c}
      /\ UNCHANGED <<vStored, vQuery, vHistory, vSelected, vAction, vOpen, vGone, vBehind, vVerdictOf, vUnasked>>
  BY DEF V!ShowDetail, HistoryViewIInv, DetailsSound
<1>2. "list" \notin V!Ops /\ "detail" \notin V!Ops
  BY DEF V!Ops
<1>3. HistoryViewTyped' /\ ListsSound' /\ DetailsSound' /\ ChangesSound' /\ PageSound' /\ Confirmed'
  BY <1>1 DEF HistoryViewIInv, HistoryViewTyped, V!TypeOK, Views, ListsSound, DetailsSound, ChangesSound, PageSound, NotTheLast, Confirmed
<1>4. HistoryViewOfSelected' /\ V!ShowsWhatIsAsked' /\ V!NoLostSpinner'
  BY <1>1, <1>2 DEF HistoryViewIInv, HistoryViewOfSelected, V!ShowsWhatIsAsked, V!NoLostSpinner, V!Underway
<1>5. V!DeletesWhatWasConfirmed' /\ V!GoneStaysGone' /\ V!VerdictsCleared'
  BY <1>1 DEF HistoryViewIInv, V!DeletesWhatWasConfirmed, V!GoneStaysGone, V!VerdictsCleared
<1> QED
  BY <1>3, <1>4, <1>5 DEF HistoryViewIInv

(* A change is answered: the page and the detail follow, whatever is chosen. *)
LEMMA ShowVerdictKeeps ==
  ASSUME HistoryViewAssumption, HistoryViewIInv, NEW c \in vRequest, V!ShowVerdict(c)
  PROVE  HistoryViewIInv'
<1>1. /\ c.op \in V!Ops /\ c.job \in VJobs /\ c.answer \in Views /\ c.answer.kind \in {"ready", "error"}
      /\ c.answer.state \in JobStates \cup {None}
      /\ vAction' = [vAction EXCEPT ![c.op] = c.answer.kind] /\ vVerdictOf' = [vVerdictOf EXCEPT ![c.op] = c.job]
      /\ vRequest' = vRequest \ {c} /\ UNCHANGED <<vStored, vQuery, vSelected, vOpen, vUnasked>>
      /\ vConfirming' = IF c.answer.kind = "ready" /\ vDetail.job = c.job THEN None ELSE vConfirming
  BY DEF V!ShowVerdict, HistoryViewIInv, ChangesSound, Views
<1>2. /\ "list" \notin V!Ops /\ "detail" \notin V!Ops /\ vAction \in [V!Ops -> {"idle", "submitting", "ready", "error"}]
      /\ vVerdictOf \in [V!Ops -> VJobs \cup {None}] /\ vDetail \in Views /\ vHistory \in Pages
  BY DEF V!Ops, HistoryViewIInv, HistoryViewTyped, V!TypeOK
<1>3. /\ vDetail' \in Views /\ (vDetail'.kind = vDetail.kind \/ vDetail'.kind = "ready")
      /\ vDetail'.job \in {None, vDetail.job} /\ (vDetail' = vDetail \/ (c.answer.kind = "ready" /\ vDetail.job = c.job))
  BY <1>1, <1>2 DEF V!ShowVerdict, V!Ready, Views
<1>4. /\ vHistory' \in Pages /\ vHistory'.kind = vHistory.kind /\ vHistory'.query = vHistory.query
      /\ vHistory'.more = vHistory.more
      /\ vHistory.items = {} => vHistory'.items = {}
  BY <1>1, <1>2 DEF V!ShowVerdict, V!Remaining, V!Reconciled, Pages
<1>5. V!GoneStaysGone'
  BY <1>1, <1>2 DEF V!ShowVerdict, V!Remaining, V!Reconciled, Pages, HistoryViewIInv, V!GoneStaysGone
<1>6. HistoryViewTyped'
  BY <1>1, <1>2, <1>3, <1>4 DEF HistoryViewIInv, HistoryViewTyped, V!TypeOK, Views, Pages
<1>7. ListsSound' /\ DetailsSound' /\ ChangesSound' /\ PageSound'
  BY <1>1, <1>4 DEF HistoryViewIInv, ListsSound, DetailsSound, ChangesSound, PageSound, NotTheLast
<1>8. Confirmed'
  BY <1>1, <1>3 DEF HistoryViewIInv, Confirmed
<1>9. HistoryViewOfSelected' /\ V!ShowsWhatIsAsked'
  BY <1>1, <1>3, <1>4 DEF HistoryViewIInv, HistoryViewOfSelected, V!ShowsWhatIsAsked
<1>10. V!NoLostSpinner'
  BY <1>1, <1>2, <1>3, <1>4 DEF HistoryViewIInv, V!NoLostSpinner, V!Underway
<1>11. V!DeletesWhatWasConfirmed' /\ V!VerdictsCleared'
  BY <1>1, <1>2 DEF HistoryViewAssumption, HistoryViewIInv, V!DeletesWhatWasConfirmed, V!VerdictsCleared
<1> QED
  BY <1>5, <1>6, <1>7, <1>8, <1>9, <1>10, <1>11 DEF HistoryViewIInv

LEMMA NextHistoryView ==
  ASSUME HistoryViewAssumption, HistoryViewIInv, [V!Next]_V!vars
  PROVE  HistoryViewIInv'
<1>1. CASE UNCHANGED V!vars
  BY <1>1 DEF V!vars, V!shown, HistoryViewIInv, HistoryViewTyped, V!TypeOK, ListsSound, DetailsSound, ChangesSound, PageSound, NotTheLast,
     Confirmed, HistoryViewOfSelected, V!ShowsWhatIsAsked, V!NoLostSpinner, V!Underway, V!DeletesWhatWasConfirmed, V!GoneStaysGone, V!VerdictsCleared
<1>2. ASSUME NEW c \in vRequest, V!Serve(c) \/ V!Lose(c) \/ V!ShowPage(c) \/ V!ShowDetail(c) \/ V!ShowVerdict(c)
      PROVE  HistoryViewIInv'
  BY <1>2, HistoryViewServeKeeps, LoseKeeps, ShowPageKeeps, ShowDetailKeeps, ShowVerdictKeeps
<1>3. CASE \E j \in VJobs : V!SelectJob(j)
  BY <1>3, SelectJobKeeps
<1>4. CASE (\E s \in V!Filters : V!SetFilter(s)) \/ (\E p \in {vQuery.page - 1, vQuery.page + 1} : V!LoadPage(p)) \/ V!Refresh
  BY <1>4, HistoryViewSetFilterKeeps, LoadPageKeeps, RefreshKeeps
<1>5. CASE V!CloseJob \/ V!AskDelete \/ V!EditJob \/ V!CancelJob \/ V!DeleteJob
  BY <1>5, DialogKeeps, ChangesKeep
<1> QED
  BY <1>1, <1>2, <1>3, <1>4, <1>5 DEF V!Next

LEMMA HistoryViewSuffices ==
  ASSUME HistoryViewIInv
  PROVE  V!HistoryViewInv
BY DEF HistoryViewIInv, HistoryViewTyped, V!HistoryViewInv

(* Whatever the user opens, filters and changes while answers come in any    *)
(* order or get lost: the page and the detail are those asked for, nothing   *)
(* waits in vain, a job is deleted only after its own confirmation, a job    *)
(* deleted stays off the page, and an outcome is cleared with its job        *)
(* (schedule-history-controller.ts, schedule-detail-modal.tsx).              *)
THEOREM HistoryViewHolds ==
  ASSUME HistoryViewAssumption
  PROVE  V!Spec => []V!HistoryViewInv
<1>1. V!Init => HistoryViewIInv
  BY InitHistoryView
<1>2. HistoryViewIInv /\ [V!Next]_V!vars => HistoryViewIInv'
  BY NextHistoryView
<1>3. HistoryViewIInv => V!HistoryViewInv
  BY HistoryViewSuffices
<1> QED
  BY <1>1, <1>2, <1>3, PTL DEF V!Spec

-----------------------------------------------------------------------------
(* ChatDirectory *)

(* The cardinality is the library's. *)
LEMMA KCardinality == \A set : K!Cardinality(set) = Cardinality(set)
BY DEF K!Cardinality, Cardinality

ChatDirectoryAssumption ==
  /\ KRefs = 1..K!Cardinality(KRefs) /\ IsFiniteSet(KRefs)
  /\ KAttempts \in Nat \ {0} /\ None \notin Nat
  /\ KFirstSession \in KSessions \ {None}

Calls == [op : {"chats", "load", "retry", "warm"}, session : KSessions \cup {None},
          ref : KRefs \cup {None}, n : 0..KAttempts]

ChatDirectoryTyped ==
  /\ K!TypeOK /\ kCalls \subseteq Calls /\ kChats.refs \in Seq(KRefs)
  /\ kWarm \in [step : {"off", "waiting", "on"}, queue : Seq(KRefs)]
  /\ kTries \in 0..KAttempts /\ kWarmed \in [KRefs -> Nat]

(* The list under way is of the chosen session, and nothing was warmed yet.  *)
ListSound ==
  \A c \in kCalls : c.op = "chats" =>
    /\ c = K!Call("chats", kSession, None, 0) /\ kSession # None
    /\ kChats.kind = "loading" /\ kWarm = K!NoWarming /\ kWarmed = K!None0

(* One call or one timer of the ladder, of the open chat and its attempt.    *)
LadderSound ==
  /\ \A c \in kCalls : c.op = "load" =>
       kOpen # None /\ kTimer = None /\ kTries > 0 /\ c = K!Call("load", kSession, kOpen, kTries - 1)
  /\ kTimer # None => kOpen # None /\ kTimer = kTries /\ kTries \in 1..(KAttempts - 1)
EmptyTried == kOpen # None /\ kMessages.kind = "empty" /\ ~kAgain => kTries = KAttempts

(* One chat is warmed at a time; those that wait are others, not warmed yet. *)
WarmingSound ==
  /\ \A c \in kCalls : c.op = "warm" => kWarm.step = "on" /\ c.session = kSession
  /\ \A c, d \in kCalls : c.op = "warm" /\ d.op = "warm" => c = d
  /\ kWarm.step # "off" => kChats.kind = "ready"
QueueSound ==
  /\ \A j, k \in 1..Len(kWarm.queue) : kWarm.queue[j] = kWarm.queue[k] => j = k
  /\ \A k \in 1..Len(kWarm.queue) : kWarmed[kWarm.queue[k]] = 0
  /\ \A r \in KRefs : kWarmed[r] <= 1

ChatDirectoryIInv ==
  /\ ChatDirectoryTyped /\ ListSound /\ LadderSound /\ EmptyTried /\ WarmingSound /\ QueueSound
  /\ K!ShownIsChosen /\ K!NoLostSpinner

LEMMA ChatDirectoryCallIs ==
  ASSUME NEW op, NEW s, NEW r, NEW n
  PROVE  /\ K!Call(op, s, r, n).op = op /\ K!Call(op, s, r, n).session = s
         /\ K!Call(op, s, r, n).ref = r /\ K!Call(op, s, r, n).n = n
BY DEF K!Call

LEMMA CallTyped ==
  ASSUME NEW op \in {"chats", "load", "retry", "warm"}, NEW s \in KSessions \cup {None},
         NEW r \in KRefs \cup {None}, NEW n \in 0..KAttempts
  PROVE  K!Call(op, s, r, n) \in Calls
BY DEF K!Call, Calls

LEMMA RefsCounted ==
  ASSUME ChatDirectoryAssumption
  PROVE  None \notin KRefs /\ \E n \in Nat : n = K!Cardinality(KRefs) /\ KRefs = 1..n
<1>1. PICK n \in Nat : n = K!Cardinality(KRefs)
  BY FS_CardinalityType, KCardinality DEF ChatDirectoryAssumption
<1>2. KRefs = 1..n
  BY <1>1 DEF ChatDirectoryAssumption
<1> QED
  BY <1>1, <1>2 DEF ChatDirectoryAssumption

LEMMA SeqElements ==
  ASSUME NEW S, NEW q \in Seq(S)
  PROVE  Len(q) \in Nat /\ \A k \in 1..Len(q) : q[k] \in S
OBVIOUS

LEMMA ListInOrder ==
  ASSUME NEW n \in Nat
  PROVE  \E list \in Seq(1..n) : /\ list = [k \in 1..n |-> k]
                                 /\ \A j, k \in 1..Len(list) : list[j] = list[k] => j = k
<1>1. PICK list : list = [k \in 1..n |-> k]
  OBVIOUS
<1>2. list \in [1..n -> 1..n] /\ DOMAIN list = 1..n
  BY <1>1
<1>3. list \in Seq(1..n) /\ Len(list) = n
  BY <1>2
<1>4. \A j, k \in 1..n : list[j] = list[k] => j = k
  BY <1>1
<1> QED
  BY <1>1, <1>3, <1>4

LEMMA FirstCallTyped ==
  ASSUME ChatDirectoryAssumption, NEW op \in {"chats", "load", "retry", "warm"},
         NEW s \in KSessions \cup {None}, NEW r \in KRefs \cup {None}
  PROVE  K!Call(op, s, r, 0) \in Calls
<1>1. 0 \in 0..KAttempts
  BY DEF ChatDirectoryAssumption
<1> QED
  BY <1>1, CallTyped

LEMMA CallsTyped ==
  /\ \A c \in Calls : c.op \in {"chats", "load", "retry", "warm"} /\ c.n \in 0..KAttempts
  /\ ChatDirectoryIInv => kSession \in KSessions \cup {None} /\ kOpen \in KRefs \cup {None}
BY DEF Calls, ChatDirectoryIInv, ChatDirectoryTyped, K!TypeOK

LEMMA InitChatDirectory ==
  ASSUME ChatDirectoryAssumption, K!Init
  PROVE  ChatDirectoryIInv
<1>1. PICK c : c = K!Call("chats", KFirstSession, None, 0)
  OBVIOUS
<1>2. c.op = "chats" /\ c \in Calls /\ kCalls = {c}
  BY <1>1, ChatDirectoryCallIs, CallTyped DEF K!Init, K!ListCall, ChatDirectoryAssumption
<1>3. /\ kChats.kind = "loading" /\ kChats.refs = <<>> /\ kMessages.kind = "loading" /\ kOpen = None /\ kTimer = None
      /\ kWarm = K!NoWarming /\ kWarm.step = "off" /\ kWarm.queue = <<>> /\ kWarmed = K!None0 /\ kWarmed \in [KRefs -> {0}]
  BY DEF K!Init, K!LoadingList, K!Loading, K!NoWarming, K!None0
<1>4. ChatDirectoryTyped
  BY <1>2, <1>3 DEF ChatDirectoryTyped, K!TypeOK, K!Init, ChatDirectoryAssumption, K!NoWarming, Calls
<1>5. ListSound /\ LadderSound /\ EmptyTried /\ WarmingSound /\ QueueSound
  BY <1>1, <1>2, <1>3 DEF ListSound, LadderSound, EmptyTried, WarmingSound, QueueSound, K!Init, ChatDirectoryAssumption
<1>6. K!ShownIsChosen /\ K!NoLostSpinner
  BY <1>2, <1>3 DEF K!ShownIsChosen, K!NoLostSpinner, K!Underway
<1> QED
  BY <1>4, <1>5, <1>6 DEF ChatDirectoryIInv

-----------------------------------------------------------------------------
(* The ladder begins.                                                        *)
LEMMA SelectSessionKeeps ==
  ASSUME ChatDirectoryAssumption, ChatDirectoryIInv, NEW s \in KSessions \cup {None}, K!SelectSession(s)
  PROVE  ChatDirectoryIInv'
<1>1. PICK kept : kept = K!Others({"chats", "load", "warm"}) \cup K!ListCall(s)
  OBVIOUS
<1>2. PICK list : list = K!Call("chats", s, None, 0)
  OBVIOUS
<1>3. /\ list.op = "chats" /\ list \in Calls
      /\ s = None => kept = K!Others({"chats", "load", "warm"})
      /\ s # None => kept = K!Others({"chats", "load", "warm"}) \cup {list}
  BY <1>1, <1>2, ChatDirectoryCallIs, FirstCallTyped DEF K!ListCall
<1>4. \A c \in K!Others({"chats", "load", "warm"}) : c \in kCalls /\ c.op = "retry"
  BY DEF K!Others, ChatDirectoryIInv, ChatDirectoryTyped, K!TypeOK
<1>5. /\ kSession' = s /\ kChats'.kind = (IF s = None THEN "ready" ELSE "loading") /\ kChats'.refs = <<>>
      /\ s = None => kChats'.of = s
      /\ kWarm'.step = (IF s = None THEN "waiting" ELSE "off") /\ kWarm'.queue = <<>>
      /\ s # None => kWarm' = K!NoWarming
      /\ kWarm' \in [step : {"off", "waiting", "on"}, queue : Seq(KRefs)]
      /\ kWarmed' = K!None0 /\ kWarmed' \in [KRefs -> {0}]
  BY DEF K!SelectSession, K!EmptyList, K!LoadingList, K!NoWarming, K!None0
<1>6. QueueSound'
  BY <1>5 DEF QueueSound
<1>7. CASE kOpen = None
  <2>1. kCalls' = kept /\ UNCHANGED <<kOpen, kMessages, kTimer, kTries, kAgain, kStray>>
    BY <1>1, <1>7 DEF K!SelectSession
  <2>2. ChatDirectoryTyped'
    BY <1>3, <1>4, <1>5, <2>1, CallsTyped DEF ChatDirectoryIInv, ChatDirectoryTyped, K!TypeOK
  <2>3. ListSound'
    BY <1>2, <1>3, <1>4, <1>5, <2>1 DEF ListSound
  <2>4. LadderSound' /\ EmptyTried'
    BY <1>3, <1>4, <1>7, <2>1 DEF ChatDirectoryIInv, LadderSound, EmptyTried
  <2>5. WarmingSound'
    BY <1>3, <1>4, <1>5, <2>1 DEF WarmingSound
  <2>6. K!ShownIsChosen' /\ K!NoLostSpinner'
    BY <1>3, <1>5, <1>7, <2>1 DEF K!ShownIsChosen, K!NoLostSpinner, K!Underway
  <2> QED
    BY <1>6, <2>2, <2>3, <2>4, <2>5, <2>6 DEF ChatDirectoryIInv
<1>8. CASE kOpen # None
  <2>1. PICK load : load = K!Call("load", s, kOpen, 0)
    OBVIOUS
  <2>2. load.op = "load" /\ load \in Calls
    BY <1>8, <2>1, ChatDirectoryCallIs, FirstCallTyped, CallsTyped
  <2>3. /\ kOpen' = kOpen /\ kMessages'.kind = "loading" /\ kTimer' = None /\ kCalls' = kept \cup {load}
        /\ kTries' = 1 /\ kAgain' = FALSE /\ kStray' = FALSE
    BY <1>1, <1>8, <2>1 DEF K!SelectSession, K!Opened, K!Loading
  <2>4. ChatDirectoryTyped'
    BY <1>3, <1>4, <1>5, <2>2, <2>3, CallsTyped DEF ChatDirectoryIInv, ChatDirectoryTyped, K!TypeOK, ChatDirectoryAssumption
  <2>5. ListSound'
    BY <1>2, <1>3, <1>4, <1>5, <2>2, <2>3 DEF ListSound
  <2>6. LadderSound' /\ EmptyTried'
    BY <1>3, <1>4, <1>8, <2>1, <2>2, <2>3, <1>5 DEF LadderSound, EmptyTried
  <2>7. WarmingSound'
    BY <1>3, <1>4, <1>5, <2>2, <2>3 DEF WarmingSound
  <2>8. K!ShownIsChosen' /\ K!NoLostSpinner'
    BY <1>3, <1>5, <2>2, <2>3 DEF K!ShownIsChosen, K!NoLostSpinner, K!Underway
  <2> QED
    BY <1>6, <2>4, <2>5, <2>6, <2>7, <2>8 DEF ChatDirectoryIInv
<1> QED
  BY <1>7, <1>8

LEMMA OpenChatKeeps ==
  ASSUME ChatDirectoryAssumption, ChatDirectoryIInv, NEW r \in KRefs, K!OpenChat(r)
  PROVE  ChatDirectoryIInv'
<1>1. PICK load : load = K!Call("load", kSession, r, 0)
  OBVIOUS
<1>2. load.op = "load" /\ load \in Calls /\ r # None
  BY <1>1, ChatDirectoryCallIs, FirstCallTyped, CallsTyped, RefsCounted
<1>3. /\ kOpen' = r /\ kMessages'.kind = "loading" /\ kTimer' = None /\ kCalls' = {c \in kCalls : c.op # "load"} \cup {load}
      /\ kTries' = 1 /\ kAgain' = FALSE /\ kStray' = FALSE /\ UNCHANGED <<kSession, kChats, kWarm, kWarmed>>
  BY <1>1 DEF K!OpenChat, K!Opened, K!Others, K!Loading
<1>4. ChatDirectoryTyped'
  BY <1>2, <1>3, CallsTyped DEF ChatDirectoryIInv, ChatDirectoryTyped, K!TypeOK, ChatDirectoryAssumption
<1>5. ListSound' /\ QueueSound'
  BY <1>2, <1>3 DEF ChatDirectoryIInv, ListSound, QueueSound
<1>6. LadderSound' /\ EmptyTried'
  BY <1>1, <1>2, <1>3 DEF LadderSound, EmptyTried
<1>7. WarmingSound'
  BY <1>2, <1>3 DEF ChatDirectoryIInv, WarmingSound
<1>8. K!ShownIsChosen' /\ K!NoLostSpinner'
  BY <1>2, <1>3 DEF ChatDirectoryIInv, K!ShownIsChosen, K!NoLostSpinner, K!Underway
<1> QED
  BY <1>4, <1>5, <1>6, <1>7, <1>8 DEF ChatDirectoryIInv

LEMMA CloseKeeps ==
  ASSUME ChatDirectoryAssumption, ChatDirectoryIInv, K!Close
  PROVE  ChatDirectoryIInv'
<1>1. /\ kOpen' = None /\ kTimer' = None /\ kCalls' = {c \in kCalls : c.op # "load"}
      /\ UNCHANGED <<kSession, kChats, kMessages, kWarm, kTries, kAgain, kStray, kWarmed>>
  BY DEF K!Close, K!Others
<1>2. ChatDirectoryTyped' /\ ListSound' /\ LadderSound' /\ EmptyTried'
  BY <1>1 DEF ChatDirectoryIInv, ChatDirectoryTyped, K!TypeOK, ListSound, LadderSound, EmptyTried
<1>3. WarmingSound' /\ QueueSound' /\ K!ShownIsChosen' /\ K!NoLostSpinner'
  BY <1>1 DEF ChatDirectoryIInv, WarmingSound, QueueSound, K!ShownIsChosen, K!NoLostSpinner, K!Underway
<1> QED
  BY <1>2, <1>3 DEF ChatDirectoryIInv

-----------------------------------------------------------------------------
(* The list comes, and its chats are warmed in turn.                         *)
LEMMA AnswerChatsKeeps ==
  ASSUME ChatDirectoryAssumption, ChatDirectoryIInv, NEW c \in kCalls, NEW kind \in {"ready", "error"}, NEW list \in Seq(KRefs),
         \A j, k \in 1..Len(list) : list[j] = list[k] => j = k, K!AnswerChats(c, kind, list)
  PROVE  ChatDirectoryIInv'
<1>1. /\ c.op = "chats" /\ c.session = kSession /\ kWarm = K!NoWarming /\ kWarmed = K!None0
      /\ \A d \in kCalls : d.op = "chats" => d = c
  BY ChatDirectoryCallIs DEF K!AnswerChats, ChatDirectoryIInv, ListSound
<1>2. kWarm.step = "off" /\ kWarm.queue = <<>> /\ kWarmed \in [KRefs -> {0}]
  BY <1>1 DEF K!NoWarming, K!None0
<1>5. /\ kCalls' = kCalls \ {c} /\ kChats'.kind = kind /\ kChats'.of = kSession /\ kChats'.refs = list
      /\ UNCHANGED <<kSession, kOpen, kMessages, kTimer, kTries, kAgain, kStray, kWarmed>>
      /\ kind = "ready" => kWarm' = [step |-> "waiting", queue |-> list]
      /\ kind # "ready" => kWarm' = kWarm
  BY <1>1 DEF K!AnswerChats
<1>11. /\ kWarm' \in [step : {"off", "waiting", "on"}, queue : Seq(KRefs)]
       /\ kWarm'.queue = list \/ kWarm'.queue = <<>>
       /\ kWarm'.step \in {"off", "waiting"} /\ (kind # "ready" => kWarm'.step = "off")
  <2>1. CASE kind = "ready"
    BY <1>5, <2>1
  <2>2. CASE kind # "ready"
    BY <1>2, <1>5, <2>2 DEF ChatDirectoryIInv, ChatDirectoryTyped
  <2> QED
    BY <2>1, <2>2
<1>6. ChatDirectoryTyped'
  BY <1>5, <1>11, CallsTyped DEF ChatDirectoryIInv, ChatDirectoryTyped, K!TypeOK
<1>7. ListSound' /\ LadderSound' /\ EmptyTried'
  BY <1>1, <1>5 DEF ChatDirectoryIInv, ListSound, LadderSound, EmptyTried
<1>8. WarmingSound'
  BY <1>1, <1>2, <1>5, <1>11 DEF ChatDirectoryIInv, WarmingSound
<1>9. QueueSound'
  <2>1. \A r \in KRefs : kWarmed'[r] = 0
    BY <1>2, <1>5
  <2>2. \A k \in 1..Len(list) : list[k] \in KRefs
    BY SeqElements
  <2>3. CASE kWarm'.queue = list
    <3>1. PICK q : q = kWarm'.queue
      OBVIOUS
    <3>2. /\ \A j, k \in 1..Len(q) : q[j] = q[k] => j = k
          /\ \A k \in 1..Len(q) : q[k] \in KRefs
      BY <2>2, <2>3, <3>1
    <3> QED
      BY <2>1, <3>1, <3>2 DEF QueueSound
  <2>4. CASE kWarm'.queue = <<>>
    BY <2>1, <2>4 DEF QueueSound
  <2> QED
    BY <1>11, <2>3, <2>4
<1>10. K!ShownIsChosen' /\ K!NoLostSpinner'
  BY <1>1, <1>5 DEF ChatDirectoryIInv, K!ShownIsChosen, K!NoLostSpinner, K!Underway
<1> QED
  BY <1>6, <1>7, <1>8, <1>9, <1>10 DEF ChatDirectoryIInv

LEMMA WarmNextKeeps ==
  ASSUME ChatDirectoryAssumption, ChatDirectoryIInv, NEW kept, kept \subseteq kCalls,
         \A c \in kCalls : c.op # "warm" => c \in kept, \A c \in kept : c.op # "warm",
         kWarm.step # "off", K!WarmNext(kept),
         UNCHANGED <<kSession, kChats, kOpen, kMessages, kTimer, kTries, kAgain, kStray>>
  PROVE  ChatDirectoryIInv'
<1>1. /\ kChats.kind = "ready" /\ \A c \in kCalls : c.op # "chats"
      /\ kWarm.queue \in Seq(KRefs) /\ kWarmed \in [KRefs -> Nat]
  BY DEF ChatDirectoryIInv, WarmingSound, ListSound, ChatDirectoryTyped
<1>2. CASE kWarm.queue = <<>>
  <2>1. kWarm'.step = "off" /\ kWarm'.queue = <<>> /\ kCalls' = kept /\ UNCHANGED kWarmed /\ kWarm' = K!NoWarming
    BY <1>2 DEF K!WarmNext, K!NoWarming
  <2>2. ChatDirectoryTyped'
    BY <2>1, CallsTyped DEF ChatDirectoryIInv, ChatDirectoryTyped, K!TypeOK, K!NoWarming
  <2>3. ListSound' /\ LadderSound' /\ EmptyTried' /\ WarmingSound' /\ QueueSound'
    BY <1>1, <2>1 DEF ChatDirectoryIInv, ListSound, LadderSound, EmptyTried, WarmingSound, QueueSound
  <2>4. K!ShownIsChosen' /\ K!NoLostSpinner'
    BY <1>1, <2>1 DEF ChatDirectoryIInv, K!ShownIsChosen, K!NoLostSpinner, K!Underway
  <2> QED
    BY <2>2, <2>3, <2>4 DEF ChatDirectoryIInv
<1>3. CASE kWarm.queue # <<>>
  <2>1. PICK q \in Seq(KRefs) : q = kWarm.queue /\ q # <<>>
    BY <1>1, <1>3
  <2>12. Tail(q) \in Seq(KRefs)
    BY <2>1
  <2>2. PICK t \in Seq(KRefs) : t = Tail(q)
    BY <2>12
  <2>3. PICK r \in KRefs : r = q[1] /\ r = Head(q)
    BY <2>1
  <2>4. Len(t) + 1 = Len(q) /\ \A k \in 1..Len(t) : t[k] = q[k + 1] /\ k + 1 \in 1..Len(q) /\ 1 \in 1..Len(q)
    BY <2>1, <2>2
  <2>5. PICK new : new = K!Call("warm", kSession, r, 0)
    OBVIOUS
  <2>6. new.op = "warm" /\ new.session = kSession /\ new \in Calls
    <3>1. kSession \in KSessions \cup {None} /\ r \in KRefs \cup {None}
      BY CallsTyped
    <3> QED
      BY <2>5, <3>1, ChatDirectoryCallIs, FirstCallTyped
  <2>7. /\ kWarm' = [step |-> "on", queue |-> t] /\ kCalls' = kept \cup {new}
        /\ kWarmed' = [kWarmed EXCEPT ![r] = @ + 1]
    BY <1>3, <2>1, <2>2, <2>3, <2>5 DEF K!WarmNext
  <2>8. ChatDirectoryTyped'
    BY <1>1, <2>6, <2>7, CallsTyped DEF ChatDirectoryIInv, ChatDirectoryTyped, K!TypeOK
  <2>9. ListSound' /\ LadderSound' /\ EmptyTried' /\ WarmingSound'
    BY <1>1, <2>6, <2>7 DEF ChatDirectoryIInv, ListSound, LadderSound, EmptyTried, WarmingSound
  <2>10. QueueSound'
    <3>1. /\ \A j, k \in 1..Len(q) : q[j] = q[k] => j = k
          /\ \A k \in 1..Len(q) : kWarmed[q[k]] = 0
          /\ \A x \in KRefs : kWarmed[x] <= 1
      BY <2>1 DEF ChatDirectoryIInv, QueueSound
    <3>2. 1 \in 1..Len(q)
      BY <2>1
    <3>3. kWarmed[r] = 0 /\ \A k \in 1..Len(t) : t[k] # r /\ kWarmed[t[k]] = 0 /\ t[k] \in KRefs
      <4>1. SUFFICES ASSUME NEW k \in 1..Len(t) PROVE t[k] # r /\ kWarmed[t[k]] = 0 /\ t[k] \in KRefs
        BY <2>3, <3>1, <3>2
      <4>2. k \in Nat /\ k > 0 /\ k + 1 # 1 /\ t[k] = q[k + 1] /\ k + 1 \in 1..Len(q)
        BY <2>4
      <4> QED
        BY <2>2, <2>3, <3>1, <3>2, <4>2
    <3>4. \A j, k \in 1..Len(t) : t[j] = t[k] => j = k
      <4>1. \A j, k \in 1..Len(t) : j \in Nat /\ k \in Nat /\ (j + 1 = k + 1 => j = k)
        OBVIOUS
      <4> QED
        BY <2>4, <3>1, <4>1
    <3>5. kWarmed'[r] = 1 /\ \A x \in KRefs : x # r => kWarmed'[x] = kWarmed[x]
      BY <1>1, <2>7, <3>3
    <3>6. \A x \in KRefs : kWarmed'[x] <= 1
      BY <3>1, <3>5
    <3>7. kWarm'.queue = t
      BY <2>7
    <3> QED
      BY <3>3, <3>4, <3>5, <3>6, <3>7 DEF QueueSound
  <2>11. K!ShownIsChosen' /\ K!NoLostSpinner'
    BY <1>1, <2>6, <2>7 DEF ChatDirectoryIInv, K!ShownIsChosen, K!NoLostSpinner, K!Underway
  <2> QED
    BY <2>8, <2>9, <2>10, <2>11 DEF ChatDirectoryIInv
<1> QED
  BY <1>2, <1>3

LEMMA WarmingKeeps ==
  ASSUME ChatDirectoryAssumption, ChatDirectoryIInv, K!WarmTimer \/ \E c \in kCalls : K!AnswerWarm(c)
  PROVE  ChatDirectoryIInv'
<1>1. CASE K!WarmTimer
  BY <1>1, WarmNextKeeps DEF K!WarmTimer, ChatDirectoryIInv, WarmingSound
<1>2. ASSUME NEW c \in kCalls, K!AnswerWarm(c)
      PROVE  ChatDirectoryIInv'
  BY <1>2, WarmNextKeeps DEF K!AnswerWarm, ChatDirectoryIInv, WarmingSound
<1> QED
  BY <1>1, <1>2

-----------------------------------------------------------------------------
(* An attempt is answered, and the next one made.                            *)
LEMMA AnswerLoadKeeps ==
  ASSUME ChatDirectoryAssumption, ChatDirectoryIInv, NEW c \in kCalls, NEW answer \in {"empty", "full", "error"}, K!AnswerLoad(c, answer)
  PROVE  ChatDirectoryIInv'
<1>1. /\ c.op = "load" /\ kOpen # None /\ kTimer = None /\ kTries \in 1..KAttempts
      /\ c.session = kSession /\ c.ref = kOpen /\ c.n = kTries - 1
      /\ \A d \in kCalls : d.op = "load" => d = c
  BY ChatDirectoryCallIs DEF K!AnswerLoad, ChatDirectoryIInv, LadderSound, ChatDirectoryTyped
<1>2. /\ kCalls' = kCalls \ {c} /\ UNCHANGED <<kSession, kChats, kOpen, kWarm, kTries, kAgain, kStray, kWarmed>>
  BY DEF K!AnswerLoad
<1>3. QueueSound' /\ ListSound' /\ WarmingSound'
  BY <1>2 DEF ChatDirectoryIInv, QueueSound, ListSound, WarmingSound
<1>4. CASE answer = "empty" /\ c.n < KAttempts - 1
  <2>1. kTimer' = kTries /\ UNCHANGED kMessages /\ kTries < KAttempts
    BY <1>1, <1>4 DEF K!AnswerLoad, ChatDirectoryAssumption
  <2>2. ChatDirectoryTyped' /\ LadderSound' /\ EmptyTried'
    BY <1>1, <1>2, <2>1 DEF ChatDirectoryIInv, ChatDirectoryTyped, K!TypeOK, LadderSound, EmptyTried, ChatDirectoryAssumption
  <2>3. K!ShownIsChosen' /\ K!NoLostSpinner'
    BY <1>1, <1>2, <2>1 DEF ChatDirectoryIInv, K!ShownIsChosen, K!NoLostSpinner, K!Underway, ChatDirectoryAssumption
  <2> QED
    BY <1>3, <2>2, <2>3 DEF ChatDirectoryIInv
<1>5. CASE ~(answer = "empty" /\ c.n < KAttempts - 1)
  <2>1. kMessages'.kind = answer /\ kMessages'.of = <<kSession, kOpen>> /\ UNCHANGED kTimer
    BY <1>1, <1>5 DEF K!AnswerLoad, K!Shows
  <2>2. answer = "empty" => kTries = KAttempts
    BY <1>1, <1>5 DEF ChatDirectoryAssumption
  <2>3. ChatDirectoryTyped' /\ LadderSound' /\ EmptyTried'
    BY <1>1, <1>2, <2>1, <2>2 DEF ChatDirectoryIInv, ChatDirectoryTyped, K!TypeOK, LadderSound, EmptyTried
  <2>4. K!ShownIsChosen' /\ K!NoLostSpinner'
    BY <1>1, <1>2, <2>1 DEF ChatDirectoryIInv, K!ShownIsChosen, K!NoLostSpinner, K!Underway
  <2> QED
    BY <1>3, <2>3, <2>4 DEF ChatDirectoryIInv
<1> QED
  BY <1>4, <1>5

LEMMA LadderTimerKeeps ==
  ASSUME ChatDirectoryAssumption, ChatDirectoryIInv, K!LadderTimer
  PROVE  ChatDirectoryIInv'
<1>1. /\ kOpen # None /\ kTimer = kTries /\ kTries \in 1..(KAttempts - 1) /\ \A c \in kCalls : c.op # "load"
      /\ KAttempts \in Nat
  BY DEF K!LadderTimer, ChatDirectoryIInv, LadderSound, ChatDirectoryAssumption
<1>2. PICK load : load = K!Call("load", kSession, kOpen, kTries)
  OBVIOUS
<1>3. load.op = "load" /\ load \in Calls
  <2>1. kTries \in 0..KAttempts
    BY <1>1
  <2> QED
    BY <1>1, <1>2, <2>1, ChatDirectoryCallIs, CallTyped, CallsTyped
<1>4. /\ kTimer' = None /\ kCalls' = kCalls \cup {load} /\ kTries' = kTries + 1
      /\ UNCHANGED <<kSession, kChats, kOpen, kMessages, kWarm, kAgain, kStray, kWarmed>>
  BY <1>1, <1>2 DEF K!LadderTimer
<1>5. kTries' \in 1..KAttempts /\ kTries' - 1 = kTries
  BY <1>1, <1>4
<1>6. ChatDirectoryTyped'
  BY <1>3, <1>4, <1>5, CallsTyped DEF ChatDirectoryIInv, ChatDirectoryTyped, K!TypeOK
<1>7. LadderSound'
  BY <1>1, <1>2, <1>4, <1>5 DEF LadderSound
<1>8. EmptyTried' /\ ListSound' /\ WarmingSound' /\ QueueSound'
  BY <1>1, <1>3, <1>4 DEF ChatDirectoryIInv, EmptyTried, ListSound, WarmingSound, QueueSound
<1>9. K!ShownIsChosen' /\ K!NoLostSpinner'
  BY <1>3, <1>4 DEF ChatDirectoryIInv, K!ShownIsChosen, K!NoLostSpinner, K!Underway
<1> QED
  BY <1>6, <1>7, <1>8, <1>9 DEF ChatDirectoryIInv

(* The messages are asked for by hand.                                       *)
LEMMA TryAgainKeeps ==
  ASSUME ChatDirectoryAssumption, ChatDirectoryIInv, K!TryAgain
  PROVE  ChatDirectoryIInv'
<1>1. PICK retry : retry = K!Call("retry", kSession, kOpen, 0)
  OBVIOUS
<1>2. retry.op = "retry" /\ retry \in Calls
  BY <1>1, ChatDirectoryCallIs, FirstCallTyped, CallsTyped
<1>3. /\ kMessages'.kind = "loading" /\ kCalls' = kCalls \cup {retry}
      /\ UNCHANGED <<kSession, kChats, kOpen, kTimer, kWarm, kTries, kAgain, kStray, kWarmed>>
  BY <1>1 DEF K!TryAgain, K!Loading
<1>4. ChatDirectoryTyped' /\ ListSound' /\ LadderSound' /\ EmptyTried' /\ WarmingSound' /\ QueueSound'
  BY <1>2, <1>3, CallsTyped DEF ChatDirectoryIInv, ChatDirectoryTyped, K!TypeOK, ListSound, LadderSound, EmptyTried, WarmingSound, QueueSound
<1>5. K!ShownIsChosen' /\ K!NoLostSpinner'
  BY <1>2, <1>3 DEF ChatDirectoryIInv, K!ShownIsChosen, K!NoLostSpinner, K!Underway
<1> QED
  BY <1>4, <1>5 DEF ChatDirectoryIInv

LEMMA AnswerRetryKeeps ==
  ASSUME ChatDirectoryAssumption, ChatDirectoryIInv, NEW c \in kCalls, NEW answer \in {"empty", "full", "error"}, K!AnswerRetry(c, answer)
  PROVE  ChatDirectoryIInv'
<1>1. /\ c.op = "retry" /\ kCalls' = kCalls \ {c} /\ kMessages'.kind = answer /\ kMessages'.of = <<c.session, c.ref>>
      /\ kAgain' = TRUE /\ kStray' = (kStray \/ <<c.session, c.ref>> # <<kSession, kOpen>>)
      /\ UNCHANGED <<kSession, kChats, kOpen, kTimer, kWarm, kTries, kWarmed>>
  BY DEF K!AnswerRetry, K!Shows
<1>2. ChatDirectoryTyped' /\ ListSound' /\ LadderSound' /\ EmptyTried' /\ WarmingSound' /\ QueueSound'
  BY <1>1 DEF ChatDirectoryIInv, ChatDirectoryTyped, K!TypeOK, ListSound, LadderSound, EmptyTried, WarmingSound, QueueSound
<1>3. (kOpen # None /\ kMessages.kind # "loading" /\ ~kStray => kMessages.of = <<kSession, kOpen>>)'
  BY <1>1
<1>4. K!ShownIsChosen' /\ K!NoLostSpinner'
  BY <1>1, <1>3 DEF ChatDirectoryIInv, K!ShownIsChosen, K!NoLostSpinner, K!Underway
<1> QED
  BY <1>2, <1>4 DEF ChatDirectoryIInv

LEMMA NextChatDirectory ==
  ASSUME ChatDirectoryAssumption, ChatDirectoryIInv, [K!Next]_K!vars
  PROVE  ChatDirectoryIInv'
<1>1. CASE UNCHANGED K!vars
  BY <1>1 DEF K!vars, ChatDirectoryIInv, ChatDirectoryTyped, K!TypeOK, ListSound, LadderSound, EmptyTried, WarmingSound, QueueSound,
     K!ShownIsChosen, K!NoLostSpinner, K!Underway
<1>2. CASE \E s \in KSessions \cup {None} : K!SelectSession(s)
  BY <1>2, SelectSessionKeeps
<1>3. ASSUME NEW c \in kCalls,
             \/ K!AnswerChats(c, "ready", [k \in 1..K!Cardinality(KRefs) |-> k])
             \/ K!AnswerChats(c, "error", <<>>)
      PROVE  ChatDirectoryIInv'
  <2>1. CASE K!AnswerChats(c, "ready", [k \in 1..K!Cardinality(KRefs) |-> k])
    <3>1. PICK list \in Seq(KRefs) : /\ list = [k \in 1..K!Cardinality(KRefs) |-> k]
                                     /\ \A j, k \in 1..Len(list) : list[j] = list[k] => j = k
      BY RefsCounted, ListInOrder
    <3> QED
      BY <2>1, <3>1, AnswerChatsKeeps
  <2>2. CASE K!AnswerChats(c, "error", <<>>)
    <3>1. PICK list \in Seq(KRefs) : list = <<>> /\ \A j, k \in 1..Len(list) : list[j] = list[k] => j = k
      <4>1. <<>> \in Seq(KRefs) /\ Len(<<>>) = 0
        OBVIOUS
      <4>2. \A j, k \in 1..0 : FALSE
        OBVIOUS
      <4> QED
        BY <4>1, <4>2
    <3> QED
      BY <2>2, <3>1, AnswerChatsKeeps
  <2> QED
    BY <1>3, <2>1, <2>2
<1>4. CASE K!WarmTimer \/ \E c \in kCalls : K!AnswerWarm(c)
  BY <1>4, WarmingKeeps
<1>5. ASSUME NEW c \in kCalls, NEW answer \in {"empty", "full", "error"},
             K!AnswerLoad(c, answer) \/ K!AnswerRetry(c, answer)
      PROVE  ChatDirectoryIInv'
  BY <1>5, AnswerLoadKeeps, AnswerRetryKeeps
<1>6. CASE K!LadderTimer \/ K!Close \/ K!TryAgain \/ \E r \in KRefs : K!OpenChat(r)
  BY <1>6, LadderTimerKeeps, CloseKeeps, TryAgainKeeps, OpenChatKeeps
<1> QED
  BY <1>1, <1>2, <1>3, <1>4, <1>5, <1>6 DEF K!Next

LEMMA ChatDirectorySuffices ==
  ASSUME ChatDirectoryAssumption, ChatDirectoryIInv
  PROVE  K!DirectoryInv
<1>1. \A c, d \in K!Underway("load") : c = d
  BY DEF K!Underway, ChatDirectoryIInv, LadderSound
<1>2. \A c, d \in K!Underway("warm") : c = d
  BY DEF K!Underway, ChatDirectoryIInv, WarmingSound
<1>3. /\ K!Underway("load") = {} \/ \E c : K!Underway("load") = {c}
      /\ K!Underway("warm") = {} \/ \E c : K!Underway("warm") = {c}
  BY <1>1, <1>2
<1>4. /\ K!Cardinality(K!Underway("load")) = 0 \/ K!Cardinality(K!Underway("load")) = 1
      /\ K!Cardinality(K!Underway("warm")) = 0 \/ K!Cardinality(K!Underway("warm")) = 1
      /\ K!Underway("load") = {} => K!Cardinality(K!Underway("load")) = 0
  BY <1>3, FS_EmptySet, FS_Singleton, KCardinality
<1>5. kTimer # None => K!Underway("load") = {}
  BY DEF K!Underway, ChatDirectoryIInv, LadderSound
<1>6. K!Cardinality(K!Underway("load")) + (IF kTimer = None THEN 0 ELSE 1) <= 1
  BY <1>4, <1>5
<1>7. K!EmptyAfterLadder
  BY <1>6 DEF K!EmptyAfterLadder, ChatDirectoryIInv, EmptyTried, ChatDirectoryTyped, ChatDirectoryAssumption
<1>8. K!WarmedInTurn
  <2>1. K!Cardinality(K!Underway("warm")) <= 1
    BY <1>4
  <2>2. \A c \in K!Underway("warm") : kChats.kind = "ready" /\ c.session = kChats.of
    BY DEF K!Underway, ChatDirectoryIInv, WarmingSound, K!ShownIsChosen
  <2> QED
    BY <2>1, <2>2 DEF K!WarmedInTurn, ChatDirectoryIInv, QueueSound
<1> QED
  BY <1>7, <1>8 DEF K!DirectoryInv, ChatDirectoryIInv, ChatDirectoryTyped

(* Whatever is opened, closed and chosen while answers and timers come late: *)
(* what is shown is of the chosen session and the open chat, nothing waits   *)
(* in vain, a chat is called empty only after all attempts, and each chat of *)
(* the list is warmed once, one at a time (chat-directory.tsx,               *)
(* chat-history-overlay.tsx).                                                *)
THEOREM ChatDirectoryHolds ==
  ASSUME ChatDirectoryAssumption
  PROVE  K!Spec => []K!DirectoryInv
<1>1. K!Init => ChatDirectoryIInv
  BY InitChatDirectory
<1>2. ChatDirectoryIInv /\ [K!Next]_K!vars => ChatDirectoryIInv'
  BY NextChatDirectory
<1>3. ChatDirectoryIInv => K!DirectoryInv
  BY ChatDirectorySuffices
<1> QED
  BY <1>1, <1>2, <1>3, PTL DEF K!Spec

-----------------------------------------------------------------------------
(* SessionPage *)

(* The cardinality is the library's. *)
LEMMA QCardinality == \A set : Q!Cardinality(set) = Cardinality(set)
BY DEF Q!Cardinality, Cardinality

Lives == [of : QIds, status : {"start_failed", "linking_timeout", "scan", "working", "starting"}]
PanelStates == [qr : QIds \cup {None}, asking : BOOLEAN, pairing : QIds \cup {None}, live : Lives \cup {None},
                linked : QIds \cup {None}, loaded : BOOLEAN]

SessionPageAssumption ==
  /\ QIds = 1..Q!Cardinality(QIds) /\ IsFiniteSet(QIds)
  /\ QKnown = 1..Q!Cardinality(QKnown) /\ QKnown \subseteq QIds
  /\ None \notin Nat /\ None \notin PanelStates /\ None \notin Lives
  /\ QMaxPolls \in Nat

PageStates == [shown : BOOLEAN, chosen : QIds \cup {None}, link : QIds \cup {None}, confirmed : BOOLEAN]
Creates == [kind : {"idle", "submitting", "ready", "error"}, id : QIds \cup {None}]
Runs == [id : QIds, step : {"start", "wait", "asked"}, polls : 0..QMaxPolls]
IsCall(c) ==
  /\ DOMAIN c = {"op", "id", "deed", "rows", "n"}
  /\ c.op \in {"list", "create", "lifecycle", "qr", "pair"} /\ c.id \in QIds \cup {None}
  /\ c.op = "list" /\ c.rows # None => DOMAIN c.rows \subseteq QIds

SessionPageTyped ==
  /\ Q!TypeOK /\ qPage \in PageStates /\ qCreate \in Creates /\ qPanel \in PanelStates \cup {None}
  /\ qRun \subseteq Runs /\ qStarted \in [QIds -> Nat] /\ qMounts \in Nat /\ qMoved \in BOOLEAN
  /\ qLast >= Q!Cardinality(QKnown) /\ \A c \in qCall : IsCall(c)

(* Ids are linked in their order, and the page follows the last one.         *)
Linked == {i \in QIds : i > Q!Cardinality(QKnown) /\ i <= qLast}
LinksSound ==
  /\ qCreate.kind = "ready" => qCreate.id \in Linked
  /\ qPage.link # None => qPage.link \in Linked
  /\ qPage.shown /\ qCreate.kind = "ready" => qPage.link = qCreate.id
  /\ ~qPage.shown => qPage.link = None

(* The panel has linked what the page took, or nothing yet; what it linked   *)
(* before had an earlier id.                                                 *)
PanelSound ==
  /\ qPanel # None <=> Q!Selected # None
  /\ qPanel = None => qRun = {} /\ \A c \in qCall : c.op \notin {"qr", "pair"}
  /\ qPanel # None /\ qPanel.linked # None => qPage.link # None /\ qPanel.linked <= qPage.link
RunsSound ==
  /\ \A r \in qRun : qPanel # None /\ qPanel.linked # None /\ r.id <= qPanel.linked
  /\ \A r, q \in qRun : r.id = q.id => r = q
StartsSound ==
  /\ \A i \in QIds : qStarted[i] <= qMounts /\ (qStarted[i] > 0 => i > Q!Cardinality(QKnown))
  /\ qPanel # None => \A i \in QIds : qPanel.linked = None \/ i > qPanel.linked => qStarted[i] < qMounts

(* While the panel has shown one session only, so has all that it asks for.  *)
SessionPageOfSelected ==
  qPanel # None /\ ~qMoved =>
    /\ qPanel.qr \in {None, Q!Selected} /\ qPanel.pairing \in {None, Q!Selected}
    /\ qPanel.live # None => qPanel.live.of = Q!Selected
    /\ \A c \in qCall : c.op \in {"qr", "pair"} => c.id = Q!Selected
    /\ \A r \in qRun : r.id = Q!Selected

SessionPageSingle ==
  /\ \A c, d \in qCall : c.op = "create" /\ d.op = "create" => c = d
  /\ \A c, d \in qCall : c.op = "lifecycle" /\ d.op = "lifecycle" => c = d
  /\ qCreate.kind = "submitting" <=> \E c \in qCall : c.op = "create"
  /\ qLifecycle = "submitting" <=> \E c \in qCall : c.op = "lifecycle"
Asking == qPanel # None /\ qPanel.asking => \E c \in qCall : c.op = "qr"

SessionPageIInv == SessionPageTyped /\ LinksSound /\ PanelSound /\ RunsSound /\ StartsSound /\ SessionPageOfSelected /\ SessionPageSingle /\ Asking

-----------------------------------------------------------------------------
(* Ids are numbers; a set of them that is not empty has a first.             *)
LEMMA LeastOf ==
  ASSUME NEW S, S \subseteq Nat, S # {}
  PROVE  \E x \in S : \A y \in S : x <= y
<1>1. PICK R : R = OpToRel(<, Nat)
  OBVIOUS
<1>2. IsWellFoundedOn(R, Nat)
  BY <1>1, NatLessThanWellFounded
<1>3. PICK x \in S : \A y \in S : <<y, x>> \notin R
  BY <1>2, WFMin
<1>4. \A a, b \in Nat : a < b => <<a, b>> \in R
  BY <1>1 DEF OpToRel
<1>5. \A y \in S : ~(y < x) /\ x \in Nat /\ y \in Nat
  BY <1>3, <1>4
<1> QED
  BY <1>5

LEMMA IdsCounted ==
  ASSUME SessionPageAssumption
  PROVE  /\ Q!Cardinality(QIds) \in Nat /\ Q!Cardinality(QKnown) \in Nat /\ Q!Cardinality(QKnown) <= Q!Cardinality(QIds)
         /\ QIds = 1..Q!Cardinality(QIds) /\ QKnown = 1..Q!Cardinality(QKnown)
         /\ QIds \subseteq Nat /\ None \notin QIds /\ QKnown \subseteq QIds
<1>1. IsFiniteSet(QKnown) /\ Q!Cardinality(QKnown) <= Q!Cardinality(QIds)
  BY FS_Subset, QCardinality DEF SessionPageAssumption
<1>2. Q!Cardinality(QIds) \in Nat /\ Q!Cardinality(QKnown) \in Nat
  BY <1>1, FS_CardinalityType, QCardinality DEF SessionPageAssumption
<1>3. 1..Q!Cardinality(QIds) \subseteq Nat
  BY <1>2
<1> QED
  BY <1>1, <1>2, <1>3 DEF SessionPageAssumption

LEMMA FirstIs ==
  ASSUME SessionPageAssumption, NEW S, S \subseteq QIds
  PROVE  Q!First(S) \in S \cup {None} /\ (S = {} <=> Q!First(S) = None)
<1>1. S \subseteq Nat /\ None \notin S
  BY IdsCounted
<1>2. CASE S = {}
  BY <1>2 DEF Q!First
<1>3. CASE S # {}
  <2>1. \E i \in S : \A k \in S : i <= k
    BY <1>1, <1>3, LeastOf
  <2>2. Q!First(S) \in S
    BY <1>3, <2>1 DEF Q!First
  <2> QED
    BY <1>1, <1>3, <2>2
<1> QED
  BY <1>2, <1>3

LEMMA SelectedIs ==
  ASSUME SessionPageAssumption, NEW l, DOMAIN l \subseteq QIds, NEW chosen \in QIds \cup {None}
  PROVE  Q!SelectedIn(l, chosen) \in QIds \cup {None}
BY FirstIs DEF Q!SelectedIn

LEMMA SessionPageCallIs ==
  ASSUME NEW op \in {"list", "create", "lifecycle", "qr", "pair"}, NEW id \in QIds \cup {None}, NEW deed
  PROVE  /\ IsCall(Q!NewCall(op, id, deed)) /\ Q!NewCall(op, id, deed).op = op /\ Q!NewCall(op, id, deed).id = id
BY DEF Q!NewCall, IsCall

LEMMA FreshIs ==
  ASSUME SessionPageAssumption
  PROVE  /\ Q!FreshPanel \in PanelStates /\ Q!FreshPanel.qr = None /\ Q!FreshPanel.pairing = None /\ Q!FreshPanel.live = None
         /\ Q!FreshPanel.linked = None /\ ~Q!FreshPanel.asking /\ Q!FreshPanel # None
<1>1. Q!FreshPanel \in PanelStates
  BY DEF Q!FreshPanel, PanelStates
<1>2. Q!FreshPanel # None
  BY <1>1 DEF SessionPageAssumption
<1> QED
  BY <1>1, <1>2 DEF Q!FreshPanel

LEMMA InitSessionPage ==
  ASSUME SessionPageAssumption, Q!Init
  PROVE  SessionPageIInv
<1>1. PICK first \in Nat : first = Q!Cardinality(QKnown) /\ QKnown = 1..first /\ first <= Q!Cardinality(QIds)
  BY IdsCounted
<1>2. Q!First(QKnown) \in QKnown \cup {None} /\ (QKnown = {} <=> Q!First(QKnown) = None)
  BY FirstIs, IdsCounted
<1>3. qPage = [shown |-> TRUE, chosen |-> Q!First(QKnown), link |-> None, confirmed |-> FALSE]
  BY DEF Q!Init, Q!Page
<1>4. qPage \in PageStates /\ qPage.shown /\ qPage.link = None /\ qPage.chosen = Q!First(QKnown)
  BY <1>2, <1>3, IdsCounted DEF PageStates
<1>5. DOMAIN qList = QKnown
  BY DEF Q!Init
<1>6. Q!Selected = Q!First(QKnown)
  BY <1>2, <1>4, <1>5 DEF Q!Selected, Q!SelectedIn
<1>7. Q!FreshPanel \in PanelStates /\ Q!FreshPanel.qr = None /\ Q!FreshPanel.pairing = None /\ Q!FreshPanel.live = None
      /\ Q!FreshPanel.linked = None /\ ~Q!FreshPanel.asking /\ Q!FreshPanel # None
  BY FreshIs
<1>8. qCreate = Q!Idle /\ Q!Idle \in Creates /\ Q!Idle.kind = "idle"
  BY DEF Q!Init, Q!Idle, Creates
<1>9. SessionPageTyped
  <2>1. qStarted \in [QIds -> Nat] /\ qMounts \in Nat /\ qMoved \in BOOLEAN /\ qLast = first
    BY <1>1 DEF Q!Init
  <2>2. Q!TypeOK
    <3>1. qStored = 1..first /\ qLast = first /\ qLast \in 0..Q!Cardinality(QIds) /\ 1..first \subseteq 1..qLast
      BY <1>1, IdsCounted DEF Q!Init
    <3>2. qCreate.kind = "idle" /\ qLifecycle = "idle" /\ qRun = {} /\ qCall = {} /\ (qPanel = None \/ qPanel = Q!FreshPanel)
      BY <1>8 DEF Q!Init
    <3> QED
      BY <1>4, <1>5, <1>7, <3>1, <3>2, IdsCounted DEF Q!TypeOK, PageStates
  <2> QED
    BY <1>1, <1>4, <1>7, <1>8, <2>1, <2>2 DEF Q!Init, SessionPageTyped
<1>10. LinksSound /\ PanelSound /\ RunsSound
  BY <1>2, <1>4, <1>6, <1>7, <1>8 DEF Q!Init, LinksSound, PanelSound, RunsSound
<1>11. StartsSound
  BY <1>7 DEF Q!Init, StartsSound
<1>12. SessionPageOfSelected /\ SessionPageSingle /\ Asking
  BY <1>7, <1>8 DEF Q!Init, SessionPageOfSelected, SessionPageSingle, Asking
<1> QED
  BY <1>9, <1>10, <1>11, <1>12 DEF SessionPageIInv

-----------------------------------------------------------------------------
(* The page, or the panel, is rendered.                                      *)
LEMMA RenderedKeeps ==
  ASSUME SessionPageAssumption, SessionPageIInv, NEW l, NEW pg \in PageStates, NEW cr \in Creates, NEW cs,
         DOMAIN l \subseteq QIds, \A c \in cs : IsCall(c),
         \A c : c.op \in {"qr", "pair"} => (c \in cs <=> c \in qCall),
         qLast' \in 0..Q!Cardinality(QIds), qLast' >= qLast, qStored' \subseteq 1..qLast',
         qLifecycle' \in {"idle", "submitting", "ready", "error"},
         pg.shown => (qPage.shown /\ pg.link = qPage.link) \/ (~qPage.shown /\ pg.link = None),
         ~pg.shown => pg.link = None,
         cr.kind = "ready" => cr.id \in QIds /\ cr.id > Q!Cardinality(QKnown) /\ cr.id <= qLast'
                              /\ (pg.link = None \/ pg.link <= cr.id),
         \A c, d \in cs : c.op = "create" /\ d.op = "create" => c = d,
         \A c, d \in cs : c.op = "lifecycle" /\ d.op = "lifecycle" => c = d,
         cr.kind = "submitting" <=> \E c \in cs : c.op = "create",
         qLifecycle' = "submitting" <=> \E c \in cs : c.op = "lifecycle",
         Q!Rendered(qPanel, l, pg, cr, qRun, cs)
  PROVE  SessionPageIInv'
<1> DEFINE taken == pg.shown /\ cr.kind = "ready" /\ cr.id # pg.link
<1> DEFINE new == IF taken THEN [pg EXCEPT !.chosen = cr.id, !.link = cr.id] ELSE pg
<1> DEFINE sel == IF new.shown THEN Q!SelectedIn(l, new.chosen) ELSE None
<1> DEFINE here == IF qPanel = None THEN Q!FreshPanel ELSE qPanel
<1> DEFINE links == sel # None /\ new.link = sel /\ here.linked # sel
<1> DEFINE loads == sel # None /\ l[sel] = "scan" /\ here.qr = None /\ ~here.loaded
<1>6. /\ qList' = l /\ qCreate' = cr /\ qPage' = new
      /\ qPanel' = IF sel = None THEN None
                   ELSE [here EXCEPT !.linked = IF links THEN sel ELSE @,
                                     !.loaded = @ \/ loads, !.asking = @ \/ loads]
      /\ qRun' = IF sel = None THEN {}
                 ELSE qRun \cup IF links THEN {[id |-> sel, step |-> "start", polls |-> 0]} ELSE {}
      /\ qCall' = IF sel = None THEN {c \in cs : c.op \notin {"qr", "pair"}}
                  ELSE cs \cup IF loads THEN {Q!NewCall("qr", sel, None)} ELSE {}
      /\ qMounts' = IF qPanel = None /\ sel # None THEN qMounts + 1 ELSE qMounts
      /\ qStarted' = IF links THEN [qStarted EXCEPT ![sel] = @ + 1] ELSE qStarted
      /\ qMoved' = (sel # None /\ qPanel # None /\ (qMoved \/ sel # Q!Selected))
  BY DEF Q!Rendered
<1> HIDE DEF taken
<1>7. /\ new \in PageStates /\ (new.shown <=> pg.shown)
      /\ new.shown /\ cr.kind = "ready" => new.link = cr.id
      /\ ~(new.shown /\ cr.kind = "ready") => new.link = pg.link
  <2>1. CASE taken
    BY <2>1 DEF taken, PageStates
  <2>2. CASE ~taken
    BY <2>2 DEF taken, PageStates
  <2> QED
    BY <2>1, <2>2
<1> HIDE DEF new
<1>8. sel \in QIds \cup {None} /\ (sel # None => pg.shown)
  BY <1>7, SelectedIs DEF PageStates
<1>9. Q!Selected' = sel
  BY <1>6 DEF Q!Selected
<1>4. links => sel # None /\ new.link = sel /\ here.linked # sel
  OBVIOUS
<1> HIDE DEF sel, links, loads
<1>10. /\ QIds \subseteq Nat /\ None \notin QIds /\ Q!Cardinality(QKnown) \in Nat /\ Q!Cardinality(QIds) \in Nat
       /\ qLast \in 0..Q!Cardinality(QIds) /\ qLast' \in Nat /\ qLast \in Nat /\ qLast' >= Q!Cardinality(QKnown)
  BY IdsCounted DEF SessionPageIInv, SessionPageTyped, Q!TypeOK
<1>11. /\ new.link # None => new.link \in QIds /\ new.link > Q!Cardinality(QKnown) /\ new.link <= qLast'
       /\ ~new.shown => new.link = None
       /\ qPanel # None /\ sel # None => pg.link = qPage.link /\ qPage.shown
  <2>1. qPage.link # None => qPage.link \in QIds /\ qPage.link > Q!Cardinality(QKnown) /\ qPage.link <= qLast'
    <3>1. qPage.link # None => qPage.link \in QIds /\ qPage.link > Q!Cardinality(QKnown) /\ qPage.link <= qLast
      BY DEF SessionPageIInv, LinksSound, Linked
    <3>2. qPage.link \in QIds => qPage.link \in Nat
      BY <1>10
    <3> QED
      BY <1>10, <3>1, <3>2
  <2>2. qPanel # None => qPage.shown
    BY DEF SessionPageIInv, PanelSound, Q!Selected
  <2> QED
    BY <1>7, <1>8, <2>1, <2>2
<1>12. /\ here \in PanelStates /\ (qPanel # None => here = qPanel)
       /\ qPanel = None => here.qr = None /\ here.pairing = None /\ here.live = None /\ here.linked = None /\ ~here.asking
  BY FreshIs DEF SessionPageIInv, SessionPageTyped
<1> HIDE DEF here
(* what is linked now was not linked by this panel *)
<1>13. ASSUME links
       PROVE  sel \in QIds /\ sel = new.link /\ (here.linked = None \/ sel > here.linked)
  <2>1. sel \in QIds /\ sel = new.link /\ here.linked # sel
    BY <1>4, <1>8, <1>13
  <2>2. CASE qPanel = None
    BY <1>12, <2>1, <2>2
  <2>3. CASE qPanel # None /\ here.linked # None
    <3>1. qPage.link # None /\ here.linked <= qPage.link /\ pg.link = qPage.link /\ here.linked \in Nat
      BY <1>4, <1>10, <1>11, <1>12, <1>13, <2>3 DEF SessionPageIInv, PanelSound, PanelStates
    <3>2. qPage.link \in Nat /\ sel \in Nat
      BY <1>10, <2>1, <3>1 DEF SessionPageIInv, SessionPageTyped, PageStates
    <3>3. pg.link <= new.link
      BY <1>7, <3>1, <3>2, <2>1
    <3> QED
      BY <2>1, <3>1, <3>2, <3>3
  <2> QED
    BY <2>1, <2>2, <2>3
<1>14. CASE sel = None
  <2>1. /\ qPanel' = None /\ qRun' = {} /\ qCall' = {c \in cs : c.op \notin {"qr", "pair"}} /\ ~links
        /\ qMounts' = qMounts /\ qStarted' = qStarted /\ qMoved' = FALSE
    BY <1>4, <1>6, <1>14
  <2>2. SessionPageTyped'
    <3>1. Q!TypeOK'
      BY <1>6, <1>7, <2>1 DEF Q!TypeOK, PageStates, Creates, IsCall
    <3> QED
      BY <1>6, <1>7, <1>10, <2>1, <3>1 DEF SessionPageIInv, SessionPageTyped
  <2>3. LinksSound'
    BY <1>6, <1>7, <1>11 DEF LinksSound, Linked
  <2>4. PanelSound' /\ RunsSound' /\ SessionPageOfSelected' /\ Asking'
    BY <1>9, <1>14, <2>1 DEF PanelSound, RunsSound, SessionPageOfSelected, Asking
  <2>5. StartsSound'
    BY <2>1 DEF SessionPageIInv, StartsSound
  <2>6. SessionPageSingle'
    BY <1>6, <2>1 DEF SessionPageSingle
  <2> QED
    BY <2>2, <2>3, <2>4, <2>5, <2>6 DEF SessionPageIInv
<1>15. CASE sel # None
  <2>1. sel \in QIds
    BY <1>8, <1>15
  <2>2. /\ qPanel' \in PanelStates /\ qPanel' # None
        /\ qPanel'.linked = (IF links THEN sel ELSE here.linked) /\ qPanel'.qr = here.qr /\ qPanel'.pairing = here.pairing
        /\ qPanel'.live = here.live /\ (qPanel'.asking => here.asking \/ loads)
    BY <1>6, <1>12, <1>15, <2>1 DEF PanelStates, SessionPageAssumption
  <2>3. PICK begun : begun = [id |-> sel, step |-> "start", polls |-> 0]
    OBVIOUS
  <2>4. begun \in Runs /\ begun.id = sel
    BY <2>1, <2>3 DEF Runs, SessionPageAssumption
  <2>5. (links => qRun' = qRun \cup {begun}) /\ (~links => qRun' = qRun)
    BY <1>6, <1>15, <2>3
  <2>6. PICK qr : qr = Q!NewCall("qr", sel, None)
    OBVIOUS
  <2>7. IsCall(qr) /\ qr.op = "qr" /\ qr.id = sel
    BY <2>1, <2>6, SessionPageCallIs
  <2>8. (loads => qCall' = cs \cup {qr}) /\ (~loads => qCall' = cs)
    BY <1>6, <1>15, <2>6
  <2>9. /\ qPanel = None => qMounts' = qMounts + 1 /\ ~qMoved'
        /\ qPanel # None => qMounts' = qMounts
        /\ qPanel # None /\ ~qMoved' => ~qMoved /\ sel = Q!Selected
        /\ qMounts \in Nat /\ qMounts' \in Nat
    <3>1. qMounts \in Nat
      BY DEF SessionPageIInv, SessionPageTyped
    <3>2. (qPanel = None => qMounts' = qMounts + 1) /\ (qPanel # None => qMounts' = qMounts)
      BY <1>6, <1>15
    <3>3. (qPanel = None => ~qMoved') /\ (qPanel # None /\ ~qMoved' => ~qMoved /\ sel = Q!Selected)
      BY <1>6, <1>15
    <3> QED
      BY <3>1, <3>2, <3>3
  <2>10. SessionPageTyped'
    <3>1. qStarted' \in [QIds -> Nat]
      BY <1>6, <2>1 DEF SessionPageIInv, SessionPageTyped
    <3>2. qRun' \subseteq Runs /\ \A c \in qCall' : IsCall(c)
      BY <2>4, <2>5, <2>7, <2>8 DEF SessionPageIInv, SessionPageTyped
    <3>3. qMoved' \in BOOLEAN
      BY <1>6
    <3>4. Q!TypeOK'
      BY <1>6, <1>7, <2>2, <3>2 DEF Q!TypeOK, PageStates, Creates, PanelStates, Runs, IsCall
    <3> QED
      BY <1>6, <1>7, <1>10, <2>2, <2>9, <3>1, <3>2, <3>3, <3>4 DEF SessionPageTyped
  <2>11. LinksSound'
    BY <1>6, <1>7, <1>11 DEF LinksSound, Linked
  <2>12. PanelSound'
    <3>1. CASE links
      <4>1. qPanel'.linked = new.link /\ new.link \in Nat
        BY <1>10, <1>13, <2>2, <3>1
      <4> QED
        BY <1>6, <1>9, <1>10, <1>15, <2>2, <4>1 DEF PanelSound
    <3>2. CASE ~links /\ here.linked = None
      BY <1>6, <1>9, <1>15, <2>2, <3>2 DEF PanelSound
    <3>3. CASE ~links /\ here.linked # None
      <4>1. qPanel # None /\ qPage.link # None /\ here.linked <= qPage.link /\ pg.link = qPage.link /\ here.linked \in Nat
        BY <1>10, <1>11, <1>12, <1>15, <3>3 DEF SessionPageIInv, PanelSound, PanelStates
      <4>2. qPage.link \in Nat
        BY <1>10, <4>1 DEF SessionPageIInv, SessionPageTyped, PageStates
      <4>3. new.link = pg.link \/ (new.link \in QIds /\ pg.link <= new.link)
        BY <1>7, <4>1
      <4>4. new.link \in Nat /\ here.linked <= new.link
        <5>1. CASE new.link = pg.link
          BY <4>1, <4>2, <5>1
        <5>2. CASE new.link \in QIds /\ pg.link <= new.link
          <6>1. new.link \in Nat
            BY <1>10, <5>2
          <6> QED
            BY <4>1, <4>2, <5>2, <6>1
        <5> QED
          BY <4>3, <5>1, <5>2
      <4>5. new.link # None
        BY <4>4 DEF SessionPageAssumption
      <4> QED
        BY <1>6, <1>9, <1>15, <2>2, <3>3, <4>4, <4>5 DEF PanelSound
    <3> QED
      BY <3>1, <3>2, <3>3
  <2>13. /\ \A r \in qRun : qPanel # None /\ r.id \in Nat /\ here.linked # None /\ here.linked \in Nat /\ r.id <= here.linked
         /\ links => sel \in Nat /\ \A r \in qRun : r.id < sel
    <3>1. \A r \in qRun : qPanel # None /\ r.id \in Nat /\ here.linked # None /\ here.linked \in Nat /\ r.id <= here.linked
      BY <1>10, <1>12 DEF SessionPageIInv, RunsSound, SessionPageTyped, Runs, PanelStates
    <3>2. ASSUME links, NEW r \in qRun
          PROVE  r.id < sel
      <4>1. sel \in Nat /\ sel > here.linked
        BY <1>10, <1>13, <3>1, <3>2
      <4> QED
        BY <3>1, <4>1
    <3>3. links => sel \in Nat
      BY <1>10, <2>1
    <3> QED
      BY <3>1, <3>2, <3>3
  <2>14. RunsSound'
    <3>1. CASE links
      <4>1. \A r \in qRun' : r.id <= sel
        BY <2>4, <2>5, <2>13, <3>1
      <4>2. \A r, q \in qRun' : r.id = q.id => r = q
        BY <2>4, <2>5, <2>13, <3>1 DEF SessionPageIInv, RunsSound
      <4> QED
        BY <1>10, <2>1, <2>2, <3>1, <4>1, <4>2 DEF RunsSound
    <3>2. CASE ~links
      BY <2>2, <2>5, <2>13, <3>2 DEF SessionPageIInv, RunsSound
    <3> QED
      BY <3>1, <3>2
  <2>15. StartsSound'
    <3>1. qStarted \in [QIds -> Nat] /\ \A i \in QIds : qStarted[i] <= qMounts /\ (qStarted[i] > 0 => i > Q!Cardinality(QKnown))
      BY DEF SessionPageIInv, SessionPageTyped, StartsSound
    <3>2. \A i \in QIds : here.linked = None \/ i > here.linked => qStarted[i] < qMounts'
      <4>1. CASE qPanel = None
        <5>1. \A i \in QIds : qStarted[i] \in Nat /\ qStarted[i] <= qMounts
          BY <3>1
        <5> QED
          BY <2>9, <4>1, <5>1
      <4>2. CASE qPanel # None
        BY <1>12, <2>9, <4>2 DEF SessionPageIInv, StartsSound
      <4> QED
        BY <4>1, <4>2
    <3>3. \A i \in QIds : qStarted[i] <= qMounts' /\ i \in Nat /\ qStarted[i] \in Nat
      <4>1. \A i \in QIds : qStarted[i] \in Nat /\ qStarted[i] <= qMounts
        BY <3>1
      <4> QED
        BY <1>10, <2>9, <4>1
    <3>4. CASE links
      <4>1. qStarted[sel] < qMounts' /\ sel > Q!Cardinality(QKnown) /\ sel \in QIds
        <5>1. sel \in QIds /\ sel = new.link /\ new.link # None
          BY <1>4, <1>13, <3>4
        <5>2. here.linked = None \/ sel > here.linked
          BY <1>13, <3>4
        <5>3. qStarted[sel] < qMounts'
          BY <3>2, <5>1, <5>2
        <5> QED
          BY <1>11, <5>1, <5>3
      <4>2. qStarted'[sel] = qStarted[sel] + 1 /\ \A i \in QIds : i # sel => qStarted'[i] = qStarted[i]
        BY <1>6, <3>1, <3>4, <4>1
      <4>3. \A i \in QIds : qStarted'[i] <= qMounts' /\ (qStarted'[i] > 0 => i > Q!Cardinality(QKnown))
        <5>1. qStarted'[sel] <= qMounts'
          BY <2>9, <3>3, <4>1, <4>2
        <5> QED
          BY <3>1, <3>3, <4>1, <4>2, <5>1
      <4>4. \A i \in QIds : i > sel => qStarted'[i] < qMounts'
        <5>1. \A i \in QIds : i > sel => i # sel /\ (here.linked = None \/ i > here.linked)
          <6>1. SUFFICES ASSUME NEW i \in QIds, i > sel
                         PROVE  i # sel /\ (here.linked = None \/ i > here.linked)
            OBVIOUS
          <6>2. i \in Nat /\ sel \in Nat
            BY <1>10, <2>1
          <6>3. CASE here.linked = None
            BY <6>1, <6>2, <6>3
          <6>4. CASE here.linked # None
            <7>1. here.linked \in Nat /\ sel > here.linked
              BY <1>10, <1>12, <1>13, <3>4, <6>4 DEF PanelStates
            <7> QED
              BY <6>1, <6>2, <7>1
          <6> QED
            BY <6>3, <6>4
        <5> QED
          BY <3>2, <4>2, <5>1
      <4> QED
        BY <1>10, <2>1, <2>2, <3>4, <4>3, <4>4 DEF StartsSound
    <3>5. CASE ~links
      <4>1. qStarted' = qStarted
        BY <1>6, <3>5
      <4> QED
        BY <2>2, <3>1, <3>2, <3>3, <3>5, <4>1 DEF StartsSound
    <3> QED
      BY <3>4, <3>5
  <2>16. SessionPageOfSelected'
    <3>1. SUFFICES ASSUME ~qMoved'
                   PROVE  /\ here.qr \in {None, sel} /\ here.pairing \in {None, sel}
                          /\ here.live # None => here.live.of = sel
                          /\ \A c \in cs : c.op \in {"qr", "pair"} => c.id = sel
                          /\ \A r \in qRun : r.id = sel
      BY <1>9, <2>2, <2>4, <2>5, <2>7, <2>8 DEF SessionPageOfSelected
    <3>2. CASE qPanel = None
      BY <1>12, <3>2 DEF SessionPageIInv, PanelSound
    <3>3. CASE qPanel # None
      <4>1. ~qMoved /\ sel = Q!Selected
        BY <2>9, <3>1, <3>3
      <4> QED
        BY <1>12, <3>3, <4>1 DEF SessionPageIInv, SessionPageOfSelected
    <3> QED
      BY <3>2, <3>3
  <2>17. SessionPageSingle'
    BY <1>6, <2>7, <2>8 DEF SessionPageSingle
  <2>18. Asking'
    <3>1. CASE loads
      BY <2>7, <2>8, <3>1 DEF Asking
    <3>2. CASE ~loads
      <4>1. qPanel'.asking => qPanel # None /\ qPanel.asking
        BY <1>12, <2>2, <3>2
      <4>2. qPanel # None /\ qPanel.asking => \E c \in cs : c.op = "qr"
        BY DEF SessionPageIInv, Asking
      <4> QED
        BY <2>8, <3>2, <4>1, <4>2 DEF Asking
    <3> QED
      BY <3>1, <3>2
  <2> QED
    BY <2>10, <2>11, <2>12, <2>14, <2>15, <2>16, <2>17, <2>18 DEF SessionPageIInv
<1> QED
  BY <1>14, <1>15

LEMMA LinkBefore ==
  ASSUME SessionPageAssumption, SessionPageIInv, qCreate.kind = "ready"
  PROVE  /\ qCreate.id \in QIds /\ qCreate.id > Q!Cardinality(QKnown) /\ qCreate.id <= qLast
         /\ qPage.link = None \/ qPage.link <= qCreate.id
<1>1. qCreate.id \in QIds /\ qCreate.id > Q!Cardinality(QKnown) /\ qCreate.id <= qLast
  BY DEF SessionPageIInv, LinksSound, Linked
<1>2. qCreate.id \in Nat
  BY <1>1, IdsCounted
<1>3. qPage.link = None \/ qPage.link = qCreate.id
  BY DEF SessionPageIInv, LinksSound
<1> QED
  BY <1>1, <1>2, <1>3

(* The server, and what it is asked, as they are.                            *)
LEMMA AsBefore ==
  ASSUME SessionPageAssumption, SessionPageIInv
  PROVE  /\ qLast \in 0..Q!Cardinality(QIds) /\ qLast >= qLast /\ qStored \subseteq 1..qLast /\ DOMAIN qList \subseteq QIds
         /\ qPage \in PageStates /\ qCreate \in Creates /\ qLifecycle \in {"idle", "submitting", "ready", "error"}
         /\ \A c \in qCall : IsCall(c) /\ c.op \in {"list", "create", "lifecycle", "qr", "pair"}
         /\ qPage.shown \in BOOLEAN
<1>1. qLast \in 0..Q!Cardinality(QIds)
  BY DEF SessionPageIInv, SessionPageTyped, Q!TypeOK
<1>2. qLast \in Int
  BY <1>1
<1> QED
  BY <1>1, <1>2 DEF SessionPageIInv, SessionPageTyped, Q!TypeOK, IsCall, PageStates

LEMMA SessionPageChooseKeeps ==
  ASSUME SessionPageAssumption, SessionPageIInv, NEW id \in QIds, Q!Choose(id)
  PROVE  SessionPageIInv'
<1>1. PICK pg : pg = [qPage EXCEPT !.chosen = id]
  OBVIOUS
<1>2. pg \in PageStates /\ qPage.shown /\ pg.shown /\ pg.link = qPage.link
  BY <1>1, AsBefore DEF Q!Choose, PageStates
<1>3. Q!Rendered(qPanel, qList, pg, qCreate, qRun, qCall) /\ UNCHANGED <<qStored, qLast, qLifecycle>>
  BY <1>1 DEF Q!Choose
<1>4. qCreate.kind = "ready" => qCreate.id \in QIds /\ qCreate.id > Q!Cardinality(QKnown) /\ qCreate.id <= qLast'
                                /\ (pg.link = None \/ pg.link <= qCreate.id)
  BY <1>2, <1>3, LinkBefore
<1> QED
  BY <1>2, <1>3, <1>4, AsBefore, RenderedKeeps DEF SessionPageIInv, SessionPageSingle

LEMMA LeaveKeeps ==
  ASSUME SessionPageAssumption, SessionPageIInv, Q!Leave
  PROVE  SessionPageIInv'
<1>1. Q!NoPage \in PageStates /\ ~Q!NoPage.shown /\ Q!NoPage.link = None
  BY DEF Q!NoPage, PageStates
<1>2. Q!Rendered(qPanel, qList, Q!NoPage, qCreate, qRun, qCall) /\ UNCHANGED <<qStored, qLast, qLifecycle>>
  BY DEF Q!Leave
<1>3. qCreate.kind = "ready" => qCreate.id \in QIds /\ qCreate.id > Q!Cardinality(QKnown) /\ qCreate.id <= qLast'
  BY <1>2, LinkBefore
<1> QED
  BY <1>1, <1>2, <1>3, AsBefore, RenderedKeeps DEF SessionPageIInv, SessionPageSingle

LEMMA ReturnKeeps ==
  ASSUME SessionPageAssumption, SessionPageIInv, Q!Return
  PROVE  SessionPageIInv'
<1>1. PICK pg : pg = Q!Page(Q!First(DOMAIN qList))
  OBVIOUS
<1>2. Q!First(DOMAIN qList) \in QIds \cup {None}
  BY AsBefore, FirstIs
<1>3. pg \in PageStates /\ pg.shown /\ pg.link = None /\ ~qPage.shown
  BY <1>1, <1>2 DEF Q!Return, Q!Page, PageStates
<1>4. qPanel = None
  BY <1>3 DEF SessionPageIInv, PanelSound, Q!Selected
<1>5. Q!Rendered(qPanel, qList, pg, qCreate, qRun, qCall) /\ UNCHANGED <<qStored, qLast, qLifecycle>>
  BY <1>1, <1>4 DEF Q!Return
<1>6. qCreate.kind = "ready" => qCreate.id \in QIds /\ qCreate.id > Q!Cardinality(QKnown) /\ qCreate.id <= qLast'
  BY <1>5, LinkBefore
<1> QED
  BY <1>3, <1>5, <1>6, AsBefore, RenderedKeeps DEF SessionPageIInv, SessionPageSingle

LEMMA ListsKeep ==
  ASSUME SessionPageAssumption, SessionPageIInv, NEW c \in qCall, Q!AnswerList(c) \/ Q!LoseList(c)
  PROVE  SessionPageIInv'
<1>1. PICK l : DOMAIN l \subseteq QIds /\ Q!Rendered(qPanel, l, qPage, qCreate, qRun, qCall \ {c})
  <2>1. CASE Q!AnswerList(c)
    BY <2>1, AsBefore DEF Q!AnswerList, Q!Answered, IsCall
  <2>2. CASE Q!LoseList(c)
    BY <2>2 DEF Q!LoseList, Q!Answered
  <2> QED
    BY <2>1, <2>2
<1>2. c.op = "list" /\ UNCHANGED <<qStored, qLast, qLifecycle>>
  BY DEF Q!AnswerList, Q!LoseList
<1>3. qCreate.kind = "ready" => qCreate.id \in QIds /\ qCreate.id > Q!Cardinality(QKnown) /\ qCreate.id <= qLast'
                                /\ (qPage.link = None \/ qPage.link <= qCreate.id)
  BY <1>2, LinkBefore
<1>4. ~qPage.shown => qPage.link = None
  BY DEF SessionPageIInv, LinksSound
<1>5. /\ qCreate.kind = "submitting" <=> \E d \in qCall \ {c} : d.op = "create"
      /\ qLifecycle = "submitting" <=> \E d \in qCall \ {c} : d.op = "lifecycle"
  BY <1>2 DEF SessionPageIInv, SessionPageSingle
<1>6. \A d : d.op \in {"qr", "pair"} => (d \in qCall \ {c} <=> d \in qCall)
  BY <1>2
<1>7. /\ \A d \in qCall \ {c} : IsCall(d)
      /\ \A d, e \in qCall \ {c} : d.op = "create" /\ e.op = "create" => d = e
      /\ \A d, e \in qCall \ {c} : d.op = "lifecycle" /\ e.op = "lifecycle" => d = e
  BY AsBefore DEF SessionPageIInv, SessionPageSingle
<1>8. /\ qPage.shown => (qPage.shown /\ qPage.link = qPage.link) \/ (~qPage.shown /\ qPage.link = None)
      /\ qLast' \in 0..Q!Cardinality(QIds) /\ qLast' >= qLast /\ qStored' \subseteq 1..qLast'
      /\ qLifecycle' \in {"idle", "submitting", "ready", "error"}
      /\ qLifecycle' = "submitting" <=> \E d \in qCall \ {c} : d.op = "lifecycle"
  BY <1>2, <1>5, AsBefore
<1> QED
  BY <1>1, <1>3, <1>4, <1>5, <1>6, <1>7, <1>8, AsBefore, RenderedKeeps

LEMMA AnswerCreateKeeps ==
  ASSUME SessionPageAssumption, SessionPageIInv, NEW c \in qCall, NEW kind \in {"ready", "error"}, NEW done \in BOOLEAN,
         Q!AnswerCreate(c, kind, done)
  PROVE  SessionPageIInv'
<1>1. PICK new : new = Q!NewCall("list", None, None)
  OBVIOUS
<1>2. IsCall(new) /\ new.op = "list"
  BY <1>1, SessionPageCallIs
<1>3. PICK cs : cs = (qCall \ {c}) \cup (IF kind = "ready" THEN {new} ELSE {})
  OBVIOUS
<1>4. PICK cr : cr = [kind |-> kind, id |-> IF kind = "ready" THEN qLast + 1 ELSE None]
  OBVIOUS
<1>5. /\ c.op = "create" /\ Q!Rendered(qPanel, qList, qPage, cr, qRun, cs) /\ UNCHANGED qLifecycle
      /\ qLast' = (IF done THEN qLast + 1 ELSE qLast) /\ qStored' = qStored \cup (qLast + 1)..qLast'
      /\ (kind = "ready" => done) /\ (done => qLast + 1 \in QIds)
  BY <1>1, <1>3, <1>4 DEF Q!AnswerCreate, Q!Answered
<1>6. qLast \in Nat /\ qLast >= Q!Cardinality(QKnown) /\ Q!Cardinality(QKnown) \in Nat /\ Q!Cardinality(QIds) \in Nat
  BY AsBefore, IdsCounted DEF SessionPageIInv, SessionPageTyped
<1>7. /\ qLast' \in 0..Q!Cardinality(QIds) /\ qLast' >= qLast /\ qStored' \subseteq 1..qLast'
  <2>1. CASE done
    BY <1>5, <1>6, <2>1, AsBefore, IdsCounted
  <2>2. CASE ~done
    BY <1>5, <1>6, <2>2, AsBefore, IdsCounted
  <2> QED
    BY <2>1, <2>2
<1>8. cr \in Creates /\ cr.kind = kind /\ (kind = "ready" => cr.id = qLast + 1)
  BY <1>4, <1>5 DEF Creates
<1>9. qPage.link = None \/ (qPage.link \in Nat /\ qPage.link <= qLast)
  BY IdsCounted DEF SessionPageIInv, LinksSound, Linked
<1>10. cr.kind = "ready" => cr.id \in QIds /\ cr.id > Q!Cardinality(QKnown) /\ cr.id <= qLast'
                            /\ (qPage.link = None \/ qPage.link <= cr.id)
  <2>1. SUFFICES ASSUME kind = "ready"
                 PROVE  /\ cr.id \in QIds /\ cr.id > Q!Cardinality(QKnown) /\ cr.id <= qLast'
                        /\ qPage.link = None \/ qPage.link <= cr.id
    BY <1>8
  <2>2. cr.id = qLast + 1 /\ qLast' = qLast + 1 /\ cr.id \in QIds
    BY <1>5, <1>8, <2>1
  <2> QED
    BY <1>6, <1>9, <2>2
<1>11. /\ \A d \in cs : IsCall(d) /\ d.op # "create"
       /\ \A d \in cs : d.op = "lifecycle" <=> d \in qCall /\ d.op = "lifecycle"
       /\ \A d \in qCall : d.op = "lifecycle" => d \in cs
       /\ \A d : d.op \in {"qr", "pair"} => (d \in cs <=> d \in qCall)
  BY <1>2, <1>3, <1>5, AsBefore DEF SessionPageIInv, SessionPageSingle
<1>12. /\ \A d, e \in cs : d.op = "create" /\ e.op = "create" => d = e
       /\ \A d, e \in cs : d.op = "lifecycle" /\ e.op = "lifecycle" => d = e
       /\ cr.kind = "submitting" <=> \E d \in cs : d.op = "create"
       /\ qLifecycle' = "submitting" <=> \E d \in cs : d.op = "lifecycle"
       /\ qLifecycle' \in {"idle", "submitting", "ready", "error"}
  BY <1>5, <1>8, <1>11, AsBefore DEF SessionPageIInv, SessionPageSingle
<1>13. ~qPage.shown => qPage.link = None
  BY DEF SessionPageIInv, LinksSound
<1> QED
  BY <1>5, <1>7, <1>8, <1>10, <1>11, <1>12, <1>13, AsBefore, RenderedKeeps

-----------------------------------------------------------------------------
(* The page and its calls change, the panel does not.                        *)
LEMMA PageCallsKeep ==
  ASSUME SessionPageAssumption, SessionPageIInv, qPage' \in PageStates,
         qPage'.shown = qPage.shown, qPage'.chosen = qPage.chosen, qPage'.link = qPage.link,
         qCreate' \in Creates, qCreate' = qCreate \/ qCreate'.kind = "submitting",
         qLifecycle' \in {"idle", "submitting", "ready", "error"}, qStored' \subseteq 1..qLast,
         UNCHANGED <<qLast, qList, Q!Panels>>,
         \A c \in qCall' : IsCall(c), \A c : c.op \in {"qr", "pair"} => (c \in qCall' <=> c \in qCall), SessionPageSingle'
  PROVE  SessionPageIInv'
<1>1. Q!Selected' = Q!Selected /\ UNCHANGED <<qLast, qList, qPanel, qRun, qMounts, qStarted, qMoved>>
  BY DEF Q!Selected, Q!Panels
<1>2. SessionPageTyped'
  <2>1. Q!TypeOK'
    BY <1>1 DEF SessionPageIInv, SessionPageTyped, Q!TypeOK, PageStates, Creates, IsCall
  <2> QED
    BY <1>1, <2>1 DEF SessionPageIInv, SessionPageTyped
<1>3. LinksSound'
  BY <1>1 DEF SessionPageIInv, LinksSound, Linked
<1>4. PanelSound'
  BY <1>1 DEF SessionPageIInv, PanelSound
<1>5. RunsSound' /\ StartsSound'
  BY <1>1 DEF SessionPageIInv, RunsSound, StartsSound
<1>6. SessionPageOfSelected' /\ Asking'
  BY <1>1 DEF SessionPageIInv, SessionPageOfSelected, Asking
<1> QED
  BY <1>2, <1>3, <1>4, <1>5, <1>6 DEF SessionPageIInv

LEMMA ConfirmKeeps ==
  ASSUME SessionPageAssumption, SessionPageIInv, Q!Confirm
  PROVE  SessionPageIInv'
<1>1. qPage' \in PageStates /\ qPage'.shown = qPage.shown /\ qPage'.chosen = qPage.chosen /\ qPage'.link = qPage.link
  BY AsBefore DEF Q!Confirm, PageStates
<1>2. UNCHANGED <<qStored, qLast, qList, qCreate, qLifecycle, Q!Panels, qCall>>
  BY DEF Q!Confirm
<1>3. SessionPageSingle'
  BY <1>2 DEF SessionPageIInv, SessionPageSingle
<1> QED
  BY <1>1, <1>2, <1>3, AsBefore, PageCallsKeep

LEMMA CreateKeeps ==
  ASSUME SessionPageAssumption, SessionPageIInv, Q!Create
  PROVE  SessionPageIInv'
<1>1. PICK new : new = Q!NewCall("create", None, None)
  OBVIOUS
<1>2. IsCall(new) /\ new.op = "create"
  BY <1>1, SessionPageCallIs
<1>3. /\ qCreate' \in Creates /\ qCreate'.kind = "submitting" /\ qCall' = qCall \cup {new}
      /\ UNCHANGED <<qStored, qLast, qList, qPage, qLifecycle, Q!Panels>> /\ qCreate.kind # "submitting"
  BY <1>1 DEF Q!Create, Creates
<1>4. SessionPageSingle'
  BY <1>2, <1>3 DEF SessionPageIInv, SessionPageSingle
<1> QED
  BY <1>2, <1>3, <1>4, AsBefore, PageCallsKeep

LEMMA RunLifecycleKeeps ==
  ASSUME SessionPageAssumption, SessionPageIInv, NEW deed, Q!RunLifecycle(deed)
  PROVE  SessionPageIInv'
<1>1. PICK new : new = Q!NewCall("lifecycle", Q!Selected, deed)
  OBVIOUS
<1>2. Q!Selected \in QIds \cup {None}
  BY AsBefore, SelectedIs DEF Q!Selected, PageStates
<1>3. IsCall(new) /\ new.op = "lifecycle"
  BY <1>1, <1>2, SessionPageCallIs
<1>4. /\ qLifecycle' = "submitting" /\ qLifecycle # "submitting" /\ qCall' = qCall \cup {new}
      /\ UNCHANGED <<qStored, qLast, qList, qPage, qCreate, Q!Panels>>
  BY <1>1 DEF Q!RunLifecycle
<1>5. SessionPageSingle'
  BY <1>3, <1>4 DEF SessionPageIInv, SessionPageSingle
<1> QED
  BY <1>3, <1>4, <1>5, AsBefore, PageCallsKeep

LEMMA AnswerLifecycleKeeps ==
  ASSUME SessionPageAssumption, SessionPageIInv, NEW c \in qCall, NEW kind \in {"ready", "error"}, NEW done \in BOOLEAN,
         Q!AnswerLifecycle(c, kind, done)
  PROVE  SessionPageIInv'
<1>1. PICK new : new = Q!NewCall("list", None, None)
  OBVIOUS
<1>2. IsCall(new) /\ new.op = "list"
  BY <1>1, SessionPageCallIs
<1>3. /\ qLifecycle' = kind /\ c.op = "lifecycle" /\ qCall' = (qCall \ {c}) \cup {new} /\ qStored' \subseteq qStored
      /\ UNCHANGED <<qLast, qList, qPage, qCreate, Q!Panels>>
  BY <1>1 DEF Q!AnswerLifecycle, Q!Answered
<1>4. SessionPageSingle'
  BY <1>2, <1>3 DEF SessionPageIInv, SessionPageSingle
<1>5. \A d : d.op \in {"qr", "pair"} => (d \in qCall' <=> d \in qCall)
  BY <1>2, <1>3
<1> QED
  BY <1>2, <1>3, <1>4, <1>5, AsBefore, PageCallsKeep

LEMMA ServeListKeeps ==
  ASSUME SessionPageAssumption, SessionPageIInv, NEW c \in qCall, NEW status, Q!ServeList(c, status)
  PROVE  SessionPageIInv'
<1>1. PICK rows : rows = [i \in qStored |-> status[i]]
  OBVIOUS
<1>2. PICK new : new = [c EXCEPT !.rows = rows]
  OBVIOUS
<1>3. DOMAIN rows \subseteq QIds
  <2>1. 1..qLast \subseteq 1..Q!Cardinality(QIds)
    BY AsBefore, IdsCounted
  <2> QED
    BY <1>1, <2>1, AsBefore, IdsCounted
<1>4. IsCall(c) /\ c.op = "list"
  BY AsBefore DEF Q!ServeList
<1>5. new.op = "list" /\ new.id = c.id /\ new.rows = rows /\ DOMAIN new = {"op", "id", "deed", "rows", "n"}
  BY <1>2, <1>4 DEF IsCall
<1>6. IsCall(new)
  BY <1>3, <1>4, <1>5 DEF IsCall
<1>7. qCall' = (qCall \ {c}) \cup {new} /\ UNCHANGED <<qStored, qLast, qList, qPage, qCreate, qLifecycle, Q!Panels>>
  BY <1>1, <1>2 DEF Q!ServeList, Q!Answered
<1>8. SessionPageSingle'
  BY <1>4, <1>5, <1>7 DEF SessionPageIInv, SessionPageSingle
<1>9. \A d : d.op \in {"qr", "pair"} => (d \in qCall' <=> d \in qCall)
  BY <1>4, <1>5, <1>7
<1> QED
  BY <1>6, <1>7, <1>8, <1>9, AsBefore, PageCallsKeep

-----------------------------------------------------------------------------
(* The panel and its calls change, the page does not.                        *)
LEMMA PanelKeeps ==
  ASSUME SessionPageAssumption, SessionPageIInv, UNCHANGED Q!Kept, qPanel # None, qPanel' \in PanelStates,
         qPanel'.linked = qPanel.linked, qRun' \subseteq Runs, \A r \in qRun' : \E q \in qRun : q.id = r.id,
         \A r, q \in qRun' : r.id = q.id => r = q,
         \A c \in qCall' : IsCall(c), \A c : c.op \notin {"qr", "pair"} => (c \in qCall' <=> c \in qCall),
         \A c \in qCall' : c.op \in {"qr", "pair"} => c \in qCall \/ c.id = Q!Selected,
         ~qMoved => /\ qPanel'.qr \in {None, Q!Selected} /\ qPanel'.pairing \in {None, Q!Selected}
                    /\ qPanel'.live # None => qPanel'.live.of = Q!Selected,
         qPanel'.asking => \E c \in qCall' : c.op = "qr"
  PROVE  SessionPageIInv'
<1>1. Q!Selected' = Q!Selected /\ UNCHANGED <<qStored, qLast, qList, qPage, qCreate, qLifecycle, qMounts, qStarted, qMoved>>
  BY DEF Q!Selected, Q!Kept
<1>2. qPanel' # None
  BY DEF SessionPageAssumption
<1>3. SessionPageTyped'
  <2>1. Q!TypeOK'
    BY <1>1 DEF SessionPageIInv, SessionPageTyped, Q!TypeOK, PanelStates, Runs, IsCall
  <2> QED
    BY <1>1, <2>1 DEF SessionPageIInv, SessionPageTyped
<1>4. LinksSound'
  BY <1>1 DEF SessionPageIInv, LinksSound, Linked
<1>5. PanelSound'
  BY <1>1, <1>2 DEF SessionPageIInv, PanelSound
<1>6. RunsSound'
  BY <1>2 DEF SessionPageIInv, RunsSound
<1>7. StartsSound'
  BY <1>1 DEF SessionPageIInv, StartsSound
<1>8. SessionPageOfSelected'
  <2>1. SUFFICES ASSUME ~qMoved
                 PROVE  /\ \A c \in qCall' : c.op \in {"qr", "pair"} => c.id = Q!Selected
                        /\ \A r \in qRun' : r.id = Q!Selected
    BY <1>1 DEF SessionPageOfSelected
  <2> QED
    BY <2>1 DEF SessionPageIInv, SessionPageOfSelected
<1>9. SessionPageSingle' /\ Asking'
  BY <1>1 DEF SessionPageIInv, SessionPageSingle, Asking
<1> QED
  BY <1>3, <1>4, <1>5, <1>6, <1>7, <1>8, <1>9 DEF SessionPageIInv

(* What the panel is, and what it shows as long as it has not moved.         *)
LEMMA PanelAsBefore ==
  ASSUME SessionPageAssumption, SessionPageIInv, qPanel # None
  PROVE  /\ qPanel \in PanelStates /\ qRun \subseteq Runs /\ Q!Selected \in QIds
         /\ \A r \in qRun : r.id \in QIds
         /\ ~qMoved => /\ qPanel.qr \in {None, Q!Selected} /\ qPanel.pairing \in {None, Q!Selected}
                       /\ qPanel.live # None => qPanel.live.of = Q!Selected
                       /\ \A c \in qCall : c.op \in {"qr", "pair"} => c.id = Q!Selected
                       /\ \A r \in qRun : r.id = Q!Selected
<1>1. Q!Selected \in QIds \cup {None}
  BY AsBefore, SelectedIs DEF Q!Selected, PageStates
<1>2. Q!Selected # None
  BY DEF SessionPageIInv, PanelSound
<1>3. qPanel \in PanelStates /\ qRun \subseteq Runs
  BY DEF SessionPageIInv, SessionPageTyped
<1> QED
  BY <1>1, <1>2, <1>3 DEF SessionPageIInv, SessionPageOfSelected, Runs

LEMMA AsksKeep ==
  ASSUME SessionPageAssumption, SessionPageIInv, Q!LoadQr \/ Q!RequestPairingCode
  PROVE  SessionPageIInv'
<1>1. PICK op \in {"qr", "pair"} :
        /\ qPanel # None /\ qCall' = qCall \cup {Q!NewCall(op, Q!Selected, None)}
        /\ qPanel' = [qPanel EXCEPT !.asking = @ \/ op = "qr", !.pairing = IF op = "pair" THEN None ELSE @]
        /\ UNCHANGED <<Q!Kept, qRun>>
  <2>1. CASE Q!LoadQr
    <3>1. qPanel # None /\ qPanel \in PanelStates
      BY <2>1, PanelAsBefore DEF Q!LoadQr
    <3>2. [qPanel EXCEPT !.asking = TRUE]
             = [qPanel EXCEPT !.asking = @ \/ "qr" = "qr", !.pairing = IF "qr" = "pair" THEN None ELSE @]
      BY <3>1 DEF PanelStates
    <3> QED
      BY <2>1, <3>1, <3>2 DEF Q!LoadQr
  <2>2. CASE Q!RequestPairingCode
    <3>1. qPanel # None /\ qPanel \in PanelStates
      BY <2>2, PanelAsBefore DEF Q!RequestPairingCode
    <3>2. [qPanel EXCEPT !.pairing = None]
             = [qPanel EXCEPT !.asking = @ \/ "pair" = "qr", !.pairing = IF "pair" = "pair" THEN None ELSE @]
      BY <3>1 DEF PanelStates
    <3> QED
      BY <2>2, <3>1, <3>2 DEF Q!RequestPairingCode
  <2> QED
    BY <2>1, <2>2
<1>2. PICK new : new = Q!NewCall(op, Q!Selected, None)
  OBVIOUS
<1>3. IsCall(new) /\ new.op = op /\ new.id = Q!Selected
  BY <1>1, <1>2, SessionPageCallIs, PanelAsBefore
<1>4. qPanel \in PanelStates
  BY <1>1, PanelAsBefore
<1>5. /\ qPanel' \in PanelStates /\ qPanel'.linked = qPanel.linked /\ qPanel'.qr = qPanel.qr /\ qPanel'.live = qPanel.live
      /\ qPanel'.pairing \in {None, qPanel.pairing} /\ (qPanel'.asking => qPanel.asking \/ op = "qr")
  BY <1>1, <1>4 DEF PanelStates
<1>6. qCall' = qCall \cup {new} /\ qRun' = qRun /\ UNCHANGED Q!Kept
  BY <1>1, <1>2
<1>7. qPanel'.asking => \E c \in qCall' : c.op = "qr"
  BY <1>1, <1>3, <1>5, <1>6 DEF SessionPageIInv, Asking
<1>8. ~qMoved => /\ qPanel'.qr \in {None, Q!Selected} /\ qPanel'.pairing \in {None, Q!Selected}
                 /\ qPanel'.live # None => qPanel'.live.of = Q!Selected
  BY <1>1, <1>5, PanelAsBefore
<1>9. /\ \A c \in qCall' : IsCall(c)
      /\ \A c : c.op \notin {"qr", "pair"} => (c \in qCall' <=> c \in qCall)
      /\ \A c \in qCall' : c.op \in {"qr", "pair"} => c \in qCall \/ c.id = Q!Selected
  BY <1>3, <1>6, AsBefore
<1>10. /\ qRun' \subseteq Runs /\ \A r, q \in qRun' : r.id = q.id => r = q
       /\ \A r \in qRun' : \E q \in qRun : q.id = r.id
  BY <1>1, <1>6, PanelAsBefore DEF SessionPageIInv, RunsSound
<1> QED
  BY <1>1, <1>5, <1>6, <1>7, <1>8, <1>9, <1>10, PanelKeeps

LEMMA CodesKeep ==
  ASSUME SessionPageAssumption, SessionPageIInv, NEW c \in qCall, NEW ready \in BOOLEAN, Q!AnswerQr(c, ready) \/ Q!AnswerPairing(c, ready)
  PROVE  SessionPageIInv'
<1>1. c.op \in {"qr", "pair"} /\ qCall' = qCall \ {c} /\ UNCHANGED <<Q!Kept, qRun>> /\ qPanel # None /\ c.id \in QIds \cup {None}
  BY AsBefore DEF Q!AnswerQr, Q!AnswerPairing, Q!Answered, SessionPageIInv, PanelSound, IsCall
<1>2. qPanel \in PanelStates
  BY <1>1, PanelAsBefore
<1>3. /\ qPanel' \in PanelStates /\ qPanel'.linked = qPanel.linked /\ qPanel'.live = qPanel.live
      /\ qPanel'.qr \in {qPanel.qr, c.id} /\ qPanel'.pairing \in {None, qPanel.pairing, c.id}
      /\ qPanel'.asking => qPanel.asking /\ c.op = "pair"
  <2>1. CASE Q!AnswerQr(c, ready)
    BY <1>1, <1>2, <2>1 DEF Q!AnswerQr, PanelStates
  <2>2. CASE Q!AnswerPairing(c, ready)
    BY <1>1, <1>2, <2>2 DEF Q!AnswerPairing, PanelStates
  <2> QED
    BY <2>1, <2>2
<1>4. ~qMoved => /\ qPanel'.qr \in {None, Q!Selected} /\ qPanel'.pairing \in {None, Q!Selected}
                 /\ qPanel'.live # None => qPanel'.live.of = Q!Selected
  BY <1>1, <1>3, PanelAsBefore
<1>5. qPanel'.asking => \E d \in qCall' : d.op = "qr"
  BY <1>1, <1>3 DEF SessionPageIInv, Asking
<1>6. /\ \A d \in qCall' : IsCall(d)
      /\ \A d : d.op \notin {"qr", "pair"} => (d \in qCall' <=> d \in qCall)
      /\ \A d \in qCall' : d.op \in {"qr", "pair"} => d \in qCall \/ d.id = Q!Selected
  BY <1>1, AsBefore
<1>7. /\ qRun' \subseteq Runs /\ \A r, q \in qRun' : r.id = q.id => r = q
      /\ \A r \in qRun' : \E q \in qRun : q.id = r.id
  BY <1>1, PanelAsBefore DEF SessionPageIInv, RunsSound
<1> QED
  BY <1>1, <1>3, <1>4, <1>5, <1>6, <1>7, PanelKeeps

(* A run of the linking goes on, or ends, and may show a status.             *)
LEMMA RunGoesOn ==
  ASSUME SessionPageAssumption, SessionPageIInv, NEW r \in qRun, NEW next \in Runs, next.id = r.id,
         qRun' = qRun \ {r} \/ qRun' = (qRun \ {r}) \cup {next},
         NEW status \in {"start_failed", "linking_timeout", "scan", "working", "starting"}, NEW asks \in BOOLEAN,
         qPanel' = qPanel \/ qPanel' = [qPanel EXCEPT !.live = Q!Live(r.id, status), !.asking = @ \/ asks],
         qCall' = qCall \cup IF asks THEN {Q!NewCall("qr", Q!Selected, None)} ELSE {}, UNCHANGED Q!Kept
  PROVE  SessionPageIInv'
<1>1. qPanel # None
  BY DEF SessionPageIInv, RunsSound
<1>2. qPanel \in PanelStates /\ Q!Selected \in QIds /\ r.id \in QIds /\ qRun \subseteq Runs
  BY <1>1, PanelAsBefore
<1>3. PICK live : live = Q!Live(r.id, status)
  OBVIOUS
<1>4. live \in Lives /\ live.of = r.id
  BY <1>2, <1>3 DEF Q!Live, Lives
<1>5. PICK new : new = Q!NewCall("qr", Q!Selected, None)
  OBVIOUS
<1>6. IsCall(new) /\ new.op = "qr" /\ new.id = Q!Selected
  BY <1>2, <1>5, SessionPageCallIs
<1>7. (asks => qCall' = qCall \cup {new}) /\ (~asks => qCall' = qCall)
  BY <1>5
<1>8. /\ qPanel' \in PanelStates /\ qPanel'.linked = qPanel.linked /\ qPanel'.qr = qPanel.qr
      /\ qPanel'.pairing = qPanel.pairing /\ (qPanel'.live = qPanel.live \/ qPanel'.live = live)
      /\ qPanel'.asking => qPanel.asking \/ asks
  <2>1. CASE qPanel' = qPanel
    BY <1>2, <2>1
  <2>2. CASE qPanel' = [qPanel EXCEPT !.live = Q!Live(r.id, status), !.asking = @ \/ asks]
    BY <1>2, <1>3, <1>4, <2>2 DEF PanelStates
  <2> QED
    BY <2>1, <2>2
<1>9. ~qMoved => /\ qPanel'.qr \in {None, Q!Selected} /\ qPanel'.pairing \in {None, Q!Selected}
                 /\ qPanel'.live # None => qPanel'.live.of = Q!Selected
  BY <1>1, <1>4, <1>8, PanelAsBefore
<1>10. qPanel'.asking => \E d \in qCall' : d.op = "qr"
  <2>1. CASE asks
    BY <1>6, <1>7, <2>1
  <2>2. CASE ~asks
    BY <1>1, <1>7, <1>8, <2>2 DEF SessionPageIInv, Asking
  <2> QED
    BY <2>1, <2>2
<1>11. /\ \A d \in qCall' : IsCall(d)
       /\ \A d : d.op \notin {"qr", "pair"} => (d \in qCall' <=> d \in qCall)
       /\ \A d \in qCall' : d.op \in {"qr", "pair"} => d \in qCall \/ d.id = Q!Selected
  BY <1>6, <1>7, AsBefore
<1>12. /\ qRun' \subseteq Runs /\ \A p, q \in qRun' : p.id = q.id => p = q
       /\ \A p \in qRun' : \E q \in qRun : q.id = p.id
  BY <1>2 DEF SessionPageIInv, RunsSound
<1> QED
  BY <1>1, <1>8, <1>9, <1>10, <1>11, <1>12, PanelKeeps

LEMMA RunsKeep ==
  ASSUME SessionPageAssumption, SessionPageIInv, NEW r \in qRun,
         \/ \E ready \in BOOLEAN : Q!AnswerStart(r, ready)
         \/ Q!Poll(r)
         \/ \E status \in {"scan", "working", "starting"} : Q!AnswerPoll(r, status)
  PROVE  SessionPageIInv'
<1>1. r \in Runs /\ qPanel # None /\ qPanel \in PanelStates
  BY PanelAsBefore DEF SessionPageIInv, RunsSound, SessionPageTyped
<1>2. PICK next : next = IF r.step = "wait" /\ r.polls < QMaxPolls THEN [r EXCEPT !.step = "asked", !.polls = @ + 1]
                         ELSE [r EXCEPT !.step = "wait"]
  OBVIOUS
<1>3. next \in Runs /\ next.id = r.id
  <2>1. QMaxPolls \in Nat /\ r.polls \in 0..QMaxPolls
    BY <1>1 DEF Runs, SessionPageAssumption
  <2>2. CASE r.step = "wait" /\ r.polls < QMaxPolls
    <3>1. r.polls + 1 \in 0..QMaxPolls
      BY <2>1, <2>2
    <3>2. next = [r EXCEPT !.step = "asked", !.polls = r.polls + 1]
      BY <1>2, <2>2
    <3> QED
      BY <1>1, <3>1, <3>2 DEF Runs
  <2>3. CASE ~(r.step = "wait" /\ r.polls < QMaxPolls)
    BY <1>1, <1>2, <2>3 DEF Runs
  <2> QED
    BY <2>2, <2>3
<1>4. \A live : [qPanel EXCEPT !.live = live] = [qPanel EXCEPT !.live = live, !.asking = @ \/ FALSE]
  BY <1>1 DEF PanelStates
<1>5. ASSUME NEW ready \in BOOLEAN, Q!AnswerStart(r, ready)
      PROVE  SessionPageIInv'
  <2>1. qRun' = qRun \ {r} \/ qRun' = (qRun \ {r}) \cup {next}
    BY <1>2, <1>5 DEF Q!AnswerStart
  <2>2. qPanel' = qPanel \/ qPanel' = [qPanel EXCEPT !.live = Q!Live(r.id, "start_failed"), !.asking = @ \/ FALSE]
    BY <1>4, <1>5 DEF Q!AnswerStart
  <2>3. UNCHANGED Q!Kept /\ qCall' = qCall \cup IF FALSE THEN {Q!NewCall("qr", Q!Selected, None)} ELSE {}
    BY <1>5 DEF Q!AnswerStart
  <2> QED
    BY <1>3, <2>1, <2>2, <2>3, RunGoesOn
<1>6. CASE Q!Poll(r)
  <2>1. qRun' = qRun \ {r} \/ qRun' = (qRun \ {r}) \cup {next}
    BY <1>2, <1>6 DEF Q!Poll
  <2>2. qPanel' = qPanel \/ qPanel' = [qPanel EXCEPT !.live = Q!Live(r.id, "linking_timeout"), !.asking = @ \/ FALSE]
    BY <1>4, <1>6 DEF Q!Poll
  <2>3. UNCHANGED Q!Kept /\ qCall' = qCall \cup IF FALSE THEN {Q!NewCall("qr", Q!Selected, None)} ELSE {}
    BY <1>6 DEF Q!Poll
  <2> QED
    BY <1>3, <2>1, <2>2, <2>3, RunGoesOn
<1>7. ASSUME NEW status \in {"scan", "working", "starting"}, Q!AnswerPoll(r, status)
      PROVE  SessionPageIInv'
  <2>1. qRun' = qRun \ {r} \/ qRun' = (qRun \ {r}) \cup {next}
    BY <1>2, <1>7 DEF Q!AnswerPoll
  <2>2. PICK asks \in BOOLEAN : asks = (status = "scan")
    <3>1. (status = "scan") \in BOOLEAN
      OBVIOUS
    <3> QED
      BY <3>1
  <2>3. qPanel' = [qPanel EXCEPT !.live = Q!Live(r.id, status), !.asking = @ \/ asks]
    BY <1>7, <2>2 DEF Q!AnswerPoll
  <2>4. UNCHANGED Q!Kept /\ qCall' = qCall \cup IF asks THEN {Q!NewCall("qr", Q!Selected, None)} ELSE {}
    BY <1>7, <2>2 DEF Q!AnswerPoll
  <2> QED
    BY <1>3, <2>1, <2>3, <2>4, RunGoesOn
<1> QED
  BY <1>5, <1>6, <1>7

LEMMA NextSessionPage ==
  ASSUME SessionPageAssumption, SessionPageIInv, [Q!Next]_Q!vars
  PROVE  SessionPageIInv'
<1>1. CASE UNCHANGED Q!vars
  <2>1. Q!Selected' = Q!Selected
    BY <1>1 DEF Q!vars, Q!Selected
  <2>2. SessionPageTyped' /\ LinksSound' /\ PanelSound'
    BY <1>1, <2>1 DEF Q!vars, SessionPageIInv, SessionPageTyped, Q!TypeOK, LinksSound, Linked, PanelSound
  <2>3. RunsSound' /\ StartsSound' /\ SessionPageOfSelected' /\ SessionPageSingle' /\ Asking'
    BY <1>1, <2>1 DEF Q!vars, SessionPageIInv, RunsSound, StartsSound, SessionPageOfSelected, SessionPageSingle, Asking
  <2> QED
    BY <2>2, <2>3 DEF SessionPageIInv
<1>2. CASE \E id \in QIds : Q!Choose(id)
  BY <1>2, SessionPageChooseKeeps
<1>3. CASE Q!Confirm \/ Q!Leave \/ Q!Return \/ Q!Create \/ Q!LoadQr \/ Q!RequestPairingCode \/ \E deed \in QDeeds : Q!RunLifecycle(deed)
  BY <1>3, ConfirmKeeps, LeaveKeeps, ReturnKeeps, CreateKeeps, AsksKeep, RunLifecycleKeeps
<1>4. ASSUME NEW c \in qCall, NEW kind \in {"ready", "error"}, NEW done \in BOOLEAN,
             Q!AnswerLifecycle(c, kind, done) \/ Q!AnswerCreate(c, kind, done)
      PROVE  SessionPageIInv'
  BY <1>4, AnswerLifecycleKeeps, AnswerCreateKeeps
<1>5. ASSUME NEW c \in qCall, (\E status \in [QIds -> Q!Statuses] : Q!ServeList(c, status)) \/ Q!AnswerList(c) \/ Q!LoseList(c)
      PROVE  SessionPageIInv'
  BY <1>5, ServeListKeeps, ListsKeep
<1>6. ASSUME NEW c \in qCall, NEW ready \in BOOLEAN, Q!AnswerQr(c, ready) \/ Q!AnswerPairing(c, ready)
      PROVE  SessionPageIInv'
  BY <1>6, CodesKeep
<1>7. ASSUME NEW r \in qRun,
             \/ \E ready \in BOOLEAN : Q!AnswerStart(r, ready)
             \/ Q!Poll(r)
             \/ \E status \in {"scan", "working", "starting"} : Q!AnswerPoll(r, status)
      PROVE  SessionPageIInv'
  BY <1>7, RunsKeep
<1> QED
  BY <1>1, <1>2, <1>3, <1>4, <1>5, <1>6, <1>7 DEF Q!Next

LEMMA SessionPageSuffices ==
  ASSUME SessionPageAssumption, SessionPageIInv
  PROVE  Q!SessionPageInv
<1>1. Q!PanelOfSession
  BY DEF SessionPageIInv, SessionPageOfSelected, Q!PanelOfSession
<1>2. Q!StartedOncePerPanel
  <2>1. \A i \in QIds : i > Q!Cardinality(QKnown) => i \notin QKnown
    <3>1. SUFFICES ASSUME NEW i \in QIds, i \in QKnown PROVE ~(i > Q!Cardinality(QKnown))
      OBVIOUS
    <3> QED
      BY <3>1, IdsCounted
  <2> QED
    BY <2>1 DEF SessionPageIInv, StartsSound, Q!StartedOncePerPanel
<1>3. Q!PolledOne
  <2>1. \A r, q \in {p \in qRun : p.id = qPanel.linked} : r = q
    BY DEF SessionPageIInv, RunsSound
  <2>2. {p \in qRun : p.id = qPanel.linked} = {} \/ \E r : {p \in qRun : p.id = qPanel.linked} = {r}
    BY <2>1
  <2>3. \/ Q!Cardinality({p \in qRun : p.id = qPanel.linked}) = 0
        \/ Q!Cardinality({p \in qRun : p.id = qPanel.linked}) = 1
    BY <2>2, FS_EmptySet, FS_Singleton, QCardinality
  <2>4. Q!Cardinality({p \in qRun : p.id = qPanel.linked}) <= 1
    BY <2>3
  <2> QED
    BY <2>4 DEF SessionPageIInv, RunsSound, Q!PolledOne
<1>4. Q!NoLostSpinner
  BY DEF SessionPageIInv, SessionPageSingle, Asking, Q!NoLostSpinner, Q!Underway
<1> QED
  BY <1>1, <1>2, <1>3, <1>4 DEF SessionPageIInv, SessionPageTyped, Q!SessionPageInv

(* However sessions are linked, chosen, lost and shown again while lists,    *)
(* starts, polls and codes come late: a panel that showed one session shows  *)
(* what is that session's, a session is started only if it was linked on the *)
(* page and once for each panel, one run polls it, and nothing waits in vain *)
(* (session-connect-panel.tsx, session-auto-link.ts).                        *)
THEOREM SessionPageHolds ==
  ASSUME SessionPageAssumption
  PROVE  Q!Spec => []Q!SessionPageInv
<1>1. Q!Init => SessionPageIInv
  BY InitSessionPage
<1>2. SessionPageIInv /\ [Q!Next]_Q!vars => SessionPageIInv'
  BY NextSessionPage
<1>3. SessionPageIInv => Q!SessionPageInv
  BY SessionPageSuffices
<1> QED
  BY <1>1, <1>2, <1>3, PTL DEF Q!Spec

-----------------------------------------------------------------------------
(* UserAccess *)

(* The cardinality is the library's. *)
LEMMA WCardinality == \A set : W!Cardinality(set) = Cardinality(set)
BY DEF W!Cardinality, Cardinality

Row == [active : BOOLEAN, granted : BOOLEAN]
RowSets == [WUsers -> Row \cup {None}]
Modals == [kind : WOps, user : WUsers \cup {None}, sent : BOOLEAN]
Changes == [user : WUsers \cup {None}, verdict : {None, "ready", "error"}, here : BOOLEAN]
Lists == [step : {"users", "grants", "served"}, rows : RowSets, late : BOOLEAN]

UserAccessAssumption ==
  /\ WUsers = 1..W!Cardinality(WUsers) /\ IsFiniteSet(WUsers) /\ WUsers # {}
  /\ WPageSize \in Nat \ {0} /\ WOps \subseteq {"create", "grant", "reset", "disable", "enable"}
  /\ None \notin Row /\ None \notin Modals /\ None \notin Changes

UserAccessTyped ==
  /\ wStored \in RowSets
  /\ wUsers \in [kind : {"loading", "ready", "error"}, rows : RowSets]
  /\ wFilter \in [status : W!Filters, page : 1..W!Cardinality(WUsers)]
  /\ wMenus \subseteq WUsers /\ wModal \in Modals \cup {None}
  /\ wAction \in [WOps -> {"idle", "submitting", "ready", "error"}]
  /\ wCall \in [WOps -> Changes \cup {None}]
  /\ wLists \in Seq(Lists)
  /\ wOthers \in BOOLEAN /\ wKeyed \in BOOLEAN /\ wOvertaken \in BOOLEAN /\ wUnseen \in BOOLEAN

(* Whoever is listed, or chosen from the list, is stored.                    *)
Listed(rows) == \A u \in WUsers : rows[u] # None => wStored[u] # None
KnownUsers ==
  /\ Listed(wUsers.rows) /\ \A k \in 1..Len(wLists) : Listed(wLists[k].rows)
  /\ \A u \in wMenus : wUsers.rows[u] # None
  /\ wModal # None /\ wModal.kind # "create" => wModal.user \in WUsers /\ wStored[wModal.user] # None
  /\ \A o \in WOps \ {"create"} : wCall[o] # None => wCall[o].user \in WUsers /\ wStored[wCall[o].user] # None

(* As long as nothing changed since the youngest list was asked for, that    *)
(* list is true; and once it is shown, so is the table, until a late list.   *)
WithoutGrants == [u \in WUsers |-> IF wStored[u] = None THEN None ELSE [wStored[u] EXCEPT !.granted = FALSE]]
LateFirst == \A i, j \in 1..Len(wLists) : i < j /\ wLists[j].late => wLists[i].late
YoungestTrue ==
  ~wUnseen => \A k \in 1..Len(wLists) : k = Len(wLists) /\ ~wLists[k].late =>
    /\ wLists[k].step = "grants" => wLists[k].rows = WithoutGrants
    /\ wLists[k].step = "served" => wLists[k].rows = wStored
ShownTrue ==
  ~wUnseen /\ (\A k \in 1..Len(wLists) : wLists[k].late) /\ ~wOvertaken /\ wUsers.kind = "ready" => wUsers.rows = wStored

Slots == \A o \in WOps : wAction[o] = "submitting" <=> wCall[o] # None
SentHere == wModal # None /\ wModal.sent => wCall[wModal.kind] # None /\ wCall[wModal.kind].here
NeverSelf ==
  /\ wModal # None /\ wModal.kind \in {"disable", "enable"} => wModal.user # WSelf
  /\ \A o \in WOps \cap {"disable", "enable"} : wCall[o] # None => wCall[o].user # WSelf

(* A menu opens while no change is under way, and a modal takes its place.   *)
ByPointer ==
  ~wKeyed =>
    /\ wMenus # {} => wModal = None /\ \A o \in WOps : wAction[o] # "submitting"
    /\ wModal # None /\ wModal.kind # "create" /\ ~wModal.sent =>
         \A o \in WOps \ {"create"} : wAction[o] # "submitting"
    /\ \A o, p \in WOps \ {"create"} : wAction[o] = "submitting" /\ wAction[p] = "submitting" => o = p

UserAccessIInv ==
  /\ UserAccessTyped /\ KnownUsers /\ LateFirst /\ YoungestTrue /\ ShownTrue
  /\ Slots /\ SentHere /\ NeverSelf /\ ByPointer

-----------------------------------------------------------------------------
Rank(S, u) == W!Cardinality({v \in S : v < u})
LEMMA OfEveryRank ==
  ASSUME NEW N \in Nat, NEW S, S \subseteq 1..N, NEW r \in Nat, r < W!Cardinality(S)
  PROVE  \E u \in S : Rank(S, u) = r
<1> DEFINE Below(n) == {v \in S : v <= n}
<1> DEFINE T == {n \in Nat : W!Cardinality(Below(n)) > r}
<1>0. \A v \in S : v \in Nat /\ v >= 1 /\ v <= N
  OBVIOUS
<1>1. IsFiniteSet(S)
  <2>1. IsFiniteSet(1..N)
    BY FS_Interval
  <2> QED
    BY <2>1, FS_Subset, WCardinality
<1>2. \A n : IsFiniteSet(Below(n)) /\ W!Cardinality(Below(n)) \in Nat
  <2>1. \A n : Below(n) \subseteq S
    OBVIOUS
  <2> QED
    BY <1>1, <2>1, FS_Subset, FS_CardinalityType, WCardinality
<1>3. N \in T
  <2>1. Below(N) = S
    BY <1>0
  <2> QED
    BY <1>1, <2>1, FS_CardinalityType, WCardinality
<1>4. PICK n \in T : \A m \in T : n <= m
  <2>1. T \subseteq Nat /\ T # {}
    BY <1>3
  <2> HIDE DEF T
  <2> QED
    BY <2>1, LeastOf
<1>5. n \in Nat /\ W!Cardinality(Below(n)) > r
  OBVIOUS
<1>6. n # 0
  <2>0. \A v \in S : ~(v <= 0)
    BY <1>0
  <2>1. Below(0) = {}
    BY <2>0
  <2>2. W!Cardinality(Below(0)) = 0
    BY <2>1, FS_EmptySet, WCardinality
  <2> QED
    BY <1>5, <2>2
<1>7. n - 1 \in Nat /\ W!Cardinality(Below(n - 1)) <= r
  <2>1. n - 1 \in Nat /\ ~(n <= n - 1)
    BY <1>5, <1>6
  <2>2. n - 1 \notin T
    BY <1>4, <2>1
  <2>3. PICK b \in Nat : b = W!Cardinality(Below(n - 1))
    BY <1>2
  <2>4. ~(b > r)
    BY <2>1, <2>2, <2>3
  <2> QED
    BY <2>1, <2>3, <2>4
<1>8. {v \in S : v < n} = Below(n - 1) /\ n \notin Below(n - 1)
  <2>1. \A v \in S : v < n <=> v <= n - 1
    BY <1>0, <1>5
  <2>2. ~(n <= n - 1)
    BY <1>5
  <2> QED
    BY <2>1, <2>2
<1>9. n \in S
  <2>1. SUFFICES ASSUME n \notin S PROVE FALSE
    OBVIOUS
  <2>2. \A v \in S : v <= n <=> v <= n - 1
    <3> SUFFICES ASSUME NEW v \in S PROVE v <= n <=> v <= n - 1
      OBVIOUS
    <3>1. v \in Nat /\ v # n
      BY <1>0, <2>1
    <3> QED
      BY <1>5, <3>1
  <2>3. Below(n) = Below(n - 1)
    BY <2>2
  <2>4. W!Cardinality(Below(n)) = W!Cardinality(Below(n - 1)) /\ W!Cardinality(Below(n)) \in Nat
    BY <1>2, <2>3
  <2> QED
    BY <1>5, <1>7, <2>4
<1>10. Below(n) = Below(n - 1) \cup {n}
  <2>1. \A v \in S : v <= n <=> (v <= n - 1 \/ v = n)
    <3> SUFFICES ASSUME NEW v \in S PROVE v <= n <=> (v <= n - 1 \/ v = n)
      OBVIOUS
    <3>1. v \in Nat
      BY <1>0
    <3> QED
      BY <1>5, <3>1
  <2>2. n <= n
    BY <1>5
  <2> QED
    BY <1>9, <2>1, <2>2
<1>11. W!Cardinality(Below(n)) = W!Cardinality(Below(n - 1)) + 1
  <2>1. PICK B : B = Below(n - 1) /\ IsFiniteSet(B) /\ n \notin B /\ Below(n) = B \cup {n}
    BY <1>2, <1>8, <1>10
  <2>2. W!Cardinality(B \cup {n}) = W!Cardinality(B) + 1
    BY <2>1, FS_AddElement, WCardinality
  <2> QED
    BY <2>1, <2>2
<1>12. W!Cardinality(Below(n - 1)) = r
  <2>1. PICK b \in Nat : b = W!Cardinality(Below(n - 1))
    BY <1>2
  <2>2. b + 1 > r /\ b <= r
    BY <1>5, <1>7, <1>11, <2>1
  <2> QED
    BY <2>1, <2>2
<1> QED
  BY <1>8, <1>9, <1>12 DEF Rank

LEMMA UsersCounted ==
  ASSUME UserAccessAssumption
  PROVE  /\ W!Cardinality(WUsers) \in Nat /\ W!Cardinality(WUsers) >= 1 /\ WUsers = 1..W!Cardinality(WUsers)
         /\ \A S \in SUBSET WUsers : W!Cardinality(S) \in Nat /\ W!Cardinality(S) <= W!Cardinality(WUsers)
                                     /\ (S # {} => W!Cardinality(S) >= 1)
<1>1. W!Cardinality(WUsers) \in Nat /\ W!Cardinality(WUsers) # 0
  BY FS_CardinalityType, FS_EmptySet, WCardinality DEF UserAccessAssumption
<1>2. \A S \in SUBSET WUsers : IsFiniteSet(S) /\ W!Cardinality(S) <= W!Cardinality(WUsers)
  BY FS_Subset, WCardinality DEF UserAccessAssumption
<1>3. \A S \in SUBSET WUsers : W!Cardinality(S) \in Nat /\ (S # {} => W!Cardinality(S) # 0)
  BY <1>2, FS_CardinalityType, FS_EmptySet, WCardinality
<1> QED
  BY <1>1, <1>2, <1>3 DEF UserAccessAssumption

(* Pages.                                                                    *)
LEMMA Division ==
  ASSUME NEW a \in Nat, NEW b \in Nat \ {0}
  PROVE  a \div b \in Nat /\ (a \div b) * b <= a /\ a < (a \div b) * b + b
OBVIOUS

LEMMA PagesCounted ==
  ASSUME UserAccessAssumption, NEW n \in Nat
  PROVE  /\ W!PageCount(n) \in Nat /\ W!PageCount(n) >= 1
         /\ n >= 1 => W!PageCount(n) <= n
         /\ n = 0 => W!PageCount(n) = 1
         /\ n >= 1 => (W!PageCount(n) - 1) * WPageSize < n
<1>1. PICK s \in Nat \ {0} : s = WPageSize
  BY DEF UserAccessAssumption
<1>2. PICK a \in Nat : a = n + s - 1
  OBVIOUS
<1>3. PICK q \in Nat : q = a \div s /\ q * s <= a /\ a < q * s + s
  BY Division
<1>4. W!PageCount(n) = IF 1 > q THEN 1 ELSE q
  BY <1>1, <1>2, <1>3 DEF W!PageCount, W!Most
<1>5. CASE n = 0
  <2>1. q = 0
    <3>1. a < s
      BY <1>2, <1>5
    <3>2. q >= 1 => q * s >= s
      OBVIOUS
    <3> QED
      BY <1>3, <3>1, <3>2
  <2> QED
    BY <1>4, <1>5, <2>1
<1>6. CASE n >= 1
  <2>1. q >= 1
    <3>1. q = 0 => q * s = 0
      OBVIOUS
    <3> QED
      BY <1>2, <1>3, <1>6, <3>1
  <2>2. (q - 1) * s = q * s - s
    OBVIOUS
  <2>3. (q - 1) * s < n
    <3>1. (q - 1) * s \in Int /\ q * s \in Int
      OBVIOUS
    <3> QED
      BY <1>2, <1>3, <2>2, <3>1
  <2>4. q <= n
    <3>1. (q - 1) * s >= q - 1
      BY <2>1
    <3> QED
      BY <2>3, <3>1
  <2> QED
    BY <1>1, <1>4, <1>6, <2>1, <2>3, <2>4
<1> QED
  BY <1>5, <1>6

LEMMA SafePageIs ==
  ASSUME UserAccessAssumption, NEW n \in Nat, NEW f, f.page \in Nat \ {0}
  PROVE  W!SafePage(f, n) \in 1..W!PageCount(n)
BY PagesCounted DEF W!SafePage, W!Least

LEMMA FilteredIs ==
  ASSUME UserAccessAssumption, NEW rows, NEW f
  PROVE  /\ W!Filtered(rows, f) \subseteq WUsers /\ W!Cardinality(W!Filtered(rows, f)) \in Nat
         /\ W!Cardinality(W!Filtered(rows, f)) <= W!Cardinality(WUsers)
         /\ W!Filtered(rows, f) # {} => W!Cardinality(W!Filtered(rows, f)) >= 1
         /\ \A u \in W!Filtered(rows, f) : rows[u] # None
         /\ W!Paged(rows, f) \subseteq W!Filtered(rows, f)
<1>1. W!Filtered(rows, f) \subseteq WUsers /\ \A u \in W!Filtered(rows, f) : rows[u] # None
  BY DEF W!Filtered, W!Passes
<1>2. W!Paged(rows, f) \subseteq W!Filtered(rows, f)
  BY DEF W!Paged
<1> QED
  BY <1>1, <1>2, UsersCounted

LEMMA PagesNeverEmpty ==
  ASSUME UserAccessAssumption, NEW rows, NEW f, f.page \in Nat \ {0}, W!Filtered(rows, f) # {}
  PROVE  W!Paged(rows, f) # {}
<1>1. PICK s : s = W!Filtered(rows, f)
  OBVIOUS
<1>2. PICK m \in Nat : m = W!Cardinality(s) /\ m >= 1
  BY <1>1, FilteredIs
<1>3. PICK p : p = W!SafePage(f, m)
  OBVIOUS
<1>4. p \in Nat /\ p >= 1 /\ p <= W!PageCount(m) /\ W!PageCount(m) \in Nat /\ (W!PageCount(m) - 1) * WPageSize < m
  BY <1>2, <1>3, SafePageIs, PagesCounted
<1>5. PICK z \in Nat \ {0} : z = WPageSize
  BY DEF UserAccessAssumption
<1>6. PICK r \in Nat : r = (p - 1) * z /\ r < m /\ r \div z = p - 1
  <2>1. PICK b \in Nat : b = p - 1
    BY <1>4
  <2>2. PICK c \in Nat : c = W!PageCount(m) - 1 /\ b <= c
    BY <1>4, <2>1
  <2>3. b * z <= c * z /\ b * z \in Nat /\ c * z \in Nat
    BY <2>2
  <2>4. c * z < m
    BY <1>4, <1>5, <2>2
  <2>5. (b * z) \div z = b
    OBVIOUS
  <2> QED
    BY <2>1, <2>3, <2>4, <2>5
<1>7. PICK N \in Nat : N = W!Cardinality(WUsers) /\ WUsers = 1..N
  BY UsersCounted
<1>8. PICK u \in s : Rank(s, u) = r
  <2>1. s \subseteq 1..N
    BY <1>1, <1>7, FilteredIs
  <2>2. r < W!Cardinality(s)
    BY <1>2, <1>6
  <2> QED
    BY <2>1, <2>2, OfEveryRank
<1>9. u \in W!Paged(rows, f)
  BY <1>1, <1>2, <1>3, <1>5, <1>6, <1>8 DEF W!Paged, Rank
<1> QED
  BY <1>9

-----------------------------------------------------------------------------
(* The kinds of the values.                                                  *)
LEMMA Kinds ==
  ASSUME UserAccessAssumption, UserAccessTyped
  PROVE  /\ \A u \in WUsers : wStored[u] # None => wStored[u] \in Row
         /\ wModal # None => wModal \in Modals
         /\ \A o \in WOps : wCall[o] # None => wCall[o] \in Changes
         /\ \A k \in 1..Len(wLists) : wLists[k] \in Lists
         /\ wUsers.rows \in RowSets
BY DEF UserAccessTyped, RowSets

LEMMA Rows ==
  ASSUME UserAccessAssumption, NEW r \in Row, NEW b \in BOOLEAN
  PROVE  /\ [r EXCEPT !.granted = b] \in Row /\ [r EXCEPT !.granted = b] # None
         /\ [r EXCEPT !.active = b] \in Row /\ [r EXCEPT !.active = b] # None
<1>1. [r EXCEPT !.granted = b] \in Row /\ [r EXCEPT !.active = b] \in Row
  BY DEF Row
<1> QED
  BY <1>1 DEF UserAccessAssumption

LEMMA ChangedIs ==
  ASSUME UserAccessAssumption, wStored \in RowSets, NEW op \in WOps, NEW u,
         op # "create" => u \in WUsers /\ wStored[u] # None
  PROVE  /\ W!Changed(op, u) \in RowSets
         /\ \A v \in WUsers : wStored[v] # None => W!Changed(op, u)[v] # None
<1>1. op \in {"create", "grant", "reset", "disable", "enable"}
  BY DEF UserAccessAssumption
<1>2. \A v \in WUsers : wStored[v] # None => wStored[v] \in Row
  BY DEF RowSets
<1>3. CASE op = "create"
  <2> DEFINE free == {x \in WUsers : wStored[x] = None}
  <2> DEFINE first == CHOOSE x \in free : \A y \in free : x <= y
  <2> DEFINE fresh == [active |-> TRUE, granted |-> FALSE]
  <2>1. W!Changed(op, u) = IF free = {} THEN wStored ELSE [wStored EXCEPT ![first] = fresh]
    BY <1>3 DEF W!Changed, W!Created, W!Granted, W!Activated
  <2>2. free # {} => first \in free
    <3>1. free \subseteq Nat
      BY UsersCounted
    <3>2. free # {} => \E x \in free : \A y \in free : x <= y
      BY <3>1, LeastOf
    <3> QED
      BY <3>2
  <2>3. fresh \in Row /\ fresh # None
    <3>1. fresh \in Row
      BY DEF Row
    <3> QED
      BY <3>1 DEF UserAccessAssumption
  <2> HIDE DEF first, fresh
  <2>4. CASE free = {}
    BY <2>1, <2>4
  <2>5. CASE free # {}
    BY <2>1, <2>2, <2>3, <2>5 DEF RowSets
  <2> QED
    BY <2>4, <2>5
<1>4. CASE op = "grant"
  <2>1. PICK r : r = [wStored[u] EXCEPT !.granted = TRUE] /\ r \in Row /\ r # None
    BY <1>2, <1>4, Rows
  <2>2. W!Changed(op, u) = [wStored EXCEPT ![u] = r]
    BY <1>4, <2>1 DEF W!Changed, W!Created, W!Granted, W!Activated
  <2> QED
    BY <2>1, <2>2 DEF RowSets
<1>5. CASE op = "disable"
  <2>1. PICK r : r = [wStored[u] EXCEPT !.active = FALSE] /\ r \in Row /\ r # None
    BY <1>2, <1>5, Rows
  <2>2. W!Changed(op, u) = [wStored EXCEPT ![u] = r]
    BY <1>5, <2>1 DEF W!Changed, W!Created, W!Granted, W!Activated
  <2> QED
    BY <2>1, <2>2 DEF RowSets
<1>6. CASE op = "enable"
  <2>1. PICK r : r = [wStored[u] EXCEPT !.active = TRUE] /\ r \in Row /\ r # None
    BY <1>2, <1>6, Rows
  <2>2. W!Changed(op, u) = [wStored EXCEPT ![u] = r]
    BY <1>6, <2>1 DEF W!Changed, W!Created, W!Granted, W!Activated
  <2> QED
    BY <2>1, <2>2 DEF RowSets
<1>7. CASE op = "reset"
  BY <1>7 DEF W!Changed, W!Created, W!Granted, W!Activated
<1> QED
  BY <1>1, <1>3, <1>4, <1>5, <1>6, <1>7

LEMMA NewListIs ==
  W!NewList \in Lists /\ W!NewList.step = "users" /\ W!NewList.rows = W!Absent /\ ~W!NewList.late
<1>1. W!Absent \in RowSets
  BY DEF W!Absent, RowSets
<1>2. W!NewList = [step |-> "users", rows |-> W!Absent, late |-> FALSE]
  BY DEF W!NewList
<1>3. W!NewList \in Lists
  BY <1>1, <1>2 DEF Lists
<1> QED
  BY <1>2, <1>3

-----------------------------------------------------------------------------
LEMMA InitUserAccess ==
  ASSUME UserAccessAssumption, W!Init
  PROVE  UserAccessIInv
<1>1. [active |-> TRUE, granted |-> FALSE] \in Row
  BY DEF Row
<1>2. wStored \in RowSets
  BY <1>1 DEF W!Init, RowSets
<1>3. W!Absent \in RowSets /\ \A u \in WUsers : W!Absent[u] = None
  BY DEF W!Absent, RowSets
<1>4. PICK n : n = W!NewList /\ n \in Lists /\ n.step = "users" /\ n.rows = W!Absent /\ ~n.late
  BY NewListIs
<1>5. wLists = <<n>> /\ wLists \in Seq(Lists) /\ Len(wLists) = 1 /\ wLists[1] = n
  BY <1>4 DEF W!Init
<1>6. UserAccessTyped
  <2>1. wFilter \in [status : W!Filters, page : 1..W!Cardinality(WUsers)]
    BY UsersCounted DEF W!Init, W!Filters
  <2>2. wUsers \in [kind : {"loading", "ready", "error"}, rows : RowSets]
    BY <1>3 DEF W!Init
  <2> QED
    BY <1>2, <1>5, <2>1, <2>2 DEF W!Init, UserAccessTyped
<1>7. KnownUsers
  BY <1>3, <1>4, <1>5 DEF W!Init, KnownUsers, Listed
<1>8. LateFirst /\ YoungestTrue /\ ShownTrue
  BY <1>4, <1>5 DEF W!Init, LateFirst, YoungestTrue, ShownTrue
<1>9. Slots /\ SentHere /\ NeverSelf /\ ByPointer
  BY DEF W!Init, Slots, SentHere, NeverSelf, ByPointer
<1> QED
  BY <1>6, <1>7, <1>8, <1>9 DEF UserAccessIInv

-----------------------------------------------------------------------------
(* The page by itself: the filter, the menus, the modal.                     *)
LEMMA UserAccessSetFilterKeeps ==
  ASSUME UserAccessAssumption, UserAccessIInv, NEW status \in W!Filters, NEW key \in BOOLEAN, W!SetFilter(status, key)
  PROVE  UserAccessIInv'
<1> USE DEF W!SetFilter, W!Remote, W!Rerendered
<1>1. UserAccessTyped'
  BY UsersCounted DEF UserAccessIInv, UserAccessTyped
<1>2. KnownUsers' /\ ByPointer'
  BY DEF UserAccessIInv, KnownUsers, Listed, ByPointer
<1>3. LateFirst' /\ YoungestTrue' /\ ShownTrue' /\ Slots' /\ SentHere' /\ NeverSelf'
  BY DEF UserAccessIInv, LateFirst, YoungestTrue, WithoutGrants, ShownTrue, Slots, SentHere, NeverSelf
<1> QED
  BY <1>1, <1>2, <1>3 DEF UserAccessIInv

LEMMA TurnPageKeeps ==
  ASSUME UserAccessAssumption, UserAccessIInv, NEW d \in {-1, 1}, NEW key \in BOOLEAN, W!TurnPage(d, key)
  PROVE  UserAccessIInv'
<1> DEFINE n == W!Cardinality(W!Filtered(wUsers.rows, wFilter))
<1> DEFINE to == W!SafePage(wFilter, n) + d
<1>1. /\ to \in 1..W!PageCount(n) /\ wFilter' = [wFilter EXCEPT !.page = to] /\ wMenus' \subseteq wMenus
      /\ UNCHANGED <<wUsers, wModal, wAction, wKeyed, wStored, wCall, wLists, wOthers, wOvertaken, wUnseen>>
  BY DEF W!TurnPage, W!Remote, W!Rerendered
<1>2. n \in Nat /\ n <= W!Cardinality(WUsers)
  BY FilteredIs
<1> HIDE DEF n, to
<1>3. to \in 1..W!Cardinality(WUsers)
  BY <1>1, <1>2, PagesCounted, UsersCounted
<1>4. UserAccessTyped'
  BY <1>1, <1>3 DEF UserAccessIInv, UserAccessTyped
<1>5. KnownUsers' /\ ByPointer'
  BY <1>1 DEF UserAccessIInv, KnownUsers, Listed, ByPointer
<1>6. LateFirst' /\ YoungestTrue' /\ ShownTrue' /\ Slots' /\ SentHere' /\ NeverSelf'
  BY <1>1 DEF UserAccessIInv, LateFirst, YoungestTrue, WithoutGrants, ShownTrue, Slots, SentHere, NeverSelf
<1> QED
  BY <1>4, <1>5, <1>6 DEF UserAccessIInv

LEMMA OpenMenuKeeps ==
  ASSUME UserAccessAssumption, UserAccessIInv, NEW u \in WUsers, NEW key \in BOOLEAN, W!OpenMenu(u, key)
  PROVE  UserAccessIInv'
<1>1. /\ u \in W!Paged(wUsers.rows, wFilter) /\ (\A o \in WOps : wAction[o] # "submitting")
      /\ (~key => wModal = None) /\ wKeyed' = (wKeyed \/ key)
      /\ wMenus' \subseteq wMenus \cup {u}
      /\ UNCHANGED <<wUsers, wFilter, wModal, wAction, wStored, wCall, wLists, wOthers, wOvertaken, wUnseen>>
  BY DEF W!OpenMenu, W!Pointed, W!Reached, W!Remote, W!Busy
<1>2. wUsers.rows[u] # None
  BY <1>1, FilteredIs
<1>3. UserAccessTyped'
  BY <1>1 DEF UserAccessIInv, UserAccessTyped
<1>4. KnownUsers'
  BY <1>1, <1>2 DEF UserAccessIInv, KnownUsers, Listed
<1>5. ByPointer'
  BY <1>1 DEF UserAccessIInv, ByPointer
<1>6. LateFirst' /\ YoungestTrue' /\ ShownTrue' /\ Slots' /\ SentHere' /\ NeverSelf'
  BY <1>1 DEF UserAccessIInv, LateFirst, YoungestTrue, WithoutGrants, ShownTrue, Slots, SentHere, NeverSelf
<1> QED
  BY <1>3, <1>4, <1>5, <1>6 DEF UserAccessIInv

LEMMA CloseMenusKeeps ==
  ASSUME UserAccessAssumption, UserAccessIInv, NEW closed, W!CloseMenus(closed)
  PROVE  UserAccessIInv'
<1> USE DEF W!CloseMenus, W!Remote
<1>1. UserAccessTyped'
  BY DEF UserAccessIInv, UserAccessTyped
<1>2. KnownUsers' /\ ByPointer'
  BY DEF UserAccessIInv, KnownUsers, Listed, ByPointer
<1>3. LateFirst' /\ YoungestTrue' /\ ShownTrue' /\ Slots' /\ SentHere' /\ NeverSelf'
  BY DEF UserAccessIInv, LateFirst, YoungestTrue, WithoutGrants, ShownTrue, Slots, SentHere, NeverSelf
<1> QED
  BY <1>1, <1>2, <1>3 DEF UserAccessIInv

LEMMA UserAccessChooseKeeps ==
  ASSUME UserAccessAssumption, UserAccessIInv, NEW u \in WUsers, NEW op \in WOps, NEW key \in BOOLEAN, W!Choose(u, op, key)
  PROVE  UserAccessIInv'
<1>1. /\ u \in wMenus /\ op \in W!Items(u)
      /\ (~key => wModal = None) /\ wKeyed' = (wKeyed \/ key)
      /\ wMenus' \subseteq wMenus /\ (~key => wMenus' = {})
      /\ wModal' = [kind |-> op, user |-> u, sent |-> FALSE]
      /\ UNCHANGED <<wUsers, wFilter, wAction, wStored, wCall, wLists, wOthers, wOvertaken, wUnseen>>
  BY DEF W!Choose, W!Pointed, W!Reached, W!Remote
<1>2. wModal' \in Modals /\ wModal'.kind = op /\ wModal'.user = u /\ ~wModal'.sent /\ wModal' # None
  <2>1. wModal' \in Modals /\ wModal'.kind = op /\ wModal'.user = u /\ ~wModal'.sent
    BY <1>1 DEF Modals
  <2> QED
    BY <2>1 DEF UserAccessAssumption
<1>3. op # "create" /\ (op \in {"disable", "enable"} => u # WSelf)
  BY <1>1 DEF W!Items
<1>4. wStored[u] # None
  BY <1>1 DEF UserAccessIInv, KnownUsers, Listed
<1>5. UserAccessTyped'
  BY <1>1, <1>2 DEF UserAccessIInv, UserAccessTyped
<1>6. KnownUsers'
  BY <1>1, <1>2, <1>4 DEF UserAccessIInv, KnownUsers, Listed
<1>7. ByPointer'
  BY <1>1, <1>2 DEF UserAccessIInv, ByPointer
<1>8. SentHere' /\ NeverSelf'
  BY <1>1, <1>2, <1>3 DEF UserAccessIInv, SentHere, NeverSelf
<1>9. LateFirst' /\ YoungestTrue' /\ ShownTrue' /\ Slots'
  BY <1>1 DEF UserAccessIInv, LateFirst, YoungestTrue, WithoutGrants, ShownTrue, Slots
<1> QED
  BY <1>5, <1>6, <1>7, <1>8, <1>9 DEF UserAccessIInv

LEMMA OpenCreateKeeps ==
  ASSUME UserAccessAssumption, UserAccessIInv, NEW key \in BOOLEAN, "create" \in WOps, W!OpenCreate(key)
  PROVE  UserAccessIInv'
<1>1. /\ (~key => wModal = None) /\ wKeyed' = (wKeyed \/ key)
      /\ wMenus' \subseteq wMenus /\ (~key => wMenus' = {})
      /\ wModal' = [kind |-> "create", user |-> None, sent |-> FALSE]
      /\ UNCHANGED <<wUsers, wFilter, wAction, wStored, wCall, wLists, wOthers, wOvertaken, wUnseen>>
  BY DEF W!OpenCreate, W!Pointed, W!Reached, W!Remote
<1>2. wModal' \in Modals /\ wModal'.kind = "create" /\ ~wModal'.sent /\ wModal' # None
  <2>1. wModal' \in Modals /\ wModal'.kind = "create" /\ ~wModal'.sent
    BY <1>1 DEF Modals
  <2> QED
    BY <2>1 DEF UserAccessAssumption
<1>5. UserAccessTyped'
  BY <1>1, <1>2 DEF UserAccessIInv, UserAccessTyped
<1>6. KnownUsers'
  BY <1>1, <1>2 DEF UserAccessIInv, KnownUsers, Listed
<1>7. ByPointer'
  BY <1>1, <1>2 DEF UserAccessIInv, ByPointer
<1>8. SentHere' /\ NeverSelf'
  BY <1>1, <1>2 DEF UserAccessIInv, SentHere, NeverSelf
<1>9. LateFirst' /\ YoungestTrue' /\ ShownTrue' /\ Slots'
  BY <1>1 DEF UserAccessIInv, LateFirst, YoungestTrue, WithoutGrants, ShownTrue, Slots
<1> QED
  BY <1>5, <1>6, <1>7, <1>8, <1>9 DEF UserAccessIInv

LEMMA CloseModalKeeps ==
  ASSUME UserAccessAssumption, UserAccessIInv, W!CloseModal
  PROVE  UserAccessIInv'
<1> USE DEF W!CloseModal, W!Remote
<1>1. UserAccessTyped'
  BY DEF UserAccessIInv, UserAccessTyped
<1>2. KnownUsers' /\ ByPointer' /\ SentHere' /\ NeverSelf'
  BY DEF UserAccessIInv, KnownUsers, Listed, ByPointer, SentHere, NeverSelf
<1>3. LateFirst' /\ YoungestTrue' /\ ShownTrue' /\ Slots'
  BY DEF UserAccessIInv, LateFirst, YoungestTrue, WithoutGrants, ShownTrue, Slots
<1> QED
  BY <1>1, <1>2, <1>3 DEF UserAccessIInv

LEMMA RevisitKeeps ==
  ASSUME UserAccessAssumption, UserAccessIInv, W!Revisit
  PROVE  UserAccessIInv'
<1>1. /\ wFilter' = [status |-> "all", page |-> 1] /\ wMenus' = {} /\ wModal' = None
      /\ wCall' = [o \in WOps |-> IF wCall[o] = None THEN None ELSE [wCall[o] EXCEPT !.here = FALSE]]
      /\ UNCHANGED <<wStored, wUsers, wAction, wLists, wOthers, wKeyed, wOvertaken, wUnseen>>
  BY DEF W!Revisit
<1>2. \A o \in WOps : wCall[o] # None =>
        wCall'[o] \in Changes /\ wCall'[o] # None /\ wCall'[o].user = wCall[o].user
  <2>1. ASSUME NEW o \in WOps, wCall[o] # None
        PROVE  wCall'[o] \in Changes /\ wCall'[o].user = wCall[o].user
    <3>1. wCall[o] \in Changes /\ wCall'[o] = [wCall[o] EXCEPT !.here = FALSE]
      BY <1>1, <2>1, Kinds DEF UserAccessIInv
    <3> QED
      BY <3>1 DEF Changes
  <2> QED
    BY <2>1 DEF UserAccessAssumption
<1>3. \A o \in WOps : wCall[o] = None => wCall'[o] = None
  BY <1>1
<1>4. UserAccessTyped'
  <2>1. wCall' \in [WOps -> Changes \cup {None}]
    BY <1>1, <1>2, <1>3
  <2>2. wFilter' \in [status : W!Filters, page : 1..W!Cardinality(WUsers)]
    BY <1>1, UsersCounted DEF W!Filters
  <2> QED
    BY <1>1, <2>1, <2>2 DEF UserAccessIInv, UserAccessTyped
<1>5. KnownUsers'
  BY <1>1, <1>2, <1>3 DEF UserAccessIInv, KnownUsers, Listed
<1>6. Slots' /\ SentHere' /\ NeverSelf'
  BY <1>1, <1>2, <1>3 DEF UserAccessIInv, Slots, SentHere, NeverSelf
<1>7. ByPointer'
  BY <1>1 DEF UserAccessIInv, ByPointer
<1>8. LateFirst' /\ YoungestTrue' /\ ShownTrue'
  BY <1>1 DEF UserAccessIInv, LateFirst, YoungestTrue, WithoutGrants, ShownTrue
<1> QED
  BY <1>4, <1>5, <1>6, <1>7, <1>8 DEF UserAccessIInv

(* What the modal was opened for is sent.  A modal whose change is under way *)
(* does not send it again, so a pointer finds the other slots free.          *)
LEMMA UserAccessSubmitKeeps ==
  ASSUME UserAccessAssumption, UserAccessIInv, NEW kinds, W!Submit(kinds)
  PROVE  UserAccessIInv'
<1>1. PICK o \in WOps : o = wModal.kind /\ wModal # None /\ wModal \in Modals /\ wAction[o] # "submitting"
  BY Kinds DEF UserAccessIInv, W!Submit, Modals
<1>2. PICK c : c = [user |-> wModal.user, verdict |-> None, here |-> TRUE]
  OBVIOUS
<1>3. /\ wAction' = [wAction EXCEPT ![o] = "submitting"] /\ wCall' = [wCall EXCEPT ![o] = c]
      /\ wModal' = [wModal EXCEPT !.sent = TRUE]
      /\ UNCHANGED <<wStored, wUsers, wFilter, wMenus, wLists, wOthers, wKeyed, wOvertaken, wUnseen>>
  BY <1>1, <1>2 DEF W!Submit
<1>4. c \in Changes /\ c # None /\ c.user = wModal.user /\ c.here
  <2>1. c \in Changes /\ c.user = wModal.user /\ c.here
    BY <1>1, <1>2 DEF Changes, Modals
  <2> QED
    BY <2>1 DEF UserAccessAssumption
<1>5. wModal' \in Modals /\ wModal' # None /\ wModal'.kind = o /\ wModal'.user = wModal.user /\ wModal'.sent
  <2>1. wModal' \in Modals /\ wModal'.kind = o /\ wModal'.user = wModal.user /\ wModal'.sent
    BY <1>1, <1>3 DEF Modals
  <2> QED
    BY <2>1 DEF UserAccessAssumption
<1>6. wAction'[o] = "submitting" /\ wCall'[o] = c
      /\ \A p \in WOps : p # o => wAction'[p] = wAction[p] /\ wCall'[p] = wCall[p]
  BY <1>3 DEF UserAccessIInv, UserAccessTyped
<1>7. UserAccessTyped'
  <2>1. wCall' \in [WOps -> Changes \cup {None}] /\ wAction' \in [WOps -> {"idle", "submitting", "ready", "error"}]
    BY <1>3, <1>4 DEF UserAccessIInv, UserAccessTyped
  <2> QED
    BY <1>3, <1>5, <2>1 DEF UserAccessIInv, UserAccessTyped
<1>8. KnownUsers'
  <2>1. o # "create" => wModal.user \in WUsers /\ wStored[wModal.user] # None
    BY <1>1 DEF UserAccessIInv, KnownUsers
  <2>2. \A p \in WOps \ {"create"} : wCall'[p] # None => wCall'[p].user \in WUsers /\ wStored[wCall'[p].user] # None
    BY <1>4, <1>6, <2>1 DEF UserAccessIInv, KnownUsers
  <2> QED
    BY <1>3, <1>5, <2>1, <2>2 DEF UserAccessIInv, KnownUsers, Listed
<1>9. Slots' /\ SentHere' /\ NeverSelf'
  <2>1. Slots'
    BY <1>4, <1>6 DEF UserAccessIInv, Slots
  <2>2. SentHere'
    BY <1>4, <1>5, <1>6 DEF SentHere
  <2>3. o \in {"disable", "enable"} => wModal.user # WSelf
    BY <1>1 DEF UserAccessIInv, NeverSelf
  <2>4. NeverSelf'
    BY <1>4, <1>5, <1>6, <2>3 DEF UserAccessIInv, NeverSelf
  <2> QED
    BY <2>1, <2>2, <2>4
<1>10. ByPointer'
  <2>1. SUFFICES ASSUME ~wKeyed PROVE ByPointer'
    BY <1>3 DEF ByPointer
  <2>2. wMenus' = {}
    BY <1>1, <1>3, <2>1 DEF UserAccessIInv, ByPointer
  <2>3. ~wModal.sent
    BY <1>1 DEF UserAccessIInv, SentHere, Slots
  <2>4. o # "create" => \A p \in WOps \ {"create"} : wAction[p] # "submitting"
    BY <1>1, <2>1, <2>3 DEF UserAccessIInv, ByPointer
  <2>5. \A p, q \in WOps \ {"create"} : wAction'[p] = "submitting" /\ wAction'[q] = "submitting" => p = q
    BY <1>6, <2>1, <2>4 DEF UserAccessIInv, ByPointer
  <2> QED
    BY <1>5, <2>2, <2>5 DEF ByPointer
<1>11. LateFirst' /\ YoungestTrue' /\ ShownTrue'
  BY <1>3 DEF UserAccessIInv, LateFirst, YoungestTrue, WithoutGrants, ShownTrue
<1> QED
  BY <1>7, <1>8, <1>9, <1>10, <1>11 DEF UserAccessIInv

-----------------------------------------------------------------------------
(* A change at the server: whoever was stored still is, and what the page    *)
(* asked for before is no longer sure to be true.                            *)
LEMMA ChangeKeeps ==
  ASSUME UserAccessAssumption, UserAccessIInv, wStored' \in RowSets, wUnseen' = TRUE,
         \A v \in WUsers : wStored[v] # None => wStored'[v] # None,
         wCall' \in [WOps -> Changes \cup {None}],
         \A o \in WOps : /\ (wCall'[o] = None) <=> (wCall[o] = None)
                         /\ wCall[o] # None => wCall'[o].user = wCall[o].user /\ wCall'[o].here = wCall[o].here,
         UNCHANGED <<wUsers, wFilter, wMenus, wModal, wAction, wKeyed, wLists, wOvertaken>>, wOthers' \in BOOLEAN
  PROVE  UserAccessIInv'
<1>1. UserAccessTyped'
  BY DEF UserAccessIInv, UserAccessTyped
<1>2. KnownUsers'
  <2>1. /\ \A u \in WUsers : wUsers'.rows[u] # None => wStored'[u] # None
        /\ \A k \in 1..Len(wLists') : \A u \in WUsers : wLists'[k].rows[u] # None => wStored'[u] # None
    BY DEF UserAccessIInv, KnownUsers, Listed
  <2>2. wModal' # None /\ wModal'.kind # "create" => wModal'.user \in WUsers /\ wStored'[wModal'.user] # None
    BY DEF UserAccessIInv, KnownUsers
  <2>3. \A o \in WOps \ {"create"} : wCall'[o] # None => wCall'[o].user \in WUsers /\ wStored'[wCall'[o].user] # None
    BY DEF UserAccessIInv, KnownUsers
  <2>4. \A u \in wMenus' : wUsers'.rows[u] # None
    BY DEF UserAccessIInv, KnownUsers
  <2> QED
    BY <2>1, <2>2, <2>3, <2>4 DEF KnownUsers, Listed
<1>3. LateFirst' /\ YoungestTrue' /\ ShownTrue' /\ ByPointer'
  BY DEF UserAccessIInv, LateFirst, YoungestTrue, ShownTrue, ByPointer
<1>4. Slots' /\ NeverSelf'
  BY DEF UserAccessIInv, Slots, NeverSelf
<1>5. SentHere'
  <2>1. wModal # None => wModal.kind \in WOps
    BY Kinds DEF UserAccessIInv, Modals
  <2> QED
    BY <2>1 DEF UserAccessIInv, SentHere
<1> QED
  BY <1>1, <1>2, <1>3, <1>4, <1>5 DEF UserAccessIInv

LEMMA UserAccessServeKeeps ==
  ASSUME UserAccessAssumption, UserAccessIInv, NEW op \in WOps, W!Serve(op)
  PROVE  UserAccessIInv'
<1>1. /\ wCall[op] # None /\ wStored' = W!Changed(op, wCall[op].user) /\ wUnseen' = TRUE
      /\ wCall' = [wCall EXCEPT ![op].verdict = "ready"]
      /\ UNCHANGED <<wUsers, wFilter, wMenus, wModal, wAction, wKeyed, wLists, wOthers, wOvertaken>>
  BY DEF W!Serve, W!Page
<1>2. op # "create" => wCall[op].user \in WUsers /\ wStored[wCall[op].user] # None
  BY <1>1 DEF UserAccessIInv, KnownUsers
<1>3. wStored' \in RowSets /\ \A v \in WUsers : wStored[v] # None => wStored'[v] # None
  BY <1>1, <1>2, ChangedIs DEF UserAccessIInv, UserAccessTyped
<1>4. PICK c : c = [wCall[op] EXCEPT !.verdict = "ready"]
  OBVIOUS
<1>5. c \in Changes /\ c # None /\ c.user = wCall[op].user /\ c.here = wCall[op].here
  <2>1. c \in Changes /\ c.user = wCall[op].user /\ c.here = wCall[op].here
    BY <1>1, <1>4, Kinds DEF UserAccessIInv, Changes
  <2> QED
    BY <2>1 DEF UserAccessAssumption
<1>6. wCall' = [wCall EXCEPT ![op] = c]
  BY <1>1, <1>4
<1>7. /\ wCall' \in [WOps -> Changes \cup {None}]
      /\ \A o \in WOps : /\ (wCall'[o] = None) <=> (wCall[o] = None)
                         /\ wCall[o] # None => wCall'[o].user = wCall[o].user /\ wCall'[o].here = wCall[o].here
  BY <1>1, <1>5, <1>6 DEF UserAccessIInv, UserAccessTyped
<1>8. wOthers' \in BOOLEAN
  BY <1>1 DEF UserAccessIInv, UserAccessTyped
<1> QED
  BY <1>1, <1>3, <1>7, <1>8, ChangeKeeps

LEMMA ChangeElsewhereKeeps ==
  ASSUME UserAccessAssumption, UserAccessIInv, NEW op \in WOps, NEW u \in WUsers, W!ChangeElsewhere(op, u)
  PROVE  UserAccessIInv'
<1>1. /\ wOthers' = FALSE /\ wStored[u] # None /\ wStored' = W!Changed(op, u) /\ wUnseen' = TRUE
      /\ UNCHANGED <<wUsers, wFilter, wMenus, wModal, wAction, wKeyed, wCall, wLists, wOvertaken>>
  BY DEF W!ChangeElsewhere, W!Page
<1>2. wStored' \in RowSets /\ \A v \in WUsers : wStored[v] # None => wStored'[v] # None
  BY <1>1, ChangedIs DEF UserAccessIInv, UserAccessTyped
<1>3. wCall' \in [WOps -> Changes \cup {None}]
  BY <1>1 DEF UserAccessIInv, UserAccessTyped
<1> QED
  BY <1>1, <1>2, <1>3, ChangeKeeps

LEMMA RefuseKeeps ==
  ASSUME UserAccessAssumption, UserAccessIInv, NEW op \in WOps, W!Refuse(op)
  PROVE  UserAccessIInv'
<1>1. /\ wCall[op] # None /\ wCall' = [wCall EXCEPT ![op].verdict = "error"]
      /\ UNCHANGED <<wStored, wUsers, wFilter, wMenus, wModal, wAction, wKeyed, wLists, wOthers, wOvertaken, wUnseen>>
  BY DEF W!Refuse, W!Page
<1>2. PICK c : c = [wCall[op] EXCEPT !.verdict = "error"]
  OBVIOUS
<1>3. c \in Changes /\ c # None /\ c.user = wCall[op].user /\ c.here = wCall[op].here
  <2>1. c \in Changes /\ c.user = wCall[op].user /\ c.here = wCall[op].here
    BY <1>1, <1>2, Kinds DEF UserAccessIInv, Changes
  <2> QED
    BY <2>1 DEF UserAccessAssumption
<1>4. wCall' = [wCall EXCEPT ![op] = c]
  BY <1>1, <1>2
<1>5. /\ wCall' \in [WOps -> Changes \cup {None}]
      /\ \A o \in WOps : /\ (wCall'[o] = None) <=> (wCall[o] = None)
                         /\ wCall[o] # None => wCall'[o].user = wCall[o].user /\ wCall'[o].here = wCall[o].here
  BY <1>1, <1>3, <1>4 DEF UserAccessIInv, UserAccessTyped
<1>6. UserAccessTyped'
  BY <1>1, <1>5 DEF UserAccessIInv, UserAccessTyped
<1>7. KnownUsers'
  BY <1>1, <1>5 DEF UserAccessIInv, KnownUsers, Listed
<1>8. Slots' /\ NeverSelf'
  BY <1>1, <1>5 DEF UserAccessIInv, Slots, NeverSelf
<1>9. SentHere'
  <2>1. wModal # None => wModal.kind \in WOps
    BY Kinds DEF UserAccessIInv, Modals
  <2> QED
    BY <1>1, <1>5, <2>1 DEF UserAccessIInv, SentHere
<1>10. LateFirst' /\ YoungestTrue' /\ ShownTrue' /\ ByPointer'
  BY <1>1 DEF UserAccessIInv, LateFirst, YoungestTrue, WithoutGrants, ShownTrue, ByPointer
<1> QED
  BY <1>6, <1>7, <1>8, <1>9, <1>10 DEF UserAccessIInv

(* The answer closes whatever modal is open; the list asked for after it     *)
(* makes up for what changed before.                                         *)
LEMMA AnswerKeeps ==
  ASSUME UserAccessAssumption, UserAccessIInv, NEW op \in WOps, NEW kind \in {"ready", "error"}, W!Answer(op, kind)
  PROVE  UserAccessIInv'
<1>1. /\ wCall[op] # None
      /\ wCall' = [wCall EXCEPT ![op] = None] /\ wAction' = [wAction EXCEPT ![op] = kind]
      /\ wModal' = IF wCall[op].here THEN None ELSE wModal
      /\ UNCHANGED <<wStored, wUsers, wFilter, wMenus, wOthers, wKeyed, wOvertaken>>
  BY DEF W!Answer
<1>2. wCall'[op] = None /\ wAction'[op] = kind /\ kind # "submitting"
      /\ \A p \in WOps : p # op => wAction'[p] = wAction[p] /\ wCall'[p] = wCall[p]
  BY <1>1 DEF UserAccessIInv, UserAccessTyped
<1>3. \/ wLists' = Append(wLists, W!NewList) /\ wUnseen' = FALSE
      \/ UNCHANGED <<wLists, wUnseen>>
  BY DEF W!Answer
<1>4. PICK n \in Lists : n = W!NewList /\ n.step = "users" /\ n.rows = W!Absent /\ ~n.late
  BY NewListIs
<1>5. wLists \in Seq(Lists) /\ Len(wLists) \in Nat
  BY DEF UserAccessIInv, UserAccessTyped
<1>6. ASSUME wLists' = Append(wLists, n)
      PROVE  /\ wLists' \in Seq(Lists) /\ Len(wLists') = Len(wLists) + 1 /\ wLists'[Len(wLists) + 1] = n
             /\ \A k \in 1..Len(wLists) : wLists'[k] = wLists[k]
             /\ \A k \in 1..Len(wLists') : k \in 1..Len(wLists) \/ k = Len(wLists) + 1
  BY <1>5, <1>6
<1>7. UserAccessTyped'
  <2>1. wCall' \in [WOps -> Changes \cup {None}] /\ wAction' \in [WOps -> {"idle", "submitting", "ready", "error"}]
    BY <1>1 DEF UserAccessIInv, UserAccessTyped
  <2>2. wModal' \in Modals \cup {None}
    BY <1>1 DEF UserAccessIInv, UserAccessTyped
  <2>3. wLists' \in Seq(Lists) /\ wUnseen' \in BOOLEAN
    BY <1>3, <1>4, <1>6 DEF UserAccessIInv, UserAccessTyped
  <2> QED
    BY <1>1, <2>1, <2>2, <2>3 DEF UserAccessIInv, UserAccessTyped
<1>8. KnownUsers'
  <2>1. \A u \in WUsers : n.rows[u] = None
    BY <1>4 DEF W!Absent
  <2>2. \A k \in 1..Len(wLists') : \A u \in WUsers : wLists'[k].rows[u] # None => wStored[u] # None
    BY <1>3, <1>4, <1>6, <2>1 DEF UserAccessIInv, KnownUsers, Listed
  <2>3. \A k \in 1..Len(wLists') : \A u \in WUsers : wLists'[k].rows[u] # None => wStored'[u] # None
    BY <1>1, <2>2
  <2>4. /\ \A u \in WUsers : wUsers'.rows[u] # None => wStored'[u] # None
        /\ \A u \in wMenus' : wUsers'.rows[u] # None
    BY <1>1 DEF UserAccessIInv, KnownUsers, Listed
  <2>5. wModal' # None /\ wModal'.kind # "create" => wModal'.user \in WUsers /\ wStored'[wModal'.user] # None
    BY <1>1 DEF UserAccessIInv, KnownUsers
  <2>6. \A o \in WOps \ {"create"} : wCall'[o] # None => wCall'[o].user \in WUsers /\ wStored'[wCall'[o].user] # None
    BY <1>1, <1>2 DEF UserAccessIInv, KnownUsers
  <2> QED
    BY <2>3, <2>4, <2>5, <2>6 DEF KnownUsers, Listed
<1>9. LateFirst' /\ YoungestTrue' /\ ShownTrue'
  <2>1. CASE UNCHANGED <<wLists, wUnseen>>
    BY <1>1, <2>1 DEF UserAccessIInv, LateFirst, YoungestTrue, WithoutGrants, ShownTrue
  <2>2. CASE wLists' = Append(wLists, n)
    <3>1. LateFirst'
      <4> SUFFICES ASSUME NEW i \in 1..Len(wLists'), NEW j \in 1..Len(wLists'), i < j, wLists'[j].late
                   PROVE  wLists'[i].late
        BY DEF LateFirst
      <4>1. j \in 1..Len(wLists) /\ i \in 1..Len(wLists)
        BY <1>4, <1>5, <1>6, <2>2
      <4> QED
        BY <1>6, <2>2, <4>1 DEF UserAccessIInv, LateFirst
    <3>2. Len(wLists') \in 1..Len(wLists') /\ wLists'[Len(wLists')] = n
      BY <1>5, <1>6, <2>2
    <3> QED
      BY <1>4, <3>1, <3>2 DEF YoungestTrue, ShownTrue
  <2> QED
    BY <1>3, <1>4, <2>1, <2>2
<1>10. Slots' /\ NeverSelf'
  BY <1>1, <1>2 DEF UserAccessIInv, Slots, NeverSelf
<1>11. SentHere'
  <2>1. SUFFICES ASSUME wModal' # None, wModal'.sent
                 PROVE  wCall'[wModal'.kind] # None /\ wCall'[wModal'.kind].here
    BY DEF SentHere
  <2>2. wModal' = wModal /\ ~wCall[op].here
    BY <1>1, <2>1
  <2>3. wModal.kind \in WOps /\ wCall[wModal.kind] # None /\ wCall[wModal.kind].here
    BY <2>1, <2>2, Kinds DEF UserAccessIInv, SentHere, Modals
  <2> QED
    BY <1>2, <2>2, <2>3
<1>12. ByPointer'
  <2>1. \A p \in WOps : wAction'[p] = "submitting" => wAction[p] = "submitting"
    BY <1>2
  <2>2. wModal' = None \/ wModal' = wModal
    BY <1>1
  <2> QED
    BY <1>1, <2>1, <2>2 DEF UserAccessIInv, ByPointer
<1> QED
  BY <1>7, <1>8, <1>9, <1>10, <1>11, <1>12 DEF UserAccessIInv

-----------------------------------------------------------------------------
(* The lists under way.                                                      *)
LEMMA ListReadKeeps ==
  ASSUME UserAccessAssumption, UserAccessIInv, NEW k \in 1..Len(wLists), NEW l \in Lists,
         wLists' = [wLists EXCEPT ![k] = l], l.late = wLists[k].late,
         \A u \in WUsers : l.rows[u] # None => wStored[u] # None,
         ~wUnseen /\ k = Len(wLists) /\ ~l.late =>
           /\ l.step = "grants" => l.rows = WithoutGrants
           /\ l.step = "served" => l.rows = wStored,
         UNCHANGED <<wUsers, wFilter, wMenus, wModal, wAction, wKeyed, wStored, wCall, wOthers, wOvertaken, wUnseen>>
  PROVE  UserAccessIInv'
<1>1. /\ wLists' \in Seq(Lists) /\ Len(wLists') = Len(wLists) /\ wLists'[k] = l
      /\ \A j \in 1..Len(wLists) : j # k => wLists'[j] = wLists[j]
  BY DEF UserAccessIInv, UserAccessTyped
<1>2. \A j \in 1..Len(wLists) : wLists'[j].late = wLists[j].late
  BY <1>1
<1>3. UserAccessTyped'
  BY <1>1 DEF UserAccessIInv, UserAccessTyped
<1>4. KnownUsers'
  <2>1. \A j \in 1..Len(wLists) : \A u \in WUsers : wLists[j].rows[u] # None => wStored[u] # None
    BY DEF UserAccessIInv, KnownUsers, Listed
  <2>2. \A j \in 1..Len(wLists') : \A u \in WUsers : wLists'[j].rows[u] # None => wStored[u] # None
    <3> SUFFICES ASSUME NEW j \in 1..Len(wLists), NEW u \in WUsers, wLists'[j].rows[u] # None
                 PROVE  wStored[u] # None
      BY <1>1
    <3>1. CASE j = k
      BY <1>1, <3>1
    <3>2. CASE j # k
      BY <1>1, <2>1, <3>2
    <3> QED
      BY <3>1, <3>2
  <2>3. /\ \A u \in WUsers : wUsers'.rows[u] # None => wStored'[u] # None
        /\ \A u \in wMenus' : wUsers'.rows[u] # None
        /\ wModal' # None /\ wModal'.kind # "create" => wModal'.user \in WUsers /\ wStored'[wModal'.user] # None
        /\ \A o \in WOps \ {"create"} : wCall'[o] # None => wCall'[o].user \in WUsers /\ wStored'[wCall'[o].user] # None
    BY DEF UserAccessIInv, KnownUsers, Listed
  <2> QED
    BY <2>2, <2>3 DEF KnownUsers, Listed
<1>5. LateFirst' /\ ShownTrue'
  BY <1>1, <1>2 DEF UserAccessIInv, LateFirst, ShownTrue
<1>6. YoungestTrue'
  BY <1>1, <1>2 DEF UserAccessIInv, YoungestTrue, WithoutGrants
<1>7. Slots' /\ SentHere' /\ NeverSelf' /\ ByPointer'
  BY DEF UserAccessIInv, Slots, SentHere, NeverSelf, ByPointer
<1> QED
  BY <1>3, <1>4, <1>5, <1>6, <1>7 DEF UserAccessIInv

LEMMA ReadUsersKeeps ==
  ASSUME UserAccessAssumption, UserAccessIInv, NEW k \in 1..Len(wLists), W!ReadUsers(k)
  PROVE  UserAccessIInv'
<1>1. /\ wLists' = [wLists EXCEPT ![k].step = "grants", ![k].rows = WithoutGrants]
      /\ UNCHANGED <<wUsers, wFilter, wMenus, wModal, wAction, wKeyed, wStored, wCall, wOthers, wOvertaken, wUnseen>>
  BY DEF W!ReadUsers, W!Page, WithoutGrants
<1>2. wLists[k] \in Lists
  BY Kinds DEF UserAccessIInv
<1>3. WithoutGrants \in RowSets /\ \A u \in WUsers : WithoutGrants[u] # None => wStored[u] # None
  <2>1. \A u \in WUsers : wStored[u] # None => [wStored[u] EXCEPT !.granted = FALSE] \in Row
    BY Kinds, Rows DEF UserAccessIInv
  <2> QED
    BY <2>1 DEF WithoutGrants, RowSets
<1>4. PICK l : l = [wLists[k] EXCEPT !.step = "grants", !.rows = WithoutGrants]
  OBVIOUS
<1>5. l \in Lists /\ l.step = "grants" /\ l.rows = WithoutGrants /\ l.late = wLists[k].late
  BY <1>2, <1>3, <1>4 DEF Lists
<1>6. wLists' = [wLists EXCEPT ![k] = l]
  BY <1>1, <1>4
<1> QED
  BY <1>1, <1>3, <1>5, <1>6, ListReadKeeps

LEMMA ReadGrantsKeeps ==
  ASSUME UserAccessAssumption, UserAccessIInv, NEW k \in 1..Len(wLists), W!ReadGrants(k)
  PROVE  UserAccessIInv'
<1>1. PICK read : read = [u \in WUsers |-> IF wLists[k].rows[u] = None THEN None
                                         ELSE [wLists[k].rows[u] EXCEPT !.granted = wStored[u].granted]]
  OBVIOUS
<1>2. /\ wLists[k].step = "grants" /\ wLists' = [wLists EXCEPT ![k].step = "served", ![k].rows = read]
      /\ UNCHANGED <<wUsers, wFilter, wMenus, wModal, wAction, wKeyed, wStored, wCall, wOthers, wOvertaken, wUnseen>>
  BY <1>1 DEF W!ReadGrants, W!Page
<1>3. wLists[k] \in Lists /\ wLists[k].rows \in RowSets
  BY Kinds DEF UserAccessIInv, Lists
<1>4. \A u \in WUsers : wLists[k].rows[u] # None =>
        wStored[u] # None /\ wStored[u] \in Row /\ wLists[k].rows[u] \in Row
  BY <1>3, Kinds DEF UserAccessIInv, KnownUsers, Listed, RowSets
<1>5. read \in RowSets /\ \A u \in WUsers : read[u] # None => wStored[u] # None
  <2>1. \A u \in WUsers : wLists[k].rows[u] # None =>
          [wLists[k].rows[u] EXCEPT !.granted = wStored[u].granted] \in Row
    BY <1>4 DEF Row
  <2> QED
    BY <1>1, <1>4, <2>1 DEF RowSets
<1>6. ASSUME wLists[k].rows = WithoutGrants
      PROVE  read = wStored
  <2>1. wStored \in RowSets
    BY DEF UserAccessIInv, UserAccessTyped
  <2>2. ASSUME NEW u \in WUsers
        PROVE  read[u] = wStored[u]
    <3>1. CASE wStored[u] = None
      BY <1>1, <1>6, <3>1 DEF WithoutGrants
    <3>2. CASE wStored[u] # None
      <4>1. PICK r \in Row : r = wStored[u]
        BY <2>1, <3>2 DEF RowSets
      <4>2. PICK q \in Row : q = [r EXCEPT !.granted = FALSE] /\ q # None
        BY Rows
      <4>3. wLists[k].rows[u] = q
        BY <1>6, <3>2, <4>1, <4>2 DEF WithoutGrants
      <4>4. read[u] = [q EXCEPT !.granted = r.granted]
        BY <1>1, <4>1, <4>2, <4>3
      <4>5. [q EXCEPT !.granted = r.granted] = r
        BY <4>2 DEF Row
      <4> QED
        BY <4>1, <4>4, <4>5
    <3> QED
      BY <3>1, <3>2
  <2> QED
    BY <1>5, <2>1, <2>2 DEF RowSets
<1>7. PICK l : l = [wLists[k] EXCEPT !.step = "served", !.rows = read]
  OBVIOUS
<1>8. l \in Lists /\ l.step = "served" /\ l.rows = read /\ l.late = wLists[k].late
  BY <1>3, <1>5, <1>7 DEF Lists
<1>9. wLists' = [wLists EXCEPT ![k] = l]
  BY <1>2, <1>7
<1>10. ~wUnseen /\ k = Len(wLists) /\ ~l.late =>
         /\ l.step = "grants" => l.rows = WithoutGrants
         /\ l.step = "served" => l.rows = wStored
  BY <1>2, <1>6, <1>8 DEF UserAccessIInv, YoungestTrue
<1>11. \A u \in WUsers : l.rows[u] # None => wStored[u] # None
  BY <1>5, <1>8
<1> QED
  BY <1>2, <1>8, <1>9, <1>10, <1>11, ListReadKeeps

(* A list is shown whatever was asked for after it.  When none that is not   *)
(* late is left, it was the youngest.                                        *)
LEMMA ShowListKeeps ==
  ASSUME UserAccessAssumption, UserAccessIInv, NEW k \in 1..Len(wLists), NEW kind \in {"ready", "error"}, W!ShowList(k, kind)
  PROVE  UserAccessIInv'
<1>1. PICK n \in Nat : n = Len(wLists) /\ n >= 1 /\ k \in 1..n
  BY DEF UserAccessIInv, UserAccessTyped
<1>2. PICK rows : rows = IF kind = "ready" THEN wLists[k].rows ELSE W!Absent
  OBVIOUS
<1>3. /\ kind = "ready" => wLists[k].step = "served"
      /\ wUsers' = [kind |-> kind, rows |-> rows]
      /\ wMenus' = wMenus \cap W!Paged(rows, wFilter)
      /\ wOvertaken' = wLists[k].late
      /\ wLists' = [j \in 1..(n - 1) |-> IF j < k THEN [wLists[j] EXCEPT !.late = TRUE] ELSE wLists[j + 1]]
      /\ UNCHANGED <<wStored, wFilter, wModal, wAction, wCall, wOthers, wKeyed, wUnseen>>
  <2>1. wUsers' = [kind |-> kind, rows |-> rows]
    BY <1>2 DEF W!ShowList
  <2>2. wUsers'.rows = rows
    BY <2>1
  <2> QED
    BY <1>1, <2>1, <2>2 DEF W!ShowList, W!Rerendered
<1>4. \A j \in 1..n : wLists[j] \in Lists
  BY <1>1, Kinds DEF UserAccessIInv
<1>5. \A j \in 1..(n - 1) : j < k => wLists'[j] = [wLists[j] EXCEPT !.late = TRUE] /\ wLists'[j] \in Lists
                                     /\ wLists'[j].late /\ wLists'[j].rows = wLists[j].rows /\ j \in 1..n
  <2> SUFFICES ASSUME NEW j \in 1..(n - 1), j < k
               PROVE  wLists'[j] = [wLists[j] EXCEPT !.late = TRUE] /\ wLists'[j] \in Lists
                      /\ wLists'[j].late /\ wLists'[j].rows = wLists[j].rows /\ j \in 1..n
    OBVIOUS
  <2>1. wLists'[j] = [wLists[j] EXCEPT !.late = TRUE] /\ j \in 1..n
    BY <1>1, <1>3
  <2> QED
    BY <1>4, <2>1 DEF Lists
<1>6. \A j \in 1..(n - 1) : ~(j < k) => wLists'[j] = wLists[j + 1] /\ wLists'[j] \in Lists /\ j + 1 \in 1..n
  BY <1>1, <1>3, <1>4
<1>7. wLists' \in Seq(Lists) /\ Len(wLists') = n - 1
  BY <1>1, <1>3, <1>5, <1>6
<1>8. rows \in RowSets /\ \A u \in WUsers : rows[u] # None => wStored[u] # None
  <2>1. W!Absent \in RowSets /\ \A u \in WUsers : W!Absent[u] = None
    BY DEF W!Absent, RowSets
  <2>2. wLists[k].rows \in RowSets /\ \A u \in WUsers : wLists[k].rows[u] # None => wStored[u] # None
    BY <1>1, <1>4 DEF UserAccessIInv, KnownUsers, Listed, Lists
  <2> QED
    BY <1>2, <2>1, <2>2
<1>9. wOvertaken' \in BOOLEAN
  BY <1>1, <1>3, <1>4 DEF Lists
<1>10. UserAccessTyped'
  <2>1. wUsers' \in [kind : {"loading", "ready", "error"}, rows : RowSets]
    BY <1>3, <1>8
  <2> QED
    BY <1>3, <1>7, <1>9, <2>1 DEF UserAccessIInv, UserAccessTyped
<1>11. KnownUsers'
  <2>1. \A j \in 1..(n - 1) : \A u \in WUsers : wLists'[j].rows[u] # None => wStored[u] # None
    <3>1. \A j \in 1..n : \A u \in WUsers : wLists[j].rows[u] # None => wStored[u] # None
      BY <1>1 DEF UserAccessIInv, KnownUsers, Listed
    <3> SUFFICES ASSUME NEW j \in 1..(n - 1), NEW u \in WUsers, wLists'[j].rows[u] # None
                 PROVE  wStored[u] # None
      OBVIOUS
    <3>2. CASE j < k
      <4>1. j \in 1..n /\ wLists'[j].rows = wLists[j].rows
        BY <1>5, <3>2
      <4> QED
        BY <3>1, <4>1
    <3>3. CASE ~(j < k)
      BY <1>6, <3>1, <3>3
    <3> QED
      BY <3>2, <3>3
  <2>2. \A u \in wMenus' : wUsers'.rows[u] # None
    BY <1>3, FilteredIs
  <2>3. \A u \in WUsers : wUsers'.rows[u] # None => wStored'[u] # None
    BY <1>3, <1>8
  <2> QED
    BY <1>3, <1>7, <2>1, <2>2, <2>3 DEF UserAccessIInv, KnownUsers, Listed
<1>12. LateFirst'
  <2> SUFFICES ASSUME NEW i \in 1..(n - 1), NEW j \in 1..(n - 1), i < j, wLists'[j].late
               PROVE  wLists'[i].late
    BY <1>7 DEF LateFirst
  <2>1. CASE i < k
    BY <1>5, <2>1
  <2>2. CASE ~(i < k)
    <3>1. ~(j < k) /\ i + 1 < j + 1
      BY <1>1, <2>2
    <3> QED
      BY <1>1, <1>6, <2>2, <3>1 DEF UserAccessIInv, LateFirst
  <2> QED
    BY <2>1, <2>2
<1>13. YoungestTrue'
  <2> SUFFICES ASSUME ~wUnseen, n - 1 \in 1..(n - 1), ~wLists'[n - 1].late
               PROVE  /\ wLists'[n - 1].step = "grants" => wLists'[n - 1].rows = WithoutGrants
                      /\ wLists'[n - 1].step = "served" => wLists'[n - 1].rows = wStored
    BY <1>3, <1>7 DEF YoungestTrue, WithoutGrants
  <2>1. ~(n - 1 < k)
    BY <1>5
  <2>2. wLists'[n - 1] = wLists[n] /\ n \in 1..n
    BY <1>1, <1>6, <2>1
  <2> QED
    BY <1>1, <2>2 DEF UserAccessIInv, YoungestTrue
<1>14. ShownTrue'
  <2> SUFFICES ASSUME ~wUnseen, \A j \in 1..(n - 1) : wLists'[j].late, ~wLists[k].late, kind = "ready"
               PROVE  rows = wStored
    BY <1>3, <1>7 DEF ShownTrue
  <2>1. k = n
    <3>1. SUFFICES ASSUME k # n PROVE FALSE
      OBVIOUS
    <3>2. n - 1 \in 1..(n - 1) /\ ~(n - 1 < k) /\ k < n /\ n \in 1..n
      BY <1>1, <3>1
    <3>3. wLists[n].late
      BY <1>1, <1>6, <3>2
    <3> QED
      BY <1>1, <3>2, <3>3 DEF UserAccessIInv, LateFirst
  <2> QED
    BY <1>1, <1>2, <1>3, <2>1 DEF UserAccessIInv, YoungestTrue
<1>15. Slots' /\ SentHere' /\ NeverSelf'
  BY <1>3 DEF UserAccessIInv, Slots, SentHere, NeverSelf
<1>16. ByPointer'
  <2>1. wMenus' \subseteq wMenus
    BY <1>3
  <2> QED
    BY <1>3, <2>1 DEF UserAccessIInv, ByPointer
<1> QED
  BY <1>10, <1>11, <1>12, <1>13, <1>14, <1>15, <1>16 DEF UserAccessIInv

-----------------------------------------------------------------------------
LEMMA NextUserAccess ==
  ASSUME UserAccessAssumption, UserAccessIInv, [W!Next]_W!vars
  PROVE  UserAccessIInv'
<1>1. CASE UNCHANGED W!vars
  <2>1. UserAccessTyped' /\ KnownUsers' /\ LateFirst' /\ YoungestTrue' /\ ShownTrue'
    BY <1>1 DEF W!vars, UserAccessIInv, UserAccessTyped, KnownUsers, Listed, LateFirst, YoungestTrue, WithoutGrants, ShownTrue
  <2>2. Slots' /\ SentHere' /\ NeverSelf' /\ ByPointer'
    BY <1>1 DEF W!vars, UserAccessIInv, Slots, SentHere, NeverSelf, ByPointer
  <2> QED
    BY <2>1, <2>2 DEF UserAccessIInv
<1>2. ASSUME NEW status \in W!Filters, NEW key \in BOOLEAN, W!SetFilter(status, key)
      PROVE  UserAccessIInv'
  BY <1>2, UserAccessSetFilterKeeps
<1>3. ASSUME NEW d \in {-1, 1}, NEW key \in BOOLEAN, W!TurnPage(d, key)
      PROVE  UserAccessIInv'
  BY <1>3, TurnPageKeeps
<1>4. ASSUME NEW key \in BOOLEAN, NEW u \in WUsers, W!OpenMenu(u, key)
      PROVE  UserAccessIInv'
  BY <1>4, OpenMenuKeeps
<1>5. ASSUME NEW closed, W!CloseMenus(closed)
      PROVE  UserAccessIInv'
  BY <1>5, CloseMenusKeeps
<1>6. ASSUME NEW key \in BOOLEAN, NEW u \in WUsers, NEW op \in WOps, W!Choose(u, op, key)
      PROVE  UserAccessIInv'
  BY <1>6, UserAccessChooseKeeps
<1>7. ASSUME NEW key \in BOOLEAN, "create" \in WOps, W!OpenCreate(key)
      PROVE  UserAccessIInv'
  BY <1>7, OpenCreateKeeps
<1>8. CASE W!CloseModal \/ W!Revisit \/ W!SubmitForm \/ W!ConfirmChange
  BY <1>8, CloseModalKeeps, RevisitKeeps, UserAccessSubmitKeeps DEF W!SubmitForm, W!ConfirmChange
<1>9. ASSUME NEW op \in WOps, W!Serve(op) \/ W!Refuse(op)
      PROVE  UserAccessIInv'
  BY <1>9, UserAccessServeKeeps, RefuseKeeps
<1>10. ASSUME NEW op \in WOps, NEW kind \in {"ready", "error"}, W!Answer(op, kind)
       PROVE  UserAccessIInv'
  BY <1>10, AnswerKeeps
<1>11. ASSUME NEW op \in WOps, NEW u \in WUsers, W!ChangeElsewhere(op, u)
       PROVE  UserAccessIInv'
  BY <1>11, ChangeElsewhereKeeps
<1>12. ASSUME NEW k \in 1..Len(wLists), W!ReadUsers(k) \/ W!ReadGrants(k)
       PROVE  UserAccessIInv'
  BY <1>12, ReadUsersKeeps, ReadGrantsKeeps
<1>13. ASSUME NEW k \in 1..Len(wLists), NEW kind \in {"ready", "error"}, W!ShowList(k, kind)
       PROVE  UserAccessIInv'
  BY <1>13, ShowListKeeps
<1> QED
  BY <1>1, <1>2, <1>3, <1>4, <1>5, <1>6, <1>7, <1>8, <1>9, <1>10, <1>11, <1>12, <1>13 DEF W!Next

LEMMA UserAccessSuffices ==
  ASSUME UserAccessAssumption, UserAccessIInv
  PROVE  W!UserAccessInv
<1>1. W!TypeOK
  <2>1. \A k \in 1..Len(wLists) : wLists[k].step \in {"users", "grants", "served"}
    BY Kinds DEF UserAccessIInv, Lists
  <2>2. wModal = None \/ (wModal.kind \in WOps /\ wModal.user \in WUsers \cup {None})
    BY Kinds DEF UserAccessIInv, Modals
  <2>3. \A o \in WOps : wCall[o] # None => wCall[o].verdict \in {None, "ready", "error"}
    BY Kinds DEF UserAccessIInv, Changes
  <2>4. \A u \in WUsers : wStored[u] # None => wStored[u] \in [active : BOOLEAN, granted : BOOLEAN]
    BY Kinds DEF UserAccessIInv, Row
  <2> QED
    BY <2>1, <2>2, <2>3, <2>4 DEF UserAccessIInv, UserAccessTyped, W!TypeOK
<1>2. W!TableTrue
  <2>1. wLists = <<>> => \A k \in 1..Len(wLists) : wLists[k].late
    OBVIOUS
  <2> QED
    BY <2>1 DEF UserAccessIInv, ShownTrue, W!TableTrue
<1>3. W!OneAtATime
  <2>1. PICK busy : busy = {o \in WOps \ {"create"} : wAction[o] = "submitting"}
    OBVIOUS
  <2>2. SUFFICES ASSUME ~wKeyed PROVE W!Cardinality(busy) <= 1
    BY <2>1 DEF W!OneAtATime
  <2>3. \A o, p \in busy : o = p
    BY <2>1, <2>2 DEF UserAccessIInv, ByPointer
  <2>4. CASE busy = {}
    BY <2>4, FS_EmptySet, WCardinality
  <2>5. CASE busy # {}
    <3>1. PICK o \in busy : busy = {o}
      BY <2>3, <2>5
    <3>2. W!Cardinality({o}) = 1
      BY FS_Singleton, WCardinality
    <3> QED
      BY <3>1, <3>2
  <2> QED
    BY <2>4, <2>5
<1>4. W!FailureShownLater
  <2>1. wModal # None => wModal.kind \in WOps
    BY Kinds DEF UserAccessIInv, Modals
  <2> QED
    BY <2>1 DEF UserAccessIInv, SentHere, Slots, W!FailureShownLater
<1>5. W!ChangesSound
  BY DEF UserAccessIInv, Slots, NeverSelf, W!ChangesSound
<1>6. W!PageShown
  <2>1. wFilter.page \in Nat \ {0}
    BY UsersCounted DEF UserAccessIInv, UserAccessTyped
  <2> QED
    BY <2>1, PagesNeverEmpty DEF W!PageShown
<1> QED
  BY <1>1, <1>2, <1>3, <1>4, <1>5, <1>6 DEF W!UserAccessInv

(* The page of users and grants: the table shows the users as they are when  *)
(* nothing is under way and the youngest list was shown last; one change at  *)
(* a time by pointer; a failure is shown in a modal opened later; and a page *)
(* of the table is never empty while users pass the filter.                  *)
THEOREM UserAccessHolds ==
  ASSUME UserAccessAssumption
  PROVE  W!Spec => []W!UserAccessInv
<1>1. W!Init => UserAccessIInv
  BY InitUserAccess
<1>2. UserAccessIInv /\ [W!Next]_W!vars => UserAccessIInv'
  BY NextUserAccess
<1>3. UserAccessIInv => W!UserAccessInv
  BY UserAccessSuffices
<1> QED
  BY <1>1, <1>2, <1>3, PTL DEF W!Spec

=============================================================================
