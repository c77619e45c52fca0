------------------------------- MODULE MCParts -------------------------------
(* Small instances of the parts of the system that share no state with each *)
(* other.  An interleaving of two of them is a behaviour of each alone with *)
(* stutters, so a behaviour takes the steps of one part, chosen at first,   *)
(* and the others stay as they begin.  The variables of a part carry its    *)
(* letter.                                                                  *)
EXTENDS Integers, FiniteSets, TLC

CONSTANTS u1, u2, t1, t2, r1, r2, None, Parts, Users, Tokens, Requests

VARIABLES
  part,
  aUser, aToken, aLimit, aLock, aRequest, aNow, aFaults, aBootstrapped, aExamined,
  sSession, sGranted, sReferred, sWaha, sEvents, sRequest, sNow, sLost, sOvertaken,
  cCall, cCancelled, cCarriedOut,
  xJob, xAttempted, xReferred, xContact, xPolicy, xPreviews, xPurge, xBackup, xSending, xAsked,
  xNow, xSent, xRevived, xDeleted, xDecided, xReverted, xOvertaken, xBegun,
  gGroup, gMember, gContacts, gUsed, gRequest, gJoined, gEmptied,
  nSetting, nPreferred, nForm, nSaves, nTyped, nStale, nRow, nRun, nReceived, nLate, nAudits,
  hChat, hStep, hInFlight, hQueue, hPhones, hNames, hAsked, hView, hText,
  vStored, vQuery, vHistory, vSelected, vDetail, vAction, vOpen, vConfirming, vRequest, vGone,
  vBehind, vVerdictOf, vUnasked,
  dScope, dCategory, dPrincipal, dScreen, dRequest, dCookie, dPreviews, dDeleted, dAgreed,
  pSession, pTyped, pLookup, pChange, pContactSlot, pConsentSlot, pSendSlot, pCalls, pConsent,
  pUnsure, pForgotten,
  eJob, eGrants, eRole, eContacts, eChanges, eListing, eRequest, ePages, eDetail, eCould,
  eStayed, eLost, eGrown,
  kSession, kChats, kOpen, kMessages, kCalls, kTimer, kWarm, kTries, kAgain, kStray, kWarmed,
  qStored, qLast, qList, qPage, qCreate, qLifecycle, qPanel, qRun, qCall, qMounts, qStarted,
  qMoved,
  wStored, wUsers, wFilter, wMenus, wModal, wAction, wCall, wLists, wOthers, wKeyed, wOvertaken,
  wUnseen,
  yJob, yShown, yForm, yRequest,
  iNow, iStored, iGranted, iJob, iAttempts, iEvents, iRequest

aVars == <<aUser, aToken, aLimit, aLock, aRequest, aNow, aFaults, aBootstrapped,
           aExamined>>
sVars == <<sSession, sGranted, sReferred, sWaha, sEvents, sRequest, sNow, sLost,
           sOvertaken>>
cVars == <<cCall, cCancelled, cCarriedOut>>
xVars == <<xJob, xAttempted, xReferred, xContact, xPolicy, xPreviews, xPurge, xBackup,
           xSending, xAsked, xNow, xSent, xRevived, xDeleted, xDecided, xReverted,
           xOvertaken, xBegun>>
gVars == <<gGroup, gMember, gContacts, gUsed, gRequest, gJoined, gEmptied>>
nVars == <<nSetting, nPreferred, nForm, nSaves, nTyped, nStale, nRow, nRun, nReceived,
           nLate, nAudits>>
hVars == <<hChat, hStep, hInFlight, hQueue, hPhones, hNames, hAsked, hView, hText>>
vVars == <<vStored, vQuery, vHistory, vSelected, vDetail, vAction, vOpen, vConfirming,
           vRequest, vGone, vBehind, vVerdictOf, vUnasked>>
dVars == <<dScope, dCategory, dPrincipal, dScreen, dRequest, dCookie, dPreviews,
           dDeleted, dAgreed>>
pVars == <<pSession, pTyped, pLookup, pChange, pContactSlot, pConsentSlot, pSendSlot,
           pCalls, pConsent, pUnsure, pForgotten>>
eVars == <<eJob, eGrants, eRole, eContacts, eChanges, eListing, eRequest, ePages,
           eDetail, eCould, eStayed, eLost, eGrown>>
kVars == <<kSession, kChats, kOpen, kMessages, kCalls, kTimer, kWarm, kTries, kAgain,
           kStray, kWarmed>>
qVars == <<qStored, qLast, qList, qPage, qCreate, qLifecycle, qPanel, qRun, qCall,
           qMounts, qStarted, qMoved>>
wVars == <<wStored, wUsers, wFilter, wMenus, wModal, wAction, wCall, wLists, wOthers,
           wKeyed, wOvertaken, wUnseen>>
yVars == <<yJob, yShown, yForm, yRequest>>
iVars == <<iNow, iStored, iGranted, iJob, iAttempts, iEvents, iRequest>>

AllScopes == {"personal", "business"}

(* one instance of each part of the server, ... *)
S1 == INSTANCE ServerProofs WITH
  AUsers <- Users, ATokens <- {t1}, ARequests <- Requests, APasswords <- {"p1"}, AMaxFailures <-
  2, AWindow <- 1, ABlock <- 2, ASessionTTL <- 1, AMaxTime <- 2, AMaxFaults <- 1,
  SRows <- {1, 2}, SNames <- {"n1"}, SUsers <- {"ann"}, SRolesOf <- [u \in {"ann"} |->
  {"admin"}], SRequests <- {r1}, SOps <- {"stop", "delete", "update", "confirmPasskey"},
  SMaxTime <- 3,
  CCalls <- {"sendText", "remove"}, CSignalled <- {"remove"},
  XJobs <- {1, 2}, XKeyOf <- [j \in {1, 2} |-> "k"], XPeople <- {}, XTokens <- {t1}, XCategories
  <- {"messages"}, XBatch <- 1, XMaxPreviews <- 1, XTokenTTL <- 1, XMaxDays <- 1, XMaxLookups <-
  1, XMaxTime <- 2,
  GGroups <- {1}, GTitles <- {"n"}, GUsers <- Users, GSessions <- {"a", "b"}, GContacts <- {"c",
  "d"}, GSessionOf <- [t \in {"c", "d"} |-> IF t = "c" THEN "a" ELSE "b"], GPhoneOf <- [t \in
  {"c", "d"} |-> "e"], GPhones <- {"f"}, GRequests <- Requests,
  NSecrets <- {"s1", "s2"}, NChats <- {1, 2}, NChannels <- {}, NForms <- Requests, NMaxAttempts
  <- 3, NMaxSaves <- 3

(* ... and another of those that need two *)
S2 == INSTANCE ServerProofs WITH
  AUsers <- Users, ATokens <- Tokens, ARequests <- Requests, APasswords <- {"p1"}, AMaxFailures
  <- 2, AWindow <- 1, ABlock <- 1, ASessionTTL <- 1, AMaxTime <- 0, AMaxFaults <- 0,
  SRows <- {1}, SNames <- {"n1"}, SUsers <- {"ann"}, SRolesOf <- [u \in {"ann"} |-> {"admin"}],
  SRequests <- Requests, SOps <- {"stop", "delete", "update"}, SMaxTime <- 3,
  CCalls <- {"downloadFile", "remove"}, CSignalled <- {"remove"},
  XJobs <- {}, XKeyOf <- <<>>, XPeople <- {1, 2}, XTokens <- {t1}, XCategories <- {"contacts"},
  XBatch <- 1, XMaxPreviews <- 1, XTokenTTL <- 1, XMaxDays <- 1, XMaxLookups <- 1, XMaxTime <- 2,
  GGroups <- {1}, GTitles <- {"n"}, GUsers <- Users, GSessions <- {"a", "b"}, GContacts <- {"c",
  "d"}, GSessionOf <- [t \in {"c", "d"} |-> IF t = "c" THEN "a" ELSE "b"], GPhoneOf <- [t \in
  {"c", "d"} |-> "e"], GPhones <- {"f"}, GRequests <- Requests,
  NSecrets <- {"s1"}, NChats <- {1, 2}, NChannels <- {"email", "telegram"}, NForms <- {r1},
  NMaxAttempts <- 3, NMaxSaves <- 1

(* one instance of each page, ... *)
P1 == INSTANCE PageProofs WITH
  VJobs <- {1, 2}, VStates <- (1 :> "scheduled") @@ (2 :> "cancelled"), VPageSize <- 1,
  VMaxChanges <- 2,
  DScopes <- AllScopes, DFirstScope <- "personal", DAdminIn <- {"personal"}, DCategories <-
  {"messages"}, DFirstCategory <- "messages", DSlots <- {"sessions", "lifecycle", "contact"},
  DTokened <- {"contact"}, DFree <- {}, DMaxCalls <- 2,
  PSessions <- {"a", "b"}, PFirstSession <- "a", PPhones <- {"f1"}, PElsewhere <- {"a", "b"} \X
  {"f1"}, PMaxCalls <- 1,
  KSessions <- {"a", "b"}, KFirstSession <- "a", KRefs <- {1, 2}, KAttempts <- 4, KMaxRetries <-
  1,
  QIds <- {1, 2}, QKnown <- {}, QDeeds <- {}, QPairs <- FALSE, QMaxPolls <- 1, QMaxMounts <- 1,
  QMaxCalls <- 1,
  WUsers <- {1, 2}, WSelf <- 1, WNew <- {}, WOps <- {"disable"}, WPageSize <- 1, WMaxLists <- 2,
  WKeys <- TRUE

(* ... another, ... *)
P2 == INSTANCE PageProofs WITH
  VJobs <- {1, 2}, VStates <- (1 :> "scheduled") @@ (2 :> "cancelled"), VPageSize <- 1,
  VMaxChanges <- 2,
  DScopes <- AllScopes, DFirstScope <- "personal", DAdminIn <- {"personal"}, DCategories <-
  {"messages"}, DFirstCategory <- "messages", DSlots <- {"controls", "lifecycle", "contact"},
  DTokened <- {"contact"}, DFree <- {}, DMaxCalls <- 2,
  PSessions <- {"a"}, PFirstSession <- "a", PPhones <- {"f1", "f2"}, PElsewhere <- {}, PMaxCalls
  <- 2,
  KSessions <- {"a", "b"}, KFirstSession <- "a", KRefs <- {1, 2}, KAttempts <- 4, KMaxRetries <-
  1,
  QIds <- {1, 2}, QKnown <- {1}, QDeeds <- {}, QPairs <- TRUE, QMaxPolls <- 1, QMaxMounts <- 2,
  QMaxCalls <- 2,
  WUsers <- {1, 2}, WSelf <- 1, WNew <- {}, WOps <- {"disable", "enable"}, WPageSize <- 1,
  WMaxLists <- 1, WKeys <- FALSE

(* ... a third, ... *)
P3 == INSTANCE PageProofs WITH
  VJobs <- {1, 2}, VStates <- (1 :> "scheduled") @@ (2 :> "cancelled"), VPageSize <- 1,
  VMaxChanges <- 2,
  DScopes <- AllScopes, DFirstScope <- "personal", DAdminIn <- AllScopes, DCategories <-
  {"messages"}, DFirstCategory <- "messages", DSlots <- {"preview", "purge"}, DTokened <- {},
  DFree <- {}, DMaxCalls <- 2,
  PSessions <- {"a"}, PFirstSession <- "a", PPhones <- {"f1", "f2"}, PElsewhere <- {}, PMaxCalls
  <- 2,
  KSessions <- {"a", "b"}, KFirstSession <- "a", KRefs <- {1, 2}, KAttempts <- 4, KMaxRetries <-
  1,
  QIds <- {1}, QKnown <- {1}, QDeeds <- {"start", "delete"}, QPairs <- TRUE, QMaxPolls <- 1,
  QMaxMounts <- 2, QMaxCalls <- 1,
  WUsers <- {1, 2}, WSelf <- 1, WNew <- {2}, WOps <- {"disable", "create"}, WPageSize <- 1,
  WMaxLists <- 1, WKeys <- FALSE

(* ... and a fourth *)
P4 == INSTANCE PageProofs WITH
  VJobs <- {1, 2}, VStates <- (1 :> "scheduled") @@ (2 :> "cancelled"), VPageSize <- 1,
  VMaxChanges <- 2,
  DScopes <- AllScopes, DFirstScope <- "personal", DAdminIn <- {"personal"}, DCategories <-
  {"messages", "contacts"}, DFirstCategory <- "messages", DSlots <- {"alerts", "send"}, DTokened
  <- {}, DFree <- {"send"}, DMaxCalls <- 2,
  PSessions <- {"a"}, PFirstSession <- "a", PPhones <- {"f1", "f2"}, PElsewhere <- {}, PMaxCalls
  <- 2,
  KSessions <- {"a", "b"}, KFirstSession <- "a", KRefs <- {1, 2}, KAttempts <- 4, KMaxRetries <-
  1,
  QIds <- {1}, QKnown <- {1}, QDeeds <- {"start", "delete"}, QPairs <- TRUE, QMaxPolls <- 1,
  QMaxMounts <- 2, QMaxCalls <- 1,
  WUsers <- {1, 2}, WSelf <- 1, WNew <- {}, WOps <- {"grant", "reset"}, WPageSize <- 1,
  WMaxLists <- 1, WKeys <- FALSE

(* one instance of each part that reads, ... *)
R1 == INSTANCE ReadProofs WITH
  HPositions <- {1, 2, 3}, HBatch <- 2, HLids <- {"l1", "l2"}, HPrefix <- {<<"l1", "l2">>},
  EJobs <- {1, 2, 3}, ESessionOf <- [j \in {1, 2, 3} |-> IF j = 2 THEN "b" ELSE "a"], EPhoneOf
  <- [j \in {1, 2, 3} |-> "f"], ETextHits <- {1, 3}, EPageSize <- 1, ECap <- 2, EMaxChanges <- 2,
  YZones <- {[at |-> 12, before |-> -4, after |-> -2], [at |-> 12, before |-> -2, after |->
  -4]}, YInstants <- 8..13, YDay <- 8, YGrain <- 2,
  ISessions <- {"a"}, IJobs <- {"j"}, ISessionOf <- [x \in {"j", "e"} |-> "a"], IEnvelopes <-
  {"e"}, IMaxTime <- 1, IMaxAttempts <- 2, IMaxChanges <- 1, IMaxWindow <- 2, IFroms <- {None,
  0}, ITos <- {None, 2}

(* ... and another of those that need two *)
R2 == INSTANCE ReadProofs WITH
  HPositions <- {1, 2, 3}, HBatch <- 2, HLids <- {"l1", "l2"}, HPrefix <- {<<"l1", "l2">>},
  EJobs <- {1, 2, 3}, ESessionOf <- [j \in {1, 2, 3} |-> IF j = 2 THEN "b" ELSE "a"], EPhoneOf
  <- [j \in {1, 2, 3} |-> "f"], ETextHits <- {1, 3}, EPageSize <- 1, ECap <- 2, EMaxChanges <- 2,
  YZones <- {[at |-> 12, before |-> 2, after |-> 4], [at |-> 12, before |-> 4, after |-> 2]},
  YInstants <- 11..16, YDay <- 8, YGrain <- 2,
  ISessions <- {"a", "b"}, IJobs <- {"j"}, ISessionOf <- [x \in {"j", "e"} |-> IF x = "e" THEN
  "b" ELSE "a"], IEnvelopes <- {"e"}, IMaxTime <- 0, IMaxAttempts <- 1, IMaxChanges <- 1,
  IMaxWindow <- 1, IFroms <- {0}, ITos <- {1}

WithoutAccounts ==
  /\ aUser = None /\ aToken = None /\ aLimit = None /\ aLock = None /\ aRequest = None
  /\ aNow = None /\ aFaults = None /\ aBootstrapped = None /\ aExamined = None
WithoutSessions ==
  /\ sSession = None /\ sGranted = None /\ sReferred = None /\ sWaha = None /\ sEvents = None
  /\ sRequest = None /\ sNow = None /\ sLost = None /\ sOvertaken = None
WithoutWahaClient ==
  /\ cCall = None /\ cCancelled = None /\ cCarriedOut = None
WithoutArchive ==
  /\ xJob = None /\ xAttempted = None /\ xReferred = None /\ xContact = None /\ xPolicy = None
  /\ xPreviews = None /\ xPurge = None /\ xBackup = None /\ xSending = None /\ xAsked = None
  /\ xNow = None /\ xSent = None /\ xRevived = None /\ xDeleted = None /\ xDecided = None
  /\ xReverted = None /\ xOvertaken = None /\ xBegun = None
WithoutContactGroups ==
  /\ gGroup = None /\ gMember = None /\ gContacts = None /\ gUsed = None /\ gRequest = None
  /\ gJoined = None /\ gEmptied = None
WithoutNotifications ==
  /\ nSetting = None /\ nPreferred = None /\ nForm = None /\ nSaves = None /\ nTyped = None
  /\ nStale = None /\ nRow = None /\ nRun = None /\ nReceived = None /\ nLate = None
  /\ nAudits = None
WithoutChats ==
  /\ hChat = None /\ hStep = None /\ hInFlight = None /\ hQueue = None /\ hPhones = None
  /\ hNames = None /\ hAsked = None /\ hView = None /\ hText = None
WithoutHistoryView ==
  /\ vStored = None /\ vQuery = None /\ vHistory = None /\ vSelected = None /\ vDetail = None
  /\ vAction = None /\ vOpen = None /\ vConfirming = None /\ vRequest = None /\ vGone = None
  /\ vBehind = None /\ vVerdictOf = None /\ vUnasked = None
WithoutDashboard ==
  /\ dScope = None /\ dCategory = None /\ dPrincipal = None /\ dScreen = None /\ dRequest = None
  /\ dCookie = None /\ dPreviews = None /\ dDeleted = None /\ dAgreed = None
WithoutRecipient ==
  /\ pSession = None /\ pTyped = None /\ pLookup = None /\ pChange = None /\ pContactSlot = None
  /\ pConsentSlot = None /\ pSendSlot = None /\ pCalls = None /\ pConsent = None
  /\ pUnsure = None /\ pForgotten = None
WithoutSentHistory ==
  /\ eJob = None /\ eGrants = None /\ eRole = None /\ eContacts = None /\ eChanges = None
  /\ eListing = None /\ eRequest = None /\ ePages = None /\ eDetail = None /\ eCould = None
  /\ eStayed = None /\ eLost = None /\ eGrown = None
WithoutChatDirectory ==
  /\ kSession = None /\ kChats = None /\ kOpen = None /\ kMessages = None /\ kCalls = None
  /\ kTimer = None /\ kWarm = None /\ kTries = None /\ kAgain = None /\ kStray = None
  /\ kWarmed = None
WithoutSessionPage ==
  /\ qStored = None /\ qLast = None /\ qList = None /\ qPage = None /\ qCreate = None
  /\ qLifecycle = None /\ qPanel = None /\ qRun = None /\ qCall = None /\ qMounts = None
  /\ qStarted = None /\ qMoved = None
WithoutUserAccess ==
  /\ wStored = None /\ wUsers = None /\ wFilter = None /\ wMenus = None /\ wModal = None
  /\ wAction = None /\ wCall = None /\ wLists = None /\ wOthers = None /\ wKeyed = None
  /\ wOvertaken = None /\ wUnseen = None
WithoutScheduleTime ==
  /\ yJob = None /\ yShown = None /\ yForm = None /\ yRequest = None
WithoutAnalytics ==
  /\ iNow = None /\ iStored = None /\ iGranted = None /\ iJob = None /\ iAttempts = None
  /\ iEvents = None /\ iRequest = None

Init ==
  /\ part \in Parts
  /\ IF part = "logins" THEN S1!A!Init ELSE IF part = "accounts" THEN S2!A!Init ELSE WithoutAccounts
  /\ IF part = "sessions" THEN S1!S!Init ELSE IF part = "overlapping calls" THEN S2!S!Init ELSE WithoutSessions
  /\ IF part = "texts" THEN S1!C!Init ELSE IF part = "files" THEN S2!C!Init ELSE WithoutWahaClient
  /\ IF part = "jobs kept" THEN S1!X!Init ELSE IF part = "contacts kept" THEN S2!X!Init ELSE WithoutArchive
  /\ IF part = "groups" THEN S1!G!Init ELSE WithoutContactGroups
  /\ IF part = "settings" THEN S1!N!Init ELSE IF part = "delivery" THEN S2!N!Init ELSE WithoutNotifications
  /\ IF part = "chats" THEN R1!H!Init ELSE WithoutChats
  /\ IF part = "history" THEN P1!V!Init ELSE WithoutHistoryView
  /\ IF part = "loading" THEN P1!D!Init ELSE IF part = "controls" THEN P2!D!Init ELSE IF part = "purging" THEN P3!D!Init ELSE IF part = "alerts" THEN P4!D!Init ELSE WithoutDashboard
  /\ IF part = "recipients" THEN P1!P!Init ELSE IF part = "numbers" THEN P2!P!Init ELSE WithoutRecipient
  /\ IF part = "sent history" THEN R1!E!Init ELSE WithoutSentHistory
  /\ IF part = "chat directory" THEN P1!K!Init ELSE WithoutChatDirectory
  /\ IF part = "two linked" THEN P1!Q!Init ELSE IF part = "linking" THEN P2!Q!Init ELSE IF part = "commands" THEN P3!Q!Init ELSE WithoutSessionPage
  /\ IF part = "users" THEN P1!W!Init ELSE IF part = "enabling" THEN P2!W!Init ELSE IF part = "new users" THEN P3!W!Init ELSE IF part = "grants" THEN P4!W!Init ELSE WithoutUserAccess
  /\ IF part = "west" THEN R1!Y!Init ELSE IF part = "east" THEN R2!Y!Init ELSE WithoutScheduleTime
  /\ IF part = "figures" THEN R1!I!Init ELSE IF part = "readers" THEN R2!I!Init ELSE WithoutAnalytics

Next ==
  /\ UNCHANGED part
  /\ IF part = "logins" THEN S1!A!Next ELSE IF part = "accounts" THEN S2!A!Next ELSE UNCHANGED aVars
  /\ IF part = "sessions" THEN S1!S!Next ELSE IF part = "overlapping calls" THEN S2!S!Next ELSE UNCHANGED sVars
  /\ IF part = "texts" THEN S1!C!Next ELSE IF part = "files" THEN S2!C!Next ELSE UNCHANGED cVars
  /\ IF part = "jobs kept" THEN S1!X!Next ELSE IF part = "contacts kept" THEN S2!X!Next ELSE UNCHANGED xVars
  /\ IF part = "groups" THEN S1!G!Next ELSE UNCHANGED gVars
  /\ IF part = "settings" THEN S1!N!Next ELSE IF part = "delivery" THEN S2!N!Next ELSE UNCHANGED nVars
  /\ IF part = "chats" THEN R1!H!Next ELSE UNCHANGED hVars
  /\ IF part = "history" THEN P1!V!Next ELSE UNCHANGED vVars
  /\ IF part = "loading" THEN P1!D!Next ELSE IF part = "controls" THEN P2!D!Next ELSE IF part = "purging" THEN P3!D!Next ELSE IF part = "alerts" THEN P4!D!Next ELSE UNCHANGED dVars
  /\ IF part = "recipients" THEN P1!P!Next ELSE IF part = "numbers" THEN P2!P!Next ELSE UNCHANGED pVars
  /\ IF part = "sent history" THEN R1!E!Next ELSE UNCHANGED eVars
  /\ IF part = "chat directory" THEN P1!K!Next ELSE UNCHANGED kVars
  /\ IF part = "two linked" THEN P1!Q!Next ELSE IF part = "linking" THEN P2!Q!Next ELSE IF part = "commands" THEN P3!Q!Next ELSE UNCHANGED qVars
  /\ IF part = "users" THEN P1!W!Next ELSE IF part = "enabling" THEN P2!W!Next ELSE IF part = "new users" THEN P3!W!Next ELSE IF part = "grants" THEN P4!W!Next ELSE UNCHANGED wVars
  /\ IF part = "west" THEN R1!Y!Next ELSE IF part = "east" THEN R2!Y!Next ELSE UNCHANGED yVars
  /\ IF part = "figures" THEN R1!I!Next ELSE IF part = "readers" THEN R2!I!Next ELSE UNCHANGED iVars

vars == <<part, aVars, sVars, cVars, xVars, gVars, nVars, hVars, vVars, dVars, pVars, eVars, kVars, qVars, wVars, yVars, iVars>>
Spec == Init /\ [][Next]_vars

(* The assumptions of the proofs, about the constants of the instances. *)
ASSUME PartsAssumption ==
  /\ S1!AccountsAssumption /\ S2!AccountsAssumption
  /\ S1!SessionsAssumption /\ S2!SessionsAssumption
  /\ S1!ClientAssumption /\ S2!ClientAssumption
  /\ S1!ArchiveAssumption /\ S2!ArchiveAssumption
  /\ S1!GroupsAssumption
  /\ S1!NotificationsAssumption /\ S2!NotificationsAssumption
  /\ R1!ChatsAssumption
  /\ P1!HistoryViewAssumption
  /\ P1!DashboardAssumption /\ P2!DashboardAssumption /\ P3!DashboardAssumption /\ P4!DashboardAssumption
  /\ P1!RecipientAssumption /\ P2!RecipientAssumption
  /\ R1!SentHistoryAssumption
  /\ P1!ChatDirectoryAssumption
  /\ P1!SessionPageAssumption /\ P2!SessionPageAssumption /\ P3!SessionPageAssumption
  /\ P1!UserAccessAssumption /\ P2!UserAccessAssumption /\ P3!UserAccessAssumption /\ P4!UserAccessAssumption
  /\ R1!ScheduleTimeAssumption /\ R2!ScheduleTimeAssumption
  /\ R1!AnalyticsAssumption /\ R2!AnalyticsAssumption

Symmetry == Permutations(Requests) \cup Permutations(Users)
MCParts ==
  {"logins", "accounts", "sessions", "overlapping calls", "texts", "files", "jobs kept",
  "contacts kept", "groups", "settings", "delivery", "chats", "history", "loading", "controls",
  "purging", "alerts", "recipients", "numbers", "sent history", "chat directory", "two linked",
  "linking", "commands", "users", "enabling", "new users", "grants", "west", "east", "figures",
  "readers"}

(* The properties of the parts, each stated with its reasons in its module.  *)

(* Accounts, logins and the limiter (auth/). *)
AccountsInv ==
  /\ part = "logins" => S1!A!AccountsInv
  /\ part = "accounts" => S2!A!AccountsInv

(* Accounts are changed by administrators (auth/admin.ts). *)
ChangesByAdmins == [][part = "accounts" => S2!A!ChangedByAdmin]_vars

(* Sessions and their rows (waha/sessions.ts). *)
SessionsInv ==
  /\ part = "sessions" => S1!S!SessionsInv
  /\ part = "overlapping calls" => S2!S!SessionsInv

(* The status shown of a session (waha/sessions.ts, webhook.ts). *)
StatusShown ==
  /\ part = "sessions" => S1!S!StatusShown
  /\ part = "overlapping calls" => S2!S!StatusShown

(* Calls to WAHA with their time limit and signal (waha/adapter.ts). *)
ClientInv ==
  /\ part = "texts" => S1!C!ClientInv
  /\ part = "files" => S2!C!ClientInv

(* Purge, backup and restore (retention/, backup/). *)
ArchiveInv ==
  /\ part = "jobs kept" => S1!X!ArchiveInv
  /\ part = "contacts kept" => S2!X!ArchiveInv

(* Contact groups (db/repositories/contact-groups.ts). *)
GroupsInv == part = "groups" => S1!G!GroupsInv

(* Notification settings and deliveries (notifications/). *)
NotificationsInv ==
  /\ part = "settings" => S1!N!NotificationsInv
  /\ part = "delivery" => S2!N!NotificationsInv

(* The page of the message history (web: schedule-history-controller.ts). *)
HistoryViewInv == part = "history" => P1!V!HistoryViewInv

(* The controllers of the web application (web: dashboard-controller.ts). *)
DashboardInv ==
  /\ part = "loading" => P1!D!DashboardInv
  /\ part = "controls" => P2!D!DashboardInv
  /\ part = "purging" => P3!D!DashboardInv
  /\ part = "alerts" => P4!D!DashboardInv

(* The choice of a recipient (web: recipient-selector-state.ts). *)
RecipientInv ==
  /\ part = "recipients" => P1!P!RecipientInv
  /\ part = "numbers" => P2!P!RecipientInv

(* More pages: the directory of chats (web: chat-directory.tsx), the page of *)
(* sessions (web: session-page.tsx, session-connect-panel.tsx) and the page  *)
(* of users (web: user-access-page.tsx; auth/admin.ts).                      *)
PagesInv ==
  /\ part = "chat directory" => P1!K!DirectoryInv
  /\ part = "two linked" => P1!Q!SessionPageInv
  /\ part = "linking" => P2!Q!SessionPageInv
  /\ part = "commands" => P3!Q!SessionPageInv
  /\ part = "users" => P1!W!UserAccessInv
  /\ part = "enabling" => P2!W!UserAccessInv
  /\ part = "new users" => P3!W!UserAccessInv
  /\ part = "grants" => P4!W!UserAccessInv

(* What is read of several sources: lists of chats and previews of messages  *)
(* (waha/sessions.ts), the history of messages sent (sent-history.ts), the   *)
(* time in the dialog of a schedule (wall-clock.ts) and the figures of a     *)
(* scope (analytics/).                                                       *)
ReadsInv ==
  /\ part = "chats" => R1!H!ChatsInv
  /\ part = "sent history" => R1!E!SentHistoryInv
  /\ part = "west" => R1!Y!ScheduleTimeInv
  /\ part = "east" => R2!Y!ScheduleTimeInv
  /\ part = "figures" => R1!I!AnalyticsInv
  /\ part = "readers" => R2!I!AnalyticsInv
=============================================================================
