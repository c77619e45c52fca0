----------------------------- MODULE PartsProofs -----------------------------
(***************************************************************************)
(* The invariants that the run of MCParts checks, proved of its instances: *)
(* a behaviour takes the steps of one part and leaves the others alone, so *)
(* each follows from the inductive invariant of its part, proved for every *)
(* value of the constants in ServerProofs, PageProofs and ReadProofs.       *)
(***************************************************************************)
EXTENDS MCParts, TLAPS

(* Accounts: one bootstrap, roles for every user, and no more passwords       *)
(* examined in a window than the limiter and the requests under way allow.   *)
THEOREM AccountsOfParts ==
  Spec => []AccountsInv
<1> DEFINE Inv == /\ part = "logins" => S1!AccountsIInv
                  /\ part = "accounts" => S2!AccountsIInv
<1>1. Init => Inv
  BY PartsAssumption, S1!InitAccounts, S2!InitAccounts DEF Init
<1>2. Inv /\ [Next]_vars => Inv'
  <2> SUFFICES ASSUME Inv, [Next]_vars PROVE Inv'
    OBVIOUS
  <2>1. /\ part' = part
        /\ part = "logins" => [S1!A!Next]_(S1!A!vars)
        /\ part = "accounts" => [S2!A!Next]_(S2!A!vars)
    BY DEF Next, vars, aVars, S1!A!vars, S2!A!vars
  <2> QED
    BY <2>1, PartsAssumption, S1!NextAccounts, S2!NextAccounts
<1>3. Inv => AccountsInv
  BY PartsAssumption, S1!AccountsSuffices, S2!AccountsSuffices DEF AccountsInv
<1> QED
  BY <1>1, <1>2, <1>3, PTL DEF Spec

(* Sessions: nothing refers to a row that is gone, a row has its session at   *)
(* WAHA or waits to be removed, and the two policies agree.                  *)
THEOREM SessionsOfParts ==
  Spec => []SessionsInv
<1> DEFINE Inv == /\ part = "sessions" => S1!SessionsIInv
                  /\ part = "overlapping calls" => S2!SessionsIInv
<1>1. Init => Inv
  BY PartsAssumption, S1!InitSessions, S2!InitSessions DEF Init
<1>2. Inv /\ [Next]_vars => Inv'
  <2> SUFFICES ASSUME Inv, [Next]_vars PROVE Inv'
    OBVIOUS
  <2>1. /\ part' = part
        /\ part = "sessions" => [S1!S!Next]_(S1!S!vars)
        /\ part = "overlapping calls" => [S2!S!Next]_(S2!S!vars)
    BY DEF Next, vars, sVars, S1!S!vars, S2!S!vars
  <2> QED
    BY <2>1, PartsAssumption, S1!NextSessions, S2!NextSessions
<1>3. Inv => SessionsInv
  BY PartsAssumption, S1!SessionsSuffices, S2!SessionsSuffices DEF SessionsInv
<1> QED
  BY <1>1, <1>2, <1>3, PTL DEF Spec

(* A row shows the newest status it can know, in whatever order calls and     *)
(* events store theirs.                                                      *)
THEOREM StatusOfParts ==
  Spec => []StatusShown
<1> DEFINE Inv == /\ part = "sessions" => S1!SessionsIInv
                  /\ part = "overlapping calls" => S2!SessionsIInv
<1>1. Init => Inv
  BY PartsAssumption, S1!InitSessions, S2!InitSessions DEF Init
<1>2. Inv /\ [Next]_vars => Inv'
  <2> SUFFICES ASSUME Inv, [Next]_vars PROVE Inv'
    OBVIOUS
  <2>1. /\ part' = part
        /\ part = "sessions" => [S1!S!Next]_(S1!S!vars)
        /\ part = "overlapping calls" => [S2!S!Next]_(S2!S!vars)
    BY DEF Next, vars, sVars, S1!S!vars, S2!S!vars
  <2> QED
    BY <2>1, PartsAssumption, S1!NextSessions, S2!NextSessions
<1>3. Inv => StatusShown
  BY PartsAssumption, S1!SessionsSuffices, S2!SessionsSuffices DEF StatusShown
<1> QED
  BY <1>1, <1>2, <1>3, PTL DEF Spec

(* Calls to WAHA: true outcomes, no timer or listener left behind, and a      *)
(* message recorded failed only if WAHA dealt with it.                       *)
THEOREM ClientOfParts ==
  Spec => []ClientInv
<1> DEFINE Inv == /\ part = "texts" => S1!ClientIInv
                  /\ part = "files" => S2!ClientIInv
<1>1. Init => Inv
  BY PartsAssumption, S1!InitClient, S2!InitClient DEF Init
<1>2. Inv /\ [Next]_vars => Inv'
  <2> SUFFICES ASSUME Inv, [Next]_vars PROVE Inv'
    OBVIOUS
  <2>1. /\ part' = part
        /\ part = "texts" => [S1!C!Next]_(S1!C!vars)
        /\ part = "files" => [S2!C!Next]_(S2!C!vars)
    BY DEF Next, vars, cVars, S1!C!vars, S2!C!vars
  <2> QED
    BY <2>1, PartsAssumption, S1!NextClient, S2!NextClient
<1>3. Inv => ClientInv
  BY PartsAssumption, S1!ClientSuffices, S2!ClientSuffices DEF ClientInv
<1> QED
  BY <1>1, <1>2, <1>3, PTL DEF Spec

(* Purge, backup and restore: an undisturbed purge deletes as many as were     *)
(* previewed, and consent withdrawn or a message sent comes back only by a     *)
(* restore, a deletion, or a lookup that a purge overtook.                     *)
THEOREM ArchiveOfParts ==
  Spec => []ArchiveInv
<1> DEFINE Inv == /\ part = "jobs kept" => S1!ArchiveIInv
                  /\ part = "contacts kept" => S2!ArchiveIInv
<1>1. Init => Inv
  BY PartsAssumption, S1!InitArchive, S2!InitArchive DEF Init
<1>2. Inv /\ [Next]_vars => Inv'
  <2> SUFFICES ASSUME Inv, [Next]_vars PROVE Inv'
    OBVIOUS
  <2>1. /\ part' = part
        /\ part = "jobs kept" => [S1!X!Next]_(S1!X!vars)
        /\ part = "contacts kept" => [S2!X!Next]_(S2!X!vars)
    BY DEF Next, vars, xVars, S1!X!vars, S2!X!vars, S1!X!jobVars, S2!X!jobVars, S1!X!contactVars, S2!X!contactVars, S1!X!purgeVars, S2!X!purgeVars
  <2> QED
    BY <2>1, PartsAssumption, S1!NextArchive, S2!NextArchive
<1>3. Inv => ArchiveInv
  BY DEF ArchiveInv, S1!ArchiveIInv, S2!ArchiveIInv
<1> QED
  BY <1>1, <1>2, <1>3, PTL DEF Spec

(* Contact groups: references hold, names are unique, and a reaction finds     *)
(* each member at its own session, unless a delete stopped halfway.            *)
THEOREM GroupsOfParts ==
  Spec => []GroupsInv
<1> DEFINE Inv == part = "groups" => S1!GroupsIInv
<1>1. Init => Inv
  BY PartsAssumption, S1!InitGroups DEF Init
<1>2. Inv /\ [Next]_vars => Inv'
  <2> SUFFICES ASSUME Inv, [Next]_vars PROVE Inv'
    OBVIOUS
  <2>1. /\ part' = part
        /\ part = "groups" => [S1!G!Next]_(S1!G!vars)
    BY DEF Next, vars, gVars, S1!G!vars
  <2> QED
    BY <2>1, PartsAssumption, S1!NextGroups
<1>3. Inv => GroupsInv
  BY PartsAssumption, S1!GroupsSuffices DEF GroupsInv
<1> QED
  BY <1>1, <1>2, <1>3, PTL DEF Spec

(* Notifications: the secret typed last is stored, and what a delivery         *)
(* reports is what it did.                                                   *)
THEOREM NotificationsOfParts ==
  Spec => []NotificationsInv
<1> DEFINE Inv == /\ part = "settings" => S1!NotificationsIInv
                  /\ part = "delivery" => S2!NotificationsIInv
<1>1. Init => Inv
  BY PartsAssumption, S1!InitNotifications, S2!InitNotifications DEF Init
<1>2. Inv /\ [Next]_vars => Inv'
  <2> SUFFICES ASSUME Inv, [Next]_vars PROVE Inv'
    OBVIOUS
  <2>1. /\ part' = part
        /\ part = "settings" => [S1!N!Next]_(S1!N!vars)
        /\ part = "delivery" => [S2!N!Next]_(S2!N!vars)
    BY DEF Next, vars, nVars, S1!N!vars, S2!N!vars, S1!N!sVars, S2!N!sVars, S1!N!dVars, S2!N!dVars
  <2> QED
    BY <2>1, PartsAssumption, S1!NextNotifications, S2!NextNotifications
<1>3. Inv => NotificationsInv
  BY DEF NotificationsInv, S1!NotificationsIInv, S2!NotificationsIInv
<1> QED
  BY <1>1, <1>2, <1>3, PTL DEF Spec

(* The message history: the page and the detail are those asked for, whatever  *)
(* answers come late, and only what was confirmed is deleted.                *)
THEOREM HistoryViewOfParts ==
  Spec => []HistoryViewInv
<1> DEFINE Inv == part = "history" => P1!HistoryViewIInv
<1>1. Init => Inv
  BY PartsAssumption, P1!InitHistoryView DEF Init
<1>2. Inv /\ [Next]_vars => Inv'
  <2> SUFFICES ASSUME Inv, [Next]_vars PROVE Inv'
    OBVIOUS
  <2>1. /\ part' = part
        /\ part = "history" => [P1!V!Next]_(P1!V!vars)
    BY DEF Next, vars, vVars, P1!V!vars, P1!V!shown
  <2> QED
    BY <2>1, PartsAssumption, P1!NextHistoryView
<1>3. Inv => HistoryViewInv
  BY PartsAssumption, P1!HistoryViewSuffices DEF HistoryViewInv
<1> QED
  BY <1>1, <1>2, <1>3, PTL DEF Spec

(* The dashboard: what is shown and what may be submitted is of the scope and  *)
(* the right the operator has now.                                           *)
THEOREM DashboardOfParts ==
  Spec => []DashboardInv
<1> DEFINE Inv == /\ part = "loading" => P1!DashboardIInv
                  /\ part = "controls" => P2!DashboardIInv
                  /\ part = "purging" => P3!DashboardIInv
                  /\ part = "alerts" => P4!DashboardIInv
<1>1. Init => Inv
  BY PartsAssumption, P1!InitDashboard, P2!InitDashboard, P3!InitDashboard, P4!InitDashboard DEF Init
<1>2. Inv /\ [Next]_vars => Inv'
  <2> SUFFICES ASSUME Inv, [Next]_vars PROVE Inv'
    OBVIOUS
  <2>1. /\ part' = part
        /\ part = "loading" => [P1!D!Next]_(P1!D!vars)
        /\ part = "controls" => [P2!D!Next]_(P2!D!vars)
        /\ part = "purging" => [P3!D!Next]_(P3!D!vars)
        /\ part = "alerts" => [P4!D!Next]_(P4!D!vars)
    BY DEF Next, vars, dVars, P1!D!vars, P2!D!vars, P3!D!vars, P4!D!vars
  <2> QED
    BY <2>1, PartsAssumption, P1!NextDashboard, P2!NextDashboard, P3!NextDashboard, P4!NextDashboard
<1>3. Inv => DashboardInv
  BY PartsAssumption, P1!DashboardSuffices, P2!DashboardSuffices, P3!DashboardSuffices, P4!DashboardSuffices DEF DashboardInv
<1> QED
  BY <1>1, <1>2, <1>3, PTL DEF Spec

(* Choosing a recipient: the contact verified is the one chosen, and what is   *)
(* shown of his consent is what the server holds.                            *)
THEOREM RecipientOfParts ==
  Spec => []RecipientInv
<1> DEFINE Inv == /\ part = "recipients" => P1!RecipientIInv
                  /\ part = "numbers" => P2!RecipientIInv
<1>1. Init => Inv
  BY PartsAssumption, P1!InitRecipient, P2!InitRecipient DEF Init
<1>2. Inv /\ [Next]_vars => Inv'
  <2> SUFFICES ASSUME Inv, [Next]_vars PROVE Inv'
    OBVIOUS
  <2>1. /\ part' = part
        /\ part = "recipients" => [P1!P!Next]_(P1!P!vars)
        /\ part = "numbers" => [P2!P!Next]_(P2!P!vars)
    BY DEF Next, vars, pVars, P1!P!vars, P2!P!vars, P1!P!local, P2!P!local, P1!P!slots, P2!P!slots
  <2> QED
    BY <2>1, PartsAssumption, P1!NextRecipient, P2!NextRecipient
<1>3. Inv => RecipientInv
  BY PartsAssumption, P1!RecipientSuffices, P2!RecipientSuffices DEF RecipientInv
<1> QED
  BY <1>1, <1>2, <1>3, PTL DEF Spec

(* More pages: chats are those of the session asked for last, a session is    *)
(* linked once and starts as asked, and users are shown as they are stored.   *)
THEOREM PagesOfParts ==
  Spec => []PagesInv
<1> DEFINE Inv == /\ part = "chat directory" => P1!ChatDirectoryIInv
                  /\ part = "two linked" => P1!SessionPageIInv
                  /\ part = "linking" => P2!SessionPageIInv
                  /\ part = "commands" => P3!SessionPageIInv
                  /\ part = "users" => P1!UserAccessIInv
                  /\ part = "enabling" => P2!UserAccessIInv
                  /\ part = "new users" => P3!UserAccessIInv
                  /\ part = "grants" => P4!UserAccessIInv
<1>1. Init => Inv
  BY PartsAssumption,
     P1!InitChatDirectory,
     P1!InitSessionPage, P2!InitSessionPage, P3!InitSessionPage,
     P1!InitUserAccess, P2!InitUserAccess, P3!InitUserAccess, P4!InitUserAccess DEF Init
<1>2. Inv /\ [Next]_vars => Inv'
  <2> SUFFICES ASSUME Inv, [Next]_vars PROVE Inv'
    OBVIOUS
  <2>1. part' = part
    BY DEF Next, vars
  <2>2. /\ part = "chat directory" => [P1!K!Next]_(P1!K!vars)
    BY DEF Next, vars, kVars, P1!K!vars
  <2>3. /\ part = "two linked" => [P1!Q!Next]_(P1!Q!vars)
        /\ part = "linking" => [P2!Q!Next]_(P2!Q!vars)
        /\ part = "commands" => [P3!Q!Next]_(P3!Q!vars)
    BY DEF Next, vars, qVars, P1!Q!vars, P2!Q!vars, P3!Q!vars
  <2>4. /\ part = "users" => [P1!W!Next]_(P1!W!vars)
        /\ part = "enabling" => [P2!W!Next]_(P2!W!vars)
        /\ part = "new users" => [P3!W!Next]_(P3!W!vars)
        /\ part = "grants" => [P4!W!Next]_(P4!W!vars)
    BY DEF Next, vars, wVars, P1!W!vars, P2!W!vars, P3!W!vars, P4!W!vars
  <2> QED
    BY <2>1, <2>2, <2>3, <2>4, PartsAssumption,
       P1!NextChatDirectory,
       P1!NextSessionPage, P2!NextSessionPage, P3!NextSessionPage,
       P1!NextUserAccess, P2!NextUserAccess, P3!NextUserAccess, P4!NextUserAccess
<1>3. Inv => PagesInv
  BY PartsAssumption,
     P1!ChatDirectorySuffices,
     P1!SessionPageSuffices, P2!SessionPageSuffices, P3!SessionPageSuffices,
     P1!UserAccessSuffices, P2!UserAccessSuffices, P3!UserAccessSuffices, P4!UserAccessSuffices DEF PagesInv
<1> QED
  BY <1>1, <1>2, <1>3, PTL DEF Spec

(* What is read of several sources: the latest of each chat, a page of the    *)
(* history with a total and names of its own reads, a schedule as the dialog  *)
(* shows it, and figures that differ only as the order of the reads allows.   *)
THEOREM ReadsOfParts ==
  Spec => []ReadsInv
<1> DEFINE Inv == /\ part = "chats" => R1!ChatsIInv
                  /\ part = "sent history" => R1!SentHistoryIInv
                  /\ part = "west" => R1!ScheduleTimeIInv
                  /\ part = "east" => R2!ScheduleTimeIInv
                  /\ part = "figures" => R1!AnalyticsIInv
                  /\ part = "readers" => R2!AnalyticsIInv
<1>1. Init => Inv
  BY PartsAssumption,
     R1!InitChats,
     R1!InitSentHistory,
     R1!InitScheduleTime, R2!InitScheduleTime,
     R1!InitAnalytics, R2!InitAnalytics DEF Init
<1>2. Inv /\ [Next]_vars => Inv'
  <2> SUFFICES ASSUME Inv, [Next]_vars PROVE Inv'
    OBVIOUS
  <2>1. part' = part
    BY DEF Next, vars
  <2>2. /\ part = "chats" => [R1!H!Next]_(R1!H!vars)
    BY DEF Next, vars, hVars, R1!H!vars
  <2>3. /\ part = "sent history" => [R1!E!Next]_(R1!E!vars)
    BY DEF Next, vars, eVars, R1!E!vars
  <2>4. /\ part = "west" => [R1!Y!Next]_(R1!Y!vars)
        /\ part = "east" => [R2!Y!Next]_(R2!Y!vars)
    BY DEF Next, vars, yVars, R1!Y!vars, R2!Y!vars
  <2>5. /\ part = "figures" => [R1!I!Next]_(R1!I!vars)
        /\ part = "readers" => [R2!I!Next]_(R2!I!vars)
    BY DEF Next, vars, iVars, R1!I!vars, R2!I!vars
  <2> QED
    BY <2>1, <2>2, <2>3, <2>4, <2>5, PartsAssumption,
       R1!NextChats,
       R1!NextSentHistory,
       R1!NextScheduleTime, R2!NextScheduleTime,
       R1!NextAnalytics, R2!NextAnalytics
<1>3. Inv => ReadsInv
  BY PartsAssumption,
     R1!ChatsSuffices,
     R1!SentHistorySuffices,
     R1!ScheduleTimeSuffices, R2!ScheduleTimeSuffices,
     R1!AnalyticsSuffices, R2!AnalyticsSuffices DEF ReadsInv
<1> QED
  BY <1>1, <1>2, <1>3, PTL DEF Spec


(* An account that exists changes only by who manages it.                    *)
THEOREM AccountsOfPartsChange ==
  Spec => ChangesByAdmins
<1> DEFINE Inv == part = "accounts" => S2!AccountsIInv
<1>1. Init => Inv
  BY PartsAssumption, S2!InitAccounts DEF Init
<1>2. Inv /\ [Next]_vars => Inv' /\ [part = "accounts" => S2!A!ChangedByAdmin]_vars
  <2> SUFFICES ASSUME Inv, [Next]_vars PROVE Inv' /\ [part = "accounts" => S2!A!ChangedByAdmin]_vars
    OBVIOUS
  <2>1. /\ part' = part
        /\ part = "accounts" => [S2!A!Next]_(S2!A!vars)
    BY DEF Next, vars, aVars, S2!A!vars
  <2> QED
    BY <2>1, PartsAssumption, S2!NextAccounts, S2!NextChangesByAdmins
<1> QED
  BY <1>1, <1>2, PTL DEF Spec, ChangesByAdmins
=============================================================================
