------------------------------- MODULE Sessions -------------------------------
(***************************************************************************)
(* WhatsApp sessions: rows of the database that stand for sessions at WAHA *)
(* (waha/sessions.ts and its routes, db/repositories/transport.ts), the    *)
(* grants on them, the rows that refer to them, and the status that calls  *)
(* and status events write.  WAHA is external: it changes by itself, sends *)
(* an event for each change, and a call may take effect while its answer   *)
(* is lost.  Two readings of a clock never give the same time.             *)
(***************************************************************************)
EXTENDS Integers, FiniteSets

CONSTANTS
  Rows,       \* ids a row of sessions may get
  Names,      \* names of sessions at WAHA
  Users,      \* principals, with the roles below
  RolesOf,    \* the roles of each principal in the scope
  Requests,   \* requests that may be in progress together
  Ops,        \* the operations they may be for, of those in Calls
  None,
  MaxTime     \* bound of the clock

VARIABLES
  session,        \* sessions: name at WAHA, status, status_occurred_at
  granted,    \* session_grants
  referred,   \* rows that campaigns refer to
  waha,       \* WAHA's own sessions: status and the time of its last change
  events,     \* status events on their way to the webhook
  request,    \* the local variables of each request in progress
  now,
  lost,       \* history: rows removed at WAHA and not in the database
  overtaken   \* history: rows whose last writer was, or that missed an event

vars == <<session, granted, referred, waha, events, request, now, lost, overtaken>>

Statuses == {"STOPPED", "WORKING"}
NoRow == [name |-> None, status |-> None, at |-> -1]
Gone == [status |-> None, at |-> -1]
Idle == [step |-> "idle", by |-> None, row |-> None, name |-> None, status |-> None, at |-> -1]

Exists(i) == session[i] # NoRow
AtStep(r, s) == request[r].step = s

(* The operations that are called at WAHA after the row and the grant were   *)
(* read; pairing brings a session up, and what only reads is left out.       *)
Actions == {"start", "stop", "restart", "logout", "delete"}
PairingSurfaces == {"requestPairingCode", "passkeyAssertion", "confirmPasskey"}
Calls == Actions \cup {"update"} \cup PairingSurfaces

(* A request is idle, about to call WAHA, or to store what WAHA answered. *)
Steps == Calls \cup {"idle", "insert", "grant", "write", "save", "remove"}

(* status_occurred_at is null (-1) until a status is saved *)
TypeOK ==
  /\ session \in [Rows -> [name : Names, status : Statuses, at : -1..MaxTime] \cup {NoRow}]
  /\ granted \subseteq Users \X Rows
  /\ referred \subseteq Rows
  /\ waha \in [Names -> [status : Statuses, at : 0..MaxTime] \cup {Gone}]
  /\ events \subseteq [name : Names, status : Statuses, at : 0..MaxTime]
  /\ \A r \in Requests : request[r].step \in Steps
  /\ now \in 0..MaxTime
  /\ lost \subseteq Rows /\ overtaken \subseteq Rows

Init ==
  /\ session = [i \in Rows |-> NoRow]
  /\ granted = {} /\ referred = {}
  /\ waha = [n \in Names |-> Gone]
  /\ events = {}
  /\ request = [r \in Requests |-> Idle]
  /\ now = 0
  /\ lost = {} /\ overtaken = {}

Become(r, rec) == request' = [request EXCEPT ![r] = rec]
Finish(r) == Become(r, Idle)
GoTo(r, s) == request' = [request EXCEPT ![r].step = s]

-----------------------------------------------------------------------------
(* Who may do what.  The two policies of the code: the session service's    *)
(* own, and authorizeSessionAction behind AuthService.authorize.            *)
IsAdmin(u) == "admin" \in RolesOf[u]
CanCommand(u) == IsAdmin(u) \/ "operator" \in RolesOf[u]

Authorized(u, i, need) ==
  /\ Exists(i) /\ <<u, i>> \in granted
  /\ need = "command" => CanCommand(u)

AuthorizeSessionAction(u, i, need, sameScope, active) ==
  /\ sameScope /\ active
  /\ <<u, i>> \in granted
  /\ need = "read" \/ "admin" \in RolesOf[u] \/ "operator" \in RolesOf[u]

(* lifecycle: logout and delete want an administrator and a confirmation *)
MayLifecycle(u, i, action, confirmed) ==
  /\ Authorized(u, i, "command")
  /\ action \in {"logout", "delete"} => confirmed /\ IsAdmin(u)

-----------------------------------------------------------------------------
(* WAHA changes session n now and sends its event. *)
WahaChange(n, s) ==
  /\ now < MaxTime
  /\ now' = now + 1
  /\ waha' = [waha EXCEPT ![n] = [status |-> s, at |-> now']]
  /\ events' = events \cup {[name |-> n, status |-> s, at |-> now']}

Spontaneous(n, s) ==
  /\ waha[n] # Gone /\ waha[n].status # s
  /\ WahaChange(n, s)
  /\ UNCHANGED <<session, granted, referred, request, lost, overtaken>>

(* What a call makes of WAHA's answer; Idle when the answer is lost. *)
Answer(r, rec, heard) == Become(r, IF heard THEN rec ELSE Idle)

-----------------------------------------------------------------------------
(* create: WAHA first, then the row, then its creator's grant.  WAHA refuses *)
(* a name it has.  The id of a row is random, none that a request holds.     *)
CreateAtWaha(r, u, n, heard) ==
  /\ AtStep(r, "idle") /\ IsAdmin(u)
  /\ waha[n] = Gone
  /\ WahaChange(n, "WORKING")
  /\ Answer(r, [Idle EXCEPT !.step = "insert", !.by = u, !.name = n, !.status = "WORKING",
                            !.at = now'], heard)
  /\ UNCHANGED <<session, granted, referred, lost, overtaken>>

CreateRow(r, i) ==
  /\ AtStep(r, "insert") /\ ~Exists(i) /\ \A q \in Requests : request[q].row # i
  /\ session' = [session EXCEPT ![i] = [name |-> request[r].name, status |-> request[r].status,
                                         at |-> -1]]
  /\ request' = [request EXCEPT ![r].step = "grant", ![r].row = i]
  /\ overtaken' = IF waha[request[r].name].at > request[r].at THEN overtaken \cup {i} ELSE overtaken
  /\ lost' = IF waha[request[r].name] = Gone THEN lost \cup {i} ELSE lost
  /\ UNCHANGED <<granted, referred, waha, events, now>>

(* sessionGrants.create refuses a grant on a row that is gone *)
CreateGrant(r) ==
  /\ AtStep(r, "grant")
  /\ granted' = IF Exists(request[r].row)
                THEN granted \cup {<<request[r].by, request[r].row>>} ELSE granted
  /\ Finish(r)
  /\ UNCHANGED <<session, referred, waha, events, now, lost, overtaken>>

(* AdminService.createGrant, for any user, by an administrator *)
AdminGrant(u, v, i) ==
  /\ IsAdmin(u) /\ Exists(i)
  /\ granted' = granted \cup {<<v, i>>}
  /\ UNCHANGED <<session, referred, waha, events, request, now, lost, overtaken>>

-----------------------------------------------------------------------------
(* authorized reads the row and the grant of a request, ...                  *)
ReadSurfaces == {"get", "history", "chats", "groups", "messages", "messageMedia", "metadata",
                 "timelock", "capping"}
CommandSurfaces == PairingSurfaces \cup {"addGroupParticipants", "qr", "passkeyChallenge",
                                         "passkeyConfirmation"}
NeedOf(op) == IF op \in ReadSurfaces THEN "read" ELSE "command"

MayCall(u, i, op) ==
  CASE op \in Actions  -> MayLifecycle(u, i, op, TRUE)
    [] op = "update"   -> IsAdmin(u) /\ Authorized(u, i, "read")
    [] OTHER           -> Authorized(u, i, NeedOf(op))

Begin(r, u, i, op) ==
  /\ AtStep(r, "idle") /\ MayCall(u, i, op)
  /\ Become(r, [Idle EXCEPT !.step = op, !.by = u, !.row = i, !.name = session[i].name])
  /\ UNCHANGED <<session, granted, referred, waha, events, now, lost, overtaken>>

(* ... and WAHA is called under the name of the row that was read, whatever  *)
(* became of it.  A name WAHA does not have is an error.                     *)
CallWaha(r, s, next, heard) ==
  LET q == request[r] IN
  /\ waha[q.name] # Gone
  /\ WahaChange(q.name, s)
  /\ Answer(r, [q EXCEPT !.step = next, !.status = s, !.at = now'], heard)
  /\ UNCHANGED <<session, granted, referred, lost, overtaken>>

(* start, stop, restart, logout: the status answered is saved with the time *)
Lifecycle(r, heard) ==
  /\ request[r].step \in Actions \ {"delete"}
  /\ CallWaha(r, IF request[r].step \in {"stop", "logout"} THEN "STOPPED" ELSE "WORKING",
              "save", heard)

(* pairing brings the session up, and nothing is stored *)
Pair(r) == request[r].step \in PairingSurfaces /\ CallWaha(r, "WORKING", "idle", FALSE)

(* update: WAHA restarts the session; the status is written without a time, *)
(* then saved with one.                                                     *)
Update(r, heard) == AtStep(r, "update") /\ CallWaha(r, "WORKING", "write", heard)

(* A write of an answer reflects WAHA unless WAHA changed since.  One that   *)
(* saves no time does not make up for an event the row missed.               *)
Late(i, at) == waha[session[i].name].at > at
Judge(i, at) == IF Late(i, at) THEN overtaken \cup {i} ELSE overtaken \ {i}

UpdateRow(r) ==
  LET q == request[r] IN
  /\ AtStep(r, "write")
  /\ IF Exists(q.row)
     THEN /\ session' = [session EXCEPT ![q.row].status = q.status]
          /\ overtaken' = overtaken \cup (IF Late(q.row, q.at) THEN {q.row} ELSE {})
     ELSE UNCHANGED <<session, overtaken>>
  /\ GoTo(r, "save")
  /\ UNCHANGED <<granted, referred, waha, events, now, lost>>

(* sessions.updateStatus: newer than what is stored, or nothing is stored *)
MutNewer(i, at) == Exists(i)
Newer(i, at) == Exists(i) /\ session[i].at < at

SaveStatus(r) ==
  LET q == request[r] IN
  /\ AtStep(r, "save") /\ now < MaxTime
  /\ now' = now + 1
  /\ IF Newer(q.row, now')
     THEN session' = [session EXCEPT ![q.row].status = q.status, ![q.row].at = now']
          /\ overtaken' = Judge(q.row, q.at)
     ELSE UNCHANGED <<session, overtaken>>
  /\ Finish(r)
  /\ UNCHANGED <<granted, referred, waha, events, lost>>

(* The webhook finds one row by the name at WAHA.  Two rows have a name when *)
(* it was deleted at WAHA only and created again; the other misses the event.*)
(* An old event may be the first that a row without a time sees.             *)
StatusEvent(e, i) ==
  LET missed == {j \in Rows \ {i} : session[j].name = e.name} IN
  /\ session[i].name = e.name
  /\ events' = events \ {e}
  /\ IF Newer(i, e.at)
     THEN session' = [session EXCEPT ![i].status = e.status, ![i].at = e.at]
          /\ overtaken' = missed \cup (IF session[i].at = -1 \/ waha[e.name].at <= e.at
                                     THEN Judge(i, e.at) ELSE overtaken)
     ELSE session' = session /\ overtaken' = overtaken \cup missed
  /\ UNCHANGED <<granted, referred, waha, request, now, lost>>

(* An event for a name no row has is refused for good. *)
StrayEvent(e) ==
  /\ \A i \in Rows : session[i].name # e.name
  /\ events' = events \ {e}
  /\ UNCHANGED <<session, granted, referred, waha, request, now, lost, overtaken>>

-----------------------------------------------------------------------------
(* delete: at WAHA, then in the database, where one transaction removes all  *)
(* that depends on the row and fails while a campaign refers to it.          *)
DeleteAtWaha(r, heard) ==
  LET n == request[r].name IN
  /\ AtStep(r, "delete")
  /\ waha' = [waha EXCEPT ![n] = Gone]
  /\ lost' = lost \cup {j \in Rows : session[j].name = n}
  /\ Answer(r, [request[r] EXCEPT !.step = "remove"], heard)
  /\ UNCHANGED <<session, granted, referred, events, now, overtaken>>

(* the session's row goes and what refers to it stays *)
MutRemoveRow(r) ==
  LET i == request[r].row IN
  /\ AtStep(r, "remove")
  /\ IF i \in referred THEN UNCHANGED <<session, granted, lost, overtaken>>
     ELSE /\ session' = [session EXCEPT ![i] = NoRow]
          /\ UNCHANGED granted
          /\ lost' = lost \ {i} /\ overtaken' = overtaken \ {i}
  /\ Finish(r)
  /\ UNCHANGED <<referred, waha, events, now>>

RemoveRow(r) ==
  LET i == request[r].row IN
  /\ AtStep(r, "remove")
  /\ IF i \in referred THEN UNCHANGED <<session, granted, lost, overtaken>>
     ELSE /\ session' = [session EXCEPT ![i] = NoRow]
          /\ granted' = {g \in granted : g[2] # i}
          /\ lost' = lost \ {i} /\ overtaken' = overtaken \ {i}
  /\ Finish(r)
  /\ UNCHANGED <<referred, waha, events, now>>

(* a campaign is made for the session, or the last one is removed *)
Refer(i) ==
  /\ Exists(i)
  /\ referred' = IF i \in referred THEN referred \ {i} ELSE referred \cup {i}
  /\ UNCHANGED <<session, granted, waha, events, request, now, lost, overtaken>>

(* A statement fails: a duplicate display name, a lost connection, audit.    *)
Throw(r) ==
  /\ ~AtStep(r, "idle")
  /\ Finish(r)
  /\ UNCHANGED <<session, granted, referred, waha, events, now, lost, overtaken>>

Next ==
  \/ \E r \in Requests, u \in Users :
       \/ \E n \in Names, heard \in BOOLEAN : CreateAtWaha(r, u, n, heard)
       \/ \E i \in Rows, op \in Ops : Begin(r, u, i, op)
  \/ \E r \in Requests, heard \in BOOLEAN :
       Lifecycle(r, heard) \/ Update(r, heard) \/ DeleteAtWaha(r, heard)
  \/ \E r \in Requests :
       \/ \E i \in Rows : CreateRow(r, i)
       \/ Pair(r)
       \/ CreateGrant(r) \/ UpdateRow(r) \/ SaveStatus(r) \/ RemoveRow(r) \/ Throw(r)
  \/ \E u, v \in Users, i \in Rows : AdminGrant(u, v, i)
  \/ \E n \in Names, s \in Statuses : Spontaneous(n, s)
  \/ \E e \in events : StrayEvent(e) \/ \E i \in Rows : StatusEvent(e, i)
  \/ \E i \in Rows : Refer(i)

Spec == Init /\ [][Next]_vars

-----------------------------------------------------------------------------
(* What refers to a session has its row: its grants and campaigns go with it *)
(* or keep it (the transaction of sessions.remove).                          *)
NothingDangles ==
  /\ \A g \in granted : Exists(g[2])
  /\ \A i \in referred : Exists(i)

(* A row without a session at WAHA is left over from a delete whose second   *)
(* half has not run (lifecycle): create makes the row last.                  *)
RowsAreBacked ==
  \A i \in Rows : Exists(i) /\ waha[session[i].name] = Gone => i \in lost

(* When no event is on its way, a row shows the status at WAHA, unless what  *)
(* was stored in it was late, or it missed an event: an old event never      *)
(* undoes a newer status, whatever requests are in between (saveStatus and   *)
(* the comparison of times in sessions.updateStatus).                        *)
StatusShown ==
  \A i \in Rows :
    /\ Exists(i) /\ waha[session[i].name] # Gone
    /\ \A e \in events : e.name # session[i].name
    => session[i].status = waha[session[i].name].status \/ i \in overtaken

(* The session service and authorizeSessionAction agree on every session in  *)
(* its own scope that is not disabled.                                       *)
PoliciesAgree ==
  \A u \in Users, i \in Rows, need \in {"read", "command"} :
    Exists(i) => (Authorized(u, i, need) <=> AuthorizeSessionAction(u, i, need, TRUE, TRUE))

SessionsInv == TypeOK /\ NothingDangles /\ RowsAreBacked /\ PoliciesAgree
=============================================================================
