------------------------------- MODULE Accounts -------------------------------
(***************************************************************************)
(* Users, their login sessions and the failure window of logins            *)
(* (src/apps/api/src/auth).  One action is one awaited statement or        *)
(* transaction of a request.  All logins come from one address, so one row *)
(* of auth_rate_limits is modelled; the random tokens are model values.    *)
(***************************************************************************)
EXTENDS Integers, FiniteSets

CONSTANTS
  Users,          \* the e-mail addresses users may have
  Tokens,         \* the random tokens login sessions may get
  Requests,       \* the requests that may be in progress together
  Passwords,      \* the passwords anyone may type
  None,
  MaxFailures,    \* MAX_FAILURES
  Window,         \* WINDOW_MS
  Block,          \* BLOCK_MS
  SessionTTL,     \* SESSION_TTL_MS
  MaxTime,        \* bound of the clock
  MaxFaults       \* bound of the statements that fail

VARIABLES
  user,           \* users joined with user_roles
  token,          \* auth_sessions
  limit,          \* the row of auth_rate_limits, or None
  lock,           \* who holds the bootstrap's advisory lock
  request,        \* the local variables of each request in progress
  now,            \* the clock
  faults,         \* statements that failed so far
  bootstrapped,   \* history: bootstraps that committed
  examined        \* history: wrong passwords examined in this failure window

vars == <<user, token, limit, lock, request, now, faults, bootstrapped, examined>>

Scopes == {"personal", "business"}
RoleNames == {"admin", "viewer"}
RoleRows == Scopes \X RoleNames
AllAdmin == Scopes \X {"admin"}

Absent == [state |-> "absent", roles |-> {}, password |-> None]
Unused == [state |-> "unused", user |-> None, until |-> 0]
(* nothing reads the other columns of a revoked row *)
Revoked == [Unused EXCEPT !.state = "revoked"]
Idle == [step |-> "idle", by |-> None, token |-> None, on |-> None, arg |-> None]

AdminSteps == {"create", "disable", "enable", "reset"}
Steps == {"idle", "bootRead", "bootInsert", "verify", "wrong", "clear", "issue", "revoke"}
         \cup AdminSteps

TypeOK ==
  /\ user \in [Users -> [state : {"absent", "active", "disabled"}, roles : SUBSET RoleRows,
                         password : Passwords \cup {None}]]
  /\ token \in [Tokens -> [state : {"unused", "live", "revoked"}, user : Users \cup {None},
                           until : 0..(MaxTime + SessionTTL)]]
  /\ \/ limit = None
     \/ limit \in [failures : 1..MaxFailures, since : 0..MaxTime, until : 0..(MaxTime + Block)]
  /\ lock \in Requests \cup {None}
  /\ \A r \in Requests : request[r].step \in Steps
  /\ now \in 0..MaxTime /\ faults \in 0..MaxFaults

Init ==
  /\ user = [u \in Users |-> Absent]
  /\ token = [t \in Tokens |-> Unused]
  /\ limit = None
  /\ lock = None
  /\ request = [r \in Requests |-> Idle]
  /\ now = 0
  /\ faults = 0
  /\ bootstrapped = 0
  /\ examined = 0

AtStep(r, s) == request[r].step = s
Become(r, rec) == request' = [request EXCEPT ![r] = rec]
Finish(r) == Become(r, Idle)
GoTo(r, s) == request' = [request EXCEPT ![r].step = s]

(* authenticate: the token's row joined with an active user, not expired. *)
Authenticated(t) ==
  /\ token[t].state = "live"
  /\ user[token[t].user].state = "active"
  /\ token[t].until > now

(* canManage and canDisable; a target without roles would let anyone pass. *)
CanManage(u, scope) == <<scope, "admin">> \in user[u].roles
CanDisable(u, target) == \A row \in user[target].roles : CanManage(u, row[1])

-----------------------------------------------------------------------------
(* The failure window.  A blocked row has until > 0. *)
Blocked(row, t) == row # None /\ row.until > t
Expired(row, t) == row # None /\ row.since < t - Window /\ (row.until = 0 \/ row.until < t)
Swept(row, t) == IF Expired(row, t) THEN None ELSE row

MutAfterFailure(row, t) ==
  LET kept == Swept(row, t) IN
  IF kept # None /\ kept.since + Window > t
  THEN [kept EXCEPT !.failures = 1,
                    !.until = IF kept.failures + 1 > MaxFailures THEN t + Block ELSE 0]
  ELSE [failures |-> 1, since |-> t, until |-> 0]

(* recordFailure inside its transaction.  After its window a row starts     *)
(* afresh, blocked or not.                                                  *)
AfterFailure(row, t) ==
  LET kept == Swept(row, t) IN
  IF kept # None /\ kept.since + Window > t
  THEN IF Blocked(kept, t) THEN kept
       ELSE [kept EXCEPT !.failures = @ + 1,
                         !.until = IF kept.failures + 1 >= MaxFailures THEN t + Block ELSE 0]
  ELSE [failures |-> 1, since |-> t, until |-> 0]

(* What is examined and not yet recorded when a window ends belongs to the  *)
(* next one.                                                                *)
WindowOver(row, t) == row = None \/ row.since + Window <= t
InFlight == Cardinality({r \in Requests : AtStep(r, "wrong")})

MutBootstrapLock(r, u, p) ==
  /\ AtStep(r, "idle")
  /\ lock' = r
  /\ Become(r, [Idle EXCEPT !.step = "bootRead", !.on = u, !.arg = p])
  /\ UNCHANGED <<user, token, limit, now, faults, bootstrapped, examined>>

-----------------------------------------------------------------------------
(* bootstrap: an advisory lock, the count of users, the inserts, commit. *)
BootstrapLock(r, u, p) ==
  /\ AtStep(r, "idle") /\ lock = None
  /\ lock' = r
  /\ Become(r, [Idle EXCEPT !.step = "bootRead", !.on = u, !.arg = p])
  /\ UNCHANGED <<user, token, limit, now, faults, bootstrapped, examined>>

BootstrapRead(r) ==
  /\ AtStep(r, "bootRead")
  /\ IF \E u \in Users : user[u].state # "absent"
     THEN Finish(r) /\ lock' = None
     ELSE GoTo(r, "bootInsert") /\ UNCHANGED lock
  /\ UNCHANGED <<user, token, limit, now, faults, bootstrapped, examined>>

BootstrapInsert(r) ==
  /\ AtStep(r, "bootInsert")
  /\ user' = [user EXCEPT ![request[r].on] =
                [state |-> "active", roles |-> AllAdmin, password |-> request[r].arg]]
  /\ bootstrapped' = bootstrapped + 1
  /\ lock' = None
  /\ GoTo(r, "issue")
  /\ UNCHANGED <<token, limit, now, faults, examined>>

-----------------------------------------------------------------------------
(* login: the limiter's check, the user's row and the password, the window, *)
(* and the new session.  A body that does not parse counts as a failure and *)
(* is never checked.                                                        *)
LoginCheck(r, u, p) ==
  /\ AtStep(r, "idle")
  /\ limit' = Swept(limit, now)
  /\ IF Blocked(limit', now) THEN UNCHANGED request
     ELSE Become(r, [Idle EXCEPT !.step = "verify", !.on = u, !.arg = p])
  /\ UNCHANGED <<user, token, lock, now, faults, bootstrapped, examined>>

LoginVerify(r) ==
  LET u == request[r].on
      right == user[u].state = "active" /\ user[u].password = request[r].arg IN
  /\ AtStep(r, "verify")
  /\ GoTo(r, IF right THEN "clear" ELSE "wrong")
  /\ examined' = IF right THEN examined ELSE examined + 1
  /\ UNCHANGED <<user, token, limit, lock, now, faults, bootstrapped>>

LoginWrong(r) ==
  /\ AtStep(r, "wrong")
  /\ limit' = AfterFailure(limit, now)
  /\ Finish(r)
  /\ examined' = IF WindowOver(limit, now) THEN InFlight ELSE examined
  /\ UNCHANGED <<user, token, lock, now, faults, bootstrapped>>

LoginMalformed ==
  /\ limit' = AfterFailure(limit, now)
  /\ examined' = IF WindowOver(limit, now) THEN InFlight ELSE examined
  /\ UNCHANGED <<user, token, lock, request, now, faults, bootstrapped>>

LoginClear(r) ==
  /\ AtStep(r, "clear")
  /\ limit' = None
  /\ examined' = InFlight
  /\ GoTo(r, "issue")
  /\ UNCHANGED <<user, token, lock, now, faults, bootstrapped>>

IssueSession(r, t) ==
  /\ AtStep(r, "issue") /\ token[t].state = "unused"
  /\ token' = [token EXCEPT ![t] = [state |-> "live", user |-> request[r].on,
                                    until |-> now + SessionTTL]]
  /\ Finish(r)
  /\ UNCHANGED <<user, limit, lock, now, faults, bootstrapped, examined>>

(* logout: the CSRF check finds the row unrevoked, then the row is revoked. *)
Logout(t) ==
  /\ token[t].state = "live"
  /\ token' = [token EXCEPT ![t] = Revoked]
  /\ UNCHANGED <<user, limit, lock, request, now, faults, bootstrapped, examined>>

-----------------------------------------------------------------------------
(* The administrator's requests: authenticate, permission and CSRF, then    *)
(* the statements.  arg is a password, or the role rows of a new user.      *)
MayAct(by, op, on, arg) ==
  CASE op = "create" -> \A row \in arg : CanManage(by, row[1])
    [] op = "reset" -> CanDisable(by, on)
    [] OTHER -> by # on /\ CanDisable(by, on)

(* The id of a user is random: a request names one that exists already, or  *)
(* one that nobody ever has, and then changes no user and no token.         *)
AdminStart(r, t, op, on, arg) ==
  /\ AtStep(r, "idle")
  /\ op # "create" => user[on].state # "absent"
  /\ Authenticated(t)
  /\ MayAct(token[t].user, op, on, arg)
  /\ Become(r, [step |-> op, by |-> token[t].user, token |-> t, on |-> on, arg |-> arg])
  /\ UNCHANGED <<user, token, limit, lock, now, faults, bootstrapped, examined>>

(* verifyCsrf, the last read before the statements, misses a revoked token *)
Refused(r) ==
  /\ request[r].step \in AdminSteps
  /\ token[request[r].token].state = "revoked"
  /\ Finish(r)
  /\ UNCHANGED <<user, token, limit, lock, now, faults, bootstrapped, examined>>

MutCreateUser(r, repeated) ==
  LET on == request[r].on IN
  /\ AtStep(r, "create")
  /\ user' = IF user[on].state # "absent" THEN user
             ELSE [user EXCEPT ![on] =
                     [state |-> "active", roles |-> IF repeated THEN {} ELSE request[r].arg,
                      password |-> CHOOSE p \in Passwords : TRUE]]
  /\ Finish(r)
  /\ UNCHANGED <<token, limit, lock, now, faults, bootstrapped, examined>>

(* createUser: the user and its roles in one transaction, which a taken     *)
(* e-mail address or a role row given twice rolls back.                     *)
CreateUser(r, repeated) ==
  LET on == request[r].on IN
  /\ AtStep(r, "create")
  /\ user' = IF user[on].state # "absent" \/ repeated THEN user
             ELSE [user EXCEPT ![on] = [state |-> "active", roles |-> request[r].arg,
                                        password |-> CHOOSE p \in Passwords : TRUE]]
  /\ Finish(r)
  /\ UNCHANGED <<token, limit, lock, now, faults, bootstrapped, examined>>

SetState(u, s) == [user EXCEPT ![u].state = s]
RevokedOf(u) == [t \in Tokens |-> IF token[t].user = u /\ token[t].state = "live"
                                  THEN Revoked ELSE token[t]]

DisableFlag(r) ==
  /\ AtStep(r, "disable")
  /\ user' = SetState(request[r].on, "disabled")
  /\ GoTo(r, "revoke")
  /\ UNCHANGED <<token, limit, lock, now, faults, bootstrapped, examined>>

DisableRevoke(r) ==
  /\ AtStep(r, "revoke")
  /\ token' = RevokedOf(request[r].on)
  /\ Finish(r)
  /\ UNCHANGED <<user, limit, lock, now, faults, bootstrapped, examined>>

EnableUser(r) ==
  /\ AtStep(r, "enable")
  /\ user' = SetState(request[r].on, "active")
  /\ Finish(r)
  /\ UNCHANGED <<token, limit, lock, now, faults, bootstrapped, examined>>

(* resetPassword: one transaction. *)
ResetPassword(r) ==
  LET on == request[r].on IN
  /\ AtStep(r, "reset")
  /\ user' = [user EXCEPT ![on].password = request[r].arg]
  /\ token' = RevokedOf(on)
  /\ Finish(r)
  /\ UNCHANGED <<limit, lock, now, faults, bootstrapped, examined>>

-----------------------------------------------------------------------------
(* A statement of a request fails, or writing its audit row does: the       *)
(* request ends, its transaction and lock with it.                          *)
Throw(r) ==
  /\ ~AtStep(r, "idle") /\ faults < MaxFaults
  /\ faults' = faults + 1
  /\ lock' = IF lock = r THEN None ELSE lock
  /\ Finish(r)
  /\ UNCHANGED <<user, token, limit, now, bootstrapped, examined>>

Advance ==
  /\ now < MaxTime
  /\ now' = now + 1
  /\ examined' = IF WindowOver(limit, now) # WindowOver(limit, now') THEN InFlight ELSE examined
  /\ UNCHANGED <<user, token, limit, lock, request, faults, bootstrapped>>

AdminInput(op) == IF op = "create" THEN {AllAdmin, {<<"personal", "viewer">>}}
                  ELSE IF op = "reset" THEN Passwords ELSE {None}

Next ==
  \/ \E r \in Requests :
       \/ \E u \in Users, p \in Passwords : BootstrapLock(r, u, p) \/ LoginCheck(r, u, p)
       \/ BootstrapRead(r) \/ BootstrapInsert(r)
       \/ LoginVerify(r) \/ LoginWrong(r) \/ LoginClear(r)
       \/ \E t \in Tokens : IssueSession(r, t)
       \/ \E t \in Tokens, op \in AdminSteps, on \in Users :
            \E arg \in AdminInput(op) : AdminStart(r, t, op, on, arg)
       \/ Refused(r)
       \/ \E repeated \in BOOLEAN : CreateUser(r, repeated)
       \/ DisableFlag(r) \/ DisableRevoke(r) \/ EnableUser(r) \/ ResetPassword(r)
       \/ Throw(r)
  \/ LoginMalformed
  \/ \E t \in Tokens : Logout(t)
  \/ Advance

Spec == Init /\ [][Next]_vars

-----------------------------------------------------------------------------
(* Bootstraps from several browsers at once: one commits (the lock and the  *)
(* count of users in bootstrap).                                            *)
BootstrapOnce == bootstrapped <= 1

(* No user lacks roles, whatever fails in createUser: canDisable asks for   *)
(* each of a target's scopes, and would hold of everyone for a user without *)
(* one.                                                                     *)
UsersHaveRoles == \A u \in Users : user[u].state # "absent" => user[u].roles # {}

(* A login is checked before and recorded after its password is examined,   *)
(* so requests that overlap may exceed the window's limit, but by no more   *)
(* than they are; a failure whose recording fails is not counted            *)
(* (check and recordFailure around login).                                  *)
ExaminedBounded ==
  examined <= MaxFailures - 1 + Cardinality(Requests) + faults

(* What keeps accounts in order at every moment. *)
AccountsInv == TypeOK /\ BootstrapOnce /\ UsersHaveRoles /\ ExaminedBounded

(* An account that exists changes only by a request whose principal manages *)
(* every scope in which the account has a role, and never by its own except *)
(* for a new password (the checks of /admin/users/:userId/...).             *)
ChangedByAdmin ==
  \A u \in Users : user[u].state # "absent" /\ user'[u] # user[u] =>
   \E r \in Requests :
     /\ request[r].step \in AdminSteps /\ request[r].on = u
     /\ user[u].roles # {}
     /\ \A row \in user[u].roles : CanManage(request[r].by, row[1])
     /\ user'[u].state # user[u].state => request[r].by # u
ChangesByAdmins == [][ChangedByAdmin]_vars
=============================================================================
