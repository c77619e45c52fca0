------------------------------- MODULE UserAccess -------------------------------
(***************************************************************************)
(* The page of users and grants (user-access-page.tsx and its modals, with *)
(* admin-controller.ts behind it) and the list of users at the server      *)
(* (listUsers of auth/admin.ts, two reads).  A change closes whatever      *)
(* modal is open when it is answered and reads the list again; answers     *)
(* come in any order.                                                      *)
(***************************************************************************)
EXTENDS Integers, Sequences, FiniteSets

CONSTANTS
  Users,      \* user ids from 1, in the order of the list
  Self,       \* the administrator at the page
  New,        \* users that do not exist at first
  Ops,        \* the changes made
  PageSize,
  MaxLists,   \* bound on lists under way
  Keys,       \* the page is used with the keyboard too
  None

VARIABLES
  stored,     \* the users at the server: active, has the grant; or None
  users,      \* the list shown
  filter,     \* statusFilter and page
  menus,      \* users whose menu is open
  modal,      \* the modal open: its kind, the user it was opened for
  action,     \* one slot for each change
  call,       \* the change under way in each slot, or None
  lists,      \* lists under way, in the order they were asked for
  others,     \* an administrator elsewhere may still change something
  keyed,      \* history: a menu was opened or a modal changed with the keyboard
  overtaken,  \* history: the list shown was asked for before one shown earlier
  unseen      \* history: something changed that no list was asked for after

vars == <<stored, users, filter, menus, modal, action, call, lists, others, keyed, overtaken, unseen>>

Filters == {"all", "active", "disabled"}
Absent == [u \in Users |-> None]

TypeOK ==
  /\ \A u \in Users : stored[u] # None => stored[u] \in [active : BOOLEAN, granted : BOOLEAN]
  /\ users.kind \in {"loading", "ready", "error"}
  /\ filter.status \in Filters /\ filter.page \in 1..Cardinality(Users)
  /\ menus \subseteq Users
  /\ modal = None \/ (modal.kind \in Ops /\ modal.user \in Users \cup {None})
  /\ action \in [Ops -> {"idle", "submitting", "ready", "error"}]
  /\ \A o \in Ops : call[o] # None => call[o].verdict \in {None, "ready", "error"}
  /\ \A k \in 1..Len(lists) : lists[k].step \in {"users", "grants", "served"}

NewList == [step |-> "users", rows |-> Absent, late |-> FALSE]

Init ==
  /\ stored = [u \in Users |-> IF u \in New THEN None ELSE [active |-> TRUE, granted |-> FALSE]]
  /\ users = [kind |-> "loading", rows |-> Absent]
  /\ filter = [status |-> "all", page |-> 1]
  /\ menus = {} /\ modal = None
  /\ action = [o \in Ops |-> "idle"] /\ call = [o \in Ops |-> None]
  /\ lists = <<NewList>> /\ others = TRUE
  /\ keyed = FALSE /\ overtaken = FALSE /\ unseen = FALSE

-----------------------------------------------------------------------------
(* filtered, pageCount, safePage, paged *)
Passes(row, status) ==
  row # None /\ (status = "active" => row.active) /\ (status = "disabled" => ~row.active)
Filtered(rows, f) == {u \in Users : Passes(rows[u], f.status)}
Least(a, b) == IF a < b THEN a ELSE b
Most(a, b) == IF a > b THEN a ELSE b
PageCount(n) == Most(1, (n + PageSize - 1) \div PageSize)
SafePage(f, n) == Least(f.page, PageCount(n))
Paged(rows, f) ==
  LET s == Filtered(rows, f)  p == SafePage(f, Cardinality(s)) IN
  {u \in s : Cardinality({v \in s : v < u}) \div PageSize = p - 1}

Busy == \E o \in Ops : action[o] = "submitting"
Remote == <<stored, call, lists, others, overtaken, unseen>>

(* a menu goes with its row *)
Rerendered(rows, f) == menus' = menus \cap Paged(rows, f)

(* A pointer closes the menus and reaches nothing behind a modal, which      *)
(* traps no focus: the keyboard reaches everything.                          *)
Reached(key) == (key => Keys) /\ (~key => modal = None)

SetFilter(status, key) ==
  /\ Reached(key)
  /\ filter' = [status |-> status, page |-> 1]
  /\ IF key THEN Rerendered(users.rows, filter') ELSE menus' = {}
  /\ UNCHANGED <<users, modal, action, keyed, Remote>>

TurnPage(d, key) ==
  LET n == Cardinality(Filtered(users.rows, filter)) IN
  /\ Reached(key) /\ SafePage(filter, n) + d \in 1..PageCount(n)
  /\ filter' = [filter EXCEPT !.page = SafePage(filter, n) + d]
  /\ IF key THEN Rerendered(users.rows, filter') ELSE menus' = {}
  /\ UNCHANGED <<users, modal, action, keyed, Remote>>

Pointed(key) == Reached(key) /\ keyed' = (keyed \/ key)

OpenMenu(u, key) ==
  /\ u \in Paged(users.rows, filter) \ menus /\ ~Busy /\ Pointed(key)
  /\ menus' = IF key THEN menus \cup {u} ELSE {u}
  /\ UNCHANGED <<users, filter, modal, action, Remote>>

(* the same button again, or a scroll *)
CloseMenus(closed) ==
  /\ closed # {} /\ closed \subseteq menus /\ menus' = menus \ closed
  /\ UNCHANGED <<users, filter, modal, action, keyed, Remote>>

(* the items of the row's menu *)
Items(u) ==
  {"grant", "reset"} \cup
    (IF u = Self THEN {} ELSE IF users.rows[u].active THEN {"disable"} ELSE {"enable"})

Choose(u, op, key) ==
  /\ u \in menus /\ op \in Items(u) /\ Pointed(key)
  /\ menus' = IF key THEN menus \ {u} ELSE {}
  /\ modal' = [kind |-> op, user |-> u, sent |-> FALSE]
  /\ UNCHANGED <<users, filter, action, Remote>>

OpenCreate(key) ==
  /\ Pointed(key) /\ menus' = IF key THEN menus ELSE {}
  /\ modal' = [kind |-> "create", user |-> None, sent |-> FALSE]
  /\ UNCHANGED <<users, filter, action, Remote>>

(* Close, Cancel or Escape *)
CloseModal ==
  /\ modal # None /\ modal' = None
  /\ UNCHANGED <<users, filter, menus, action, keyed, Remote>>

(* The page is left and shown again; what is under way goes on without it. *)
Revisit ==
  /\ filter' = [status |-> "all", page |-> 1] /\ menus' = {} /\ modal' = None
  /\ call' = [o \in Ops |-> IF call[o] = None THEN None ELSE [call[o] EXCEPT !.here = FALSE]]
  /\ UNCHANGED <<stored, users, action, lists, others, keyed, overtaken, unseen>>

Submit(kinds) ==
  /\ modal # None /\ modal.kind \in kinds /\ action[modal.kind] # "submitting"
  /\ action' = [action EXCEPT ![modal.kind] = "submitting"]
  /\ call' = [call EXCEPT ![modal.kind] = [user |-> modal.user, verdict |-> None, here |-> TRUE]]
  /\ modal' = [modal EXCEPT !.sent = TRUE]
  /\ UNCHANGED <<stored, users, filter, menus, lists, others, keyed, overtaken, unseen>>

SubmitForm == Submit({"create", "grant", "reset"})
ConfirmChange == Submit({"disable", "enable"})

-----------------------------------------------------------------------------
Page == <<users, filter, menus, modal, action, keyed>>

(* what a change does to the users stored; a new password is not in it *)
Created ==
  LET free == {x \in Users : stored[x] = None} IN
  IF free = {} THEN stored
  ELSE [stored EXCEPT ![CHOOSE x \in free : \A y \in free : x <= y] = [active |-> TRUE, granted |-> FALSE]]
Granted(u) == [stored EXCEPT ![u].granted = TRUE]
Activated(u, active) == [stored EXCEPT ![u].active = active]

Changed(op, u) ==
  CASE op = "create"  -> Created
    [] op = "grant"   -> Granted(u)
    [] op = "disable" -> Activated(u, FALSE)
    [] op = "enable"  -> Activated(u, TRUE)
    [] OTHER          -> stored

Serve(op) ==
  /\ call[op] # None /\ call[op].verdict = None
  /\ stored' = Changed(op, call[op].user) /\ (op = "create" => stored' # stored)
  /\ call' = [call EXCEPT ![op].verdict = "ready"]
  /\ unseen' = TRUE
  /\ UNCHANGED <<Page, lists, others, overtaken>>

Refuse(op) ==
  /\ call[op] # None /\ call[op].verdict = None
  /\ call' = [call EXCEPT ![op].verdict = "error"]
  /\ UNCHANGED <<Page, stored, lists, others, overtaken, unseen>>

(* the answer is shown, the modal is closed, and the list is asked for *)
Answer(op, kind) ==
  /\ call[op] # None /\ call[op].verdict # None /\ kind \in {call[op].verdict, "error"}
  /\ call' = [call EXCEPT ![op] = None] /\ action' = [action EXCEPT ![op] = kind]
  /\ modal' = IF call[op].here THEN None ELSE modal
  /\ IF kind = "ready" /\ op # "grant"
     THEN Len(lists) < MaxLists /\ lists' = Append(lists, NewList) /\ unseen' = FALSE
     ELSE UNCHANGED <<lists, unseen>>
  /\ UNCHANGED <<stored, users, filter, menus, others, keyed, overtaken>>

(* listUsers reads the users, then the grants of those. *)
ReadUsers(k) ==
  /\ lists[k].step = "users"
  /\ lists' = [lists EXCEPT ![k].step = "grants", ![k].rows =
                 [u \in Users |-> IF stored[u] = None THEN None ELSE [stored[u] EXCEPT !.granted = FALSE]]]
  /\ UNCHANGED <<Page, stored, call, others, overtaken, unseen>>

ReadGrants(k) ==
  /\ lists[k].step = "grants"
  /\ lists' = [lists EXCEPT ![k].step = "served", ![k].rows =
                 [u \in Users |-> IF @[u] = None THEN None ELSE [@[u] EXCEPT !.granted = stored[u].granted]]]
  /\ UNCHANGED <<Page, stored, call, others, overtaken, unseen>>

(* refreshUsers: shown whatever came before; the lists asked for earlier and  *)
(* still under way are late from now on                                      *)
ShowList(k, kind) ==
  /\ kind = "ready" => lists[k].step = "served"
  /\ users' = [kind |-> kind, rows |-> IF kind = "ready" THEN lists[k].rows ELSE Absent]
  /\ Rerendered(users'.rows, filter)
  /\ overtaken' = lists[k].late
  /\ lists' = [j \in 1..(Len(lists) - 1) |->
                 IF j < k THEN [lists[j] EXCEPT !.late = TRUE] ELSE lists[j + 1]]
  /\ UNCHANGED <<stored, filter, modal, action, call, others, keyed, unseen>>

(* an administrator elsewhere *)
ChangeElsewhere(op, u) ==
  /\ others /\ others' = FALSE /\ stored[u] # None
  /\ stored' = Changed(op, u) /\ stored' # stored
  /\ unseen' = TRUE
  /\ UNCHANGED <<Page, call, lists, overtaken>>

Next ==
  \/ \E key \in BOOLEAN :
       \/ \E status \in Filters : SetFilter(status, key)
       \/ \E d \in {-1, 1} : TurnPage(d, key)
       \/ \E u \in Users :
            \/ OpenMenu(u, key)
            \/ ~Busy /\ CloseMenus({u})
            \/ \E op \in Ops : Choose(u, op, key)
       \/ "create" \in Ops /\ OpenCreate(key)
  \/ CloseMenus(menus) \/ CloseModal \/ Revisit \/ SubmitForm \/ ConfirmChange
  \/ \E op \in Ops :
       \/ Serve(op) \/ Refuse(op)
       \/ \E kind \in {"ready", "error"} : Answer(op, kind)
       \/ \E u \in Users : ChangeElsewhere(op, u)
  \/ \E k \in 1..Len(lists) :
       \/ ReadUsers(k) \/ ReadGrants(k)
       \/ \E kind \in {"ready", "error"} : ShowList(k, kind)

Spec == Init /\ [][Next]_vars

-----------------------------------------------------------------------------
(* Once nothing is under way the table shows the users as they are, unless   *)
(* an older list was shown last, or something changed that the page did not  *)
(* ask for the list after: a grant, a lost answer, another administrator     *)
(* (refreshUsers has no check of its order).                                 *)
TableTrue ==
  users.kind = "ready" /\ lists = <<>> /\ (\A o \in Ops : call[o] = None) /\ ~overtaken /\ ~unseen =>
    users.rows = stored

(* Two changes of users are under way together only with the keyboard's      *)
(* help; a creation may join one (busy, the modals' own slots).              *)
OneAtATime ==
  ~keyed => Cardinality({o \in Ops \ {"create"} : action[o] = "submitting"}) <= 1

(* A modal closes with its own answer, so a failure is never shown in the    *)
(* modal it happened in, and a modal showing one was opened later            *)
(* (then(onClose), AdminModalFeedback).                                      *)
FailureShownLater ==
  modal # None /\ modal.sent => action[modal.kind] = "submitting"

(* No administrator disables itself from the page, and a slot that waits has *)
(* a change under way.                                                       *)
ChangesSound ==
  /\ \A o \in Ops : action[o] = "submitting" <=> call[o] # None
  /\ \A o \in Ops \cap {"disable", "enable"} : call[o] # None => call[o].user # Self

(* A page of the table is never empty while users pass the filter (safePage).*)
PageShown ==
  Filtered(users.rows, filter) # {} => Paged(users.rows, filter) # {}

UserAccessInv == TypeOK /\ TableTrue /\ OneAtATime /\ FailureShownLater /\ ChangesSound /\ PageShown
=============================================================================
