------------------------------ MODULE HistoryView ------------------------------
(***************************************************************************)
(* The message history of the web application: the controller's page, the  *)
(* selected job with its detail, and the dialog that edits, cancels and    *)
(* deletes it (schedule-history-controller.ts, schedule-detail-modal.tsx). *)
(* Requests overlap: each is served at some time and answered at a later   *)
(* one, in any order.  The two request counters only tell whether another  *)
(* one was issued, or the page given up, since: from then on the answer is *)
(* ignored, so the request is out of the model.                            *)
(***************************************************************************)
EXTENDS Integers, FiniteSets

CONSTANTS
  Jobs,       \* job ids, from 1, the newest first
  States,     \* the job's state at first, by id
  PageSize,
  MaxChanges, \* changes that may be under way together
  None

VARIABLES
  stored,     \* the jobs at the server, by id: a state, or None
  query,      \* page and state filter of historyQuery
  history,    \* the page shown
  selected,   \* selectedJobId
  detail,
  action,     \* editAction, cancelAction, deleteAction
  open,       \* openJobId: the dialog is shown
  confirming, \* the dialog asks to confirm the deletion, of this job
  request,    \* the requests under way whose answer counts
  gone,       \* history: jobs whose deletion was answered
  behind,     \* history: rows shown from a page read before their deletion
  verdictOf,  \* history: the job the shown answer of each action is about
  unasked     \* history: a job was deleted that nobody confirmed

shown == <<query, history, selected, detail, action, open, confirming>>
vars == <<stored, shown, request, gone, behind, verdictOf, unasked>>

Filters == {"all", "cancelled"}
Ops == {"edit", "cancel", "delete"}
Loading == [kind |-> "loading", job |-> None, state |-> None]
Ready(j, s) == [kind |-> "ready", job |-> j, state |-> s]
Failed == [kind |-> "error", job |-> None, state |-> None]
NoPage == [kind |-> "loading", query |-> None, items |-> {}, more |-> FALSE]

TypeOK ==
  /\ stored \in [Jobs -> {"scheduled", "moved", "cancelled", None}]
  /\ query.page \in 1..(Cardinality(Jobs) + 1) /\ query.state \in Filters
  /\ history.kind \in {"loading", "ready", "error"}
  /\ selected \in Jobs \cup {None} /\ open \in Jobs \cup {None}
  /\ detail.kind \in {"loading", "ready", "error"}
  /\ action \in [Ops -> {"idle", "submitting", "ready", "error"}]
  /\ \A c \in request : c.op \in Ops \cup {"list", "detail"}

Idle == [o \in Ops |-> "idle"]
FirstQuery == [page |-> 1, state |-> "all"]

Request(op, j, q) == [op |-> op, job |-> j, query |-> q, answer |-> None]
Underway(op) == {c \in request : c.op = op}
Changes == {c \in request : c.op \in Ops}
MutGiveUp(ops) == request
(* a counter goes up *)
GiveUp(ops) == {c \in request : c.op \notin ops}

Init ==
  /\ stored = States
  /\ query = FirstQuery /\ history = NoPage /\ selected = None /\ detail = Loading
  /\ action = Idle /\ open = None /\ confirming = None
  /\ request = {Request("list", None, FirstQuery)}
  /\ gone = {} /\ behind = {} /\ verdictOf = [o \in Ops |-> None] /\ unasked = FALSE

-----------------------------------------------------------------------------
(* The effect of historyQuery: whatever was under way for the page and the   *)
(* detail is given up, the page is asked for again.                          *)
Reload(q) ==
  /\ query' = q
  /\ history' = NoPage /\ selected' = None /\ detail' = Loading /\ action' = Idle /\ confirming' = None
  /\ request' = GiveUp({"list", "detail"}) \cup {Request("list", None, q)}
  /\ behind' = {} /\ verdictOf' = [o \in Ops |-> None]
  /\ UNCHANGED <<stored, gone, unasked>>

(* A filter changes, with the page going back to the first; the dialog is    *)
(* closed, for it covers the filters.                                        *)
SetFilter(s) ==
  /\ open = None /\ s # query.state
  /\ Reload([page |-> 1, state |-> s]) /\ UNCHANGED open

LoadPage(p) ==
  /\ history.kind = "ready" /\ history.items # {}
  /\ \/ p = query.page - 1 /\ p >= 1
     \/ p = query.page + 1 /\ history.more
  /\ open' = None
  /\ Reload([query EXCEPT !.page = p])

(* refresh: a message was sent or scheduled, its answer comes at any time *)
Refresh == Reload([query EXCEPT !.page = 1]) /\ UNCHANGED open

SelectJob(j) ==
  /\ open = None
  /\ \E i \in history.items : i.job = j
  /\ open' = j /\ selected' = j /\ detail' = Loading /\ action' = Idle /\ confirming' = None
  /\ verdictOf' = [o \in Ops |-> None]
  /\ request' = GiveUp({"detail"}) \cup {Request("detail", j, None)}
  /\ UNCHANGED <<stored, query, history, gone, behind, unasked>>

CloseJob ==
  /\ open # None /\ open' = None /\ confirming' = None
  /\ UNCHANGED <<stored, query, history, selected, detail, action, request, gone, behind, verdictOf, unasked>>

(* The dialog acts on the job it shows; its buttons go once it says deleted. *)
Shown == open # None /\ detail.kind = "ready" /\ detail.job # None
Buttons == Shown /\ action["delete"] # "ready"
ScheduleBusy == "submitting" \in {action["edit"], action["cancel"]}
(* scheduleRowActions *)
CanCancel(s) == s \in {"scheduled", "moved"}
CanDelete(s) == s = "cancelled"

Submit(op) ==
  /\ Shown /\ Cardinality(Changes) < MaxChanges
  /\ action' = [action EXCEPT ![op] = "submitting"]
  /\ request' = request \cup {Request(op, detail.job, None)}
  /\ UNCHANGED <<stored, query, history, selected, detail, open, confirming, gone, behind, verdictOf>>

EditJob == Buttons /\ CanCancel(detail.state) /\ ~ScheduleBusy /\ Submit("edit") /\ UNCHANGED unasked
CancelJob == Buttons /\ CanCancel(detail.state) /\ ~ScheduleBusy /\ Submit("cancel") /\ UNCHANGED unasked

AskDelete ==
  /\ Buttons /\ CanDelete(detail.state) /\ action["delete"] # "submitting"
  /\ confirming = None /\ confirming' = detail.job
  /\ UNCHANGED <<stored, query, history, selected, detail, action, open, request, gone, behind, verdictOf, unasked>>

DeleteJob ==
  /\ confirming # None /\ action["delete"] # "submitting"
  /\ unasked' = (unasked \/ confirming # detail.job)
  /\ Submit("delete")

-----------------------------------------------------------------------------
(* The server: a page of the jobs that match, one job, or a change of it. *)
Matching(q) == {j \in Jobs : stored[j] # None /\ (q.state = "cancelled" => stored[j] = "cancelled")}
PageOf(q) ==
  LET all == Matching(q)
      Before(j) == Cardinality({i \in all : i < j}) IN
  [kind |-> "ready", query |-> q, more |-> q.page * PageSize < Cardinality(all),
   items |-> {[job |-> j, state |-> stored[j]] : j \in {i \in all : Before(i) \div PageSize = q.page - 1}}]

Became(op) == CASE op = "edit" -> "moved" [] op = "cancel" -> "cancelled" [] OTHER -> None
Allowed(op, j) == IF op = "delete" THEN CanDelete(stored[j]) ELSE CanCancel(stored[j])

Answers(c, a) == (request \ {c}) \cup {[c EXCEPT !.answer = a]}
Serve(c) ==
  /\ c.answer = None
  /\ stored' = IF c.op \in Ops /\ Allowed(c.op, c.job)
               THEN [stored EXCEPT ![c.job] = Became(c.op)] ELSE stored
  /\ request' = Answers(c,
       CASE c.op = "list" -> PageOf(c.query)
         [] c.op = "detail" -> IF stored[c.job] = None THEN Failed ELSE Ready(c.job, stored[c.job])
         [] OTHER -> IF Allowed(c.op, c.job) THEN Ready(c.job, Became(c.op)) ELSE Failed)
  /\ UNCHANGED <<shown, gone, behind, verdictOf, unasked>>

(* The request, or its answer, is lost. *)
Lose(c) ==
  /\ c.answer # Failed
  /\ request' = Answers(c, Failed)
  /\ UNCHANGED <<stored, shown, gone, behind, verdictOf, unasked>>

(* The page is shown and its first job is selected. *)
ShowPage(c) ==
  LET a == c.answer IN
  /\ c.op = "list" /\ a # None
  /\ IF a.kind # "ready"
     THEN /\ history' = [NoPage EXCEPT !.kind = "error"] /\ request' = request \ {c}
          /\ UNCHANGED <<selected, detail, behind>>
     ELSE /\ history' = a
          /\ behind' = {i.job : i \in a.items} \cap gone
          /\ IF a.items = {}
             THEN detail' = Ready(None, None) /\ request' = request \ {c} /\ UNCHANGED selected
             ELSE \E first \in a.items :
                    /\ \A i \in a.items : first.job <= i.job
                    /\ selected' = first.job /\ detail' = Loading
                    /\ request' = (GiveUp({"detail"}) \ {c}) \cup {Request("detail", first.job, None)}
  /\ confirming' = IF detail' = detail THEN confirming ELSE None
  /\ UNCHANGED <<stored, query, action, open, gone, verdictOf, unasked>>

ShowDetail(c) ==
  /\ c.op = "detail" /\ c.answer # None
  /\ detail' = c.answer /\ confirming' = None
  /\ request' = request \ {c}
  /\ UNCHANGED <<stored, query, history, selected, action, open, gone, behind, verdictOf, unasked>>

(* reconcileSchedule, and dropJob *)
Reconciled(items, j, s) == {IF i.job = j THEN [job |-> j, state |-> s] ELSE i : i \in items}
Remaining(items, j) == {i \in items : i.job # j}

(* An answer of edit, cancel or delete counts whatever was selected since. *)
ShowVerdict(c) ==
  /\ c.op \in Ops /\ c.answer # None
  /\ action' = [action EXCEPT ![c.op] = c.answer.kind]
  /\ verdictOf' = [verdictOf EXCEPT ![c.op] = c.job]
  /\ request' = request \ {c}
  /\ IF c.answer.kind = "ready" /\ c.op = "delete"
     THEN /\ gone' = gone \cup {c.job} /\ behind' = behind \ {c.job}
          /\ history' = [history EXCEPT !.items = Remaining(@, c.job)]
          /\ detail' = IF detail.job = c.job THEN Ready(None, None) ELSE detail
     ELSE /\ UNCHANGED <<gone, behind>>
          /\ IF c.answer.kind = "ready"
             THEN /\ history' = [history EXCEPT !.items = Reconciled(@, c.job, c.answer.state)]
                  /\ detail' = IF detail.job = c.job THEN Ready(c.job, c.answer.state) ELSE detail
             ELSE UNCHANGED <<history, detail>>
  /\ confirming' = IF c.answer.kind = "ready" /\ detail.job = c.job THEN None ELSE confirming
  /\ UNCHANGED <<stored, query, selected, open, unasked>>

Next ==
  \/ \E s \in Filters : SetFilter(s)
  \/ \E p \in {query.page - 1, query.page + 1} : LoadPage(p)
  \/ Refresh \/ CloseJob \/ EditJob \/ CancelJob \/ AskDelete \/ DeleteJob
  \/ \E j \in Jobs : SelectJob(j)
  \/ \E c \in request : Serve(c) \/ Lose(c) \/ ShowPage(c) \/ ShowDetail(c) \/ ShowVerdict(c)

Spec == Init /\ [][Next]_vars

-----------------------------------------------------------------------------
(* The page is the answer to the filters and page number above it, and the   *)
(* detail is that of the selected job, whatever answer came last (the two    *)
(* request counters).                                                        *)
ShowsWhatIsAsked ==
  /\ history.kind = "ready" => history.query = query
  /\ detail.kind = "ready" /\ detail.job # None => detail.job = selected

(* What says it is loading or being saved is waiting for an answer; only the *)
(* detail waits for ever when its page failed.                               *)
NoLostSpinner ==
  /\ history.kind = "loading" => Underway("list") # {}
  /\ detail.kind = "loading" => Underway("list") \cup Underway("detail") # {} \/ history.kind = "error"
  /\ \A o \in Ops : action[o] = "submitting" => Underway(o) # {}

(* A job is deleted only after its own confirmation: a dialog that was asked *)
(* about one job never deletes the one that replaced it.                     *)
DeletesWhatWasConfirmed == ~unasked

(* A job whose deletion was answered is not listed, unless the page was read *)
(* before the deletion and answered after it.                                *)
GoneStaysGone ==
  \A i \in history.items : i.job \in gone => i.job \in behind

(* An outcome shown with a job is that job's, or one that came after the job *)
(* was chosen: choosing a job clears what was said of another.               *)
VerdictsCleared ==
  \A o \in Ops : action[o] = "idle" <=> (verdictOf[o] = None /\ action[o] # "submitting")

HistoryViewInv ==
  /\ TypeOK /\ ShowsWhatIsAsked /\ NoLostSpinner /\ DeletesWhatWasConfirmed
  /\ GoneStaysGone /\ VerdictsCleared
=============================================================================
