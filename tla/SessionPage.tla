------------------------------ MODULE SessionPage ------------------------------
(***************************************************************************)
(* The page of the sessions of a scope and its panel Connect WhatsApp      *)
(* (session-page.tsx, session-connect-panel.tsx, session-auto-link.ts).  A *)
(* session linked on the page is started on its own, its status is polled, *)
(* and its QR code is loaded once it can be scanned.  The panel keeps its  *)
(* state when another session is chosen, and loses it, with the polling,   *)
(* when no session is listed or the page is left.  Answers to a lost panel *)
(* are out of the model.                                                   *)
(***************************************************************************)
EXTENDS Integers, FiniteSets

CONSTANTS
  Ids,        \* session ids from 1, in the order they are linked
  Known,      \* those that are there at first
  Deeds,      \* commands given: start, stop, restart, logout, delete
  Pairs,      \* pairing codes are requested
  MaxPolls,   \* AUTO_LINK_MAX_POLLS
  MaxMounts,  \* bound on the panels shown
  MaxCalls,   \* bound on calls of one kind under way
  None

VARIABLES
  stored,     \* ids of the sessions at the server
  last,       \* the id linked last
  list,       \* the sessions shown: a status by id
  page,       \* the page is shown: what is chosen, linked last and confirmed
  create, lifecycle,  \* createAction, lifecycleAction
  panel,      \* the panel's state, or None
  run,        \* runs of runAutoLink
  call,       \* other calls under way
  mounts,     \* history: panels shown
  started,    \* history: starts sent by runAutoLink, by id
  moved       \* history: the panel has shown another session

vars == <<stored, last, list, page, create, lifecycle, panel, run, call, mounts, started, moved>>

Statuses == {"scan", "other"}
NoPage == [shown |-> FALSE, chosen |-> None, link |-> None, confirmed |-> FALSE]
Page(id) == [shown |-> TRUE, chosen |-> id, link |-> None, confirmed |-> FALSE]
FreshPanel == [qr |-> None, asking |-> FALSE, pairing |-> None, live |-> None, linked |-> None, loaded |-> FALSE]
Live(id, status) == [of |-> id, status |-> status]
Idle == [kind |-> "idle", id |-> None]

TypeOK ==
  /\ stored \subseteq 1..last /\ last \in 0..Cardinality(Ids) /\ DOMAIN list \subseteq Ids
  /\ page.chosen \in Ids \cup {None} /\ page.link \in Ids \cup {None}
  /\ create.kind \in {"idle", "submitting", "ready", "error"}
  /\ lifecycle \in {"idle", "submitting", "ready", "error"}
  /\ panel = None \/ (panel.qr \in Ids \cup {None} /\ panel.linked \in Ids \cup {None})
  /\ \A r \in run : r.step \in {"start", "wait", "asked"} /\ r.polls \in 0..MaxPolls
  /\ \A c \in call : c.op \in {"list", "create", "lifecycle", "qr", "pair"}

First(S) == IF S = {} THEN None ELSE CHOOSE i \in S : \A k \in S : i <= k
(* the session chosen if it is listed, or else the first one *)
SelectedIn(l, chosen) == IF chosen \in DOMAIN l THEN chosen ELSE First(DOMAIN l)
Selected == IF page.shown THEN SelectedIn(list, page.chosen) ELSE None

Underway(op) == {c \in call : c.op = op}
NewCall(op, id, deed) ==
  [op |-> op, id |-> id, deed |-> deed, rows |-> None,
   n |-> CHOOSE k \in 1..(Cardinality(call) + 1) : \A c \in Underway(op) : c.n # k]
Answered(c) == call \ {c}

Panels == <<panel, run, mounts, started, moved>>

(* What React does after a change of the page, the list, createAction or the  *)
(* panel p: the page's effect takes a session just linked, the panel is shown *)
(* or lost, its effects start the linking of that session and load the QR     *)
(* code of one that is listed as ready for it.                                *)
Rendered(p, l, pg, cr, rs, cs) ==
  LET taken == pg.shown /\ cr.kind = "ready" /\ cr.id # pg.link
      new == IF taken THEN [pg EXCEPT !.chosen = cr.id, !.link = cr.id] ELSE pg
      sel == IF new.shown THEN SelectedIn(l, new.chosen) ELSE None
      here == IF p = None THEN FreshPanel ELSE p
      links == sel # None /\ new.link = sel /\ here.linked # sel
      loads == sel # None /\ l[sel] = "scan" /\ here.qr = None /\ ~here.loaded IN
  /\ list' = l /\ create' = cr
  /\ page' = new
  /\ panel' = IF sel = None THEN None
              ELSE [here EXCEPT !.linked = IF links THEN sel ELSE @,
                                !.loaded = @ \/ loads, !.asking = @ \/ loads]
  /\ run' = IF sel = None THEN {}
            ELSE rs \cup IF links THEN {[id |-> sel, step |-> "start", polls |-> 0]} ELSE {}
  /\ call' = IF sel = None THEN {c \in cs : c.op \notin {"qr", "pair"}}
             ELSE cs \cup IF loads THEN {NewCall("qr", sel, None)} ELSE {}
  /\ mounts' = IF p = None /\ sel # None THEN mounts + 1 ELSE mounts
  /\ started' = IF links THEN [started EXCEPT ![sel] = @ + 1] ELSE started
  /\ moved' = (sel # None /\ p # None /\ (moved \/ sel # Selected))

Init ==
  /\ stored = Known /\ last = Cardinality(Known)
  /\ list = [i \in Known |-> "other"] /\ page = Page(First(Known))
  /\ create = Idle /\ lifecycle = "idle"
  /\ panel = IF Known = {} THEN None ELSE FreshPanel
  /\ run = {} /\ call = {} /\ mounts = IF Known = {} THEN 0 ELSE 1
  /\ started = [i \in Ids |-> 0] /\ moved = FALSE

-----------------------------------------------------------------------------
(* The page. *)
Choose(id) ==
  /\ page.shown /\ id \in DOMAIN list /\ id # Selected
  /\ Rendered(panel, list, [page EXCEPT !.chosen = id], create, run, call)
  /\ UNCHANGED <<stored, last, lifecycle>>

Destroys(deed) == deed \in {"logout", "delete"}

Confirm ==
  /\ Selected # None /\ \E deed \in Deeds : Destroys(deed)
  /\ page' = [page EXCEPT !.confirmed = ~@]
  /\ UNCHANGED <<stored, last, list, create, lifecycle, Panels, call>>

Leave ==
  /\ page.shown /\ Rendered(panel, list, NoPage, create, run, call)
  /\ UNCHANGED <<stored, last, lifecycle>>

Return ==
  /\ ~page.shown /\ mounts < MaxMounts
  /\ Rendered(None, list, Page(First(DOMAIN list)), create, run, call)
  /\ UNCHANGED <<stored, last, lifecycle>>

Create ==
  /\ page.shown /\ create.kind # "submitting"
  /\ create' = [kind |-> "submitting", id |-> None] /\ call' = call \cup {NewCall("create", None, None)}
  /\ UNCHANGED <<stored, last, list, page, lifecycle, Panels>>

(* createSession, and refreshSessions if it succeeded; a lost answer may be   *)
(* about a session that was linked                                           *)
AnswerCreate(c, kind, done) ==
  /\ c.op = "create" /\ Cardinality(Underway("list")) < MaxCalls
  /\ (kind = "ready" => done) /\ (done => last + 1 \in Ids)
  /\ last' = IF done THEN last + 1 ELSE last
  /\ stored' = stored \cup (last + 1)..last'
  /\ IF kind = "ready"
     THEN Rendered(panel, list, page, [kind |-> "ready", id |-> last + 1], run,
                   Answered(c) \cup {NewCall("list", None, None)})
     ELSE Rendered(panel, list, page, [kind |-> "error", id |-> None], run, Answered(c))
  /\ UNCHANGED lifecycle

RunLifecycle(deed) ==
  /\ Selected # None /\ lifecycle # "submitting" /\ (Destroys(deed) => page.confirmed)
  /\ lifecycle' = "submitting" /\ call' = call \cup {NewCall("lifecycle", Selected, deed)}
  /\ UNCHANGED <<stored, last, list, page, create, Panels>>

(* lifecycleSession, and refreshSessions whatever the answer; a lost answer   *)
(* may be about a session that was deleted                                    *)
AnswerLifecycle(c, kind, done) ==
  /\ c.op = "lifecycle" /\ Cardinality(Underway("list")) < MaxCalls
  /\ (kind = "ready" => done)
  /\ lifecycle' = kind
  /\ stored' = IF done /\ c.deed = "delete" THEN stored \ {c.id} ELSE stored
  /\ call' = Answered(c) \cup {NewCall("list", None, None)}
  /\ UNCHANGED <<last, list, page, create, Panels>>

(* The list is read at some time and shown later, whatever was shown since. *)
ServeList(c, status) ==
  /\ c.op = "list" /\ c.rows = None
  /\ call' = Answered(c) \cup {[c EXCEPT !.rows = [i \in stored |-> status[i]]]}
  /\ UNCHANGED <<stored, last, list, page, create, lifecycle, Panels>>

AnswerList(c) ==
  /\ c.op = "list" /\ c.rows # None /\ (panel = None => mounts < MaxMounts)
  /\ Rendered(panel, c.rows, page, create, run, Answered(c))
  /\ UNCHANGED <<stored, last, lifecycle>>

LoseList(c) ==
  /\ c.op = "list"
  /\ Rendered(panel, [i \in {} |-> "other"], page, create, run, Answered(c))
  /\ UNCHANGED <<stored, last, lifecycle>>

-----------------------------------------------------------------------------
(* The panel. *)
Kept == <<stored, last, list, page, create, lifecycle, mounts, started, moved>>

(* loadQr, of the session selected when it is called *)
LoadQr ==
  /\ panel # None /\ ~panel.asking
  /\ panel' = [panel EXCEPT !.asking = TRUE] /\ call' = call \cup {NewCall("qr", Selected, None)}
  /\ UNCHANGED <<Kept, run>>

AnswerQr(c, ready) ==
  /\ c.op = "qr" /\ call' = Answered(c)
  /\ panel' = [panel EXCEPT !.asking = FALSE, !.qr = IF ready THEN c.id ELSE @]
  /\ UNCHANGED <<Kept, run>>

RequestPairingCode ==
  /\ Pairs /\ panel # None /\ Underway("pair") = {}
  /\ panel' = [panel EXCEPT !.pairing = None] /\ call' = call \cup {NewCall("pair", Selected, None)}
  /\ UNCHANGED <<Kept, run>>

AnswerPairing(c, ready) ==
  /\ c.op = "pair" /\ call' = Answered(c)
  /\ panel' = [panel EXCEPT !.pairing = IF ready THEN c.id ELSE None]
  /\ UNCHANGED <<Kept, run>>

(* runAutoLink: the start is answered, ... *)
AnswerStart(r, ready) ==
  /\ r.step = "start"
  /\ run' = (run \ {r}) \cup IF ready THEN {[r EXCEPT !.step = "wait"]} ELSE {}
  /\ panel' = IF ready THEN panel ELSE [panel EXCEPT !.live = Live(r.id, "start_failed")]
  /\ UNCHANGED <<Kept, call>>

(* ... the delay is over: it gives up for another session's run, or because   *)
(* the polls are over, or it polls once more ...                              *)
Poll(r) ==
  /\ r.step = "wait"
  /\ run' = (run \ {r}) \cup
       IF panel.linked = r.id /\ r.polls < MaxPolls THEN {[r EXCEPT !.step = "asked", !.polls = @ + 1]} ELSE {}
  /\ panel' = IF panel.linked = r.id /\ r.polls = MaxPolls
              THEN [panel EXCEPT !.live = Live(r.id, "linking_timeout")] ELSE panel
  /\ UNCHANGED <<Kept, call>>

(* ... and the status is shown, whoever is linked by now. *)
AnswerPoll(r, status) ==
  /\ r.step = "asked"
  /\ run' = (run \ {r}) \cup IF status = "starting" THEN {[r EXCEPT !.step = "wait"]} ELSE {}
  /\ panel' = [panel EXCEPT !.live = Live(r.id, status), !.asking = @ \/ status = "scan"]
  /\ call' = call \cup IF status = "scan" THEN {NewCall("qr", Selected, None)} ELSE {}
  /\ UNCHANGED Kept

Next ==
  \/ \E id \in Ids : Choose(id)
  \/ Confirm \/ Leave \/ Return \/ Create \/ LoadQr \/ RequestPairingCode
  \/ \E deed \in Deeds : RunLifecycle(deed)
  \/ \E c \in call :
       \/ \E kind \in {"ready", "error"}, done \in BOOLEAN :
            AnswerLifecycle(c, kind, done) \/ AnswerCreate(c, kind, done)
       \/ \E status \in [Ids -> Statuses] : ServeList(c, status)
       \/ AnswerList(c) \/ LoseList(c)
       \/ \E ready \in BOOLEAN : AnswerQr(c, ready) \/ AnswerPairing(c, ready)
  \/ \E r \in run :
       \/ \E ready \in BOOLEAN : AnswerStart(r, ready)
       \/ Poll(r)
       \/ \E status \in {"scan", "working", "starting"} : AnswerPoll(r, status)

Spec == Init /\ [][Next]_vars

-----------------------------------------------------------------------------
(* As long as a panel has shown one session only, the QR code, the pairing   *)
(* and the live status it shows are that one's (loadQrRef, displayStatus).   *)
PanelOfSession ==
  panel # None /\ ~moved =>
    /\ {panel.qr, panel.pairing} \subseteq {None, Selected}
    /\ panel.live # None => panel.live.of = Selected

(* A session is started without a click only if it was linked on this page,  *)
(* and once for each panel shown: a page that is left and shown again, or a  *)
(* list that was lost for a moment, starts it again (linkedSessionRef).      *)
StartedOncePerPanel ==
  \A i \in Ids : started[i] > 0 => i \notin Known /\ started[i] <= mounts

(* One session is polled at a time, whatever happens to be selected, and a   *)
(* timeout is shown only after every poll (isCancelled, runAutoLink).        *)
PolledOne ==
  /\ Cardinality({r \in run : r.id = panel.linked}) <= 1
  /\ \A r, q \in run : r.id = q.id => r = q
  /\ run # {} => panel # None /\ panel.linked # None

(* A button that waits has a call under way that will release it.            *)
NoLostSpinner ==
  /\ create.kind = "submitting" <=> Underway("create") # {}
  /\ lifecycle = "submitting" <=> Underway("lifecycle") # {}
  /\ panel # None /\ panel.asking => Underway("qr") # {}

SessionPageInv ==
  TypeOK /\ PanelOfSession /\ StartedOncePerPanel /\ PolledOne /\ NoLostSpinner
=============================================================================
