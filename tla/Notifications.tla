---------------------------- MODULE Notifications ----------------------------
(***************************************************************************)
(* Notification settings and the test notification (src/apps/api/src/      *)
(* notifications): secrets saved under a mask by concurrent forms, and one *)
(* delivery per channel with its retries.  The SMTP server and Telegram    *)
(* are external; each statement of the database may fail.                  *)
(***************************************************************************)
EXTENDS Integers, FiniteSets

CONSTANTS
  Secrets,      \* what an administrator may type as a password or a token
  Chats,        \* the chat ids of the Telegram channel, positive numbers in their order
  Channels,     \* email, telegram
  Forms,        \* saves that may be in progress together
  None,
  MaxAttempts,  \* the 3 of deliver's loop
  MaxSaves      \* bound of the saves

VARIABLES
  setting,      \* the row of the channel in notification_provider_settings
  preferred,    \* the row of notification_preferences allows the channel
  form,         \* the local variables of each save
  saves,        \* saves begun
  typed,        \* history: the secret typed last
  stale,        \* history: the last writer read the row before that
  row,          \* the row of notifications
  run,          \* the local variables of sendTest and deliver
  received,     \* history: copies each destination got
  late,         \* history: an attempt that reached someone and failed
  audits        \* history: audit rows of the delivery

sVars == <<setting, preferred, form, saves, typed, stale>>
dVars == <<row, run, received, late, audits>>
vars == <<sVars, dVars>>

Inbox == 0
Mask == "masked"
NoForm == [step |-> "idle", secret |-> None, read |-> None, enabled |-> FALSE, fresh |-> FALSE]
NoRun == [step |-> "idle", channel |-> None, left |-> {}, kind |-> None, result |-> None]
NoRow == [state |-> "queued", attempts |-> 0, code |-> None]
Kinds == {"timeout", "transient", "provider", "unknown"}

Destinations == Chats \cup {Inbox}
Codes == {"transient", "permanent", "unknown"}

Setting == [enabled : BOOLEAN, secret : Secrets \cup {Mask}]
FormState == [step : {"idle", "upsert"}, secret : Secrets \cup {Mask, None},
              read : Setting \cup {None}, enabled : BOOLEAN, fresh : BOOLEAN]
Row == [state : {"queued", "attempting", "sent", "failed"}, attempts : 0..MaxAttempts,
        code : Codes \cup {None}]
RunState == [step : {"idle", "attempt", "envelope", "body", "quit", "chat", "sent", "auditSent",
                     "failed", "auditFailed", "done"},
             channel : Channels \cup {None}, left : SUBSET Chats, kind : Kinds \cup {None},
             result : {"sent", "failed", None}]

TypeOK ==
  /\ setting \in Setting \cup {None} /\ preferred \in BOOLEAN
  /\ form \in [Forms -> FormState] /\ saves \in Nat
  /\ typed \in Secrets \cup {None} /\ stale \in BOOLEAN
  /\ row \in Row /\ run \in RunState
  /\ received \in [Destinations -> Nat] /\ late \in BOOLEAN
  /\ audits \subseteq {"sent", "failed"}

Init ==
  /\ setting = None /\ preferred = FALSE
  /\ form = [f \in Forms |-> NoForm] /\ saves = 0
  /\ typed = None /\ stale = FALSE
  /\ row = NoRow /\ run = NoRun
  /\ received = [d \in Destinations |-> 0] /\ late = FALSE /\ audits = {}

-----------------------------------------------------------------------------
(* save: the rows are read, then each channel is resolved and written.  The  *)
(* form carries a typed secret or the mask that read shows for one.          *)
SaveRead(f, secret, enabled) ==
  /\ form[f].step = "idle" /\ saves < MaxSaves
  /\ saves' = saves + 1
  /\ form' = [form EXCEPT ![f] = [step |-> "upsert", secret |-> secret, read |-> setting,
                                  enabled |-> enabled, fresh |-> TRUE]]
  /\ UNCHANGED <<setting, preferred, typed, stale, dVars>>

MutResolveMasked(f) == form[f].secret

(* resolveMasked: the mask stands for the secret of the row that was read *)
ResolveMasked(f) ==
  IF form[f].secret = Mask /\ form[f].read # None THEN form[f].read.secret ELSE form[f].secret

SaveUpsert(f) ==
  LET secret == ResolveMasked(f) IN
  /\ form[f].step = "upsert"
  /\ setting' = [enabled |-> form[f].enabled, secret |-> secret]
  /\ typed' = IF form[f].secret # Mask THEN secret ELSE typed
  /\ stale' = (form[f].secret = Mask /\ (stale \/ ~form[f].fresh))
  /\ form' = [g \in Forms |-> IF g = f THEN NoForm ELSE [form[g] EXCEPT !.fresh = FALSE]]
  /\ UNCHANGED <<preferred, saves, dVars>>

SavePreferences(enabled) ==
  /\ preferred # enabled /\ run.step = "idle"
  /\ preferred' = enabled
  /\ UNCHANGED <<setting, form, saves, typed, stale, dVars>>

SaveFails(f) ==
  /\ form[f].step = "upsert"
  /\ form' = [form EXCEPT ![f] = NoForm]
  /\ UNCHANGED <<setting, preferred, saves, typed, stale, dVars>>

-----------------------------------------------------------------------------
(* sendTest: a channel that is enabled twice over gets a row and a delivery. *)
SendTest(channel) ==
  /\ run.step = "idle" /\ row = NoRow
  /\ setting # None /\ setting.enabled /\ preferred
  /\ run' = [NoRun EXCEPT !.step = "attempt", !.channel = channel]
  /\ UNCHANGED <<sVars, row, received, late, audits>>

Step(s) == run' = [run EXCEPT !.step = s]
Fail(kind) == run' = [run EXCEPT !.step = "failed", !.kind = kind]

BeginAttempt ==
  /\ run.step = "attempt"
  /\ row' = [row EXCEPT !.state = "attempting", !.attempts = @ + 1]
  /\ run' = [run EXCEPT !.step = IF run.channel = "email" THEN "envelope" ELSE "chat",
                        !.left = IF run.channel = "telegram" THEN Chats ELSE {}]
  /\ UNCHANGED <<sVars, received, late, audits>>

Get(d) == received' = [received EXCEPT ![d] = @ + 1]

(* SMTP: greeting, EHLO, AUTH, MAIL, RCPT and DATA, each with its own answer; *)
(* the body, whose answer is awaited but not looked at; QUIT.                  *)
Envelope(kind) ==
  /\ run.step = "envelope"
  /\ IF kind = None THEN Step("body") ELSE Fail(kind)
  /\ UNCHANGED <<sVars, row, received, late, audits>>

BodyWritten(accepted, kind) ==
  /\ run.step = "body" /\ kind \in {None, "timeout", "unknown"}
  /\ IF accepted THEN Get(Inbox) ELSE received' = received
  /\ late' = (late \/ (accepted /\ kind # None))
  /\ IF kind = None THEN Step("quit") ELSE Fail(kind)
  /\ UNCHANGED <<sVars, row, audits>>

Quit(kind) ==
  /\ run.step = "quit"
  /\ late' = (late \/ (kind # None /\ received[Inbox] > 0))
  /\ IF kind = None THEN Step("sent") ELSE Fail(kind)
  /\ UNCHANGED <<sVars, row, received, audits>>

(* Telegram: the chats in their order, up to the first that fails.  A lost   *)
(* answer may belong to a message that arrived.                              *)
SendChat(c, arrived, kind) ==
  /\ run.step = "chat" /\ c \in run.left /\ \A d \in run.left : c <= d
  /\ kind \in {None, "transient", "provider"} => (arrived <=> kind = None)
  /\ IF arrived THEN Get(c) ELSE received' = received
  /\ late' = (late \/ (kind # None /\ \E d \in Chats : received'[d] > 0))
  /\ IF kind # None THEN Fail(kind)
     ELSE run' = [run EXCEPT !.left = @ \ {c}, !.step = IF run.left = {c} THEN "sent" ELSE "chat"]
  /\ UNCHANGED <<sVars, row, audits>>

(* The row is marked, then the audit row is written; both inside the try. *)
MarkSent ==
  /\ run.step = "sent"
  /\ row' = [row EXCEPT !.state = "sent", !.code = None]
  /\ Step("auditSent")
  /\ UNCHANGED <<sVars, received, late, audits>>

AuditSent ==
  /\ run.step = "auditSent"
  /\ audits' = audits \cup {"sent"}
  /\ run' = [run EXCEPT !.step = "done", !.result = "sent"]
  /\ UNCHANGED <<sVars, row, received, late>>

ThrowInTry ==
  /\ run.step \in {"sent", "auditSent"}
  /\ Fail("unknown")
  /\ late' = (late \/ \E d \in Destinations : received[d] > 0)
  /\ UNCHANGED <<sVars, row, received, audits>>

(* classifyNotificationFailure *)
Retryable(kind) == kind \in {"timeout", "transient"}
CodeOf(kind) ==
  IF Retryable(kind) THEN "transient" ELSE IF kind = "provider" THEN "permanent" ELSE "unknown"

RecordFailure ==
  LET retry == Retryable(run.kind) /\ row.attempts < MaxAttempts IN
  /\ run.step = "failed"
  /\ row' = [row EXCEPT !.state = IF retry THEN "queued" ELSE "failed", !.code = CodeOf(run.kind)]
  /\ Step(IF retry THEN "attempt" ELSE "auditFailed")
  /\ UNCHANGED <<sVars, received, late, audits>>

AuditFailed ==
  /\ run.step = "auditFailed"
  /\ audits' = audits \cup {"failed"}
  /\ run' = [run EXCEPT !.step = "done", !.result = "failed"]
  /\ UNCHANGED <<sVars, row, received, late>>

(* Outside the try a failure ends the request without an answer. *)
ThrowOutside ==
  /\ run.step \in {"attempt", "failed", "auditFailed"}
  /\ Step("done")
  /\ UNCHANGED <<sVars, row, received, late, audits>>

Next ==
  \/ \E f \in Forms :
       \/ \E secret \in Secrets \cup {Mask}, enabled \in BOOLEAN : SaveRead(f, secret, enabled)
       \/ SaveUpsert(f) \/ SaveFails(f)
  \/ \E enabled \in BOOLEAN : SavePreferences(enabled)
  \/ \E channel \in Channels : SendTest(channel)
  \/ BeginAttempt
  \/ \E kind \in Kinds \cup {None} :
       \/ Envelope(kind) \/ Quit(kind)
       \/ \E ok \in BOOLEAN : BodyWritten(ok, kind) \/ \E c \in Chats : SendChat(c, ok, kind)
  \/ MarkSent \/ AuditSent \/ ThrowInTry \/ RecordFailure \/ AuditFailed \/ ThrowOutside

Spec == Init /\ [][Next]_vars

-----------------------------------------------------------------------------
(* The stored secret is the one typed last, however many forms were saved    *)
(* under the mask in between; only a masked form that read the row before    *)
(* another wrote it brings back what it read (resolveMasked).                *)
SecretIsTyped == setting # None /\ typed # None => setting.secret = typed \/ stale

(* A retry repeats only what timed out or failed for a while, at most        *)
(* MaxAttempts times, and a destination gets one copy of each attempt.       *)
AttemptsBounded ==
  /\ \A d \in Destinations : received[d] <= row.attempts
  /\ row.state = "queued" => row.attempts = 0 \/ row.code = "transient"

(* "sent" is about messages handed over: every chat has one.  A row that     *)
(* failed after someone got a copy lost an answer, or the audit row.         *)
SentIsHandedOver ==
  /\ row.state = "sent" /\ run.channel = "telegram" => \A c \in Chats : received[c] > 0
  /\ row.state = "failed" => late \/ \A d \in Destinations : received[d] = 0
  /\ run.result # None => row.state = run.result /\ audits = {run.result}

NotificationsInv == TypeOK /\ SecretIsTyped /\ AttemptsBounded /\ SentIsHandedOver
=============================================================================
