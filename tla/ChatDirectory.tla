----------------------------- MODULE ChatDirectory -----------------------------
(***************************************************************************)
(* The directory of a session's chats and the overlay with the messages of *)
(* one of them (chat-directory.tsx, chat-history-overlay.tsx).  WAHA       *)
(* fetches the messages of a chat lazily, so an empty answer is asked for  *)
(* again after some seconds, and the chats of a list are asked for one     *)
(* after the other before anybody opens them.  An answer whose effect was  *)
(* cleaned up is ignored, so its call is out of the model; the call of Try *)
(* again has no such check.                                                *)
(***************************************************************************)
EXTENDS Integers, Sequences, FiniteSets

CONSTANTS
  Sessions, FirstSession,
  Refs,       \* references of chats, the list is in their order
  Attempts,   \* calls of one opening: one more than the delays
  MaxRetries, \* bound on calls of Try again under way
  None

VARIABLES
  session,    \* sessionId, None while no session is chosen
  chats,      \* the list shown, and the session it is of
  open,       \* the chat whose messages are shown (history)
  messages,   \* what is shown, and the session and chat it is of
  calls,      \* calls under way whose answer counts
  timer,      \* the attempt a timer of the ladder is set for
  warm,       \* the chats still to warm, "waiting" before the 2 seconds are over
  tries,      \* history: calls made since the chat was opened
  again,      \* history: an answer of Try again was shown since then
  stray,      \* history: one about another chat
  warmed      \* history: calls made for the list, by chat

vars == <<session, chats, open, messages, calls, timer, warm, tries, again, stray, warmed>>

Loading == [kind |-> "loading", of |-> None]
Shows(answer, s, r) == [kind |-> answer, of |-> <<s, r>>]
Call(op, s, r, n) == [op |-> op, session |-> s, ref |-> r, n |-> n]
MutOthers(ops) == calls
(* an effect's cleanup gives up the calls it made *)
Others(ops) == {c \in calls : c.op \notin ops}

TypeOK ==
  /\ session \in Sessions \cup {None} /\ open \in Refs \cup {None}
  /\ chats.kind \in {"loading", "ready", "error"}
  /\ messages.kind \in {"loading", "empty", "full", "error"}
  /\ \A c \in calls : c.op \in {"chats", "load", "retry", "warm"} /\ c.n \in 0..Attempts
  /\ timer \in 0..Attempts \cup {None}

NoWarming == [step |-> "off", queue |-> <<>>]
ListCall(s) == IF s = None THEN {} ELSE {Call("chats", s, None, 0)}
EmptyList == [kind |-> "ready", of |-> None, refs |-> <<>>]
LoadingList == [kind |-> "loading", of |-> None, refs |-> <<>>]
None0 == [r \in Refs |-> 0]

Init ==
  /\ session = FirstSession /\ chats = LoadingList /\ calls = ListCall(FirstSession)
  /\ open = None /\ messages = Loading /\ timer = None /\ warm = NoWarming
  /\ tries = 0 /\ again = FALSE /\ stray = FALSE /\ warmed = None0

(* the effect of the open chat and its session: the ladder begins again *)
Opened(s, r, kept) ==
  /\ open' = r /\ messages' = Loading /\ timer' = None
  /\ calls' = kept \cup {Call("load", s, r, 0)}
  /\ tries' = 1 /\ again' = FALSE /\ stray' = FALSE

(* Another session: the list is read again, and an open chat is asked for in *)
(* the new session with the reference it had in the old one.                 *)
SelectSession(s) ==
  /\ s # session /\ session' = s
  /\ chats' = IF s = None THEN EmptyList ELSE LoadingList
  /\ warm' = IF s = None THEN [step |-> "waiting", queue |-> <<>>] ELSE NoWarming
  /\ warmed' = None0
  /\ LET kept == Others({"chats", "load", "warm"}) \cup ListCall(s) IN
     IF open # None THEN Opened(s, open, kept)
     ELSE calls' = kept /\ UNCHANGED <<open, messages, timer, tries, again, stray>>

AnswerChats(c, kind, list) ==
  /\ c.op = "chats"
  /\ calls' = calls \ {c}
  /\ chats' = [kind |-> kind, of |-> c.session, refs |-> list]
  /\ warm' = IF kind = "ready" THEN [step |-> "waiting", queue |-> list] ELSE warm
  /\ UNCHANGED <<session, open, messages, timer, tries, again, stray, warmed>>

-----------------------------------------------------------------------------
(* warmNext: the next chat, until none is left *)
WarmNext(kept) ==
  IF warm.queue = <<>>
  THEN /\ warm' = NoWarming /\ calls' = kept /\ UNCHANGED warmed
  ELSE /\ warm' = [step |-> "on", queue |-> Tail(warm.queue)]
       /\ calls' = kept \cup {Call("warm", session, Head(warm.queue), 0)}
       /\ warmed' = [warmed EXCEPT ![Head(warm.queue)] = @ + 1]

WarmTimer ==
  /\ warm.step = "waiting" /\ WarmNext(calls)
  /\ UNCHANGED <<session, chats, open, messages, timer, tries, again, stray>>

(* any answer, or an error *)
AnswerWarm(c) ==
  /\ c.op = "warm" /\ WarmNext(calls \ {c})
  /\ UNCHANGED <<session, chats, open, messages, timer, tries, again, stray>>

-----------------------------------------------------------------------------
(* The button of a row; the overlay keeps no one from the rows behind it.    *)
OpenChat(r) ==
  /\ \E k \in 1..Len(chats.refs) : chats.refs[k] = r
  /\ Opened(session, r, Others({"load"}))
  /\ UNCHANGED <<session, chats, warm, warmed>>

(* the button Close, or Escape *)
Close ==
  /\ open # None /\ open' = None /\ timer' = None /\ calls' = Others({"load"})
  /\ UNCHANGED <<session, chats, messages, warm, tries, again, stray, warmed>>

(* An empty answer sets the next timer of the ladder, any other is shown. *)
AnswerLoad(c, answer) ==
  /\ c.op = "load" /\ calls' = calls \ {c}
  /\ IF answer = "empty" /\ c.n < Attempts - 1
     THEN timer' = c.n + 1 /\ UNCHANGED messages
     ELSE messages' = Shows(answer, c.session, c.ref) /\ UNCHANGED timer
  /\ UNCHANGED <<session, chats, open, warm, tries, again, stray, warmed>>

LadderTimer ==
  /\ timer # None /\ timer' = None
  /\ calls' = calls \cup {Call("load", session, open, timer)} /\ tries' = tries + 1
  /\ UNCHANGED <<session, chats, open, messages, warm, again, stray, warmed>>

(* retryHistory: offered once the chat seems to be empty *)
TryAgain ==
  /\ open # None /\ messages.kind = "empty"
  /\ Cardinality({c \in calls : c.op = "retry"}) < MaxRetries
  /\ messages' = Loading /\ calls' = calls \cup {Call("retry", session, open, 0)}
  /\ UNCHANGED <<session, chats, open, timer, warm, tries, again, stray, warmed>>

AnswerRetry(c, answer) ==
  /\ c.op = "retry" /\ calls' = calls \ {c}
  /\ messages' = Shows(answer, c.session, c.ref)
  /\ again' = TRUE /\ stray' = (stray \/ <<c.session, c.ref>> # <<session, open>>)
  /\ UNCHANGED <<session, chats, open, timer, warm, tries, warmed>>

Next ==
  \/ \E s \in Sessions \cup {None} : SelectSession(s)
  \/ \E c \in calls :
       \/ AnswerChats(c, "ready", [k \in 1..Cardinality(Refs) |-> k])
       \/ AnswerChats(c, "error", <<>>)
       \/ AnswerWarm(c)
       \/ \E answer \in {"empty", "full", "error"} : AnswerLoad(c, answer) \/ AnswerRetry(c, answer)
  \/ WarmTimer \/ LadderTimer
  \/ \E r \in Refs : OpenChat(r)
  \/ Close \/ TryAgain

Spec == Init /\ [][Next]_vars

-----------------------------------------------------------------------------
Underway(op) == {c \in calls : c.op = op}

(* The list and the messages shown are of the chosen session and the open    *)
(* chat, but for a late answer to Try again (the effects' current flags; the *)
(* missing one of retryHistory).                                             *)
ShownIsChosen ==
  /\ chats.kind = "ready" => chats.of = session
  /\ open # None /\ messages.kind # "loading" /\ ~stray => messages.of = <<session, open>>

(* A spinner waits for an answer or a timer that is still to come.           *)
NoLostSpinner ==
  /\ chats.kind = "loading" => Underway("chats") # {}
  /\ open # None /\ messages.kind = "loading" =>
       timer # None \/ Underway("load") # {} \/ Underway("retry") # {}

(* A chat is called empty only after every attempt of the ladder, which are  *)
(* one at a time, or after an answer to Try again (the delays of load).      *)
EmptyAfterLadder ==
  /\ tries <= Attempts
  /\ Cardinality(Underway("load")) + (IF timer = None THEN 0 ELSE 1) <= 1
  /\ open # None /\ messages.kind = "empty" /\ ~again => tries = Attempts

(* Warming asks for each chat of the list shown once, one at a time, and     *)
(* stops when another list is shown (warmNext, cancelled).                   *)
WarmedInTurn ==
  /\ Cardinality(Underway("warm")) <= 1
  /\ \A c \in Underway("warm") : chats.kind = "ready" /\ c.session = chats.of
  /\ \A r \in Refs : warmed[r] <= 1

DirectoryInv == TypeOK /\ ShownIsChosen /\ NoLostSpinner /\ EmptyAfterLadder /\ WarmedInTurn
=============================================================================
