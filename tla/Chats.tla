-------------------------------- MODULE Chats --------------------------------
(***************************************************************************)
(* The chats and messages of a session (projectChats and messages of       *)
(* waha/sessions.ts).  A chat known by a linked id (LID) or without a name *)
(* is looked up at WAHA in batches whose lookups settle in any order, some *)
(* of them with an error; mentions in a preview are replaced by names one  *)
(* LID after the other.                                                    *)
(***************************************************************************)
EXTENDS Integers, Sequences, FiniteSets

CONSTANTS
  Positions,   \* positions of the chats WAHA listed, from 1
  Batch,       \* lookups in flight together
  Lids,        \* LIDs in messages
  Prefix,      \* pairs of a LID and one whose digits begin with it
  None

VARIABLES
  chat,        \* the chats as WAHA listed them
  step,        \* where projectChats is
  inFlight,    \* positions whose lookup waits for WAHA
  queue,       \* positions still to look up, sent in their order
  phones, names,  \* what the lookups found, by position
  asked,       \* history: lookups of each position
  view,        \* what the caller gets
  text         \* a message's preview before and after its mentions are replaced

vars == <<chat, step, inFlight, queue, phones, names, asked, view, text>>

Kinds == {"phone", "lid", "group"}
(* no name counts as one that reads like a phone number *)
RawNames == {"proper", "phoneLike"}
IsPhoneLikeName(name) == name = "phoneLike"

TypeOK ==
  /\ chat = None \/ chat \in [Positions -> [kind : Kinds, name : RawNames]]
  /\ step \in {"start", "lids", "names", "done"}
  /\ inFlight \subseteq Positions /\ queue \subseteq Positions
  /\ phones \in [Positions -> {"own", "theirs", None}]
  /\ \A i \in Positions : names[i] \in {None} \cup ({"found"} \X Positions)

Init ==
  /\ chat = None /\ step = "start" /\ inFlight = {} /\ queue = {}
  /\ phones = [i \in Positions |-> None] /\ names = [i \in Positions |-> None]
  /\ asked = [i \in Positions |-> 0]
  /\ view = None /\ text = None

(* the first of the positions that wait: offset and size of a slice *)
FirstOf(todo) == {i \in todo : Cardinality({j \in todo : j < i}) < Batch}

(* a batch is sent when the one before it has settled *)
SendBatch(todo) ==
  /\ inFlight' = FirstOf(todo)
  /\ queue' = todo \ inFlight'
  /\ asked' = [i \in Positions |-> IF i \in inFlight' THEN asked[i] + 1 ELSE asked[i]]

Start(listed) ==
  /\ step = "start" /\ step' = "lids" /\ text = None
  /\ chat' = listed
  /\ SendBatch({i \in Positions : listed[i].kind = "lid"})
  /\ UNCHANGED <<phones, names, view, text>>

(* the contact's own id, or its number, unless it repeats the LID *)
ContactPhone(jid, number) ==
  IF jid \notin {None, "lid"} THEN jid ELSE IF number \notin {None, "lid"} THEN number ELSE None

(* One lookup settles: an error (answer None), or a contact.  Names found for *)
(* a chat are its own.                                                        *)
Settle(i, answer) ==
  /\ i \in inFlight
  /\ inFlight' = inFlight \ {i}
  /\ phones' = IF step = "lids" /\ answer # None
               THEN [phones EXCEPT ![i] = ContactPhone(answer.jid, answer.number)] ELSE phones
  /\ names' = IF answer # None /\ ~IsPhoneLikeName(answer.name)
              THEN [names EXCEPT ![i] = <<"found", i>>] ELSE names
  /\ UNCHANGED <<chat, step, queue, asked, view, text>>

NextBatch ==
  /\ step \in {"lids", "names"} /\ inFlight = {} /\ queue # {}
  /\ SendBatch(queue)
  /\ UNCHANGED <<chat, step, phones, names, view, text>>

(* The second round asks for every chat that has no usable name yet. *)
MutStartNames ==
  /\ step = "lids" /\ inFlight = {} /\ queue = {} /\ step' = "names"
  /\ SendBatch({i \in Positions : chat[i].kind = "phone" /\ chat[i].name = None})
  /\ UNCHANGED <<chat, phones, names, view, text>>

StartNames ==
  /\ step = "lids" /\ inFlight = {} /\ queue = {} /\ step' = "names"
  /\ SendBatch({i \in Positions :
       chat[i].kind # "group" /\ names[i] = None /\ IsPhoneLikeName(chat[i].name)})
  /\ UNCHANGED <<chat, phones, names, view, text>>

(* chatView *)
ChatView(i) ==
  [phone |-> IF chat[i].kind = "phone" THEN "own" ELSE phones[i],
   name |-> IF names[i] # None THEN names[i]
            ELSE IF IsPhoneLikeName(chat[i].name) THEN None ELSE <<"raw", i>>]

Show ==
  /\ step = "names" /\ inFlight = {} /\ queue = {} /\ step' = "done"
  /\ view' = [i \in Positions |-> ChatView(i)]
  /\ UNCHANGED <<chat, inFlight, queue, phones, names, asked, text>>

-----------------------------------------------------------------------------
(* messages: every LID mentioned is looked up and gets a label: its contact's *)
(* name or phone, or else the LID itself, which changes nothing.  The map     *)
(* keeps the order of mention, and each turn of split and join also finds its *)
(* LID at the head of a longer one.                                           *)
ReplaceOne(mention, l) ==
  IF mention[1] = "raw" /\ (mention[2] = l \/ <<l, mention[2]>> \in Prefix)
  THEN <<"label", l>> ELSE mention

Replaced(l, order, known) ==
  LET after[k \in 0..Len(order)] ==
        IF k = 0 THEN <<"raw", l>>
        ELSE IF order[k] \in known THEN ReplaceOne(after[k - 1], order[k]) ELSE after[k - 1]
  IN after[Len(order)]

(* order: the LIDs of all the page's messages, as they are first mentioned *)
Mention(l, order, known) ==
  /\ step = "start" /\ text = None
  /\ text' = [lid |-> l, shown |-> Replaced(l, order, known), known |-> known, order |-> order]
  /\ UNCHANGED <<chat, step, inFlight, queue, phones, names, asked, view>>

Answers == [jid : {"theirs", "lid", None}, number : {"theirs", "lid", None}, name : RawNames]
Orders == {s \in UNION {[1..n -> Lids] : n \in 0..Cardinality(Lids)} :
             \A a, b \in DOMAIN s : s[a] = s[b] => a = b}

Next ==
  \/ \E listed \in [Positions -> [kind : Kinds, name : RawNames]] : Start(listed)
  \/ NextBatch \/ StartNames \/ Show
  \/ \E i \in Positions, answer \in Answers \cup {None} : Settle(i, answer)
  \/ \E order \in Orders, known \in SUBSET Lids :
       \E k \in DOMAIN order : Mention(order[k], order, known)

Spec == Init /\ [][Next]_vars

-----------------------------------------------------------------------------
(* A list of any length asks WAHA for at most Batch contacts at a time, and  *)
(* for each chat at most twice (the two loops of projectChats).              *)
LookupsBounded ==
  /\ Cardinality(inFlight) <= Batch
  /\ chat # None =>
       \A i \in Positions :
         asked[i] <= (CASE chat[i].kind = "lid" -> 2 [] chat[i].kind = "phone" -> 1 [] OTHER -> 0)

(* Each chat is shown under its own name and phone, whatever settled first:  *)
(* a phone number never passes for a name, a LID never for a phone, and a    *)
(* chat without a name was asked for one (chatView, contactPhone).           *)
ViewsTrue ==
  view # None =>
    \A i \in Positions :
      /\ view[i].name # None => view[i].name[2] = i
      /\ view[i].name = None /\ chat[i].kind # "group" => asked[i] > 0
      /\ view[i].phone # "lid"
      /\ chat[i].kind = "phone" => view[i].phone = "own"
      /\ chat[i].kind = "group" => view[i].phone = None

(* A mention shows its own label, unless a LID mentioned before it makes the *)
(* head of its digits: then that one's name (the replacement loop of messages).*)
MentionsTrue ==
  text # None =>
    LET at == CHOOSE k \in DOMAIN text.order : text.order[k] = text.lid IN
    \/ text.shown = IF text.lid \in text.known THEN <<"label", text.lid>> ELSE <<"raw", text.lid>>
    \/ \E k \in DOMAIN text.order :
         /\ text.order[k] \in text.known /\ <<text.order[k], text.lid>> \in Prefix
         /\ text.shown = <<"label", text.order[k]>>
         /\ text.lid \in text.known => k < at

ChatsInv == TypeOK /\ LookupsBounded /\ ViewsTrue /\ MentionsTrue
=============================================================================
