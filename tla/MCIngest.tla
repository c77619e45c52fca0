------------------------------- MODULE MCIngest -------------------------------
(* Three instances of the webhook in one run: acks of one message, changes   *)
(* of the session's status by the provider and by operators, and a reaction. *)
(* Each kind of event has rows, queues and history of its own, and a request *)
(* waits for none of another kind, so a behaviour of all of them, seen by    *)
(* the state of one kind, is one of that kind's instance, within its bounds. *)
EXTENDS MCWebhook

CONSTANT reaction

VARIABLE instance

MCInit == Init /\ instance \in {"acks", "statuses", "reactions"}

Within(events) == \A h \in Handlers : handler'[h].event \in events \cup {None}

(* Idle handlers are alike: the first of them takes the next delivery. *)
Before == {<<h1, h2>>, <<h1, h3>>, <<h2, h3>>}
InOrder ==
  \A g, h \in Handlers :
    <<g, h>> \in Before /\ At(h, "idle") /\ handler'[h] # Idle => ~At(g, "idle")

(* The bound of the third change: two requests at once and one fault. *)
Fewer == faults' <= 1 /\ handler'[h3] = Idle

Inside ==
  CASE instance = "acks" -> UNCHANGED now /\ Within(Acks)
    [] instance = "statuses" -> (now' <= 2 \/ Fewer) /\ UNCHANGED evidence /\ Within(Changes)
    [] instance = "reactions" -> UNCHANGED <<now, evidence>> /\ Within(Reactions)

MCNext == Next /\ Inside /\ InOrder /\ UNCHANGED instance

mcvars == <<vars, instance>>

MCSpec ==
  /\ MCInit /\ [][MCNext]_mcvars
  /\ \A h \in Handlers : WF_mcvars(Serve(h) /\ UNCHANGED instance)
=============================================================================
