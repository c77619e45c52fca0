------------------------------ MODULE Delivery ------------------------------
(***************************************************************************)
(* What the durable scheduler promises to those who hand it a text: it is  *)
(* sent at most once, never unless a dispatch took it while it was still   *)
(* pending, and it is tried again only after an attempt that sent nothing. *)
(* A dispatch may outlive the scheduler's interest in it: a job is closed  *)
(* when its lease runs out although the call to the provider is pending.   *)
(***************************************************************************)
EXTENDS Naturals

CONSTANT Jobs

VARIABLES
  phase,   \* where the scheduler has got to with each job
  flying,  \* jobs some dispatch is working on
  sent     \* messages handed to the provider for each job

dvars == <<phase, flying, sent>>

Phases == {"unborn", "pending", "trying", "closed"}

TypeOK ==
  /\ phase \in [Jobs -> Phases]
  /\ flying \subseteq Jobs
  /\ sent \in [Jobs -> {0, 1}]

Init ==
  /\ phase = [j \in Jobs |-> "unborn"]
  /\ flying = {}
  /\ sent = [j \in Jobs |-> 0]

Accept(j) ==
  /\ phase[j] = "unborn"
  /\ phase' = [phase EXCEPT ![j] = "pending"]
  /\ UNCHANGED <<flying, sent>>

Start(j) ==
  /\ phase[j] = "pending"
  /\ j \notin flying
  /\ phase' = [phase EXCEPT ![j] = "trying"]
  /\ flying' = flying \cup {j}
  /\ UNCHANGED sent

Send(j) ==
  /\ j \in flying
  /\ sent[j] = 0
  /\ sent' = [sent EXCEPT ![j] = 1]
  /\ UNCHANGED <<phase, flying>>

(* A dispatch ends: it closes its job, or puts an unsent one back, or      *)
(* finds that the job was closed behind its back.                          *)
Land(j) ==
  /\ j \in flying
  /\ flying' = flying \ {j}
  /\ \/ phase[j] = "trying" /\ phase' = [phase EXCEPT ![j] = "closed"]
     \/ phase[j] = "trying" /\ sent[j] = 0 /\ phase' = [phase EXCEPT ![j] = "pending"]
     \/ phase[j] = "closed" /\ UNCHANGED phase
  /\ UNCHANGED sent

(* Dispatches are lost with an exception or with the process.              *)
Lose ==
  /\ \E S \in SUBSET flying : flying' = S
  /\ UNCHANGED <<phase, sent>>

(* Jobs are withdrawn, missed or given up.                                 *)
Close(from) ==
  /\ \E S \in SUBSET {j \in Jobs : phase[j] = from} :
        phase' = [j \in Jobs |-> IF j \in S THEN "closed" ELSE phase[j]]
  /\ UNCHANGED <<flying, sent>>

Next ==
  \/ \E j \in Jobs : Accept(j) \/ Start(j) \/ Send(j) \/ Land(j)
  \/ Lose
  \/ Close("pending")
  \/ Close("trying")

Spec == Init /\ [][Next]_dvars
=============================================================================
