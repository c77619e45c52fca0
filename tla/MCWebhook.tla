------------------------------ MODULE MCWebhook ------------------------------
(* Small instances of the webhook for TLC. *)
EXTENDS Webhook, TLC

CONSTANTS h1, h2, h3, m1, read, error

(* one message is read, another event reports an error for it *)
MCAckOf == (read :> 3) @@ (error :> -1)
MCMessageOf == [e \in {read, error} |-> m1]

MCNoAcks == <<>>

MCSymmetry == Permutations(Handlers)
=============================================================================
