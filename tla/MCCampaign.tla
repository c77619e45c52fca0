------------------------------ MODULE MCCampaign ------------------------------
(* Small instances of campaigns for TLC. *)
EXTENDS Campaign, TLC

CONSTANTS c1, f1

MCBackoff == [n \in 1..MaxAttempts |-> 2 ^ (n - 1)]

MCParentOf == f1 :> c1
MCNoParent == <<>>
=============================================================================
