------------------------------ MODULE MCMessaging ------------------------------
(* Small instances of messaging for TLC. *)
EXTENDS Messaging, TLC

MCBackoff == [n \in 1..MaxAttempts |-> 2 ^ (n - 1)]

MCSymmetry == Permutations(Jobs)
=============================================================================
