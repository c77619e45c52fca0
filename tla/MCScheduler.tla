---------------------------- MODULE MCScheduler ----------------------------
(* Small instances of the scheduler for TLC. *)
EXTENDS Scheduler, TLC

(* backoffMs * 2 ** (attempts - 1), with one clock unit of base delay *)
MCBackoff == [n \in 1..MaxAttempts |-> 2 ^ (n - 1)]

MCSymmetry == Permutations(Jobs)
=============================================================================
