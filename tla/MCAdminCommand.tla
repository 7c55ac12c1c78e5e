---------------------------- MODULE MCAdminCommand ----------------------------
(* Model-checking instances of AdminCommand. *)
EXTENDS AdminCommand, TLC

ThreadSymmetry == Permutations(Threads)
=============================================================================
