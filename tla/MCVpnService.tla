----------------------------- MODULE MCVpnService -----------------------------
(* Model-checking instances of VpnService. *)
EXTENDS VpnService, TLC

\* Start intents and recovery coroutines are interchangeable.
JobSymmetry == Permutations(Startup) \cup Permutations(Recovery)
=============================================================================
