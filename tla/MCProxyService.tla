---------------------------- MODULE MCProxyService ----------------------------
(* Instances of ProxyService for TLC: the bounds are in the configurations. *)
EXTENDS ProxyService
=============================================================================
