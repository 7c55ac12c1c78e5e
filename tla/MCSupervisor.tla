----------------------------- MODULE MCSupervisor -----------------------------
(* Model-checking instances of Supervisor: the configurations choose the callers
   inside and outside the monitor. *)
EXTENDS Supervisor
=============================================================================
