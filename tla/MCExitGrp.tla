----------------------------- MODULE MCExitGrp -----------------------------
(* Exit groups on small families of processes; the values are in the cfgs. *)
EXTENDS ExitGrp
=============================================================================
