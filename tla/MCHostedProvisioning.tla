------------------------ MODULE MCHostedProvisioning ------------------------
(* Hosted releases on a small instance: one connection that the user edits  *)
(* once, one  trouble of any kind at any step.  The timers are the smallest *)
(* that keep the order of the code's defaults.                              *)
EXTENDS HostedProvisioning
=============================================================================
