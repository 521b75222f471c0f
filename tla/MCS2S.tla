------------------------------- MODULE MCS2S --------------------------------
(* Instances of S2S for TLC. *)
EXTENDS S2S

CONSTANTS hostA, hostB
=============================================================================
