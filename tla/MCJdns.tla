------------------------------- MODULE MCJdns -------------------------------
(* Instances of Jdns for TLC: two names that are aliases of each other. *)
EXTENDS Jdns

CONSTANTS nameA, nameB, serverA, serverB, reqA, reqB

MCAlias == nameA :> nameB @@ nameB :> nameA
=============================================================================
