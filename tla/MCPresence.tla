----------------------------- MODULE MCPresence -----------------------------
(* Instances of Presence for TLC: users are interchangeable. *)
EXTENDS Presence

CONSTANTS a, b, r, x

EachOther == {p \in Users \X Names : p[1] # p[2]}
BareLocal == {Bare(n) : n \in Users}
RemoteTargets == RemoteJid
Symmetry == Permutations(Users)
=============================================================================
