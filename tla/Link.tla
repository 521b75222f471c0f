-------------------------------- MODULE Link --------------------------------
(***************************************************************************)
(* What one server promises another: the stanzas one host sends reach the  *)
(* other host in the order they were sent, each once, and when nothing     *)
(* fails all of them do.                                                   *)
(***************************************************************************)
EXTENDS Naturals, Sequences

CONSTANT MaxStanzas   \* bound: stanzas sent

VARIABLES
    sent,   \* how many stanzas the sender has handed over, numbered 1, 2, ...
    got     \* the stanzas the receiver has taken, in order

vars == <<sent, got>>

Init == sent = 0 /\ got = <<>>

Send == sent < MaxStanzas /\ sent' = sent + 1 /\ UNCHANGED got

Deliver == Len(got) < sent /\ got' = Append(got, Len(got) + 1) /\ UNCHANGED sent

Next == Send \/ Deliver

Spec == Init /\ [][Next]_vars /\ WF_vars(Deliver)
=============================================================================
