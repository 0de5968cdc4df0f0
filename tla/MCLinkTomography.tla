-------------------------- MODULE MCLinkTomography --------------------------
(* Instances of LinkTomography for TLC. *)
EXTENDS LinkTomography

Two == [left |-> 2, right |-> 2]
Three == [left |-> 3, right |-> 3]
=============================================================================
