------------------------------- MODULE MCHub --------------------------------
(***************************************************************************)
(* Hub with up to three connections of two users.                          *)
(***************************************************************************)
EXTENDS Hub

TwoUsers == {[user |-> "ann", session |-> "phone"], [user |-> "bob", session |-> "laptop"]}
=============================================================================
