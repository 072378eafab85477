----------------------------- MODULE MCSessions -----------------------------
(***************************************************************************)
(* Sessions with two devices and two people.                               *)
(***************************************************************************)
EXTENDS Sessions
=============================================================================
