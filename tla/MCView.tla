------------------------------- MODULE MCView -------------------------------
(***************************************************************************)
(* ClientView for a client with two entries of its own, a1 and a2, and two *)
(* of others, t1 and t2.  a1 is refused once t1 is there, a2 needs t2 or   *)
(* a1 before it, and an app that writes before it refuses leaves a draft   *)
(* of a1 behind, on which a2 is refused too.                               *)
(***************************************************************************)
EXTENDS ClientView

OwnTwo == {"a1", "a2"}
OthersTwo == {"t1", "t2"}
OthersOne == {"t1"}

There(b, x) == \E i \in DOMAIN b : b[i] = x

AppRejects(b, e) ==
    \/ e = "a1" /\ There(b, "t1")
    \/ e = "a2" /\ ~There(b, "a1") /\ ~There(b, "t2")

\* a2 stands on its own unless a draft is in its way.
DraftRejects(b, e) ==
    \/ e = "a1" /\ There(b, "t1")
    \/ e = "a2" /\ There(b, "draft")

ChecksFirst(e) == <<>>
WritesFirst(e) == IF e = "a1" THEN <<"draft">> ELSE <<>>
=============================================================================
