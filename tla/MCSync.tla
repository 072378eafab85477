------------------------------- MODULE MCSync -------------------------------
(***************************************************************************)
(* PetrosSync with the app of crates/petros/tests/common/todo.rs over one  *)
(* to-do item that exists from the start: `claim` is refused when somebody *)
(* else holds the item, a removed item takes any claim as a no-op, and     *)
(* `remove` is never refused.  `once` is a verb the app accepts once, so   *)
(* an entry that asks for it is refused after itself.                      *)
(***************************************************************************)
EXTENDS PetrosSync

Removed(h) == \E i \in DOMAIN h : h[i].op = "remove"

TodoRejects(h, e) ==
    \/ /\ e.op = "claim"
       /\ ~Removed(h)
       /\ \E i \in DOMAIN h : h[i].op = "claim" /\ h[i].by # e.by
    \/ /\ e.op = "once"
       /\ \E i \in DOMAIN h : h[i].op = "once"

\* Every client runs the same app, or c2 has an old build that lacks `once`
\* as c1's has it.
SameApp(c, e) == TRUE
OldC2(c, e) == c = "c2" /\ e.by = "c1" => e.op # "once"

\* ann has c1 to herself and shares c2 with bob.  What c2 authors is bob's, but
\* `once` names a session of cat's, who has never signed in on either.
AnnAndBob == [c \in Clients |-> IF c = "c1" THEN {"ann"} ELSE {"ann", "bob"}]
Author(e) == IF e.by = "c1" THEN "ann" ELSE IF e.op = "once" THEN "cat" ELSE "bob"
OwnEntry(u, e) == u = Author(e)

OneEach == [c \in Clients |-> 1]
TwoAndOne == [c \in Clients |-> IF c = "c1" THEN 2 ELSE 1]
OneAndTwo == [c \in Clients |-> IF c = "c2" THEN 2 ELSE 1]
=============================================================================
