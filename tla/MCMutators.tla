----------------------------- MODULE MCMutators -----------------------------
(***************************************************************************)
(* Two peers of one process and four modules: one that works, one that was *)
(* built wrong and still loads, one whose petros_apply takes other         *)
(* arguments, which loads too, and one that does not load.                 *)
(***************************************************************************)
EXTENDS Mutators

Works == [passes |-> TRUE, mistyped |-> {}, does |-> {"write", "refuse", "trap"}]
Broken == [passes |-> TRUE, mistyped |-> {}, does |-> {"write", "misspeak", "misplace"}]
Misshapen == [passes |-> TRUE, mistyped |-> {"apply"}, does |-> {"write"}]
Unfit == [passes |-> FALSE, mistyped |-> {}, does |-> {}]

FourModules == {Works, Broken, Misshapen, Unfit}
=============================================================================
