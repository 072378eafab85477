---------------------------- MODULE MCIncremental ----------------------------
(***************************************************************************)
(* Incremental over up to three songs and two notes, and the views that    *)
(* are looked at.                                                          *)
(***************************************************************************)
EXTENDS Incremental

Row(i, b, t, p) == [id |-> i, by |-> b, tag |-> t, of |-> p]

\* The first song can be hidden, and all of them move.
ThreeSongs == {Row(1, b, "hidden", 0) : b \in 1..2}
              \cup {Row(i, b, "shown", 0) : i \in 1..3, b \in 1..2}
TwoNotes == {Row(1, 1, "shown", p) : p \in 1..2}
            \cup {Row(2, b, "shown", p) : b \in {0, 2}, p \in 1..2}

Shape(limit, kidLimit, batch, writes, rebases) ==
    [limit |-> limit, kidLimit |-> kidLimit, batch |-> batch,
     writes |-> writes, rebases |-> rebases]

\* All songs in batches of two with rebases; two songs, one change at a time;
\* one note of each song, while only notes are written.
Sound == {Shape(0, 0, 2, TRUE, TRUE), Shape(2, 0, 1, TRUE, FALSE),
          Shape(0, 1, 1, FALSE, FALSE)}
=============================================================================
