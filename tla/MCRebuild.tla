------------------------------ MODULE MCRebuild ------------------------------
(***************************************************************************)
(* SchemaRebuild for an app that adds a table in its second version and    *)
(* gives one up in its third.                                              *)
(***************************************************************************)
EXTENDS SchemaRebuild

TodoTables(v) ==
    CASE v = 1 -> {"item"}
      [] v = 2 -> {"item", "note"}
      [] v = 3 -> {"note"}

\* No index comes with a column, or the second version has one on a column it
\* adds to "item".
NoIndex(v, w) == TRUE
IndexedColumn(v, w) == v < 2 \/ w >= 2

\* Every version accepts every entry, or the third has come to refuse the
\* second entry of the log.
AllApply(v, i) == TRUE
ThirdRefuses(v, i) == v < 3 \/ i # 2
=============================================================================
