----------------------------- MODULE Incremental -----------------------------
(***************************************************************************)
(* A maintained view of crates/petros-ivm: the pipeline View <- Take <-    *)
(* Join <- Filter <- Source over a table of songs, each with its notes     *)
(* from a pipeline of their own (Take <- Filter <- Source), the list of    *)
(* patches a screen follows, and a Tally of the songs.  The store below is *)
(* crates/petros/src/backend.rs: a write reports the row it replaced, and  *)
(* a rebase of the client undoes and redoes writes without reporting any.  *)
(*                                                                         *)
(* A row is [id, by, tag, of]: its key, the column it is ordered by (the   *)
(* key breaks ties), a nullable column that the filter tag != Hidden       *)
(* reads, and for a note the song it belongs to.  One level of children    *)
(* stands for all: a Child in a Child is the same step one level down.     *)
(***************************************************************************)
EXTENDS Naturals, FiniteSets, SequencesExt

CONSTANTS
    Songs,   \* the rows the table of songs can hold
    Notes,   \* the rows the table of notes can hold
    Shapes,  \* the views looked at, see ShapeOK
    Hidden,  \* the tag the filter leaves out
    TieDown, \* ties are broken by the larger key
    Null

VARIABLES
    shape,    \* the view this behaviour is about
    songs,    \* the table of songs
    notes,    \* the table of notes
    changes,  \* what was written since the view last took account of it
    rebuilt,  \* the client rolled back since then
    held,     \* the windows of the two takes, by partition
    nodes,    \* the view's answer
    screen,   \* a list kept beside it by following the patches
    tally     \* the count kept beside it

vars == <<shape, songs, notes, changes, rebuilt, held, nodes, screen, tally>>

\* A limit of 0 is no limit.  batch bounds the changes of one apply; writes
\* says whether songs are written at all, rebases whether the client rebases.
ShapeOK(s) ==
    /\ s.limit \in Nat /\ s.kidLimit \in Nat /\ s.batch \in Nat
    /\ s.writes \in BOOLEAN /\ s.rebases \in BOOLEAN

ASSUME IncrementalAssumption ==
    /\ \A s \in Shapes : ShapeOK(s)
    /\ TieDown \in BOOLEAN

----------------------------------------------------------------------------
(* Rows, trees and deltas *)

Before(r, s) ==
    \/ r.by < s.by
    \/ r.by = s.by /\ IF TieDown THEN s.id < r.id ELSE r.id < s.id

\* The seek of a statement, which takes every term to go the way of the first.
Past(r, s) == r.by < s.by \/ (r.by = s.by /\ r.id < s.id)

InOrder(S) ==
    [i \in 1..Cardinality(S) |->
        CHOOSE r \in S : Cardinality({s \in S : Before(s, r)}) = i - 1]

Leaf(r) == [row |-> r, kids |-> <<>>]
Leaves(rs) == [i \in DOMAIN rs |-> Leaf(rs[i])]
Only(S) == CHOOSE x \in S : TRUE

\* FoldLeft, whose steps a proof can follow one by one.
After(op(_, _), base, seq) ==
    LET at[i \in 0..Len(seq)] == IF i = 0 THEN base ELSE op(at[i - 1], seq[i])
    IN  at[Len(seq)]

FirstOf(s, n) == IF n = 0 \/ Len(s) <= n THEN s ELSE SubSeq(s, 1, n)

Added(t) == [op |-> "add", row |-> t.row, tree |-> t]
Removed(r) == [op |-> "remove", row |-> r]
Edited(r, t) == [op |-> "edit", row |-> t.row, old |-> r, tree |-> t]
Child(p, d) == [op |-> "child", row |-> p, change |-> d]

Position(ts, r) == SelectInSeq(ts, LAMBDA t : t.row = r)
Place(ts, r) == 1 + Cardinality({i \in DOMAIN ts : Before(ts[i].row, r)})
Placed(ts, t) == InsertAt(ts, Place(ts, t.row), t)

\* apply_child: an add of a child already there replaces it.
ApplyChild(t, d) ==
    LET new == Position(t.kids, d.row)
        kids ==
            CASE d.op = "add" /\ new > 0 -> ReplaceAt(t.kids, new, d.tree)
              [] d.op = "add" /\ new = 0 -> Placed(t.kids, d.tree)
              [] d.op = "remove" /\ new > 0 -> RemoveAt(t.kids, new)
              [] d.op = "edit" /\ Position(t.kids, d.old) > 0 ->
                    Placed(RemoveAt(t.kids, Position(t.kids, d.old)), d.tree)
              [] OTHER -> t.kids
    IN  [t EXCEPT !.kids = kids]

----------------------------------------------------------------------------
(* Source and filter, pulled and pushed *)

\* The filter twice: as SQL reads it, where NULL != Hidden is not true, and
\* as `matches` does.
Selects(r) == r.tag # Null /\ r.tag # Hidden
Admits(r) == r.tag # Hidden

\* What one statement returns: past a row, if there is one to be past.
Fetch(S, past) ==
    InOrder({r \in S : Selects(r) /\ \A p \in past : Past(p, r)})

\* Mutant: an edit stays an edit, whichever side of the filter it ends on.
FilteredWhole(c) ==
    CASE c.was = {} -> <<Added(Leaf(Only(c.is)))>>
      [] c.is = {} -> <<Removed(Only(c.was))>>
      [] OTHER -> <<Edited(Only(c.was), Leaf(Only(c.is)))>>

\* A change of this table, after the filter.
Filtered(c) ==
    LET was == {r \in c.was : Admits(r)}
        is == {r \in c.is : Admits(r)}
    IN  CASE was = {} /\ is = {} -> <<>>
          [] was = {} /\ is # {} -> <<Added(Leaf(Only(is)))>>
          [] was # {} /\ is = {} -> <<Removed(Only(was))>>
          [] OTHER -> <<Edited(Only(was), Leaf(Only(is)))>>

----------------------------------------------------------------------------
(* The join, pulled *)

\* The first n children of each parent, in the order they came; 0 is no limit.
PerParent(ks, n) ==
    LET nth(i) == Cardinality({j \in 1..i : ks[j].row.of = ks[i].row.of})
        kept == SelectSeq([i \in DOMAIN ks |-> i], LAMBDA i : nth(i) <= n)
    IN  IF n = 0 THEN ks ELSE [i \in DOMAIN kept |-> ks[kept[i]]]

\* Those of one parent, in the order they came.
Own(own, k, p) == IF k.row.of = p THEN Append(own, k) ELSE own
OfParent(ks, p) == After(LAMBDA own, k : Own(own, k, p), <<>>, ks)

Windows(ks) == [p \in {k.row.of : k \in ToSet(ks)} |-> OfParent(ks, p)]

\* The children of these parents in one pull, the first of each if they are
\* limited.
ChildrenOf(parents) ==
    PerParent(Leaves(Fetch({n \in notes : n.of \in parents}, {})), shape.kidLimit)

\* The windows of the children pulled, if they are limited, are from then on the
\* only ones the take remembers.
Hung(h, rows, kids) ==
    [held |-> IF shape.kidLimit = 0 \/ rows = <<>> THEN h
              ELSE [h EXCEPT !.kid = Windows(kids)],
     trees |-> [i \in DOMAIN rows |->
                  [row |-> rows[i], kids |-> OfParent(kids, rows[i].id)]]]

Hydrate(h, rows) == Hung(h, rows, ChildrenOf({r.id : r \in ToSet(rows)}))

----------------------------------------------------------------------------
(* The take: level is "top" for the songs and "kid" for the notes *)

Limit(level) == IF level = "top" THEN shape.limit ELSE shape.kidLimit
Key(level, r) == IF level = "top" THEN Null ELSE r.of

Window(h, level, key) ==
    IF key \in DOMAIN h[level] THEN h[level][key] ELSE <<>>

Windowed(h, level, key, ts) ==
    [h EXCEPT ![level] =
        [k \in DOMAIN @ \cup {key} |-> IF k = key THEN ts ELSE @[k]]]

\* The node after this window, read from the store as it is by now.
Refill(h, level, key) ==
    LET window == Window(h, level, key)
        past == IF window = <<>> THEN {} ELSE {Last(window).row}
    IN  IF level = "top" THEN Hydrate(h, FirstOf(Fetch(songs, past), 1))
        ELSE [held |-> h,
              trees |-> Leaves(FirstOf(Fetch({n \in notes : n.of = key}, past), 1))]

TakeAdd(a, level, t) ==
    LET key == Key(level, t.row)
        window == Window(a.held, level, key)
        grown == Placed(window, t)
    IN  CASE Len(window) >= Limit(level) /\ Before(Last(window).row, t.row) -> a
          [] Len(grown) <= Limit(level) ->
                [held |-> Windowed(a.held, level, key, grown),
                 out |-> Append(a.out, Added(t))]
          [] OTHER ->
                [held |-> Windowed(a.held, level, key, Front(grown)),
                 out |-> a.out \o <<Added(t), Removed(Last(grown).row)>>]

\* What came in from below the window ends it, and is passed on.
Lengthened(a, level, key, next) ==
    [held |-> Windowed(next.held, level, key, Window(a.held, level, key) \o next.trees),
     out |-> a.out \o [i \in DOMAIN next.trees |-> Added(next.trees[i])]]

Refilled(a, level, key) == Lengthened(a, level, key, Refill(a.held, level, key))

TakeRemove(a, level, r) ==
    LET key == Key(level, r)
        window == Window(a.held, level, key)
        at == Position(window, r)
    IN  IF at = 0 THEN a
        ELSE Refilled([held |-> Windowed(a.held, level, key, RemoveAt(window, at)),
                       out |-> Append(a.out, Removed(r))],
                      level, key)

\* Mutant: the take passes the change on and keeps its own copy as it was.
TakeChildThrough(a, level, d) ==
    IF Position(Window(a.held, level, Key(level, d.row)), d.row) = 0 THEN a
    ELSE [a EXCEPT !.out = Append(@, d)]

TakeChild(a, level, d) ==
    LET key == Key(level, d.row)
        window == Window(a.held, level, key)
        at == Position(window, d.row)
    IN  IF at = 0 THEN a
        ELSE [held |-> Windowed(a.held, level, key,
                           ReplaceAt(window, at, ApplyChild(window[at], d.change))),
              out |-> Append(a.out, d)]

\* Mutant: an edit is a remove and then an add.
TakeStepBackwards(a, level, d) ==
    CASE d.op = "add" -> TakeAdd(a, level, d.tree)
      [] d.op = "remove" -> TakeRemove(a, level, d.row)
      [] d.op = "edit" -> TakeAdd(TakeRemove(a, level, d.old), level, d.tree)
      [] OTHER -> TakeChild(a, level, d)

\* An edit is split, the add first.
TakeStep(a, level, d) ==
    CASE d.op = "add" -> TakeAdd(a, level, d.tree)
      [] d.op = "remove" -> TakeRemove(a, level, d.row)
      [] d.op = "edit" -> TakeRemove(TakeAdd(a, level, d.tree), level, d.old)
      [] OTHER -> TakeChild(a, level, d)

Taken(h, level, deltas) ==
    IF Limit(level) = 0 THEN [held |-> h, out |-> deltas]
    ELSE After(LAMBDA a, d : TakeStep(a, level, d), [held |-> h, out |-> <<>>], deltas)

----------------------------------------------------------------------------
(* The join, pushed *)

\* A parent that was added or edited comes with its children filled in.
Filled(a, d, full) ==
    [held |-> full.held, out |-> Append(a.out, [d EXCEPT !.tree = full.trees[1]])]

FillIn(a, d) ==
    IF d.op = "remove" THEN [a EXCEPT !.out = Append(@, d)]
    ELSE Filled(a, d, Hydrate(a.held, <<d.row>>))

\* The parent of a child, if the view would hold it: read after the fact.
ParentOf(k) == {s \in songs : Selects(s) /\ s.id = k.of}
Under(ps, d) == IF ps = {} THEN <<>> ELSE <<Child(Only(ps), d)>>

\* A child edited onto another parent leaves the one and joins the other.
Attributed(d) ==
    IF d.op # "edit" THEN Under(ParentOf(d.row), d)
    ELSE IF ParentOf(d.old) = ParentOf(d.row) THEN Under(ParentOf(d.row), d)
    ELSE Under(ParentOf(d.old), Removed(d.old)) \o Under(ParentOf(d.row), Added(d.tree))

\* What the take of the children lets through, each change under its parent.
Gather(out, d) == out \o Attributed(d)
Gathered(kids) == [kids EXCEPT !.out = After(Gather, <<>>, @)]

\* A change is one of the parents' table or one of the children's.
Joined(h, c) ==
    IF c.table = "songs" THEN After(FillIn, [held |-> h, out |-> <<>>], Filtered(c))
    ELSE Gathered(Taken(h, "kid", Filtered(c)))

----------------------------------------------------------------------------
(* The view, its patches, and the tally *)

Insert(at, t) == [op |-> "insert", at |-> at, node |-> t]
RemoveFrom(at) == [op |-> "remove", at |-> at]
Update(at, t) == [op |-> "update", at |-> at, node |-> t]

Removal(old) == IF old = 0 THEN <<>> ELSE <<RemoveFrom(old)>>

\* Mutant: an edited row is patched where it was.
MoveInPlace(old, at, t) == <<IF old = 0 THEN Insert(at, t) ELSE Update(old, t)>>

\* A row that was at `old` is at `at` once it is out of the list.
Move(old, at, t) == Removal(old) \o <<Insert(at, t)>>

ViewStep(v, d) ==
    LET old == Position(v.nodes, IF d.op = "edit" THEN d.old ELSE d.row)
        without == IF old = 0 THEN v.nodes ELSE RemoveAt(v.nodes, old)
        changed == ApplyChild(v.nodes[old], d.change)
        shown(ts, ps) == [held |-> v.held, nodes |-> ts, patches |-> v.patches \o ps]
    IN  CASE d.op = "add" ->
                shown(Placed(v.nodes, d.tree), <<Insert(Place(v.nodes, d.tree.row), d.tree)>>)
          [] d.op = "remove" -> shown(without, Removal(old))
          [] d.op = "edit" ->
                shown(Placed(without, d.tree), Move(old, Place(without, d.tree.row), d.tree))
          [] d.op = "child" /\ old > 0 ->
                shown(ReplaceAt(v.nodes, old, changed), <<Update(old, changed)>>)
          [] OTHER -> v

\* View::push of one change, through every stage: the join, the take, the view.
TakenAtTop(joined) == Taken(joined.held, "top", joined.out)
Seen(v, top) == After(ViewStep, [v EXCEPT !.held = top.held], top.out)
Pushed(v, c) == Seen(v, TakenAtTop(Joined(v.held, c)))

Patched(list, p) ==
    CASE p.op = "insert" -> InsertAt(list, p.at, p.node)
      [] p.op = "remove" -> RemoveAt(list, p.at)
      [] OTHER -> ReplaceAt(list, p.at, p.node)

\* View::hydrate: a take at the top answers from its window if it has one.
Hydrated(h) ==
    LET rows == Fetch(songs, {})
        full == Hydrate(h, FirstOf(rows, shape.limit))
    IN  CASE shape.limit = 0 -> [held |-> full.held, nodes |-> full.trees]
          [] Null \in DOMAIN h.top -> [held |-> h, nodes |-> h.top[Null]]
          [] OTHER -> [held |-> Windowed(full.held, "top", Null, full.trees),
                       nodes |-> full.trees]

CountStep(m, d) ==
    CASE d.op = "add" -> m + 1
      [] d.op = "remove" /\ m > 0 -> m - 1
      [] OTHER -> m

Counted(n, c) == After(CountStep, n, IF c.table = "songs" THEN Filtered(c) ELSE <<>>)

----------------------------------------------------------------------------
(* The store: put_row and delete_row, under the foreign key of a note *)

Change(table, was, is) == [table |-> table, was |-> was, is |-> is]

\* A write of a mutation is reported.  One that a rebase undoes or redoes is
\* not: the client says that it rebuilt, and is settled before it goes on.
Reported(c) ==
    /\ ~rebuilt
    /\ \/ /\ Len(changes) < shape.batch
          /\ changes' = Append(changes, c)
          /\ UNCHANGED rebuilt
       \/ /\ shape.rebases
          /\ changes' = <<>>
          /\ rebuilt' = TRUE

WithKey(S, r) == {s \in S : s.id = r.id}

PutSong(r) ==
    /\ shape.writes
    /\ songs' = (songs \ WithKey(songs, r)) \cup {r}
    /\ Reported(Change("songs", WithKey(songs, r), {r}))
    /\ UNCHANGED <<shape, notes, held, nodes, screen, tally>>

PutNote(r) ==
    /\ \E s \in songs : s.id = r.of
    /\ notes' = (notes \ WithKey(notes, r)) \cup {r}
    /\ Reported(Change("notes", WithKey(notes, r), {r}))
    /\ UNCHANGED <<shape, songs, held, nodes, screen, tally>>

DeleteSong(r) ==
    /\ shape.writes
    /\ r \in songs
    /\ \A n \in notes : n.of # r.id
    /\ songs' = songs \ {r}
    /\ Reported(Change("songs", {r}, {}))
    /\ UNCHANGED <<shape, notes, held, nodes, screen, tally>>

DeleteNote(r) ==
    /\ r \in notes
    /\ notes' = notes \ {r}
    /\ Reported(Change("notes", {r}, {}))
    /\ UNCHANGED <<shape, songs, held, nodes, screen, tally>>

\* settle: View::apply and Tally::apply of all there is, or hydrate again.
Follow(v) ==
    /\ held' = v.held
    /\ nodes' = v.nodes
    /\ screen' = After(Patched, screen, v.patches)
    /\ tally' = After(Counted, tally, changes)

StartOver(v) ==
    /\ held' = v.held
    /\ nodes' = v.nodes
    /\ screen' = v.nodes
    /\ tally' = Len(Fetch(songs, {}))

Settle ==
    /\ rebuilt \/ changes # <<>>
    /\ \/ rebuilt /\ StartOver(Hydrated(held))
       \/ ~rebuilt /\ Follow(After(Pushed, [held |-> held, nodes |-> nodes,
                                            patches |-> <<>>], changes))
    /\ changes' = <<>>
    /\ rebuilt' = FALSE
    /\ UNCHANGED <<shape, songs, notes>>

----------------------------------------------------------------------------
\* Two rows of a table never have the same key.
Keyed(S) == \A r, s \in S : r.id = s.id => r = s

\* Every note of N has its song in S.
Attached(N, S) == \A n \in N : \E s \in S : s.id = n.of

\* A view that is about to be hydrated for the first time, on any tables;
\* songs that are never written are all there from the start.
Init ==
    /\ shape \in Shapes
    /\ songs \in {S \in SUBSET Songs : Keyed(S)}
    /\ shape.writes \/ Attached(Notes, songs)
    /\ notes \in {N \in SUBSET Notes : Keyed(N) /\ Attached(N, songs)}
    /\ changes = <<>>
    /\ rebuilt = TRUE
    /\ held = [top |-> <<>>, kid |-> <<>>]
    /\ nodes = <<>>
    /\ screen = <<>>
    /\ tally = 0

Next ==
    \/ \E r \in Songs : PutSong(r) \/ DeleteSong(r)
    \/ \E r \in Notes : PutNote(r) \/ DeleteNote(r)
    \/ Settle

Spec == Init /\ [][Next]_vars

----------------------------------------------------------------------------
(* Properties *)

\* The same question put to the store: what select_with answers.
Answer ==
    LET kids(s) == Leaves(Fetch({n \in notes : n.of = s.id}, {}))
        rows == FirstOf(Fetch(songs, {}), shape.limit)
    IN  [i \in DOMAIN rows |->
            [row |-> rows[i], kids |-> FirstOf(kids(rows[i]), shape.kidLimit)]]

Settled == changes = <<>> /\ ~rebuilt

TypeOK ==
    /\ shape \in Shapes
    /\ songs \subseteq Songs /\ Keyed(songs)
    /\ notes \subseteq Notes /\ Keyed(notes)
    /\ Len(changes) <= shape.batch
    /\ rebuilt \in BOOLEAN
    /\ tally \in 0..Cardinality(Songs)

\* A view is a query that stays right without being run again (the header of
\* petros-ivm): once it has taken account of what was written, the order, the
\* limit, the filter and the children are those the query would give now.
ViewIsQuery == Settled => nodes = Answer

\* A list that started equal to the view's and follows the patches, one after
\* the other, ends equal to it (the doc of `Patch`).
ScreenFollows == screen = nodes

\* The window of the take at the top is the view it feeds, children and all,
\* so that whoever is answered from it is answered right (`Take`).
WindowIsView == Settled /\ shape.limit > 0 => held.top[Null] = nodes

\* The count is that of the rows the query matches (`Tally`).
TallyCounts == Settled => tally = Len(Fetch(songs, {}))
=============================================================================
