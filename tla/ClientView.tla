------------------------------ MODULE ClientView ------------------------------
(***************************************************************************)
(* What one client shows: the connection of crates/petros/src/client.rs    *)
(* as SQLite sees it.  The optimistic view is rows written under an open   *)
(* savepoint, never committed; a maintained copy of it (crates/petros/src/ *)
(* lib.rs `Views`) is fed by the changes the client reports.  The server   *)
(* and the network are PetrosSync's matter: here they are the log that     *)
(* grows, and any slice of it arriving in any order, any number of times.  *)
(*                                                                         *)
(* A table is the sequence of what has been written to it, an entry's rows *)
(* stand for the entry.                                                    *)
(***************************************************************************)
EXTENDS Naturals, FiniteSets, SequencesExt

CONSTANTS
    Mine,           \* the entries this client can author
    Theirs,         \* the entries of everybody else
    Rejects(_, _),  \* the app refuses an entry on some tables
    Partial(_),     \* what the app has written by the time it refuses one
    Unknown,        \* entries of others whose verb this client's app lacks
    ApplyChunk,
    Failures,       \* what may happen: "state" or "intents", the file that
                    \* fails, or "crash"
    MaxFailures     \* bound: how many of them do

VARIABLES
    logged,      \* the server's log
    verdicts,    \* own entries the server has answered with a Reject
    authored,    \* history: own entries recorded, and pushed
    unrecorded,  \* history: own entries applied whose intent was not written
    held,        \* petros_log: the sequence numbers this client holds
    queue,       \* petros_pending, in the order the entries were made
    db,          \* the connection to the state file
    mirror,      \* the caller's maintained view
    run,         \* the client is open
    failures     \* how many failures there have been

vars ==
    <<logged, verdicts, authored, unrecorded, held, queue, db, mirror, run, failures>>

ASSUME ViewAssumption ==
    /\ ApplyChunk \in Nat \ {0}
    /\ MaxFailures \in Nat
    /\ Failures \subseteq {"state", "intents", "crash"}
    /\ Unknown \subseteq Theirs
    /\ Mine \cap Theirs = {}
    /\ \A e \in Mine : Partial(e) \in Seq(ToSet(Partial(e)))

\* disk is committed with cursor; rows is what a query reads; changes and
\* rebuilt are what take_changes will answer.
Opened(disk, cursor) ==
    [disk |-> disk, cursor |-> cursor, rows |-> disk, savepoint |-> FALSE,
     changes |-> <<>>, rebuilt |-> FALSE]

\* q without the entries in S, the rest in their order.
Without(q, S) ==
    LET rest[i \in 0..Len(q)] ==
            IF i = 0 THEN <<>>
            ELSE IF q[i] \in S THEN rest[i - 1]
            ELSE Append(rest[i - 1], q[i])
    IN  rest[Len(q)]

Fail(kind) ==
    /\ kind \in Failures
    /\ failures < MaxFailures
    /\ failures' = failures + 1

----------------------------------------------------------------------------
(* The optimistic view, as functions of the connection *)

\* Mutant: COMMIT without ROLLBACK TO, which keeps the optimistic rows.
DiscardKeepingRows(d) ==
    IF d.savepoint
    THEN [d EXCEPT !.disk = d.rows, !.savepoint = FALSE, !.rebuilt = TRUE]
    ELSE d

\* Mutant: the rollback does not say that it happened.
DiscardSilently(d) ==
    IF d.savepoint THEN [d EXCEPT !.rows = d.disk, !.savepoint = FALSE] ELSE d

DiscardOptimistic(d) ==
    IF d.savepoint
    THEN [d EXCEPT !.rows = d.disk, !.savepoint = FALSE, !.rebuilt = TRUE]
    ELSE d

\* One pass of replay over q on the tables b: the entries the app refused.
\* Nothing undoes what a refused entry wrote until the pass is over.
RefusedIn(b, q) ==
    LET pass[i \in 0..Len(q)] ==
            IF i = 0 THEN [rows |-> b, out |-> {}]
            ELSE IF Rejects(pass[i - 1].rows, q[i])
            THEN [rows |-> pass[i - 1].rows \o Partial(q[i]),
                  out |-> pass[i - 1].out \cup {q[i]}]
            ELSE [pass[i - 1] EXCEPT !.rows = Append(@, q[i])]
    IN  pass[Len(q)].out

\* What is left of q after k passes, each one dropping what it refused.
Passes(b, q) ==
    LET left[k \in 0..Len(q)] ==
            IF k = 0 THEN q ELSE Without(left[k - 1], RefusedIn(b, left[k - 1]))
    IN  left

\* Mutant: an entry goes with everything made after it.
KeptBeforeRefused(b, q) ==
    LET out == RefusedIn(b, q)
    IN  SelectSeq(q, LAMBDA e :
            \A i, j \in DOMAIN q : q[i] \in out /\ q[j] = e => j < i)

\* Mutant: the queue is read with the newest entry first.
KeptBackwards(b, q) == Reverse(Passes(b, Reverse(q))[Len(q)])

Kept(b, q) == Passes(b, q)[Len(q)]

OpenOptimistic(d, q) ==
    LET kept == Kept(d.rows, q)
    IN  [d EXCEPT !.rows = @ \o kept,
                  !.savepoint = kept # <<>>,
                  !.rebuilt = @ \/ kept # q]

\* advance as far as end: rows and cursor commit together, chunk by chunk.
Advance(d, end) ==
    LET es == SubSeq(logged, d.cursor + 1, end)
    IN  [d EXCEPT !.disk = @ \o es, !.rows = @ \o es,
                  !.changes = @ \o es, !.cursor = end]

\* The run advance can apply, and the places it can stop at in between:
\* after any chunk, and in front of one that holds an entry it cannot apply.
RunEnd(h, from) == CHOOSE n \in from..Len(logged) :
                      (from + 1)..n \subseteq h /\ n + 1 \notin h

Stops(h, from) ==
    {n \in from..RunEnd(h, from) :
        (n - from) % ApplyChunk = 0 \/ n = RunEnd(h, from)}

\* No entry of the run is one the app cannot apply.
Appliable(from, to) == \A i \in (from + 1)..to : logged[i] \notin Unknown

----------------------------------------------------------------------------
(* The server's log, and what it says of it *)

ServerLogs(e) ==
    /\ e \in Theirs \cup authored
    /\ e \notin ToSet(logged)
    /\ ~Rejects(logged, e)
    /\ logged' = Append(logged, e)
    /\ UNCHANGED <<verdicts, authored, unrecorded, held, queue, db, mirror, run, failures>>

ServerRefuses(e) ==
    /\ e \in authored \ ToSet(logged)
    /\ verdicts' = verdicts \cup {e}
    /\ UNCHANGED <<logged, authored, unrecorded, held, queue, db, mirror, run, failures>>

\* A message is what it makes the client hold and what it takes off the queue.
Message == [holds : SUBSET (DOMAIN logged), drops : SUBSET Mine]

Batch(m) ==
    \E a, b \in DOMAIN logged :
        m = [holds |-> a..b, drops |-> Mine \cap ToSet(SubSeq(logged, a, b))]

Ack(m) ==
    \E S \in SUBSET {s \in DOMAIN logged : logged[s] \in Mine} :
        m = [holds |-> {s \in S : logged[s] \in ToSet(queue)},
             drops |-> {logged[s] : s \in S}]

Reject(m) == \E e \in verdicts : m = [holds |-> {}, drops |-> {e}]

----------------------------------------------------------------------------
(* The calls *)

\* Mutant: what a failed recv left down stays down.
MutateBlind(e) ==
    /\ run
    /\ e \in Mine \ (authored \cup unrecorded)
    /\ \/ /\ Rejects(db.rows, e)
          /\ db' = [db EXCEPT !.savepoint = TRUE]
          /\ UNCHANGED <<queue, authored, unrecorded, failures>>
       \/ /\ ~Rejects(db.rows, e)
          /\ db' = [db EXCEPT !.savepoint = TRUE, !.rows = Append(@, e),
                              !.changes = Append(@, e)]
          /\ authored' = authored \cup {e}
          /\ queue' = Append(queue, e)
          /\ UNCHANGED <<unrecorded, failures>>
    /\ UNCHANGED <<logged, verdicts, held, mirror, run>>

\* mutate: the view is put up if it is down, the entry applied under a
\* savepoint of its own, and its intent written to the other file.
Mutate(e) ==
    LET up == IF db.savepoint THEN db ELSE OpenOptimistic(db, queue)
        kept == IF db.savepoint THEN queue ELSE Kept(db.rows, queue)
        applied == [up EXCEPT !.savepoint = TRUE, !.rows = Append(@, e),
                              !.changes = Append(@, e)]
    IN  /\ run
        /\ e \in Mine \ (authored \cup unrecorded)
        /\ \/ /\ Rejects(up.rows, e)
              /\ db' = [up EXCEPT !.savepoint = TRUE]
              /\ queue' = kept
              /\ UNCHANGED <<authored, unrecorded, failures>>
           \/ /\ ~Rejects(up.rows, e)
              /\ db' = applied
              /\ \/ /\ authored' = authored \cup {e}
                    /\ queue' = Append(kept, e)
                    /\ UNCHANGED <<unrecorded, failures>>
                 \/ /\ Fail("intents")
                    /\ unrecorded' = unrecorded \cup {e}
                    /\ queue' = kept
                    /\ UNCHANGED authored
        /\ UNCHANGED <<logged, verdicts, held, mirror, run>>

\* The files after a recv of m that wrote everything: what is held, and what
\* is still queued.
Holding(m) == held \cup m.holds
Queued(m) == Without(queue, m.drops)

\* Mutant: the view stays down until the next mutate.
RecvLazily(m) ==
    LET d == DiscardOptimistic(db)
        end == RunEnd(Holding(m), d.cursor)
    IN  /\ run
        /\ Batch(m) \/ Ack(m) \/ Reject(m)
        /\ Appliable(d.cursor, end)
        /\ held' = Holding(m)
        /\ db' = Advance(d, end)
        /\ queue' = Queued(m)
        /\ UNCHANGED <<logged, verdicts, authored, unrecorded, mirror, run, failures>>

\* recv: discard the view, write what the message brings, advance over the
\* run now held and put the view up with what is still queued.  A Denied, or
\* a Batch with nothing in it, is a message that holds and drops nothing.
Recv(m) ==
    LET d == DiscardOptimistic(db)
        end == RunEnd(Holding(m), d.cursor)
        up == Advance(d, end)
    IN  /\ run
        /\ Batch(m) \/ Ack(m) \/ Reject(m)
        /\ Appliable(d.cursor, end)
        /\ held' = Holding(m)
        /\ db' = OpenOptimistic(up, Queued(m))
        /\ queue' = Kept(up.rows, Queued(m))
        /\ UNCHANGED <<logged, verdicts, authored, unrecorded, mirror, run, failures>>

\* How a recv of m can end early: before it wrote anything; between the
\* write of an entry and the drop of its intent, or before the next entry;
\* between two chunks; or in a pass of the replay, which rolls back first.
Interrupted(m) ==
    LET down == DiscardOptimistic(db)
        up == Advance(down, RunEnd(Holding(m), down.cursor))
        wrote(s, n) ==
            [db |-> down,
             held |-> held \cup {t \in m.holds : t <= s},
             queue |-> Without(queue, {logged[t] : t \in 1..n \cap m.holds})]
    IN  {[db |-> down, held |-> held, queue |-> queue]}
        \cup {wrote(s, s) : s \in m.holds}
        \cup {wrote(s, s - 1) : s \in m.holds}
        \cup {[db |-> Advance(down, n), held |-> Holding(m), queue |-> Queued(m)] :
                n \in Stops(Holding(m), down.cursor)}
        \cup {[db |-> [up EXCEPT !.rebuilt = TRUE], held |-> Holding(m),
               queue |-> Passes(up.rows, Queued(m))[k - 1]] :
                k \in DOMAIN Queued(m)}

\* advance stopped at end because of the chunk that comes next.
Stuck(m, end) ==
    LET last == RunEnd(Holding(m), db.cursor)
        n == end.db.cursor
    IN  /\ end = [db |-> Advance(DiscardOptimistic(db), n),
                  held |-> Holding(m), queue |-> Queued(m)]
        /\ n < last
        /\ ~Appliable(n, IF n + ApplyChunk < last THEN n + ApplyChunk ELSE last)

\* recv stops on a failure of one of the files, or in front of a chunk that
\* holds an entry the app does not know, and leaves the view down.
RecvFails(m) ==
    /\ run
    /\ Batch(m) \/ Ack(m) \/ Reject(m)
    /\ \E end \in Interrupted(m) :
          /\ Appliable(db.cursor, end.db.cursor)
          /\ \/ \E kind \in Failures \ {"crash"} : Fail(kind)
             \/ /\ Stuck(m, end)
                /\ UNCHANGED failures
          /\ db' = end.db
          /\ held' = end.held
          /\ queue' = end.queue
    /\ UNCHANGED <<logged, verdicts, authored, unrecorded, mirror, run>>

\* mutate fails while it puts the view up again.
MutateFails ==
    /\ run
    /\ ~db.savepoint
    /\ Fail("state")
    /\ \E k \in DOMAIN queue : queue' = Passes(db.rows, queue)[k - 1]
    /\ db' = [db EXCEPT !.rebuilt = TRUE]
    /\ UNCHANGED <<logged, verdicts, authored, unrecorded, held, mirror, run>>

\* settle: the maintained view takes account of what the client did since.
Settle ==
    /\ run
    /\ db.rebuilt \/ db.changes # <<>>
    /\ mirror' = IF db.rebuilt THEN db.rows ELSE mirror \o db.changes
    /\ db' = [db EXCEPT !.changes = <<>>, !.rebuilt = FALSE]
    /\ UNCHANGED <<logged, verdicts, authored, unrecorded, held, queue, run, failures>>

\* The process ends, between two calls or in the middle of a recv: what is
\* not committed is gone.
Crash ==
    /\ run
    /\ Fail("crash")
    /\ \E m \in Message :
          /\ Batch(m) \/ Ack(m) \/ Reject(m)
          /\ \E end \in Interrupted(m) :
                /\ Appliable(db.cursor, end.db.cursor)
                /\ db' = Opened(end.db.disk, end.db.cursor)
                /\ held' = end.held
                /\ queue' = end.queue
    /\ run' = FALSE
    /\ mirror' = <<>>
    /\ UNCHANGED <<logged, verdicts, authored, unrecorded>>

\* Mutant: an intent the log has by now is replayed on top of it.
OpenRemembering ==
    LET up == Advance(db, RunEnd(held, db.cursor))
    IN  /\ ~run
        /\ Appliable(db.cursor, up.cursor)
        /\ db' = [OpenOptimistic(up, queue) EXCEPT !.changes = <<>>, !.rebuilt = FALSE]
        /\ queue' = Kept(up.rows, queue)
        /\ mirror' = db'.rows
        /\ run' = TRUE
        /\ UNCHANGED <<logged, verdicts, authored, unrecorded, held, failures>>

\* open: advance, forget the intents the log has, put the view up; then the
\* caller hydrates its view and drops what was reported on the way.
Open ==
    LET up == Advance(db, RunEnd(held, db.cursor))
        q == Without(queue, {logged[s] : s \in held})
    IN  /\ ~run
        /\ Appliable(db.cursor, up.cursor)
        /\ db' = [OpenOptimistic(up, q) EXCEPT !.changes = <<>>, !.rebuilt = FALSE]
        /\ queue' = Kept(up.rows, q)
        /\ mirror' = db'.rows
        /\ run' = TRUE
        /\ UNCHANGED <<logged, verdicts, authored, unrecorded, held, failures>>

----------------------------------------------------------------------------
Init ==
    /\ logged = <<>>
    /\ verdicts = {}
    /\ authored = {}
    /\ unrecorded = {}
    /\ held = {}
    /\ queue = <<>>
    /\ db = Opened(<<>>, 0)
    /\ mirror = <<>>
    /\ run = TRUE
    /\ failures = 0

Next ==
    \/ \E e \in Mine \cup Theirs : ServerLogs(e)
    \/ \E e \in Mine : ServerRefuses(e)
    \/ \E e \in Mine : Mutate(e)
    \/ MutateFails
    \/ \E m \in Message : Recv(m)
    \/ \E m \in Message : RecvFails(m)
    \/ Settle
    \/ Crash
    \/ Open

Spec == Init /\ [][Next]_vars

----------------------------------------------------------------------------
(* Properties *)

Entries == Mine \cup Theirs

TypeOK ==
    /\ logged \in Seq(Entries)
    /\ verdicts \subseteq Mine
    /\ authored \subseteq Mine
    /\ unrecorded \subseteq Mine
    /\ held \subseteq DOMAIN logged
    /\ queue \in Seq(authored)
    /\ db \in [disk : Seq(Entries), cursor : 0..Len(logged), rows : Seq(Entries),
               savepoint : BOOLEAN, changes : Seq(Entries), rebuilt : BOOLEAN]
    /\ mirror \in Seq(Entries)
    /\ run \in BOOLEAN
    /\ failures \in 0..MaxFailures

\* What is committed is the confirmed log up to the cursor and nothing else:
\* the optimistic rows, which live in a transaction on the same tables, never
\* reach the disk (client.rs `discard_optimistic`, `advance`).
DiskIsConfirmed == db.disk = SubSeq(logged, 1, db.cursor)

\* The view is the confirmed state with all of the queue replayed on top, or,
\* with the savepoint down, none of it, whatever failed before; only entries
\* whose intent could not be written come besides (`open_optimistic`,
\* `apply_and_record`).
ViewIsWhole ==
    Without(db.rows, unrecorded) =
        IF db.savepoint THEN db.disk \o queue ELSE db.disk

\* The view a client presents is always replay(confirmed) then
\* replay(pending) (the doc of `Client`).
ViewIsReplay == run => db.rows = db.disk \o queue

\* A maintained view that is given every change, or told to hydrate again,
\* shows what the database shows (`take_changes`, `settle`).
MirrorIsCurrent == run /\ ~db.rebuilt => mirror \o db.changes = db.rows

\* No entry is counted twice: once in the confirmed state and once more from
\* the queue (`forget_confirmed_intents`, `drop_pending`).
RowsOnce == run => IsInjective(db.rows)

\* An entry leaves the queue because the server has logged it or refused it,
\* or because the app refuses it on the confirmed state and the entries of
\* the queue that stay before it (`open_optimistic`).
DropsAreVerdicts ==
    [][\A i \in DOMAIN queue :
          LET e == queue[i]
              before == Without(SubSeq(queue, 1, i - 1), Mine \ ToSet(queue'))
          IN  \/ e \in ToSet(queue') \cup ToSet(logged) \cup verdicts
              \/ Rejects(db'.disk \o before, e)]_vars

\* Whatever an app leaves behind of an entry it refuses: besides the entries
\* in D, which the server has answered for, the first that leaves the queue is
\* refused on the confirmed state and those before it, all of which stay.  A
\* draft can only cost an entry its place behind one that is rightly dropped
\* (`replay`, which has no savepoint for each entry; `open_optimistic`).
FirstDropIsVerdict ==
    [][\E D \in SUBSET ((ToSet(logged) \cup verdicts) \ ToSet(queue')) :
          \A i \in DOMAIN queue :
             /\ queue[i] \notin ToSet(queue') \cup D
             /\ \A j \in 1..(i - 1) : queue[j] \in ToSet(queue') \cup D
             => Rejects(db'.disk \o Without(SubSeq(queue, 1, i - 1), D), queue[i])]_vars

----------------------------------------------------------------------------
(* Why they hold: what no step may disturb *)

\* Whatever fails, and whatever the app: the rows beside the committed ones
\* are those of the queue, and they are there while the savepoint is open.
ViewInv ==
    /\ TypeOK
    /\ authored \cap unrecorded = {}
    /\ ToSet(logged) \subseteq Theirs \cup authored
    /\ DiskIsConfirmed
    /\ ViewIsWhole
    /\ ~db.savepoint => db.rows = db.disk
    /\ ~run => ~db.savepoint /\ ~db.rebuilt /\ db.changes = <<>>

\* Where no write fails, what is held and what is queued are never the same.
OnceInv ==
    /\ ViewInv
    /\ unrecorded = {}
    /\ IsInjective(logged)
    /\ IsInjective(queue)
    /\ 1..db.cursor \subseteq held
    /\ run => ToSet(queue) \cap {logged[s] : s \in held} = {}

\* Where no call fails, the view is down only when nothing is queued.
CurrentInv ==
    /\ ViewInv
    /\ unrecorded = {}
    /\ run /\ ~db.savepoint => queue = <<>>
    /\ MirrorIsCurrent
=============================================================================
