---------------------------- MODULE SchemaRebuild ----------------------------
(***************************************************************************)
(* Bringing an app's derived tables up to its schema version when a state  *)
(* file is opened: crates/petros/src/migrate.rs, and its callers in        *)
(* client.rs `open` and server.rs `open_with`.  Every statement commits on *)
(* its own unless the code opens a transaction, so the process may stop    *)
(* between any two of them.                                                *)
(*                                                                         *)
(* A row <<i, v>> is what entry i of the log wrote when version v of the   *)
(* app applied it.                                                         *)
(***************************************************************************)
EXTENDS Naturals, Sequences, Functions

CONSTANTS
    TablesOf(_),    \* the tables in SCHEMA of an app version
    Indexable(_, _), \* the indexes in SCHEMA of a version can be created on
                     \* the tables of another
    Applies(_, _),  \* a version's `apply` accepts an entry of the log
    ApplyChunk,
    MaxVersion,     \* bound: the last version of the app
    MaxLog,         \* bound: the length of the log
    MaxCrashes      \* bound: how often the process stops

VARIABLES
    role,     \* whose file it is: "client" or "server"
    code,     \* the version of the app that is installed
    stamped,  \* petros_meta: the app version the tables were built at
    tables,   \* the app's tables: the version of their shape, their rows
    have,     \* petros_log holds entries 1..have
    cursor,   \* petros_meta: what a client has applied
    pc,       \* where the process is: "down", a step of opening, or "up"
    torn,     \* history: a rebuild stopped after it was stamped as done
    crashes   \* how many times the process has stopped

vars == <<role, code, stamped, tables, have, cursor, pc, torn, crashes>>

ASSUME RebuildAssumption ==
    /\ ApplyChunk \in Nat \ {0}
    /\ MaxVersion \in Nat \ {0}
    /\ MaxLog \in Nat
    /\ MaxCrashes \in Nat

IsServer == role = "server"

\* What replaying entries from + 1 to to through version v adds to a table.
Replayed(from, to, v) == [i \in 1..(to - from) |-> <<from + i, v>>]

\* A::migrate: CREATE TABLE IF NOT EXISTS for every table of SCHEMA.
Migrated(T) ==
    [t \in DOMAIN T \cup TablesOf(code) |->
        IF t \in DOMAIN T THEN T[t] ELSE [shape |-> code, rows |-> <<>>]]

Extended(from, to) ==
    [t \in DOMAIN tables |->
        [shape |-> tables[t].shape,
         rows |-> tables[t].rows \o Replayed(from, to, code)]]

Accepted(from, to) == \A i \in (from + 1)..to : Applies(code, i)

\* Mutant: only a full chunk is applied.
ChunkEndFull == IF cursor + ApplyChunk <= have THEN cursor + ApplyChunk ELSE cursor

\* The end of the next chunk of advance.
ChunkEnd == IF cursor + ApplyChunk < have THEN cursor + ApplyChunk ELSE have

----------------------------------------------------------------------------
(* Opening *)

\* is_stale
Stale == stamped < code

\* The whole of SCHEMA runs before the tables are looked at: an index on a
\* column that a table of the old shape lacks makes it fail.
Migratable ==
    \A t \in DOMAIN tables \cap TablesOf(code) : Indexable(code, tables[t].shape)

\* Mutant: the new version is stamped before the tables are reset.
StartStamping ==
    /\ pc = "down"
    /\ Migratable
    /\ tables' = Migrated(tables)
    /\ stamped' = code
    /\ IF Stale THEN pc' = "dropping" /\ torn' = FALSE
                ELSE pc' = (IF IsServer THEN "up" ELSE "opening") /\ UNCHANGED torn
    /\ UNCHANGED <<role, code, have, cursor, crashes>>

\* The start of open: migrate creates what is missing, and tables that
\* predate the current schema are rebuilt.
Start ==
    /\ pc = "down"
    /\ Migratable
    /\ tables' = Migrated(tables)
    /\ IF Stale THEN pc' = "dropping" /\ torn' = FALSE
                ELSE pc' = (IF IsServer THEN "up" ELSE "opening") /\ UNCHANGED torn
    /\ UNCHANGED <<role, code, stamped, have, cursor, crashes>>

\* migrate fails, with the statements before the one that fails done: open
\* returns the error.
StartFails ==
    /\ pc = "down"
    /\ ~Migratable
    /\ \E new \in SUBSET (TablesOf(code) \ DOMAIN tables) :
          tables' = Restrict(Migrated(tables), DOMAIN tables \cup new)
    /\ UNCHANGED <<role, code, stamped, have, cursor, pc, torn, crashes>>

\* drop_app_tables: each table of the app is dropped by a commit of its own.
Drop(t) ==
    /\ pc = "dropping"
    /\ t \in DOMAIN tables
    /\ tables' = Restrict(tables, DOMAIN tables \ {t})
    /\ UNCHANGED <<role, code, stamped, have, cursor, pc, torn, crashes>>

\* Mutant: it goes on without having dropped every table.
RecreateOver ==
    /\ pc = "dropping"
    /\ tables' = Migrated(tables)
    /\ pc' = "stamping"
    /\ UNCHANGED <<role, code, stamped, have, cursor, torn, crashes>>

\* reset_tables, with nothing left to drop: the tables at their new shape.
Recreate ==
    /\ pc = "dropping"
    /\ DOMAIN tables = {}
    /\ tables' = Migrated(tables)
    /\ pc' = "stamping"
    /\ UNCHANGED <<role, code, stamped, have, cursor, torn, crashes>>

\* set_app_version
Stamp ==
    /\ pc = "stamping"
    /\ stamped' = code
    /\ pc' = IF IsServer THEN "replaying" ELSE "rewinding"
    /\ UNCHANGED <<role, code, tables, have, cursor, torn, crashes>>

\* A client rewinds its cursor, and its catch-up rebuilds the rows.
Rewind ==
    /\ pc = "rewinding"
    /\ cursor' = 0
    /\ pc' = "opening"
    /\ UNCHANGED <<role, code, stamped, tables, have, torn, crashes>>

\* A server replays the whole log, in one transaction.
ReplayAll ==
    /\ pc = "replaying"
    /\ Accepted(0, have)
    /\ tables' = Extended(0, have)
    /\ pc' = "up"
    /\ UNCHANGED <<role, code, stamped, have, cursor, torn, crashes>>

\* An entry the new version refuses: the replay is rolled back and open fails.
ReplayFails ==
    /\ pc = "replaying"
    /\ ~Accepted(0, have)
    /\ pc' = "down"
    /\ torn' = TRUE
    /\ UNCHANGED <<role, code, stamped, tables, have, cursor, crashes>>

----------------------------------------------------------------------------
(* Running *)

\* advance, a chunk: its rows and the cursor commit together.
Advance ==
    /\ pc \in {"opening", "receiving"}
    /\ cursor < have
    /\ Accepted(cursor, ChunkEnd)
    /\ tables' = Extended(cursor, ChunkEnd)
    /\ cursor' = ChunkEnd
    /\ UNCHANGED <<role, code, stamped, have, pc, torn, crashes>>

\* The chunk is rolled back; open fails with it, recv leaves the client open.
AdvanceFails ==
    /\ pc \in {"opening", "receiving"}
    /\ cursor < have
    /\ ~Accepted(cursor, ChunkEnd)
    /\ pc' = IF pc = "opening" THEN "down" ELSE "up"
    /\ UNCHANGED <<role, code, stamped, tables, have, cursor, torn, crashes>>

\* Nothing is left to apply: open, or recv, returns.
CaughtUp ==
    /\ pc \in {"opening", "receiving"}
    /\ cursor = have
    /\ pc' = "up"
    /\ UNCHANGED <<role, code, stamped, tables, have, cursor, torn, crashes>>

\* A client is sent the next entry of the log.
Receive ==
    /\ ~IsServer
    /\ pc = "up"
    /\ have < MaxLog
    /\ have' = have + 1
    /\ pc' = "receiving"
    /\ UNCHANGED <<role, code, stamped, tables, cursor, torn, crashes>>

\* A server appends an entry: the row of the log and the app's commit together.
Append1 ==
    /\ IsServer
    /\ pc = "up"
    /\ have < MaxLog
    /\ Applies(code, have + 1)
    /\ have' = have + 1
    /\ tables' = Extended(have, have + 1)
    /\ UNCHANGED <<role, code, stamped, cursor, pc, torn, crashes>>

\* The process stops.  An open transaction is gone, a commit is not.
Crash ==
    /\ pc # "down"
    /\ crashes < MaxCrashes
    /\ crashes' = crashes + 1
    /\ pc' = "down"
    /\ torn' = (torn \/ pc \in {"rewinding", "replaying"})
    /\ UNCHANGED <<role, code, stamped, tables, have, cursor>>

\* The next version of the app is installed.
Upgrade ==
    /\ pc = "down"
    /\ code < MaxVersion
    /\ code' = code + 1
    /\ UNCHANGED <<role, stamped, tables, have, cursor, pc, torn, crashes>>

\* Somebody closes the app, or stops the server.
Close ==
    /\ pc = "up"
    /\ pc' = "down"
    /\ UNCHANGED <<role, code, stamped, tables, have, cursor, torn, crashes>>

----------------------------------------------------------------------------
Init ==
    /\ role \in {"client", "server"}
    /\ code = 1
    /\ stamped = 0
    /\ tables = [t \in {} |-> [shape |-> 0, rows |-> <<>>]]
    /\ have = 0
    /\ cursor = 0
    /\ pc = "down"
    /\ torn = FALSE
    /\ crashes = 0

Next ==
    \/ Start
    \/ StartFails
    \/ \E t \in DOMAIN tables : Drop(t)
    \/ Recreate
    \/ Stamp
    \/ Rewind
    \/ ReplayAll
    \/ ReplayFails
    \/ Advance
    \/ AdvanceFails
    \/ CaughtUp
    \/ Receive
    \/ Append1
    \/ Crash
    \/ Upgrade
    \/ Close

Spec == Init /\ [][Next]_vars

\* What open and recv do until they return.
Working ==
    \/ Start \/ StartFails
    \/ \E t \in DOMAIN tables : Drop(t)
    \/ Recreate \/ Stamp \/ Rewind \/ ReplayAll \/ ReplayFails
    \/ Advance \/ AdvanceFails \/ CaughtUp

\* Somebody opens what is not open, and what has started to open is code that
\* runs to its end.
FairSpec == Spec /\ WF_vars(Working)

----------------------------------------------------------------------------
(* Properties *)

Steps == {"down", "dropping", "stamping", "rewinding", "replaying",
          "opening", "receiving", "up"}

TypeOK ==
    /\ role \in {"client", "server"}
    /\ code \in Nat
    /\ stamped \in Nat
    /\ tables = [t \in DOMAIN tables |-> tables[t]]
    /\ \A t \in DOMAIN tables : tables[t] \in [shape : Nat, rows : Seq(Nat \X Nat)]
    /\ have \in Nat
    /\ cursor \in 0..have
    /\ pc \in Steps
    /\ torn \in BOOLEAN
    /\ crashes \in Nat

\* How much of the log the tables are to hold.
Upto == IF IsServer THEN have ELSE cursor

\* What a fresh install of the app would materialise from n entries.
Fresh(n) ==
    [t \in TablesOf(code) |-> [shape |-> code, rows |-> Replayed(0, n, code)]]

\* What is open holds exactly what a fresh install would have materialised
\* (the doc of migrate.rs).
AsFreshInstall == pc = "up" => tables = Fresh(Upto)

\* The same, wherever the process stopped and however often, but for a rebuild
\* that ended between the stamp of the new version and the rows it stands for
\* (`reset_tables`, `drop_app_tables`, `advance`).
RebuiltUnlessTorn == pc = "up" /\ ~torn => tables = Fresh(Upto)

\* A peer that is opened, and opened again after every crash or failure, is
\* open in the end: the tables are rebuilt whatever they were (the doc of
\* `App::SCHEMA_VERSION`).
Opens == pc = "down" ~> pc = "up"

\* Two things alone can stand between a peer and being open, however often it
\* crashed: an index the old tables do not take, and an entry of the log that
\* its version refuses (`migrate`, `replay_all`, `advance`).
OpensUnlessRefused ==
    pc = "down" ~> \/ pc = "up"
                   \/ ~Migratable
                   \/ ~Accepted(0, have)

OneVersion ==
    \A t \in DOMAIN tables :
        /\ tables[t].shape = code
        /\ \A i \in DOMAIN tables[t].rows : tables[t].rows[i][2] = code

\* Not even a torn rebuild leaves tables of an older shape, or rows an older
\* `apply` wrote beside those of the current one (`drop_app_tables`).
NeverMixed == pc = "up" => OneVersion

\* The inductive invariant behind the two: what the stamp means at each step.
RebuildInv ==
    /\ TypeOK
    /\ stamped <= code
    /\ pc \in {"dropping", "stamping"} => stamped < code
    /\ pc \in {"rewinding", "replaying", "opening", "receiving", "up"} => stamped = code
    /\ pc \in {"rewinding", "opening", "receiving"} => ~IsServer
    /\ pc = "replaying" => IsServer
    /\ pc \in {"stamping", "rewinding", "replaying"} => tables = Fresh(0)
    /\ stamped = code => OneVersion
    /\ stamped = code /\ ~torn /\ pc \notin {"rewinding", "replaying"} =>
           tables = Fresh(Upto)
=============================================================================
