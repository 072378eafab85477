------------------------- MODULE SchemaRebuild_proofs -------------------------
(***************************************************************************)
(* Proofs about SchemaRebuild, for a client and a server, any app, any     *)
(* versions and any number of crashes.                                     *)
(***************************************************************************)
EXTENDS SchemaRebuild, TLAPS

USE DEF IsServer

\* Replaying the log in two parts writes what replaying it at once does.
LEMMA ReplayInParts ==
    ASSUME NEW n \in Nat, NEW m \in Nat, n <= m, NEW v
    PROVE  Replayed(0, n, v) \o Replayed(n, m, v) = Replayed(0, m, v)
<1> DEFINE S == {<<i, v>> : i \in Nat}
<1>1. Replayed(0, n, v) \in Seq(S) /\ Len(Replayed(0, n, v)) = n
      BY DEF Replayed
<1>2. Replayed(n, m, v) \in Seq(S) /\ Len(Replayed(n, m, v)) = m - n
      BY DEF Replayed
<1>3. Replayed(0, m, v) \in Seq(S) /\ Len(Replayed(0, m, v)) = m
      BY DEF Replayed
<1> DEFINE both == Replayed(0, n, v) \o Replayed(n, m, v)
<1>4. both \in Seq(S) /\ Len(both) = m
      BY <1>1, <1>2
<1>5. ASSUME NEW i \in 1..m
      PROVE  both[i] = Replayed(0, m, v)[i]
  <2>1. CASE i <= n
        <3>1. both[i] = Replayed(0, n, v)[i]
              BY <1>1, <1>2, <2>1
        <3> QED BY <3>1, <2>1 DEF Replayed
  <2>2. CASE i > n
        <3>1. both[i] = Replayed(n, m, v)[i - n]
              BY <1>1, <1>2, <2>2
        <3>2. i - n \in 1..(m - n) /\ n + (i - n) = i
              BY <2>2
        <3>3. Replayed(n, m, v)[i - n] = <<n + (i - n), v>>
              BY <3>2 DEF Replayed
        <3>4. Replayed(0, m, v)[i] = <<i, v>>
              BY DEF Replayed
        <3> QED BY <3>1, <3>2, <3>3, <3>4
  <2>3. i <= n \/ i > n
        OBVIOUS
  <2> QED BY <2>1, <2>2, <2>3
<1> HIDE DEF both
<1>6. Replayed(0, m, v) = [i \in 1..m |-> Replayed(0, m, v)[i]]
      BY DEF Replayed
<1>7. both = [i \in 1..m |-> both[i]]
      BY <1>4
<1> QED BY <1>5, <1>6, <1>7 DEF both

\* The tables of a fresh install, extended by the next entries, are those of
\* a fresh install from a longer log.
LEMMA FreshExtends ==
    ASSUME NEW n \in Nat, NEW m \in Nat, n <= m, tables = Fresh(n)
    PROVE  Extended(n, m) = Fresh(m)
<1>1. DOMAIN tables = TablesOf(code)
      BY DEF Fresh
<1>2. ASSUME NEW t \in TablesOf(code)
      PROVE  /\ tables[t].shape = code
             /\ tables[t].rows \o Replayed(n, m, code) = Replayed(0, m, code)
  <2>1. tables[t] = [shape |-> code, rows |-> Replayed(0, n, code)]
        BY <1>2 DEF Fresh
  <2>2. Replayed(0, n, code) \o Replayed(n, m, code) = Replayed(0, m, code)
        BY ReplayInParts
  <2> QED BY <2>1, <2>2
<1> QED BY <1>1, <1>2 DEF Extended, Fresh

\* migrate changes nothing on tables that are those of a fresh install.
LEMMA FreshMigrates ==
    ASSUME NEW n, tables = Fresh(n)
    PROVE  Migrated(tables) = tables
BY DEF Migrated, Fresh

\* The limits of a chunk: it ends beyond the cursor and within what is held.
LEMMA ChunkIsAhead ==
    ASSUME TypeOK, cursor < have
    PROVE  ChunkEnd \in Nat /\ cursor <= ChunkEnd /\ ChunkEnd <= have
BY RebuildAssumption DEF TypeOK, ChunkEnd

\* The entries a version replays write rows of that version.
LEMMA ReplayedIsOurs ==
    ASSUME NEW n \in Nat, NEW m \in Nat, n <= m, NEW v \in Nat
    PROVE  /\ Replayed(n, m, v) \in Seq(Nat \X Nat)
           /\ \A i \in DOMAIN Replayed(n, m, v) : Replayed(n, m, v)[i][2] = v
BY DEF Replayed

\* Adding them to tables of the current version keeps their types and that
\* they are of one version.
LEMMA ExtendedIsOurs ==
    ASSUME TypeOK, OneVersion, NEW n \in Nat, NEW m \in Nat, n <= m,
           tables' = Extended(n, m), code' = code
    PROVE  /\ tables' = [t \in DOMAIN tables' |-> tables'[t]]
           /\ \A t \in DOMAIN tables' :
                 tables'[t] \in [shape : Nat, rows : Seq(Nat \X Nat)]
           /\ OneVersion'
<1> DEFINE more == Replayed(n, m, code)
<1>1. more \in Seq(Nat \X Nat) /\ \A i \in DOMAIN more : more[i][2] = code
      BY ReplayedIsOurs DEF TypeOK
<1>2. DOMAIN tables' = DOMAIN tables
      BY DEF Extended
<1>3. ASSUME NEW t \in DOMAIN tables
      PROVE  /\ tables'[t].shape = code
             /\ tables'[t] \in [shape : Nat, rows : Seq(Nat \X Nat)]
             /\ \A i \in DOMAIN tables'[t].rows : tables'[t].rows[i][2] = code
  <2> DEFINE r == tables[t].rows
  <2>1. r \in Seq(Nat \X Nat) /\ tables[t].shape = code /\ code \in Nat
        BY <1>3 DEF TypeOK, OneVersion
  <2>2. tables'[t] = [shape |-> code, rows |-> r \o more]
        BY <2>1 DEF Extended
  <2>3. r \o more \in Seq(Nat \X Nat)
        BY <1>1, <2>1
  <2>4. ASSUME NEW i \in DOMAIN (r \o more)
        PROVE  (r \o more)[i][2] = code
    <3>1. \A j \in DOMAIN r : r[j][2] = code
          BY DEF OneVersion
    <3> HIDE DEF r, more
    <3>2. i \in 1..(Len(r) + Len(more))
          BY <1>1, <2>1
    <3>3. CASE i <= Len(r)
          BY <1>1, <2>1, <3>1, <3>2, <3>3
    <3>4. CASE i > Len(r)
      <4>1. (r \o more)[i] = more[i - Len(r)] /\ i - Len(r) \in DOMAIN more
            BY <1>1, <2>1, <3>2, <3>4
      <4> QED BY <4>1, <1>1
    <3> QED BY <3>2, <3>3, <3>4, <2>1
  <2> HIDE DEF r, more
  <2> QED BY <2>1, <2>2, <2>3, <2>4
<1> QED BY <1>2, <1>3 DEF Extended, OneVersion

\* Adding empty tables of the current version, and nothing else.
LEMMA AddedIsOurs ==
    ASSUME TypeOK, code' = code,
           DOMAIN tables \subseteq DOMAIN tables',
           tables' = [t \in DOMAIN tables' |-> tables'[t]],
           \A t \in DOMAIN tables' :
              tables'[t] = IF t \in DOMAIN tables THEN tables[t]
                           ELSE [shape |-> code, rows |-> <<>>]
    PROVE  /\ tables' = [t \in DOMAIN tables' |-> tables'[t]]
           /\ \A t \in DOMAIN tables' :
                 tables'[t] \in [shape : Nat, rows : Seq(Nat \X Nat)]
           /\ OneVersion => OneVersion'
<1>2. ASSUME NEW t \in DOMAIN tables'
      PROVE  tables'[t] = IF t \in DOMAIN tables THEN tables[t]
                          ELSE [shape |-> code, rows |-> <<>>]
      BY <1>2
<1>3. <<>> \in Seq(Nat \X Nat) /\ DOMAIN <<>> = {} /\ code \in Nat
      BY DEF TypeOK
<1>4. ASSUME NEW t \in DOMAIN tables'
      PROVE  tables'[t] \in [shape : Nat, rows : Seq(Nat \X Nat)]
  <2>1. CASE t \in DOMAIN tables
        BY <1>2, <1>4, <2>1 DEF TypeOK
  <2>2. CASE t \notin DOMAIN tables
    <3>1. [shape |-> code, rows |-> <<>>] \in [shape : Nat, rows : Seq(Nat \X Nat)]
          BY <1>3
    <3>2. tables'[t] = [shape |-> code, rows |-> <<>>]
          BY <1>2, <1>4, <2>2
    <3> QED BY <3>1, <3>2
  <2> QED BY <2>1, <2>2
<1>5. ASSUME OneVersion
      PROVE  OneVersion'
  <2> SUFFICES ASSUME NEW t \in DOMAIN tables'
               PROVE  /\ tables'[t].shape = code
                      /\ \A i \in DOMAIN tables'[t].rows : tables'[t].rows[i][2] = code
      BY DEF OneVersion
  <2>1. CASE t \in DOMAIN tables
        BY <1>2, <1>5, <2>1 DEF OneVersion
  <2>2. CASE t \notin DOMAIN tables
        BY <1>2, <1>3, <2>2
  <2> QED BY <2>1, <2>2
<1> QED BY <1>4, <1>5

\* That is what migrate does.
LEMMA MigratedIsOurs ==
    ASSUME TypeOK, tables' = Migrated(tables), code' = code
    PROVE  /\ tables' = [t \in DOMAIN tables' |-> tables'[t]]
           /\ \A t \in DOMAIN tables' :
                 tables'[t] \in [shape : Nat, rows : Seq(Nat \X Nat)]
           /\ OneVersion => OneVersion'
<1>1. /\ DOMAIN tables' = DOMAIN tables \cup TablesOf(code)
      /\ tables' = [t \in DOMAIN tables' |-> tables'[t]]
      /\ \A t \in DOMAIN tables' :
            tables'[t] = IF t \in DOMAIN tables THEN tables[t]
                         ELSE [shape |-> code, rows |-> <<>>]
      BY DEF Migrated
<1> QED BY <1>1, AddedIsOurs

\* With no table there, it makes the tables of a fresh install.
LEMMA EmptyMigrates ==
    ASSUME DOMAIN tables = {}
    PROVE  Migrated(tables) = Fresh(0)
<1>1. ASSUME NEW v
      PROVE  Replayed(0, 0, v) = <<>>
      BY DEF Replayed
<1> QED BY <1>1 DEF Migrated, Fresh

\* The tables of a fresh install are of one version.
LEMMA FreshIsOurs ==
    ASSUME TypeOK, NEW n \in Nat, tables = Fresh(n)
    PROVE  OneVersion
<1>1. ASSUME NEW t \in DOMAIN tables
      PROVE  tables[t] = [shape |-> code, rows |-> Replayed(0, n, code)]
      BY <1>1 DEF Fresh
<1>2. 0 \in Nat /\ 0 <= n /\ code \in Nat
      BY DEF TypeOK
<1>3. \A i \in DOMAIN Replayed(0, n, code) : Replayed(0, n, code)[i][2] = code
      BY <1>2, ReplayedIsOurs
<1> QED BY <1>1, <1>3 DEF OneVersion

----------------------------------------------------------------------------
(* The invariant *)

\* It holds of an empty file.
LEMMA RebuildStarts == Init => RebuildInv
<1> SUFFICES ASSUME Init
             PROVE  RebuildInv
    OBVIOUS
<1>1. DOMAIN tables = {} /\ tables = [t \in DOMAIN tables |-> tables[t]]
      BY DEF Init
<1>2. TypeOK
  <2>1. /\ code = 1 /\ stamped = 0 /\ have = 0 /\ crashes = 0
        /\ cursor = 0 /\ pc = "down" /\ torn = FALSE
        BY DEF Init
  <2>2. /\ code \in Nat /\ stamped \in Nat /\ have \in Nat /\ crashes \in Nat
        /\ cursor \in 0..have
        BY <2>1
  <2>3. pc \in Steps /\ torn \in BOOLEAN /\ role \in {"client", "server"}
        BY <2>1 DEF Steps, Init
  <2> QED BY <1>1, <2>2, <2>3 DEF TypeOK
<1>3. pc = "down" /\ stamped # code /\ stamped <= code
      BY DEF Init
<1> QED BY <1>2, <1>3 DEF RebuildInv

\* Starting to open: either a rebuild begins, or the tables are as they were
\* but for those migrate adds.
LEMMA StartKeeps == RebuildInv /\ Start => RebuildInv'
<1> SUFFICES ASSUME RebuildInv, Start
             PROVE  RebuildInv'
    OBVIOUS
<1> USE DEF RebuildInv
<1>1. role' = role /\ code' = code /\ tables' = Migrated(tables)
         /\ stamped' = stamped /\ have' = have /\ cursor' = cursor
      BY DEF Start
<1>2. TypeOK'
      BY <1>1, MigratedIsOurs, RebuildAssumption DEF Start, TypeOK, Steps, Stale
<1>3. OneVersion => OneVersion'
      BY <1>1, MigratedIsOurs
<1>4. CASE Stale
  <2>1. pc' = "dropping" /\ stamped' < code'
        BY <1>1, <1>4 DEF Start, Stale
  <2> QED BY <1>2, <2>1 DEF TypeOK
<1>5. CASE ~Stale
  <2>1. pc' = (IF IsServer THEN "up" ELSE "opening") /\ torn' = torn /\ stamped = code
        BY <1>5 DEF Start, Stale, TypeOK
  <2>2. ~torn => tables' = tables /\ Fresh(Upto)' = Fresh(Upto)
    <3>1. ~torn => tables = Fresh(Upto)
          BY <2>1 DEF Start
    <3>2. ~torn => Migrated(tables) = tables
          BY <3>1, FreshMigrates
    <3> QED BY <1>1, <3>2 DEF Fresh, Upto
  <2>3. ~torn' => tables' = Fresh(Upto)'
        BY <2>1, <2>2 DEF Start
  <2> QED BY <1>1, <1>2, <1>3, <2>1, <2>3 DEF TypeOK
<1> QED BY <1>4, <1>5

\* Failing to start changes no table that is there, and adds empty ones of the
\* current version; they are those of a fresh install if the rest is.
LEMMA StartFailsKeeps == RebuildInv /\ StartFails => RebuildInv'
<1> SUFFICES ASSUME RebuildInv, StartFails
             PROVE  RebuildInv'
    OBVIOUS
<1> USE DEF RebuildInv
<1>1. PICK new \in SUBSET (TablesOf(code) \ DOMAIN tables) :
          tables' = Restrict(Migrated(tables), DOMAIN tables \cup new)
      BY DEF StartFails
<1>2. /\ role' = role /\ code' = code /\ stamped' = stamped /\ have' = have
      /\ cursor' = cursor /\ pc' = "down" /\ torn' = torn /\ crashes' = crashes
      BY DEF StartFails
<1>3. /\ DOMAIN tables' = DOMAIN tables \cup new
      /\ tables' = [t \in DOMAIN tables' |-> tables'[t]]
      /\ \A t \in DOMAIN tables' :
            tables'[t] = IF t \in DOMAIN tables THEN tables[t]
                         ELSE [shape |-> code, rows |-> <<>>]
      BY <1>1 DEF Restrict, Migrated
<1>4. TypeOK' /\ (OneVersion => OneVersion')
      BY <1>2, <1>3, AddedIsOurs DEF TypeOK, Steps
<1>5. stamped = code /\ ~torn => tables' = tables /\ Fresh(Upto)' = Fresh(Upto)
  <2>1. pc = "down"
        BY DEF StartFails
  <2>2. ASSUME stamped = code, ~torn
        PROVE  DOMAIN tables = TablesOf(code)
        BY <2>1, <2>2 DEF Fresh
  <2>3. ASSUME stamped = code, ~torn
        PROVE  tables' = tables
    <3>1. DOMAIN tables' = DOMAIN tables
          BY <1>1, <1>3, <2>2, <2>3
    <3>2. tables = [t \in DOMAIN tables |-> tables[t]]
          BY DEF TypeOK
    <3> QED BY <1>3, <3>1, <3>2
  <2> QED BY <1>2, <2>3 DEF Fresh, Upto
<1>6. stamped' = code' /\ ~torn' => OneVersion' /\ tables' = Fresh(Upto)'
  <2>1. pc = "down"
        BY DEF StartFails
  <2>2. stamped = code /\ ~torn => OneVersion /\ tables = Fresh(Upto)
        BY <2>1
  <2> QED BY <1>2, <1>4, <1>5, <2>2
<1>7. stamped' <= code' /\ (stamped' = code' => OneVersion')
      BY <1>2, <1>4
<1> QED BY <1>2, <1>4, <1>6, <1>7

\* Dropping and recreating: until the stamp, the file counts as stale.
LEMMA ResetKeeps ==
    RebuildInv /\ ((\E t \in DOMAIN tables : Drop(t)) \/ Recreate) => RebuildInv'
<1> USE DEF RebuildInv
<1>1. ASSUME RebuildInv, NEW t \in DOMAIN tables, Drop(t)
      PROVE  RebuildInv'
  <2>1. /\ DOMAIN tables' = DOMAIN tables \ {t}
        /\ tables' = [u \in DOMAIN tables' |-> tables'[u]]
        /\ \A u \in DOMAIN tables' : tables'[u] = tables[u]
        BY <1>1 DEF Drop, Restrict
  <2>2. TypeOK'
        BY <1>1, <2>1 DEF Drop, TypeOK
  <2>3. pc' = "dropping" /\ stamped' < code'
        BY <1>1 DEF Drop
  <2>4. stamped' # code' /\ stamped' <= code'
        BY <2>2, <2>3 DEF TypeOK
  <2> QED BY <2>2, <2>3, <2>4
<1>2. ASSUME RebuildInv, Recreate
      PROVE  RebuildInv'
  <2>1. tables' = Migrated(tables) /\ code' = code /\ pc' = "stamping"
        BY <1>2 DEF Recreate
  <2>2. TypeOK'
        BY <1>2, <2>1, MigratedIsOurs DEF Recreate, TypeOK, Steps
  <2>3. tables' = Fresh(0)'
        BY <1>2, <2>1, EmptyMigrates DEF Recreate, Fresh
  <2> QED BY <1>2, <2>1, <2>2, <2>3 DEF Recreate, TypeOK
<1> QED BY <1>1, <1>2

\* Stamping and rewinding: the tables are empty and new, and a client's cursor
\* comes to say so.
LEMMA StampKeeps == RebuildInv /\ (Stamp \/ Rewind) => RebuildInv'
<1> USE DEF RebuildInv
<1>1. ASSUME RebuildInv, Stamp
      PROVE  RebuildInv'
  <2>1. TypeOK' /\ Fresh(0)' = Fresh(0)
        BY <1>1 DEF Stamp, TypeOK, Steps, Fresh
  <2>2. OneVersion'
    <3>1. OneVersion
          BY <1>1, FreshIsOurs DEF Stamp
    <3> QED BY <1>1, <3>1 DEF Stamp, OneVersion
  <2>3. /\ pc' \in {"rewinding", "replaying"} /\ stamped' = code' /\ tables' = tables
        /\ role' = role
        /\ pc' = "rewinding" => ~IsServer
        /\ pc' = "replaying" => IsServer
        /\ tables = Fresh(0)
        BY <1>1, RebuildAssumption DEF Stamp
  <2> QED BY <2>1, <2>2, <2>3 DEF TypeOK
<1>2. ASSUME RebuildInv, Rewind
      PROVE  RebuildInv'
  <2>1. TypeOK' /\ OneVersion'
        BY <1>2 DEF Rewind, TypeOK, Steps, OneVersion
  <2>2. /\ pc' = "opening" /\ ~IsServer /\ cursor' = 0 /\ role' = role
        /\ stamped' = code' /\ tables' = tables /\ tables = Fresh(0)
        BY <1>2 DEF Rewind
  <2>3. Fresh(Upto)' = Fresh(0)
        BY <1>2, <2>2 DEF Rewind, Fresh, Upto
  <2> QED BY <2>1, <2>2, <2>3 DEF TypeOK
<1> QED BY <1>1, <1>2

\* A server's replay makes the tables of its whole log, or nothing.
LEMMA ReplayKeeps == RebuildInv /\ (ReplayAll \/ ReplayFails) => RebuildInv'
<1> USE DEF RebuildInv
<1>1. ASSUME RebuildInv, ReplayAll
      PROVE  RebuildInv'
  <2>1. /\ IsServer /\ stamped = code /\ tables = Fresh(0) /\ TypeOK /\ OneVersion
        /\ tables' = Extended(0, have) /\ pc' = "up" /\ role' = role
        /\ code' = code /\ stamped' = stamped /\ have' = have
        BY <1>1 DEF ReplayAll
  <2>2. have \in Nat /\ 0 \in Nat /\ 0 <= have
        BY <2>1 DEF TypeOK
  <2>3. tables' = Fresh(have)
        BY <2>1, <2>2, FreshExtends
  <2>4. Fresh(Upto)' = Fresh(have)
        BY <2>1 DEF Fresh, Upto
  <2>5. /\ tables' = [t \in DOMAIN tables' |-> tables'[t]]
        /\ \A t \in DOMAIN tables' : tables'[t] \in [shape : Nat, rows : Seq(Nat \X Nat)]
        /\ OneVersion'
        BY <2>1, <2>2, ExtendedIsOurs
  <2>6. TypeOK'
        BY <1>1, <2>1, <2>5 DEF ReplayAll, TypeOK, Steps
  <2> QED BY <2>1, <2>3, <2>4, <2>5, <2>6 DEF TypeOK
<1>2. ASSUME RebuildInv, ReplayFails
      PROVE  RebuildInv'
  <2>1. TypeOK' /\ pc' = "down" /\ torn' = TRUE /\ stamped' <= code'
        BY <1>2 DEF ReplayFails, TypeOK, Steps
  <2>2. stamped' = code' => OneVersion'
        BY <1>2 DEF ReplayFails, OneVersion
  <2> QED BY <2>1, <2>2
<1> QED BY <1>1, <1>2

\* A chunk of a client's advance: rows and cursor move together.
LEMMA AdvanceKeeps == RebuildInv /\ Advance => RebuildInv'
<1> SUFFICES ASSUME RebuildInv, Advance
             PROVE  RebuildInv'
    OBVIOUS
<1> USE DEF RebuildInv
<1>1. /\ ~IsServer /\ stamped = code /\ TypeOK /\ OneVersion
      /\ tables' = Extended(cursor, ChunkEnd) /\ cursor' = ChunkEnd
      /\ code' = code /\ stamped' = stamped /\ have' = have /\ pc' = pc /\ torn' = torn
      /\ cursor < have /\ pc \in {"opening", "receiving"} /\ crashes' = crashes
      /\ role' = role
      BY DEF Advance
<1>2. cursor \in Nat /\ ChunkEnd \in Nat /\ cursor <= ChunkEnd /\ ChunkEnd <= have
      BY <1>1, ChunkIsAhead DEF TypeOK
<1>3. /\ tables' = [t \in DOMAIN tables' |-> tables'[t]]
      /\ \A t \in DOMAIN tables' : tables'[t] \in [shape : Nat, rows : Seq(Nat \X Nat)]
      /\ OneVersion'
      BY <1>1, <1>2, ExtendedIsOurs
<1>4. TypeOK'
      BY <1>1, <1>2, <1>3 DEF TypeOK
<1>5. ~torn => tables' = Fresh(Upto)'
  <2>1. ~torn => tables = Fresh(cursor)
        BY <1>1 DEF Upto
  <2>2. ~torn => tables' = Fresh(ChunkEnd)
        BY <1>1, <1>2, <2>1, FreshExtends
  <2>3. Fresh(Upto)' = Fresh(ChunkEnd)
        BY <1>1 DEF Fresh, Upto
  <2> QED BY <2>2, <2>3
<1> QED BY <1>1, <1>3, <1>4, <1>5 DEF TypeOK

\* An entry a server appends: its row of the log and the app's are one commit.
LEMMA AppendKeeps == RebuildInv /\ Append1 => RebuildInv'
<1> SUFFICES ASSUME RebuildInv, Append1
             PROVE  RebuildInv'
    OBVIOUS
<1> USE DEF RebuildInv
<1>1. /\ IsServer /\ stamped = code /\ TypeOK /\ OneVersion /\ pc = "up"
      /\ tables' = Extended(have, have + 1) /\ have' = have + 1 /\ cursor' = cursor
      /\ code' = code /\ stamped' = stamped /\ pc' = pc /\ torn' = torn
      /\ crashes' = crashes /\ role' = role
      BY DEF Append1
<1>2. have \in Nat /\ have + 1 \in Nat /\ have <= have + 1
      BY <1>1 DEF TypeOK
<1>3. /\ tables' = [t \in DOMAIN tables' |-> tables'[t]]
      /\ \A t \in DOMAIN tables' : tables'[t] \in [shape : Nat, rows : Seq(Nat \X Nat)]
      /\ OneVersion'
      BY <1>1, <1>2, ExtendedIsOurs
<1>4. TypeOK'
      BY <1>1, <1>2, <1>3 DEF TypeOK
<1>5. ~torn => tables' = Fresh(Upto)'
  <2>1. ~torn => tables = Fresh(have)
        BY <1>1 DEF Upto
  <2>2. ~torn => tables' = Fresh(have + 1)
        BY <1>1, <1>2, <2>1, FreshExtends
  <2>3. Fresh(Upto)' = Fresh(have + 1)
        BY <1>1 DEF Fresh, Upto
  <2> QED BY <2>2, <2>3
<1> QED BY <1>1, <1>3, <1>4, <1>5 DEF TypeOK

\* The other steps leave tables, stamp and cursor as they are; what they claim
\* of them only weakens.
LEMMA RestKeeps ==
    RebuildInv /\ (AdvanceFails \/ CaughtUp \/ Receive \/ Crash \/ Close) => RebuildInv'
<1> SUFFICES ASSUME RebuildInv,
                    AdvanceFails \/ CaughtUp \/ Receive \/ Crash \/ Close
             PROVE  RebuildInv'
    OBVIOUS
<1> USE DEF RebuildInv
<1>1. /\ code' = code /\ stamped' = stamped /\ tables' = tables /\ cursor' = cursor
      /\ role' = role /\ (IsServer => have' = have)
      BY DEF AdvanceFails, CaughtUp, Receive, Crash, Close
<1>2. OneVersion' = OneVersion /\ Fresh(Upto)' = Fresh(Upto)
      BY <1>1 DEF OneVersion, Fresh, Upto
<1>3. TypeOK'
  <2>1. have' \in Nat /\ cursor' \in 0..have' /\ crashes' \in Nat
        BY <1>1 DEF AdvanceFails, CaughtUp, Receive, Crash, Close, TypeOK
  <2>2. pc' \in Steps
        BY DEF AdvanceFails, CaughtUp, Receive, Crash, Close, Steps
  <2>3. torn' \in BOOLEAN
        BY DEF AdvanceFails, CaughtUp, Receive, Crash, Close, TypeOK
  <2> QED BY <1>1, <2>1, <2>2, <2>3 DEF TypeOK
<1>4. /\ pc' \in {"down", "up", "receiving"}
      /\ pc' \in {"up", "receiving"} => stamped = code /\ pc \notin {"rewinding", "replaying"}
      /\ pc' = "receiving" => ~IsServer
      BY DEF AdvanceFails, CaughtUp, Receive, Crash, Close
<1>5. ~torn' => ~torn /\ pc \notin {"rewinding", "replaying"}
      BY DEF AdvanceFails, CaughtUp, Receive, Crash, Close
<1> QED BY <1>1, <1>2, <1>3, <1>4, <1>5 DEF TypeOK

\* A new version makes every stamp an old one.
LEMMA UpgradeKeeps == RebuildInv /\ Upgrade => RebuildInv'
<1> SUFFICES ASSUME RebuildInv, Upgrade
             PROVE  RebuildInv'
    OBVIOUS
<1>1. TypeOK' /\ pc' = "down" /\ stamped' < code' /\ stamped' # code'
      BY DEF RebuildInv, Upgrade, TypeOK, Steps
<1> QED BY <1>1 DEF RebuildInv, TypeOK

\* A step that changes nothing.
LEMMA StutterKeeps == RebuildInv /\ UNCHANGED vars => RebuildInv'
BY DEF RebuildInv, TypeOK, OneVersion, Fresh, Upto, vars

\* The stamp of a state file means what RebuildInv says it means, at every
\* step of opening and running, whatever crashes in between.
THEOREM StampsAreTrue == Spec => []RebuildInv
<1>1. RebuildInv /\ [Next]_vars => RebuildInv'
      BY StartKeeps, StartFailsKeeps, ResetKeeps, StampKeeps, ReplayKeeps, AdvanceKeeps, AppendKeeps,
         RestKeeps, UpgradeKeeps, StutterKeeps DEF Next
<1> QED BY RebuildStarts, <1>1, PTL DEF Spec

\* A file that is open holds what a fresh install would have materialised,
\* unless a rebuild stopped between its stamp and its rows.
THEOREM RebuiltIsFresh == Spec => []RebuiltUnlessTorn
<1>1. RebuildInv => RebuiltUnlessTorn
      BY DEF RebuildInv, RebuiltUnlessTorn
<1> QED BY StampsAreTrue, <1>1, PTL

\* Whatever stopped where, rows of two versions are never mixed.
THEOREM OneVersionOnly == Spec => []NeverMixed
<1>1. RebuildInv => NeverMixed
      BY DEF RebuildInv, NeverMixed
<1> QED BY StampsAreTrue, <1>1, PTL
=============================================================================
