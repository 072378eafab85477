--------------------------- MODULE Releases_proofs ---------------------------
(***************************************************************************)
(* Any number of releases, of any builds that are Disciplined: what         *)
(* log-compat lets through two at a time holds along the whole chain.      *)
(***************************************************************************)
EXTENDS Releases, TLAPS

LEMMA ExtendsAll ==
    ASSUME NEW b, NEW c, NEW d, Extends(b, c), Extends(c, d)
    PROVE  Extends(b, d)
BY DEF Extends

LEMMA ExtendsSelf ==
    ASSUME NEW b
    PROVE  Extends(b, b)
BY DEF Extends

\* Nothing is broken: the newer surface says all that the older one did.
LEMMA NoneBreaking ==
    ASSUME NEW was, NEW now, BreakingChanges(was, now) = {}, NEW v \in DOMAIN was
    PROVE  /\ v \in DOMAIN now
           /\ \A n \in DOMAIN was[v] :
                 /\ n \in DOMAIN now[v]
                 /\ was[v][n].ty = now[v][n].ty
                 /\ \/ Null \in {was[v][n].of, now[v][n].of}
                    \/ was[v][n].of = now[v][n].of
<1>1. v \in DOMAIN now
  <2>1. VerbsRemoved(was, now) = {}
    BY DEF BreakingChanges
  <2> QED BY <2>1 DEF VerbsRemoved
<1> DEFINE changes(w) == ArgsRemoved(was, now, w) \cup ArgsRetyped(was, now, w)
                            \cup ArgsRetabled(was, now, w)
<1>2. changes(v) = {}
  <2>1. UNION {changes(w) : w \in DOMAIN was \cap DOMAIN now} = {}
    BY DEF BreakingChanges
  <2> QED BY <1>1, <2>1
<1>3. ArgsRemoved(was, now, v) = {} /\ ArgsRetyped(was, now, v) = {}
      /\ ArgsRetabled(was, now, v) = {}
  BY <1>2
<1>4. ASSUME NEW n \in DOMAIN was[v] PROVE n \in DOMAIN now[v]
  BY <1>3 DEF ArgsRemoved
<1>5. ASSUME NEW n \in DOMAIN was[v] PROVE was[v][n].ty = now[v][n].ty
  BY <1>3, <1>4 DEF ArgsRetyped, Kept
<1>6. ASSUME NEW n \in DOMAIN was[v]
      PROVE  Null \in {was[v][n].of, now[v][n].of} \/ was[v][n].of = now[v][n].of
  BY <1>3, <1>4, <1>5 DEF ArgsRetabled, Kept
<1> QED BY <1>1, <1>4, <1>5, <1>6

\* A surface is what its build declares: nothing is lost on the way to the file.
LEMMA SurfaceIs ==
    ASSUME NEW b \in Builds
    PROVE  /\ DOMAIN Surface(b) = Verbs(b)
           /\ \A v \in Verbs(b) :
                 /\ DOMAIN Surface(b)[v] = DOMAIN Args(b, v)
                 /\ \A n \in DOMAIN Args(b, v) :
                       /\ Surface(b)[v][n].ty = Args(b, v)[n].ty
                       /\ Surface(b)[v][n].of = Args(b, v)[n].of
<1>1. ASSUME NEW v \in Verbs(b), NEW n \in DOMAIN Args(b, v)
      PROVE  Parse(Args(b, v)[n]) = Args(b, v)[n]
  <2> DEFINE arg == Args(b, v)[n]
  <2>1. arg = [ty |-> arg.ty, of |-> arg.of] /\ (arg.ty # "Id" => arg.of = Null)
    BY ReleasesAssumption DEF Verbs, Args
  <2> HIDE DEF arg
  <2>2. Parse(arg) = arg
    BY <2>1 DEF Parse
  <2> QED BY <2>2 DEF arg
<1> QED BY <1>1 DEF Surface

\* A build that may be shipped says all that the last one did.  One of two ids may
\* name a table and the other none, but only under different macros, and then a
\* disciplined app has no id there.
LEMMA ShippedExtends ==
    ASSUME Disciplined, NEW b \in Builds, NEW c \in Builds,
           BreakingChanges(Surface(b), Surface(c)) = {}
    PROVE  Extends(b, c)
<1> DEFINE was == Surface(b)
           now == Surface(c)
<1>1. ASSUME NEW v \in Verbs(b) PROVE v \in Verbs(c)
  BY SurfaceIs, NoneBreaking
<1>2. ASSUME NEW v \in Verbs(b), NEW n \in DOMAIN Args(b, v)
      PROVE  /\ n \in DOMAIN Args(c, v)
             /\ Args(b, v)[n].ty = Args(c, v)[n].ty
             /\ Args(b, v)[n].of = Args(c, v)[n].of
  <2>1. v \in DOMAIN was /\ n \in DOMAIN was[v] /\ v \in Verbs(c)
    BY <1>1, SurfaceIs
  <2>2. /\ n \in DOMAIN now[v]
        /\ was[v][n].ty = now[v][n].ty
        /\ Null \in {was[v][n].of, now[v][n].of} \/ was[v][n].of = now[v][n].of
    BY <2>1, NoneBreaking
  <2>3. n \in DOMAIN Args(c, v)
    BY <2>1, <2>2, SurfaceIs
  <2>4. /\ was[v][n].ty = Args(b, v)[n].ty /\ was[v][n].of = Args(b, v)[n].of
        /\ now[v][n].ty = Args(c, v)[n].ty /\ now[v][n].of = Args(c, v)[n].of
    BY <2>1, <2>3, SurfaceIs
  <2> HIDE DEF was, now
  <2>5. Args(b, v)[n].ty = Args(c, v)[n].ty
    BY <2>2, <2>4
  <2>6. /\ Args(b, v)[n].of # Null <=> Args(b, v)[n].ty = "Id" /\ b.style = "mutation"
        /\ Args(c, v)[n].of # Null <=> Args(c, v)[n].ty = "Id" /\ c.style = "mutation"
    BY <2>1, <2>3, ReleasesAssumption DEF Verbs, Args
  <2>7. b.style # c.style => Args(b, v)[n].ty # "Id"
    BY <2>1, <2>3, <2>5 DEF Disciplined
  <2> QED BY <2>2, <2>3, <2>4, <2>5, <2>6, <2>7
<1> QED BY <1>1, <1>2 DEF Extends

\* The macros differ in what they read as a bool, and in nothing else.
LEMMA TakenAlike ==
    ASSUME NEW style, NEW other, NEW ty, NEW cbor, ty = "Bool" => style = other
    PROVE  Taken(style, ty, cbor) = Taken(other, ty, cbor)
<1>1. CASE style = other
  BY <1>1
<1>2. CASE ty # "Bool"
  <2>1. Readable(style, ty, cbor) <=> Readable(other, ty, cbor)
    BY <1>2 DEF Readable
  <2> QED BY <2>1 DEF Taken
<1> QED BY <1>1, <1>2

\* An argument of a build is written as a build that extends it would have.
LEMMA WrittenAlike ==
    ASSUME Disciplined, NEW b \in Builds, NEW c \in Builds, Extends(b, c),
           NEW v \in Verbs(b), NEW n \in DOMAIN Args(b, v), NEW cbor
    PROVE  /\ v \in Verbs(c) /\ n \in DOMAIN Args(c, v)
           /\ Written(b.style, Args(b, v)[n], cbor) = Written(c.style, Args(c, v)[n], cbor)
<1>1. /\ v \in Verbs(c) /\ n \in DOMAIN Args(c, v)
      /\ Args(b, v)[n].ty = Args(c, v)[n].ty
      /\ Args(b, v)[n].of = Args(c, v)[n].of
  BY DEF Extends
<1>2. b.style # c.style => Args(b, v)[n].ty # "Bool"
  BY <1>1 DEF Disciplined
<1>3. Taken(b.style, Args(b, v)[n].ty, cbor) = Taken(c.style, Args(c, v)[n].ty, cbor)
  BY <1>1, <1>2, TakenAlike
<1> QED BY <1>1, <1>3 DEF Written

\* What a caller of b may write under the module of m, and what m fills in, is
\* an entry of any build that extends both.
LEMMA EntryOfBoth ==
    ASSUME Disciplined, NEW b \in Builds, NEW m \in Builds, NEW d \in Builds,
           Extends(b, d), Extends(m, d), NEW v \in Verbs(b), v \in Verbs(m),
           NEW S \in SUBSET DOMAIN Args(b, v), NEW given \in [S -> Json], NEW since
    PROVE  EntryOf(d, [verb |-> v, fields |-> Filled(m, v, Authored(b, v, given)),
                       given |-> S, since |-> since])
<1> DEFINE fields == Filled(m, v, Authored(b, v, given))
           cbor(n) == Carried(given[n], Args(b, v)[n].ty)
           e == [verb |-> v, fields |-> fields, given |-> S, since |-> since]
<1>1. v \in Verbs(d) /\ S \subseteq DOMAIN Args(d, v)
  BY DEF Extends
<1>2. /\ DOMAIN fields = S \cup DOMAIN Autos(m, v)
      /\ \A n \in DOMAIN Autos(m, v) : fields[n] = Drawn(Autos(m, v)[n])
      /\ \A n \in S \ DOMAIN Autos(m, v) :
            fields[n] = Written(b.style, Args(b, v)[n], cbor(n))
  BY DEF Filled, Authored
<1>3. \A n \in S : cbor(n) \in Json \cup {"bytes"}
  BY DEF Carried
<1> HIDE DEF fields, cbor
<1>4. e.verb = v /\ e.fields = fields /\ e.given = S
  OBVIOUS
<1> HIDE DEF e
<1>5. ASSUME NEW n \in DOMAIN fields PROVE FieldOf(d, e, n)
  <2>1. n \in DOMAIN Autos(m, v) => FieldOf(d, e, n)
    BY <1>2, <1>4 DEF FieldOf
  <2>2. ASSUME n \in S \ DOMAIN Autos(m, v) PROVE FieldOf(d, e, n)
    <3>1. /\ n \in DOMAIN Args(d, v)
          /\ fields[n] = Written(d.style, Args(d, v)[n], cbor(n))
      BY <1>2, <2>2, WrittenAlike
    <3> QED BY <1>3, <1>4, <2>2, <3>1 DEF FieldOf
  <2> QED BY <1>2, <2>1, <2>2
<1>6. EntryOf(d, e)
  BY <1>1, <1>4, <1>5 DEF EntryOf
<1> QED BY <1>6 DEF e, fields

\* An entry of a build is one of every build that extends it.
LEMMA EntryLasts ==
    ASSUME Disciplined, NEW b \in Builds, NEW c \in Builds, Extends(b, c),
           NEW e, EntryOf(b, e)
    PROVE  EntryOf(c, e)
<1>1. e.verb \in Verbs(b) /\ e.verb \in Verbs(c)
  BY DEF EntryOf, Extends
<1>2. e.given \subseteq DOMAIN Args(c, e.verb)
  BY <1>1 DEF EntryOf, Extends
<1>3. ASSUME NEW n \in DOMAIN e.fields PROVE FieldOf(c, e, n)
  <2>1. FieldOf(b, e, n)
    BY DEF EntryOf
  <2>2. ASSUME NEW cbor \in Json \cup {"bytes"}, n \in DOMAIN Args(b, e.verb),
               e.fields[n] = Written(b.style, Args(b, e.verb)[n], cbor)
        PROVE  FieldOf(c, e, n)
    <3>1. /\ n \in DOMAIN Args(c, e.verb)
          /\ e.fields[n] = Written(c.style, Args(c, e.verb)[n], cbor)
      BY <1>1, <2>2, WrittenAlike
    <3> QED BY <3>1 DEF FieldOf
  <2> QED BY <2>1, <2>2 DEF FieldOf
<1> QED BY <1>1, <1>2, <1>3 DEF EntryOf

\* A build takes a field of an entry of its own for what it was written as: an
\* argument is not filled in by any build, and what is filled in is so as one type.
LEMMA EntryMeansTheSame ==
    ASSUME Disciplined, NEW b \in Builds, NEW e, EntryOf(b, e)
    PROVE  MeansTheSame(b, e)
<1> DEFINE v == e.verb
<1>1. v \in Verbs(b) /\ e.given \subseteq Names(b, v)
  BY DEF EntryOf, Names
<1>2. ASSUME NEW n \in DOMAIN e.fields \cap Names(b, v)
      PROVE  /\ Taken(b.style, Type(b, v, n).ty, e.fields[n].cbor) = e.fields[n].taken
             /\ Type(b, v, n).of = e.fields[n].of
  <2>1. FieldOf(b, e, n)
    BY DEF EntryOf
  <2>2. ASSUME NEW cbor, n \in DOMAIN Args(b, v),
               e.fields[n] = Written(b.style, Args(b, v)[n], cbor)
        PROVE  /\ Taken(b.style, Type(b, v, n).ty, e.fields[n].cbor) = e.fields[n].taken
               /\ Type(b, v, n).of = e.fields[n].of
    <3>1. Type(b, v, n) = Args(b, v)[n]
      BY <1>1, <2>2 DEF Disciplined, Type
    <3> QED BY <2>2, <3>1 DEF Written
  <2>3. ASSUME NEW c \in Builds, v \in Verbs(c), n \in DOMAIN Autos(c, v),
               e.fields[n] = Drawn(Autos(c, v)[n])
        PROVE  /\ Taken(b.style, Type(b, v, n).ty, e.fields[n].cbor) = e.fields[n].taken
               /\ Type(b, v, n).of = e.fields[n].of
    <3> DEFINE arg == Autos(c, v)[n]
    <3>1. n \in DOMAIN Autos(b, v) /\ Autos(b, v)[n] = arg
      BY <1>1, <2>3 DEF Disciplined, Names
    <3>2. Type(b, v, n) = arg
      BY <3>1 DEF Type
    <3>3. arg.ty # "Bool"
      BY <2>3, ReleasesAssumption DEF Verbs, Autos
    <3> HIDE DEF arg
    <3>4. \A cbor : Taken("mutation", arg.ty, cbor) = Taken(b.style, arg.ty, cbor)
      BY <3>3, TakenAlike
    <3>5. e.fields[n] = Drawn(arg)
      BY <2>3 DEF arg
    <3>6. /\ e.fields[n].taken = Taken("mutation", arg.ty, e.fields[n].cbor)
          /\ e.fields[n].of = arg.of
      BY <3>5 DEF Drawn, Written
    <3> QED BY <3>2, <3>4, <3>6
  <2> QED BY <2>1, <2>2, <2>3 DEF FieldOf
<1> QED BY <1>1, <1>2 DEF MeansTheSame

----------------------------------------------------------------------------
(* The chain *)

LEMMA Appended ==
    ASSUME NEW S, NEW q \in Seq(S), NEW x
    PROVE  /\ Len(Append(q, x)) = Len(q) + 1 /\ Len(q) \in Nat
           /\ DOMAIN q = 1..Len(q) /\ DOMAIN Append(q, x) = 1..(Len(q) + 1)
           /\ \A i \in DOMAIN q : Append(q, x)[i] = q[i]
           /\ Append(q, x)[Len(q) + 1] = x
           /\ Append(q, x) \in Seq(S \cup {x})
<1>1. q \in Seq(S \cup {x}) /\ x \in S \cup {x}
  OBVIOUS
<1> QED BY <1>1

LEMMA ChainStarts ==
    ASSUME Init
    PROVE  ChainInv
BY DEF Init, ChainInv

LEMMA ShipKeeps ==
    ASSUME Disciplined, ChainInv, NEW b \in Builds, Ship(b)
    PROVE  ChainInv'
<1> DEFINE new == Append(releases, b)
           last == releases[Len(releases)]
<1>1. releases' = new /\ snapshot' = Surface(b) /\ log' = log
  BY DEF Ship
<1>2. /\ releases \in Seq(Builds) /\ new \in Seq(Builds)
      /\ Len(new) = Len(releases) + 1 /\ Len(releases) \in Nat
      /\ DOMAIN releases = 1..Len(releases) /\ DOMAIN new = 1..(Len(releases) + 1)
      /\ \A i \in DOMAIN releases : new[i] = releases[i]
      /\ new[Len(releases) + 1] = b
  BY Appended DEF ChainInv
<1> HIDE DEF new
<1>3. ASSUME NEW i \in DOMAIN releases PROVE Extends(releases[i], b)
  <2>1. Len(releases) \in DOMAIN releases /\ i <= Len(releases) /\ releases # <<>>
    BY <1>2
  <2>2. Extends(releases[i], last)
    BY <2>1 DEF ChainInv
  <2>3. snapshot = Surface(last) /\ last \in Builds
    BY <1>2, <2>1 DEF ChainInv
  <2>4. BreakingChanges(Surface(last), Surface(b)) = {}
    BY <2>1, <2>3 DEF Ship
  <2> HIDE DEF last
  <2>5. Extends(last, b)
    BY <2>3, <2>4, ShippedExtends
  <2> QED BY <2>2, <2>5, ExtendsAll
<1>4. ASSUME NEW i \in DOMAIN new, NEW k \in DOMAIN new, i <= k
      PROVE  Extends(new[i], new[k])
  <2>1. CASE k \in DOMAIN releases
    BY <1>2, <1>4, <2>1 DEF ChainInv
  <2>2. CASE k = Len(releases) + 1 /\ i \in DOMAIN releases
    BY <1>2, <1>3, <2>2
  <2>3. CASE k = Len(releases) + 1 /\ i = k
    BY <1>2, <2>3, ExtendsSelf
  <2> QED BY <1>2, <1>4, <2>1, <2>2, <2>3
<1>5. \A l \in DOMAIN log :
         log[l].since \in DOMAIN new /\ EntryOf(new[log[l].since], log[l])
  <2> TAKE l \in DOMAIN log
  <2>1. log[l].since \in DOMAIN releases /\ EntryOf(releases[log[l].since], log[l])
    BY DEF ChainInv
  <2>2. log[l].since \in DOMAIN new /\ new[log[l].since] = releases[log[l].since]
    BY <1>2, <2>1
  <2> QED BY <2>1, <2>2
<1>6. log \in Seq({log[l] : l \in DOMAIN log})
  BY DEF ChainInv
<1>7. new # <<>> => Surface(b) = Surface(new[Len(new)])
  BY <1>2
<1> QED BY <1>1, <1>2, <1>4, <1>5, <1>6, <1>7 DEF ChainInv

LEMMA AuthorKeeps ==
    ASSUME Disciplined, ChainInv, NEW i \in DOMAIN releases, NEW j \in DOMAIN releases,
           Author(i, j)
    PROVE  ChainInv'
<1> DEFINE b == releases[i]
           m == releases[j]
           since == IF i > j THEN i ELSE j
           d == releases[since]
<1> DEFINE entry(v, S, given) ==
              [verb |-> v, fields |-> Filled(m, v, Authored(b, v, given)),
               given |-> S, since |-> since]
           writes(x) == ~Refuses(m, x) /\ log' = Append(log, x)
                        /\ UNCHANGED <<releases, snapshot>>
<1>0. PICK v \in Verbs(b) : \E S \in SUBSET DOMAIN Args(b, v) :
         \E given \in [S -> Json] : writes(entry(v, S, given))
  BY Zenon DEF Author
<1>a. PICK S \in SUBSET DOMAIN Args(b, v) :
         \E given \in [S -> Json] : writes(entry(v, S, given))
  BY <1>0
<1>b. PICK given \in [S -> Json] : writes(entry(v, S, given))
  BY <1>a
<1> DEFINE e == entry(v, S, given)
           new == Append(log, e)
<1>1. ~Refuses(m, e) /\ log' = new /\ UNCHANGED <<releases, snapshot>>
  BY <1>b
<1>2. /\ i \in Nat /\ j \in Nat /\ since \in DOMAIN releases /\ i <= since /\ j <= since
      /\ b \in Builds /\ m \in Builds /\ d \in Builds
  BY DEF ChainInv
<1>3. Extends(b, d) /\ Extends(m, d)
  BY <1>2 DEF ChainInv
<1>4. v \in Verbs(m)
  BY <1>1 DEF Refuses
<1>5. EntryOf(d, e)
  <2> HIDE DEF b, m, d, since
  <2> QED BY <1>2, <1>3, <1>4, EntryOfBoth
<1>6. e.since = since
  OBVIOUS
<1>7. log' = new /\ UNCHANGED <<releases, snapshot>>
  BY <1>1
<1> DEFINE T == {log[l] : l \in DOMAIN log}
<1>8. log \in Seq(T)
  BY DEF ChainInv
<1> HIDE DEF e, since, T
<1>9. /\ Len(new) = Len(log) + 1 /\ Len(log) \in Nat
      /\ DOMAIN log = 1..Len(log) /\ DOMAIN new = 1..(Len(log) + 1)
      /\ \A l \in DOMAIN log : new[l] = log[l]
      /\ new[Len(log) + 1] = e
      /\ new \in Seq(T \cup {e})
  BY <1>8, Appended
<1> HIDE DEF new
<1>10. ASSUME NEW l \in DOMAIN new
       PROVE  new[l].since \in DOMAIN releases /\ EntryOf(releases[new[l].since], new[l])
  <2>1. CASE l \in DOMAIN log
    BY <1>9, <2>1 DEF ChainInv
  <2>2. CASE l = Len(log) + 1
    BY <1>2, <1>5, <1>6, <1>9, <2>2
  <2> QED BY <1>9, <2>1, <2>2
<1>11. new \in Seq({new[l] : l \in DOMAIN new})
  <2>1. T \cup {e} = {new[l] : l \in DOMAIN new}
    BY <1>9 DEF T
  <2> QED BY <1>9, <2>1
<1> QED BY <1>7, <1>10, <1>11 DEF ChainInv

\* Every build that was shipped says what all before it said, and every entry
\* is one of the newest build it knew.
THEOREM ReleasesAreAChain ==
    ASSUME Disciplined
    PROVE  Spec => []ChainInv
<1>1. Init => ChainInv
  BY ChainStarts
<1>2. ChainInv /\ [Next]_vars => ChainInv'
  <2>1. ASSUME ChainInv, UNCHANGED vars PROVE ChainInv'
    BY <2>1 DEF ChainInv, vars
  <2>2. ASSUME ChainInv, NEW b \in Builds, Ship(b) PROVE ChainInv'
    BY <2>2, ShipKeeps
  <2>3. ASSUME ChainInv, NEW i \in DOMAIN releases, NEW j \in DOMAIN releases, Author(i, j)
        PROVE  ChainInv'
    BY <2>3, AuthorKeeps
  <2> QED BY <2>1, <2>2, <2>3 DEF Next
<1> QED BY <1>1, <1>2, PTL DEF Spec

\* Every later build, whatever was between, has the entry as one of its own.
LEMMA EveryBuildsEntry ==
    ASSUME Disciplined, ChainInv, NEW l \in DOMAIN log,
           NEW k \in log[l].since..Len(releases)
    PROVE  releases[k] \in Builds /\ EntryOf(releases[k], log[l])
<1> DEFINE s == log[l].since
<1>1. /\ s \in DOMAIN releases /\ k \in DOMAIN releases /\ s <= k
      /\ releases[s] \in Builds /\ releases[k] \in Builds
  BY DEF ChainInv
<1>2. EntryOf(releases[s], log[l]) /\ Extends(releases[s], releases[k])
  BY <1>1 DEF ChainInv
<1> QED BY <1>1, <1>2, EntryLasts

\* However many releases log-compat let through, two at a time, an entry means
\* to each of them what it meant.
THEOREM EntriesKeepTheirMeaning ==
    ASSUME Disciplined
    PROVE  Spec => []ReadAsWritten
<1>1. ChainInv => ReadAsWritten
  BY EveryBuildsEntry, EntryMeansTheSame DEF ReadAsWritten, OfEveryBuild
<1> QED BY <1>1, ReleasesAreAChain, PTL
=============================================================================
