------------------------------ MODULE Releases ------------------------------
(***************************************************************************)
(* What an app may change about its mutations: crates/petros-schema, the   *)
(* macros that read a declaration, and log-compat, which holds each build  *)
(* to the surface recorded with the one before.  The log is for ever, and  *)
(* every entry of it is decoded by every build that comes after.           *)
(*                                                                         *)
(* A build is how its verbs are declared, by #[mutation] or by mutations!, *)
(* and for each verb the arguments a caller passes and the ones fill_auto  *)
(* supplies.  An argument is its type and, for an id of #[mutation], the    *)
(* table it names.  A payload is what its fields are in CBOR, whatever a   *)
(* caller passed; what the build that wrote it took a field for, and the   *)
(* table the field named, are kept beside it, though no byte says so.      *)
(***************************************************************************)
EXTENDS Naturals, Sequences

CONSTANTS
    Builds,       \* the builds there can be: [style, verbs]
    MaxReleases,
    MaxEntries,
    Null          \* an id that names no table, and any argument that is no id

\* #[mutation] has every id say its table, and mutations! cannot; what is filled
\* in is an id or the time.
ASSUME ReleasesAssumption ==
    /\ \A b \in Builds : \A v \in DOMAIN b.verbs :
          /\ b.style \in {"mutation", "mutations"}
          /\ \A n \in DOMAIN b.verbs[v].args :
                LET arg == b.verbs[v].args[n]
                IN  /\ arg = [ty |-> arg.ty, of |-> arg.of]
                    /\ arg.of # Null <=> arg.ty = "Id" /\ b.style = "mutation"
          /\ \A n \in DOMAIN b.verbs[v].auto : b.verbs[v].auto[n].ty \in {"Id", "Now"}
    /\ {MaxReleases, MaxEntries} \subseteq Nat

VARIABLES
    releases,   \* the builds that were shipped, oldest first
    snapshot,   \* the surface recorded beside the domain: verb -> name -> type
    log         \* entries: [verb, fields, given, since], given what a caller passed
                \* of the fields, since the newest build it knew

vars == <<releases, snapshot, log>>

Verbs(b) == DOMAIN b.verbs
Args(b, v) == b.verbs[v].args
Autos(b, v) == b.verbs[v].auto

----------------------------------------------------------------------------
(* The declaration, from a build and back from a file *)

\* Mutant: a parser that was not told of tables.
ParseUntagged(arg) == [arg EXCEPT !.of = Null]

\* Arg::declaration, and Arg::parse of it: the table is spelled for ids only.
Parse(arg) == [arg EXCEPT !.of = IF arg.ty = "Id" THEN @ ELSE Null]

\* What a module carries, to_text writes and from_text reads: the autos of a
\* verb are not in it.
Surface(b) == [v \in Verbs(b) |-> [n \in DOMAIN Args(b, v) |-> Parse(Args(b, v)[n])]]

----------------------------------------------------------------------------
(* breaking_changes *)

VerbsRemoved(was, now) ==
    {[kind |-> "VerbRemoved", verb |-> v] : v \in DOMAIN was \ DOMAIN now}

ArgsRemoved(was, now, v) ==
    {[kind |-> "ArgRemoved", verb |-> v, arg |-> n] : n \in DOMAIN was[v] \ DOMAIN now[v]}

Kept(was, now, v) == DOMAIN was[v] \cap DOMAIN now[v]

ArgsRetyped(was, now, v) ==
    {[kind |-> "ArgRetyped", verb |-> v, arg |-> n] :
        n \in {n \in Kept(was, now, v) : was[v][n].ty # now[v][n].ty}}

\* An id that gains or loses its table is not this.
ArgsRetabled(was, now, v) ==
    {[kind |-> "ArgRetabled", verb |-> v, arg |-> n] :
        n \in {n \in Kept(was, now, v) :
                  /\ was[v][n].ty = now[v][n].ty
                  /\ Null \notin {was[v][n].of, now[v][n].of}
                  /\ was[v][n].of # now[v][n].of}}

BreakingChanges(was, now) ==
    VerbsRemoved(was, now)
        \cup UNION {ArgsRemoved(was, now, v) \cup ArgsRetyped(was, now, v)
                        \cup ArgsRetabled(was, now, v) : v \in DOMAIN was \cap DOMAIN now}

----------------------------------------------------------------------------
(* Writing a payload, and reading one *)

\* What a caller can pass: nobody holds it to the type that is declared.
Json == {"null", "bool", "integer", "text", "array"}

\* json_to_cbor: a value is carried as it stands, but for the text of an id.
Carried(json, ty) == IF json = "text" /\ ty = "Id" THEN "bytes" ELSE json

\* as_bytes, as_int and as_text, need_array, and of the two macros' ways with a
\* bool as_bool and opt_bool: what reads back as the type.
Readable(style, ty, cbor) ==
    cbor \in CASE ty = "Id" -> {"bytes"}
               [] ty \in {"Integer", "Now"} -> {"integer"}
               [] ty = "Bool" -> IF style = "mutation" THEN {"bool", "integer"} ELSE {"bool"}
               [] ty = "Text" -> {"text"}
               [] ty = "Array" -> {"array"}

\* What does not is the type's default.
Taken(style, ty, cbor) == IF Readable(style, ty, cbor) THEN cbor ELSE "default"

Written(style, arg, cbor) ==
    [cbor |-> cbor, taken |-> Taken(style, arg.ty, cbor), of |-> arg.of]

Has(style, fields, n, ty) == n \in DOMAIN fields /\ Readable(style, ty, fields[n].cbor)

Type(b, v, n) == IF n \in DOMAIN Autos(b, v) THEN Autos(b, v)[n] ELSE Args(b, v)[n]
Names(b, v) == DOMAIN Args(b, v) \cup DOMAIN Autos(b, v)

\* What has to be in the payload.  A function under #[mutation] needs what
\* fill_auto supplies and defaults the rest; mutations! needs ids and arrays.
Needs(b, v, n) ==
    \/ b.style = "mutation" /\ n \in DOMAIN Autos(b, v)
    \/ b.style = "mutations" /\ Type(b, v, n).ty \in {"Id", "Array"}

\* apply, as far as the body: an unknown verb is refused, and a missing field
\* that the verb needs.
Refuses(b, e) ==
    \/ e.verb \notin Verbs(b)
    \/ \E n \in Names(b, e.verb) :
          Needs(b, e.verb, n) /\ ~Has(b.style, e.fields, n, Type(b, e.verb, n).ty)

----------------------------------------------------------------------------
(* A build is checked and shipped; devices author, and keep their entries *)

\* The first build has nothing to be held to; each after it is held to what was
\* recorded, and recorded in turn.
Ship(b) ==
    /\ Len(releases) < MaxReleases
    /\ releases # <<>> => BreakingChanges(snapshot, Surface(b)) = {}
    /\ releases' = Append(releases, b)
    /\ snapshot' = Surface(b)
    /\ UNCHANGED log

\* What a caller writes, of the arguments a build says the verb has.
Authored(b, v, given) ==
    [n \in DOMAIN given |->
        LET arg == Args(b, v)[n] IN Written(b.style, arg, Carried(given[n], arg.ty))]

\* What fill_auto draws: an id, or the time.
Drawn(arg) == Written("mutation", arg, IF arg.ty = "Id" THEN "bytes" ELSE "integer")

\* fill_auto, on top of what is there.
Filled(b, v, fields) ==
    IF v \notin Verbs(b) THEN fields
    ELSE [n \in DOMAIN fields \cup DOMAIN Autos(b, v) |->
             IF n \in DOMAIN Autos(b, v) THEN Drawn(Autos(b, v)[n]) ELSE fields[n]]

\* A device with build i linked and the module of build j: from_json goes by the
\* one, fill_auto and apply by the other.  Arguments can be left off.  What is
\* refused is not recorded.
Author(i, j) ==
    LET b == releases[i]
        m == releases[j]
    IN  \E v \in Verbs(b) : \E S \in SUBSET DOMAIN Args(b, v) : \E given \in [S -> Json] :
          LET e == [verb |-> v, fields |-> Filled(m, v, Authored(b, v, given)),
                    given |-> S, since |-> IF i > j THEN i ELSE j]
          IN  /\ Len(log) < MaxEntries
              /\ ~Refuses(m, e)
              /\ log' = Append(log, e)
              /\ UNCHANGED <<releases, snapshot>>

Init ==
    /\ releases = <<>>
    /\ snapshot = <<>>
    /\ log = <<>>

Next ==
    \/ \E b \in Builds : Ship(b)
    \/ \E i, j \in DOMAIN releases : Author(i, j)

Spec == Init /\ [][Next]_vars

----------------------------------------------------------------------------
(* Properties *)

\* Every entry, and every build at least as new as what it was written with.
OfEveryBuild(P(_, _)) ==
    \A l \in DOMAIN log : \A k \in log[l].since..Len(releases) : P(releases[k], log[l])

MeansTheSame(b, e) ==
    /\ e.verb \in Verbs(b)
    /\ e.given \subseteq Names(b, e.verb)
    /\ \A n \in DOMAIN e.fields \cap Names(b, e.verb) :
          /\ Taken(b.style, Type(b, e.verb, n).ty, e.fields[n].cbor) = e.fields[n].taken
          /\ Type(b, e.verb, n).of = e.fields[n].of

\* However many builds were checked and shipped since, a verb the log carries is
\* understood, and an argument it carries is taken for what it was taken for when
\* it was written, and for the table it was written for (the header of compat.rs).
ReadAsWritten == OfEveryBuild(MeansTheSame)

\* Not so: adding is always safe, since a payload without a field decodes to that
\* field's default (compat.rs, of breaking_changes), and so nothing in the log is
\* refused for what was added after it.
AddingIsSafe == OfEveryBuild(LAMBDA b, e : ~Refuses(b, e))

----------------------------------------------------------------------------
(* Why they hold *)

\* What an app has to keep to besides, and log-compat does not look at: what is
\* filled in is never filled in as something else nor left to a caller, and a verb
\* with an id or a bool keeps its macro.
Disciplined ==
    \A b, c \in Builds : \A v \in Verbs(b) \cap Verbs(c) :
        /\ DOMAIN Autos(b, v) \cap DOMAIN Args(c, v) = {}
        /\ \A n \in DOMAIN Autos(b, v) \cap DOMAIN Autos(c, v) :
              Autos(b, v)[n] = Autos(c, v)[n]
        /\ b.style # c.style =>
              \A n \in DOMAIN Args(b, v) \cap DOMAIN Args(c, v) :
                  Args(b, v)[n].ty = Args(c, v)[n].ty =>
                      Args(b, v)[n].ty \notin {"Id", "Bool"}

\* What one build says of a verb and an argument, another says too.
Extends(b, c) ==
    \A v \in Verbs(b) :
        /\ v \in Verbs(c)
        /\ \A n \in DOMAIN Args(b, v) :
              /\ n \in DOMAIN Args(c, v)
              /\ Args(b, v)[n].ty = Args(c, v)[n].ty
              /\ Args(b, v)[n].of = Args(c, v)[n].of

\* A field of e is what a caller of b may pass, or what some build filled in.
FieldOf(b, e, n) ==
    \/ /\ n \in DOMAIN Args(b, e.verb)
       /\ \E cbor \in Json \cup {"bytes"} : e.fields[n] = Written(b.style, Args(b, e.verb)[n], cbor)
    \/ \E c \in Builds :
          /\ e.verb \in Verbs(c)
          /\ n \in DOMAIN Autos(c, e.verb)
          /\ e.fields[n] = Drawn(Autos(c, e.verb)[n])

EntryOf(b, e) ==
    /\ e.verb \in Verbs(b)
    /\ e.given \subseteq DOMAIN Args(b, e.verb)
    /\ \A n \in DOMAIN e.fields : FieldOf(b, e, n)

\* log-compat compares two builds at a time; together they are a chain.
ChainInv ==
    /\ releases \in Seq(Builds)
    /\ releases # <<>> => snapshot = Surface(releases[Len(releases)])
    /\ \A i, k \in DOMAIN releases : i <= k => Extends(releases[i], releases[k])
    /\ log \in Seq({log[l] : l \in DOMAIN log})
    /\ \A l \in DOMAIN log :
          log[l].since \in DOMAIN releases /\ EntryOf(releases[log[l].since], log[l])
=============================================================================
