----------------------------- MODULE MCReleases -----------------------------
(***************************************************************************)
(* Releases of an app with two verbs, one of them with two arguments and   *)
(* two that may be filled in.                                              *)
(***************************************************************************)
EXTENDS Releases, TLC

Plain(ty) == [ty |-> ty, of |-> Null]
Id(table) == [ty |-> "Id", of |-> table]

\* Every way to have some of the names, each with a type it may have.
Signatures(types) ==
    UNION {{f \in [S -> UNION {types[n] : n \in S}] : \A n \in S : f[n] \in types[n]} :
              S \in SUBSET DOMAIN types}

\* A build that has `clear`, and may have `favorite`.
App(style, arguments, autos) ==
    LET clear == "clear" :> [args |-> <<>>, auto |-> <<>>]
        favorite == [args : arguments, auto : autos]
    IN  [style : {style}, verbs : {clear} \cup {clear @@ ("favorite" :> f) : f \in favorite}]

\* Verbs grow, and what is filled in; one with an id or a bool keeps its macro.
AddedTo ==
    App("mutation",
        Signatures([a |-> {Plain("Text"), Plain("Bool"), Id("song"), Id("album")},
                    b |-> {Plain("Integer")}]),
        {<<>>, "x" :> Id("song"), ("x" :> Id("song")) @@ ("y" :> Plain("Now"))})
    \cup App("mutations",
        Signatures([a |-> {Plain("Text"), Plain("Array")}, b |-> {Plain("Id")}]),
        {<<>>, "y" :> Plain("Now")})

\* The builds of the runs are what the theorems are about.
ASSUME DisciplineAssumption == Disciplined

\* One macro throughout, and an argument that reads back as nothing but itself.
ById == App("mutations", Signatures([a |-> {Plain("Text")}, b |-> {Plain("Id")}]), {<<>>})
=============================================================================
