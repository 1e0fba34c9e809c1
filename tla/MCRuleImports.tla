---------------------------- MODULE MCRuleImports ----------------------------
(***************************************************************************)
(* Packages scala and java.lang; a proto package "a" with a message, a     *)
(* service that a grpc and a zio library provide and a service of the zio  *)
(* library alone; a service of a package "ab", whose name has "a" in front *)
(* without being part of it; a package "b" with a class named like a       *)
(* builtin, one the rule provides itself and one, b.Q, that nobody does.   *)
(***************************************************************************)
EXTENDS RuleImports

Sym(name, label, type) == [name |-> name, label |-> label, type |-> type, conflicts |-> <<>>]

A == <<"a">>
AM == <<"a", "M">>
AGrpc == <<"a", "UGrpc">>
AZio == <<"a", "ZioU">>
ABGrpc == <<"ab", "VGrpc">>
BL == <<"b", "L">>
BX == <<"b", "X">>
BQ == <<"b", "Q">>
All(p) == Append(p, "_")

Platform == <<Sym(<<"scala", "L">>, "none", "CLASS"), Sym(<<"java", "lang", "S">>, "none", "CLASS")>>
Protos ==
    <<Sym(A, "proto", "PROTO_PACKAGE"), Sym(AM, "proto", "CLASS"),
      Sym(A, "grpc", "PROTO_PACKAGE"), Sym(AGrpc, "grpc", "PROTO_SERVICE"),
      Sym(AGrpc, "zio", "PROTO_SERVICE"), Sym(AZio, "zio", "PROTO_SERVICE"),
      Sym(ABGrpc, "ab_grpc", "PROTO_SERVICE")>>
Own2 == <<Sym(BL, "lib", "CLASS"), Sym(BX, "self", "CLASS"), Sym(<<"b">>, "lib", "PACKAGE")>>

\* The providers in two orders, and a workspace where the platform is not indexed.
Backwards(s) == [i \in DOMAIN s |-> s[Len(s) + 1 - i]]
PutOrders == {Platform \o Protos \o Own2, Own2 \o Backwards(Protos) \o Platform, Protos \o Own2}

ImportLines == {All(A), AM, AGrpc, AZio, ABGrpc, BL, All(<<"b">>), BX}
Lines(n) ==
    UNION {{s \in [1 .. k -> ImportLines] : \A i, j \in 1 .. k : i # j => s[i] # s[j]} : k \in 0 .. n}
Extends == {<<>>, <<<<"L">>>>, <<BL, AGrpc, <<"M">>>>, <<BQ>>}

File(n, i, p, e, m) ==
    [filename |-> n, imports |-> i, packages |-> p, extends |-> e, semantic |-> m, defines |-> <<>>]
RuleOf(files, main) ==
    [label |-> "self", importable |-> FALSE, isLibrary |-> TRUE, mainClass |-> main, files |-> files]
ProvidesBX ==
    [RuleOf(<<[File("F", <<>>, <<>>, <<>>, <<>>) EXCEPT !.defines = <<BX>>]>>, <<>>)
        EXCEPT !.importable = TRUE, !.isLibrary = FALSE]

\* One file with up to two import lines, a package and extends clauses; or two files, a
\* semantic import and a main class; or a rule that only provides a name.
MCRules ==
    {RuleOf(<<File("F", i, p, e, <<>>)>>, <<>>) :
        i \in Lines(2), p \in {<<>>, <<<<"b">>>>}, e \in Extends}
    \cup
    {RuleOf(<<File("F", i, <<>>, <<>>, <<AZio>>), File("G", j, <<>>, <<>>, <<>>)>>, <<AGrpc>>) :
        i \in Lines(1), j \in Lines(1)}
    \cup {ProvidesBX}

MCResolvers ==
    {<<>>, <<"scala_grpc_zio", "scala_proto_package">>, <<"scala_proto_package", "preferred_deps">>,
     <<"predefined_label", "scala_grpc_zio">>}

MCNames == {A, AM, AGrpc, AZio, ABGrpc, BL, BX, BQ, <<"b">>, All(A), All(<<"b">>), <<"L">>, <<"M">>, <<"scala", "L">>,
            <<"java", "lang", "S">>}
Linking(links) == [n \in MCNames |-> IF n \in DOMAIN links THEN links[n] ELSE <<>>]

\* No directive; two steps; names linked in a circle.
FewLinks ==
    {Linking(<<>>), Linking(BX :> <<BL, AZio>> @@ BL :> <<AM>>), Linking(BL :> <<AM>> @@ AM :> <<BL>>)}

\* Four names, each linked to at most two that come after it.
Chain == <<BX, BL, AM, AZio>>
LaterThan(n) ==
    {s \in UNION {[1 .. k -> {Chain[j] : j \in 1 .. 4}] : k \in 0 .. 2} :
        \A i \in DOMAIN s : \E j \in n + 1 .. 4 : s[i] = Chain[j]}
AllLinks ==
    {Linking(BX :> x @@ BL :> y @@ AM :> z) : x \in LaterThan(1), y \in LaterThan(2), z \in LaterThan(3)}

MCResolveWith == FewLinks \cup AllLinks

MCSegment == UNION {Elements(n) : n \in MCNames} \cup {"Q"}

MCWorkspaces ==
    [puts : PutOrders, rule : MCRules, resolvers : MCResolvers, resolveWith : FewLinks]
    \cup
    [puts : {Protos \o Own2}, rule : {ProvidesBX}, resolvers : {<<>>}, resolveWith : AllLinks]

MCOverride == (BX :> "other")

\* Wildcards of "b" are fixed, but not in G.
MCFixWildcards ==
    <<[files |-> {"G"}, imports |-> {All(<<"b">>)}, want |-> FALSE],
      [files |-> {"F", "G"}, imports |-> {All(<<"b">>)}, want |-> TRUE]>>
MCFixedTo == [n \in MCNames |-> IF n = All(<<"b">>) THEN <<"L", "Q">> ELSE <<>>]
MCPreferred == (AGrpc :> "zio")
MCZioName == {AZio}
MCServiceName == {AGrpc, ABGrpc}
MCBegins == {<<"a", "ab">>}
MCDirectImports == {}
=============================================================================
