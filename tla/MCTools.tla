-------------------------------- MODULE MCTools --------------------------------
(* A small instance of Tools. *)
EXTENDS Tools, TLC

\* The fixer: a file with the wildcard import, with one that a run before commented
\* out, without one, with two, and with a line too long after it and before it.
Code == Line("code", {})
MoreCode == Line("more code", {})
MCTexts ==
    {<<Code, Target, MoreCode>>, <<Code, CommentedTarget, MoreCode>>,
     <<Code, MoreCode>>, <<Target, Code, Target, MoreCode>>,
     <<Target, Code, TooLong, MoreCode>>, <<Code, TooLong, Target>>}

\* autokeep: T comes from the later of two rules, U from the platform, V from nowhere.
MCRuleOf == [t \in KeepTarget |-> IF t = "b" THEN "b" ELSE "a"]
MCCache == <<[label |-> "d1", names |-> {"S", "T"}], [label |-> "d2", names |-> {"T"}]>>
MCTable == ("T" :> "d2") @@ ("U" :> "none") @@ ("W" :> "d3")
MCFiles == {[r \in Rule |-> IF r = "a" THEN <<"d2", "d4">> ELSE <<"d4">>]}

\* The indexes: a duplicate label, a class in two jars, a jar without label and one
\* without a file name; labels that are written with one @ and with two.
Class(name, symbols) == [name |-> name, symbols |-> symbols]
Jar(label, filename, pkgs, classes) ==
    [label |-> label, filename |-> filename, packages |-> pkgs, classes |-> classes]
Jars ==
    {Jar("@@m//:a", "a.jar", {"pa"}, {Class("A", {"P", "B", Object})}),
     Jar("@@m//:p", "p.jar", {"pp"}, {Class("P", {"A", Object})}),
     Jar("@@m//:p", "p2.jar", {"pp"}, {Class("B", {"P"})}),
     Jar("@@m//:b", "b.jar", {"pp", "pa"}, {Class("P", {"B"}), Class("B", {})}),
     Jar("", "x.jar", {}, {Class("A", {"P"})}),
     Jar("@@m//:q", "", {}, {Class("Q", {"P"})})}
MCInputs == UNION {{s \in [1 .. n -> Jars] : \A i, j \in 1 .. n : s[i] = s[j] => i = j} : n \in 1 .. 3}
MCFlags == {{}, {"@@m//:p"}, {"@m//:b"}, {"@@m//:p", "@@m//:q"}}
MCParsedLabel ==
    ("" :> "none") @@ ("@@m//:a" :> "a") @@ ("@@m//:p" :> "p") @@ ("@@m//:q" :> "q")
    @@ ("@@m//:b" :> "b") @@ ("@m//:b" :> "b")
MCEnabled ==
    {<<"java", "maven", "protobuf">>, <<"protobuf", "maven", "java">>,
     <<"maven">>, <<"maven", "nope">>}
M1 == [repo |-> "maven", artifacts |-> <<[from |-> "m1", packages |-> {"pp", "pm"}]>>]
M2 == [repo |-> "other", artifacts |-> <<[from |-> "m2", packages |-> {"pm"}]>>]
MCLockFiles == {<<M1, M2>>, <<M2, [M1 EXCEPT !.repo = ""]>>}
MCRepoOf == [l \in {"none", "a", "b", "p", "q", "g1", "g2", "odd", "m1", "m2"} |->
                CASE l = "m1" -> "maven" [] l = "m2" -> "other" [] OTHER -> ""]
MCProvided == <<[l \in {"g1", "g2"} |-> {"B"}], ("g2" :> {"G"}) @@ ("odd" :> {"G", "P"})>>

\* semanticdb: nested types, a structural type that declares a member, links, symbols
\* that are local, look local or are packages; two documents for one file, and files of
\* the root package and below it.
Sym(name, top) == [name |-> name, local |-> FALSE, package |-> FALSE, top |-> top]
A == Sym("a/A#", "a.A")
Am == Sym("a/A#m().", "a.A")
An == Sym("a/A#n().", "a.A")
B == Sym("b/B#", "b.B")
C == Sym("c/C#D#", "c.C")
E == Sym("e/E.", "e.E")
Loc == [Sym("local0", "") EXCEPT !.local = TRUE]
LocPkg == [Sym("localdb/L#", "localdb.L") EXCEPT !.local = TRUE]
Pkg == [Sym("b/", "b") EXCEPT !.package = TRUE]
Scope(hardlinks, symlinks) == [kind |-> "Scope", hardlinks |-> hardlinks, symlinks |-> symlinks]
Type(type, symbol, parts) == [kind |-> type, symbol |-> symbol, parts |-> parts]
Info(symbol, parts) == [kind |-> "Symbol", symbol |-> symbol, parts |-> parts]
Occurrence(symbol, role) == [symbol |-> symbol, role |-> role]
ByName == Type("ByNameType", Pkg, <<Type("TypeRef", C, <<>>)>>)
Member == Info(Am, <<Scope(<<>>, <<An>>), Type("TypeRef", B, <<ByName>>)>>)
Refinement == Scope(<<Info(An, <<Type("ThisType", A, <<>>), Type("TypeRef", Loc, <<>>)>>)>>, <<>>)
Structural == Type("StructuralType", Pkg, <<Type("SingleType", E, <<>>), Refinement>>)
DocF ==
    [uri |-> <<"F">>,
     symbols |-> <<Info(A, <<Structural, Scope(<<>>, <<Am, An>>)>>), Member>>,
     occurrences |-> <<Occurrence(A, "DEFINITION"), Occurrence(An, "REFERENCE"),
                       Occurrence(LocPkg, "REFERENCE"), Occurrence(Pkg, "REFERENCE")>>]
DocF2 == [uri |-> <<"F">>, symbols |-> <<Member>>, occurrences |-> <<Occurrence(E, "REFERENCE")>>]
DocAF == [DocF2 EXCEPT !.uri = <<"a", "F">>, !.occurrences = <<>>]
DocAAF ==
    [uri |-> <<"a", "a", "F">>, symbols |-> <<>>,
     occurrences |-> <<Occurrence(E, "REFERENCE"), Occurrence(B, "DEFINITION")>>]
Arg(ext, docs) == [ext |-> ext, docs |-> docs]
MCMergeInputs ==
    {<<>>,
     <<Arg(".jar", <<DocF, DocAF>>)>>,
     <<Arg(".pb", <<DocF2>>), Arg(".jar", <<DocF, DocAAF>>)>>,
     <<Arg(".srcjar", <<DocF2>>), Arg(".jar", <<DocAAF, DocF>>), Arg(".jar", <<DocAAF, DocF2>>)>>}
MCRules ==
    <<[pkg |-> <<>>, srcs |-> {<<"F">>, <<"G">>}],
      [pkg |-> <<"a">>, srcs |-> {<<"F">>}],
      [pkg |-> <<"a", "a">>, srcs |-> {<<"F">>}]>>
=============================================================================
