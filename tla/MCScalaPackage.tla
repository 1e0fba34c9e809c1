---------------------------- MODULE MCScalaPackage ----------------------------
(***************************************************************************)
(* A root directory, two directories below it and one below the first.     *)
(***************************************************************************)
EXTENDS ScalaPackage

MCDir == {"root", "a", "a/sub", "b"}
MCOrder == <<"root", "a", "a/sub", "b">>
MCParent == [d \in MCDir |-> IF d = "a/sub" THEN "a" ELSE "root"]
MCItem == {"x", "y", "z"}

Adds(items) == [i \in DOMAIN items |-> [want |-> TRUE, item |-> items[i]]]
Some(items, n) == UNION {[1 .. k -> items] : k \in 0 .. n}

\* Any three additions at the root, and at most one in each other directory.
MCAdditions ==
    {[d \in MCDir |-> IF d = "root" THEN Adds(root) ELSE Adds(below[d])] :
        root \in [1 .. 3 -> MCItem], below \in [MCDir -> Some(MCItem, 1)]}

\* Up to four additions at the root, then two directives of any kind in one
\* directory, with repeats.
MCRemovals ==
    {[d \in MCDir |-> IF d = "root" THEN Adds(root) ELSE IF d = "a" THEN below ELSE <<>>] :
        root \in Some(MCItem, 4), below \in Some(Intent, 2)}

MCEither == MCAdditions \cup MCRemovals

\* Three additions at the root, and one in each of two siblings.
MCManyItems == MCItem \cup {"u", "v"}
MCSiblings ==
    {[d \in MCDir |->
        CASE d = "root" -> Adds(<<"x", "y", "z">>)
          [] d = "a" -> Adds(<<"u">>)
          [] d = "b" -> Adds(<<"v">>)
          [] d = "a/sub" -> <<>>]}

-----------------------------------------------------------------------------
\* The configurations are named so that the fileset comes before the files, and two
\* of them may name the same kind.
MCConfigNames == <<"a_set", "b_files", "c_lib", "d_lib", "e_index">>
Line(name, param, want, attr, value) ==
    [name |-> name, param |-> param, want |-> want, attr |-> attr, keyWant |-> TRUE, value |-> value]
Implements(name, kind) == Line(name, "implementation", TRUE, "", kind)

\* What the root says: every configuration its kind, then one directive of some kind.
RootSays == <<Implements("a_set", "scala_fileset"), Implements("b_files", "scala_files"), Implements("c_lib", "scala_library"),
              Implements("e_index", "semanticdb_index")>>

Say ==
    {Implements("d_lib", "scala_library"), Implements("c_lib", "nothing"),
     Line("c_lib", "enabled", TRUE, "", "false"), Line("c_lib", "enabled", TRUE, "", "maybe"),
     Line("b_files", "enabled", TRUE, "", "false"),
     Line("c_lib", "deps", TRUE, "", "x"), Line("c_lib", "deps", FALSE, "", "x"),
     Line("c_lib", "attr", TRUE, "tags", "x"), Line("c_lib", "attr", TRUE, "tags", ""),
     Line("c_lib", "attr", FALSE, "tags", ""),
     [Line("c_lib", "attr", TRUE, "tags", "x") EXCEPT !.keyWant = FALSE],
     Line("c_lib", "option", TRUE, "", "x"), Line("c_lib", "no such parameter", TRUE, "", "x"),
     Line("", "generate", TRUE, "", "true"), Line("", "keep", TRUE, "", "true"),
     Line("", "debug", TRUE, "", "deps"), Line("", "debug", FALSE, "", "deps"),
     Line("%{name}", "rewrite", TRUE, "scala_library", "_lib"),
     Line("a2", "rewrite", FALSE, "scala_library", "lib")}

\* Expressions.
Str(x) == [kind |-> "string", value |-> x]
Strs(names) == [kind |-> "list", of |-> [i \in DOMAIN names |-> Str(names[i])]]
Ident(name) == [kind |-> "ident", name |-> name]
Plus(x, y) == [kind |-> "sum", of |-> <<x, y>>]
Arg(keyword, value) == [keyword |-> keyword, value |-> value]
GlobOf(args) == [kind |-> "glob", args |-> args]
Nil == [kind |-> "nil"]

MCMatches ==
    [p \in {"*", "**", "F", "G", "H", "sub/S"} |->
        CASE p = "*" -> {"F", "G", "H", "S"}
          [] p = "**" -> {"F", "G", "H", "S", "sub/S"}
          [] OTHER -> {p}]

MCGlobals == <<[name |-> "SRCS", value |-> Strs(<<"F", "H">>)], [name |-> "TESTS", value |-> Strs(<<"G">>)],
               [name |-> "NAME", value |-> Str("F")]>>

\* Lists, globs, names and sums; then what cannot be interpreted, alone or as a part.
SomeSrcs ==
    {Strs(<<"F", "G">>), Ident("SRCS"), Nil,
     GlobOf(<<Arg("", Strs(<<"*">>)), Arg("exclude", Strs(<<"G">>))>>),
     GlobOf(<<Arg("", Strs(<<"**">>)), Arg("exclude", Ident("TESTS"))>>),
     GlobOf(<<Arg("", Ident("SRCS"))>>),
     Plus(Strs(<<"F">>), GlobOf(<<Arg("", Strs(<<"**">>)), Arg("exclude", Strs(<<"F", "G">>))>>)),
     Ident("UNKNOWN"), Ident("NAME"), [kind |-> "call"],
     GlobOf(<<Arg("include", Strs(<<"*">>))>>),
     Plus(Strs(<<"G">>), Ident("UNKNOWN")),
     [kind |-> "list", of |-> <<Str("G"), [kind |-> "call"]>>]}

Rule(name, kind, srcs) == [name |-> name, kind |-> kind, srcs |-> srcs, kinds |-> {"scala_library"}]
Lib(name, srcs) == Rule(name, "scala_library", srcs)

File(name, dir, defines) == [name |-> name, dir |-> dir, defines |-> defines]
Files(dir, names) == {File(n, dir, n) : n \in names}

Build(exists, regular, tree, existing, broken) ==
    [exists |-> exists, regular |-> regular, tree |-> tree, existing |-> existing, broken |-> broken,
     globals |-> MCGlobals]

OneLib == Strs(<<"F">>)

\* All these, with their parts and those of the assignments.
Parts(e) ==
    CASE e.kind \in {"list", "sum"} -> ToSet(e.of)
      [] e.kind = "glob" -> {a.value : a \in ToSet(e.args)}
      [] OTHER -> {}
MCExpr ==
    LET within[n \in 0 .. 3] ==
            IF n = 0 THEN SomeSrcs \cup {OneLib, Strs(<<"S">>)} \cup {g.value : g \in ToSet(MCGlobals)}
            ELSE within[n - 1] \cup UNION {Parts(e) : e \in within[n - 1]}
    IN within[3]

\* The root has a fileset, with a name of its own or the conventional one, and an
\* index, "a" has rules of every kind, "a/sub" may have no BUILD file, and "b" no
\* sources.
Builds(inA, broken, subExists, rootFiles, setName) ==
    [d \in MCDir |->
        CASE d = "root" -> Build(TRUE, rootFiles, {}, <<Rule(setName, "scala_fileset", Nil), Rule("index", "semanticdb_index", Nil)>>, {})
          [] d = "a" -> Build(TRUE, {"H"}, Files("a", {"F", "G", "H"}) \cup {File("sub/S", "a/sub", "S")},
                              <<Lib("a1", inA), Lib("a2", OneLib), Rule("scala_fileset", "scala_fileset", Nil),
                                Rule("other", "custom", Ident("SRCS"))>>, broken)
          [] d = "a/sub" -> Build(subExists, {"S"}, Files("a/sub", {"S"}),
                                  IF subExists THEN <<Lib("s", Strs(<<"S">>))>> ELSE <<>>, {})
          [] d = "b" -> Build(TRUE, {}, {}, <<>>, {})]

NoLists == [d \in MCDir |-> <<>>]
NoRules == [d \in MCDir |-> <<>>]

\* One more directive at the root, and one in "a" or "b".
MCRuleSays ==
    {[d \in MCDir |-> CASE d = "root" -> RootSays \o root [] d = where -> below [] OTHER -> <<>>] :
        root \in Some(Say, 1), where \in {"a", "b"}, below \in [1 .. 1 -> Say]}

Usual == Builds(Strs(<<"F", "G">>), {}, TRUE, {"F"}, "scala_fileset")

\* Kinds of rules of one's own: none, a new one, one that is built in, one given twice,
\* one that is malformed.
Flag(fqn, name) == [fqn |-> fqn, name |-> name]
MCFlags == {<<>>, <<Flag("custom", "my_library")>>, <<Flag("scala_library", "my_library")>>, <<Flag("custom", "")>>,
            <<Flag("custom", "my_library"), Flag("custom", "my_test")>>}

MCPackages ==
    {[flags |-> <<>>, lists |-> NoLists, rules |-> rules, build |-> Usual] : rules \in MCRuleSays}
    \cup {[flags |-> flags, lists |-> NoLists, build |-> Usual,
           rules |-> [d \in MCDir |-> IF d = "root" THEN RootSays \o <<Implements("d_lib", "custom")>> ELSE <<>>]] :
             flags \in MCFlags}
    \cup {[flags |-> <<>>, lists |-> NoLists, build |-> build,
           rules |-> [d \in MCDir |-> IF d = "root" THEN RootSays \o <<say>> ELSE <<>>]] :
             say \in {Implements("d_lib", "scala_library"), Line("", "generate", TRUE, "", "true"),
                      Line("c_lib", "enabled", TRUE, "", "false")},
             build \in {Builds(inA, broken, subExists, rootFiles, setName) :
                           inA \in SomeSrcs, broken \in {{}, {"G"}}, subExists \in BOOLEAN,
                           rootFiles \in {{}, {"F"}}, setName \in {"scala_fileset", "all"}}}

Bare == [d \in MCDir |-> Build(TRUE, {}, {}, <<>>, {})]
MCWorkspaces == {[flags |-> <<>>, lists |-> l, rules |-> NoRules, build |-> Bare] : l \in MCEither} \cup MCPackages
MCSiblingWorkspaces == {[flags |-> <<>>, lists |-> l, rules |-> NoRules, build |-> Bare] : l \in MCSiblings}
=============================================================================
