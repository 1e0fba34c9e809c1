--------------------------------- MODULE Glob ---------------------------------
(***************************************************************************)
(* How the srcs of a rule are read from the text of a BUILD file (pkg/glob):*)
(* the file is not evaluated, its expressions are interpreted one by one.  *)
(*                                                                         *)
(* An expression is a record of a `kind`: a "string" has a value, a "list" *)
(* and a "sum" have `of`, a "glob" has `args`, each with a keyword or none, *)
(* an "ident" a name; a "call" of anything else, or "other" syntax, cannot *)
(* be interpreted.  An absent attribute is "nil".                          *)
(***************************************************************************)
EXTENDS Naturals, Sequences, SequencesExt

CONSTANTS
    Expr,     \* the expressions that occur in BUILD files, with their parts
    Matches   \* [pattern -> the file names that it matches], a name matching itself

\* The string literals of a list; items of other kinds are skipped.
StringList(list) == {e.value : e \in {x \in ToSet(list.of) : x.kind = "string"}}

\* The first top-level assignment to the name, if there is one.
ResolveGlobalAssignment(globals, name) ==
    LET assigned == SelectSeq(globals, LAMBDA g : g.name = name)
    IN IF assigned = <<>> THEN [kind |-> "unknown"] ELSE Head(assigned).value

\* A set of strings, or an error, <<>>, unless the name is that of a list.
GlobalStringList(globals, name) ==
    LET value == ResolveGlobalAssignment(globals, name)
    IN IF value.kind = "list" THEN <<StringList(value)>> ELSE <<>>

\* The strings of an argument of glob: lists and names of lists, nothing else.
Strings(globals, expr) ==
    CASE expr.kind = "list" -> StringList(expr)
      [] expr.kind = "ident" /\ GlobalStringList(globals, expr.name) # <<>> ->
            GlobalStringList(globals, expr.name)[1]
      [] OTHER -> {}

\* Parse: positional arguments are patterns, and no keyword counts but `exclude`.
Parse(globals, args, keyword) ==
    UNION {Strings(globals, a.value) : a \in {x \in ToSet(args) : x.keyword = keyword}}

Matched(patterns) == UNION {Matches[p] : p \in patterns}

\* Apply: the files below the directory, in whatever package.
Apply(globals, args, tree) ==
    (tree \cap Matched(Parse(globals, args, ""))) \ Matched(Parse(globals, args, "exclude"))

\* What an expression of each kind comes to, if `from` has it for its parts.  Errors of the
\* parts of a list or of a sum are dropped.
Collected(globals, tree, from, e) ==
    CASE e.kind = "string" -> [files |-> {e.value}, err |-> FALSE]
      [] e.kind \in {"list", "sum"} ->
            [files |-> UNION {from[e.of[i]].files : i \in DOMAIN e.of}, err |-> FALSE]
      [] e.kind = "glob" -> [files |-> Apply(globals, e.args, tree), err |-> FALSE]
      [] e.kind = "ident" ->
            LET list == GlobalStringList(globals, e.name)
            IN [files |-> UNION ToSet(list), err |-> list = <<>>]
      [] e.kind = "nil" -> [files |-> {}, err |-> FALSE]
      [] OTHER -> [files |-> {}, err |-> TRUE]

\* collector.fromExpr: what was collected, and the error.
FromExpr(globals, tree, expr) ==
    LET from[e \in Expr] == Collected(globals, tree, from, e) IN from[expr]

-----------------------------------------------------------------------------
\* What an expression is read from: its parts, or the value of the name that it is.
Needs(globals, e) ==
    CASE e.kind \in {"list", "sum"} -> ToSet(e.of)
      [] e.kind = "glob" -> {a.value : a \in ToSet(e.args)}
      [] e.kind = "ident" /\ ResolveGlobalAssignment(globals, e.name).kind # "unknown" ->
            {ResolveGlobalAssignment(globals, e.name)}
      [] OTHER -> {}

\* Every expression is built in finitely many steps from what it needs: a text is finite,
\* and Starlark knows no name before it is assigned.
Grounded(globals) ==
    LET built[n \in 0 .. Cardinality(Expr)] ==
            IF n = 0 THEN {}
            ELSE LET parts == built[n - 1] IN {e \in Expr : Needs(globals, e) \subseteq parts}
    IN built[Cardinality(Expr)] = Expr

\* What Bazel makes of the same text: names are looked up wherever they occur, a
\* parameter may be given with or without its keyword, and a glob ends at the packages
\* below.  `own` are the files of the package; [known, files].
Argument(value, args, keyword, position) ==
    LET given == {i \in DOMAIN args :
                      args[i].keyword = keyword \/ (i = position /\ args[i].keyword = "")}
    IN IF given = {} THEN [known |-> TRUE, files |-> {}]
       ELSE value[args[CHOOSE i \in given : TRUE].value]

Evaluated(globals, own, value, e) ==
    CASE e.kind = "string" -> [known |-> TRUE, files |-> {e.value}]
      [] e.kind \in {"list", "sum"} ->
            [known |-> \A x \in ToSet(e.of) : value[x].known, files |-> UNION {value[x].files : x \in ToSet(e.of)}]
      [] e.kind = "glob" ->
            LET include == Argument(value, e.args, "include", 1)
                exclude == Argument(value, e.args, "exclude", 2)
            IN [known |-> include.known /\ exclude.known,
                files |-> (own \cap Matched(include.files)) \ Matched(exclude.files)]
      [] e.kind = "ident" /\ ResolveGlobalAssignment(globals, e.name).kind # "unknown" ->
            value[ResolveGlobalAssignment(globals, e.name)]
      [] e.kind = "nil" -> [known |-> TRUE, files |-> {}]
      [] OTHER -> [known |-> FALSE, files |-> {}]

Evaluate(globals, own, expr) ==
    LET value[e \in Expr] == Evaluated(globals, own, value, e) IN value[expr]

\* The text is of the simple kind that the code means to support: sums of lists, names
\* of lists and globs with a list or the name of one.
Literal(expr) == expr.kind = "list" /\ \A e \in ToSet(expr.of) : e.kind = "string"
Simple(globals, expr) ==
    LET IsList(e) == Literal(e) \/ (e.kind = "ident" /\ Literal(ResolveGlobalAssignment(globals, e.name)))
        IsTerm(e) ==
            \/ IsList(e)
            \/ /\ e.kind = "glob"
               /\ \A i, j \in DOMAIN e.args : e.args[i].keyword = e.args[j].keyword => i = j
               /\ \A i \in DOMAIN e.args :
                    /\ IsList(e.args[i].value)
                    /\ (e.args[i].keyword = "" /\ i = 1) \/ e.args[i].keyword = "exclude"
    IN expr.kind = "nil" \/ IsTerm(expr) \/ (expr.kind = "sum" /\ \A e \in ToSet(expr.of) : IsTerm(e))
=============================================================================
