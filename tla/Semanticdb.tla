------------------------------ MODULE Semanticdb ------------------------------
(***************************************************************************)
(* The imports that gazelle takes from what the compiler knows of a file.  *)
(* A visitor collects the symbols that a semanticdb document mentions      *)
(* (pkg/semanticdb/visitor.go), semanticdbmerge keeps one document per     *)
(* file in a file set (cmd/semanticdbmerge), and the provider adds the     *)
(* imports of the set to the files that the source provider returns        *)
(* (pkg/provider/semanticdb_provider.go); above it the memo parser         *)
(* returns a rule as it is while its sources have the same digest, also in *)
(* a later run of gazelle that has another file set.                       *)
(*                                                                         *)
(* A file name is the sequence of its path elements; `local`, `package`    *)
(* and `top` of a symbol are what toImport reads off its text: does it     *)
(* begin with "local", does it end in a slash, and what stands before the  *)
(* first # or dot.                                                         *)
(***************************************************************************)
EXTENDS Naturals, Sequences, SequencesExt, Functions

CONSTANTS
    MergeInputs,  \* arguments of semanticdbmerge: sequences of [ext, docs]
    Rules,        \* sequence of [pkg, srcs], the rules of the workspace
    MaxGazelle    \* bound: runs of gazelle

VARIABLES
    setPhase,     \* "merge" or "gazelle"
    args,         \* the arguments still to merge
    allArgs,      \* all of them
    fileSet,      \* file name -> semantic imports, as written to the file set
    memo,         \* rule -> file name -> semantic imports, or no entry
    parsedWith,   \* the arguments behind the file set when the entry was made
    nextRule,     \* the rule to parse
    gazelles      \* runs so far

vars == <<setPhase, args, allArgs, fileSet, memo, parsedWith, nextRule, gazelles>>

-----------------------------------------------------------------------------
\* The visitor: [types, symbols].  The `parts` of a type, a signature or an annotated
\* symbol are its types and scopes in the order in which they are visited.  These kinds
\* of types name a symbol of their own.
Naming == {"TypeRef", "SingleType", "ThisType", "SuperType"}

VisitSymlink(name) == [kind |-> "Symlink", symbol |-> name]

VisitScope(scope) ==
    scope.hardlinks \o [i \in DOMAIN scope.symlinks |-> VisitSymlink(scope.symlinks[i])]

\* Slip: the arguments of a type are forgotten.
VisitNoArguments(node) ==
    CASE node.kind = "Scope" -> VisitScope(node)
      [] node.kind \in Naming \cup {"Symlink"} -> <<>>
      [] OTHER -> node.parts
VisitParts(node) ==
    CASE node.kind = "Scope" -> VisitScope(node)
      [] node.kind = "Symlink" -> <<>>
      [] OTHER -> node.parts

\* Every symbol once.  A declaration that was not visited before counts as a type that
\* is used.
Processed(v, node) == node.kind \in {"Symbol", "Symlink"} /\ node.symbol \in v.symbols

VisitNode(v, node) ==
    CASE node.kind = "Symbol" -> [v EXCEPT !.symbols = @ \cup {node.symbol}]
      [] node.kind \in Naming \cup {"Symlink"} -> [v EXCEPT !.types = @ \cup {node.symbol}]
      [] OTHER -> v

\* The calls that are still to come, the next one first.
RECURSIVE Visit(_, _)
Visit(v, nodes) ==
    IF nodes = <<>> THEN v
    ELSE IF Processed(v, Head(nodes)) THEN Visit(v, Tail(nodes))
    ELSE Visit(VisitNode(v, Head(nodes)), VisitParts(Head(nodes)) \o Tail(nodes))

VisitOccurrence(v, occurrence) ==
    IF occurrence.symbol \in v.symbols \/ occurrence.role # "REFERENCE" THEN v
    ELSE [v EXCEPT !.types = @ \cup {occurrence.symbol}]

VisitTextDocument(doc) ==
    FoldLeft(VisitOccurrence, Visit([types |-> {}, symbols |-> {}], doc.symbols),
             doc.occurrences)

HasImport(symbol) == ~symbol.local /\ ~symbol.package   \* toImport is not empty

SemanticImports(doc) == {s.top : s \in {t \in VisitTextDocument(doc).types : HasImport(t)}}

-----------------------------------------------------------------------------
Init ==
    /\ allArgs \in MergeInputs /\ args = allArgs
    /\ setPhase = "merge" /\ fileSet = <<>>
    /\ memo = <<>> /\ parsedWith = <<>> /\ nextRule = 1 /\ gazelles = 0

\* addDocument and addFile: the first document of a file wins.
AddDocument(files, doc) ==
    IF doc.uri \in DOMAIN files THEN files
    ELSE [u \in DOMAIN files \cup {doc.uri} |->
            IF u = doc.uri THEN SemanticImports(doc) ELSE files[u]]

\* Jars and file sets of earlier merges; other files are passed over.
MergeArgument ==
    /\ setPhase = "merge" /\ args # <<>>
    /\ fileSet' = IF Head(args).ext \in {".jar", ".pb"}
                  THEN FoldLeft(AddDocument, fileSet, Head(args).docs) ELSE fileSet
    /\ args' = Tail(args)
    /\ UNCHANGED <<setPhase, allArgs, memo, parsedWith, nextRule, gazelles>>

StartGazelle ==
    /\ setPhase = "merge" /\ args = <<>> /\ gazelles < MaxGazelle
    /\ setPhase' = "gazelle" /\ nextRule' = 1 /\ gazelles' = gazelles + 1
    /\ UNCHANGED <<args, allArgs, fileSet, memo, parsedWith>>

\* The files of a rule as the source provider returns them, relative to the workspace.
Filenames(rule) == {rule.pkg \o src : src \in rule.srcs}

\* visitFile: the package is put before the name once more.
SetName(rule, filename) == rule.pkg \o filename

Visited(rule) ==
    [f \in Filenames(rule) |->
        IF SetName(rule, f) \in DOMAIN fileSet THEN fileSet[SetName(rule, f)] ELSE {}]

At(f, r, value) == [k \in DOMAIN f \cup {r} |-> IF k = r THEN value ELSE f[k]]

\* A memo miss: the rule is new, or its sources have changed.
ParseScalaRule ==
    /\ setPhase = "gazelle" /\ nextRule \in DOMAIN Rules
    /\ memo' = At(memo, nextRule, Visited(Rules[nextRule]))
    /\ parsedWith' = At(parsedWith, nextRule, allArgs)
    /\ nextRule' = nextRule + 1
    /\ UNCHANGED <<setPhase, args, allArgs, fileSet, gazelles>>

\* A memo hit, from the cache file: the file set is not looked at.
RecallRule ==
    /\ setPhase = "gazelle" /\ nextRule \in DOMAIN memo
    /\ nextRule' = nextRule + 1
    /\ UNCHANGED <<setPhase, args, allArgs, fileSet, memo, parsedWith, gazelles>>

\* Gazelle has ended, what it depends on is compiled anew.
MergeAgain ==
    /\ setPhase = "gazelle" /\ nextRule \notin DOMAIN Rules /\ gazelles < MaxGazelle
    /\ allArgs' \in MergeInputs /\ args' = allArgs'
    /\ setPhase' = "merge" /\ fileSet' = <<>>
    /\ UNCHANGED <<memo, parsedWith, nextRule, gazelles>>

Next == MergeArgument \/ StartGazelle \/ ParseScalaRule \/ RecallRule \/ MergeAgain

-----------------------------------------------------------------------------
\* What a document says, without the walk: everything in it at any depth.
RECURSIVE Within(_)
Within(nodes) ==
    nodes \cup UNION {Within(ToSet(IF n.kind = "Scope" THEN n.hardlinks ELSE n.parts)) : n \in nodes}
Defined(doc) == {n.symbol : n \in {m \in Within(ToSet(doc.symbols)) : m.kind = "Symbol"}}
Mentions(doc) ==
    {n.symbol : n \in {m \in Within(ToSet(doc.symbols)) : m.kind \in Naming}}
    \cup {o.symbol : o \in {p \in ToSet(doc.occurrences) : p.role = "REFERENCE"}}

TopLevels(symbols) == {s.top : s \in {t \in symbols : HasImport(t)}}

\* The document that speaks for a file, among all that were merged.
Documents(arguments) ==
    FlattenSeq([i \in DOMAIN arguments |->
        IF arguments[i].ext \in {".jar", ".pb"} THEN arguments[i].docs ELSE <<>>])
FirstOf(name, docs) ==
    docs[CHOOSE i \in DOMAIN docs :
            docs[i].uri = name /\ \A j \in 1 .. i - 1 : docs[j].uri # name]

\* From the compiler to the rules: whatever a rule has for a file, now or remembered from
\* an earlier run, was said by the first document of that name in the file set of the run
\* that parsed the rule: every name of another file, at any depth of its types, and
\* beyond these only names of its own.  The name is the one visitFile looks up: it is
\* that of the file in the root package, elsewhere it has the package twice
\* (semanticdb_provider.go:153), so that nothing is found.  Symbols of a package that
\* begins with "local" count as local ones.
SemanticImportsTraced ==
    \A r \in DOMAIN memo : \A f \in DOMAIN memo[r] :
        LET docs == Documents(parsedWith[r])
            name == SetName(Rules[r], f)
        IN IF \A i \in DOMAIN docs : docs[i].uri # name
           THEN memo[r][f] = {}
           ELSE LET doc == FirstOf(name, docs) IN
                /\ TopLevels(Mentions(doc) \ Defined(doc)) \subseteq memo[r][f]
                /\ memo[r][f] \subseteq TopLevels(Mentions(doc) \cup Defined(doc))
=============================================================================
