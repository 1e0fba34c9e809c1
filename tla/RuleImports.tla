------------------------------ MODULE RuleImports ------------------------------
(***************************************************************************)
(* From the files of a rule to its labels: language/scala/scala_rule.go    *)
(* with the import map of pkg/resolver/{import,import_map}.go.             *)
(*                                                                         *)
(* Resolving a rule collects its imports file by file, adds the implicit   *)
(* ones (the work list is ImplicitImports), resolves the imports in the    *)
(* order they were put and settles conflicts between providers, and then   *)
(* does the same, without settling, for what a library exports.            *)
(*                                                                         *)
(* Not told apart: the kind of an import, which only shows in comments.    *)
(***************************************************************************)
EXTENDS ImplicitImports, ConflictResolvers, SequencesExt

CONSTANTS
    Segment,    \* the parts of names between dots
    Workspaces, \* [puts, rule, resolvers, resolveWith]: the symbols the providers put,
                \* the rule to resolve, its conflict resolvers and resolve_with directives
    Override,   \* [some names -> label]: gazelle:resolve
    FixWildcards, \* gazelle:scala_fix_wildcard_imports, [files, imports, want] with
                \* the file names and the imports that the patterns match
    FixedTo     \* [imports -> the names the fixer finds, if they are wildcards]

\* A symbol as a provider puts it.
PlainSymbol == [name : Imp, label : STRING, type : STRING, conflicts : {<<>>}]
SourceFile ==
    [filename : STRING, imports : Seq(Imp), packages : Seq(Imp), extends : Seq(Imp),
     semantic : Seq(Imp), defines : Seq(Imp)]
ScalaRule ==
    [label : STRING, importable : BOOLEAN, isLibrary : BOOLEAN, mainClass : Seq(Imp),
     files : Seq(SourceFile)]
Resolver == {"scala_grpc_zio", "scala_proto_package", "predefined_label", "preferred_deps"}

\* Scala reserves the names of the root package and of the wildcard.
IsSymbolName(name) == "_root_" \notin Elements(name) /\ Last(name) # "_"

ASSUME RuleImportsAssumption ==
    /\ Imp \subseteq Seq(Segment) \ {<<>>} /\ Builtin \subseteq Seq(Segment)
    /\ Workspaces \subseteq
        [puts : Seq(PlainSymbol), rule : ScalaRule, resolvers : Seq(Resolver), resolveWith : ResolveWith]
    /\ \A w \in Workspaces : \A i \in DOMAIN w.puts : IsSymbolName(w.puts[i].name)
    /\ FixedTo \in [Imp -> Seq(Segment)]
    \* No name ends in _grpc_scala_library and in one of the other suffixes.
    /\ GrpcLabel \cap (ZioLabel \cup ProtoLabel) = {}

VARIABLES
    globalScope,  \* symbols by name
    packages,     \* scalaLang.globalPackages: the symbols of type PACKAGE
    rule,         \* [label, importable, isLibrary, mainClass, files]
    resolvers,    \* the conflict resolvers in effect, in their order
    phase,        \* "gather", "implicit", "resolve", "export" or "done"
    importMap,    \* OrderedImportMap: [imp, sym, error] in the order they were put
    fileMap,      \* what the files put into it, as it was then (for the properties)
    at,           \* the import the loop of ResolveImports is at
    exportMap     \* the imports of ResolveExports

ruleVars == <<globalScope, packages, rule, resolvers, phase, importMap, fileMap, at, exportMap>>

-----------------------------------------------------------------------------
(***************************************************************************)
(* The symbol table: scalaLang.PutSymbol for every symbol of the providers.*)
(***************************************************************************)
PutClass(trie, sym) == IF sym.type = "PACKAGE" THEN trie ELSE PutAs(trie, sym.name, sym)
PutPackage(trie, sym) == IF sym.type = "PACKAGE" THEN PutAs(trie, sym.name, sym) ELSE trie

GetSymbol(name) == ScalaLookUp(globalScope, name)

-----------------------------------------------------------------------------
(***************************************************************************)
(* The import map.                                                         *)
(***************************************************************************)
Import(name, found) == [imp |-> name, sym |-> found, error |-> FALSE]

Keys(map) == [i \in DOMAIN map |-> map[i].imp]

\* OrderedImportMap.Put: the first import that is put under a name stays.
Put(map, import) ==
    IF import.imp \in Elements(Keys(map)) THEN map ELSE Append(map, import)

\* PutImportIfNotSelf: what the rule provides itself is not imported.  Labels are those of
\* the main repository; under a label with a repository nothing counts as its own.
PutIfNotSelf(map, import) ==
    IF \E s \in import.sym : s.label = rule.label THEN map ELSE Put(map, import)

PutAllIfNotSelf(map, new) == FoldLeft(PutIfNotSelf, map, new)

\* A symbol that is not known imports nothing.
PutIfKnown(map, found) ==
    IF found = {} THEN map ELSE PutIfNotSelf(map, Import(Only(found).name, found))

-----------------------------------------------------------------------------
(***************************************************************************)
(* scalaRule.fileImports.  gathered is [map, scopes, direct]: the imports  *)
(* so far, the scopes of wildcards and packages, and the explicit imports  *)
(* under the last segments of their names.                                 *)
(***************************************************************************)
IsWildcard(name) == Len(name) > 1 /\ name[Len(name)] = "_"

\* The name of the symbol that was found, or the name that was looked for.
FoundAs(name, found) ==
    Import(IF found = {} THEN name ELSE Only(found).name, found)

\* The first directive that matches the file and the import decides.
ShouldFixWildcardImport(file, name) ==
    LET hits == SelectSeq(FixWildcards, LAMBDA f : file.filename \in f.files /\ name \in f.imports)
    IN hits # <<>> /\ Head(hits).want

\* A wildcard import to be fixed imports the names the fixer found, if known; every
\* wildcard import also imports its package and opens its scope.
WildcardImport(file, gathered, name) ==
    LET prefix == Front(name)
        fixed == IF ShouldFixWildcardImport(file, name) THEN FixedTo[name] ELSE <<>>
        named == [i \in DOMAIN fixed |-> GetSymbol(Append(prefix, fixed[i]))]
    IN [gathered EXCEPT
          !.map = PutIfNotSelf(FoldLeft(PutIfKnown, @, named), FoundAs(name, GetSymbol(name))),
          !.scopes = @ \o SetToSeq(ScalaScopeAt(globalScope, prefix))]

DirectImport(gathered, name) ==
    LET found == GetSymbol(name)
    IN [gathered EXCEPT
          !.map = PutIfNotSelf(@, Import(name, found)),
          !.direct = IF found = {} THEN @ ELSE PutAs(@, <<Last(name)>>, Only(found))]

ImportLine(file, gathered, name) ==
    IF IsWildcard(name) THEN WildcardImport(file, gathered, name) ELSE DirectImport(gathered, name)

PackageScope(gathered, name) ==
    [gathered EXCEPT !.scopes = @ \o SetToSeq(ScalaScopeAt(globalScope, name))]

OuterOnly(gathered, name) == GetSymbol(name)

\* The scope of a file: wildcards, packages, the global scope, explicit imports.
FileLookUp(gathered, name) ==
    FirstAnswer([i \in DOMAIN gathered.scopes |-> LookUp(gathered.scopes[i], name)]
                \o <<GetSymbol(name), LookUp(gathered.direct, name)>>)

NoExtendsImports(gathered, file) == <<>>

\* The symbols that the extends clauses of a file name, in the order of the clauses.
ExtendsImports(gathered, file) ==
    [i \in DOMAIN file.extends |-> FileLookUp(gathered, file.extends[i])]

FileImports(map, file) ==
    LET empty == [map |-> map, scopes |-> <<>>, direct |-> EmptyScope]
        lines == FoldLeft(LAMBDA gathered, name : ImportLine(file, gathered, name), empty, file.imports)
        all == FoldLeft(PackageScope, lines, file.packages)
    IN FoldLeft(PutIfKnown, all.map, ExtendsImports(all, file))

FileSemanticImports(map, file) ==
    PutAllIfNotSelf(map,
        [i \in DOMAIN file.semantic |-> Import(file.semantic[i], GetSymbol(file.semantic[i]))])

\* The names that other rules can import from this one, if they can import it at all.
Provides ==
    IF rule.importable
    THEN SetToSeq(UNION {Elements(rule.files[i].defines) : i \in DOMAIN rule.files})
    ELSE <<>>

DirectMap ==
    LET main == [i \in DOMAIN rule.mainClass |-> Import(rule.mainClass[i], {})]
    IN FoldLeft(FileSemanticImports, FoldLeft(FileImports, main, rule.files), rule.files)

-----------------------------------------------------------------------------
(***************************************************************************)
(* Resolving a rule.                                                       *)
(***************************************************************************)
RuleInit ==
    /\ \E w \in Workspaces :
        /\ globalScope = FoldLeft(PutClass, EmptyScope, w.puts)
        /\ packages = FoldLeft(PutPackage, EmptyScope, w.puts)
        /\ rule = w.rule
        /\ resolvers = w.resolvers
        /\ resolveWith = w.resolveWith
    /\ direct = [imports |-> <<>>, provides |-> <<>>]
    /\ required = <<>> /\ implicit = {}
    /\ phase = "gather"
    /\ importMap = <<>> /\ fileMap = <<>> /\ at = 1 /\ exportMap = <<>>

\* scalaRule.Imports up to the work list, which starts with what was imported and with
\* what the rule provides.
GatherDirect ==
    /\ phase = "gather"
    /\ phase' = "implicit"
    /\ importMap' = DirectMap /\ fileMap' = importMap'
    /\ direct' = [imports |-> Keys(importMap'), provides |-> Provides]
    /\ required' = Keys(importMap') \o Provides
    /\ UNCHANGED <<resolveWith, implicit, globalScope, packages, rule, resolvers, at, exportMap>>

\* The work list: what it adds to the map has no symbol yet.
GatherOne ==
    /\ phase = "implicit"
    /\ GatherImplicit
    /\ LET deps == resolveWith[required[Len(required)]]
       IN importMap' = FoldLeft(Put, importMap, [i \in DOMAIN deps |-> Import(deps[i], {})])
    /\ UNCHANGED <<globalScope, packages, rule, resolvers, phase, fileMap, at, exportMap>>

Gathered ==
    /\ phase = "implicit"
    /\ required = <<>>
    /\ phase' = "resolve"
    /\ UNCHANGED <<vars, globalScope, packages, rule, resolvers, importMap, fileMap, at, exportMap>>

\* ScalaSymbolResolver: without the leading _root_ and the trailing wildcard.
Trimmed(name) ==
    LET n == TrimRoot(name) IN IF IsWildcard(n) THEN Front(n) ELSE n

OverrideSymbol(name) ==
    IF name \in DOMAIN Override
    THEN {[name |-> name, label |-> Override[name], type |-> "OVERRIDE", conflicts |-> <<>>]}
    ELSE {}

\* The resolver chain, see SymbolResolver: override, scope, packages.
ResolveSymbol(name) ==
    FirstAnswer(<<OverrideSymbol(Trimmed(name)), GetSymbol(Trimmed(name)),
                  LookUp(packages, Trimmed(name))>>)

SettledByEarlier(map, found) ==
    LET answer == UNION {ResolveConflict(resolvers, SubSeq(map, 1, at), s) :
                            s \in {f \in found : f.conflicts # <<>>}}
    IN IF answer = {} THEN found ELSE answer

\* A conflict that no resolver settles is reported and the symbol kept as it is.
Settled(map, found) ==
    LET answer == UNION {ResolveConflict(resolvers, map, s) :
                            s \in {f \in found : f.conflicts # <<>>}}
    IN IF answer = {} THEN found ELSE answer

\* One turn of the loop in ResolveImports.
ResolveImport ==
    /\ phase = "resolve"
    /\ at \in DOMAIN importMap
    /\ LET found == ResolveSymbol(importMap[at].imp)
           map == [importMap EXCEPT ![at].sym = IF found = {} THEN @ ELSE found,
                                    ![at].error = found = {}]
       IN importMap' = [map EXCEPT ![at].sym = Settled(map, @)]
    /\ at' = at + 1
    /\ UNCHANGED <<vars, globalScope, packages, rule, resolvers, phase, fileMap, exportMap>>

ImportsDone ==
    /\ phase = "resolve"
    /\ at \notin DOMAIN importMap
    /\ phase' = IF rule.isLibrary THEN "export" ELSE "done"
    /\ UNCHANGED <<vars, globalScope, packages, rule, resolvers, importMap, fileMap, at, exportMap>>

\* scalaRule.fileExports: what an extends clause names in the global scope, unless it
\* has conflicts; what is not known there is exported without a symbol.
PutExport(map, name) ==
    IF \E s \in GetSymbol(name) : s.conflicts # <<>>
    THEN map
    ELSE PutIfNotSelf(map, FoundAs(name, GetSymbol(name)))

FileExports(map, file) == FoldLeft(PutExport, map, file.extends)

\* ResolveExports takes the symbol of the chain as it is.
ResolveExports ==
    /\ phase = "export"
    /\ exportMap' =
        LET map == FoldLeft(FileExports, <<>>, rule.files)
        IN [i \in DOMAIN map |->
               LET found == ResolveSymbol(map[i].imp)
               IN [map[i] EXCEPT !.sym = IF found = {} THEN @ ELSE found,
                                 !.error = found = {}]]
    /\ phase' = "done"
    /\ UNCHANGED <<vars, globalScope, packages, rule, resolvers, importMap, fileMap, at>>

\* OrderedImportMap.Deps: neither the rule itself nor what the platform provides.
Deps(map) ==
    {s.label : s \in UNION {map[i].sym : i \in {j \in DOMAIN map : ~map[j].error}}}
        \ {NoLabel, rule.label}

Step == GatherDirect \/ GatherOne \/ Gathered \/ ResolveImport \/ ImportsDone \/ ResolveExports

RuleSpec == RuleInit /\ [][Step]_<<vars, ruleVars>>

\* The work list is the one loop whose end is not in sight: it is taken on, and left.
FairRuleSpec == RuleSpec /\ WF_<<vars, ruleVars>>(GatherOne \/ Gathered)
-----------------------------------------------------------------------------
(***************************************************************************)
(* Properties.                                                             *)
(***************************************************************************)

Resolved == phase \in {"export", "done"}

Own == {rule.label, NoLabel}

Overridden(name) == Trimmed(name) \in DOMAIN Override

\* What Scala binds a simple name in a file to: an explicit import, else a member of
\* a wildcard import, else of the package, else a name known everywhere.
Binding(file, name) ==
    LET explicit == {i \in Elements(file.imports) : ~IsWildcard(i) /\ Last(i) = name}
        opened == {Front(i) : i \in {j \in Elements(file.imports) : IsWildcard(j)}}
        Members(qualifiers) ==
            {s \in UNION {GetSymbol(Append(q, name)) : q \in qualifiers} :
                \E q \in qualifiers : s.name = Append(q, name)}
    IN FirstAnswer(<<UNION {GetSymbol(i) : i \in explicit}, Members(opened),
                     Members(Elements(file.packages)), GetSymbol(<<name>>)>>)

\* The label behind every import line of the files is in the deps once the imports are
\* resolved.  Conflicts and overrides choose another label.
ImportsAreDeps ==
    Resolved =>
        \A file \in Elements(rule.files) : \A i \in {j \in Elements(file.imports) : ~Overridden(j)} :
            \A s \in GetSymbol(i) :
                s.conflicts = <<>> /\ ~Overridden(s.name) => s.label \in Deps(importMap) \cup Own

\* So is the label behind every name of an extends clause as Scala would bind it,
\* whatever else the scopes of the file know.
ExtendsAreDeps ==
    Resolved =>
        \A file \in Elements(rule.files) : \A e \in {x \in Elements(file.extends) : Len(x) = 1} :
            \A s \in Binding(file, e[1]) :
                s.conflicts = <<>> /\ ~Overridden(s.name) => s.label \in Deps(importMap) \cup Own

\* A rule depends on what its files use: "imports that are named in the source files"
\* (README.md:64).
UsesAreDeps == ImportsAreDeps /\ ExtendsAreDeps

\* What other imports of the files come to both before and after the loop.
Steady(i, sym) ==
    (UNION {fileMap[j].sym \cap importMap[j].sym : j \in {k \in DOMAIN fileMap : k # i /\ ~importMap[k].error}})
        \ {sym}

First(resolver) == resolvers # <<>> /\ resolvers[1] = resolver

ZioDecides(i, s, chosen) ==
    First("scala_grpc_zio") /\ FirstOf(s, GrpcLabel) # {} /\ FirstOf(s, ZioLabel) # {} =>
        /\ (\E o \in Steady(i, s) : o.type = "PROTO_SERVICE" /\ o.name \in ZioName)
           => chosen \in ZioLabel
        /\ chosen \in ZioLabel => UsesZio(importMap, s) \/ UsesZio(fileMap, s)

IsPackageOfTwo(s) ==
    s.type = "PROTO_PACKAGE" /\ Len(s.conflicts) = 1 /\ s.conflicts[1].type = "PROTO_PACKAGE"

\* A service of the package is used, or one of another package that has the name of
\* this one at the beginning of its own, as p.foobar has that of p.foo.
UsesService(map, s) == \E o \in Others(map, s) : IsPrefixOf(s.name, o.name) /\ o.name \in ServiceName

UsesLookAlike(map, s) ==
    \E o \in Others(map, s) :
        HasTextPrefix(o.name, s.name) /\ ~IsPrefixOf(s.name, o.name) /\ o.name \in ServiceName

GrpcDecides(i, s, chosen) ==
    First("scala_proto_package") /\ IsPackageOfTwo(s)
    /\ FirstOf(s, GrpcLabel) # {} /\ FirstOf(s, ProtoLabel) # {} =>
        /\ (\E o \in Steady(i, s) : IsPrefixOf(s.name, o.name) /\ o.name \in ServiceName)
           => chosen \in GrpcLabel
        /\ chosen \in GrpcLabel /\ ~UsesLookAlike(importMap, s) /\ ~UsesLookAlike(fileMap, s)
           => UsesService(importMap, s) \/ UsesService(fileMap, s)

\* Where a symbol has a grpc and a zio provider, or a package a proto and a grpc one,
\* the use the files make of services decides, wherever in the rule it is found: a use
\* in any file is noticed, and no label is chosen for a use that is neither in the files
\* nor in what their imports are resolved to (overrides and other conflicts change it).
\* The one exception is a service of a package that looks like the package: the code
\* compares texts (scala_proto_package_conflict_resolver.go:88) and takes it for "grpc-like
\* symbols from the conflicting rule" (line 57).
UseDecides ==
    Resolved =>
        \A i \in DOMAIN importMap :
            \A s \in {f \in ResolveSymbol(importMap[i].imp) : f.conflicts # <<>>} :
                LET chosen == Only(importMap[i].sym).label
                IN ZioDecides(i, s, chosen) /\ GrpcDecides(i, s, chosen)

\* No scope of the file comes between a name and the global scope.
Unhidden(file, name) ==
    /\ \A i \in DOMAIN file.packages :
         \A s \in ScalaScopeAt(globalScope, file.packages[i]) : LookUp(s, name) = {}
    /\ \A i \in {j \in Elements(file.imports) : IsWildcard(j)} :
         \A s \in ScalaScopeAt(globalScope, Front(i)) : LookUp(s, name) = {}

\* A library exports nothing it does not depend on: fileExports looks names up in the
\* global scope alone and fileImports in the scopes of the file, so both must come to
\* the same symbol where the global scope knows the name and nothing in the file hides it.
ExportsAreDeps ==
    phase = "done" =>
        \A i \in {j \in DOMAIN exportMap : ~exportMap[j].error} :
            \/ \A s \in exportMap[i].sym : s.label \in Deps(importMap) \cup Own
            \/ \E file \in Elements(rule.files) : \E e \in Elements(file.extends) :
                   /\ FoundAs(e, GetSymbol(e)).imp = exportMap[i].imp
                   /\ GetSymbol(e) = {} \/ ~Unhidden(file, e)

\* However the imports hang together, the work list empties and the rule goes on to be
\* resolved, unless the list meets a name that is linked to itself.
RuleSettles == (phase = "implicit" /\ Acyclic) ~> (phase = "resolve")
=============================================================================
