---------------------------- MODULE IndexProviders ----------------------------
(***************************************************************************)
(* The symbols that come from index files rather than from sources: the    *)
(* program mergeindex joins the indexes of jars into one (cmd/mergeindex,  *)
(* pkg/jarindex/merge.go), and at the start of gazelle the providers that  *)
(* -scala_symbol_provider names put into the symbol table what they find:  *)
(* "java" the merged index, "maven" the packages of a lock file and, when  *)
(* rules are resolved, "protobuf" what another extension has generated.    *)
(* Jars of a predefined label need no dependency: mergeindex drops their   *)
(* classes from what other classes refer to, and the java provider puts    *)
(* them without a label.                                                   *)
(*                                                                         *)
(* The maps of the other extension are walked in any order, as Go does.    *)
(***************************************************************************)
EXTENDS TrieScope, SequencesExt

CONSTANTS
    Inputs,       \* lists of jars: [label, filename, packages, classes]
    Flags,        \* the values of mergeindex -predefined, sets of label strings
    ParsedLabel,  \* ParseLabelNonCanonical: label strings to labels, "@@x" and "@x" alike
    Enabled,      \* the values of -scala_symbol_provider, lists of names
    LockFiles,    \* the values of -maven_install_json_file: sequences of [repo, artifacts],
                  \* the first part of the file name ("" if it does not end in
                  \* _install.json) and what it lists, as [from, packages]
    RepoOf,       \* the repositories of the labels
    Provided,     \* what is generated, by kind: sequence of functions from labels to names
    ProtoRules    \* the labels whose name ends in proto_scala_library or grpc_scala_library

JarFile ==
    [label : STRING, filename : STRING, packages : SUBSET Name,
     classes : SUBSET [name : Name, symbols : SUBSET STRING]]
Artifact == [from : Label, packages : SUBSET Name]
LockFile == [repo : STRING, artifacts : Seq(Artifact)]

ASSUME IndexAssumption ==
    /\ ParsedLabel \in [DOMAIN ParsedLabel -> Label] /\ "" \in DOMAIN ParsedLabel
    \* The jars come from one build, in which Bazel writes a label in one way.
    /\ Inputs \subseteq Seq(JarFile)
    /\ \A input \in Inputs : \A i, j \in DOMAIN input :
        /\ input[i].label \in DOMAIN ParsedLabel
        /\ ParsedLabel[input[i].label] = ParsedLabel[input[j].label] => input[i].label = input[j].label
    \* NewResolver makes the labels of the artifacts in the repository of the lock file.
    /\ LockFiles \subseteq Seq(LockFile)
    /\ \A files \in LockFiles : \A i \in DOMAIN files : \A a \in ToSet(files[i].artifacts) :
        files[i].repo # "" => RepoOf[a.from] = files[i].repo
    \* What another extension generates are rules of the workspace, and no jars of an index.
    /\ Len(Provided) \in Nat /\ DOMAIN Provided = 1 .. Len(Provided)
    /\ \A k \in DOMAIN Provided :
        /\ DOMAIN Provided[k] \subseteq Label
        /\ \A input \in Inputs : \A i \in DOMAIN input :
            ParsedLabel[input[i].label] \notin DOMAIN Provided[k]

NoLabel == ParsedLabel[""]
Object == "java.lang.Object"
Known == {"source", "semanticdb", "java", "maven", "protobuf"}

VARIABLES
    indexPhase,   \* where the two programs are
    jars,         \* the jars still to merge or, in gazelle, to read
    index,        \* the merged JarIndex
    seen,         \* mergeindex: labels
    dropped,      \* mergeindex: predefinedSymbols
    predefined,   \* index.Predefined
    names,        \* the providers to set up
    lockFiles,    \* the lock files given, and
    repos,        \* those read: the resolvers of the maven provider
    providers,    \* the providers set up
    scope,        \* globalScope and
    packages,     \* globalPackages: PutSymbol keeps package symbols apart
    byLabel,      \* the jars the java provider can provide
    kind, todo    \* protobuf: the map that is walked and its labels to come

mergeVars == <<index, seen, dropped>>
gazelleVars == <<names, lockFiles, repos, providers, scope, packages, byLabel, kind, todo>>
indexVars == <<indexPhase, jars, predefined, mergeVars, gazelleVars>>

IndexInit ==
    /\ jars \in Inputs /\ predefined \in Flags /\ names \in Enabled /\ lockFiles \in LockFiles
    /\ indexPhase = "merge"
    /\ index = <<>> /\ seen = {} /\ dropped = {Object}
    /\ repos = {} /\ providers = <<>> /\ scope = EmptyTrie /\ packages = EmptyTrie /\ byLabel = {}
    /\ kind = 0 /\ todo = {}

-----------------------------------------------------------------------------
\* visitJarFile: a jar without label or file name is not looked at, but stays in the index.
Accepted(jar) == jar.label # "" /\ jar.filename # ""

ClassNames(jar) == {c.name : c \in jar.classes}

VisitJar(jar) == dropped \cup IF Accepted(jar) /\ jar.label \in predefined THEN ClassNames(jar) ELSE {}

\* Slip: a jar is visited before it turns out to be a duplicate.
VisitThenMerge ==
    /\ indexPhase = "merge" /\ jars # <<>>
    /\ dropped' = VisitJar(Head(jars))
    /\ seen' = seen \cup {Head(jars).label}
    /\ index' = IF Head(jars).label \in seen THEN index ELSE Append(index, Head(jars))
    /\ jars' = Tail(jars)
    /\ UNCHANGED <<indexPhase, predefined, gazelleVars>>

\* Of the jars with one label, the first counts and the others are skipped.
MergeJar ==
    /\ indexPhase = "merge" /\ jars # <<>>
    /\ LET jar == Head(jars) IN
        IF jar.label \in seen
        THEN UNCHANGED mergeVars
        ELSE seen' = seen \cup {jar.label} /\ index' = Append(index, jar) /\ dropped' = VisitJar(jar)
    /\ jars' = Tail(jars)
    /\ UNCHANGED <<indexPhase, predefined, gazelleVars>>

\* Only when every jar was visited is it known what to remove.
Resolvable(jar) ==
    [jar EXCEPT !.classes = {[c EXCEPT !.symbols = @ \ dropped] : c \in @}]

WriteIndex ==
    /\ indexPhase = "merge" /\ jars = <<>>
    /\ index' = [i \in DOMAIN index |-> Resolvable(index[i])]
    /\ indexPhase' = "setup"
    /\ UNCHANGED <<jars, predefined, seen, dropped, gazelleVars>>

-----------------------------------------------------------------------------
\* GetNamedSymbolProviders: one unknown name ends gazelle before any provider is set up.
SetupFails ==
    /\ indexPhase = "setup" /\ providers = <<>> /\ \E i \in DOMAIN names : names[i] \notin Known
    /\ indexPhase' = "fatal"
    /\ UNCHANGED <<jars, predefined, mergeVars, gazelleVars>>

\* The packages that an artifact of the lock file provides.
PutArtifact(trie, artifact) == PutAll(trie, artifact.from, artifact.packages)
PutLockFile(trie, file) == FoldLeft(PutArtifact, trie, file.artifacts)

\* setupSymbolProviders: CheckFlags of the next provider.
SetupNext(name) ==
    /\ indexPhase = "setup" /\ \A i \in DOMAIN names : names[i] \in Known
    /\ names # <<>> /\ Head(names) = name
    /\ names' = Tail(names) /\ providers' = Append(providers, name)

SetupJava ==
    /\ SetupNext("java")
    /\ indexPhase' = "read index" /\ jars' = index
    /\ UNCHANGED <<predefined, mergeVars, lockFiles, repos, scope, packages, byLabel, kind, todo>>

\* loadFile of the lock files one after the other, up to one with another name.
SetupMaven ==
    /\ SetupNext("maven")
    /\ LET bad == SelectInSeq(lockFiles, LAMBDA f : f.repo = "")
           read == IF bad = 0 THEN lockFiles ELSE SubSeq(lockFiles, 1, bad - 1)
       IN /\ packages' = FoldLeft(PutLockFile, packages, read)
          /\ repos' = {f.repo : f \in ToSet(read)}
          /\ indexPhase' = IF bad = 0 THEN "setup" ELSE "fatal"
    /\ UNCHANGED <<jars, predefined, mergeVars, lockFiles, scope, byLabel, kind, todo>>

\* The other providers have nothing to read here.
SetupOther ==
    /\ \E name \in Known \ {"java", "maven"} : SetupNext(name)
    /\ UNCHANGED <<indexPhase, jars, predefined, mergeVars, lockFiles, repos, scope, packages,
                   byLabel, kind, todo>>

\* The labels of one jar: it is known by its label even if it is predefined.
From(jar) ==
    IF \E p \in predefined : ParsedLabel[p] = ParsedLabel[jar.label]
    THEN NoLabel ELSE ParsedLabel[jar.label]

ReadJar ==
    /\ indexPhase = "read index" /\ jars # <<>> /\ Head(jars).filename # ""
    /\ byLabel' = byLabel \cup {ParsedLabel[Head(jars).label]}
    /\ packages' = PutAll(packages, From(Head(jars)), Head(jars).packages)
    /\ scope' = PutAll(scope, From(Head(jars)), ClassNames(Head(jars)))
    /\ jars' = Tail(jars)
    /\ UNCHANGED <<indexPhase, predefined, mergeVars, names, lockFiles, repos, providers, kind, todo>>

\* The reader does not tolerate what the merge only warned about.
ReadPanics ==
    /\ indexPhase = "read index" /\ jars # <<>> /\ Head(jars).filename = ""
    /\ indexPhase' = "fatal"
    /\ UNCHANGED <<jars, predefined, mergeVars, gazelleVars>>

IndexRead ==
    /\ indexPhase = "read index" /\ jars = <<>>
    /\ indexPhase' = "setup"
    /\ UNCHANGED <<jars, predefined, mergeVars, gazelleVars>>

\* OnResolve of the providers: "protobuf" walks its maps, one after the other.
StartResolve ==
    /\ indexPhase = "setup" /\ names = <<>>
    /\ indexPhase' = IF "protobuf" \in ToSet(providers) THEN "protobuf" ELSE "resolve"
    /\ UNCHANGED <<jars, predefined, mergeVars, gazelleVars>>

\* The next map; after the last one the imports are resolved.
WalkKind ==
    /\ indexPhase = "protobuf" /\ todo = {}
    /\ IF kind < Len(Provided)
       THEN kind' = kind + 1 /\ todo' = DOMAIN Provided[kind + 1] /\ UNCHANGED indexPhase
       ELSE indexPhase' = "resolve" /\ UNCHANGED <<kind, todo>>
    /\ UNCHANGED <<jars, predefined, mergeVars, names, lockFiles, repos, providers, scope, packages, byLabel>>

PutProto(from) ==
    /\ indexPhase = "protobuf" /\ from \in todo
    /\ scope' = PutAll(scope, from, Provided[kind][from])
    /\ todo' = todo \ {from}
    /\ UNCHANGED <<indexPhase, jars, predefined, mergeVars, names, lockFiles, repos, providers, packages, byLabel, kind>>

IndexNext ==
    \/ MergeJar \/ WriteIndex
    \/ SetupFails \/ SetupJava \/ SetupMaven \/ SetupOther \/ ReadJar \/ ReadPanics \/ IndexRead
    \/ StartResolve \/ WalkKind \/ \E from \in todo : PutProto(from)

IndexSpec == IndexInit /\ [][IndexNext]_indexVars

-----------------------------------------------------------------------------
\* Does the provider answer for a dependency that is found in a BUILD file?
JavaCanProvide(label) == "java" \in ToSet(providers) /\ label \in byLabel
MavenCanProvide(label) == "maven" \in ToSet(providers) /\ RepoOf[label] \in repos
ProtobufCanProvide(label) == "protobuf" \in ToSet(providers) /\ label \in ProtoRules

-----------------------------------------------------------------------------
\* The classes of an index, before or after symbols were removed.
Merged == {j \in ToSet(index) : Accepted(j)}
PredefinedClasses == {Object} \cup UNION {ClassNames(j) : j \in {k \in Merged : k.label \in predefined}}

\* Two programs treat predefined jars, and the order of jars and providers matters to
\* neither.  In the merged index no class refers to a predefined class any more; and when
\* imports are resolved, each of these classes is known to come without a label, whoever
\* else has it, so that what was dropped never costs a dependency.  Whatever label a
\* symbol has, and that of each jar, predefined or not, is claimed by some provider, so
\* that a dependency on it can be taken back; rules of the other extension only if they
\* are named as usual.
PredefinedNeedsNoDep ==
    /\ indexPhase # "merge" =>
        \A j \in ToSet(index) : \A c \in j.classes : c.symbols \cap PredefinedClasses = {}
    /\ indexPhase = "resolve" /\ "java" \in ToSet(providers) =>
        /\ \A n \in dropped \ {Object} : NoLabel \in LabelsAt(scope, n)
        /\ \A j \in Merged : JavaCanProvide(ParsedLabel[j.label])
    /\ indexPhase = "resolve" =>
        \A n \in Name : \A l \in LabelsAt(scope, n) \cup LabelsAt(packages, n) :
            \/ l = NoLabel
            \/ JavaCanProvide(l) \/ MavenCanProvide(l) \/ ProtobufCanProvide(l)
            \/ \E k \in DOMAIN Provided : l \in DOMAIN Provided[k] \ ProtoRules
=============================================================================
