----------------------------- MODULE ScalaPackage -----------------------------
(***************************************************************************)
(* The packages of a workspace, from their configuration to their resolved *)
(* rules: gazelle's walk calls Configure for a directory before its        *)
(* subdirectories and GenerateRules after them (language/scala/generate.go *)
(* and scala_package.go), then Resolve for the rules of one package after  *)
(* the other, in the order they were generated.                            *)
(*                                                                         *)
(* ScalaConfig has the lists of a configuration; here are its maps: the    *)
(* per-rule configurations (pkg/scalarule/config.go), which are shared by  *)
(* pointer and therefore kept in cells of a heap of their own, and the     *)
(* settings that are copied.  The rules are those of the registered        *)
(* providers: existing scala rules, scala_files and scala_fileset          *)
(* (pkg/scalafiles), and semanticdb_index (pkg/semanticdb).  What resolving*)
(* does to the deps of a scala rule is the subject of RuleImports and      *)
(* RuleDeps.  Before the walk the flags of the command line add to the     *)
(* registry of the providers, and with the walk goes a second language,    *)
(* "files", which makes a package_filegroup of every directory             *)
(* (language/files/files.go).                                              *)
(***************************************************************************)
EXTENDS ScalaConfig, Glob, FiniteSetsExt

CONSTANTS
    ConfigNames,    \* the names of rule configurations, in the order of sort.Strings
    Workspaces      \* the BUILD files a behaviour may start from

SettingParams == {"generate", "keep", "debug", "rewrite"}

\* A directive of a setting, or one of a rule configuration.
Directive ==
    {d \in [name : STRING, param : STRING, want : BOOLEAN, attr : STRING, keyWant : BOOLEAN, value : STRING] :
        d.param \in SettingParams \/ d.name \in ToSet(ConfigNames)}

\* A rule of a BUILD file.
ExistingRule == [name : STRING, kind : STRING, srcs : Expr, kinds : SUBSET STRING]

ASSUME PackageAssumption ==
    /\ ConfigNames \in Seq(STRING) /\ IsInjective(ConfigNames)
    /\ ToSet(Order) = Dir /\ \E root \in Dir : \A d \in Dir : (Parent[d] = d) = (d = root)
    /\ \A w \in Workspaces :
        /\ w.flags \in Seq([fqn : STRING, name : STRING])
        /\ w.lists \in [Dir -> Seq(Intent)] /\ w.rules \in [Dir -> Seq(Directive)]
        /\ \A d \in Dir : w.build[d].existing \in Seq(ExistingRule)
    \* As Bazel demands, the rules of a BUILD file have different names.
    /\ \A w \in Workspaces : \A d \in Dir : \A i, j \in DOMAIN w.build[d].existing :
        w.build[d].existing[i].name = w.build[d].existing[j].name => i = j
    /\ IsFiniteSet(Expr)
    /\ \A globals \in UNION {{w.build[d].globals : d \in Dir} : w \in Workspaces} : Grounded(globals)

\* workspace: [flags, lists, rules : [Dir -> Seq(directive)], build : [Dir -> BUILD
\* file]].  A flag is [fqn, name], both of "load%name", or lacks the % (name "").  A
\* BUILD file is [exists, globals (its assignments), existing (its rules, in order)],
\* with the .scala files of its directory (`regular`) and below it (`tree`), and those
\* that do not parse (`broken`).
VARIABLES
    workspace,
    registry,   \* ["load%kind" -> the Name() of its provider]
    flagNext,   \* index of the -existing_scala_*_rule flag to register
    cells,      \* the scalarule.Configs in memory
    configs,    \* [Dir -> [config name -> index in cells, 0 if none]]
    settings,   \* [Dir -> the scalars and the copied maps of the Config]
    ruleNext,   \* index of the gazelle:scala_rule (or setting) directive to parse
    fatal,      \* did log.Fatalf end the process?
    packages,   \* the generated packages, in order
    visit, resolving, pass, \* the package, rule and pass that Resolve has reached
    filesets,   \* the package global of scala_fileset.go
    filegroupDeps, \* FilesLanguage: the directories that have a filegroup
    filegroups  \* [Dir -> <<>> or the deps of its filegroup]

flagVars == <<registry, flagNext>>
walkVars == <<cells, configs, settings, ruleNext, fatal>>
filegroupVars == <<filegroupDeps, filegroups>>
packageVars == <<workspace, flagVars, filegroupVars, cells, configs, settings, ruleNext, fatal,
                 packages, visit, resolving, pass, filesets>>

Kinds == DOMAIN registry

-----------------------------------------------------------------------------
(***************************************************************************)
(* scalarule.Config and the settings.                                      *)
(***************************************************************************)
NewConfig(name) ==
    [implementation |-> name, enabled |-> TRUE, deps |-> {}, options |-> {}, attrs |-> {}]

With(set, want, x) == IF want THEN set \cup {x} ELSE set \ {x}

\* ParseDirective of a rule configuration; <<>> is an error.  An attr directive that
\* does not want its attribute, or that names no value, drops all that was said of it.
Obeyed(config, d) ==
    LET others == {a \in config.attrs : a.attr # d.attr}
        sameValue == {a \in config.attrs : a.attr = d.attr /\ a.value = d.value}
    IN CASE d.param \in {"dep", "deps"} -> <<[config EXCEPT !.deps = With(@, d.want, d.value)]>>
         [] d.param = "option" -> <<[config EXCEPT !.options = With(@, d.want, d.value)]>>
         [] d.param = "attr" /\ d.want /\ d.value = "" -> <<>>
         [] d.param = "attr" /\ ~d.want -> <<[config EXCEPT !.attrs = others]>>
         [] d.param = "attr" /\ d.want /\ d.value # "" ->
                <<[config EXCEPT !.attrs =
                      (@ \ sameValue) \cup {[attr |-> d.attr, value |-> d.value, want |-> d.keyWant]}]>>
         [] d.param = "implementation" -> <<[config EXCEPT !.implementation = d.value]>>
         [] d.param = "enabled" /\ d.value \in {"true", "false"} ->
                <<[config EXCEPT !.enabled = (d.value = "true")]>>
         [] OTHER -> <<>>

NewSettings ==
    [generateBuildFiles |-> FALSE, keepUnmanagedDeps |-> FALSE, annotations |-> {}, rewrites |-> {}]

\* The debug annotations that are known.
Annotation == {"imports", "exports", "deps", "rule", "dep_label_origin"}

\* The directives of the settings; <<>> is an error.
Bool(value) == value \in {"true", "false"}

ParseGenerateBuildFiles(setting, d) ==
    IF Bool(d.value) THEN <<[setting EXCEPT !.generateBuildFiles = (d.value = "true")]>> ELSE <<>>

ParseKeepUnmanagedDeps(setting, d) ==
    IF Bool(d.value) THEN <<[setting EXCEPT !.keepUnmanagedDeps = (d.value = "true")]>> ELSE <<>>

ParseScalaAnnotation(setting, d) ==
    IF d.value \in Annotation THEN <<[setting EXCEPT !.annotations = With(@, d.want, d.value)]>> ELSE <<>>

\* The last rewrite of a kind counts.  What it rewrites to is some text, after the name
\* if that is wanted.
ParseRewriteName(setting, d) ==
    <<[setting EXCEPT !.rewrites =
          {r \in @ : r.kind # d.attr}
          \cup {[kind |-> d.attr, src |-> d.name, afterName |-> d.want, text |-> d.value]}]>>

Set(setting, d) ==
    CASE d.param = "generate" -> ParseGenerateBuildFiles(setting, d)
      [] d.param = "keep" -> ParseKeepUnmanagedDeps(setting, d)
      [] d.param = "debug" -> ParseScalaAnnotation(setting, d)
      [] d.param = "rewrite" -> ParseRewriteName(setting, d)

\* A slip: the map is copied, what it points to is not.
SharedRules(heap1, refs) == [cells |-> heap1, refs |-> refs]

\* clone: each configuration is cloned into a cell of its own.  (There is a cell for each
\* name, and those of the names without a configuration are never used.)
CloneRules(heap1, refs) ==
    LET copy(n) == IF refs[n] = 0 THEN NewConfig(n) ELSE heap1[refs[n]]
    IN [cells |-> heap1 \o [i \in DOMAIN ConfigNames |-> copy(ConfigNames[i])],
        refs |-> [n \in DOMAIN refs |->
                     IF refs[n] = 0 THEN 0
                     ELSE Len(heap1) + (CHOOSE i \in DOMAIN ConfigNames : ConfigNames[i] = n)]]

NoConfigs == [n \in ToSet(ConfigNames) |-> 0]

-----------------------------------------------------------------------------
(***************************************************************************)
(* The registry of the providers.                                          *)
(***************************************************************************)
AggregatingRule == {"scala_files", "scala_fileset", "semanticdb_index"}

\* The kinds of existing rules that need no flag, those of rules_scala.
ExistingScalaRule == {"scala_binary", "scala_library", "scala_macro_library", "scala_test"}

\* Their "load%kind" goes by the kind alone.
BuiltIn == [kind \in AggregatingRule \cup ExistingScalaRule |-> kind]

-----------------------------------------------------------------------------
(***************************************************************************)
(* The walk.                                                               *)
(***************************************************************************)
PackageInit ==
    /\ workspace \in Workspaces
    /\ directives = workspace.lists /\ ConfigInit
    /\ registry = BuiltIn /\ flagNext = 1
    /\ filegroupDeps = <<>> /\ filegroups = [d \in Dir |-> <<>>]
    /\ cells = <<>>
    /\ configs = [d \in Dir |-> NoConfigs]
    /\ settings = [d \in Dir |-> NewSettings]
    /\ ruleNext = 0
    /\ fatal = FALSE
    /\ packages = <<>>
    /\ visit = 0 /\ resolving = 1 /\ pass = 1
    /\ filesets = <<>>

Alive == ~fatal /\ ~panicked

\* CheckFlags: one more kind of existing rules.  A malformed flag, or a kind that is
\* registered already, built in or by another flag, ends the run.
RegisterExistingRule ==
    /\ Alive
    /\ flagNext <= Len(workspace.flags)
    /\ LET flag == workspace.flags[flagNext]
       IN /\ fatal' = (flag.name = "" \/ flag.fqn \in Kinds)
          /\ registry' = IF fatal' THEN registry ELSE (flag.fqn :> flag.name) @@ registry
    /\ flagNext' = flagNext + 1
    /\ UNCHANGED <<vars, workspace, filegroupVars, cells, configs, settings, ruleNext,
                   packages, visit, resolving, pass, filesets>>

\* Directories that GenerateRules was called for.
Visited == {packages[i].dir : i \in DOMAIN packages}

Ancestors ==
    LET up[n \in 0 .. Len(Order)] ==
            IF n = 0 THEN [d \in Dir |-> {d}]
            ELSE [d \in Dir |-> up[n - 1][d] \cup {Parent[x] : x \in up[n - 1][d]}]
    IN up[Len(Order)]

\* A directory is left, and its rules generated, once all below it were.
MayGenerate(d) ==
    /\ d \in Done \ Visited
    /\ \A x \in Dir : d \in Ancestors[x] /\ x # d => x \in Visited

\* Configure: GetOrCreate, for the lists (ScalaConfig) and the maps at once.
ConfigureDirectory ==
    /\ Alive /\ flagNext > Len(workspace.flags)
    /\ at \in DOMAIN Order => \A x \in Done : ~MayGenerate(x) \/ x \in Ancestors[Order[at]]
    /\ Configure
    /\ LET d == Order[at]
           clone == CloneRules(cells, configs[Parent[d]])
       IN IF Parent[d] = d THEN UNCHANGED <<cells, configs, settings>>
          ELSE /\ cells' = clone.cells
               /\ configs' = [configs EXCEPT ![d] = clone.refs]
               /\ settings' = [settings EXCEPT ![d] = settings[Parent[d]]]
    /\ ruleNext' = 1
    /\ UNCHANGED <<workspace, flagVars, filegroupVars, fatal, packages, visit, resolving, pass, filesets>>

\* ParseDirectives, one directive of a setting or of a rule configuration, which
\* exists from the first directive that names it.
ParseRuleDirective ==
    /\ Alive
    /\ at \in DOMAIN Order /\ next > 0
    /\ LET d == Order[at]
       IN /\ ruleNext <= Len(workspace.rules[d])
          /\ LET directive == workspace.rules[d][ruleNext]
                 isNew == directive.param \notin SettingParams /\ configs[d][directive.name] = 0
                 ref == IF isNew THEN Len(cells) + 1 ELSE configs[d][directive.name]
                 before == IF isNew THEN Append(cells, NewConfig(directive.name)) ELSE cells
                 after == IF directive.param \in SettingParams
                          THEN Set(settings[d], directive) ELSE Obeyed(before[ref], directive)
             IN /\ fatal' = (after = <<>>)
                /\ IF fatal' THEN UNCHANGED <<cells, configs, settings>>
                   ELSE IF directive.param \in SettingParams
                   THEN settings' = [settings EXCEPT ![d] = after[1]] /\ UNCHANGED <<cells, configs>>
                   ELSE /\ cells' = [before EXCEPT ![ref] = after[1]]
                        /\ configs' = [configs EXCEPT ![d][directive.name] = ref]
                        /\ UNCHANGED settings
    /\ ruleNext' = ruleNext + 1
    /\ UNCHANGED <<vars, workspace, flagVars, filegroupVars, packages, visit, resolving, pass, filesets>>

\* ParseDirectives, one intent of a list.
ParseListDirective ==
    /\ Alive /\ ParseDirective
    /\ UNCHANGED packageVars

ConfigureReturns ==
    /\ Alive
    /\ Configured
    /\ ruleNext > Len(workspace.rules[Order[at]])
    /\ UNCHANGED packageVars

-----------------------------------------------------------------------------
(***************************************************************************)
(* GenerateRules.                                                          *)
(***************************************************************************)
ConfigOf(d, name) == cells[configs[d][name]]

\* CollectFilenames: the srcs of a rule in directory d.
CollectFilenames(d, expr) ==
    FromExpr(workspace.build[d].globals, {f.name : f \in workspace.build[d].tree}, expr)

\* LabelNameRewriteSpec.Rewrite: the names that src stands for.
Rewrite(spec, name) ==
    IF spec.src \notin {name, "%{name}"} THEN name
    ELSE IF spec.afterName THEN name \o spec.text ELSE spec.text

\* MaybeRewrite: the name that dependents use for a rule.
Rewritten(d, r) ==
    LET specs == {s \in settings[d].rewrites : s.kind = r.kind}
    IN IF specs = {} THEN r.name ELSE Rewrite(CHOOSE s \in specs : TRUE, r.name)

\* ParseRule: no rule if the sources cannot be collected or one does not parse.  (A
\* rule without .scala sources is not parsed at all.)
ParseRule(pkg, r) ==
    LET srcs == CollectFilenames(pkg.dir, r.srcs)
    IN IF srcs.err \/ srcs.files \cap workspace.build[pkg.dir].broken # {}
       THEN <<>>
       ELSE <<[pkg EXCEPT !.files = @ \cup srcs.files,
                         !.labels = Append(@,
                             [label |-> Rewritten(pkg.dir, r), kind |-> r.kind, files |-> srcs.files,
                              names |-> {f.defines : f \in {x \in workspace.build[pkg.dir].tree :
                                                                x.name \in srcs.files}}])]>>

ContributesToCoverage(name) == name \notin AggregatingRule

Generated(name, config, kind, kinds) ==
    [name |-> name, config |-> config, kind |-> kind, kinds |-> kinds,
     srcs |-> {}, deps |-> {}, deleted |-> FALSE]

\* ProvideRule: the provider of scala_files always makes a rule, the others never.
Provide(pkg, name) ==
    IF registry[ConfigOf(pkg.dir, name).implementation] # "scala_files" THEN pkg
    ELSE [pkg EXCEPT !.gen = Append(@,
            [Generated("scala_files", name, "scala_files", {}) EXCEPT !.srcs = workspace.build[pkg.dir].regular])]

\* ResolveRule of an existing rule: scala_files has none, the aggregating rules are
\* taken as they are, scala rules are parsed.
Resolved(pkg, name, r) ==
    LET provider == registry[r.kind]
        parsed == IF provider \in {"scala_fileset", "semanticdb_index"} THEN <<pkg>>
                  ELSE IF provider = "scala_files" THEN <<>> ELSE ParseRule(pkg, r)
    IN IF parsed = <<>> THEN pkg
       ELSE [parsed[1] EXCEPT !.gen = Append(@, Generated(r.name, name, provider, r.kinds)),
                              !.managed = @ + IF ContributesToCoverage(r.name) THEN 1 ELSE 0]

\* The kinds that existingRulesByFQN has rules of.
ExistingKinds(d) == {r.kind : r \in ToSet(workspace.build[d].existing)}

\* A slip: the rules stay for the next configuration of the same kind.
Keep(kinds, kind) == kinds

\* delete(existingRulesByFQN, rc.Implementation).
Without(kinds, kind) == kinds \ {kind}

\* The configuration `name` takes on the existing rules of a kind.
TakeOn(pkg, name, kind) ==
    FoldLeft(LAMBDA taken, r : IF r.kind = kind THEN Resolved(taken, name, r) ELSE taken,
             pkg, workspace.build[pkg.dir].existing)

IsConfigured(d, name) == configs[d][name] # 0 /\ ConfigOf(d, name).enabled

\* One round of the loop over the configured rules: a disabled one leaves its rules.
GenerateFor(state, name) ==
    LET kind == ConfigOf(state.pkg.dir, name).implementation
        provided == Provide(state.pkg, name)
    IN IF ~IsConfigured(state.pkg.dir, name) THEN state
       ELSE [pkg |-> IF kind \in state.kinds THEN TakeOn(provided, name, kind) ELSE provided,
             kinds |-> Without(state.kinds, kind)]

\* The rules that coverage counts.
Total(d) ==
    Quantify(DOMAIN workspace.build[d].existing,
             LAMBDA i : LET kind == workspace.build[d].existing[i].kind
                        IN kind \in Kinds /\ ContributesToCoverage(registry[kind]))

NewPackage(d) ==
    [dir |-> d, gen |-> <<>>, files |-> {}, labels |-> <<>>, managed |-> 0, total |-> Total(d)]

GeneratedPackage(d) ==
    FoldLeft(GenerateFor, [pkg |-> NewPackage(d), kinds |-> ExistingKinds(d)], ConfigNames).pkg

\* The regular files that gazelle reports include the BUILD file.
HasFiles(d) == workspace.build[d].regular # {} \/ workspace.build[d].exists

\* FilesLanguage.GenerateRules: the root depends on the filegroups that were made so far.
GenerateFilegroup(d) ==
    /\ filegroups' =
        IF ~HasFiles(d) /\ (Parent[d] # d \/ filegroupDeps = <<>>) THEN filegroups
        ELSE [filegroups EXCEPT ![d] = IF Parent[d] = d THEN <<ToSet(filegroupDeps)>> ELSE <<{}>>]
    /\ filegroupDeps' = IF HasFiles(d) /\ Parent[d] # d THEN Append(filegroupDeps, d) ELSE filegroupDeps

\* A directory without a BUILD file gets one only where that was asked for; a
\* configured rule that no provider is registered for ends the run.
GenerateRules ==
    /\ Alive
    /\ next = 0 /\ visit = 0
    /\ \E d \in Dir :
        /\ MayGenerate(d)
        /\ GenerateFilegroup(d)
        /\ LET isPackage == workspace.build[d].exists \/ settings[d].generateBuildFiles
           IN /\ fatal' = (isPackage /\ \E n \in ToSet(ConfigNames) :
                                IsConfigured(d, n) /\ ConfigOf(d, n).implementation \notin Kinds)
              /\ packages' =
                    IF fatal' THEN packages
                    ELSE Append(packages, IF isPackage THEN GeneratedPackage(d) ELSE NewPackage(d))
    /\ UNCHANGED <<vars, workspace, flagVars, cells, configs, settings, ruleNext, visit, resolving, pass, filesets>>

-----------------------------------------------------------------------------
(***************************************************************************)
(* Resolve.                                                                *)
(***************************************************************************)
StartResolving ==
    /\ Alive
    /\ next = 0 /\ visit = 0 /\ Visited = Dir
    /\ visit' = 1
    /\ UNCHANGED <<vars, walkVars, workspace, flagVars, filegroupVars, packages, resolving, pass, filesets>>

Resolving == visit \in DOMAIN packages /\ resolving \in DOMAIN packages[visit].gen

\* The symbol table has one symbol for each name, that of the rule that put it first;
\* the others are its conflicts, which GetSymbols does not return.
OwnsAName(p, i) ==
    \E n \in packages[p].labels[i].names :
        /\ \A j \in 1 .. (i - 1) : n \notin packages[p].labels[j].names
        /\ \A q \in 1 .. (p - 1) : \A l \in ToSet(packages[q].labels) : n \notin l.names

\* The labels, with "_semanticdb" appended, of the symbols of some kinds.
SemanticdbLabels(kinds) ==
    UNION {{<<packages[p].dir, packages[p].labels[i].label>> :
                i \in {j \in DOMAIN packages[p].labels :
                          packages[p].labels[j].kind \in kinds /\ OwnsAName(p, j)}} :
            p \in DOMAIN packages}

\* scala_files adds the files that were parsed for the package, or goes if it has none.
FilesRule(pkg, r) ==
    IF r.srcs \cup pkg.files = {} THEN [r EXCEPT !.deleted = TRUE] ELSE [r EXCEPT !.srcs = @ \cup pkg.files]

\* scala_fileset takes the global list as it is by then.
FilesetRule(r) == [r EXCEPT !.deps = ToSet(filesets)]

SemanticdbIndexRule(r) == [r EXCEPT !.deps = SemanticdbLabels(r.kinds)]

ResolvedRule(pkg, r) ==
    CASE r.kind = "scala_files" -> FilesRule(pkg, r)
      [] r.kind = "scala_fileset" -> FilesetRule(r)
      [] r.kind = "semanticdb_index" -> SemanticdbIndexRule(r)
      [] OTHER -> r

Resolve ==
    /\ Alive
    /\ Resolving
    /\ LET pkg == packages[visit]
           r == ResolvedRule(pkg, pkg.gen[resolving])
       IN /\ packages' = [packages EXCEPT ![visit].gen[resolving] = r]
          /\ filesets' = IF r.kind = "scala_files" /\ ~r.deleted THEN Append(filesets, <<pkg.dir, r.name>>) ELSE filesets
    /\ resolving' = resolving + 1
    /\ UNCHANGED <<vars, walkVars, workspace, flagVars, filegroupVars, visit, pass>>

\* A slip: one pass only.
PassOver == 2

\* The marker of the package is resolved last: Finalize runs all its rules again.
LastPass == 1

Finalize ==
    /\ Alive
    /\ visit \in DOMAIN packages /\ ~Resolving
    /\ resolving' = 1
    /\ IF pass = LastPass THEN pass' = 2 /\ UNCHANGED visit ELSE pass' = 1 /\ visit' = visit + 1
    /\ UNCHANGED <<vars, walkVars, workspace, flagVars, filegroupVars, packages, filesets>>

PackageNext ==
    \/ RegisterExistingRule
    \/ ConfigureDirectory \/ ParseRuleDirective \/ ParseListDirective \/ ConfigureReturns
    \/ GenerateRules \/ StartResolving \/ Resolve \/ Finalize

PackageSpec == PackageInit /\ [][PackageNext]_<<vars, packageVars>>

-----------------------------------------------------------------------------
(***************************************************************************)
(* Properties.                                                             *)
(***************************************************************************)
\* The directives of the directories above one and of the directory itself, in the
\* order of their configuration.
Said ==
    LET said[i \in 0 .. Len(Order)] ==
            IF i = 0 THEN [d \in Dir |-> <<>>]
            ELSE LET d == Order[i]
                 IN [said[i - 1] EXCEPT ![d] =
                        (IF Parent[d] = d THEN <<>> ELSE said[i - 1][Parent[d]]) \o workspace.rules[d]]
    IN said[Len(Order)]

IsSetting(directive) == directive.param \in SettingParams

\* What a directive makes of the settings, or of a configuration; none if it is in error
\* or is about another.
After(old, new) == IF new = <<>> THEN old ELSE new[1]

SettingAfter(setting, directive) ==
    IF IsSetting(directive) THEN After(setting, Set(setting, directive)) ELSE setting

ConfigAfter(name, config, directive) ==
    IF IsSetting(directive) \/ directive.name # name THEN config ELSE After(config, Obeyed(config, directive))

MeantSettings(said) == FoldLeft(SettingAfter, NewSettings, said)

MeantConfig(said, name) ==
    FoldLeft(LAMBDA config, directive : ConfigAfter(name, config, directive), NewConfig(name), said)

\* The settings and the configurations of a directory are those that were said, and it
\* has the configurations that were named.
ConfiguredAs(d, said) ==
    /\ settings[d] = MeantSettings(said)
    /\ \A name \in ToSet(ConfigNames) :
        /\ (configs[d][name] # 0) = (\E i \in DOMAIN said : ~IsSetting(said[i]) /\ said[i].name = name)
        /\ configs[d][name] # 0 => ConfigOf(d, name) = MeantConfig(said, name)

\* Unlike its lists, the rule configurations and the settings of a directory are, from
\* the moment it was configured until its rules are generated and resolved, what its
\* own directives and those of the directories above it say, whatever its siblings and
\* subdirectories said in between.
RulesConfiguredAsMeant == Alive => \A d \in Done : ConfiguredAs(d, Said[d])

\* The existing rules of a package by the configuration that took them on.
TakenOn(pkg, r) == {i \in DOMAIN pkg.gen : pkg.gen[i].name = r.name /\ pkg.gen[i].config # "" /\
                                            pkg.gen[i].kind = registry[r.kind]}

Conventional(d) ==
    \A i \in DOMAIN workspace.build[d].existing :
        LET r == workspace.build[d].existing[i]
        IN /\ r.kind \in Kinds => ContributesToCoverage(r.name) = ContributesToCoverage(registry[r.kind])
           /\ r.name # "scala_files"

\* The files below a directory that Bazel counts as its own.
OwnFiles(d) ==
    {f.name : f \in {x \in workspace.build[d].tree :
        ~\E p \in Ancestors[x.dir] : p # d /\ d \in Ancestors[p] /\ workspace.build[p].exists}}

\* Each existing rule is taken on by one configuration at most, although several may
\* name the same kind: it would be resolved, and its files listed, once for each.  A
\* rule whose srcs are written in the simple way was parsed with the files that Bazel
\* compiles, unless its glob reaches into a package below (glob.go:63 knows of no
\* packages).  Where rules are named by convention, the coverage that is reported never
\* says that more rules are managed than there are.
PackageAccounted ==
    \A p \in DOMAIN packages :
        LET pkg == packages[p]
            existing == workspace.build[pkg.dir].existing
        IN /\ \A i \in DOMAIN existing :
                existing[i].name # "scala_files" /\ existing[i].kind \in Kinds =>
                    Cardinality(TakenOn(pkg, existing[i])) <= 1
           /\ \A l \in ToSet(pkg.labels) : \E i \in DOMAIN existing :
                LET srcs == existing[i].srcs
                    globals == workspace.build[pkg.dir].globals
                    own == OwnFiles(pkg.dir)
                IN /\ l.label = Rewritten(pkg.dir, existing[i])
                   /\ Simple(globals, srcs) =>
                        l.files \cap own = Evaluate(globals, own, srcs).files \cap own
           /\ Conventional(pkg.dir) => pkg.managed <= pkg.total

\* The only rule that defines some name.
OnlyProvider(p, i) ==
    \E n \in packages[p].labels[i].names :
        \A q \in DOMAIN packages : \A j \in DOMAIN packages[q].labels :
            n \in packages[q].labels[j].names => <<q, j>> = <<p, i>>

\* Once all packages are resolved, the aggregating rules of the root are complete: a
\* scala_fileset has every scala_files rule that stays, though its own package may list
\* it before its own files, and those rules name every file that was parsed in their
\* package; the filegroup of the root has those of all directories with files; and a
\* semanticdb_index has every rule of its kinds that alone defines a name,
\* under the name that dependents use.
AggregatesComplete ==
    visit > Len(packages) /\ packages # <<>> =>
        LET kept == UNION {{<<packages[p].dir, packages[p].gen[i].name>> :
                        i \in {j \in DOMAIN packages[p].gen :
                                 packages[p].gen[j].kind = "scala_files" /\ ~packages[p].gen[j].deleted}} :
                        p \in DOMAIN packages}
            root == packages[Len(packages)]
        IN /\ \A i \in DOMAIN root.gen :
                /\ root.gen[i].kind = "scala_fileset" => root.gen[i].deps = kept
                /\ root.gen[i].kind = "semanticdb_index" =>
                    \A p \in DOMAIN packages : \A k \in DOMAIN packages[p].labels :
                        OnlyProvider(p, k) /\ packages[p].labels[k].kind \in root.gen[i].kinds =>
                            <<packages[p].dir, packages[p].labels[k].label>> \in root.gen[i].deps
           /\ \A d \in Dir : HasFiles(d) /\ Parent[d] # d =>
                \A r \in Dir : Parent[r] = r => filegroups[r] # <<>> /\ d \in filegroups[r][1]
           /\ \A p \in DOMAIN packages : \A i \in DOMAIN packages[p].gen :
                packages[p].gen[i].kind = "scala_files" /\ ~packages[p].gen[i].deleted =>
                    packages[p].files \subseteq packages[p].gen[i].srcs
=============================================================================
