# A TLA+ model of scala-gazelle

scala-gazelle is a gazelle language extension that keeps the `deps` of Scala
rules in Bazel BUILD files up to date. This directory holds TLA+ modules that
follow its Go code, TLC configurations that model-check them on small
instances, and TLAPS proofs for every value of the constants.

* `PROJECT.json` maps every definition to the lines it stands for, and lists
  the runs, the mutants (one plausible bug per property, which must break it),
  the findings, the hazards and the theorems.
* `X.tla` models a component, `MCX.tla` gives it a small instance, `R.cfg` is
  one run, and `X_proofs.tla` has the theorems about `X` and the modules it composes.

```
tlc -config ScalaLangWarm.cfg MCScalaLang      # check one run
tlapm ScalaLang_proofs.tla                     # check the proofs of one module
```

## 1. The system

### 1.1 Parts, state and operations

| part | state | operations | modules |
|---|---|---|---|
| Lifecycle (`language/scala/{flags,generate,resolve,lifecycle,package_marker_rule,scala_package}.go`) | `packages`, `remainingPackages`, `isResolvePhase`, deferred resolve work | `CheckFlags`, `GenerateRules`, `Resolve`, `onResolve`, `onEnd` | `ScalaLang`, `ScalaPackage` |
| Rule cache and memo parser (`cache.go`, `pkg/parser/memo_parser.go`, `pkg/protobuf/io.go`) | `MemoParser.rules`, the cache file and its key | load, digest check, save | `ScalaLang` |
| Symbol table (`pkg/resolver/{trie_scope,symbol}.go`, `pkg/collections/path_trie.go`, `scope.go`) | one symbol per name, with conflicts | `Put`, prefix lookup, `GetScope` | `TrieScope`, `Scopes`; `SymbolTable` as its specification, `ColdRun` |
| Scopes of a file (`pkg/resolver/{scala,chain,trim_prefix}_scope.go`, `scala_rule.go`) | the chain of scopes of each file | `fileImports`, `fileExports` | `Scopes`, `RuleImports` |
| Implicit imports (`scala_rule.go`) | a stack and the import map | the work list of `Imports` | `ImplicitImports`, `RuleImports` |
| Conflict resolvers (`pkg/resolver/*_conflict_resolver.go`) | none; they read the import map | `ResolveConflict` | `ConflictResolvers`, `RuleImports` |
| Resolver chain (`pkg/resolver/*_symbol_resolver.go`) | two memo tables | `ResolveSymbol` | `SymbolResolver` |
| Directory configuration (`pkg/scalaconfig/config.go`, `pkg/scalarule/config.go`) | one `Config` per directory, cloned from its parent, and in it one configuration per rule kind | `Configure`, one parser per directive | `ScalaConfig`, `ScalaPackage` |
| Rule generation (`scala_package.go`, `pkg/scalafiles`, `semanticdb_index.go`, `language/files`, `pkg/glob`, `coverage.go`) | the rules of a package, package-global lists of filesets and filegroups, coverage counts | `GenerateRules`, `ResolveRule`, `Resolve` of each rule kind | `ScalaPackage`, `Glob` |
| Merging of deps and exports (`mergeDeps` and its callers) | the attribute, the tags, `_unmanaged_deps` | `ruleAttrMergeDeps`, twice per run | `RuleDeps` |
| Parser client (`pkg/parser/scalameta_parser.go`) | command, process, HTTP client, URL | `Start`, `Stop`, `IsRunning`, `Parse` | `ScalametaParser` |
| Source provider (`pkg/provider/source_provider.go`) | its lazily created parser, pre-parsed files | `ParseScalaRule`, `OnResolve` | `SourceParser`, `ParserClients` |
| `scalafileextract` worker | the request loop | read, start, parse with retries, respond | `ExtractWorker`, `ParserClients` |
| Other providers (`pkg/provider/{java,maven,protobuf,semanticdb}_provider.go`, `pkg/maven`) | what they read from index files | `CheckFlags`, `OnResolve`, `CanProvide`, `ParseScalaRule` | `IndexProviders`, `Semanticdb` |
| Index tools (`cmd/mergeindex`, `pkg/jarindex`, `cmd/semanticdbmerge`, `pkg/semanticdb`) | the index being merged | merge | `IndexProviders`, `Semanticdb` |
| Wildcard import fixer (`pkg/wildcardimport`) | the file on disk, the names found | write, build, scan | `WildcardFixer` |
| autokeep (`pkg/autokeep`, `cmd/autokeep`) | diagnostics, deltas, BUILD files | scan, look up, apply | `AutoKeep` |

### 1.2 How they interact

A gazelle process loads the cache (`CheckFlags`), which publishes the symbols of
every cached rule; visits the directories (`Configure`, then `GenerateRules`,
which hashes the sources of each rule and takes the cached rule or calls the
source provider, which may start the parser process); and then resolves every
generated rule. The first `Resolve` stops the parser and writes the cache. Each
package returns a *marker rule* last, whose resolution resolves all the rules of
the package a second time and counts the package down; at zero, `onEnd` runs.
To resolve a rule, its files are read with their scopes: each import, extends clause
and semantic import is looked up, the implicit imports are added, conflicts between
providers are settled by looking at the other imports, what is left goes through the
resolver chain, and the labels found are merged into `deps` and `exports`.

Before the walk the symbol providers of the flags put what they read from index files;
when rules are resolved, the protobuf provider adds what another extension generated.
Beside gazelle there are programs that share files with it: `mergeindex` and
`semanticdbmerge` write the index files, `scalafileextract` the pre-parsed files,
`autokeep` edits the deps after a build from the maps that gazelle wrote, and the
wildcard fixer, which gazelle also calls itself, edits a source file.

The gazelle process is sequential. Concurrency comes from the node process and
the goroutine that waits for it, from the user, who edits the workspace while
gazelle runs, and from kills. What makes the rest hard is the order of callbacks,
state that outlives what it was computed from (cache, memo tables, shared
arrays), and being called twice with one's own output.

### 1.3 What makes the parts correct

* Lifecycle: `onEnd` exactly once and last; the second pass of a package after its
  first; no symbol of the workspace missing when resolution starts.
* Cache: a rule is used only for the text it was made for, and for the key where one is
  given; what is cached is not parsed again; a crash costs time and never an analysis of
  another text.
* Symbol table: every provider of a name is known, no other is, and nothing changes
  while rules are resolved.
* Imports of a rule: what the files use, as Scala would bind it, is a dependency; a
  conflict is settled by the use, wherever in the rule; nothing is exported that is not
  depended on.
* Resolver chain: memoizing is invisible where the overrides are uniform; the two passes of a
  package are not told different labels anywhere.
* Configuration: a directory has what its own and its ancestors' directives say.
* Generation: a rule is taken on once, with the files Bazel compiles; lists that are
  collected over several packages are complete in the end.
* Merging: what the imports need is there once, what the user protects stays, nothing comes
  from anywhere else, what is removed can be recorded, and a second run changes nothing.
* Implicit imports: the transitive closure, and the loop ends.
* Parser client and its users: one process, stopped in time; one response per
  request; no failure without a cause.
* Index files: what is predefined costs no dependency, whatever the order of jars and
  providers; semantic imports come from the document of the file.
* The programs that edit files: an edit has a reason in the output of the build, and nothing is
  lost, but in a write that is cut short or behind a line that is too long to be read, which
  the code does not guard against (section 4).

## 2. The modules

**`TrieScope`** — one symbol per name: `PutOne` is `TrieScope.Put` (a second label
becomes a conflict, the same label replaces the symbol), `PutAll` is what a rule
publishes. No behaviour of its own; `ScalaLang` extends it.

**`ScalaLang`** — up to `MaxRuns` processes over one workspace. `phase` is where the
process is, `at` the position in the walk or in the cache; each rule goes through
`HashRule` and then `TakeCachedRule`, `ParseRule` or `SkipRule`, so that an edit
fits between the digest and the parse. `ResolveRule` and `ResolveMarker` each
include `OnResolve` and `OnEnd` as in `scalaLang.Resolve`. `Die` kills at any step,
`DieWritingCache` in the middle of the write: the file is written in place with the rules
before the key, so one that is cut between two fields (`CutAfter`) has some of the rules and
no key, which reads as the default key (`NoKey`), and one that is cut inside a field
cannot be read and stops every run until somebody removes it (`StartRefused`, `RemoveCache`).
One text stands for all the sources
of a rule and for its digest. Rules without Scala sources are not told apart:
they have no names, like a text that defines none.

**`SymbolTable`** is what the resolver may count on, without packages, parsers and
caches: rules are analysed one at a time, the table has exactly their names with all
their providers, and it stays as it is from the moment it is closed. **`ColdRun`**
instantiates it over the state of `ScalaLang` (`LabelsAt` for the providers, `generated`
for the analysed rules, `phase = "resolve"` for closed); `ImplementsSymbolTable` is the
refinement.

**`SymbolResolver`** — `memo(scala(chain(memo(override), scope, cross, scala(packages))))`.
Any package may ask for any import any number of times. The override link alone
looks at the configuration of the package that asks.

**`Scopes`** — names are sequences of segments, a trie is a function from the names that
have a value. `LookUp` is the walk that keeps the last value on the path; `ScalaScopeAt`,
`ChainScope` and the trimming of prefixes are built on it.

**`ConflictResolvers`** — the four resolvers as functions of the import map as it is at
that moment, which is what two of them read. `scala_proto_package` compares names as text: with
`Begins` a prefix may end inside a segment.

**`RuleImports`** extends both and `ImplicitImports`: one rule from its files to the labels of
`deps` and `exports`. `GatherDirect` handles the files (with the wildcard fixer's answer where
the directive asks for it), `GatherOne` and `Gathered` the work list of implicit imports,
`ResolveImport` one import in the order they were put, `ImportsDone` and `ResolveExports` the
deps and the second map. The providers have put their symbols
before, in the order the instance says. Names are sequences of `Segment`s; the history
variable `fileMap` keeps what the files put into the map, for `UseDecides`, and no action
reads it.

**`ScalaConfig`** — slices over a heap of arrays. `Clone` copies the slice (`[:]`), not
the array; `Append1` and `Grown` follow Go's `append`; `RemoveLoop` is the loop that
ranges over the old slice while it shifts the array. The three list directives
share this code pattern; one list stands for them.

**`Glob`** — the values of `srcs` and how `pkg/glob` interprets them without evaluating the
file; next to it a reference evaluation as Bazel does it. `Expr` is the set of the
expressions that occur, with their parts, over which both are recursive functions.

**`ScalaPackage`** extends `ScalaConfig` and `Glob`: the walk, from `Configure` of a directory
before its subdirectories to `GenerateRules` after them, then `Resolve` for the rules of one
package after the other and the second pass. Rule configurations are pointers, so they
live in cells. The rules are the existing scala rules, `scala_files`, `scala_fileset` and
`semanticdb_index`; the second language, `files`, makes a `package_filegroup` of every
directory. Flags register existing rule kinds before the walk.

**`RuleDeps`** — one attribute of one rule over any number of runs and edits, as a set
of entries because each pass sorts. A pass is one action: `mergeDeps`, the tags and
the record for the cleanup file.

**`ImplicitImports`** — the stack of `scalaRule.Imports`, for any `gazelle:resolve_with`.

**`ScalametaParser`** — steps of a parser client without an owner. `Start` is split
where it can fail; the node process boots, serves, exits; `cmd.Wait` returns later.

**`ExtractWorker`** extends it with the request loop and the retries,
**`SourceParser`** with the lazy start for the first rule that needs it and the stop at
the resolve phase. **`ParserClients`** has both: a behaviour is a run of one of them.

**`WildcardFixer`** — the file as a sequence of lines, the loop of `Fix` with a step for each
write and each build, and a second run on what is left. A write truncates the file first: one that
fails or is killed leaves a beginning of the text (`WriteIsCut`), any other call may fail
(`CallFails`) and the fixer may be killed between steps (`Kill`). Reading ends at a line longer than
the buffer of the scanner without an error (`TooLong`). What the code of the file uses when
lines of it are gone is left open (`AnyCode`).

**`AutoKeep`** — the output of a build is any short sequence of lines; the scanner is a fold
over it, each delta one write that may fail.

**`IndexProviders`** — `mergeindex` jar by jar, then the providers in the order of the flag,
then the protobuf provider, which walks its maps one after the other (`WalkKind`), each in any
order.

**`Semanticdb`** — the visitor of a document, the merge of file sets, and the provider under
the memo parser over several gazelle runs.

**`Tools`** composes the four that share no state: a behaviour is a run of one of them.

**`Induction`** has nothing of the program: it is the induction, over numbers and sequences,
that the proofs of section 5 use.

Names follow the source. Operators commented as *slips* are the mutated forms that
`PROJECT.json` "mutants" puts in the place of the definitions; no action uses them.

## 3. The runs

| run | instance | states | what it shows |
|---|---|---|---|
| `ScalaLangWarm` | 3 rules in 2 packages, one directory without BUILD file, 2 names, 2 texts, 2 keys (one is the default), 3 runs, 2 edits between runs, kills, a write of the cache cut anywhere | 464,287 | bookkeeping of the phases, second pass, completeness of the scope, honesty of the cache, parser spared |
| `ScalaLangCold` | the same workspace, one run without a cache, 2 edits during the run | 24,745 | the run implements `SymbolTable`; `onEnd` reached |
| `Resolver` | 2 packages, 6 spellings, an override in none, one or all packages | 23,040 | memo tables invisible where overrides are uniform; elsewhere answers belong to the import and the two passes of a package agree |
| `Config` | 4 directories; 3 additions at the root and one in each directory, or up to 4 at the root and any 2 directives below; 5 rule configurations and two more directives of any kind; BUILD files with every kind of `srcs`, globals, a source that does not parse, a directory without BUILD file | 221,196 | lists and rule configurations as the directives say, parents untouched, each rule taken on once and with its files, aggregating rules complete |
| `RuleDepsMerge` | 2 labels and an opaque expression, 3 marks, 2 tags | 119,808 | the two passes: fixed point, needed deps, protected entries, cleanup record |
| `RuleImports` | one or two files with up to two import lines and extends clauses, three put orders of 11 symbols, four lists of resolvers, links with and without a cycle | 194,462 | uses are deps, conflicts follow the use, exports are deps, implicit imports are the closure, the work list ends |
| `ParserClients` | 3 requests with 3 attempts, or 3 rules, any of them pre-parsed; all faults | 6,354 | one response each, failures with a cause, no process left, every request answered; one process, only when needed, stopped at resolve |
| `Tools` | two runs of the fixer on six files, every call failing and every write cut anywhere; outputs of four lines; up to three jars of six, four flags, four lists of providers; two gazelle runs with file sets | 322,478 | what survives in the file and the loop stops; edits are reported; predefined classes need no dependency; semantic imports can be traced |

The runs `ScalaLangStaleSymbol`, `ResolverOverrideLeak`, `ConfigSiblings` and
`ExtractWorkerSurvives` find the counterexamples of section 4.

### Bounds

Runs: three, so that a file written by a warm run is read again (cold, warm, warm).
Edits: two, enough to change a text and change it back, which is what a stale
digest needs. Rules: two in one package, so that package order and the second pass
are visible, and one in another, for conflicts across packages. The configuration
needs three items in the root, because that is when the array has a spare cell.
Three requests let a worker fail, recover and fail again. Two import lines of two files
are what the order dependence of conflict resolvers needs: one import with a conflict, one
that decides it, before or after it, in the same file or the other. Four lines of output
hold two errors with two diagnostics, or one with three. Three jars hold a duplicate and a
class that refers to a predefined one of an earlier and of a later jar. Two runs of the
fixer meet what a killed or failed one left, two gazelle runs a memo made with another file set.
Where a bound could hide something, section 5 proves the property without it.

Symmetry is used in `RuleDepsMerge` only (labels are not ordered there).
`CHECK_DEADLOCK FALSE` stands where the system stops: no more runs or requests, everything
is resolved, the stack is empty, the resolve phase is reached.

### Fairness

* `ScalaLang`: `WF(Step)`. One sequential process whose steps never block; `EndIsReached`
  is checked where nobody kills it. Edits and starts are not fair.
* `RuleImports`: `WF` of the gathering steps (`GatherOne`, `Gathered`), a loop of one thread
  that waits for nobody.
* `ParserClients`: `WF(Worker)` and `WF(Node)` while the worker is the owner. Every wait of
  the loop has a timeout (ten seconds to connect, the HTTP timeout). The node process
  eventually serves or has exited, and `cmd.Wait` returns; reading another request is not
  fair, nor are crashes.
* `Tools`: `WF` of the steps of `Fix`, which waits only for the build; starting it again and
  killing it are not fair.

## 4. Where code and documentation disagree

Checked by a run that must find the counterexample (`findings`):

* `ScalaLangStaleSymbol` — symbols of cached rules are published before the sources
  are hashed and never withdrawn: a removed name, or a deleted rule, still gets
  dependencies.
* `ResolverOverrideLeak` — the memo tables ignore the package that asks, so a
  `gazelle:resolve` of one package leaks into others or is not applied in its own.
* `ConfigSiblings` — sibling directories share the spare cell of the parent's array;
  the second append overwrites the directive of the first sibling.
* `ExtractWorkerSurvives` — after a start that timed out the parser counts as running
  without a client; the next request panics the worker.

Seen while modelling and part of the modelled behaviour, with no run of their own; the
properties name the condition under which the code is right:

In the runs of gazelle:

* A warm run re-puts the names of a changed rule, which drops the conflicts of its
  symbols (`ImplementsSymbolTable` is for cold runs).
* A cache file whose write was cut short between two rules has no key, since the message has its rules
  first (cache.proto:15-20) and the file is written in place (cache.go:59). A run without
  `-scala_gazelle_cache_key` takes it for its own, and uses rules that were made under
  the key that was to invalidate them (cache.proto:18-19, "If the key changes, the cache is evicted";
  `PassesForDefault` in `OtherKeyIgnored`). A run with a key drops it.
* An edit between digest and parse stores the new analysis under the old digest
  (`CacheHonest` is proved where no edits happen under a run).
* After a failed start the source provider never starts its parser again
  (`RunsOnlyToParse` allows for it). A crash that `cmd.Wait` has not reported is not
  noticed: all three attempts go to the dead process (`dying` in `FailureHasCause`).
* `Start` keeps its temporary directory in a local variable, so `Stop` never removes it.

In the configuration and the rules:

* A directive item listed twice and then removed: one copy stays, or the loop indexes
  past the slice (`NoRepeats` in `ConfigureObeysDirectives`). A `-item` directive writes
  into the array of the parent (`OnlyAdditions` in `ParentKept`).
* Coverage counts the total by the name of the provider and the managed rules by the name
  of the rule (`Conventional` in `PackageAccounted`).
* Errors inside a list or a sum of `srcs` are dropped, a glob reaches into packages below,
  and only the keyword `exclude` is known (`Simple`, `OwnFiles`).
* A `scala_fileset` that is not at the root sees only the packages resolved before it, its
  list has each label twice before formatting removes the copies, and two `scala_files`
  configurations generate the same rule twice. `AggregatesComplete` speaks of the root.
* `semanticdb_index` misses a rule all of whose names are conflicts (`OnlyProvider`).
* A dep without a comment that no import resolves to is removed by default, although
  README.md:526-530 says that one for which no provider is confident is left alone: `CanProvide`
  only chooses a log message. `EveryEntryAccounted` says nothing of which entries go; it says where
  entries come from, what is kept and what is recorded. A dep under `# keep` that is needed and turned
  down by a deps cleaner vanishes (`DepsFollowImports` says so).

In the imports of a rule:

* The names a file imports explicitly come last in the chain of its scopes, after
  its packages and wildcards; exports are looked up in the global scope alone
  (`Unhidden` in `ExportsAreDeps`).
* A class that the global scope does not know is exported under the name that was written, and
  `ResolveExports` then asks the whole chain: if its package is known, or an override has it,
  the library exports a label that no import of the file made a dep (`ExportsAreDeps` leaves
  such names out; the clause `extends b.Q` of the instance is one).
* The zio resolver settles a conflict against the map as it is at that turn: earlier imports as
  they were resolved, later ones as the files put them. So a use counts for sure only if it is
  the same in both (`Steady` in `UseDecides`); `scala_proto_package` depends on
  the order of the puts.
* `scala_proto_package` takes a package for used if an import merely begins with its text
  (scala_proto_package_conflict_resolver.go:88): `p.foobar.C` decides for the package `p.foo`, although
  the comment at line 57 speaks of a package that is used (`UsesLookAlike` in `UseDecides`).
* A `gazelle:resolve_with` cycle never ends (`Acyclic` in `RuleSettles`).
* `ScalaScope.GetScope` compares pointers that never match; package symbols are put twice;
  a full match in a later scope of the chain stays hidden behind a short match in an earlier one
  (`Unhidden` in `UsesAreDeps`); `Requires` is written and never read; `sweepTransitive` is never
  called; the directive for file symbols is never asked by resolution; `ImportMap.Keys` is not sorted as its comment
  says.

In the index files and the other programs:

* The semanticdb provider joins the package with a file name that has it already, so semantic
  imports attach in the root package only, or to another file; a rule the memo parser knows
  keeps the semantic imports of the file set it was parsed with. `SemanticImportsTraced` takes both as
  they are: it says that an import comes from the document that was looked up, not that this was
  the right one.
  Symbols of packages that begin with "local" are dropped. Jars given to the provider
  directly are read, must not repeat, and are not used.
* `mergeindex` only warns of a jar without a file name, the java provider then panics; the
  classes of a jar with a duplicate label are lost.
* autokeep panics on every "This symbol is required by" line, and on a diagnostic before any
  ERROR line; of several diagnostics of one error the last one counts; a `NO_LABEL` entry of
  the imports map becomes a dep (`EditsAreReported` allows for these).
* The fixer writes a source file in place (text_file.go:90): where a write fails or is killed, the
  rest of the file is gone, and a next run goes on with what is left. It does not ask why the scanner
  stopped (text_file.go:50-66): of a file with a line of more than 64 KB the first write keeps only
  what comes before that line. `FileSurvives` has both as its exceptions, a cut write (`cut`) and an
  unread rest.
* A fixer run that failed after it wrote names leaves a file that a second run takes for
  done ("not found" is a success), although it need not build (`FileSurvives`).

## 5. What is proved

All theorems hold for every value of the constants, under the named `ASSUME`s of the
modules, which state what the values are (a walk visits a directory once, trimming is
idempotent, an opaque expression is no label, and so on). TLC evaluates each of them
for the instances of the runs. Each proof shows `Init => IInv`, `IInv /\ [Next]_vars => IInv'`
and that `IInv` implies the properties.

**`ScalaLang_proofs`** — all the properties of `ScalaLangWarm`: `TypeOK`,
`RemainingCountsMarkers`, `EndIsLast`, `SecondPassAfterFirst`, `ScopeKnowsGenerated`,
`CacheHonest` (if nothing is edited under a run), `AnalysisIsCurrent`, `OtherKeyIgnored` (but for
a cut file and the default key, `PassesForDefault`) and the action property `ParsedOnlyOnMiss`. The invariant has layers, each proved from the
ones before. *Shape*: packages are visited in the order of the walk, each once, and
rules are handled only in the package at hand. Without it `remaining - 1` could leave
the naturals, so `TypeOK` alone is not inductive. *Knowledge*: what the memo has is
published, and was parsed from its digest. *Progress*: a rule is resolved twice exactly
if its package is finalized. *Loaded*: a rule that is not generated yet is known as the
file has it, which is why a parse implies a miss.

The refinement is proved there too: a process that meets no cache (`MaxRuns = 1`)
implements `SymbolTable`, with edits under the run and kills at any step. Initial states map
to initial states, `ParseRule` to `Analyse`, `GenerateDone` to `Close`, every end of the process
to `Forget`, all other steps to stutters. The invariant adds to the one above
that only generated rules are known (`OnlyGenerated`) and that a name has exactly their labels
(`TableExact`): a put then never meets a symbol of the same label, which is the case in
which `TrieScope.Put` forgets conflicts. `NoStaleProvider`, which a warm run violates, follows.

**`SymbolResolver_proofs`** — all the properties of `Resolver`. The invariant says that the
inner table holds the override of *some* package and the outer one an answer that *some*
package would get; with uniform overrides "some" becomes "any". Every answer that was handed out is
still in the outer table (`HandedOutRemembered`), so the second pass of a package is not told
another label than the first, `PassesDoNotDisagree`.

**`RuleDeps_proofs`** — all the properties of `RuleDepsMerge`. The invariant states what a
pass leaves to the next one. The delicate part is the cleanup tag: the first pass may
take the tag away and leave the entries it protected, which the second pass then drops;
`TagHasUse` says that this cannot happen again after the second, so two passes are
enough. `EntriesAccounted` speaks of the entries that come from the file, of those that are kept
because the rule or its package says so, and of the record for the cleanup.

**`Induction`** — induction for the proofs below. The library states it with an operator as a
parameter, which the provers cannot instantiate; here it is stated of a set of numbers
(`SetInduction`), from the well-foundedness of `<`. From it follow what a recursive function
over `0 .. m` is, and what `FoldLeft` computes: `Folded` is the recursion over the
prefixes, `FoldLeftFolds` shows that the fold of the community module, which is defined by
`CHOOSE` over functions of sets of positions, is that recursion, and `FoldedInvariant` that what
every step of a loop keeps holds of what the loop computes (`FoldIterates`
gives the community module's own recursion, for loops whose state is a record). `SequenceInduction` says that
a set with the empty sequence and all longer versions of its members has all sequences: with
it a statement about a loop over a text is proved a line at a time. `GroundedRecursion` is for
expressions: a function that recurs from each element of a finite set to those it needs, where
every element is built in finitely many steps from what it needs, satisfies its equation.

**`ScalaPackage_proofs`** — four invariants of the walk.

`ListsInv`: every slice lies within its array, and the list of the directory being configured
shows what its directives so far make of what it inherited (`Says`, a fold). The removal loop
needs an invariant of its own: it ranges over the old slice while it shifts the array, so at
iteration *i* the array is the old one if the item was not met, and else the shifted one with
a copy of the last element behind it, and because the item occurs once no other index meets
it again (`RemoveLoopRemoves`). `ConfigureObeysDirectives` follows, and `ParentKept`: with
additions only, a cell is written beyond the length of every slice of another directory
that shows it, or in a new array.

`RulesInv`: the directory being configured has the settings and configurations that were said
so far, those before it all that was said, and *no cell belongs to two directories or two
names*. That is what `CloneRules` buys and what the mutant `SharedRules` breaks; without it
`Obeyed` could change the configuration of a parent, and `RulesConfiguredAsMeant` alone is not
inductive.

`ResolveInv`: what the rules resolved so far have. A `scala_files` rule that was resolved names the
files of its package and is deleted exactly if it has none; the list of file sets has exactly
those that were resolved and stay; an index has the names of its kinds; a file set of the *last*
package is complete from the second pass on: in the first one it may come before the files of
its own package, which is what the mutant `PassOver` breaks. The root is left last because every
directory has it among its `Ancestors` (`RootIsAbove`, by induction over the steps to the
top), so its filegroup has all the others. `AggregatesComplete` follows.

`AccountInv`: every package was made of a configured directory, its labels are those of rules of
its BUILD file, no two of its rules are one existing rule, and what it was made from, the
registry, the settings and the configurations, is no longer touched when it is (`RightStays`).
The loop over the configurations needs the invariant `Accounted`: the kinds that are left
are those no configuration took on, and the number of managed rules is at most that of the rules
of the kinds that were. That `Without` takes a kind out is what makes the second configuration of
an implementation find nothing; the mutant `Keep` breaks it. For the `srcs`, `SimpleRead` compares
two recursive functions over the expressions of a BUILD file, what the code collects and what
Bazel evaluates, where the text is `Simple`. `PackageAccounted` follows. TLC checked the first three
invariants and the property on the states of `Config` before.

**`RuleImports_proofs`** — first the work list alone, for every list of imports it may start
with: types, `WaitingOrLinked`, that a finished map is closed under the directives, cyclic ones
included, and that it holds nothing but what can be reached and everything that can
(`IncludedTransitively`). Then the rule that runs it. `RuleInv` is the types, the
invariant of the work list and `LoopInv`: before the loop that resolves the imports the map
is what the files put, followed by implicit imports without a symbol (`Pending`), and
at every turn `at` of it the entries from `at` on are still that, while each entry before
`at` is what its own turn made of it: the answer of the resolver chain, settled against the map
of that turn, which had the entries before it resolved and those behind it as they were put
(`Turns`). `UseDecides` does not say what the map was at a turn, and leaves out packages that only look
used (`UsesLookAlike`); `Turns` does say it, and without it
nothing is known of the conflict resolvers' view. Under it lie what the tables are that the
puts leave (`KnownTrie`), what the files' loops put into the map (folds over lines, packages and
extends clauses, with `FoldIterates`), that `Put` keeps an import at its place,
and which provider each of the four resolvers returns. `IncludedTransitively` and `UseDecides`
follow for any number of files, imports, providers and conflicts; so does `MapHoldsAllLinked`: the
loop meets every linked name, for the keys of the map are what the work list takes for imports
(`MapIsListed`). TLC checked `Turns`, `Pending`, `MapIsListed` and the invariant of the work list on
the states of the run `RuleImports` before.

`FilesInv` goes on from the files to the dependencies. *The table*: every symbol is stored under
its own name (`ExactTrie`), so the name under which an import was put leads the chain back to
the symbol that was found behind it, also where the import began at `_root_` or was a
wildcard (`ChainByOwnName`, `ChainByImport`). *What is wanted*: the names of import lines, and
of symbols behind extends clauses that no scope of the file hides, are in the map when the files
are done, because no step of the loops takes a name out (`FoldGrows`, `FoldAdds`), and the
scopes a file has are those its wildcards and packages opened (`FoldBrings`). *What is exported*
comes from a clause without conflicts. With `RuleInv` such a name was settled as found at its
turn, so its label is a dependency. `ImportsAreDeps`, the first half of `UsesAreDeps`, and
`ExportsAreDeps` follow for every workspace. The proof of the latter found the case of an
unknown class above, which the instance then got as well.

**`ParserClients_proofs`** — for the worker `TypeOK`, `OneResponseEach`,
`FailureHasCause`, `NodeGoesWithWorker`, for any number of retries and requests; the invariant of
the source provider (a parser without a client had a failed start, an exited process a
fault); and that in the composition the invariant of the owner holds while the other
one does not move. From it all safety properties of the run `ParserClients`.

**`Tools_proofs`** — three of the programs beside gazelle.

`FixerInv` for the wildcard fixer: *TextShape*, the other lines of the file are a beginning of those
of the original, in their order (`FromOriginal`), all of them unless a write was cut or a rest was
not read, and the line to be replaced is there in at least one of its forms or as an import of names;
*ReadShape*, what was read has only other lines, and which part of the file it is; *NamesShape*, at
each step of the loop the file imports what was found, and whoever fails has a cause.
What `Split` and `Others`, the two loops over a text, make of any text is proved by induction
(`SplitAppend`, `OthersConcat`), and so is what a cut write leaves of it (`CutKeepsText`,
`BeginningIsPrefix`). `FileSurvives` follows, for every file, every report of the compiler, any
number of runs, kills, failed calls and cut writes.

`KeepInv` for autokeep: *DiagnosticsFit*, every error has its last line in the output and every
such line an error; *EditsAsked*, what was edited, and is still to be, comes from the errors of that
rule; *ErrorsSettled*, no error is forgotten between the list, the edits and the file. Its core
is `ScanOf`, what the scanner makes of any output: which error line opened the last error
(`LastOpened`), that this error has the last diagnostic (`LastKept`) and that those before it stay
as they were (`EarlierKept`). `EditsAreReported` follows, for every output of any length and all
BUILD files.

`IndexInv` for `mergeindex` and the providers: *MergedOnce*, the index lists a label once and what
was dropped are the predefined classes of what it lists; *ReadSoFar*, the jars that were read
have their classes in the table, those of a predefined jar with the missing label; *AllClaimed*,
every label of a symbol is one that some provider answers for. The delicate part is that
`TrieScope.Put` forgets the conflicts of a symbol whose own label is put again, and with them
the missing label. `FirstOwns` says why that does not happen: a class is owned by the first jar of
the index that has it, no other jar has that jar's label, so the label comes again only if it
is the missing one (`FromDiffers`, `JarReadNext`); and a rule of the other extension is no jar
(`ProtoLeavesJars`). What the lock files add, a fold in a fold, is a label of one of their
artifacts (`LockFilesSpread`). `PredefinedNeedsNoDep` follows. TLC checked `IndexInv` on the states
of the instance of `Tools` before.

What is assumed of the constants, beyond what says what they are: gazelle configures each directory
once (`Order` has them all and is injective) and its parent before it, there is one root, configurations
and the rules of one BUILD file have different names, there are finitely many expressions and each is
built from what it needs (`Grounded`: a text is finite, and Starlark knows no name before it is assigned), and a
workspace has finitely many `gazelle:resolve_with` directives. Before the first run of the fixer
the names of the package come through the wildcard import alone. The jars of one index have their
labels written in one way, as Bazel does (two spellings of one label would be two jars for the
merge and one for the reader, and drop the missing label), rules that another extension generates
are no jars of the index, and the artifacts of a lock file have labels in its repository.
A name that is imported has at least one segment, what a provider puts has neither `_root_` in its
name nor a wildcard at its end (Scala reserves both), and no label ends both in the suffix of a grpc
library and in one of a zio or a proto library, as the suffixes of the conflict resolvers do not.

### Model-checked only

* Liveness: `EndIsReached`, `EveryRequestAnswered`, `RuleSettles`, `RunStops`, which is out of
  reach of the prover.
* `SemanticImportsTraced`, whose module uses recursive operators for the nested documents.
* `ExtendsAreDeps`, the second half of `UsesAreDeps`. It compares the chain of scopes with how Scala
  binds a simple name and does not hold of every text: where two wildcard imports have a member
  of that name the first one answers, and Scala rejects the file. In the instance no two
  wildcards do.

## 6. Hazards

`PROJECT.json` "hazards" lists what is hard to test in this code, at its line, with the
properties that cover it, or a note on why none does yet.

## 7. Not modelled

* Logging, profiling and progress output; the log level.
* The translation of BUILD syntax but for `srcs`, of Starlark values, and the tables of rule
  kinds and loads.
* An attribute whose value is not a list: `mergeDeps` discards the value (config.go:746-755).
* The panic of a source provider that must parse while `SCALA_GAZELLE_ALLOW_RUNTIME_PARSING` is off
  (source_provider.go:120-122); the model is of a run that may parse.
* Labels of other repositories in `IsSelfImport` (import.go:156-170): nothing is a self import of a
  rule whose label has a repository. Gazelle's own rules have none, and labels are compared whole.
* The superclass edges that `JavaProvider.OnResolve` makes (java_provider.go:73-86): `Require` adds to a
  list that nothing reads.
* A rule that gazelle generates and that is in an index as well: the labels of the two are assumed
  to be apart in `IndexProviders`.
* A write of one BUILD file by autokeep that is cut short: a write happens or fails as a whole. A kill of the
  `scalafileextract` worker itself, after which its node process has nobody to stop it.
* The registry of known rules, which this repository only writes.
* The network port that is looked up and released before the node process takes it; the files
  of the parser process; the one-shot mode of `scalafileextract`.
* `scalafilemerge` and `semanticdbextract`, which collect and sort what is in their arguments.
* The generated protocol buffer code, which is a third of the Go lines, the Bazel rules, the
  parser script and the mocks.

What could come next: several rules at once in `RuleImports`, so that the deps of one may
depend on the package symbols that another one put; the texts of source files in
`ScalaLang` as several files with digests of their own.
