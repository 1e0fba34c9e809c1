------------------------------ MODULE ScalaLang ------------------------------
(***************************************************************************)
(* Successive runs of gazelle with the scala extension over one workspace: *)
(* language/scala/{flags,cache,generate,scala_package,resolve,lifecycle,   *)
(* package_marker_rule}.go, pkg/parser/memo_parser.go and the symbol side  *)
(* of pkg/provider/source_provider.go.                                     *)
(*                                                                         *)
(* A run loads the rule cache, visits every package (GenerateRules: hash,  *)
(* take the cached rule or parse, publish the symbols), then resolves      *)
(* every generated rule and, last in each package, a marker rule that      *)
(* resolves the rules of the package a second time.  The process may die   *)
(* at any step; the workspace is edited between runs and, when             *)
(* EditsDuringRun, while one is going on.                                  *)
(*                                                                         *)
(* One source text stands for all the .scala files of a rule, and the      *)
(* sha256 of a text is the text itself (no collisions).                    *)
(***************************************************************************)
EXTENDS TrieScope, FiniteSets

CONSTANTS
    Pkg,             \* the directories gazelle visits
    Walk,            \* the order it visits them in
    PkgOf,           \* the package of a label
    Buildable,       \* directories with a BUILD file, or where one may be generated
    LabelOrder,      \* the labels sorted as strings
    Source,          \* versions of the source text of a rule
    Defines,         \* the importable names each text defines
    Key,             \* values of -scala_gazelle_cache_key
    NoKey,           \* "", its default, and what a message without the field reads
    Absent,          \* no such rule (in a BUILD file, the cache or the memo)
    InitialDisk,     \* the workspaces a behaviour may start from
    EditsDuringRun,  \* may the workspace change under a running gazelle?
    MayDie,          \* may a process be killed?
    MaxRuns,         \* bound on the number of runs
    MaxEdits         \* bound on the number of edits of the workspace

Entry == [sha : Source, src : Source]
Hash == [rule : Label, sha : Source]

ASSUME WalkAssumption ==
    /\ Walk \in Seq(Pkg)
    /\ \A i, j \in DOMAIN Walk : Walk[i] = Walk[j] => i = j

ASSUME WorkspaceAssumption ==
    /\ IsFiniteSet(Pkg)
    /\ PkgOf \in [Label -> Pkg]
    /\ Buildable \subseteq Pkg
    /\ Defines \in [Source -> SUBSET Name]
    /\ Absent \notin Source /\ Absent \notin Entry /\ Absent \notin Hash
    /\ InitialDisk \subseteq [Label -> Source \cup {Absent}]
    /\ NoKey \in Key
    /\ EditsDuringRun \in BOOLEAN /\ MayDie \in BOOLEAN
    /\ LabelOrder \in Seq(Label)
    /\ \A l \in Label : \E i \in DOMAIN LabelOrder : LabelOrder[i] = l
    /\ MaxRuns \in Nat /\ MaxEdits \in Nat

VARIABLES
    disk,        \* the workspace: the source text of each rule of the BUILD files
    cacheFile,   \* what it holds, see CacheFile
    key,         \* scalaLang.cacheKeyFlagValue
    phase,       \* "idle" (no process), "load", "generate" or "resolve"
    at,          \* position in LabelOrder ("load") or in Walk
    visiting,    \* is the package at hand inside GenerateRules?
    todo,        \* its rules that are not handled yet
    hashed,      \* digest computed by ParseScalaRule before it parses
    memo,        \* MemoParser.rules
    globalScope, \* scalaLang.globalScope
    packages,    \* domain of scalaLang.packages
    generated,   \* the rules returned by GenerateRules
    remaining,   \* scalaLang.remainingPackages
    isResolvePhase,
    resolved,    \* how often each rule went through its provider's Resolve
    finalized,   \* packages whose marker rule was resolved
    ended,       \* how often onEnd was called
    runs, edits  \* bounded counters

workspace == <<disk, edits>>
cursor == <<visiting, todo, hashed>>
symbols == <<memo, globalScope>>
index == <<packages, generated, remaining>>
resolving == <<isResolvePhase, resolved, finalized, ended>>
vars == <<disk, cacheFile, key, phase, at, visiting, todo, hashed, memo, globalScope,
          packages, generated, remaining, isResolvePhase, resolved, finalized,
          ended, runs, edits>>

Rules == [Label -> Entry \cup {Absent}]
NoRules == [r \in Label |-> Absent]

\* The message in the file: its rules and its key, and whether it unmarshals at all.
\* "writer", the key of the process that wrote the file, is history: no action reads it.
CacheFile == [rules : Rules, key : Key, readable : BOOLEAN, writer : Key]
NoFile == [rules |-> NoRules, key |-> NoKey, readable |-> TRUE, writer |-> NoKey]
RulesOf(p) == {r \in Label : PkgOf[r] = p}
GeneratedIn(p) == generated \cap RulesOf(p)

-----------------------------------------------------------------------------
(***************************************************************************)
(* The process: what NewLanguage sets up, and all of it lost at its end.   *)
(***************************************************************************)
Init ==
    /\ disk \in InitialDisk
    /\ key \in Key
    /\ cacheFile = NoFile
    /\ phase = "idle" /\ at = 1
    /\ visiting = FALSE /\ todo = {} /\ hashed = Absent
    /\ memo = NoRules /\ globalScope = EmptyTrie
    /\ packages = {} /\ generated = {} /\ remaining = 0
    /\ isResolvePhase = FALSE /\ resolved = [r \in Label |-> 0]
    /\ finalized = {} /\ ended = 0
    /\ runs = 0 /\ edits = 0

ProcessGone ==
    /\ phase' = "idle" /\ at' = 1
    /\ visiting' = FALSE /\ todo' = {} /\ hashed' = Absent
    /\ memo' = NoRules /\ globalScope' = EmptyTrie
    /\ packages' = {} /\ generated' = {} /\ remaining' = 0
    /\ isResolvePhase' = FALSE /\ resolved' = [r \in Label |-> 0]
    /\ finalized' = {} /\ ended' = 0

\* Killed, or stopped by a log.Fatalf.
Die ==
    /\ MayDie
    /\ phase # "idle"
    /\ ProcessGone
    /\ UNCHANGED <<workspace, cacheFile, key, runs>>

\* The workspace: the text of a rule is changed, the rule added or deleted.
Edit(r) ==
    /\ edits < MaxEdits
    /\ phase = "idle" \/ EditsDuringRun
    /\ \E s \in (Source \cup {Absent}) \ {disk[r]} : disk' = [disk EXCEPT ![r] = s]
    /\ edits' = edits + 1
    /\ UNCHANGED <<cacheFile, key, phase, at, cursor, symbols, index, resolving, runs>>

-----------------------------------------------------------------------------
(***************************************************************************)
(* CheckFlags: a new process reads the cache.  LoadScalaRule memoizes each *)
(* cached rule and publishes its symbols, in the order of the labels,      *)
(* whether or not the workspace still has the rule.                        *)
(***************************************************************************)
Start ==
    /\ runs < MaxRuns
    /\ phase = "idle"
    /\ cacheFile.readable
    /\ phase' = "load"
    /\ key' \in Key
    /\ runs' = runs + 1
    /\ UNCHANGED <<workspace, cacheFile, at, cursor, symbols, index, resolving>>

\* The message does not unmarshal: CheckFlags returns the error and the process ends.
StartRefused ==
    /\ runs < MaxRuns
    /\ phase = "idle"
    /\ ~cacheFile.readable
    /\ runs' = runs + 1
    /\ UNCHANGED <<workspace, cacheFile, key, phase, at, cursor, symbols, index, resolving>>

\* The user deletes a file that no run can read; setupCache puts up with its absence.
RemoveCache ==
    /\ phase = "idle"
    /\ ~cacheFile.readable
    /\ cacheFile' = NoFile
    /\ UNCHANGED <<workspace, key, phase, at, cursor, symbols, index, resolving, runs>>

\* Plausible slips, used to show that the properties can fail.
PublishNothing(trie, r, s) == trie

\* putSymbol for every class, object, trait, type and val of a text.
Publish(trie, r, s) == PutAll(trie, r, Defines[s])

Memoize(m, r, entry) == [m EXCEPT ![r] = entry]

\* Slips: the key is not compared; the comparison is the wrong way round.
AnyKey == TRUE

KeyDiffers == cacheFile.key # key

\* Rules that were cached under another key are ignored.
KeyMatches == cacheFile.key = key

LoadRule ==
    /\ phase = "load"
    /\ KeyMatches
    /\ at \in DOMAIN LabelOrder
    /\ LET r == LabelOrder[at]
           entry == cacheFile.rules[r]
       IN IF entry = Absent
          THEN UNCHANGED symbols
          ELSE /\ memo' = Memoize(memo, r, entry)
               /\ globalScope' = Publish(globalScope, r, entry.src)
    /\ at' = at + 1
    /\ UNCHANGED <<workspace, cacheFile, key, phase, cursor, index, resolving, runs>>

LoadDone ==
    /\ phase = "load"
    /\ at \notin DOMAIN LabelOrder \/ ~KeyMatches
    /\ phase' = "generate"
    /\ at' = 1
    /\ UNCHANGED <<workspace, cacheFile, key, cursor, symbols, index, resolving, runs>>

-----------------------------------------------------------------------------
(***************************************************************************)
(* GenerateRules of the package at hand, one rule at a time.               *)
(***************************************************************************)
Generating == phase = "generate" /\ at \in DOMAIN Walk

\* No BUILD file and none to be generated: the early return.
SkipPackage ==
    /\ Generating
    /\ Walk[at] \notin Buildable
    /\ at' = at + 1
    /\ UNCHANGED <<workspace, cacheFile, key, phase, cursor, symbols, index, resolving, runs>>

OpenPackage ==
    /\ Generating
    /\ Walk[at] \in Buildable
    /\ ~visiting
    /\ visiting' = TRUE
    /\ todo' = {r \in RulesOf(Walk[at]) : disk[r] # Absent}
    /\ UNCHANGED <<workspace, cacheFile, key, phase, at, hashed, symbols, index, resolving, runs>>

\* MemoParser.ParseScalaRule computes the digest of the sources ...
HashRule(r) ==
    /\ Generating
    /\ r \in todo
    /\ hashed = Absent
    /\ disk[r] # Absent
    /\ hashed' = [rule |-> r, sha |-> disk[r]]
    /\ UNCHANGED <<workspace, cacheFile, key, phase, at, visiting, todo, symbols, index,
                   resolving, runs>>

HitAnyDigest(r) == memo[r] # Absent

CacheHit(r) == memo[r] # Absent /\ memo[r].sha = hashed.sha

RuleGenerated(r) ==
    /\ generated' = generated \cup {r}
    /\ todo' = todo \ {r}
    /\ hashed' = Absent

\* ... takes the rule it has for that digest, symbols published already ...
TakeCachedRule(r) ==
    /\ Generating
    /\ hashed # Absent /\ hashed.rule = r
    /\ CacheHit(r)
    /\ RuleGenerated(r)
    /\ UNCHANGED <<workspace, cacheFile, key, phase, at, visiting, symbols, packages, remaining,
                   resolving, runs>>

NewDigestOldRule(r) ==
    [sha |-> hashed.sha, src |-> IF memo[r] # Absent THEN memo[r].src ELSE disk[r]]

\* The rule that is saved: keyed by the digest, parsed from what is there by now.
ParsedEntry(r) == [sha |-> hashed.sha, src |-> disk[r]]

\* ... or has the next parser read the sources, publish their symbols, and saves it.
ParseRule(r) ==
    /\ Generating
    /\ hashed # Absent /\ hashed.rule = r
    /\ ~CacheHit(r)
    /\ disk[r] # Absent
    /\ memo' = Memoize(memo, r, ParsedEntry(r))
    /\ globalScope' = Publish(globalScope, r, disk[r])
    /\ RuleGenerated(r)
    /\ UNCHANGED <<workspace, cacheFile, key, phase, at, visiting, packages, remaining, resolving,
                   runs>>

ScopeWithHalfRule(r) == IF disk[r] = Absent THEN globalScope ELSE Publish(globalScope, r, disk[r])

ScopeAfterError(r) == globalScope

\* The sources cannot be read or parsed: ResolveRule logs it and skips the rule.
SkipRule(r) ==
    /\ Generating
    /\ r \in todo
    /\ \/ hashed = Absent /\ disk[r] = Absent
       \/ hashed # Absent /\ hashed.rule = r /\ ~CacheHit(r)
    /\ todo' = todo \ {r}
    /\ hashed' = Absent
    /\ globalScope' = ScopeAfterError(r)
    /\ UNCHANGED <<workspace, cacheFile, key, phase, at, visiting, memo, index, resolving, runs>>

NotCounted == remaining

\* Resolve must see one marker rule for each package counted here.
CountPackage == remaining + 1

ClosePackage ==
    /\ Generating
    /\ visiting
    /\ todo = {}
    /\ packages' = packages \cup {Walk[at]}
    /\ remaining' = CountPackage
    /\ visiting' = FALSE
    /\ at' = at + 1
    /\ UNCHANGED <<workspace, cacheFile, key, phase, todo, hashed, symbols, generated, resolving,
                   runs>>

\* Gazelle visited everything and turns to the rules it collected.
GenerateDone ==
    /\ phase = "generate"
    /\ at \notin DOMAIN Walk
    /\ phase' = "resolve"
    /\ at' = 1
    /\ UNCHANGED <<workspace, cacheFile, key, cursor, symbols, index, resolving, runs>>

-----------------------------------------------------------------------------
(***************************************************************************)
(* Resolve, for the rules of each package in the order of the visits, the  *)
(* marker rule last.                                                       *)
(***************************************************************************)
Resolving == phase = "resolve" /\ at \in DOMAIN Walk

Written == [rules |-> memo, key |-> key, readable |-> TRUE, writer |-> key]

\* The message is written rules first, by label, and the key after them: of a file that
\* was cut short between two fields a reader gets the first n rules and no key.
CutAfter(n) ==
    [rules |-> [r \in Label |-> IF \E i \in 1 .. n : LabelOrder[i] = r THEN memo[r] ELSE Absent],
     key |-> NoKey, readable |-> TRUE, writer |-> key]

\* Cut inside a field, or anywhere in a .json file.
CutInside == [rules |-> NoRules, key |-> NoKey, readable |-> FALSE, writer |-> key]

\* onResolve: the first Resolve of all writes the cache.
OnResolve ==
    /\ isResolvePhase' = TRUE
    /\ cacheFile' = IF isResolvePhase THEN cacheFile ELSE Written

EndOnLast(left) == IF left <= 1 THEN ended + 1 ELSE ended

\* The check at the end of Resolve that calls onEnd.
OnEnd(left) == IF left = 0 THEN ended + 1 ELSE ended

ResolveRule(r) ==
    /\ Resolving
    /\ Walk[at] \in packages
    /\ r \in GeneratedIn(Walk[at])
    /\ resolved[r] = 0
    /\ OnResolve
    /\ resolved' = [resolved EXCEPT ![r] = @ + 1]
    /\ ended' = OnEnd(remaining)
    /\ UNCHANGED <<workspace, key, phase, at, cursor, symbols, index, finalized, runs>>

\* scalaPackage.Finalize: the deferred work resolves each rule once more.
Finalize(p) ==
    [r \in Label |-> IF r \in GeneratedIn(p) THEN resolved[r] + 1 ELSE resolved[r]]

MarkerFirst(p) == TRUE

\* The marker is the last rule GenerateRules returns for its package.
MarkerTurn(p) == \A r \in GeneratedIn(p) : resolved[r] = 1

NotUncounted == remaining

UncountPackage == remaining - 1

ResolveMarker ==
    /\ Resolving
    /\ Walk[at] \in packages
    /\ MarkerTurn(Walk[at])
    /\ OnResolve
    /\ resolved' = Finalize(Walk[at])
    /\ finalized' = finalized \cup {Walk[at]}
    /\ remaining' = UncountPackage
    /\ ended' = OnEnd(UncountPackage)
    /\ at' = at + 1
    /\ UNCHANGED <<workspace, key, phase, cursor, symbols, packages, generated, runs>>

\* A directory without generated rules has nothing to resolve.
NothingToResolve ==
    /\ Resolving
    /\ Walk[at] \notin packages
    /\ at' = at + 1
    /\ UNCHANGED <<workspace, cacheFile, key, phase, cursor, symbols, index, resolving, runs>>

\* os.WriteFile truncates the file before it writes it: killed in between, or out of
\* space, which onResolve answers with log.Fatalf.
DieWritingCache ==
    /\ MayDie
    /\ Resolving
    /\ Walk[at] \in packages
    /\ ~isResolvePhase
    /\ cacheFile' \in {CutAfter(n) : n \in 0 .. Len(LabelOrder)} \cup {CutInside}
    /\ ProcessGone
    /\ UNCHANGED <<workspace, key, runs>>

Exit ==
    /\ phase = "resolve"
    /\ at \notin DOMAIN Walk
    /\ ProcessGone
    /\ UNCHANGED <<workspace, cacheFile, key, runs>>

-----------------------------------------------------------------------------
\* The steps of a running process.
Step ==
    \/ LoadRule \/ LoadDone
    \/ SkipPackage \/ OpenPackage \/ ClosePackage \/ GenerateDone
    \/ \E r \in Label : HashRule(r) \/ TakeCachedRule(r) \/ ParseRule(r) \/ SkipRule(r)
    \/ \E r \in Label : ResolveRule(r)
    \/ ResolveMarker \/ NothingToResolve \/ Exit

Next ==
    \/ Step
    \/ Start \/ StartRefused \/ RemoveCache
    \/ Die \/ DieWritingCache
    \/ \E r \in Label : Edit(r)

Spec == Init /\ [][Next]_vars

\* Gazelle is one sequential process: once started it keeps taking steps.
FairSpec == Spec /\ WF_vars(Step)
-----------------------------------------------------------------------------
(***************************************************************************)
(* Properties.                                                             *)
(***************************************************************************)

\* Every variable has a value of its kind.
TypeOK ==
    /\ disk \in [Label -> Source \cup {Absent}]
    /\ cacheFile \in CacheFile
    /\ key \in Key
    /\ phase \in {"idle", "load", "generate", "resolve"}
    /\ at \in Nat \ {0}
    /\ visiting \in BOOLEAN
    /\ todo \subseteq Label
    /\ hashed \in Hash \cup {Absent}
    /\ memo \in Rules
    /\ globalScope \in Trie
    /\ packages \subseteq Pkg
    /\ generated \subseteq Label
    /\ remaining \in Nat
    /\ isResolvePhase \in BOOLEAN
    /\ resolved \in [Label -> Nat]
    /\ finalized \subseteq Pkg
    /\ ended \in Nat
    /\ runs \in Nat /\ edits \in Nat

\* remainingPackages, which is counted up by GenerateRules and down by the marker
\* rules, is at every step the number of packages whose marker is still to come.
RemainingCountsMarkers == remaining = Cardinality(packages \ finalized)

\* "onEnd is called when the last rule has been resolved" (lifecycle.go:34): at
\* most once, and as soon as and no sooner than every package is finalized.
EndIsLast ==
    /\ ended <= 1
    /\ ended = 1 <=> (packages # {} /\ finalized = packages)

\* Each generated rule is resolved once in its turn and once more by the marker of
\* its package, which comes after the first turn of all the rules of the package
\* ("deferred until all rules in a package have been processed", scala_package.go:49).
SecondPassAfterFirst ==
    \A r \in Label :
        /\ resolved[r] <= 2
        /\ resolved[r] > 0 => r \in generated
        /\ resolved[r] = 2 => \A q \in GeneratedIn(PkgOf[r]) : resolved[q] = 2
        /\ ended = 1 /\ r \in generated => resolved[r] = 2

\* Resolution never misses a symbol of the workspace: when a rule was generated,
\* by the parser or from the cache, every name its text defines is in the scope.
ScopeKnowsGenerated ==
    \A r \in generated :
        memo[r] # Absent /\ \A n \in Defines[memo[r].src] : globalScope[n] # NoSymbol

\* During resolution the scope offers no label that does not provide the name: a
\* rule would get a dependency on a target that lacks the symbol or is gone.
NoStaleProvider ==
    phase = "resolve" =>
        \A n \in Name : \A r \in LabelsAt(globalScope, n) :
            r \in generated /\ n \in Defines[memo[r].src]

\* A rule in memory or in the cache file was parsed from the very text its digest
\* was computed from ("it will use cached state if the hash matches the source
\* file", README.md:749).
CacheHonest ==
    \A r \in Label :
        /\ memo[r] # Absent => memo[r].src = memo[r].sha
        /\ cacheFile.rules[r] # Absent => cacheFile.rules[r].src = cacheFile.rules[r].sha

\* When the workspace is left alone during the run, what resolution uses of a rule
\* is what a parse of the present text would give, cached or not.
AnalysisIsCurrent ==
    ~EditsDuringRun => \A r \in generated : memo[r] # Absent /\ memo[r].src = disk[r]

\* A file that lost its key when its write was cut short: readable, and without the key
\* of its writer, it passes for one that was written with the default key.
PassesForDefault == cacheFile.key # cacheFile.writer /\ key = NoKey

\* "If the key changes, the cache is evicted" (cache.proto:18-19): until it writes the
\* cache itself, a process has no rule but those it generated when the file it found was
\* written by a process with another key, a write that was cut short included.  One
\* case is left out, in which the code breaks that promise: PassesForDefault.
OtherKeyIgnored ==
    phase = "generate" /\ cacheFile.writer # key /\ ~PassesForDefault =>
        {r \in Label : memo[r] # Absent} \subseteq generated

\* The parser is never asked for a text the cache had: a rule is parsed only when
\* the file that was loaded has no rule, or another digest, under its label, or was
\* written with another key.
ParsedOnlyOnMiss ==
    [][\A r \in Label :
         ParseRule(r) =>
            \/ cacheFile.rules[r] = Absent \/ cacheFile.key # key
            \/ cacheFile.rules[r].sha # hashed.sha]_vars

\* A process that is not killed reaches onEnd, if there is any package at all.
EndIsReached == (phase = "resolve" /\ packages # {}) ~> (ended = 1)

=============================================================================
