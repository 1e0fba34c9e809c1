---------------------------- MODULE ScalaLang_proofs ----------------------------
(***************************************************************************)
(* Proofs about the runs of gazelle, for every workspace, walk, cache and  *)
(* number of runs.  The invariant comes in three layers, each of which     *)
(* rests on the ones before it: where the run is (Shape), what the symbol  *)
(* table and the cache hold (Knowledge), and the resolve phase (Progress). *)
(***************************************************************************)
EXTENDS ColdRun, FiniteSetTheorems, TLAPS

Visited == {Walk[i] : i \in {j \in DOMAIN Walk : j < at}}

\* Before the packages are visited the process has generated nothing.
NothingYet ==
    /\ phase \in {"idle", "load"} => packages = {} /\ generated = {}
    /\ phase = "idle" => at = 1

\* Rules are handled in the package at hand only; a digest is that of one of them.
HandledInPackage ==
    /\ visiting => Generating /\ Walk[at] \in Buildable
    /\ todo # {} => visiting /\ todo \subseteq RulesOf(Walk[at])
    /\ hashed # Absent => hashed.rule \in todo

\* Before the rules are resolved nothing is resolved.
NothingResolved ==
    phase # "resolve" => ~isResolvePhase /\ resolved = [r \in Label |-> 0] /\ finalized = {} /\ ended = 0

\* Both phases handle the packages in the order of the walk.
WalkOrder ==
    /\ phase = "generate" => packages \subseteq Visited
    /\ phase = "resolve" => finalized \subseteq packages \cap Visited

\* The first layer.
Shape ==
    /\ TypeOK
    /\ RemainingCountsMarkers
    /\ NothingYet
    /\ HandledInPackage
    /\ NothingResolved
    /\ WalkOrder
-----------------------------------------------------------------------------
\* Publishing keeps the table a table, never removes a name and adds the names of
\* the text.
LEMMA PublishGrows ==
    ASSUME NEW trie \in Trie, NEW r \in Label, NEW s \in Source
    PROVE  /\ Publish(trie, r, s) \in Trie
           /\ \A n \in Name : trie[n] # NoSymbol => Publish(trie, r, s)[n] # NoSymbol
           /\ \A n \in Defines[s] : Publish(trie, r, s)[n] # NoSymbol
<1>1. NewSymbol(r) \in Symbol
  BY DEF NewSymbol, Symbol
<1>2. \A sym \in Symbol : Conflict(sym, r) \in Symbol
  BY DEF Conflict, Symbol
<1>3. \A c \in Symbol \cup {NoSymbol} : PutOne(c, r) \in Symbol
  BY <1>1, <1>2 DEF PutOne
<1>4. NoSymbol \notin Symbol
  BY NoSymbolAssumption DEF Symbol
<1>5. Defines[s] \subseteq Name
  BY WorkspaceAssumption
<1> QED BY <1>3, <1>4, <1>5 DEF Publish, PutAll, Trie

\* The packages that wait for their marker are finitely many.
LEMMA PackagesFinite ==
    ASSUME TypeOK
    PROVE  /\ IsFiniteSet(packages \ finalized)
           /\ \A p \in Pkg \ (packages \ finalized) :
                 Cardinality((packages \ finalized) \cup {p}) = Cardinality(packages \ finalized) + 1
           /\ \A p \in packages \ finalized :
                 Cardinality((packages \ finalized) \ {p}) = Cardinality(packages \ finalized) - 1
<1>1. IsFiniteSet(packages \ finalized)
  BY WorkspaceAssumption, FS_Subset DEF TypeOK
<1> QED BY <1>1, FS_AddElement, FS_RemoveElement

\* A package is visited once.
LEMMA WalkOnce ==
    ASSUME TypeOK, at \in DOMAIN Walk
    PROVE  Walk[at] \in Pkg /\ Walk[at] \notin Visited
BY WalkAssumption DEF Visited, TypeOK

\* The next position has visited the package at hand as well.
LEMMA VisitedNext ==
    ASSUME TypeOK, at \in DOMAIN Walk, at' = at + 1
    PROVE  Visited' = Visited \cup {Walk[at]}
BY WalkAssumption DEF Visited, TypeOK

\* The empty file, the file that is written, and what is left of it when it is cut short.
LEMMA NoFileIs == NoFile \in CacheFile
BY WorkspaceAssumption DEF NoFile, CacheFile, NoRules, Rules

LEMMA WrittenIs ==
    ASSUME TypeOK
    PROVE  Written \in CacheFile /\ CutInside \in CacheFile /\ \A n \in Nat : CutAfter(n) \in CacheFile
<1>1. Written \in CacheFile
  BY DEF TypeOK, Written, CacheFile
<1>2. CutInside \in CacheFile
  BY WorkspaceAssumption DEF TypeOK, CutInside, CacheFile, NoRules, Rules
<1>3. ASSUME NEW n \in Nat
      PROVE  CutAfter(n) \in CacheFile
  BY WorkspaceAssumption DEF TypeOK, CutAfter, CacheFile, Rules
<1> QED BY <1>1, <1>2, <1>3

\* What the file may be after a step.
FileCut == {CutAfter(n) : n \in 0 .. Len(LabelOrder)} \cup {CutInside}

LEMMA FileStep ==
    ASSUME [Next]_vars
    PROVE  cacheFile' \in {cacheFile, NoFile, Written} \cup FileCut
<1>. USE DEF workspace, cursor, symbols, index, resolving
<1>1. CASE Step
  BY <1>1
  DEF Step, LoadRule, LoadDone, SkipPackage, OpenPackage, ClosePackage, GenerateDone, HashRule, TakeCachedRule,
      ParseRule, SkipRule, ResolveRule, ResolveMarker, NothingToResolve, Exit, OnResolve
<1>2. CASE Start \/ StartRefused \/ RemoveCache
  BY <1>2 DEF Start, StartRefused, RemoveCache
<1>3. CASE Die \/ DieWritingCache
  BY <1>3 DEF Die, DieWritingCache, FileCut
<1>4. ASSUME NEW r \in Label, Edit(r)
      PROVE  cacheFile' = cacheFile
  BY <1>4 DEF Edit
<1>5. CASE UNCHANGED vars
  BY <1>5 DEF vars
<1> QED BY <1>1, <1>2, <1>3, <1>4, <1>5 DEF Next

LEMMA FileType ==
    ASSUME TypeOK, [Next]_vars
    PROVE  cacheFile' \in CacheFile
BY FileStep, NoFileIs, WrittenIs, WorkspaceAssumption DEF FileCut, TypeOK

\* A file has the rules of its writer, or some of them, or those it had.
LEMMA FileFrom ==
    ASSUME [Next]_vars, NEW r \in Label
    PROVE  cacheFile'.rules[r] \in {Absent, memo[r], cacheFile.rules[r]}
<1>1. NoFile.rules[r] = Absent /\ CutInside.rules[r] = Absent /\ Written.rules[r] = memo[r]
  BY DEF NoFile, NoRules, CutInside, Written
<1>2. \A n : CutAfter(n).rules[r] \in {Absent, memo[r]}
  BY DEF CutAfter
<1> QED BY <1>1, <1>2, FileStep DEF FileCut

\* A process that is gone leaves the first state of the next one.
LEMMA GoneShape ==
    ASSUME TypeOK, ProcessGone, disk' = disk, edits' = edits, key' = key, runs' = runs,
           cacheFile' \in CacheFile
    PROVE  Shape'
<1>1. Cardinality({}) = 0
  BY FS_EmptySet
<1>2. EmptyTrie \in Trie /\ NoRules \in Rules
  BY DEF EmptyTrie, Trie, NoRules, Rules
<1>3. TypeOK'
  <2>1. memo' \in Rules /\ globalScope' \in Trie
    BY <1>2 DEF ProcessGone
  <2>2. resolved' \in [Label -> Nat]
    BY DEF ProcessGone
  <2>3. visiting' \in BOOLEAN /\ isResolvePhase' \in BOOLEAN
    BY DEF ProcessGone
  <2>4. phase' = "idle" /\ at' = 1 /\ todo' = {} /\ hashed' = Absent /\ packages' = {}
        /\ generated' = {} /\ remaining' = 0 /\ finalized' = {} /\ ended' = 0
    BY DEF ProcessGone
  <2> QED BY <2>1, <2>2, <2>3, <2>4 DEF TypeOK
<1>4. RemainingCountsMarkers'
  BY <1>1 DEF ProcessGone, RemainingCountsMarkers
<1>5. NothingYet' /\ HandledInPackage' /\ NothingResolved' /\ WalkOrder'
  BY DEF ProcessGone, NothingYet, HandledInPackage, NothingResolved, WalkOrder
<1> QED BY <1>3, <1>4, <1>5 DEF Shape

\* A workspace before the first run, with no cache.
LEMMA InitShape == Init => Shape
<1>. SUFFICES ASSUME Init
              PROVE  Shape
  OBVIOUS
<1>1. Cardinality({}) = 0
  BY FS_EmptySet
<1>2. EmptyTrie \in Trie /\ NoRules \in Rules
  BY DEF EmptyTrie, Trie, NoRules, Rules
<1>3. TypeOK
  <2>1. cacheFile \in CacheFile
    BY NoFileIs DEF Init
  <2>2. disk \in [Label -> Source \cup {Absent}]
    BY WorkspaceAssumption DEF Init
  <2>3. memo \in Rules /\ globalScope \in Trie /\ resolved \in [Label -> Nat]
    BY <1>2 DEF Init
  <2>4. visiting \in BOOLEAN /\ isResolvePhase \in BOOLEAN
    BY DEF Init
  <2>5. phase = "idle" /\ at = 1 /\ todo = {} /\ hashed = Absent /\ packages = {} /\ generated = {}
        /\ remaining = 0 /\ finalized = {} /\ ended = 0 /\ runs = 0 /\ edits = 0 /\ key \in Key
    BY DEF Init
  <2> QED BY <2>1, <2>2, <2>3, <2>4, <2>5 DEF TypeOK
<1>4. RemainingCountsMarkers
  BY <1>1 DEF Init, RemainingCountsMarkers
<1>5. NothingYet /\ HandledInPackage /\ NothingResolved /\ WalkOrder
  BY DEF Init, NothingYet, HandledInPackage, NothingResolved, WalkOrder
<1> QED BY <1>3, <1>4, <1>5 DEF Shape
-----------------------------------------------------------------------------
\* The first layer, step by step.
LEMMA ShapeStep == Shape /\ [Next]_vars => Shape'
<1>. SUFFICES ASSUME Shape, [Next]_vars
              PROVE  Shape'
  OBVIOUS
<1>. USE DEF workspace, cursor, symbols, index, resolving
<1>s. TypeOK /\ RemainingCountsMarkers /\ NothingYet /\ HandledInPackage /\ NothingResolved /\ WalkOrder
  BY DEF Shape
<1>1. CASE LoadRule
  <2>1. ASSUME at \in DOMAIN LabelOrder, LabelOrder[at] \in Label, cacheFile.rules[LabelOrder[at]] # Absent,
               memo' = Memoize(memo, LabelOrder[at], cacheFile.rules[LabelOrder[at]]),
               globalScope' = Publish(globalScope, LabelOrder[at], cacheFile.rules[LabelOrder[at]].src)
        PROVE  memo' \in Rules /\ globalScope' \in Trie
    <3>1. cacheFile.rules[LabelOrder[at]] \in Entry
      BY <1>s, <2>1 DEF TypeOK, CacheFile, Rules
    <3> QED BY <1>s, <2>1, <3>1, PublishGrows DEF TypeOK, Rules, Memoize, Entry
  <2>2. memo' \in Rules /\ globalScope' \in Trie
    BY <1>s, <1>1, <2>1, WorkspaceAssumption DEF TypeOK, LoadRule
  <2>3. TypeOK'
    BY <1>s, <1>1, <2>2 DEF TypeOK, LoadRule
  <2>4. RemainingCountsMarkers'
    BY <1>s, <1>1 DEF RemainingCountsMarkers, LoadRule
  <2>5. phase = "load" /\ UNCHANGED <<phase, cursor, index, resolving>>
    BY <1>1 DEF LoadRule
  <2> QED BY <1>s, <2>3, <2>4, <2>5
          DEF Shape, NothingYet, HandledInPackage, NothingResolved, WalkOrder, Generating
<1>2. CASE LoadDone
  <2>1. TypeOK'
    <3>1. phase' = "generate" /\ at' = 1
      BY <1>2 DEF LoadDone
    <3> QED BY <1>s, <1>2, <3>1 DEF TypeOK, LoadDone
  <2>2. RemainingCountsMarkers'
    BY <1>s, <1>2 DEF RemainingCountsMarkers, LoadDone
  <2>3. packages' = {}
    BY <1>s, <1>2 DEF NothingYet, LoadDone
  <2> QED BY <1>s, <1>2, <2>1, <2>2, <2>3
          DEF Shape, LoadDone, NothingYet, HandledInPackage, NothingResolved, WalkOrder, Generating
<1>3. CASE SkipPackage
  <2>1. TypeOK'
    BY <1>s, <1>3 DEF TypeOK, SkipPackage
  <2>2. RemainingCountsMarkers'
    BY <1>s, <1>3 DEF RemainingCountsMarkers, SkipPackage
  <2>3. Visited' = Visited \cup {Walk[at]}
    BY <1>s, <1>3, VisitedNext DEF SkipPackage, Generating
  <2> QED BY <1>s, <1>3, <2>1, <2>2, <2>3
          DEF Shape, SkipPackage, NothingYet, HandledInPackage, NothingResolved, WalkOrder, Generating
<1>4. CASE OpenPackage
  <2>1. TypeOK'
    <3>1. visiting' \in BOOLEAN /\ todo' \subseteq Label
      BY <1>4 DEF OpenPackage, RulesOf
    <3> QED BY <1>s, <1>4, <3>1 DEF TypeOK, OpenPackage
  <2>2. RemainingCountsMarkers'
    BY <1>s, <1>4 DEF RemainingCountsMarkers, OpenPackage
  <2>3. HandledInPackage'
    BY <1>s, <1>4 DEF OpenPackage, HandledInPackage, Generating, RulesOf
  <2> QED BY <1>s, <1>4, <2>1, <2>2, <2>3
          DEF Shape, OpenPackage, NothingYet, NothingResolved, WalkOrder, Generating, Visited
<1>5. CASE ClosePackage
  <2>. DEFINE p == Walk[at]
  <2>1. phase = "generate" /\ at \in DOMAIN Walk /\ todo = {} /\ hashed = Absent
    BY <1>s, <1>5 DEF ClosePackage, Generating, HandledInPackage
  <2>2. p \in Pkg /\ p \notin packages /\ Visited' = Visited \cup {p}
    BY <1>s, <1>5, <2>1, WalkOnce, VisitedNext DEF ClosePackage, WalkOrder
  <2>3. finalized = {} /\ finalized' = {}
    BY <1>s, <1>5, <2>1 DEF NothingResolved, ClosePackage, resolving
  <2>4. remaining' = remaining + 1 /\ packages' = packages \cup {p}
    BY <1>5 DEF ClosePackage, CountPackage
  <2>5. TypeOK'
    <3>1. visiting' \in BOOLEAN
      BY <1>5 DEF ClosePackage
    <3>2. packages' \subseteq Pkg /\ remaining' \in Nat /\ at' \in Nat \ {0}
      BY <1>s, <1>5, <2>2, <2>4 DEF TypeOK, ClosePackage
    <3> QED BY <1>s, <1>5, <3>1, <3>2 DEF TypeOK, ClosePackage
  <2>6. RemainingCountsMarkers'
    <3>1. (packages \ finalized)' = (packages \ finalized) \cup {p}
      BY <2>3, <2>4
    <3>2. p \in Pkg \ (packages \ finalized)
      BY <2>2
    <3> QED BY <1>s, <2>4, <3>1, <3>2, PackagesFinite DEF RemainingCountsMarkers
  <2> QED BY <1>s, <1>5, <2>1, <2>2, <2>4, <2>5, <2>6
          DEF Shape, ClosePackage, NothingYet, HandledInPackage, NothingResolved, WalkOrder
<1>6. CASE GenerateDone
  <2>1. TypeOK'
    BY <1>s, <1>6 DEF TypeOK, GenerateDone
  <2>2. RemainingCountsMarkers'
    BY <1>s, <1>6 DEF RemainingCountsMarkers, GenerateDone
  <2>3. ~visiting /\ finalized = {}
    BY <1>s, <1>6 DEF GenerateDone, HandledInPackage, NothingResolved, Generating
  <2> QED BY <1>s, <1>6, <2>1, <2>2, <2>3
          DEF Shape, GenerateDone, NothingYet, HandledInPackage, NothingResolved, WalkOrder
<1>7. ASSUME NEW r \in Label, HashRule(r)
      PROVE  Shape'
  <2>1. disk[r] \in Source
    BY <1>s, <1>7 DEF TypeOK, HashRule
  <2>2. TypeOK'
    BY <1>s, <1>7, <2>1 DEF TypeOK, HashRule, Hash
  <2>3. RemainingCountsMarkers'
    BY <1>s, <1>7 DEF RemainingCountsMarkers, HashRule
  <2> QED BY <1>s, <1>7, <2>2, <2>3
          DEF Shape, HashRule, NothingYet, HandledInPackage, NothingResolved, WalkOrder, Generating, Visited
<1>8. ASSUME NEW r \in Label, TakeCachedRule(r)
      PROVE  Shape'
  <2>1. TypeOK'
    BY <1>s, <1>8 DEF TypeOK, TakeCachedRule, RuleGenerated
  <2>2. RemainingCountsMarkers'
    BY <1>s, <1>8 DEF RemainingCountsMarkers, TakeCachedRule
  <2> QED BY <1>s, <1>8, <2>1, <2>2
          DEF Shape, TakeCachedRule, RuleGenerated, NothingYet, HandledInPackage, NothingResolved, WalkOrder,
              Generating, Visited
<1>9. ASSUME NEW r \in Label, ParseRule(r)
      PROVE  Shape'
  <2>1. disk[r] \in Source /\ hashed \in Hash
    BY <1>s, <1>9 DEF TypeOK, ParseRule
  <2>2. memo' \in Rules /\ globalScope' \in Trie
    BY <1>s, <1>9, <2>1, PublishGrows DEF TypeOK, ParseRule, Rules, Memoize, ParsedEntry, Entry, Hash
  <2>3. TypeOK'
    BY <1>s, <1>9, <2>2 DEF TypeOK, ParseRule, RuleGenerated
  <2>4. RemainingCountsMarkers'
    BY <1>s, <1>9 DEF RemainingCountsMarkers, ParseRule
  <2> QED BY <1>s, <1>9, <2>3, <2>4
          DEF Shape, ParseRule, RuleGenerated, NothingYet, HandledInPackage, NothingResolved, WalkOrder,
              Generating, Visited
<1>10. ASSUME NEW r \in Label, SkipRule(r)
       PROVE  Shape'
  <2>1. TypeOK'
    BY <1>s, <1>10 DEF TypeOK, SkipRule, ScopeAfterError
  <2>2. RemainingCountsMarkers'
    BY <1>s, <1>10 DEF RemainingCountsMarkers, SkipRule
  <2> QED BY <1>s, <1>10, <2>1, <2>2
          DEF Shape, SkipRule, NothingYet, HandledInPackage, NothingResolved, WalkOrder, Generating, Visited
<1>11. ASSUME NEW r \in Label, ResolveRule(r)
       PROVE  Shape'
  <2>1. TypeOK'
    <3>1. cacheFile' \in CacheFile
      BY <1>s, FileType
    <3> QED BY <1>s, <1>11, <3>1 DEF TypeOK, ResolveRule, OnResolve, OnEnd
  <2>2. RemainingCountsMarkers'
    BY <1>s, <1>11 DEF RemainingCountsMarkers, ResolveRule
  <2> QED BY <1>s, <1>11, <2>1, <2>2
          DEF Shape, ResolveRule, NothingYet, HandledInPackage, NothingResolved, WalkOrder, Generating,
              Resolving, Visited
<1>12. CASE ResolveMarker
  <2>. DEFINE p == Walk[at]
  <2>1. phase = "resolve" /\ at \in DOMAIN Walk /\ p \in packages
    BY <1>12 DEF ResolveMarker, Resolving
  <2>2. p \in packages \ finalized /\ Visited' = Visited \cup {p}
    BY <1>s, <1>12, <2>1, WalkOnce, VisitedNext DEF ResolveMarker, WalkOrder
  <2>3. remaining' = remaining - 1 /\ packages' = packages /\ finalized' = finalized \cup {p}
    BY <1>12 DEF ResolveMarker, UncountPackage
  <2>4. RemainingCountsMarkers'
    <3>1. (packages \ finalized)' = (packages \ finalized) \ {p}
      BY <2>3
    <3> QED BY <1>s, <2>2, <2>3, <3>1, PackagesFinite DEF RemainingCountsMarkers
  <2>5. TypeOK'
    <3>1. cacheFile' \in CacheFile
      BY <1>s, FileType
    <3>2. remaining' \in Nat
      <4>1. IsFiniteSet(packages \ finalized)
        BY <1>s, PackagesFinite
      <4>2. Cardinality((packages \ finalized) \ {p}) = Cardinality(packages \ finalized) - 1
        BY <1>s, <2>2, PackagesFinite
      <4>3. Cardinality((packages \ finalized) \ {p}) \in Nat
        BY <4>1, FS_CardinalityType, FS_RemoveElement
      <4> QED BY <1>s, <2>3, <4>2, <4>3 DEF RemainingCountsMarkers
    <3>3. resolved' \in [Label -> Nat]
      BY <1>s, <1>12 DEF TypeOK, ResolveMarker, Finalize
    <3> QED BY <1>s, <1>12, <2>1, <2>3, <3>1, <3>2, <3>3 DEF TypeOK, ResolveMarker, OnResolve, OnEnd
  <2> QED BY <1>s, <1>12, <2>1, <2>2, <2>3, <2>4, <2>5
          DEF Shape, ResolveMarker, NothingYet, HandledInPackage, NothingResolved, WalkOrder, Generating
<1>13. CASE NothingToResolve
  <2>1. TypeOK'
    BY <1>s, <1>13 DEF TypeOK, NothingToResolve
  <2>2. RemainingCountsMarkers'
    BY <1>s, <1>13 DEF RemainingCountsMarkers, NothingToResolve
  <2>3. Visited' = Visited \cup {Walk[at]}
    BY <1>s, <1>13, VisitedNext DEF NothingToResolve, Resolving
  <2> QED BY <1>s, <1>13, <2>1, <2>2, <2>3
          DEF Shape, NothingToResolve, NothingYet, HandledInPackage, NothingResolved, WalkOrder, Generating,
              Resolving
<1>14. CASE Exit \/ Die
  BY <1>s, <1>14, GoneShape DEF Exit, Die, TypeOK
<1>15. CASE DieWritingCache
  <2>1. cacheFile' \in CacheFile
    BY <1>s, FileType
  <2> QED BY <1>s, <1>15, <2>1, GoneShape DEF DieWritingCache
<1>16. CASE Start
  <2>1. TypeOK'
    BY <1>s, <1>16 DEF TypeOK, Start
  <2>2. RemainingCountsMarkers'
    BY <1>s, <1>16 DEF RemainingCountsMarkers, Start
  <2> QED BY <1>s, <1>16, <2>1, <2>2
          DEF Shape, Start, NothingYet, HandledInPackage, NothingResolved, WalkOrder, Generating
<1>17. CASE StartRefused
  <2>1. TypeOK'
    BY <1>s, <1>17 DEF TypeOK, StartRefused
  <2>2. RemainingCountsMarkers'
    BY <1>s, <1>17 DEF RemainingCountsMarkers, StartRefused
  <2> QED BY <1>s, <1>17, <2>1, <2>2
          DEF Shape, StartRefused, NothingYet, HandledInPackage, NothingResolved, WalkOrder, Generating, Visited
<1>18. ASSUME NEW r \in Label, Edit(r)
       PROVE  Shape'
  <2>1. TypeOK'
    <3>1. disk' \in [Label -> Source \cup {Absent}] /\ edits' \in Nat
      BY <1>s, <1>18 DEF TypeOK, Edit
    <3> QED BY <1>s, <1>18, <3>1 DEF TypeOK, Edit
  <2>2. RemainingCountsMarkers'
    BY <1>s, <1>18 DEF RemainingCountsMarkers, Edit
  <2> QED BY <1>s, <1>18, <2>1, <2>2
          DEF Shape, Edit, NothingYet, HandledInPackage, NothingResolved, WalkOrder, Generating, Visited
<1>20. CASE RemoveCache
  <2>1. TypeOK'
    <3>1. cacheFile' \in CacheFile
      BY <1>s, FileType
    <3> QED BY <1>s, <1>20, <3>1 DEF TypeOK, RemoveCache
  <2>2. RemainingCountsMarkers'
    BY <1>s, <1>20 DEF RemainingCountsMarkers, RemoveCache
  <2> QED BY <1>s, <1>20, <2>1, <2>2
          DEF Shape, RemoveCache, NothingYet, HandledInPackage, NothingResolved, WalkOrder, Generating, Visited
<1>19. CASE UNCHANGED vars
  <2>1. TypeOK'
    BY <1>s, <1>19 DEF TypeOK, vars
  <2>2. RemainingCountsMarkers'
    BY <1>s, <1>19 DEF RemainingCountsMarkers, vars
  <2> QED BY <1>s, <1>19, <2>1, <2>2
          DEF Shape, vars, NothingYet, HandledInPackage, NothingResolved, WalkOrder, Generating, Visited
<1> QED BY <1>1, <1>2, <1>3, <1>4, <1>5, <1>6, <1>7, <1>8, <1>9, <1>10, <1>11, <1>12, <1>13, <1>14,
           <1>15, <1>16, <1>17, <1>18, <1>19, <1>20
        DEF Next, Step
-----------------------------------------------------------------------------
\* The second layer: what a process knows of the rules.  An idle one knows nothing,
\* what it knows is published, and it knows what it generated.
Published == \A r \in Label : memo[r] # Absent => \A n \in Defines[memo[r].src] : globalScope[n] # NoSymbol

NothingKnown == phase = "idle" => memo = NoRules

GeneratedKnown == \A r \in generated : memo[r] # Absent

\* Rules of a file that reads another key are not loaded.
OwnKeyOnly ==
    phase \in {"load", "generate"} /\ cacheFile.key # key => {r \in Label : memo[r] # Absent} \subseteq generated

\* A workspace that is left alone: digests are up to date.
HashedHonest ==
    ~EditsDuringRun =>
        /\ hashed # Absent => hashed.sha = disk[hashed.rule]
        /\ CacheHonest

Knowledge ==
    /\ Published
    /\ NothingKnown
    /\ GeneratedKnown
    /\ OwnKeyOnly
    /\ HashedHonest
    /\ AnalysisIsCurrent

\* A process that is gone leaves nothing but the cache file.
LEMMA GoneKnowledge ==
    ASSUME TypeOK, Knowledge, ProcessGone, disk' = disk,
           \A r \in Label : cacheFile'.rules[r] \in {Absent, memo[r], cacheFile.rules[r]}
    PROVE  Knowledge'
<1>1. memo' = NoRules /\ phase' = "idle" /\ generated' = {} /\ hashed' = Absent
  BY DEF ProcessGone
<1>2. \A r \in Label : memo'[r] = Absent
  BY <1>1 DEF NoRules
<1>3. ASSUME ~EditsDuringRun
      PROVE  CacheHonest'
  BY <1>2, <1>3 DEF Knowledge, HashedHonest, CacheHonest
<1> QED BY <1>1, <1>2, <1>3
        DEF Knowledge, Published, NothingKnown, GeneratedKnown, OwnKeyOnly, HashedHonest, AnalysisIsCurrent

\* At first neither a process nor the file knows any rule.
LEMMA InitKnowledge == Init => Knowledge
<1>. SUFFICES ASSUME Init
              PROVE  Knowledge
  OBVIOUS
<1>1. \A r \in Label : memo[r] = Absent /\ cacheFile.rules[r] = Absent
  BY DEF Init, NoFile, NoRules
<1> QED BY <1>1 DEF Init, Knowledge, Published, NothingKnown, GeneratedKnown, OwnKeyOnly, HashedHonest,
                    CacheHonest, AnalysisIsCurrent

\* Most steps change nothing that a process knows.
LEMMA KnowledgeKept ==
    ASSUME Knowledge,
           UNCHANGED <<memo, globalScope, generated, disk, cacheFile, key>>,
           phase' # "idle" \/ phase = "idle",
           phase' \in {"load", "generate"} => phase \in {"load", "generate"},
           hashed' = hashed \/ hashed' = Absent
    PROVE  Knowledge'
BY DEF Knowledge, Published, NothingKnown, GeneratedKnown, OwnKeyOnly, HashedHonest, CacheHonest,
       AnalysisIsCurrent

\* The second layer, step by step.
LEMMA KnowledgeStep == Shape /\ Knowledge /\ [Next]_vars => Knowledge'
<1>. SUFFICES ASSUME Shape, Knowledge, [Next]_vars
              PROVE  Knowledge'
  OBVIOUS
<1>. USE DEF workspace, cursor, symbols, index, resolving
<1>s. TypeOK /\ HandledInPackage
  BY DEF Shape
<1>k. Published /\ NothingKnown /\ GeneratedKnown /\ OwnKeyOnly /\ HashedHonest /\ AnalysisIsCurrent
  BY DEF Knowledge
<1>1. CASE LoadRule
  <2>. DEFINE r == LabelOrder[at]
              entry == cacheFile.rules[r]
  <2>1. r \in Label
    BY <1>1, WorkspaceAssumption DEF LoadRule
  <2>2. CASE entry = Absent
    BY <1>1, <2>2, KnowledgeKept DEF LoadRule
  <2>3. CASE entry # Absent
    <3>1. entry \in Entry
      BY <1>s, <2>1, <2>3 DEF TypeOK, CacheFile, Rules
    <3>2. memo' = [memo EXCEPT ![r] = entry] /\ globalScope' = Publish(globalScope, r, entry.src)
      BY <1>1, <2>3 DEF LoadRule, Memoize
    <3>3. \A q \in Label : memo'[q] = IF q = r THEN entry ELSE memo[q]
      BY <1>s, <2>1, <3>2 DEF TypeOK, Rules
    <3>4. \A q \in Label : memo[q] # Absent => memo[q].src \in Source
      BY <1>s DEF TypeOK, Rules, Entry
    <3>5. Published'
      <4>. SUFFICES ASSUME NEW q \in Label, memo'[q] # Absent, NEW n \in Defines[memo'[q].src]
                    PROVE  globalScope'[n] # NoSymbol
        BY DEF Published
      <4>1. n \in Name
        BY <3>1, <3>3, <3>4, WorkspaceAssumption DEF Entry
      <4> QED BY <1>s, <1>k, <2>1, <3>1, <3>2, <3>3, <4>1, PublishGrows DEF TypeOK, Entry, Published
    <3>6. generated' = generated /\ generated = {} /\ hashed' = hashed /\ disk' = disk
          /\ phase' = "load" /\ cacheFile' = cacheFile /\ cacheFile.key = key /\ key' = key
      BY <1>1 DEF LoadRule, KeyMatches, Shape, NothingYet
    <3>7. HashedHonest'
      <4>. SUFFICES ASSUME ~EditsDuringRun
                    PROVE  (hashed # Absent => hashed.sha = disk[hashed.rule]) /\ CacheHonest'
        BY <3>6 DEF HashedHonest
      <4> QED BY <1>k, <2>3, <3>3, <3>6 DEF HashedHonest, CacheHonest
    <3> QED BY <3>5, <3>6, <3>7 DEF Knowledge, NothingKnown, GeneratedKnown, OwnKeyOnly, AnalysisIsCurrent
  <2> QED BY <2>2, <2>3
<1>2. CASE LoadDone \/ SkipPackage \/ OpenPackage \/ ClosePackage \/ GenerateDone \/ NothingToResolve
  BY <1>2, KnowledgeKept
  DEF LoadDone, SkipPackage, OpenPackage, ClosePackage, GenerateDone, NothingToResolve, Generating, Resolving
<1>3. ASSUME NEW r \in Label, HashRule(r)
      PROVE  Knowledge'
  <2>1. hashed' = [rule |-> r, sha |-> disk[r]] /\ phase' = phase
        /\ UNCHANGED <<memo, globalScope, generated, disk, cacheFile, key>>
    BY <1>3 DEF HashRule
  <2>2. HashedHonest'
    BY <1>k, <2>1 DEF HashedHonest, CacheHonest
  <2> QED BY <1>k, <2>1, <2>2
          DEF Knowledge, Published, NothingKnown, GeneratedKnown, OwnKeyOnly, AnalysisIsCurrent
<1>4. ASSUME NEW r \in Label, TakeCachedRule(r)
      PROVE  Knowledge'
  <2>1. /\ generated' = generated \cup {r} /\ hashed' = Absent /\ phase' = phase
        /\ UNCHANGED <<memo, globalScope, disk, cacheFile, key>>
        /\ hashed # Absent /\ hashed.rule = r /\ memo[r] # Absent /\ memo[r].sha = hashed.sha
    BY <1>4 DEF TakeCachedRule, RuleGenerated, CacheHit
  <2>2. AnalysisIsCurrent'
    BY <1>k, <2>1 DEF HashedHonest, CacheHonest, AnalysisIsCurrent
  <2>3. HashedHonest'
    BY <1>k, <2>1 DEF HashedHonest, CacheHonest
  <2> QED BY <1>k, <2>1, <2>2, <2>3 DEF Knowledge, Published, NothingKnown, GeneratedKnown, OwnKeyOnly
<1>5. ASSUME NEW r \in Label, ParseRule(r)
      PROVE  Knowledge'
  <2>. DEFINE entry == ParsedEntry(r)
  <2>1. disk[r] \in Source /\ hashed \in Hash /\ hashed.rule = r
    BY <1>s, <1>5 DEF TypeOK, ParseRule
  <2>2. entry \in Entry /\ entry # Absent /\ entry.src = disk[r] /\ entry.sha = hashed.sha
    BY <2>1, WorkspaceAssumption DEF ParsedEntry, Entry, Hash
  <2>3. /\ memo' = [memo EXCEPT ![r] = entry] /\ globalScope' = Publish(globalScope, r, disk[r])
        /\ generated' = generated \cup {r} /\ hashed' = Absent /\ phase' = phase /\ phase = "generate"
        /\ UNCHANGED <<disk, cacheFile, key>> /\ hashed # Absent
    BY <1>5 DEF ParseRule, Memoize, RuleGenerated, Generating
  <2>. HIDE DEF entry
  <2>4. \A q \in Label : memo'[q] = IF q = r THEN entry ELSE memo[q]
    BY <1>s, <2>3 DEF TypeOK, Rules
  <2>5. Published'
    <3>. SUFFICES ASSUME NEW q \in Label, memo'[q] # Absent, NEW n \in Defines[memo'[q].src]
                  PROVE  globalScope'[n] # NoSymbol
      BY DEF Published
    <3>1. memo'[q].src \in Source /\ n \in Name
      BY <1>s, <2>1, <2>2, <2>4, WorkspaceAssumption DEF TypeOK, Rules, Entry
    <3> QED BY <1>s, <1>k, <2>1, <2>2, <2>3, <2>4, <3>1, PublishGrows DEF TypeOK, Published
  <2>6. HashedHonest' /\ AnalysisIsCurrent'
    BY <1>s, <1>k, <2>1, <2>2, <2>3, <2>4 DEF TypeOK, HashedHonest, CacheHonest, AnalysisIsCurrent
  <2> QED BY <1>s, <1>k, <2>2, <2>3, <2>4, <2>5, <2>6
          DEF TypeOK, Knowledge, NothingKnown, GeneratedKnown, OwnKeyOnly
<1>6. ASSUME NEW r \in Label, SkipRule(r)
      PROVE  Knowledge'
  BY <1>6, KnowledgeKept DEF SkipRule, ScopeAfterError, Generating
<1>7. ASSUME phase = "resolve", phase' = phase,
             UNCHANGED <<memo, globalScope, generated, disk, key, hashed>>
      PROVE  Knowledge'
  BY <1>k, <1>7, FileFrom
  DEF Knowledge, Published, NothingKnown, GeneratedKnown, OwnKeyOnly, HashedHonest, CacheHonest, AnalysisIsCurrent
<1>8. ASSUME NEW r \in Label, ResolveRule(r)
      PROVE  Knowledge'
  BY <1>7, <1>8 DEF ResolveRule, OnResolve, Resolving
<1>9. CASE ResolveMarker
  BY <1>7, <1>9 DEF ResolveMarker, OnResolve, Resolving
<1>10. CASE Exit \/ Die \/ DieWritingCache
  BY <1>s, <1>10, FileFrom, GoneKnowledge DEF Exit, Die, DieWritingCache
<1>11. CASE Start
  <2>1. phase = "idle" /\ phase' = "load" /\ UNCHANGED <<memo, globalScope, generated, disk, cacheFile, hashed>>
    BY <1>11 DEF Start
  <2>2. \A r \in Label : memo[r] = Absent
    BY <1>k, <2>1 DEF NothingKnown, NoRules
  <2> QED BY <1>k, <2>1, <2>2
          DEF Knowledge, Published, NothingKnown, GeneratedKnown, OwnKeyOnly, HashedHonest, CacheHonest,
              AnalysisIsCurrent
<1>12. CASE StartRefused \/ UNCHANGED vars
  BY <1>12, KnowledgeKept DEF StartRefused, vars
<1>13. ASSUME NEW r \in Label, Edit(r)
       PROVE  Knowledge'
  <2>1. UNCHANGED <<memo, globalScope, generated, cacheFile, key, phase, hashed>>
        /\ (phase = "idle" \/ EditsDuringRun)
    BY <1>13 DEF Edit
  <2>2. phase = "idle" => hashed = Absent /\ generated = {}
    BY <1>s DEF HandledInPackage, Generating, Shape, NothingYet
  <2> QED BY <1>k, <2>1, <2>2
          DEF Knowledge, Published, NothingKnown, GeneratedKnown, OwnKeyOnly, HashedHonest, CacheHonest,
              AnalysisIsCurrent
<1>14. CASE RemoveCache
  <2>1. phase = "idle" /\ phase' = phase /\ UNCHANGED <<memo, globalScope, generated, disk, key, hashed>>
    BY <1>14 DEF RemoveCache
  <2> QED BY <1>k, <2>1, FileFrom
          DEF Knowledge, Published, NothingKnown, GeneratedKnown, OwnKeyOnly, HashedHonest, CacheHonest,
              AnalysisIsCurrent
<1> QED BY <1>1, <1>2, <1>3, <1>4, <1>5, <1>6, <1>8, <1>9, <1>10, <1>11, <1>12, <1>13, <1>14 DEF Next, Step
-----------------------------------------------------------------------------
\* The third layer: the resolve phase.  A generated rule belongs to a package that
\* was generated or is at hand.
GeneratedInPackages ==
    /\ \A r \in generated : PkgOf[r] \in packages \/ (visiting /\ PkgOf[r] = Walk[at])
    /\ todo \cap generated = {}

\* The marker of a package resolves its rules a second time, nothing else does.
ResolvedByMarker ==
    \A r \in Label :
        /\ resolved[r] > 0 => r \in generated
        /\ resolved[r] <= 2
        /\ PkgOf[r] \notin finalized => resolved[r] <= 1
        /\ PkgOf[r] \in finalized /\ r \in generated => resolved[r] = 2

Progress ==
    /\ GeneratedInPackages
    /\ ResolvedByMarker
    /\ EndIsLast

\* Before the first run, and after each of them.
LEMMA FreshProgress ==
    ASSUME packages = {}, generated = {}, finalized = {}, ended = 0, resolved = [r \in Label |-> 0]
    PROVE  Progress
BY DEF Progress, GeneratedInPackages, ResolvedByMarker, EndIsLast

\* A process that is gone leaves nothing resolved.
LEMMA GoneProgress ==
    ASSUME ProcessGone
    PROVE  Progress'
BY DEF ProcessGone, Progress, GeneratedInPackages, ResolvedByMarker, EndIsLast

\* While nothing is resolved, only the rules and the packages matter.
LEMMA NothingResolvedProgress ==
    ASSUME NothingResolved', phase' # "resolve", GeneratedInPackages'
    PROVE  Progress'
BY DEF NothingResolved, Progress, GeneratedInPackages, ResolvedByMarker, EndIsLast

\* The third layer, step by step.
LEMMA ProgressStep == Shape /\ Shape' /\ Progress /\ [Next]_vars => Progress'
<1>. SUFFICES ASSUME Shape, Shape', Progress, [Next]_vars
              PROVE  Progress'
  OBVIOUS
<1>. USE DEF workspace, cursor, symbols, index, resolving
<1>s. /\ TypeOK /\ RemainingCountsMarkers /\ NothingYet /\ HandledInPackage /\ NothingResolved /\ WalkOrder
      /\ NothingResolved'
  BY DEF Shape
<1>p. GeneratedInPackages /\ ResolvedByMarker /\ EndIsLast
  BY DEF Progress
<1>1. ASSUME UNCHANGED <<generated, packages, todo, visiting, at, resolved, finalized, ended>>
      PROVE  Progress'
  BY <1>p, <1>1 DEF Progress, GeneratedInPackages, ResolvedByMarker, EndIsLast
<1>2. CASE LoadRule \/ LoadDone
  <2>1. phase' # "resolve" /\ generated' = {} /\ todo' = todo
    BY <1>s, <1>2 DEF LoadRule, LoadDone, NothingYet
  <2>2. GeneratedInPackages'
    BY <2>1 DEF GeneratedInPackages
  <2> QED BY <1>s, <2>1, <2>2, NothingResolvedProgress
<1>3. CASE SkipPackage
  <2>1. ~visiting /\ phase' # "resolve" /\ UNCHANGED <<generated, packages, todo, visiting>>
    BY <1>s, <1>3 DEF SkipPackage, Generating, HandledInPackage
  <2>2. GeneratedInPackages'
    BY <1>p, <2>1 DEF GeneratedInPackages
  <2> QED BY <1>s, <2>1, <2>2, NothingResolvedProgress
<1>4. CASE OpenPackage
  <2>1. /\ ~visiting /\ phase = "generate" /\ phase' = phase /\ at \in DOMAIN Walk
        /\ todo' \subseteq RulesOf(Walk[at]) /\ UNCHANGED <<generated, packages, at>>
    BY <1>4 DEF OpenPackage, Generating
  <2>2. Walk[at] \notin packages
    BY <1>s, <2>1, WalkOnce DEF WalkOrder
  <2>3. GeneratedInPackages'
    BY <1>p, <2>1, <2>2 DEF GeneratedInPackages, RulesOf
  <2> QED BY <1>s, <2>1, <2>3, NothingResolvedProgress
<1>5. CASE ClosePackage
  <2>1. phase' # "resolve" /\ packages' = packages \cup {Walk[at]} /\ UNCHANGED <<generated, todo>>
    BY <1>5 DEF ClosePackage, Generating
  <2>2. GeneratedInPackages'
    BY <1>p, <2>1 DEF GeneratedInPackages
  <2> QED BY <1>s, <2>1, <2>2, NothingResolvedProgress
<1>6. CASE GenerateDone
  <2>1. ~visiting /\ UNCHANGED <<generated, packages, todo, visiting, resolved, finalized, ended>>
    BY <1>s, <1>6 DEF GenerateDone, HandledInPackage, Generating
  <2> QED BY <1>p, <2>1 DEF Progress, GeneratedInPackages, ResolvedByMarker, EndIsLast
<1>7. ASSUME NEW r \in Label, HashRule(r) \/ SkipRule(r)
      PROVE  Progress'
  <2>1. phase' # "resolve" /\ todo' \subseteq todo /\ UNCHANGED <<generated, packages, visiting, at>>
    BY <1>7 DEF HashRule, SkipRule, Generating
  <2>2. GeneratedInPackages'
    BY <1>p, <2>1 DEF GeneratedInPackages
  <2> QED BY <1>s, <2>1, <2>2, NothingResolvedProgress
<1>8. ASSUME NEW r \in Label, TakeCachedRule(r) \/ ParseRule(r)
      PROVE  Progress'
  <2>1. /\ phase' # "resolve" /\ UNCHANGED <<packages, visiting, at>> /\ todo' = todo \ {r}
        /\ generated' = generated \cup {r} /\ hashed # Absent /\ hashed.rule = r
    BY <1>8 DEF TakeCachedRule, ParseRule, RuleGenerated, Generating
  <2>2. visiting /\ PkgOf[r] = Walk[at]
    BY <1>s, <2>1 DEF HandledInPackage, RulesOf
  <2>3. GeneratedInPackages'
    BY <1>p, <2>1, <2>2 DEF GeneratedInPackages
  <2> QED BY <1>s, <2>1, <2>3, NothingResolvedProgress
<1>9. ASSUME NEW r \in Label, ResolveRule(r)
      PROVE  Progress'
  <2>1. /\ phase = "resolve" /\ at \in DOMAIN Walk /\ Walk[at] \in packages
        /\ r \in generated /\ PkgOf[r] = Walk[at] /\ resolved[r] = 0
        /\ resolved' = [resolved EXCEPT ![r] = @ + 1]
        /\ UNCHANGED <<generated, packages, todo, visiting, at, finalized>>
        /\ ended' = OnEnd(remaining)
    BY <1>9 DEF ResolveRule, Resolving, GeneratedIn, RulesOf
  <2>2. Walk[at] \in packages \ finalized
    BY <1>s, <2>1, WalkOnce DEF WalkOrder
  <2>3. ended' = ended
    <3>1. packages \ finalized # {}
      BY <2>2
    <3>2. Cardinality(packages \ finalized) # 0
      BY <1>s, <3>1, PackagesFinite, FS_EmptySet
    <3> QED BY <1>s, <2>1, <3>2 DEF RemainingCountsMarkers, OnEnd
  <2>4. ResolvedByMarker'
    BY <1>s, <1>p, <2>1, <2>2 DEF TypeOK, ResolvedByMarker
  <2> QED BY <1>p, <2>1, <2>3, <2>4 DEF Progress, GeneratedInPackages, EndIsLast
<1>10. CASE ResolveMarker
  <2>. DEFINE p == Walk[at]
  <2>1. /\ phase = "resolve" /\ at \in DOMAIN Walk /\ p \in packages
        /\ \A r \in generated : PkgOf[r] = p => resolved[r] = 1
        /\ resolved' = [r \in Label |-> IF r \in GeneratedIn(p) THEN resolved[r] + 1 ELSE resolved[r]]
        /\ finalized' = finalized \cup {p}
        /\ UNCHANGED <<generated, packages, todo, visiting>>
        /\ ended' = OnEnd(remaining - 1)
    BY <1>s, <1>10
    DEF ResolveMarker, Resolving, MarkerTurn, GeneratedIn, RulesOf, Finalize, UncountPackage, TypeOK
  <2>2. p \in packages \ finalized /\ finalized \subseteq packages /\ ~visiting
    BY <1>s, <2>1, WalkOnce DEF WalkOrder, HandledInPackage, Generating
  <2>3. (remaining - 1 = 0) <=> (finalized' = packages)
    <3>1. IsFiniteSet((packages \ finalized) \ {p})
      BY <1>s, PackagesFinite, FS_RemoveElement
    <3>2. Cardinality((packages \ finalized) \ {p}) = remaining - 1
      BY <1>s, <2>2, PackagesFinite DEF RemainingCountsMarkers
    <3>3. (remaining - 1 = 0) <=> ((packages \ finalized) \ {p} = {})
      BY <3>1, <3>2, FS_EmptySet
    <3> QED BY <2>1, <2>2, <3>3
  <2>4. ended = 0
    BY <1>s, <1>p, <2>2 DEF EndIsLast, TypeOK
  <2>5. EndIsLast'
    BY <2>1, <2>2, <2>3, <2>4 DEF EndIsLast, OnEnd
  <2>6. \A r \in Label : /\ PkgOf[r] = p /\ r \in generated => resolved'[r] = 2
                         /\ PkgOf[r] # p \/ r \notin generated => resolved'[r] = resolved[r]
    BY <2>1 DEF GeneratedIn, RulesOf
  <2>7. ResolvedByMarker'
    BY <1>s, <1>p, <2>1, <2>6 DEF TypeOK, ResolvedByMarker
  <2>8. GeneratedInPackages'
    BY <1>p, <2>1, <2>2 DEF GeneratedInPackages
  <2> QED BY <2>5, <2>7, <2>8 DEF Progress
<1>11. CASE NothingToResolve
  <2>1. ~visiting /\ UNCHANGED <<generated, packages, todo, visiting, resolved, finalized, ended>>
    BY <1>s, <1>11 DEF NothingToResolve, Resolving, HandledInPackage, Generating
  <2> QED BY <1>p, <2>1 DEF Progress, GeneratedInPackages, ResolvedByMarker, EndIsLast
<1>12. CASE Exit \/ Die \/ DieWritingCache
  BY <1>12, GoneProgress DEF Exit, Die, DieWritingCache
<1>13. ASSUME NEW r \in Label, Edit(r)
       PROVE  Progress'
  BY <1>1, <1>13 DEF Edit
<1>14. CASE Start \/ StartRefused \/ RemoveCache \/ UNCHANGED vars
  BY <1>1, <1>14 DEF Start, StartRefused, RemoveCache, vars
<1> QED BY <1>2, <1>3, <1>4, <1>5, <1>6, <1>7, <1>8, <1>9, <1>10, <1>11, <1>12, <1>13, <1>14
        DEF Next, Step
-----------------------------------------------------------------------------
\* A rule that is not generated yet is known as the file has it: while the file is
\* loaded, and from then on as far as it was loaded.
Loaded ==
    /\ phase = "load" =>
          /\ \A r \in Label : memo[r] \in {Absent, cacheFile.rules[r]}
          /\ KeyMatches =>
                \A i \in DOMAIN LabelOrder :
                    i < at => memo[LabelOrder[i]] = cacheFile.rules[LabelOrder[i]]
    /\ phase = "generate" /\ KeyMatches =>
          \A r \in Label \ generated : memo[r] = cacheFile.rules[r]

\* Loading and generating, step by step.
LEMMA LoadedStep == Shape /\ Knowledge /\ Progress /\ Loaded /\ [Next]_vars => Loaded'
<1>. SUFFICES ASSUME Shape, Knowledge, Progress, Loaded, [Next]_vars
              PROVE  Loaded'
  OBVIOUS
<1>. USE DEF workspace, cursor, symbols, index, resolving
<1>s. TypeOK /\ HandledInPackage
  BY DEF Shape
<1>1. ASSUME UNCHANGED <<memo, cacheFile, key, phase, generated>>, at' = at \/ phase # "load"
      PROVE  Loaded'
  BY <1>1 DEF Loaded, KeyMatches
<1>2. CASE LoadRule
  <2>. DEFINE r == LabelOrder[at]
              entry == cacheFile.rules[r]
  <2>1. r \in Label /\ phase = "load" /\ phase' = "load" /\ cacheFile' = cacheFile /\ key' = key
        /\ KeyMatches /\ at' = at + 1 /\ at \in Nat
    BY <1>s, <1>2, WorkspaceAssumption DEF LoadRule, TypeOK
  <2>2. memo' = IF entry = Absent THEN memo ELSE [memo EXCEPT ![r] = entry]
    BY <1>2 DEF LoadRule, Memoize
  <2>3. \A q \in Label : memo'[q] = IF q = r THEN entry ELSE memo[q]
    BY <1>s, <2>1, <2>2 DEF Loaded, TypeOK, Rules
  <2>4. \A i \in DOMAIN LabelOrder : LabelOrder[i] \in Label /\ (i < at + 1 => i < at \/ i = at)
    BY <2>1, WorkspaceAssumption
  <2> QED BY <2>1, <2>3, <2>4 DEF Loaded
<1>3. CASE LoadDone
  <2>1. phase = "load" /\ phase' = "generate" /\ UNCHANGED <<memo, cacheFile, key, generated>>
        /\ (at \notin DOMAIN LabelOrder \/ ~KeyMatches)
    BY <1>3 DEF LoadDone
  <2>2. ASSUME KeyMatches, NEW r \in Label
        PROVE  memo[r] = cacheFile.rules[r]
    <3>1. PICK i \in DOMAIN LabelOrder : LabelOrder[i] = r
      BY WorkspaceAssumption
    <3>2. i < at
      BY <1>s, <2>1, <2>2, WorkspaceAssumption DEF TypeOK
    <3> QED BY <2>1, <2>2, <3>1, <3>2 DEF Loaded
  <2> QED BY <2>1, <2>2 DEF Loaded, KeyMatches
<1>4. CASE SkipPackage \/ OpenPackage \/ ClosePackage
  BY <1>1, <1>4 DEF SkipPackage, OpenPackage, ClosePackage, Generating
<1>5. ASSUME NEW r \in Label, HashRule(r) \/ SkipRule(r)
      PROVE  Loaded'
  BY <1>1, <1>5 DEF HashRule, SkipRule
<1>6. ASSUME NEW r \in Label, TakeCachedRule(r)
      PROVE  Loaded'
  <2>1. phase = "generate" /\ phase' = phase /\ UNCHANGED <<memo, cacheFile, key>>
        /\ generated' = generated \cup {r}
    BY <1>6 DEF TakeCachedRule, RuleGenerated, Generating
  <2> QED BY <2>1 DEF Loaded, KeyMatches
<1>7. ASSUME NEW r \in Label, ParseRule(r)
      PROVE  Loaded'
  <2>1. phase = "generate" /\ phase' = phase /\ UNCHANGED <<cacheFile, key>>
        /\ generated' = generated \cup {r} /\ memo' = [memo EXCEPT ![r] = ParsedEntry(r)]
    BY <1>7 DEF ParseRule, RuleGenerated, Generating, Memoize
  <2> QED BY <1>s, <2>1 DEF Loaded, KeyMatches, TypeOK, Rules
<1>8. CASE phase' \notin {"load", "generate"}
  BY <1>8 DEF Loaded
<1>9. CASE GenerateDone \/ ResolveMarker \/ NothingToResolve \/ Exit \/ Die \/ DieWritingCache
  BY <1>8, <1>9
  DEF GenerateDone, ResolveMarker, NothingToResolve, Resolving, Exit, Die, DieWritingCache, ProcessGone
<1>10. ASSUME NEW r \in Label, ResolveRule(r)
       PROVE  Loaded'
  BY <1>8, <1>10 DEF ResolveRule, Resolving
<1>11. CASE Start
  <2>1. phase = "idle" /\ phase' = "load" /\ memo' = memo /\ at' = at
    BY <1>11 DEF Start
  <2>2. \A r \in Label : memo[r] = Absent
    BY <2>1 DEF Knowledge, NothingKnown, NoRules
  <2>3. at = 1
    BY <2>1 DEF Shape, NothingYet
  <2>4. \A i \in DOMAIN LabelOrder : ~(i < 1)
    BY WorkspaceAssumption
  <2> QED BY <2>1, <2>2, <2>3, <2>4 DEF Loaded
<1>12. CASE StartRefused \/ UNCHANGED vars
  BY <1>1, <1>12 DEF StartRefused, vars
<1>13. ASSUME NEW r \in Label, Edit(r)
       PROVE  Loaded'
  BY <1>1, <1>13 DEF Edit
<1>14. CASE RemoveCache
  BY <1>14 DEF RemoveCache, Loaded
<1> QED BY <1>2, <1>3, <1>4, <1>5, <1>6, <1>7, <1>9, <1>10, <1>11, <1>12, <1>13, <1>14 DEF Next, Step
-----------------------------------------------------------------------------
\* The inductive invariant.
IInv ==
    /\ Shape
    /\ Knowledge
    /\ Progress
    /\ Loaded

\* It holds before the first run ...
LEMMA InitInv == Init => IInv
<1>1. Init => Progress
  BY FreshProgress DEF Init
<1>2. Init => Loaded
  BY DEF Init, Loaded
<1> QED BY <1>1, <1>2, InitShape, InitKnowledge DEF IInv

\* ... and every step preserves it.
LEMMA StepInv == IInv /\ [Next]_vars => IInv'
BY ShapeStep, KnowledgeStep, ProgressStep, LoadedStep DEF IInv

\* In the resolve phase every package of a generated rule waits for its marker or had it.
LEMMA InvSecondPass == IInv => SecondPassAfterFirst
<1>. SUFFICES ASSUME IInv, NEW r \in Label
              PROVE  /\ resolved[r] <= 2
                     /\ resolved[r] > 0 => r \in generated
                     /\ resolved[r] = 2 => \A q \in GeneratedIn(PkgOf[r]) : resolved[q] = 2
                     /\ ended = 1 /\ r \in generated => resolved[r] = 2
  BY DEF SecondPassAfterFirst
<1>1. ResolvedByMarker /\ GeneratedInPackages /\ EndIsLast /\ TypeOK /\ NothingResolved
  BY DEF IInv, Progress, Shape
<1>2. ASSUME resolved[r] = 2, NEW q \in GeneratedIn(PkgOf[r])
      PROVE  resolved[q] = 2
  BY <1>1, <1>2 DEF ResolvedByMarker, GeneratedIn, RulesOf
<1>3. ASSUME ended = 1, r \in generated
      PROVE  resolved[r] = 2
  <2>1. phase = "resolve" /\ finalized = packages
    BY <1>1, <1>3 DEF NothingResolved, EndIsLast
  <2>2. ~visiting
    BY <2>1 DEF IInv, Shape, HandledInPackage, Generating
  <2>3. PkgOf[r] \in finalized
    BY <1>1, <1>3, <2>1, <2>2 DEF GeneratedInPackages
  <2> QED BY <1>1, <1>3, <2>3 DEF ResolvedByMarker
<1> QED BY <1>1, <1>2, <1>3 DEF ResolvedByMarker

\* Every rule that is generated is known, and what is known is published.
LEMMA InvScope == IInv => ScopeKnowsGenerated
BY DEF IInv, Knowledge, Shape, TypeOK, Published, GeneratedKnown, ScopeKnowsGenerated

\* A rule that is about to be parsed is not generated: what the cache had of it is
\* still what the process knows.
LEMMA InvParsed ==
    ASSUME IInv, NEW r \in Label, ParseRule(r)
    PROVE  \/ cacheFile.rules[r] = Absent \/ cacheFile.key # key
           \/ cacheFile.rules[r].sha # hashed.sha
<1>1. phase = "generate" /\ hashed # Absent /\ hashed.rule = r /\ ~CacheHit(r)
  BY DEF ParseRule, Generating
<1>2. r \notin generated
  BY <1>1 DEF IInv, Shape, Progress, HandledInPackage, GeneratedInPackages
<1>3. KeyMatches => memo[r] = cacheFile.rules[r]
  BY <1>1, <1>2 DEF IInv, Loaded
<1>4. memo[r] = Absent \/ memo[r].sha # hashed.sha
  BY <1>1 DEF CacheHit
<1> QED BY <1>3, <1>4 DEF KeyMatches
-----------------------------------------------------------------------------
\* The invariant holds in all runs, with kills and edits at any step.
THEOREM Invariance == Spec => []IInv
BY InitInv, StepInv, PTL DEF Spec

\* Type correctness; remainingPackages is never negative.
THEOREM TypeCorrect == Spec => []TypeOK
<1>1. IInv => TypeOK
  BY DEF IInv, Shape
<1> QED BY <1>1, Invariance, PTL

\* remainingPackages is the number of packages whose marker is still to come.
THEOREM MarkersCounted == Spec => []RemainingCountsMarkers
<1>1. IInv => RemainingCountsMarkers
  BY DEF IInv, Shape
<1> QED BY <1>1, Invariance, PTL

\* onEnd runs once at most, when all packages are finalized and not before.
THEOREM EndOnceAtEnd == Spec => []EndIsLast
<1>1. IInv => EndIsLast
  BY DEF IInv, Progress
<1> QED BY <1>1, Invariance, PTL

\* The second pass over a rule comes after the first pass over its whole package.
THEOREM SecondPassDeferred == Spec => []SecondPassAfterFirst
BY InvSecondPass, Invariance, PTL

\* The symbol table has every name of every generated rule, parsed or cached.
THEOREM NoSymbolMissed == Spec => []ScopeKnowsGenerated
BY InvScope, Invariance, PTL

\* Without edits under a run, a rule is kept under the digest of its own text.
THEOREM CacheIsHonest ==
    ASSUME ~EditsDuringRun
    PROVE  Spec => []CacheHonest
<1>1. IInv => CacheHonest
  BY DEF IInv, Knowledge, HashedHonest
<1> QED BY <1>1, Invariance, PTL

\* Without edits under a run, what is used of a rule is what a parse would give.
THEOREM NothingOutdated == Spec => []AnalysisIsCurrent
<1>1. IInv => AnalysisIsCurrent
  BY DEF IInv, Knowledge
<1> QED BY <1>1, Invariance, PTL

\* The key of a file is that of its writer, or was lost.
FileKey == cacheFile.key \in {cacheFile.writer, NoKey}

LEMMA FileKeyKept == FileKey /\ [Next]_vars => FileKey'
<1>. SUFFICES ASSUME FileKey, [Next]_vars
              PROVE  FileKey'
  OBVIOUS
<1>1. /\ NoFile.key = NoKey /\ CutInside.key = NoKey
      /\ Written.key = Written.writer /\ \A n : CutAfter(n).key = NoKey
  BY DEF NoFile, CutInside, Written, CutAfter
<1> QED BY <1>1, FileStep DEF FileKey, FileCut

\* A file of a writer with another key has no effect, cut short or not, unless it passes
\* for one of the default key.
THEOREM KeyRespected == Spec => []OtherKeyIgnored
<1>1. Init => FileKey
  BY DEF Init, NoFile, FileKey
<1>2. IInv /\ FileKey => OtherKeyIgnored
  BY DEF IInv, Knowledge, OwnKeyOnly, FileKey, PassesForDefault, OtherKeyIgnored
<1> QED BY <1>1, <1>2, FileKeyKept, Invariance, PTL DEF Spec

\* What the cache has is not parsed again.
THEOREM ParserSpared == Spec => ParsedOnlyOnMiss
<1>1. IInv =>
        [\A r \in Label :
            ParseRule(r) =>
               \/ cacheFile.rules[r] = Absent \/ cacheFile.key # key
               \/ cacheFile.rules[r].sha # hashed.sha]_vars
  BY InvParsed
<1> QED BY <1>1, Invariance, PTL DEF Spec, ParsedOnlyOnMiss
-----------------------------------------------------------------------------
(***************************************************************************)
(* A first run of gazelle, which has no cache to load, implements the      *)
(* abstract symbol table, for every workspace, walk and set of names, with *)
(* edits while it runs and with kills at any step.  The refinement mapping *)
(* is that of ColdRun; the invariant says that the process knows no rule   *)
(* but those it generated, so that a put never meets a symbol of the same  *)
(* label, which would replace it and lose its conflicts.                   *)
(***************************************************************************)
\* The only process finds no rules in the cache file.
NothingCached ==
    /\ runs = 0 => phase = "idle"
    /\ runs = 0 \/ phase \in {"load", "generate"} => cacheFile.rules = NoRules

\* What the process knows it has generated.
OnlyGenerated == \A r \in Label : memo[r] # Absent => r \in generated

\* The labels under a name are those of the generated rules that define it.
TableExact ==
    \A n \in Name : LabelsAt(globalScope, n) = {r \in generated : n \in Defines[memo[r].src]}

ColdInv ==
    /\ NothingCached
    /\ OnlyGenerated
    /\ TableExact
-----------------------------------------------------------------------------
\* A rule that is new to a name is added to the labels of the name and to no other.
LEMMA PutAddsLabel ==
    ASSUME NEW trie \in Trie, NEW r \in Label, NEW s \in Source, NEW n \in Name,
           r \notin LabelsAt(trie, n)
    PROVE  LabelsAt(Publish(trie, r, s), n) =
               LabelsAt(trie, n) \cup (IF n \in Defines[s] THEN {r} ELSE {})
<1>1. trie[n] \in Symbol \cup {NoSymbol} /\ NoSymbol \notin Symbol
  BY NoSymbolAssumption DEF Trie, Symbol
<1>2. Publish(trie, r, s)[n] = IF n \in Defines[s] THEN PutOne(trie[n], r) ELSE trie[n]
  BY DEF Publish, PutAll
<1>3. CASE n \notin Defines[s]
  BY <1>2, <1>3 DEF LabelsAt
<1>4. CASE n \in Defines[s] /\ trie[n] = NoSymbol
  <2>1. NewSymbol(r) \in Symbol /\ NewSymbol(r).label = r /\ ConflictLabels(NewSymbol(r)) = {}
    BY DEF NewSymbol, Symbol, ConflictLabels
  <2>2. Publish(trie, r, s)[n] = NewSymbol(r)
    BY <1>2, <1>4 DEF PutOne
  <2> QED BY <1>1, <1>4, <2>1, <2>2 DEF LabelsAt
<1>5. CASE n \in Defines[s] /\ trie[n] # NoSymbol
  <2>. DEFINE sym == trie[n]
              more == [sym EXCEPT !.conflicts = Append(sym.conflicts, r)]
  <2>1. sym \in Symbol /\ sym.label # r /\ r \notin ConflictLabels(sym)
    BY <1>1, <1>5 DEF LabelsAt
  <2>2. Publish(trie, r, s)[n] = more
    BY <1>2, <1>5, <2>1 DEF PutOne, Conflict
  <2>3. more \in Symbol /\ more.label = sym.label /\ more.conflicts = Append(sym.conflicts, r)
    BY <2>1 DEF Symbol
  <2>4. ConflictLabels(more) = ConflictLabels(sym) \cup {r}
    <3>1. sym.conflicts \in Seq(Label)
      BY <2>1 DEF Symbol
    <3>2. DOMAIN Append(sym.conflicts, r) = DOMAIN sym.conflicts \cup {Len(sym.conflicts) + 1}
          /\ Len(sym.conflicts) + 1 \notin DOMAIN sym.conflicts
      BY <3>1
    <3>3. /\ \A i \in DOMAIN sym.conflicts : Append(sym.conflicts, r)[i] = sym.conflicts[i]
          /\ Append(sym.conflicts, r)[Len(sym.conflicts) + 1] = r
      BY <3>1
    <3>4. {Append(sym.conflicts, r)[i] : i \in DOMAIN Append(sym.conflicts, r)} =
              {sym.conflicts[i] : i \in DOMAIN sym.conflicts} \cup {r}
      BY <3>2, <3>3, Zenon
    <3> QED BY <2>3, <3>4 DEF ConflictLabels
  <2>5. LabelsAt(Publish(trie, r, s), n) = {more.label} \cup ConflictLabels(more)
    BY <1>1, <2>2, <2>3 DEF LabelsAt
  <2>6. LabelsAt(trie, n) = {sym.label} \cup ConflictLabels(sym)
    BY <1>5 DEF LabelsAt
  <2> QED BY <1>5, <2>3, <2>4, <2>5, <2>6
<1> QED BY <1>3, <1>4, <1>5

\* An empty table has no labels.
LEMMA EmptyHasNone == \A n \in Name : LabelsAt(EmptyTrie, n) = {}
BY DEF LabelsAt, EmptyTrie
-----------------------------------------------------------------------------
\* Before the first run, and after it, the process knows nothing.
LEMMA InitCold == Init => ColdInv
BY EmptyHasNone DEF Init, NoFile, ColdInv, NothingCached, OnlyGenerated, TableExact, NoRules

LEMMA GoneCold ==
    ASSUME ProcessGone, runs # 0, runs' = runs
    PROVE  ColdInv'
BY EmptyHasNone DEF ProcessGone, ColdInv, NothingCached, OnlyGenerated, TableExact, NoRules

\* Most steps change neither the table nor what it was made from.
LEMMA ColdKept ==
    ASSUME ColdInv, UNCHANGED <<memo, globalScope, generated>>, NothingCached'
    PROVE  ColdInv'
BY DEF ColdInv, OnlyGenerated, TableExact

\* A rule that is parsed was not known, and its names get it as one more label.
LEMMA ParseCold ==
    ASSUME IInv, ColdInv, NEW r \in Label, ParseRule(r)
    PROVE  /\ r \notin generated /\ generated' = generated \cup {r}
           /\ disk[r] \in Source /\ memo'[r].src = disk[r]
           /\ \A q \in generated : memo'[q] = memo[q]
           /\ OnlyGenerated' /\ TableExact'
<1>1. hashed # Absent /\ hashed.rule = r /\ disk[r] # Absent
      /\ memo' = [memo EXCEPT ![r] = [sha |-> hashed.sha, src |-> disk[r]]]
      /\ globalScope' = Publish(globalScope, r, disk[r])
      /\ generated' = generated \cup {r}
  BY DEF ParseRule, Memoize, ParsedEntry, RuleGenerated
<1>2. TypeOK
  BY DEF IInv, Shape
<1>3. r \notin generated
  BY <1>1 DEF IInv, Shape, Progress, HandledInPackage, GeneratedInPackages
<1>4. disk[r] \in Source /\ memo \in Rules /\ globalScope \in Trie /\ generated \subseteq Label
  BY <1>1, <1>2 DEF TypeOK
<1>5. memo'[r].src = disk[r] /\ \A q \in Label \ {r} : memo'[q] = memo[q]
  BY <1>1, <1>4 DEF Rules
<1>6. OnlyGenerated'
  BY <1>1, <1>5 DEF ColdInv, OnlyGenerated
<1>7. ASSUME NEW n \in Name
      PROVE  LabelsAt(globalScope', n) = {q \in generated' : n \in Defines[memo'[q].src]}
  <2>1. LabelsAt(globalScope, n) = {q \in generated : n \in Defines[memo[q].src]}
    BY DEF ColdInv, TableExact
  <2>2. r \notin LabelsAt(globalScope, n)
    BY <1>3, <2>1
  <2>3. LabelsAt(globalScope', n) =
            LabelsAt(globalScope, n) \cup (IF n \in Defines[disk[r]] THEN {r} ELSE {})
    BY <1>1, <1>4, <2>2, PutAddsLabel
  <2>4. \A q \in generated : memo'[q] = memo[q]
    BY <1>3, <1>4, <1>5
  <2> QED BY <1>1, <1>5, <2>1, <2>3, <2>4
<1>8. TableExact'
  BY <1>7 DEF TableExact
<1> QED BY <1>1, <1>3, <1>4, <1>5, <1>6, <1>8

\* A rule is never taken from a cache.
LEMMA NoneTaken ==
    ASSUME IInv, ColdInv, NEW r \in Label
    PROVE  ~TakeCachedRule(r)
BY DEF TakeCachedRule, CacheHit, IInv, Shape, Progress, HandledInPackage, GeneratedInPackages,
       ColdInv, OnlyGenerated

\* The invariant, step by step.
LEMMA ColdStep ==
    ASSUME MaxRuns = 1
    PROVE  IInv /\ ColdInv /\ [Next]_vars => ColdInv'
<1>. SUFFICES ASSUME IInv, ColdInv, [Next]_vars
              PROVE  ColdInv'
  OBVIOUS
<1>. USE DEF workspace, cursor, symbols, index, resolving
<1>s. NothingCached /\ runs \in Nat
  BY DEF ColdInv, IInv, Shape, TypeOK
<1>1. CASE LoadRule
  <2>1. LabelOrder[at] \in Label /\ cacheFile.rules = NoRules
    BY <1>s, <1>1, WorkspaceAssumption DEF LoadRule, NothingCached
  <2>2. UNCHANGED <<memo, globalScope, generated, runs, phase, cacheFile>>
    BY <1>1, <2>1 DEF LoadRule, NoRules
  <2> QED BY <1>s, <2>2, ColdKept DEF NothingCached
<1>2. CASE \/ LoadDone \/ SkipPackage \/ OpenPackage \/ ClosePackage \/ GenerateDone
           \/ NothingToResolve \/ ResolveMarker
  BY <1>s, <1>2, ColdKept
  DEF LoadDone, SkipPackage, OpenPackage, ClosePackage, GenerateDone, NothingToResolve, ResolveMarker,
      Generating, Resolving, NothingCached
<1>3. ASSUME NEW r \in Label, HashRule(r) \/ SkipRule(r) \/ ResolveRule(r) \/ Edit(r)
      PROVE  ColdInv'
  BY <1>s, <1>3, ColdKept
  DEF HashRule, SkipRule, ScopeAfterError, ResolveRule, Edit, Generating, Resolving, NothingCached
<1>4. ASSUME NEW r \in Label, ParseRule(r)
      PROVE  ColdInv'
  <2>1. NothingCached'
    BY <1>s, <1>4 DEF ParseRule, NothingCached
  <2> QED BY <1>4, <2>1, ParseCold DEF ColdInv
<1>5. ASSUME NEW r \in Label, TakeCachedRule(r)
      PROVE  ColdInv'
  BY <1>5, NoneTaken
<1>6. CASE Exit \/ Die \/ DieWritingCache
  <2>1. phase # "idle"
    BY <1>6 DEF Exit, Die, DieWritingCache, Resolving
  <2>2. runs # 0
    BY <1>s, <2>1 DEF NothingCached
  <2> QED BY <1>6, <2>2, GoneCold DEF Exit, Die, DieWritingCache
<1>9. CASE RemoveCache
  <2>1. UNCHANGED <<memo, globalScope, generated, runs, phase>> /\ cacheFile' = NoFile /\ NoFile.rules = NoRules
    BY <1>9 DEF RemoveCache, NoFile
  <2> QED BY <1>s, <2>1, ColdKept DEF NothingCached
<1>7. CASE Start \/ StartRefused
  <2>1. runs = 0 /\ runs' = 1 /\ UNCHANGED <<memo, globalScope, generated, cacheFile>>
    BY <1>s, <1>7 DEF Start, StartRefused
  <2> QED BY <1>s, <2>1, ColdKept DEF NothingCached
<1>8. CASE UNCHANGED vars
  BY <1>s, <1>8, ColdKept DEF vars, NothingCached
<1> QED BY <1>1, <1>2, <1>3, <1>4, <1>5, <1>6, <1>7, <1>8, <1>9 DEF Next, Step
-----------------------------------------------------------------------------
\* The first states of the mapping.
LEMMA InitTable == Init => Table!Init
BY EmptyHasNone DEF Init, Table!Init

\* A step that leaves the table, its rules and whether it is closed is a stutter.
LEMMA TableKept ==
    ASSUME UNCHANGED <<memo, globalScope, generated>>,
           (phase' = "resolve") = (phase = "resolve")
    PROVE  UNCHANGED Table!vars
BY DEF Table!vars

\* The end of a process empties the table.
LEMMA GoneForgets ==
    ASSUME ProcessGone
    PROVE  Table!Forget
BY EmptyHasNone DEF ProcessGone, Table!Forget

\* A parse is the analysis of one more rule.
LEMMA ParseAnalyses ==
    ASSUME IInv, ColdInv, NEW r \in Label, ParseRule(r)
    PROVE  Defines[disk[r]] \in SUBSET Name /\ Table!Analyse(r, Defines[disk[r]])
<1>1. /\ r \notin generated /\ generated' = generated \cup {r}
      /\ disk[r] \in Source /\ memo'[r].src = disk[r]
      /\ \A q \in generated : memo'[q] = memo[q]
      /\ TableExact'
  BY ParseCold
<1>2. generated \subseteq Label /\ Defines[disk[r]] \in SUBSET Name
  BY <1>1, WorkspaceAssumption DEF IInv, Shape, TypeOK
<1>3. phase = "generate" /\ phase' = "generate"
  BY DEF ParseRule, Generating
<1>. DEFINE provides == [q \in Label |-> IF q \in generated THEN Defines[memo[q].src] ELSE {}]
<1>4. provides' = [provides EXCEPT ![r] = Defines[disk[r]]]
  <2>1. \A q \in Label : (IF q \in generated' THEN Defines[memo'[q].src] ELSE {}) =
                            IF q = r THEN Defines[disk[r]] ELSE provides[q]
    BY <1>1
  <2> QED BY <2>1
<1>5. \A n \in Name : LabelsAt(globalScope', n) = {l \in generated' : n \in provides'[l]}
  BY <1>1, <1>2 DEF TableExact
<1>6. Table!Analyse(r, Defines[disk[r]])
  BY <1>1, <1>3, <1>4, <1>5 DEF Table!Analyse
<1> QED BY <1>2, <1>6

\* Every step maps to a step of the table or to a stutter.
LEMMA StepTable ==
    ASSUME MaxRuns = 1
    PROVE  IInv /\ ColdInv /\ [Next]_vars => [Table!Next]_(Table!vars)
<1>. SUFFICES ASSUME IInv, ColdInv, [Next]_vars
              PROVE  [Table!Next]_(Table!vars)
  OBVIOUS
<1>. USE DEF workspace, cursor, symbols, index, resolving
<1>s. NothingCached
  BY DEF ColdInv
<1>1. CASE LoadRule
  <2>1. LabelOrder[at] \in Label /\ cacheFile.rules = NoRules
    BY <1>s, <1>1, WorkspaceAssumption DEF LoadRule, NothingCached
  <2>2. UNCHANGED <<memo, globalScope, generated, phase>>
    BY <1>1, <2>1 DEF LoadRule, NoRules
  <2> QED BY <2>2, TableKept
<1>2. CASE \/ LoadDone \/ SkipPackage \/ OpenPackage \/ ClosePackage
           \/ NothingToResolve \/ ResolveMarker \/ Start \/ StartRefused \/ RemoveCache
  BY <1>2, TableKept
  DEF LoadDone, SkipPackage, OpenPackage, ClosePackage, NothingToResolve, ResolveMarker,
      Start, StartRefused, RemoveCache
<1>3. ASSUME NEW r \in Label, HashRule(r) \/ SkipRule(r) \/ ResolveRule(r) \/ Edit(r)
      PROVE  UNCHANGED Table!vars
  BY <1>3, TableKept DEF HashRule, SkipRule, ScopeAfterError, ResolveRule, Edit
<1>4. ASSUME NEW r \in Label, ParseRule(r)
      PROVE  Table!Next
  BY <1>4, ParseAnalyses DEF Table!Next, Table!Analyse
<1>5. ASSUME NEW r \in Label, TakeCachedRule(r)
      PROVE  FALSE
  BY <1>5, NoneTaken
<1>6. CASE GenerateDone
  BY <1>6 DEF GenerateDone, Table!Next, Table!Close
<1>7. CASE Exit \/ Die \/ DieWritingCache
  BY <1>7, GoneForgets DEF Exit, Die, DieWritingCache, Table!Next
<1>8. CASE UNCHANGED vars
  BY <1>8, TableKept DEF vars
<1> QED BY <1>1, <1>2, <1>3, <1>4, <1>5, <1>6, <1>7, <1>8 DEF Next, Step
-----------------------------------------------------------------------------
\* In a first run the table has every provider of a name and no other, at every step.
THEOREM ColdInvariance ==
    ASSUME MaxRuns = 1
    PROVE  Spec => []ColdInv
<1>1. IInv /\ ColdInv /\ [Next]_vars => ColdInv'
  BY ColdStep
<1> QED BY <1>1, InitCold, Invariance, PTL DEF Spec

\* Nothing a first run offers to resolution is stale: the counterpart, for all
\* instances, of what a warm run violates.
THEOREM ColdIsNotStale ==
    ASSUME MaxRuns = 1
    PROVE  Spec => []NoStaleProvider
<1>1. ColdInv => NoStaleProvider
  BY DEF ColdInv, TableExact, NoStaleProvider
<1> QED BY <1>1, ColdInvariance, PTL

\* A first run implements the abstract symbol table.
THEOREM ColdRunImplements ==
    ASSUME MaxRuns = 1
    PROVE  Spec => ImplementsSymbolTable
<1>1. IInv /\ ColdInv /\ [Next]_vars => [Table!Next]_(Table!vars)
  BY StepTable
<1>2. Spec => []IInv /\ []ColdInv
  BY Invariance, ColdInvariance, PTL
<1> QED BY <1>1, <1>2, InitTable, PTL DEF Spec, ImplementsSymbolTable, Table!Spec
=============================================================================
