-------------------------- MODULE RuleImports_proofs --------------------------
(***************************************************************************)
(* Proofs about the imports of a rule.  The work list of implicit imports: *)
(* for every set of names and every directive, cyclic ones too.  Resolving *)
(* the rule: for any files, symbol providers and conflict resolvers, with  *)
(* one invariant from the gathering of the imports to the labels.          *)
(***************************************************************************)
EXTENDS RuleImports, Induction, SequenceTheorems, FiniteSetTheorems, TLAPS

(***************************************************************************)
(* What is linked to a set of names: LinkedTo counts the steps, and the    *)
(* sets that it goes through stop growing before the count ends.           *)
(***************************************************************************)
Links == {n \in Imp : resolveWith[n] # <<>>}

LinkedByStep(origin, names) == UNION {Elements(resolveWith[n]) : n \in names \cup origin}

\* The directives in effect are those of some files, hence finitely many.
LinksOK == resolveWith \in [Imp -> Seq(Imp)] /\ IsFiniteSet(Links)

LEMMA StepType ==
    ASSUME LinksOK, NEW origin \in SUBSET Imp, NEW names \in SUBSET Imp
    PROVE  LinkedByStep(origin, names) \in SUBSET Imp
BY DEF LinksOK, LinkedByStep, Elements

\* The sets that LinkedTo goes through.
LEMMA LinkedChain ==
    ASSUME LinksOK, NEW origin \in SUBSET Imp
    PROVE  \E chain \in [0 .. Cardinality(Links) -> SUBSET Imp] :
               /\ chain[0] = {}
               /\ \A k \in 0 .. Cardinality(Links) :
                    k < Cardinality(Links) => chain[k + 1] = LinkedByStep(origin, chain[k])
               /\ LinkedTo(origin) = chain[Cardinality(Links)]
<1>. DEFINE steps == Cardinality(Links)
            step == [n \in Nat |-> [names \in SUBSET Imp |-> LinkedByStep(origin, names)]]
            IsChain(f) == f = [k \in 0 .. steps |->
                              IF k = 0 THEN {}
                              ELSE UNION {Elements(resolveWith[n]) : n \in f[k - 1] \cup origin}]
<1>1. steps \in Nat
  BY FS_CardinalityType DEF LinksOK
<1>2. step \in [Nat -> [SUBSET Imp -> SUBSET Imp]]
  BY StepType
<1>. HIDE DEF steps, step
<1>3. PICK g : IsRecursion(g, SUBSET Imp, {}, step, steps)
  <2>1. {} \in SUBSET Imp
    OBVIOUS
  <2> QED BY <1>1, <1>2, <2>1, RecursionExists
<1>4. ASSUME NEW n \in 0 .. steps, n < steps
      PROVE  g[n + 1] = LinkedByStep(origin, g[n])
  <2>1. n \in Nat /\ g[n] \in SUBSET Imp
    BY <1>1, <1>3 DEF IsRecursion
  <2>2. step[n][g[n]] = LinkedByStep(origin, g[n])
    BY <2>1 DEF step
  <2> QED BY <1>3, <1>4, <2>2 DEF IsRecursion
<1>5. IsChain(g)
  <2>1. ASSUME NEW k \in 0 .. steps
        PROVE  g[k] = IF k = 0 THEN {}
                      ELSE UNION {Elements(resolveWith[n]) : n \in g[k - 1] \cup origin}
    <3>1. CASE k = 0
      BY <1>3, <3>1 DEF IsRecursion
    <3>2. CASE k # 0
      <4>1. k - 1 \in 0 .. steps /\ k - 1 < steps /\ (k - 1) + 1 = k
        BY <1>1, <3>2
      <4> QED BY <1>4, <3>2, <4>1 DEF LinkedByStep
    <3> QED BY <3>1, <3>2
  <2>2. g = [k \in 0 .. steps |-> g[k]]
    BY <1>3 DEF IsRecursion
  <2> QED BY <2>1, <2>2
<1>. DEFINE linked == CHOOSE f : IsChain(f)
<1>6. IsChain(linked)
  <2>. HIDE DEF IsChain
  <2> QED BY <1>5
<1>7. LinkedTo(origin) = linked[steps]
  BY DEF LinkedTo, steps, Links
<1>. HIDE DEF linked
<1>8. linked[0] = {} /\ \A k \in 0 .. steps : k < steps => linked[k + 1] = LinkedByStep(origin, linked[k])
  <2>1. linked[0] = {}
    BY <1>1, <1>6
  <2>2. ASSUME NEW k \in 0 .. steps, k < steps
        PROVE  linked[k + 1] = LinkedByStep(origin, linked[k])
    <3>1. k + 1 \in 0 .. steps /\ k + 1 # 0 /\ (k + 1) - 1 = k
      BY <1>1, <2>2
    <3> QED BY <1>6, <3>1 DEF LinkedByStep
  <2> QED BY <2>1, <2>2
<1>9. linked \in [0 .. steps -> SUBSET Imp]
  <2>. DEFINE S == {k \in Nat : k <= steps => linked[k] \in SUBSET Imp}
  <2>1. 0 \in S
    BY <1>8
  <2>2. ASSUME NEW k \in Nat, k \in S
        PROVE  k + 1 \in S
    BY <1>1, <1>8, <2>2, StepType
  <2>. HIDE DEF S
  <2>3. Nat \subseteq S
    BY <2>1, <2>2, SetInduction
  <2>4. \A k \in 0 .. steps : linked[k] \in SUBSET Imp
    BY <1>1, <2>3 DEF S
  <2>5. linked = [k \in 0 .. steps |-> linked[k]]
    BY <1>6
  <2> QED BY <2>4, <2>5
<1> QED BY <1>7, <1>8, <1>9 DEF steps

\* What is linked by a set that has the links of its names and those of the origin.
LEMMA LinkedIsLeast ==
    ASSUME LinksOK, NEW origin \in SUBSET Imp, NEW S,
           \A n \in S \cup origin : Elements(resolveWith[n]) \subseteq S
    PROVE  LinkedTo(origin) \subseteq S
<1>. DEFINE steps == Cardinality(Links)
<1>1. steps \in Nat
  BY FS_CardinalityType DEF LinksOK
<1>2. PICK chain \in [0 .. steps -> SUBSET Imp] :
          /\ chain[0] = {}
          /\ \A k \in 0 .. steps : k < steps => chain[k + 1] = LinkedByStep(origin, chain[k])
          /\ LinkedTo(origin) = chain[steps]
  BY LinkedChain
<1>. HIDE DEF steps
<1>. DEFINE T == {k \in 0 .. steps : chain[k] \subseteq S}
<1>3. 0 \in T
  BY <1>1, <1>2
<1>4. ASSUME NEW k \in 0 .. steps, k < steps, k \in T
      PROVE  k + 1 \in T
  <2>1. k + 1 \in 0 .. steps
    BY <1>1, <1>4
  <2>2. LinkedByStep(origin, chain[k]) \subseteq S
    BY <1>4 DEF LinkedByStep
  <2> QED BY <1>2, <1>4, <2>1, <2>2
<1>. HIDE DEF T
<1>5. 0 .. steps \subseteq T
  BY <1>1, <1>3, <1>4, SetInductionUpTo
<1>6. steps \in T
  BY <1>1, <1>5
<1> QED BY <1>2, <1>6 DEF T

\* Each step but the last that changes anything adds a name that has links, so the
\* count of these names is enough.
LEMMA LinkedIsClosed ==
    ASSUME LinksOK, NEW origin \in SUBSET Imp
    PROVE  /\ LinkedTo(origin) \in SUBSET Imp
           /\ LinkedByStep(origin, LinkedTo(origin)) = LinkedTo(origin)
<1>. DEFINE steps == Cardinality(Links)
<1>1. steps \in Nat
  BY FS_CardinalityType DEF LinksOK
<1>2. PICK chain \in [0 .. steps -> SUBSET Imp] :
          /\ chain[0] = {}
          /\ \A k \in 0 .. steps : k < steps => chain[k + 1] = LinkedByStep(origin, chain[k])
          /\ LinkedTo(origin) = chain[steps]
  BY LinkedChain
<1>. DEFINE Linking(names) == (names \cup origin) \cap Links
            Stable(k) == LinkedByStep(origin, chain[k]) = chain[k]
            T == {k \in 0 .. steps :
                    /\ chain[k] \subseteq LinkedByStep(origin, chain[k])
                    /\ Stable(k) \/ Cardinality(Linking(chain[k])) >= k + 1}
<1>3. ASSUME NEW names \in SUBSET Imp
      PROVE  /\ IsFiniteSet(Linking(names))
             /\ Cardinality(Linking(names)) \in Nat
             /\ Cardinality(Linking(names)) <= steps
  BY FS_Subset, FS_CardinalityType DEF LinksOK
<1>4. ASSUME NEW names \in SUBSET Imp, NEW more \in SUBSET Imp, Linking(names) = Linking(more)
      PROVE  LinkedByStep(origin, names) = LinkedByStep(origin, more)
  <2>1. ASSUME NEW n \in Imp, n \notin Links
        PROVE  Elements(resolveWith[n]) = {}
    BY <2>1 DEF Links, Elements
  <2>2. ASSUME NEW A \in SUBSET Imp, NEW B \in SUBSET Imp, Linking(A) = Linking(B)
        PROVE  LinkedByStep(origin, A) \subseteq LinkedByStep(origin, B)
    <3>. SUFFICES ASSUME NEW n \in A \cup origin, NEW x \in Elements(resolveWith[n])
                  PROVE  \E m \in B \cup origin : x \in Elements(resolveWith[m])
      BY DEF LinkedByStep
    <3>1. n \in Links
      BY <2>1
    <3> QED BY <2>2, <3>1
  <2>3. LinkedByStep(origin, names) \subseteq LinkedByStep(origin, more)
    BY <1>4, <2>2
  <2>4. LinkedByStep(origin, more) \subseteq LinkedByStep(origin, names)
    BY <1>4, <2>2
  <2> QED BY <2>3, <2>4
<1>. HIDE DEF steps
<1>5. 0 \in T
  <2>1. 0 \in 0 .. steps /\ chain[0] = {}
    BY <1>1, <1>2
  <2>2. CASE Linking({}) = {}
    <3>1. LinkedByStep(origin, {}) = {}
      <4>. SUFFICES ASSUME NEW n \in origin
                    PROVE  Elements(resolveWith[n]) = {}
        BY DEF LinkedByStep
      <4> QED BY <2>2 DEF Links, Elements
    <3> QED BY <2>1, <3>1
  <2>3. CASE Linking({}) # {}
    <3>1. Cardinality(Linking({})) # 0
      BY <1>3, <2>3, FS_EmptySet
    <3>2. Cardinality(Linking({})) \in Nat
      BY <1>3
    <3>. HIDE DEF Linking
    <3> QED BY <2>1, <3>1, <3>2
  <2> QED BY <2>2, <2>3
<1>6. ASSUME NEW k \in 0 .. steps, k < steps, k \in T
      PROVE  k + 1 \in T
  <2>1. /\ k \in Nat /\ k + 1 \in 0 .. steps
        /\ chain[k] \in SUBSET Imp /\ chain[k + 1] \in SUBSET Imp
        /\ chain[k + 1] = LinkedByStep(origin, chain[k])
    BY <1>1, <1>2, <1>6
  <2>2. chain[k] \subseteq chain[k + 1]
    BY <1>6, <2>1
  <2>3. chain[k + 1] \subseteq LinkedByStep(origin, chain[k + 1])
    BY <2>1, <2>2 DEF LinkedByStep
  <2>4. CASE Stable(k)
    <3>1. Stable(k + 1)
      BY <2>1, <2>4
    <3> QED BY <2>1, <2>3, <3>1
  <2>5. CASE Linking(chain[k + 1]) = Linking(chain[k])
    <3>1. Stable(k + 1)
      BY <1>4, <2>1, <2>5
    <3> QED BY <2>1, <2>3, <3>1
  <2>6. CASE ~Stable(k) /\ Linking(chain[k + 1]) # Linking(chain[k])
    <3>1. Linking(chain[k]) \subseteq Linking(chain[k + 1])
      BY <2>2
    <3>2. Cardinality(Linking(chain[k])) >= k + 1
      BY <1>6, <2>6
    <3>3. IsFiniteSet(Linking(chain[k + 1]))
      BY <1>3, <2>1
    <3>4. /\ Cardinality(Linking(chain[k])) \in Nat
          /\ Cardinality(Linking(chain[k + 1])) \in Nat
      BY <1>3, <2>1
    <3>. HIDE DEF Linking
    <3>5. /\ Cardinality(Linking(chain[k])) <= Cardinality(Linking(chain[k + 1]))
          /\ Cardinality(Linking(chain[k + 1])) # Cardinality(Linking(chain[k]))
      BY <2>6, <3>1, <3>3, FS_Subset
    <3>6. Cardinality(Linking(chain[k + 1])) >= (k + 1) + 1
      BY <2>1, <3>2, <3>4, <3>5
    <3> QED BY <2>1, <2>3, <3>6
  <2> QED BY <2>4, <2>5, <2>6
<1>. HIDE DEF T
<1>7. 0 .. steps \subseteq T
  BY <1>1, <1>5, <1>6, SetInductionUpTo
<1>8. steps \in T /\ chain[steps] \in SUBSET Imp
  BY <1>1, <1>7
<1>9. Stable(steps)
  <2>1. Cardinality(Linking(chain[steps])) \in Nat /\ Cardinality(Linking(chain[steps])) <= steps
    BY <1>3, <1>8
  <2>. HIDE DEF Linking, Stable
  <2> QED BY <1>1, <1>8, <2>1 DEF T
<1> QED BY <1>2, <1>8, <1>9
-----------------------------------------------------------------------------
(***************************************************************************)
(* The work list.                                                          *)
(***************************************************************************)
\* Whatever the loop meets was there at first or is linked to it.
OnlyLinked ==
    /\ implicit \subseteq Linked
    /\ Elements(required) \subseteq Elements(direct.imports) \cup Elements(direct.provides) \cup Linked

\* The inductive invariant.
IInv ==
    /\ TypeOK
    /\ LinksOK
    /\ WaitingOrLinked
    /\ OnlyLinked

\* Elements of a concatenation.
LEMMA ElementsConcat ==
    ASSUME NEW S, NEW s \in Seq(S), NEW t \in Seq(S)
    PROVE  s \o t \in Seq(S) /\ Elements(s \o t) = Elements(s) \cup Elements(t)
<1>1. s \o t \in Seq(S) /\ Len(s \o t) = Len(s) + Len(t)
  OBVIOUS
<1>2. Elements(s \o t) \subseteq Elements(s) \cup Elements(t)
  BY DEF Elements
<1>3. ASSUME NEW i \in DOMAIN s
      PROVE  s[i] \in Elements(s \o t)
  <2>1. i \in DOMAIN (s \o t) /\ (s \o t)[i] = s[i]
    OBVIOUS
  <2> QED BY <2>1 DEF Elements
<1>4. ASSUME NEW i \in DOMAIN t
      PROVE  t[i] \in Elements(s \o t)
  <2>1. Len(s) + i \in DOMAIN (s \o t) /\ (s \o t)[Len(s) + i] = t[i]
    OBVIOUS
  <2> QED BY <2>1 DEF Elements
<1> QED BY <1>1, <1>2, <1>3, <1>4 DEF Elements

\* Popping takes the top away, and nothing else that is not the same name.
LEMMA PopTakesTop ==
    ASSUME required \in Seq(Imp), required # <<>>
    PROVE  /\ Pop \in Seq(Imp)
           /\ required[Len(required)] \in Imp
           /\ Elements(required) = Elements(Pop) \cup {required[Len(required)]}
<1>1. Len(required) \in Nat \ {0}
  OBVIOUS
<1>2. Pop \in Seq(Imp) /\ Len(Pop) = Len(required) - 1
      /\ \A i \in 1 .. (Len(required) - 1) : Pop[i] = required[i]
  <2>1. \A i \in 1 .. (Len(required) - 1) : required[i] \in Imp
    BY <1>1
  <2>. DEFINE m == Len(required) - 1
  <2>2. m \in Nat
    BY <1>1
  <2>. HIDE DEF m
  <2>3. /\ SubSeq(required, 1, m) \in Seq(Imp)
        /\ Len(SubSeq(required, 1, m)) = m
        /\ \A i \in 1 .. m : SubSeq(required, 1, m)[i] = required[i]
    <3>1. \A i \in 1 .. m : required[i] \in Imp
      BY <2>1 DEF m
    <3>2. /\ SubSeq(required, 1, m) \in Seq(Imp)
          /\ Len(SubSeq(required, 1, m)) = IF 1 <= m THEN m - 1 + 1 ELSE 0
          /\ \A i \in 1 .. m - 1 + 1 : SubSeq(required, 1, m)[i] = required[1 + i - 1]
      BY <2>2, <3>1, SubSeqProperties
    <3>3. m - 1 + 1 = m /\ \A i \in 1 .. m : 1 + i - 1 = i
      BY <2>2
    <3> QED BY <2>2, <3>2, <3>3
  <2> QED BY <2>3 DEF Pop, m
<1>3. \A i \in DOMAIN required : i = Len(required) \/ i \in 1 .. (Len(required) - 1)
  BY <1>1
<1> QED BY <1>1, <1>2, <1>3 DEF Elements

\* A work list that starts has everything waiting.
Started ==
    /\ LinksOK
    /\ direct \in [imports : Seq(Imp), provides : Seq(Imp)]
    /\ required = direct.imports \o direct.provides
    /\ implicit = {}

LEMMA StartedInv == Started => IInv
<1>. SUFFICES ASSUME Started
              PROVE  IInv
  OBVIOUS
<1>1. direct.imports \in Seq(Imp) /\ direct.provides \in Seq(Imp)
  BY DEF Started
<1>2. required \in Seq(Imp) /\ Elements(required) = Elements(direct.imports) \cup Elements(direct.provides)
  BY <1>1, ElementsConcat DEF Started
<1>3. TypeOK /\ LinksOK
  BY <1>2 DEF Started, TypeOK, LinksOK
<1>4. WaitingOrLinked /\ OnlyLinked
  BY <1>2 DEF Started, WaitingOrLinked, OnlyLinked, imports
<1> QED BY <1>3, <1>4 DEF IInv

LEMMA InitInv == Init => IInv
<1>. SUFFICES ASSUME Init
              PROVE  Started
  BY StartedInv
<1> QED BY ImplicitImportsAssumption DEF Init, Started, LinksOK, Links

\* The names that the rule has by itself.
Origin == Elements(direct.imports) \cup Elements(direct.provides)

LEMMA OriginOK == TypeOK => Origin \in SUBSET Imp
BY DEF TypeOK, Origin, Elements

\* The popped name is linked, its dependencies wait.
LEMMA StepInv == IInv /\ [Next]_vars => IInv'
<1>. SUFFICES ASSUME IInv, [Next]_vars
              PROVE  IInv'
  OBVIOUS
<1>1. CASE GatherImplicit
  <2>. DEFINE top == required[Len(required)]
              deps == resolveWith[top]
  <2>1. /\ required # <<>> /\ required' = Pop \o deps
        /\ implicit' = implicit \cup (Elements(deps) \ Elements(direct.imports))
        /\ resolveWith' = resolveWith /\ direct' = direct
    BY <1>1 DEF GatherImplicit, Push, PutImplicit
  <2>2. /\ Pop \in Seq(Imp) /\ top \in Imp /\ Elements(required) = Elements(Pop) \cup {top}
    BY <2>1, PopTakesTop DEF IInv, TypeOK
  <2>3. deps \in Seq(Imp) /\ Elements(deps) \subseteq Imp
    BY <2>2 DEF IInv, TypeOK, Elements
  <2>. HIDE DEF top, deps
  <2>4. required' \in Seq(Imp) /\ Elements(required') = Elements(Pop) \cup Elements(deps)
    BY <2>1, <2>2, <2>3, ElementsConcat
  <2>5. TypeOK'
    BY <2>1, <2>3, <2>4 DEF IInv, TypeOK
  <2>6. imports' = imports \cup Elements(deps)
    BY <2>1 DEF imports
  <2>7. WaitingOrLinked'
    <3>. SUFFICES ASSUME NEW n \in imports' \cup Elements(direct.provides), n \notin Elements(required')
                  PROVE  Elements(resolveWith[n]) \subseteq imports'
      BY <2>1 DEF WaitingOrLinked
    <3>1. CASE n = top
      BY <2>6, <3>1 DEF deps
    <3>2. CASE n # top
      <4>1. n \in imports \cup Elements(direct.provides) /\ n \notin Elements(required)
        BY <2>2, <2>4, <2>6, <3>2
      <4> QED BY <2>6, <4>1 DEF IInv, WaitingOrLinked
    <3> QED BY <3>1, <3>2
  <2>8. LinksOK' /\ Linked' = Linked
    BY <2>1 DEF IInv, LinksOK, Links, Linked, LinkedTo, Elements
  <2>9. OnlyLinked'
    <3>1. Elements(deps) \subseteq Linked
      <4>1. top \in Elements(direct.imports) \cup Elements(direct.provides) \cup Linked
        BY <2>2 DEF IInv, OnlyLinked
      <4>2. LinkedByStep(Origin, Linked) = Linked
        BY OriginOK, LinkedIsClosed DEF IInv, Linked, Origin
      <4> QED BY <4>1, <4>2 DEF LinkedByStep, Origin, deps
    <3>2. implicit' \subseteq Linked
      BY <2>1, <3>1 DEF IInv, OnlyLinked
    <3>3. Elements(required') \subseteq Origin \cup Linked
      BY <2>2, <2>4, <3>1 DEF IInv, OnlyLinked, Origin
    <3> QED BY <2>1, <2>8, <3>2, <3>3 DEF OnlyLinked, Origin
  <2> QED BY <2>5, <2>7, <2>8, <2>9 DEF IInv
<1>2. CASE UNCHANGED vars
  <2>1. LinksOK' /\ Linked' = Linked
    BY <1>2 DEF vars, IInv, LinksOK, Links, Linked, LinkedTo, Elements
  <2>2. TypeOK' /\ WaitingOrLinked'
    BY <1>2 DEF vars, IInv, TypeOK, WaitingOrLinked, imports
  <2>3. OnlyLinked'
    BY <1>2, <2>1 DEF vars, IInv, OnlyLinked
  <2> QED BY <2>1, <2>2, <2>3 DEF IInv
<1> QED BY <1>1, <1>2 DEF Next
-----------------------------------------------------------------------------
\* The invariant holds at every turn of the loop.
THEOREM Invariance == Spec => []IInv
BY InitInv, StepInv, PTL DEF Spec

\* The stack and the map hold names of imports.
THEOREM TypeCorrect == Spec => []TypeOK
<1>1. IInv => TypeOK
  BY DEF IInv
<1> QED BY <1>1, Invariance, PTL

\* No name of the map is forgotten: it waits, or its dependencies are in the map.
THEOREM NoneForgotten == Spec => []WaitingOrLinked
<1>1. IInv => WaitingOrLinked
  BY DEF IInv
<1> QED BY <1>1, Invariance, PTL

\* The finished map is closed under the directives.
THEOREM FinishedIsClosed ==
    Spec => [](required = <<>> => \A n \in imports : Elements(resolveWith[n]) \subseteq imports)
<1>1. IInv => (required = <<>> => \A n \in imports : Elements(resolveWith[n]) \subseteq imports)
  BY DEF IInv, WaitingOrLinked, Elements
<1> QED BY <1>1, Invariance, PTL

LEMMA InvIncludes == IInv => IncludedTransitively
<1>. SUFFICES ASSUME IInv, required = <<>>
              PROVE  imports = Elements(direct.imports) \cup Linked
  BY DEF IncludedTransitively
<1>1. imports \subseteq Elements(direct.imports) \cup Linked
  BY DEF IInv, OnlyLinked, imports
<1>2. \A n \in imports \cup Origin : Elements(resolveWith[n]) \subseteq imports
  BY DEF IInv, WaitingOrLinked, imports, Elements, Origin
<1>3. Linked \subseteq imports
  BY <1>2, OriginOK, LinkedIsLeast DEF IInv, Linked, Origin
<1> QED BY <1>1, <1>3 DEF imports

\* "These are included transitively": when the loop ends, the map has exactly the
\* imports of the rule and all that is linked to them or to what it provides, however
\* the directives link names, and whatever is imported already.
THEOREM AllIncluded == Spec => []IncludedTransitively
<1> QED BY InvIncludes, Invariance, PTL
-----------------------------------------------------------------------------
(***************************************************************************)
(* The scopes: what is found in a trie of symbols is one of them, and one  *)
(* at most.                                                                *)
(***************************************************************************)
Path == Seq(Segment)

Tries(S) == UNION {[D -> S] : D \in SUBSET Path}

LEMMA TrieIs ==
    ASSUME NEW S, NEW trie \in Tries(S)
    PROVE  /\ DOMAIN trie \subseteq Path /\ trie = [p \in DOMAIN trie |-> trie[p]]
           /\ \A p \in DOMAIN trie : trie[p] \in S
<1>1. PICK D \in SUBSET Path : trie \in [D -> S]
  BY DEF Tries
<1> QED BY <1>1

LEMMA IsTrie ==
    ASSUME NEW S, NEW D \in SUBSET Path, NEW trie \in [D -> S]
    PROVE  trie \in Tries(S)
<1> QED BY DEF Tries

LEMMA EmptyIsTrie ==
    ASSUME NEW S
    PROVE  EmptyScope \in Tries(S)
<1>1. EmptyScope \in [{} -> S] /\ {} \in SUBSET Path
  BY DEF EmptyScope
<1> QED BY <1>1, IsTrie

LEMMA LookUpIn ==
    ASSUME NEW S, NEW trie \in Tries(S), NEW name
    PROVE  LookUp(trie, name) \subseteq S
<1>1. \A p \in DOMAIN trie : trie[p] \in S
  BY TrieIs
<1> QED BY <1>1 DEF LookUp

\* Of two beginnings of a name one begins the other.
LEMMA PrefixesNest ==
    ASSUME NEW p \in Path, NEW q \in Path, NEW name \in Path, IsPrefixOf(p, name), IsPrefixOf(q, name), Len(p) <= Len(q)
    PROVE  IsPrefixOf(p, q)
<1>. DEFINE n == Len(p)
            m == Len(q)
<1>1. n \in Nat /\ m \in Nat /\ Len(name) \in Nat /\ n <= m /\ m <= Len(name)
  BY DEF Path, IsPrefixOf
<1>2. p = SubSeq(name, 1, n) /\ q = SubSeq(name, 1, m)
  BY DEF IsPrefixOf
<1>3. SubSeq(q, 1, n) \in Path /\ Len(SubSeq(q, 1, n)) = n /\ \A i \in 1 .. n : SubSeq(q, 1, n)[i] = q[i]
  BY <1>1 DEF Path
<1>4. \A i \in 1 .. n : p[i] = name[i]
  BY <1>1, <1>2 DEF Path
<1>5. \A i \in 1 .. m : q[i] = name[i]
  BY <1>1, <1>2 DEF Path
<1>6. SubSeq(q, 1, n) = p
  <2>1. \A i \in 1 .. n : SubSeq(q, 1, n)[i] = p[i]
    BY <1>1, <1>3, <1>4, <1>5
  <2> QED BY <1>3, <2>1 DEF Path
<1> QED BY <1>1, <1>6 DEF IsPrefixOf

LEMMA LookUpOne ==
    ASSUME NEW S, NEW trie \in Tries(S), NEW name \in Path, NEW x \in LookUp(trie, name), NEW y \in LookUp(trie, name)
    PROVE  x = y
<1>. DEFINE Found(q) == /\ q \in DOMAIN trie /\ IsPrefixOf(q, name)
                        /\ \A r \in DOMAIN trie : IsPrefixOf(q, r) /\ IsPrefixOf(r, name) => r = q
<1>1. DOMAIN trie \subseteq Path
  BY TrieIs
<1>2. \A z \in LookUp(trie, name) : \E q \in Path : Found(q) /\ z = trie[q]
  BY <1>1 DEF LookUp
<1>3. PICK p \in Path : Found(p) /\ x = trie[p]
  BY <1>2
<1>4. PICK q \in Path : Found(q) /\ y = trie[q]
  BY <1>2
<1>5. Len(p) <= Len(q) \/ Len(q) <= Len(p)
  BY DEF Path
<1>6. IsPrefixOf(p, q) \/ IsPrefixOf(q, p)
  BY <1>3, <1>4, <1>5, PrefixesNest
<1> QED BY <1>3, <1>4, <1>6

LEMMA SamePath ==
    ASSUME NEW p \in Path, NEW q \in Path, Len(p) = Len(q), \A i \in 1 .. Len(q) : p[i] = q[i]
    PROVE  p = q
<1> QED BY DEF Path

\* The name of a node and the rest of a name below it make the name.
LEMMA AfterJoins ==
    ASSUME NEW p \in Path, NEW q \in Path, IsPrefixOf(p, q)
    PROVE  After(p, q) \in Path /\ p \o After(p, q) = q
<1>. DEFINE n == Len(p)
            m == Len(q)
            rest == SubSeq(q, n + 1, m)
<1>1. n \in Nat /\ m \in Nat /\ n <= m
  BY DEF Path, IsPrefixOf
<1>2. p = SubSeq(q, 1, n)
  BY DEF IsPrefixOf
<1>3. \A i \in 1 .. n : p[i] = q[i]
  BY <1>1, <1>2 DEF Path
<1>4. rest \in Path /\ Len(rest) = m - n /\ \A i \in 1 .. m - n : rest[i] = q[n + i]
  BY <1>1 DEF Path
<1>5. /\ p \o rest \in Path /\ Len(p \o rest) = m
      /\ \A i \in 1 .. m : (p \o rest)[i] = IF i <= n THEN p[i] ELSE rest[i - n]
  <2>. HIDE DEF rest
  <2> QED BY <1>1, <1>4 DEF Path
<1>6. \A i \in 1 .. m : (p \o rest)[i] = q[i]
  <2>. SUFFICES ASSUME NEW i \in 1 .. m
                PROVE  (p \o rest)[i] = q[i]
    OBVIOUS
  <2>. HIDE DEF rest
  <2>1. CASE i <= n
    BY <1>1, <1>3, <1>5, <2>1
  <2>2. CASE ~ i <= n
    <3>1. i - n \in 1 .. m - n /\ n + (i - n) = i
      BY <1>1, <2>2
    <3> QED BY <1>4, <1>5, <2>2, <3>1
  <2> QED BY <2>1, <2>2
<1>7. p \o rest = q
  <2>. HIDE DEF rest
  <2>1. PICK all : all = p \o rest
    OBVIOUS
  <2>2. all \in Path /\ Len(all) = Len(q) /\ \A i \in 1 .. Len(q) : all[i] = q[i]
    BY <1>5, <1>6, <2>1
  <2>3. all = q
    BY <2>2, SamePath
  <2> QED BY <2>1, <2>3
<1> QED BY <1>4, <1>7 DEF After

LEMMA ScopeAtIs ==
    ASSUME NEW S, NEW trie \in Tries(S), NEW name \in Path
    PROVE  \E node \in Tries(S) : ScopeAt(trie, name) \subseteq {node}
<1>. DEFINE below == {q \in DOMAIN trie : IsPrefixOf(name, q)}
            D == {After(name, q) : q \in below}
            node == [p \in D |-> trie[name \o p]]
<1>1. DOMAIN trie \subseteq Path /\ \A p \in DOMAIN trie : trie[p] \in S
  BY TrieIs
<1>2. \A q \in below : After(name, q) \in Path /\ name \o After(name, q) = q /\ trie[q] \in S
  BY <1>1, AfterJoins
<1>3. D \in SUBSET Path
  BY <1>2
<1>4. \A p \in D : trie[name \o p] \in S
  BY <1>2
<1>. HIDE DEF D
<1>5. node \in Tries(S)
  <2>1. node \in [D -> S]
    BY <1>4
  <2> QED BY <1>3, <2>1, IsTrie
<1>6. ScopeAt(trie, name) = IF below = {} /\ name # <<>> THEN {} ELSE {node}
  BY DEF ScopeAt, D
<1>. HIDE DEF below, node
<1> QED BY <1>5, <1>6

\* A chain answers with the answer of one of its scopes, or not at all.
LEMMA FirstAnswers ==
    ASSUME NEW n \in Nat, NEW answers, DOMAIN answers = 1 .. n
    PROVE  FirstAnswer(answers) = {} \/ \E i \in DOMAIN answers : FirstAnswer(answers) = answers[i]
<1>. DEFINE known == {i \in DOMAIN answers : answers[i] # {}}
<1>1. CASE known = {}
  BY <1>1 DEF FirstAnswer
<1>2. CASE known # {}
  <2>1. known \in SUBSET (1 .. n)
    OBVIOUS
  <2>2. FirstAnswer(answers) = answers[CHOOSE i \in known : \A j \in known : i <= j]
    BY <1>2 DEF FirstAnswer
  <2>. HIDE DEF known
  <2>3. \E i \in known : \A j \in known : i <= j
    BY <1>2, <2>1, RangeHasMin
  <2>4. (CHOOSE i \in known : \A j \in known : i <= j) \in known
    BY <2>3
  <2>5. known \subseteq DOMAIN answers
    BY DEF known
  <2> QED BY <2>2, <2>4, <2>5
<1> QED BY <1>1, <1>2

LEMMA OnlyIs ==
    ASSUME NEW x
    PROVE  Only({x}) = x
<1> QED BY DEF Only

LEMMA BuiltinPaths == Builtin \subseteq Path
<1> QED BY RuleImportsAssumption DEF Path

LEMMA TrimmedRoot ==
    ASSUME NEW name \in Path
    PROVE  TrimRoot(name) \in Path
<1>1. Len(name) > 1 => Tail(name) \in Path
  <2>1. Len(name) > 1 => name # <<>>
    BY DEF Path
  <2> QED BY <2>1 DEF Path
<1>2. TrimRoot(name) = name \/ (Len(name) > 1 /\ TrimRoot(name) = Tail(name))
  BY Zenon DEF TrimRoot
<1> QED BY <1>1, <1>2

\* The builtin scopes that a ScalaScope looks into.
LEMMA BuiltinScope ==
    ASSUME NEW S, NEW trie \in Tries(S), NEW b \in Builtin, HasBuiltins(trie)
    PROVE  Only(ScopeAt(trie, b)) \in Tries(S)
<1>1. b \in Path
  BY BuiltinPaths
<1>2. PICK node \in Tries(S) : ScopeAt(trie, b) \subseteq {node}
  BY <1>1, ScopeAtIs
<1>3. ScopeAt(trie, b) # {}
  BY DEF HasBuiltins
<1>4. ScopeAt(trie, b) = {node}
  BY <1>2, <1>3
<1> QED BY <1>4, OnlyIs

LEMMA ScalaLookUpOne ==
    ASSUME NEW S, NEW trie \in Tries(S), NEW name \in Path
    PROVE  \A x \in ScalaLookUp(trie, name) : x \in S /\ \A y \in ScalaLookUp(trie, name) : x = y
<1>. DEFINE Fine(found) == \A x \in found : x \in S /\ \A y \in found : x = y
<1>1. CASE ~HasBuiltins(trie)
  <2>1. ScalaLookUp(trie, name) = LookUp(trie, name)
    BY <1>1 DEF ScalaLookUp
  <2> QED BY <2>1, LookUpIn, LookUpOne
<1>2. CASE HasBuiltins(trie)
  <2>. DEFINE scala == Only(ScopeAt(trie, <<"scala">>))
              java == Only(ScopeAt(trie, <<"java", "lang">>))
              answers == <<LookUp(trie, name), LookUp(scala, name), LookUp(java, name), LookUp(trie, TrimRoot(name))>>
              other == [i \in DOMAIN answers |-> {s \in answers[i] : s.name \notin Builtin}]
  <2>1. ScalaLookUp(trie, name) = FirstAnswer(other)
    BY <1>2 DEF ScalaLookUp
  <2>2. scala \in Tries(S) /\ java \in Tries(S)
    <3>1. <<"scala">> \in Builtin /\ <<"java", "lang">> \in Builtin
      BY DEF Builtin
    <3> QED BY <1>2, <3>1, BuiltinScope
  <2>. HIDE DEF scala, java
  <2>3. Fine(LookUp(trie, name)) /\ Fine(LookUp(scala, name)) /\ Fine(LookUp(java, name)) /\ Fine(LookUp(trie, TrimRoot(name)))
    <3>1. \A t \in Tries(S) : \A p \in Path : Fine(LookUp(t, p))
      BY LookUpIn, LookUpOne
    <3> QED BY <2>2, <3>1, TrimmedRoot
  <2>. HIDE DEF Fine
  <2>4. DOMAIN other = 1 .. 4 /\ \A i \in 1 .. 4 : Fine(answers[i])
    BY <2>3
  <2>5. \A i \in DOMAIN other : Fine(other[i])
    BY <2>4 DEF Fine
  <2>6. Fine(FirstAnswer(other))
    <3>. HIDE DEF other
    <3>1. FirstAnswer(other) = {} \/ \E i \in DOMAIN other : FirstAnswer(other) = other[i]
      BY <2>4, FirstAnswers
    <3> QED BY <2>5, <3>1 DEF Fine
  <2> QED BY <2>1, <2>6 DEF Fine
<1> QED BY <1>1, <1>2

LEMMA OneIsFinite ==
    ASSUME NEW s, NEW x, s \subseteq {x}
    PROVE  IsFiniteSet(s)
<1>1. IsFiniteSet({x})
  BY FS_Singleton
<1> QED BY <1>1, FS_Subset

\* The elements of a finite set in some order.
LEMMA SetToSeqType ==
    ASSUME NEW T, NEW s \in SUBSET T, IsFiniteSet(s)
    PROVE  SetToSeq(s) \in Seq(T)
<1>. DEFINE n == Cardinality(s)
            Fits(f) == f \in [1 .. n -> s] /\ IsInjective(f)
<1>1. n \in Nat /\ ExistsBijection(1 .. n, s)
  BY FS_CardinalityType
<1>2. \E f \in [1 .. n -> s] : IsInjective(f)
  BY <1>1 DEF ExistsBijection, Bijection, Injection
<1>3. SetToSeq(s) = CHOOSE f \in [1 .. n -> s] : IsInjective(f)
  BY DEF SetToSeq
<1>. HIDE DEF n
<1>4. SetToSeq(s) \in [1 .. n -> s]
  BY <1>2, <1>3
<1> QED BY <1>1, <1>4

LEMMA ScalaScopeAtIs ==
    ASSUME NEW S, NEW trie \in Tries(S), NEW name \in Path
    PROVE  IsFiniteSet(ScalaScopeAt(trie, name)) /\ SetToSeq(ScalaScopeAt(trie, name)) \in Seq(Tries(S))
<1>. DEFINE Fine(found) == \E node \in Tries(S) : found \subseteq {node}
<1>0. \A t \in Tries(S) : \A p \in Path : Fine(ScopeAt(t, p))
  BY ScopeAtIs
<1>. HIDE DEF Tries
<1>1. Fine(ScalaScopeAt(trie, name))
  <2>1. CASE ~HasBuiltins(trie)
    <3>1. ScalaScopeAt(trie, name) = ScopeAt(trie, name)
      BY <2>1 DEF ScalaScopeAt
    <3> QED BY <1>0, <3>1
  <2>2. CASE HasBuiltins(trie)
    <3>. DEFINE scala == Only(ScopeAt(trie, <<"scala">>))
                java == Only(ScopeAt(trie, <<"java", "lang">>))
                answers == <<ScopeAt(trie, name), ScopeAt(scala, name), ScopeAt(java, name), ScopeAt(trie, TrimRoot(name))>>
    <3>1. ScalaScopeAt(trie, name) = FirstAnswer(answers)
      BY <2>2 DEF ScalaScopeAt
    <3>2. scala \in Tries(S) /\ java \in Tries(S)
      <4>1. <<"scala">> \in Builtin /\ <<"java", "lang">> \in Builtin
        BY DEF Builtin
      <4> QED BY <2>2, <4>1, BuiltinScope
    <3>. HIDE DEF scala, java
    <3>3. Fine(ScopeAt(trie, name)) /\ Fine(ScopeAt(scala, name)) /\ Fine(ScopeAt(java, name)) /\ Fine(ScopeAt(trie, TrimRoot(name)))
      BY <1>0, <3>2, TrimmedRoot
    <3>. HIDE DEF Fine
    <3>4. DOMAIN answers = 1 .. 4 /\ \A i \in 1 .. 4 : Fine(answers[i])
      BY <3>3
    <3>5. Fine({})
      BY DEF Fine
    <3>. HIDE DEF answers
    <3>6. FirstAnswer(answers) = {} \/ \E i \in DOMAIN answers : FirstAnswer(answers) = answers[i]
      BY <3>4, FirstAnswers
    <3> QED BY <3>1, <3>4, <3>5, <3>6
  <2> QED BY <2>1, <2>2
<1>2. PICK node \in Tries(S) : ScalaScopeAt(trie, name) \subseteq {node}
  BY <1>1
<1>3. ScalaScopeAt(trie, name) \in SUBSET Tries(S) /\ IsFiniteSet(ScalaScopeAt(trie, name))
  BY <1>2, OneIsFinite
<1> QED BY <1>3, SetToSeqType
-----------------------------------------------------------------------------
(***************************************************************************)
(* The symbols: what a provider puts has no conflicts, those of the global *)
(* scope have such conflicts of their own name, and where a file imports   *)
(* a symbol under its last segment it may conflict with any of these.      *)
(***************************************************************************)
KnownSymbol ==
    {s \in [name : Imp, label : STRING, type : STRING, conflicts : Seq(PlainSymbol)] :
        \A i \in DOMAIN s.conflicts : s.conflicts[i].name = s.name}
FileSymbol == [name : Imp, label : STRING, type : STRING, conflicts : Seq(KnownSymbol)]

LEMMA PlainIsKnown == PlainSymbol \subseteq KnownSymbol
<1>. SUFFICES ASSUME NEW s \in PlainSymbol
              PROVE  s \in KnownSymbol
  OBVIOUS
<1>1. s \in [name : Imp, label : STRING, type : STRING, conflicts : {<<>>}]
  BY DEF PlainSymbol
<1>. HIDE DEF PlainSymbol
<1>2. <<>> \in Seq(PlainSymbol) /\ DOMAIN <<>> = {}
  OBVIOUS
<1> QED BY <1>1, <1>2 DEF KnownSymbol

LEMMA SeqGrows ==
    ASSUME NEW S, NEW T, S \subseteq T, NEW s \in Seq(S)
    PROVE  s \in Seq(T)
<1> QED OBVIOUS

LEMMA KnownIsFiles == KnownSymbol \subseteq FileSymbol
<1>. SUFFICES ASSUME NEW s \in KnownSymbol
              PROVE  s \in FileSymbol
  OBVIOUS
<1>1. s \in [name : Imp, label : STRING, type : STRING, conflicts : Seq(PlainSymbol)]
  BY DEF KnownSymbol
<1>. HIDE DEF PlainSymbol, KnownSymbol
<1>2. s.conflicts \in Seq(KnownSymbol)
  BY <1>1, PlainIsKnown, SeqGrows
<1> QED BY <1>1, <1>2 DEF FileSymbol

LEMMA KnownKeepsNames ==
    ASSUME NEW c \in KnownSymbol, NEW sym \in PlainSymbol, c.name = sym.name
    PROVE  WithConflict(c, sym) \in KnownSymbol
<1>1. /\ c \in [name : Imp, label : STRING, type : STRING, conflicts : Seq(PlainSymbol)]
      /\ \A i \in DOMAIN c.conflicts : c.conflicts[i].name = c.name
  BY DEF KnownSymbol
<1>. DEFINE more == Append(c.conflicts, sym)
            after == [c EXCEPT !.conflicts = more]
<1>2. WithConflict(c, sym) = c \/ WithConflict(c, sym) = after
  BY DEF WithConflict
<1>. HIDE DEF PlainSymbol
<1>3. c.conflicts \in Seq(PlainSymbol)
  BY <1>1
<1>4. /\ more \in Seq(PlainSymbol) /\ DOMAIN more = 1 .. Len(c.conflicts) + 1 /\ Len(c.conflicts) \in Nat
      /\ DOMAIN c.conflicts = 1 .. Len(c.conflicts)
      /\ more[Len(c.conflicts) + 1] = sym /\ \A i \in DOMAIN c.conflicts : more[i] = c.conflicts[i]
  BY <1>3
<1>. HIDE DEF more
<1>5. \A i \in DOMAIN more : more[i].name = c.name
  BY <1>1, <1>4
<1>6. after \in KnownSymbol
  BY <1>1, <1>4, <1>5 DEF KnownSymbol
<1> QED BY <1>2, <1>6

LEMMA FileKeepsSymbols ==
    ASSUME NEW c \in FileSymbol, NEW sym \in KnownSymbol
    PROVE  WithConflict(c, sym) \in FileSymbol
<1>. DEFINE more == Append(c.conflicts, sym)
            after == [c EXCEPT !.conflicts = more]
<1>1. WithConflict(c, sym) = c \/ WithConflict(c, sym) = after
  BY DEF WithConflict
<1>. HIDE DEF KnownSymbol
<1>2. c.conflicts \in Seq(KnownSymbol) /\ more \in Seq(KnownSymbol)
  BY DEF FileSymbol
<1>3. after \in FileSymbol
  BY <1>2 DEF FileSymbol
<1> QED BY <1>1, <1>3

LEMMA PutAsType ==
    ASSUME NEW S, NEW trie \in Tries(S), NEW name \in Path, NEW sym \in S,
           \A c \in S : c.name = name => WithConflict(c, sym) \in S
    PROVE  PutAs(trie, name, sym) \in Tries(S)
<1>. DEFINE current == {c \in LookUp(trie, name) : c.name = name /\ c.label # sym.label}
<1>1. DOMAIN trie \subseteq Path /\ \A p \in DOMAIN trie : trie[p] \in S
  BY TrieIs
<1>2. CASE current = {}
  <2>1. PutAs(trie, name, sym) = Store(trie, name, sym)
    BY <1>2 DEF PutAs
  <2>2. Store(trie, name, sym) \in [DOMAIN trie \cup {name} -> S]
    BY <1>1 DEF Store
  <2>3. DOMAIN trie \cup {name} \in SUBSET Path
    BY <1>1
  <2> QED BY <2>1, <2>2, <2>3, IsTrie
<1>3. CASE current # {}
  <2>1. PICK c \in current : PutAs(trie, name, sym) = [p \in DOMAIN trie |-> IF trie[p] = c THEN WithConflict(c, sym) ELSE trie[p]]
    BY <1>3 DEF PutAs
  <2>2. c \in S /\ c.name = name
    BY <2>1, LookUpIn
  <2>3. PutAs(trie, name, sym) \in [DOMAIN trie -> S]
    BY <1>1, <2>1, <2>2
  <2> QED BY <1>1, <2>3, IsTrie
<1> QED BY <1>2, <1>3

\* The table as the providers make it.
KnownTrie == Tries(KnownSymbol)
FileTrie == Tries(FileSymbol)
ClassFcn == [trie \in KnownTrie |-> [sym \in PlainSymbol |-> PutClass(trie, sym)]]
PackageFcn == [trie \in KnownTrie |-> [sym \in PlainSymbol |-> PutPackage(trie, sym)]]

LEMMA ImpPaths == Imp \subseteq Path
<1> QED BY RuleImportsAssumption DEF Path

LEMMA PutKnown ==
    ASSUME NEW trie \in KnownTrie, NEW sym \in PlainSymbol
    PROVE  PutAs(trie, sym.name, sym) \in KnownTrie
<1>1. sym \in KnownSymbol /\ sym.name \in Path
  BY PlainIsKnown, ImpPaths DEF PlainSymbol
<1>2. \A c \in KnownSymbol : c.name = sym.name => WithConflict(c, sym) \in KnownSymbol
  BY KnownKeepsNames
<1>. HIDE DEF KnownSymbol
<1> QED BY <1>1, <1>2, PutAsType DEF KnownTrie

LEMMA PutsType == IsStep(ClassFcn, KnownTrie, PlainSymbol) /\ IsStep(PackageFcn, KnownTrie, PlainSymbol)
<1>1. \A trie \in KnownTrie : \A sym \in PlainSymbol : PutClass(trie, sym) \in KnownTrie /\ PutPackage(trie, sym) \in KnownTrie
  BY PutKnown DEF PutClass, PutPackage
<1>. HIDE DEF KnownTrie, PlainSymbol
<1> QED BY <1>1 DEF ClassFcn, PackageFcn, IsStep

LEMMA ClassesAreFold ==
    ASSUME NEW base \in KnownTrie, NEW list \in Seq(PlainSymbol)
    PROVE  FoldLeft(PutClass, base, list) = Folded(ClassFcn, base, list)
<1>. DEFINE IsIter(h) == h = [s \in SUBSET (1 .. Len(list)) |->
                                 IF s = {} THEN base ELSE PutClass(h[s \ {Max(s)}], list[Max(s)])]
            iter == CHOOSE h : IsIter(h)
<1>. HIDE DEF KnownTrie, PlainSymbol
<1>1. FoldLeft(PutClass, base, list) = iter[1 .. Len(list)]
  <2>1. DOMAIN list = 1 .. Len(list)
    OBVIOUS
  <2> QED BY <2>1 DEF FoldLeft, MapThenFoldSet
<1>2. PICK f : Iterates(f, ClassFcn, KnownTrie, PlainSymbol, base, list)
  BY PutsType, FoldIterates
<1>3. IsIter(f)
  BY <1>2 DEF Iterates, ClassFcn
<1>4. IsIter(iter)
  <2>. HIDE DEF IsIter
  <2> QED BY <1>3
<1>. HIDE DEF iter
<1>5. iter[{}] = base /\ iter = [s \in SUBSET (1 .. Len(list)) |-> iter[s]]
  BY <1>4
<1>6. ASSUME NEW s \in SUBSET (1 .. Len(list)), s # {}, iter[s \ {Max(s)}] \in KnownTrie
      PROVE  iter[s] = ClassFcn[iter[s \ {Max(s)}]][list[Max(s)]]
  <2>1. iter[s] = PutClass(iter[s \ {Max(s)}], list[Max(s)])
    BY <1>4, <1>6
  <2>2. list[Max(s)] \in PlainSymbol
    BY <1>2, <1>6 DEF Iterates
  <2> QED BY <1>6, <2>1, <2>2 DEF ClassFcn
<1>7. FoldsLeft(iter, ClassFcn, KnownTrie, PlainSymbol, base, list)
  <2>. HIDE DEF IsIter
  <2> QED BY <1>5, <1>6, PutsType DEF FoldsLeft
<1>8. iter[1 .. Len(list)] = Folded(ClassFcn, base, list)
  BY <1>7, FoldLeftFolds
<1> QED BY <1>1, <1>8

LEMMA PackagesAreFold ==
    ASSUME NEW base \in KnownTrie, NEW list \in Seq(PlainSymbol)
    PROVE  FoldLeft(PutPackage, base, list) = Folded(PackageFcn, base, list)
<1>. DEFINE IsIter(h) == h = [s \in SUBSET (1 .. Len(list)) |->
                                 IF s = {} THEN base ELSE PutPackage(h[s \ {Max(s)}], list[Max(s)])]
            iter == CHOOSE h : IsIter(h)
<1>. HIDE DEF KnownTrie, PlainSymbol
<1>1. FoldLeft(PutPackage, base, list) = iter[1 .. Len(list)]
  <2>1. DOMAIN list = 1 .. Len(list)
    OBVIOUS
  <2> QED BY <2>1 DEF FoldLeft, MapThenFoldSet
<1>2. PICK f : Iterates(f, PackageFcn, KnownTrie, PlainSymbol, base, list)
  BY PutsType, FoldIterates
<1>3. IsIter(f)
  BY <1>2 DEF Iterates, PackageFcn
<1>4. IsIter(iter)
  <2>. HIDE DEF IsIter
  <2> QED BY <1>3
<1>. HIDE DEF iter
<1>5. iter[{}] = base /\ iter = [s \in SUBSET (1 .. Len(list)) |-> iter[s]]
  BY <1>4
<1>6. ASSUME NEW s \in SUBSET (1 .. Len(list)), s # {}, iter[s \ {Max(s)}] \in KnownTrie
      PROVE  iter[s] = PackageFcn[iter[s \ {Max(s)}]][list[Max(s)]]
  <2>1. iter[s] = PutPackage(iter[s \ {Max(s)}], list[Max(s)])
    BY <1>4, <1>6
  <2>2. list[Max(s)] \in PlainSymbol
    BY <1>2, <1>6 DEF Iterates
  <2> QED BY <1>6, <2>1, <2>2 DEF PackageFcn
<1>7. FoldsLeft(iter, PackageFcn, KnownTrie, PlainSymbol, base, list)
  <2>. HIDE DEF IsIter
  <2> QED BY <1>5, <1>6, PutsType DEF FoldsLeft
<1>8. iter[1 .. Len(list)] = Folded(PackageFcn, base, list)
  BY <1>7, FoldLeftFolds
<1> QED BY <1>1, <1>8

LEMMA TablesType ==
    ASSUME NEW puts \in Seq(PlainSymbol)
    PROVE  FoldLeft(PutClass, EmptyScope, puts) \in KnownTrie /\ FoldLeft(PutPackage, EmptyScope, puts) \in KnownTrie
<1>1. EmptyScope \in KnownTrie
  BY EmptyIsTrie DEF KnownTrie
<1>. HIDE DEF KnownTrie, PlainSymbol
<1>2. Folded(ClassFcn, EmptyScope, puts) \in KnownTrie /\ Folded(PackageFcn, EmptyScope, puts) \in KnownTrie
  BY <1>1, PutsType, FoldedType
<1> QED BY <1>1, <1>2, ClassesAreFold, PackagesAreFold
-----------------------------------------------------------------------------
(***************************************************************************)
(* What the files of a rule put into its import map.                       *)
(***************************************************************************)
FileEntry == [imp : Imp, sym : SUBSET FileSymbol, error : {FALSE}]
FileMap == Seq(FileEntry)

TablesOK == globalScope \in KnownTrie /\ packages \in KnownTrie

LEMMA GetSymbolIs ==
    ASSUME TablesOK, NEW name \in Path
    PROVE  \A x \in GetSymbol(name) : x \in KnownSymbol /\ \A y \in GetSymbol(name) : x = y
<1>1. globalScope \in Tries(KnownSymbol)
  BY DEF TablesOK, KnownTrie
<1>. HIDE DEF KnownSymbol
<1> QED BY <1>1, ScalaLookUpOne DEF GetSymbol

LEMMA OnlyOf ==
    ASSUME NEW found, found # {}
    PROVE  Only(found) \in found
<1> QED BY DEF Only

LEMMA ImportIs ==
    ASSUME NEW name \in Imp, NEW found \in SUBSET FileSymbol
    PROVE  Import(name, found) \in FileEntry
<1> QED BY DEF Import, FileEntry

LEMMA FileSymbolName ==
    ASSUME NEW s \in FileSymbol
    PROVE  s.name \in Imp
<1> QED BY DEF FileSymbol

LEMMA FoundAsIs ==
    ASSUME NEW name \in Imp, NEW found \in SUBSET FileSymbol
    PROVE  FoundAs(name, found) \in FileEntry
<1>1. found # {} => Only(found).name \in Imp
  BY OnlyOf, FileSymbolName
<1> QED BY <1>1, ImportIs DEF FoundAs

LEMMA PutIs ==
    ASSUME NEW map \in FileMap, NEW import \in FileEntry
    PROVE  Put(map, import) \in FileMap /\ PutIfNotSelf(map, import) \in FileMap
<1>. HIDE DEF FileEntry
<1> QED BY DEF Put, PutIfNotSelf, FileMap

LEMMA PutIfKnownIs ==
    ASSUME NEW map \in FileMap, NEW found \in SUBSET FileSymbol
    PROVE  PutIfKnown(map, found) \in FileMap
<1>1. found # {} => Import(Only(found).name, found) \in FileEntry
  BY OnlyOf, FileSymbolName, ImportIs
<1> QED BY <1>1, PutIs DEF PutIfKnown

NotSelfFcn == [map \in FileMap |-> [import \in FileEntry |-> PutIfNotSelf(map, import)]]
KnownFcn == [map \in FileMap |-> [found \in SUBSET FileSymbol |-> PutIfKnown(map, found)]]

LEMMA ImportStepsType ==
    /\ IsStep(NotSelfFcn, FileMap, FileEntry)
    /\ IsStep(KnownFcn, FileMap, SUBSET FileSymbol)
<1>1. \A map \in FileMap : \A import \in FileEntry : Put(map, import) \in FileMap /\ PutIfNotSelf(map, import) \in FileMap
  BY PutIs
<1>2. \A map \in FileMap : \A found \in SUBSET FileSymbol : PutIfKnown(map, found) \in FileMap
  BY PutIfKnownIs
<1>. HIDE DEF FileMap, FileEntry, FileSymbol
<1> QED BY <1>1, <1>2 DEF NotSelfFcn, KnownFcn, IsStep

LEMMA NotSelfIsFold ==
    ASSUME NEW base \in FileMap, NEW list \in Seq(FileEntry)
    PROVE  FoldLeft(PutIfNotSelf, base, list) = Folded(NotSelfFcn, base, list)
<1>. DEFINE IsIter(h) == h = [s \in SUBSET (1 .. Len(list)) |->
                                 IF s = {} THEN base ELSE PutIfNotSelf(h[s \ {Max(s)}], list[Max(s)])]
            iter == CHOOSE h : IsIter(h)
<1>. HIDE DEF FileMap, FileEntry
<1>1. FoldLeft(PutIfNotSelf, base, list) = iter[1 .. Len(list)]
  <2>1. DOMAIN list = 1 .. Len(list)
    OBVIOUS
  <2> QED BY <2>1 DEF FoldLeft, MapThenFoldSet
<1>2. PICK f : Iterates(f, NotSelfFcn, FileMap, FileEntry, base, list)
  BY ImportStepsType, FoldIterates
<1>3. IsIter(f)
  BY <1>2 DEF Iterates, NotSelfFcn
<1>4. IsIter(iter)
  <2>. HIDE DEF IsIter
  <2> QED BY <1>3
<1>. HIDE DEF iter
<1>5. iter[{}] = base /\ iter = [s \in SUBSET (1 .. Len(list)) |-> iter[s]]
  BY <1>4
<1>6. ASSUME NEW s \in SUBSET (1 .. Len(list)), s # {}, iter[s \ {Max(s)}] \in FileMap
      PROVE  iter[s] = NotSelfFcn[iter[s \ {Max(s)}]][list[Max(s)]]
  <2>1. iter[s] = PutIfNotSelf(iter[s \ {Max(s)}], list[Max(s)])
    BY <1>4, <1>6
  <2>2. list[Max(s)] \in FileEntry
    BY <1>2, <1>6 DEF Iterates
  <2> QED BY <1>6, <2>1, <2>2 DEF NotSelfFcn
<1>7. FoldsLeft(iter, NotSelfFcn, FileMap, FileEntry, base, list)
  <2>. HIDE DEF IsIter
  <2> QED BY <1>5, <1>6, ImportStepsType DEF FoldsLeft
<1>8. iter[1 .. Len(list)] = Folded(NotSelfFcn, base, list)
  BY <1>7, FoldLeftFolds
<1> QED BY <1>1, <1>8

LEMMA KnownIsFold ==
    ASSUME NEW base \in FileMap, NEW list \in Seq((SUBSET FileSymbol))
    PROVE  FoldLeft(PutIfKnown, base, list) = Folded(KnownFcn, base, list)
<1>. DEFINE IsIter(h) == h = [s \in SUBSET (1 .. Len(list)) |->
                                 IF s = {} THEN base ELSE PutIfKnown(h[s \ {Max(s)}], list[Max(s)])]
            iter == CHOOSE h : IsIter(h)
<1>. HIDE DEF FileMap, FileSymbol
<1>1. FoldLeft(PutIfKnown, base, list) = iter[1 .. Len(list)]
  <2>1. DOMAIN list = 1 .. Len(list)
    OBVIOUS
  <2> QED BY <2>1 DEF FoldLeft, MapThenFoldSet
<1>2. PICK f : Iterates(f, KnownFcn, FileMap, (SUBSET FileSymbol), base, list)
  BY ImportStepsType, FoldIterates
<1>3. IsIter(f)
  BY <1>2 DEF Iterates, KnownFcn
<1>4. IsIter(iter)
  <2>. HIDE DEF IsIter
  <2> QED BY <1>3
<1>. HIDE DEF iter
<1>5. iter[{}] = base /\ iter = [s \in SUBSET (1 .. Len(list)) |-> iter[s]]
  BY <1>4
<1>6. ASSUME NEW s \in SUBSET (1 .. Len(list)), s # {}, iter[s \ {Max(s)}] \in FileMap
      PROVE  iter[s] = KnownFcn[iter[s \ {Max(s)}]][list[Max(s)]]
  <2>1. iter[s] = PutIfKnown(iter[s \ {Max(s)}], list[Max(s)])
    BY <1>4, <1>6
  <2>2. list[Max(s)] \in (SUBSET FileSymbol)
    BY <1>2, <1>6 DEF Iterates
  <2> QED BY <1>6, <2>1, <2>2 DEF KnownFcn
<1>7. FoldsLeft(iter, KnownFcn, FileMap, (SUBSET FileSymbol), base, list)
  <2>. HIDE DEF IsIter
  <2> QED BY <1>5, <1>6, ImportStepsType DEF FoldsLeft
<1>8. iter[1 .. Len(list)] = Folded(KnownFcn, base, list)
  BY <1>7, FoldLeftFolds
<1> QED BY <1>1, <1>8


LEMMA PutAllIfNotSelfIs ==
    ASSUME NEW map \in FileMap, NEW new \in Seq(FileEntry)
    PROVE  PutAllIfNotSelf(map, new) \in FileMap
<1>1. Folded(NotSelfFcn, map, new) \in FileMap
  <2>. HIDE DEF FileMap, FileEntry
  <2> QED BY ImportStepsType, FoldedType
<1> QED BY <1>1, NotSelfIsFold DEF PutAllIfNotSelf

LEMMA PutKnownsIs ==
    ASSUME NEW map \in FileMap, NEW founds \in Seq(SUBSET FileSymbol)
    PROVE  FoldLeft(PutIfKnown, map, founds) \in FileMap
<1>1. Folded(KnownFcn, map, founds) \in FileMap
  <2>. HIDE DEF FileMap, FileSymbol
  <2> QED BY ImportStepsType, FoldedType
<1> QED BY <1>1, KnownIsFold
Gathering == [map : FileMap, scopes : Seq(KnownTrie), direct : FileTrie]

LEMMA GatheringIs ==
    ASSUME NEW g \in Gathering
    PROVE  g.map \in FileMap /\ g.scopes \in Seq(KnownTrie) /\ g.direct \in FileTrie
<1>. HIDE DEF FileMap, KnownTrie, FileTrie
<1> QED BY DEF Gathering

LEMMA SetScopes ==
    ASSUME NEW g \in Gathering, NEW m \in FileMap, NEW s \in Seq(KnownTrie)
    PROVE  [g EXCEPT !.map = m, !.scopes = s] \in Gathering /\ [g EXCEPT !.scopes = s] \in Gathering
<1>. HIDE DEF FileMap, KnownTrie, FileTrie
<1> QED BY DEF Gathering

LEMMA SetDirect ==
    ASSUME NEW g \in Gathering, NEW m \in FileMap, NEW d \in FileTrie
    PROVE  [g EXCEPT !.map = m, !.direct = d] \in Gathering
<1>. HIDE DEF FileMap, KnownTrie, FileTrie
<1> QED BY DEF Gathering

LEMMA GetSymbolFiles ==
    ASSUME TablesOK, NEW name \in Path
    PROVE  GetSymbol(name) \in SUBSET FileSymbol
<1> QED BY GetSymbolIs, KnownIsFiles

LEMMA MoreScopes ==
    ASSUME TablesOK, NEW scopes \in Seq(KnownTrie), NEW name \in Path
    PROVE  scopes \o SetToSeq(ScalaScopeAt(globalScope, name)) \in Seq(KnownTrie)
<1>1. SetToSeq(ScalaScopeAt(globalScope, name)) \in Seq(KnownTrie)
  BY ScalaScopeAtIs DEF TablesOK, KnownTrie
<1>. HIDE DEF KnownTrie
<1> QED BY <1>1

LEMMA Qualified ==
    ASSUME NEW name \in Imp
    PROVE  Front(name) \in Path /\ \A segment \in Segment : Append(Front(name), segment) \in Path
<1>1. name \in Seq(Segment) /\ name # <<>>
  BY RuleImportsAssumption
<1>2. Front(name) \in Path
  BY <1>1 DEF Front, Path
<1> QED BY <1>2 DEF Path

LEMMA WildcardImportIs ==
    ASSUME TablesOK, NEW file, NEW g \in Gathering, NEW name \in Imp
    PROVE  WildcardImport(file, g, name) \in Gathering
<1>. DEFINE prefix == Front(name)
            fixed == IF ShouldFixWildcardImport(file, name) THEN FixedTo[name] ELSE <<>>
            named == [i \in DOMAIN fixed |-> GetSymbol(Append(prefix, fixed[i]))]
            known == FoldLeft(PutIfKnown, g.map, named)
            map == PutIfNotSelf(known, FoundAs(name, GetSymbol(name)))
            scopes == g.scopes \o SetToSeq(ScalaScopeAt(globalScope, prefix))
<1>1. prefix \in Path /\ \A segment \in Segment : Append(prefix, segment) \in Path
  BY Qualified
<1>2. fixed \in Seq(Segment)
  BY RuleImportsAssumption
<1>3. name \in Path
  BY ImpPaths
<1>4. WildcardImport(file, g, name) = [g EXCEPT !.map = map, !.scopes = scopes]
  BY DEF WildcardImport
<1>. HIDE DEF prefix, fixed
<1>5. named \in Seq(SUBSET FileSymbol)
  <2>1. Len(fixed) \in Nat /\ DOMAIN fixed = 1 .. Len(fixed) /\ \A i \in DOMAIN fixed : fixed[i] \in Segment
    BY <1>2
  <2>2. \A i \in 1 .. Len(fixed) : GetSymbol(Append(prefix, fixed[i])) \in SUBSET FileSymbol
    BY <1>1, <2>1, GetSymbolFiles
  <2>3. named \in [1 .. Len(fixed) -> SUBSET FileSymbol]
    BY <2>1, <2>2
  <2> QED BY <2>1, <2>3
<1>6. g.map \in FileMap /\ g.scopes \in Seq(KnownTrie) /\ g.direct \in FileTrie
  BY GatheringIs
<1>. HIDE DEF named
<1>7. known \in FileMap
  BY <1>5, <1>6, PutKnownsIs
<1>. HIDE DEF known
<1>8. map \in FileMap
  BY <1>3, <1>7, GetSymbolFiles, FoundAsIs, PutIs
<1>9. scopes \in Seq(KnownTrie)
  BY <1>1, <1>6, MoreScopes
<1>. HIDE DEF map, scopes
<1>10. [g EXCEPT !.map = map, !.scopes = scopes] \in Gathering
  BY <1>8, <1>9, SetScopes
<1> QED BY <1>4, <1>10, Zenon

LEMMA LastSegment ==
    ASSUME NEW name \in Imp
    PROVE  <<Last(name)>> \in Path
<1>1. name \in Seq(Segment) /\ name # <<>>
  BY RuleImportsAssumption
<1>2. Last(name) \in Segment
  BY <1>1 DEF Last
<1> QED BY <1>2 DEF Path

LEMMA DirectImportIs ==
    ASSUME TablesOK, NEW g \in Gathering, NEW name \in Imp
    PROVE  DirectImport(g, name) \in Gathering
<1>. DEFINE found == GetSymbol(name)
            map == PutIfNotSelf(g.map, Import(name, found))
            trie == IF found = {} THEN g.direct ELSE PutAs(g.direct, <<Last(name)>>, Only(found))
<1>1. DirectImport(g, name) = [g EXCEPT !.map = map, !.direct = trie]
  BY DEF DirectImport
<1>2. g.map \in FileMap /\ g.scopes \in Seq(KnownTrie) /\ g.direct \in FileTrie
  BY GatheringIs
<1>3. name \in Path
  BY ImpPaths
<1>4. found \in SUBSET KnownSymbol /\ found \in SUBSET FileSymbol
  BY <1>3, GetSymbolIs, KnownIsFiles
<1>. HIDE DEF found
<1>5. map \in FileMap
  BY <1>2, <1>4, ImportIs, PutIs
<1>6. trie \in FileTrie
  <2>1. CASE found = {}
    BY <1>2, <2>1
  <2>2. CASE found # {}
    <3>1. Only(found) \in KnownSymbol /\ Only(found) \in FileSymbol
      BY <1>4, <2>2, OnlyOf
    <3>2. \A c \in FileSymbol : WithConflict(c, Only(found)) \in FileSymbol
      BY <3>1, FileKeepsSymbols
    <3>3. <<Last(name)>> \in Path /\ g.direct \in Tries(FileSymbol)
      BY <1>2, LastSegment DEF FileTrie
    <3>. HIDE DEF FileSymbol
    <3> QED BY <2>2, <3>1, <3>2, <3>3, PutAsType DEF FileTrie
  <2> QED BY <2>1, <2>2
<1>. HIDE DEF map, trie
<1> QED BY <1>1, <1>2, <1>5, <1>6, SetDirect

LineFcn(file) == [g \in Gathering |-> [name \in Imp |-> ImportLine(file, g, name)]]
ScopeFcn == [g \in Gathering |-> [name \in Imp |-> PackageScope(g, name)]]

LEMMA LineStepsType ==
    ASSUME TablesOK, NEW file
    PROVE  IsStep(LineFcn(file), Gathering, Imp) /\ IsStep(ScopeFcn, Gathering, Imp)
<1>1. \A g \in Gathering : \A name \in Imp : ImportLine(file, g, name) \in Gathering
  BY WildcardImportIs, DirectImportIs DEF ImportLine
<1>2. \A g \in Gathering : \A name \in Imp : PackageScope(g, name) \in Gathering
  BY GatheringIs, MoreScopes, SetScopes, ImpPaths DEF PackageScope
<1>. HIDE DEF Gathering
<1> QED BY <1>1, <1>2 DEF LineFcn, ScopeFcn, IsStep

LEMMA LinesAreFold ==
    ASSUME TablesOK, NEW file, NEW base \in Gathering, NEW list \in Seq(Imp)
    PROVE  FoldLeft(LAMBDA g, name : ImportLine(file, g, name), base, list) = Folded(LineFcn(file), base, list)
<1>. DEFINE IsIter(h) == h = [s \in SUBSET (1 .. Len(list)) |->
                                 IF s = {} THEN base ELSE ImportLine(file, h[s \ {Max(s)}], list[Max(s)])]
            iter == CHOOSE h : IsIter(h)
<1>. HIDE DEF Gathering
<1>1. FoldLeft(LAMBDA g, name : ImportLine(file, g, name), base, list) = iter[1 .. Len(list)]
  <2>1. DOMAIN list = 1 .. Len(list)
    OBVIOUS
  <2> QED BY <2>1 DEF FoldLeft, MapThenFoldSet
<1>2. PICK f : Iterates(f, LineFcn(file), Gathering, Imp, base, list)
  BY LineStepsType, FoldIterates
<1>3. IsIter(f)
  BY <1>2 DEF Iterates, LineFcn
<1>4. IsIter(iter)
  <2>. HIDE DEF IsIter
  <2> QED BY <1>3
<1>. HIDE DEF iter
<1>5. iter[{}] = base /\ iter = [s \in SUBSET (1 .. Len(list)) |-> iter[s]]
  BY <1>4
<1>6. ASSUME NEW s \in SUBSET (1 .. Len(list)), s # {}, iter[s \ {Max(s)}] \in Gathering
      PROVE  iter[s] = LineFcn(file)[iter[s \ {Max(s)}]][list[Max(s)]]
  <2>1. iter[s] = ImportLine(file, iter[s \ {Max(s)}], list[Max(s)])
    BY <1>4, <1>6
  <2>2. list[Max(s)] \in Imp
    BY <1>2, <1>6 DEF Iterates
  <2> QED BY <1>6, <2>1, <2>2 DEF LineFcn
<1>7. FoldsLeft(iter, LineFcn(file), Gathering, Imp, base, list)
  <2>. HIDE DEF IsIter
  <2> QED BY <1>5, <1>6, LineStepsType DEF FoldsLeft
<1>8. iter[1 .. Len(list)] = Folded(LineFcn(file), base, list)
  BY <1>7, FoldLeftFolds
<1> QED BY <1>1, <1>8

LEMMA ScopesAreFold ==
    ASSUME TablesOK, NEW base \in Gathering, NEW list \in Seq(Imp)
    PROVE  FoldLeft(PackageScope, base, list) = Folded(ScopeFcn, base, list)
<1>. DEFINE IsIter(h) == h = [s \in SUBSET (1 .. Len(list)) |->
                                 IF s = {} THEN base ELSE PackageScope(h[s \ {Max(s)}], list[Max(s)])]
            iter == CHOOSE h : IsIter(h)
<1>. HIDE DEF Gathering
<1>1. FoldLeft(PackageScope, base, list) = iter[1 .. Len(list)]
  <2>1. DOMAIN list = 1 .. Len(list)
    OBVIOUS
  <2> QED BY <2>1 DEF FoldLeft, MapThenFoldSet
<1>2. PICK f : Iterates(f, ScopeFcn, Gathering, Imp, base, list)
  BY LineStepsType, FoldIterates
<1>3. IsIter(f)
  BY <1>2 DEF Iterates, ScopeFcn
<1>4. IsIter(iter)
  <2>. HIDE DEF IsIter
  <2> QED BY <1>3
<1>. HIDE DEF iter
<1>5. iter[{}] = base /\ iter = [s \in SUBSET (1 .. Len(list)) |-> iter[s]]
  BY <1>4
<1>6. ASSUME NEW s \in SUBSET (1 .. Len(list)), s # {}, iter[s \ {Max(s)}] \in Gathering
      PROVE  iter[s] = ScopeFcn[iter[s \ {Max(s)}]][list[Max(s)]]
  <2>1. iter[s] = PackageScope(iter[s \ {Max(s)}], list[Max(s)])
    BY <1>4, <1>6
  <2>2. list[Max(s)] \in Imp
    BY <1>2, <1>6 DEF Iterates
  <2> QED BY <1>6, <2>1, <2>2 DEF ScopeFcn
<1>7. FoldsLeft(iter, ScopeFcn, Gathering, Imp, base, list)
  <2>. HIDE DEF IsIter
  <2> QED BY <1>5, <1>6, LineStepsType DEF FoldsLeft
<1>8. iter[1 .. Len(list)] = Folded(ScopeFcn, base, list)
  BY <1>7, FoldLeftFolds
<1> QED BY <1>1, <1>8


LEMMA FileLookUpIs ==
    ASSUME TablesOK, NEW g \in Gathering, NEW name \in Imp
    PROVE  FileLookUp(g, name) \in SUBSET FileSymbol
<1>. DEFINE n == Len(g.scopes)
            inner == [i \in DOMAIN g.scopes |-> LookUp(g.scopes[i], name)]
            outer == <<GetSymbol(name), LookUp(g.direct, name)>>
            answers == inner \o outer
<1>1. g.scopes \in Seq(KnownTrie) /\ g.direct \in FileTrie
  BY GatheringIs
<1>2. name \in Path
  BY ImpPaths
<1>3. n \in Nat /\ DOMAIN g.scopes = 1 .. n /\ \A i \in DOMAIN g.scopes : g.scopes[i] \in KnownTrie
  <2>. HIDE DEF KnownTrie
  <2> QED BY <1>1
<1>4. inner \in Seq(SUBSET FileSymbol)
  <2>1. \A t \in KnownTrie : LookUp(t, name) \in SUBSET FileSymbol
    <3>1. \A t \in Tries(KnownSymbol) : LookUp(t, name) \subseteq KnownSymbol
      BY LookUpIn
    <3> QED BY <3>1, KnownIsFiles DEF KnownTrie
  <2>2. inner \in [1 .. n -> SUBSET FileSymbol]
    BY <1>3, <2>1
  <2> QED BY <1>3, <2>2
<1>5. outer \in Seq(SUBSET FileSymbol)
  <2>1. GetSymbol(name) \in SUBSET FileSymbol
    BY <1>2, GetSymbolFiles
  <2>2. LookUp(g.direct, name) \in SUBSET FileSymbol
    BY <1>1, LookUpIn DEF FileTrie
  <2>. HIDE DEF FileSymbol
  <2> QED BY <2>1, <2>2
<1>6. FileLookUp(g, name) = FirstAnswer(answers)
  BY DEF FileLookUp
<1>. HIDE DEF inner, outer, FileSymbol
<1>7. answers \in Seq(SUBSET FileSymbol)
  BY <1>4, <1>5
<1>. HIDE DEF answers
<1>8. Len(answers) \in Nat /\ DOMAIN answers = 1 .. Len(answers) /\ \A i \in DOMAIN answers : answers[i] \in SUBSET FileSymbol
  BY <1>7
<1>9. FirstAnswer(answers) = {} \/ \E i \in DOMAIN answers : FirstAnswer(answers) = answers[i]
  BY <1>8, FirstAnswers
<1> QED BY <1>6, <1>8, <1>9

LEMMA FileIs ==
    ASSUME NEW file \in SourceFile
    PROVE  /\ file.imports \in Seq(Imp) /\ file.packages \in Seq(Imp) /\ file.extends \in Seq(Imp)
           /\ file.semantic \in Seq(Imp) /\ file.defines \in Seq(Imp)
<1> QED BY DEF SourceFile

LEMMA FileImportsIs ==
    ASSUME TablesOK, NEW map \in FileMap, NEW file \in SourceFile
    PROVE  FileImports(map, file) \in FileMap
<1>. DEFINE empty == [map |-> map, scopes |-> <<>>, direct |-> EmptyScope]
            lines == FoldLeft(LAMBDA g, name : ImportLine(file, g, name), empty, file.imports)
            all == FoldLeft(PackageScope, lines, file.packages)
<1>1. FileImports(map, file) = FoldLeft(PutIfKnown, all.map, ExtendsImports(all, file))
  BY DEF FileImports
<1>2. file.imports \in Seq(Imp) /\ file.packages \in Seq(Imp) /\ file.extends \in Seq(Imp)
  BY FileIs
<1>3. empty \in Gathering
  <2>1. EmptyScope \in FileTrie
    BY EmptyIsTrie DEF FileTrie
  <2>2. <<>> \in Seq(KnownTrie)
    OBVIOUS
  <2>. HIDE DEF FileMap, FileTrie, KnownTrie
  <2> QED BY <2>1, <2>2 DEF Gathering
<1>. HIDE DEF empty, Gathering
<1>4. lines \in Gathering
  <2>1. Folded(LineFcn(file), empty, file.imports) \in Gathering
    BY <1>2, <1>3, LineStepsType, FoldedType
  <2> QED BY <1>2, <1>3, <2>1, LinesAreFold
<1>. HIDE DEF lines
<1>5. all \in Gathering
  <2>1. Folded(ScopeFcn, lines, file.packages) \in Gathering
    BY <1>2, <1>4, LineStepsType, FoldedType
  <2> QED BY <1>2, <1>4, <2>1, ScopesAreFold
<1>. HIDE DEF all
<1>6. ExtendsImports(all, file) \in Seq(SUBSET FileSymbol)
  <2>1. Len(file.extends) \in Nat /\ DOMAIN file.extends = 1 .. Len(file.extends) /\ \A i \in DOMAIN file.extends : file.extends[i] \in Imp
    BY <1>2
  <2>2. \A i \in 1 .. Len(file.extends) : FileLookUp(all, file.extends[i]) \in SUBSET FileSymbol
    BY <1>5, <2>1, FileLookUpIs
  <2>3. ExtendsImports(all, file) \in [1 .. Len(file.extends) -> SUBSET FileSymbol]
    BY <2>1, <2>2 DEF ExtendsImports
  <2> QED BY <2>1, <2>3
<1> QED BY <1>1, <1>5, <1>6, GatheringIs, PutKnownsIs

LEMMA FileSemanticImportsIs ==
    ASSUME TablesOK, NEW map \in FileMap, NEW file \in SourceFile
    PROVE  FileSemanticImports(map, file) \in FileMap
<1>. DEFINE new == [i \in DOMAIN file.semantic |-> Import(file.semantic[i], GetSymbol(file.semantic[i]))]
<1>1. file.semantic \in Seq(Imp)
  BY FileIs
<1>2. Len(file.semantic) \in Nat /\ DOMAIN file.semantic = 1 .. Len(file.semantic) /\ \A i \in DOMAIN file.semantic : file.semantic[i] \in Imp
  BY <1>1
<1>3. \A name \in Imp : Import(name, GetSymbol(name)) \in FileEntry
  BY GetSymbolFiles, ImpPaths, ImportIs
<1>. HIDE DEF FileEntry
<1>4. new \in [1 .. Len(file.semantic) -> FileEntry]
  BY <1>2, <1>3
<1>5. new \in Seq(FileEntry)
  BY <1>2, <1>4
<1> QED BY <1>5, PutAllIfNotSelfIs DEF FileSemanticImports

FilesFcn == [map \in FileMap |-> [file \in SourceFile |-> FileImports(map, file)]]
SemanticFcn == [map \in FileMap |-> [file \in SourceFile |-> FileSemanticImports(map, file)]]

LEMMA FileStepsType ==
    ASSUME TablesOK
    PROVE  IsStep(FilesFcn, FileMap, SourceFile) /\ IsStep(SemanticFcn, FileMap, SourceFile)
<1>1. \A map \in FileMap : \A file \in SourceFile : FileImports(map, file) \in FileMap /\ FileSemanticImports(map, file) \in FileMap
  BY FileImportsIs, FileSemanticImportsIs
<1>. HIDE DEF FileMap, SourceFile
<1> QED BY <1>1 DEF FilesFcn, SemanticFcn, IsStep

LEMMA FilesAreFold ==
    ASSUME TablesOK, NEW base \in FileMap, NEW list \in Seq(SourceFile)
    PROVE  FoldLeft(FileImports, base, list) = Folded(FilesFcn, base, list)
<1>. DEFINE IsIter(h) == h = [s \in SUBSET (1 .. Len(list)) |->
                                 IF s = {} THEN base ELSE FileImports(h[s \ {Max(s)}], list[Max(s)])]
            iter == CHOOSE h : IsIter(h)
<1>. HIDE DEF FileMap, SourceFile
<1>1. FoldLeft(FileImports, base, list) = iter[1 .. Len(list)]
  <2>1. DOMAIN list = 1 .. Len(list)
    OBVIOUS
  <2> QED BY <2>1 DEF FoldLeft, MapThenFoldSet
<1>2. PICK f : Iterates(f, FilesFcn, FileMap, SourceFile, base, list)
  BY FileStepsType, FoldIterates
<1>3. IsIter(f)
  BY <1>2 DEF Iterates, FilesFcn
<1>4. IsIter(iter)
  <2>. HIDE DEF IsIter
  <2> QED BY <1>3
<1>. HIDE DEF iter
<1>5. iter[{}] = base /\ iter = [s \in SUBSET (1 .. Len(list)) |-> iter[s]]
  BY <1>4
<1>6. ASSUME NEW s \in SUBSET (1 .. Len(list)), s # {}, iter[s \ {Max(s)}] \in FileMap
      PROVE  iter[s] = FilesFcn[iter[s \ {Max(s)}]][list[Max(s)]]
  <2>1. iter[s] = FileImports(iter[s \ {Max(s)}], list[Max(s)])
    BY <1>4, <1>6
  <2>2. list[Max(s)] \in SourceFile
    BY <1>2, <1>6 DEF Iterates
  <2> QED BY <1>6, <2>1, <2>2 DEF FilesFcn
<1>7. FoldsLeft(iter, FilesFcn, FileMap, SourceFile, base, list)
  <2>. HIDE DEF IsIter
  <2> QED BY <1>5, <1>6, FileStepsType DEF FoldsLeft
<1>8. iter[1 .. Len(list)] = Folded(FilesFcn, base, list)
  BY <1>7, FoldLeftFolds
<1> QED BY <1>1, <1>8

LEMMA SemanticIsFold ==
    ASSUME TablesOK, NEW base \in FileMap, NEW list \in Seq(SourceFile)
    PROVE  FoldLeft(FileSemanticImports, base, list) = Folded(SemanticFcn, base, list)
<1>. DEFINE IsIter(h) == h = [s \in SUBSET (1 .. Len(list)) |->
                                 IF s = {} THEN base ELSE FileSemanticImports(h[s \ {Max(s)}], list[Max(s)])]
            iter == CHOOSE h : IsIter(h)
<1>. HIDE DEF FileMap, SourceFile
<1>1. FoldLeft(FileSemanticImports, base, list) = iter[1 .. Len(list)]
  <2>1. DOMAIN list = 1 .. Len(list)
    OBVIOUS
  <2> QED BY <2>1 DEF FoldLeft, MapThenFoldSet
<1>2. PICK f : Iterates(f, SemanticFcn, FileMap, SourceFile, base, list)
  BY FileStepsType, FoldIterates
<1>3. IsIter(f)
  BY <1>2 DEF Iterates, SemanticFcn
<1>4. IsIter(iter)
  <2>. HIDE DEF IsIter
  <2> QED BY <1>3
<1>. HIDE DEF iter
<1>5. iter[{}] = base /\ iter = [s \in SUBSET (1 .. Len(list)) |-> iter[s]]
  BY <1>4
<1>6. ASSUME NEW s \in SUBSET (1 .. Len(list)), s # {}, iter[s \ {Max(s)}] \in FileMap
      PROVE  iter[s] = SemanticFcn[iter[s \ {Max(s)}]][list[Max(s)]]
  <2>1. iter[s] = FileSemanticImports(iter[s \ {Max(s)}], list[Max(s)])
    BY <1>4, <1>6
  <2>2. list[Max(s)] \in SourceFile
    BY <1>2, <1>6 DEF Iterates
  <2> QED BY <1>6, <2>1, <2>2 DEF SemanticFcn
<1>7. FoldsLeft(iter, SemanticFcn, FileMap, SourceFile, base, list)
  <2>. HIDE DEF IsIter
  <2> QED BY <1>5, <1>6, FileStepsType DEF FoldsLeft
<1>8. iter[1 .. Len(list)] = Folded(SemanticFcn, base, list)
  BY <1>7, FoldLeftFolds
<1> QED BY <1>1, <1>8


LEMMA DirectMapIs ==
    ASSUME TablesOK, rule \in ScalaRule
    PROVE  DirectMap \in FileMap
<1>. DEFINE main == [i \in DOMAIN rule.mainClass |-> Import(rule.mainClass[i], {})]
            named == FoldLeft(FileImports, main, rule.files)
<1>1. rule.mainClass \in Seq(Imp) /\ rule.files \in Seq(SourceFile)
  <2>. HIDE DEF SourceFile
  <2> QED BY DEF ScalaRule
<1>2. DirectMap = FoldLeft(FileSemanticImports, named, rule.files)
  BY DEF DirectMap
<1>3. main \in FileMap
  <2>1. Len(rule.mainClass) \in Nat /\ DOMAIN rule.mainClass = 1 .. Len(rule.mainClass) /\ \A i \in DOMAIN rule.mainClass : rule.mainClass[i] \in Imp
    BY <1>1
  <2>2. \A name \in Imp : Import(name, {}) \in FileEntry
    BY ImportIs
  <2>. HIDE DEF FileEntry
  <2>3. main \in [1 .. Len(rule.mainClass) -> FileEntry]
    BY <2>1, <2>2
  <2> QED BY <2>1, <2>3 DEF FileMap
<1>. HIDE DEF main, FileMap, SourceFile
<1>4. named \in FileMap
  <2>1. Folded(FilesFcn, main, rule.files) \in FileMap
    BY <1>1, <1>3, FileStepsType, FoldedType
  <2> QED BY <1>1, <1>3, <2>1, FilesAreFold
<1>. HIDE DEF named
<1>5. Folded(SemanticFcn, named, rule.files) \in FileMap
  BY <1>1, <1>4, FileStepsType, FoldedType
<1> QED BY <1>1, <1>2, <1>4, <1>5, SemanticIsFold

\* The names of a rule's symbols are finitely many.
LEMMA AppendedElements ==
    ASSUME NEW T, NEW s \in Seq(T), NEW x \in T
    PROVE  /\ Append(s, x) \in Seq(T) /\ DOMAIN s = 1 .. Len(s) /\ Len(s) \in Nat
           /\ DOMAIN Append(s, x) = 1 .. Len(s) + 1 /\ Append(s, x)[Len(s) + 1] = x
           /\ \A i \in DOMAIN s : Append(s, x)[i] = s[i]
<1> QED OBVIOUS

LEMMA EmptySeqIs ==
    ASSUME NEW T
    PROVE  <<>> \in Seq(T)
<1> QED OBVIOUS

LEMMA ElementsFinite ==
    ASSUME NEW T, NEW s \in Seq(T)
    PROVE  IsFiniteSet(Elements(s)) /\ Elements(s) \subseteq T
<1>. DEFINE S == {t \in Seq(T) : IsFiniteSet(Elements(t))}
<1>1. <<>> \in S
  <2>1. Elements(<<>>) = {}
    BY DEF Elements
  <2>2. IsFiniteSet(Elements(<<>>))
    BY <2>1, FS_EmptySet
  <2>3. PICK none \in Seq(T) : none = <<>>
    BY EmptySeqIs, Zenon
  <2> QED BY <2>2, <2>3
<1>2. ASSUME NEW t \in Seq(T), NEW x \in T, t \in S
      PROVE  Append(t, x) \in S
  <2>1. Append(t, x) \in Seq(T) /\ Elements(Append(t, x)) = Elements(t) \cup {x}
    BY AppendedElements DEF Elements
  <2>2. IsFiniteSet(Elements(t) \cup {x})
    BY <1>2, FS_AddElement
  <2> QED BY <2>1, <2>2
<1>. HIDE DEF S
<1>3. Seq(T) \subseteq S
  BY <1>1, <1>2, SequenceInduction
<1> QED BY <1>3 DEF S, Elements

LEMMA DefinedFinite ==
    ASSUME NEW files \in Seq(SourceFile)
    PROVE  /\ IsFiniteSet(UNION {Elements(files[i].defines) : i \in DOMAIN files})
           /\ UNION {Elements(files[i].defines) : i \in DOMAIN files} \subseteq Imp
<1>. DEFINE Defined(t) == UNION {Elements(t[i].defines) : i \in DOMAIN t}
            S == {t \in Seq(SourceFile) : IsFiniteSet(Defined(t)) /\ Defined(t) \subseteq Imp}
<1>1. \A file \in SourceFile : IsFiniteSet(Elements(file.defines)) /\ Elements(file.defines) \subseteq Imp
  BY FileIs, ElementsFinite
<1>. HIDE DEF SourceFile
<1>2. <<>> \in S
  <2>1. Defined(<<>>) = {}
    OBVIOUS
  <2>2. IsFiniteSet({})
    BY FS_EmptySet
  <2>3. PICK none \in Seq(SourceFile) : none = <<>>
    BY EmptySeqIs, Zenon
  <2>. HIDE DEF Defined
  <2>4. IsFiniteSet(Defined(none)) /\ Defined(none) \subseteq Imp
    BY <2>1, <2>2, <2>3
  <2>5. none \in S
    BY <2>4
  <2> QED BY <2>3, <2>5
<1>3. ASSUME NEW t \in Seq(SourceFile), NEW x \in SourceFile, t \in S
      PROVE  Append(t, x) \in S
  <2>1. Append(t, x) \in Seq(SourceFile) /\ Defined(Append(t, x)) = Defined(t) \cup Elements(x.defines)
    BY AppendedElements
  <2>2. IsFiniteSet(Defined(t) \cup Elements(x.defines))
    BY <1>1, <1>3, FS_Union
  <2>3. Defined(t) \subseteq Imp
    BY <1>3
  <2>. HIDE DEF Defined
  <2> QED BY <1>1, <2>1, <2>2, <2>3
<1>. HIDE DEF S
<1>4. Seq(SourceFile) \subseteq S
  BY <1>2, <1>3, SequenceInduction
<1> QED BY <1>4 DEF S

LEMMA ProvidesIs ==
    ASSUME rule \in ScalaRule
    PROVE  Provides \in Seq(Imp)
<1>1. rule.files \in Seq(SourceFile)
  <2>. HIDE DEF SourceFile
  <2> QED BY DEF ScalaRule
<1>. DEFINE names == UNION {Elements(rule.files[i].defines) : i \in DOMAIN rule.files}
<1>2. IsFiniteSet(names) /\ names \in SUBSET Imp
  BY <1>1, DefinedFinite
<1>. HIDE DEF names
<1>3. SetToSeq(names) \in Seq(Imp)
  BY <1>2, SetToSeqType
<1> QED BY <1>3 DEF Provides, names
-----------------------------------------------------------------------------
(***************************************************************************)
(* The import map in the loop of ResolveImports: what is ahead is as it    *)
(* was put, and what is behind was settled against the map of its turn.    *)
(***************************************************************************)
AsPut(files, name, k) == IF k \in DOMAIN files THEN files[k] ELSE Import(name, {})

\* The map at the turn of import j, when found is what the chain answered.
AtTurn(map, files, j, found) ==
    [k \in DOMAIN map |->
        IF k < j THEN map[k]
        ELSE IF k = j
        THEN [imp |-> map[k].imp, error |-> found = {},
              sym |-> IF found = {} THEN AsPut(files, map[k].imp, k).sym ELSE found]
        ELSE AsPut(files, map[k].imp, k)]

SettledBy(chain, map, found) ==
    LET answer == UNION {ResolveConflict(chain, map, s) : s \in {f \in found : f.conflicts # <<>>}}
    IN IF answer = {} THEN found ELSE answer

InTurn(chain, map, files, j, found) ==
    LET seen == AtTurn(map, files, j, found)
    IN map[j] = [seen[j] EXCEPT !.sym = SettledBy(chain, seen, seen[j].sym)]

Turns(chain, map, files, n, finds) ==
    \A j \in DOMAIN map :
        IF j < n THEN InTurn(chain, map, files, j, finds[map[j].imp])
        ELSE map[j] = AsPut(files, map[j].imp, j)

\* What the work list adds to the map has no symbol.
Pending(files) ==
    {map \in FileMap : DOMAIN files \subseteq DOMAIN map /\ \A k \in DOMAIN map : map[k] = AsPut(files, map[k].imp, k)}
Blank == {e \in FileEntry : e.sym = {}}
BlankFcn(files) == [map \in Pending(files) |-> [e \in Blank |-> Put(map, e)]]

LEMMA PutBlank ==
    ASSUME NEW files, NEW map \in Pending(files), NEW e \in Blank
    PROVE  Put(map, e) \in Pending(files)
<1>1. map \in Seq(FileEntry) /\ DOMAIN files \subseteq DOMAIN map /\ \A k \in DOMAIN map : map[k] = AsPut(files, map[k].imp, k)
  BY DEF Pending, FileMap
<1>2. e \in FileEntry /\ e = Import(e.imp, {})
  BY DEF Blank, FileEntry, Import
<1>. DEFINE more == Append(map, e)
<1>. HIDE DEF FileEntry
<1>3. /\ more \in Seq(FileEntry) /\ DOMAIN map = 1 .. Len(map) /\ Len(map) \in Nat
      /\ DOMAIN more = 1 .. Len(map) + 1 /\ more[Len(map) + 1] = e
      /\ \A i \in DOMAIN map : more[i] = map[i]
  BY <1>1, <1>2, AppendedElements
<1>. HIDE DEF more
<1>4. \A k \in DOMAIN more : more[k] = AsPut(files, more[k].imp, k)
  <2>. SUFFICES ASSUME NEW k \in DOMAIN more
                PROVE  more[k] = AsPut(files, more[k].imp, k)
    OBVIOUS
  <2>1. CASE k \in DOMAIN map
    BY <1>1, <1>3, <2>1
  <2>2. CASE k \notin DOMAIN map
    <3>1. k = Len(map) + 1 /\ k \notin DOMAIN files
      BY <1>1, <1>3, <2>2
    <3> QED BY <1>2, <1>3, <3>1 DEF AsPut
  <2> QED BY <2>1, <2>2
<1>5. more \in Pending(files)
  BY <1>1, <1>3, <1>4 DEF Pending, FileMap
<1> QED BY <1>5 DEF Put, more

LEMMA BlankStepType ==
    ASSUME NEW files
    PROVE  IsStep(BlankFcn(files), Pending(files), Blank)
<1>. HIDE DEF Pending, Blank
<1> QED BY PutBlank DEF BlankFcn, IsStep

LEMMA BlanksAreFold ==
    ASSUME NEW files, NEW base \in Pending(files), NEW list \in Seq(Blank)
    PROVE  FoldLeft(Put, base, list) = Folded(BlankFcn(files), base, list)
<1>. DEFINE IsIter(h) == h = [s \in SUBSET (1 .. Len(list)) |->
                                 IF s = {} THEN base ELSE Put(h[s \ {Max(s)}], list[Max(s)])]
            iter == CHOOSE h : IsIter(h)
<1>. HIDE DEF Pending, Blank
<1>1. FoldLeft(Put, base, list) = iter[1 .. Len(list)]
  <2>1. DOMAIN list = 1 .. Len(list)
    OBVIOUS
  <2> QED BY <2>1 DEF FoldLeft, MapThenFoldSet
<1>2. PICK f : Iterates(f, BlankFcn(files), Pending(files), Blank, base, list)
  BY BlankStepType, FoldIterates
<1>3. IsIter(f)
  BY <1>2 DEF Iterates, BlankFcn
<1>4. IsIter(iter)
  <2>. HIDE DEF IsIter
  <2> QED BY <1>3
<1>. HIDE DEF iter
<1>5. iter[{}] = base /\ iter = [s \in SUBSET (1 .. Len(list)) |-> iter[s]]
  BY <1>4
<1>6. ASSUME NEW s \in SUBSET (1 .. Len(list)), s # {}, iter[s \ {Max(s)}] \in Pending(files)
      PROVE  iter[s] = BlankFcn(files)[iter[s \ {Max(s)}]][list[Max(s)]]
  <2>1. iter[s] = Put(iter[s \ {Max(s)}], list[Max(s)])
    BY <1>4, <1>6
  <2>2. list[Max(s)] \in Blank
    BY <1>2, <1>6 DEF Iterates
  <2> QED BY <1>6, <2>1, <2>2 DEF BlankFcn
<1>7. FoldsLeft(iter, BlankFcn(files), Pending(files), Blank, base, list)
  <2>. HIDE DEF IsIter
  <2> QED BY <1>5, <1>6, BlankStepType DEF FoldsLeft
<1>8. iter[1 .. Len(list)] = Folded(BlankFcn(files), base, list)
  BY <1>7, FoldLeftFolds
<1> QED BY <1>1, <1>8


LEMMA PutBlanks ==
    ASSUME NEW files, NEW map \in Pending(files), NEW deps \in Seq(Imp)
    PROVE  FoldLeft(Put, map, [i \in DOMAIN deps |-> Import(deps[i], {})]) \in Pending(files)
<1>. DEFINE new == [i \in DOMAIN deps |-> Import(deps[i], {})]
<1>1. new \in Seq(Blank)
  <2>1. Len(deps) \in Nat /\ DOMAIN deps = 1 .. Len(deps) /\ \A i \in DOMAIN deps : deps[i] \in Imp
    OBVIOUS
  <2>2. \A name \in Imp : Import(name, {}) \in Blank
    BY ImportIs DEF Blank, Import
  <2>. HIDE DEF Blank
  <2>3. new \in [1 .. Len(deps) -> Blank]
    BY <2>1, <2>2
  <2> QED BY <2>1, <2>3
<1>. HIDE DEF new, Pending, Blank
<1>2. Folded(BlankFcn(files), map, new) \in Pending(files)
  BY <1>1, BlankStepType, FoldedType
<1>3. FoldLeft(Put, map, new) \in Pending(files)
  BY <1>1, <1>2, BlanksAreFold
<1> QED BY <1>3 DEF new

\* A map that is gathered is at the first turn.
LEMMA PendingTurns ==
    ASSUME NEW files, NEW map \in Pending(files), NEW chain, NEW finds
    PROVE  Turns(chain, map, files, 1, finds)
<1>1. \A k \in DOMAIN map : map[k] = AsPut(files, map[k].imp, k)
  BY DEF Pending
<1>2. DOMAIN map \subseteq Nat \ {0}
  <2>1. map \in Seq(FileEntry)
    BY DEF Pending, FileMap
  <2>. HIDE DEF FileEntry
  <2> QED BY <2>1
<1>3. \A k \in DOMAIN map : ~ k < 1
  BY <1>2
<1> QED BY <1>1, <1>3 DEF Turns

LEMMA AsPutIs ==
    ASSUME NEW files \in FileMap, NEW name \in Imp, NEW k
    PROVE  AsPut(files, name, k) \in FileEntry
<1>1. \A i \in DOMAIN files : files[i] \in FileEntry
  <2>. HIDE DEF FileEntry
  <2> QED BY DEF FileMap
<1>2. Import(name, {}) \in FileEntry
  BY ImportIs
<1>. HIDE DEF FileEntry
<1> QED BY <1>1, <1>2 DEF AsPut

IsMap(map, m) == map = [k \in 1 .. m |-> map[k]] /\ \A k \in 1 .. m : map[k].imp \in Imp

\* The two assignments of a turn.
Found(map, n, found) == [map EXCEPT ![n].sym = IF found = {} THEN @ ELSE found, ![n].error = found = {}]
SettledAt(chain, map, n) == [map EXCEPT ![n].sym = SettledBy(chain, map, @)]

LEMMA EntryUpdate ==
    ASSUME NEW e \in FileEntry, NEW s, NEW b
    PROVE  [e EXCEPT !.sym = s, !.error = b] = [imp |-> e.imp, sym |-> s, error |-> b]
<1>1. e \in [imp : {e.imp}, sym : {e.sym}, error : {e.error}]
  BY DEF FileEntry
<1>2. [e EXCEPT !.sym = s, !.error = b] \in [imp : {e.imp}, sym : {s}, error : {b}]
  BY <1>1
<1>3. ASSUME NEW i, NEW r \in [imp : {i}, sym : {s}, error : {b}]
      PROVE  r = [imp |-> i, sym |-> s, error |-> b]
  OBVIOUS
<1> QED BY <1>2, <1>3

LEMMA FoundIs ==
    ASSUME NEW m \in Nat, NEW n \in 1 .. m, NEW map, IsMap(map, m), map[n] \in FileEntry, NEW found
    PROVE  Found(map, n, found) =
             [k \in 1 .. m |->
                IF k = n
                THEN [imp |-> map[n].imp, sym |-> IF found = {} THEN map[n].sym ELSE found, error |-> found = {}]
                ELSE map[k]]
<1>. DEFINE s == IF found = {} THEN map[n].sym ELSE found
            b == found = {}
<1>1. map = [k \in 1 .. m |-> map[k]]
  BY DEF IsMap
<1>3. Found(map, n, found) = [map EXCEPT ![n] = [map[n] EXCEPT !.sym = s, !.error = b]]
  BY DEF Found
<1>. HIDE DEF s, b
<1>2. [map[n] EXCEPT !.sym = s, !.error = b] = [imp |-> map[n].imp, sym |-> s, error |-> b]
  BY EntryUpdate
<1>4. Found(map, n, found) = [k \in 1 .. m |-> IF k = n THEN [imp |-> map[n].imp, sym |-> s, error |-> b] ELSE map[k]]
  BY <1>1, <1>2, <1>3
<1> QED BY <1>4 DEF s, b

LEMMA FoundIsTurn ==
    ASSUME NEW m \in Nat, NEW n \in 1 .. m, NEW map, IsMap(map, m), NEW files \in FileMap, NEW found,
           \A k \in 1 .. m : k >= n => map[k] = AsPut(files, map[k].imp, k)
    PROVE  Found(map, n, found) = AtTurn(map, files, n, found)
<1>1. map[n] = AsPut(files, map[n].imp, n) /\ map[n].imp \in Imp
  BY DEF IsMap
<1>2. map[n] \in FileEntry
  BY <1>1, AsPutIs
<1>. DEFINE turn == [imp |-> map[n].imp, sym |-> IF found = {} THEN map[n].sym ELSE found, error |-> found = {}]
<1>3. Found(map, n, found) = [k \in 1 .. m |-> IF k = n THEN turn ELSE map[k]]
  BY <1>2, FoundIs
<1>4. /\ DOMAIN map = 1 .. m
      /\ AtTurn(map, files, n, found) =
           [k \in 1 .. m |-> IF k < n THEN map[k] ELSE IF k = n THEN turn ELSE AsPut(files, map[k].imp, k)]
  <2>1. DOMAIN map = 1 .. m
    BY DEF IsMap
  <2>. DEFINE put == AsPut(files, map[n].imp, n)
  <2>2. put.sym = map[n].sym
    BY <1>1
  <2>. DEFINE mine(k) == [imp |-> map[k].imp, error |-> found = {},
                          sym |-> IF found = {} THEN AsPut(files, map[k].imp, k).sym ELSE found]
  <2>3. mine(n) = turn
    BY <2>2
  <2>4. AtTurn(map, files, n, found) =
          [k \in 1 .. m |-> IF k < n THEN map[k] ELSE IF k = n THEN mine(k) ELSE AsPut(files, map[k].imp, k)]
    BY <2>1 DEF AtTurn
  <2>. HIDE DEF mine, turn
  <2> QED BY <2>1, <2>3, <2>4
<1>. HIDE DEF turn
<1>5. ASSUME NEW k \in 1 .. m
      PROVE  (IF k = n THEN turn ELSE map[k]) = (IF k < n THEN map[k] ELSE IF k = n THEN turn ELSE AsPut(files, map[k].imp, k))
  <2>1. k < n \/ k = n \/ (k > n /\ map[k] = AsPut(files, map[k].imp, k))
    OBVIOUS
  <2> QED BY <2>1
<1> QED BY <1>3, <1>4, <1>5

IsRow(map, m) == map = [k \in 1 .. m |-> map[k]]
SettledRow(chain, map, m, n) ==
    [k \in 1 .. m |-> IF k = n THEN [map[n] EXCEPT !.sym = SettledBy(chain, map, map[n].sym)] ELSE map[k]]

LEMMA SettledAtIs ==
    ASSUME NEW m \in Nat, NEW n \in 1 .. m, NEW map, IsRow(map, m), NEW chain
    PROVE  SettledAt(chain, map, n) = SettledRow(chain, map, m, n)
<1>. DEFINE settled == [map[n] EXCEPT !.sym = SettledBy(chain, map, map[n].sym)]
<1>1. SettledAt(chain, map, n) = [map EXCEPT ![n] = settled]
  BY DEF SettledAt
<1>. HIDE DEF settled
<1>2. SettledAt(chain, map, n) = [k \in 1 .. m |-> IF k = n THEN settled ELSE map[k]]
  BY <1>1 DEF IsRow
<1> QED BY <1>2 DEF settled, SettledRow

LEMMA SameTurn ==
    ASSUME NEW map, NEW after, NEW files, NEW j, NEW f, DOMAIN after = DOMAIN map,
           \A k \in DOMAIN map : after[k].imp = map[k].imp /\ (k < j => after[k] = map[k])
    PROVE  AtTurn(after, files, j, f) = AtTurn(map, files, j, f)
<1> QED BY DEF AtTurn

SameNames(after, map, m) == \A k \in 1 .. m : after[k].imp = map[k].imp

\* A turn of the loop settles its import against the map, and no other import.
LEMMA NextTurn ==
    ASSUME NEW m \in Nat, NEW n \in 1 .. m, NEW map, IsMap(map, m), NEW files \in FileMap, NEW chain, NEW finds,
           Turns(chain, map, files, n, finds)
    PROVE  LET after == SettledAt(chain, Found(map, n, finds[map[n].imp]), n)
           IN /\ IsMap(after, m) /\ Turns(chain, after, files, n + 1, finds)
              /\ SameNames(after, map, m)
<1>. DEFINE found == finds[map[n].imp]
            seen == Found(map, n, found)
            settled == [seen[n] EXCEPT !.sym = SettledBy(chain, seen, seen[n].sym)]
            after == SettledAt(chain, seen, n)
<1>1. /\ map = [k \in 1 .. m |-> map[k]] /\ DOMAIN map = 1 .. m
      /\ \A k \in 1 .. m : map[k].imp \in Imp
  BY DEF IsMap
<1>2. \A k \in 1 .. m : k >= n => map[k] = AsPut(files, map[k].imp, k)
  <2>. SUFFICES ASSUME NEW k \in 1 .. m, k >= n
                PROVE  map[k] = AsPut(files, map[k].imp, k)
    OBVIOUS
  <2>1. k \in DOMAIN map /\ ~ k < n
    BY <1>1
  <2>. HIDE DEF found
  <2> QED BY <2>1 DEF Turns
<1>3. seen = AtTurn(map, files, n, found)
  BY <1>2, FoundIsTurn
<1>4. map[n] \in FileEntry
  <2>1. map[n] = AsPut(files, map[n].imp, n) /\ map[n].imp \in Imp
    BY <1>1, <1>2
  <2> QED BY <2>1, AsPutIs
<1>. DEFINE turn == [imp |-> map[n].imp, sym |-> IF found = {} THEN map[n].sym ELSE found, error |-> found = {}]
<1>5. seen = [k \in 1 .. m |-> IF k = n THEN turn ELSE map[k]]
  <2>. HIDE DEF found
  <2> QED BY <1>4, FoundIs
<1>6. turn.imp = map[n].imp /\ [turn EXCEPT !.sym = SettledBy(chain, seen, turn.sym)].imp = map[n].imp
  <2>. HIDE DEF found, seen
  <2> QED OBVIOUS
<1>. HIDE DEF turn, seen, found
<1>7. seen = [k \in 1 .. m |-> seen[k]] /\ seen[n] = turn /\ \A k \in 1 .. m : k # n => seen[k] = map[k]
  BY <1>5
<1>8. settled.imp = map[n].imp
  BY <1>6, <1>7
<1>9. after = [k \in 1 .. m |-> IF k = n THEN settled ELSE seen[k]]
  <2>1. IsRow(seen, m)
    BY <1>7 DEF IsRow
  <2>2. after = SettledRow(chain, seen, m, n)
    BY <2>1, SettledAtIs
  <2> QED BY <2>2 DEF SettledRow
<1>. HIDE DEF settled, after
<1>10. after = [k \in 1 .. m |-> after[k]] /\ DOMAIN after = 1 .. m
  BY <1>9
<1>11. after[n] = settled /\ \A k \in 1 .. m : k # n => after[k] = map[k]
  BY <1>7, <1>9
<1>12. \A k \in 1 .. m : after[k].imp = map[k].imp
  BY <1>8, <1>11
<1>13. ASSUME NEW j \in 1 .. n, NEW f
       PROVE  AtTurn(after, files, j, f) = AtTurn(map, files, j, f)
  <2>1. \A k \in 1 .. m : after[k].imp = map[k].imp /\ (k < j => after[k] = map[k])
    <3>1. \A k \in 1 .. m : k < j => k # n
      OBVIOUS
    <3> QED BY <1>11, <1>12, <3>1
  <2>2. DOMAIN map = 1 .. m /\ DOMAIN after = 1 .. m
    BY <1>1, <1>10
  <2>3. DOMAIN after = DOMAIN map /\ \A k \in DOMAIN map : after[k].imp = map[k].imp /\ (k < j => after[k] = map[k])
    BY <2>1, <2>2
  <2> QED BY <2>3, SameTurn
<1>14. ASSUME NEW j \in 1 .. m, j < n
       PROVE  InTurn(chain, after, files, j, finds[after[j].imp])
  <2>1. InTurn(chain, map, files, j, finds[map[j].imp])
    BY <1>1, <1>14 DEF Turns
  <2>2. j \in 1 .. n /\ j # n
    BY <1>14
  <2>3. AtTurn(after, files, j, finds[map[j].imp]) = AtTurn(map, files, j, finds[map[j].imp])
    BY <1>13, <2>2
  <2>4. after[j] = map[j]
    BY <1>11, <2>2
  <2> QED BY <2>1, <2>3, <2>4 DEF InTurn
<1>15. InTurn(chain, after, files, n, finds[after[n].imp])
  <2>1. AtTurn(after, files, n, found) = seen
    <3>1. n \in 1 .. n
      OBVIOUS
    <3> QED BY <1>3, <1>13, <3>1
  <2>2. finds[after[n].imp] = found
    BY <1>12 DEF found
  <2> QED BY <1>11, <2>1, <2>2 DEF InTurn, settled
<1>16. ASSUME NEW j \in 1 .. m, j > n
       PROVE  after[j] = AsPut(files, after[j].imp, j)
  <2>1. j # n /\ j >= n
    BY <1>16
  <2> QED BY <1>2, <1>11, <2>1
<1>17. Turns(chain, after, files, n + 1, finds)
  <2>. SUFFICES ASSUME NEW j \in 1 .. m
                PROVE  IF j < n + 1 THEN InTurn(chain, after, files, j, finds[after[j].imp])
                                    ELSE after[j] = AsPut(files, after[j].imp, j)
    BY <1>10 DEF Turns
  <2>1. j < n \/ j = n \/ j > n
    OBVIOUS
  <2> QED BY <1>14, <1>15, <1>16, <2>1
<1>18. IsMap(after, m)
  BY <1>1, <1>10, <1>12 DEF IsMap
<1>19. SameNames(after, map, m)
  BY <1>12 DEF SameNames
<1> QED BY <1>17, <1>18, <1>19 DEF after, seen, found
-----------------------------------------------------------------------------
(***************************************************************************)
(* The invariant of resolving a rule.                                      *)
(***************************************************************************)
LEMMA StartedInvNext == Started' => IInv'
<1> QED BY StartedInv, PTL

Finds == [name \in Imp |-> ResolveSymbol(name)]

RuleTypeOK ==
    /\ TablesOK
    /\ rule \in ScalaRule
    /\ resolvers \in Seq(Resolver)
    /\ phase \in {"gather", "implicit", "resolve", "export", "done"}
    /\ fileMap \in FileMap
    /\ at \in Nat \ {0}

\* The map is ready for the loop when the loop is entered, and done when it is left.
LoopInv ==
    /\ DOMAIN fileMap \subseteq DOMAIN importMap
    /\ \E m \in Nat : IsMap(importMap, m)
    /\ phase = "gather" => implicit = {} /\ required = <<>>
    /\ phase \in {"gather", "implicit"} => importMap \in Pending(fileMap) /\ at = 1
    /\ phase \in {"export", "done"} => at \notin DOMAIN importMap
    /\ Turns(resolvers, importMap, fileMap, at, Finds)

RuleInv == RuleTypeOK /\ LoopInv /\ IInv

LEMMA PendingIsMap ==
    ASSUME NEW files, NEW map \in Pending(files)
    PROVE  /\ DOMAIN files \subseteq DOMAIN map /\ map \in FileMap
           /\ \E m \in Nat : IsMap(map, m)
<1>1. map \in Seq(FileEntry) /\ map \in FileMap /\ DOMAIN files \subseteq DOMAIN map
  BY DEF Pending, FileMap
<1>2. \A e \in FileEntry : e.imp \in Imp
  BY DEF FileEntry
<1>. HIDE DEF FileEntry
<1>3. Len(map) \in Nat /\ map = [k \in 1 .. Len(map) |-> map[k]] /\ \A k \in 1 .. Len(map) : map[k] \in FileEntry
  BY <1>1
<1>4. IsMap(map, Len(map))
  BY <1>2, <1>3 DEF IsMap
<1> QED BY <1>1, <1>3, <1>4

LEMMA FilesArePending ==
    ASSUME NEW map \in FileMap
    PROVE  map \in Pending(map)
<1> QED BY DEF Pending, AsPut

LEMMA KeysAre ==
    ASSUME NEW map \in FileMap
    PROVE  Keys(map) \in Seq(Imp)
<1>1. \A e \in FileEntry : e.imp \in Imp
  BY DEF FileEntry
<1>. HIDE DEF FileEntry
<1>2. Len(map) \in Nat /\ DOMAIN map = 1 .. Len(map) /\ \A k \in 1 .. Len(map) : map[k] \in FileEntry
  BY DEF FileMap
<1>3. Keys(map) \in [1 .. Len(map) -> Imp]
  BY <1>1, <1>2 DEF Keys
<1> QED BY <1>2, <1>3

LEMMA RuleInitInv == RuleInit => RuleInv
<1>. SUFFICES ASSUME RuleInit
              PROVE  RuleInv
  OBVIOUS
<1>1. PICK w \in Workspaces :
        /\ globalScope = FoldLeft(PutClass, EmptyScope, w.puts)
        /\ packages = FoldLeft(PutPackage, EmptyScope, w.puts)
        /\ rule = w.rule
        /\ resolvers = w.resolvers
        /\ resolveWith = w.resolveWith
  BY DEF RuleInit
<1>2. w.puts \in Seq(PlainSymbol) /\ w.rule \in ScalaRule /\ w.resolvers \in Seq(Resolver) /\ w.resolveWith \in ResolveWith
  <2>1. w \in [puts : Seq(PlainSymbol), rule : ScalaRule, resolvers : Seq(Resolver), resolveWith : ResolveWith]
    BY RuleImportsAssumption
  <2>. HIDE DEF PlainSymbol, ScalaRule, Resolver
  <2> QED BY <2>1
<1>3. TablesOK
  BY <1>1, <1>2, TablesType DEF TablesOK
<1>4. <<>> \in FileMap
  BY EmptySeqIs DEF FileMap
<1>5. RuleTypeOK
  <2>. HIDE DEF FileMap, ScalaRule, Resolver
  <2> QED BY <1>1, <1>2, <1>3, <1>4 DEF RuleTypeOK, RuleInit
<1>6. fileMap \in Pending(fileMap) /\ importMap = fileMap
  BY <1>4, FilesArePending DEF RuleInit
<1>7. LoopInv
  <2>1. Turns(resolvers, importMap, fileMap, at, Finds)
    BY <1>6, PendingTurns DEF RuleInit
  <2>2. \E m \in Nat : IsMap(importMap, m)
    BY <1>6, PendingIsMap
  <2> QED BY <1>6, <2>1, <2>2 DEF LoopInv, RuleInit
<1>8. Started
  <2>1. LinksOK
    BY <1>1, <1>2, ImplicitImportsAssumption DEF LinksOK, Links
  <2>2. direct = [imports |-> <<>>, provides |-> <<>>] /\ required = <<>> /\ implicit = {}
    BY DEF RuleInit
  <2> QED BY <2>1, <2>2, EmptySeqIs DEF Started
<1> QED BY <1>5, <1>7, <1>8, StartedInv DEF RuleInv

LEMMA FindsStay ==
    ASSUME globalScope' = globalScope, packages' = packages
    PROVE  Finds' = Finds /\ TablesOK' = TablesOK
<1> QED BY DEF Finds, ResolveSymbol, GetSymbol, TablesOK

LEMMA GatherDirectInv ==
    ASSUME RuleInv, GatherDirect
    PROVE  RuleInv'
<1>1. /\ importMap' = DirectMap /\ fileMap' = importMap' /\ phase' = "implicit" /\ at' = at /\ implicit' = implicit
      /\ globalScope' = globalScope /\ packages' = packages /\ rule' = rule /\ resolvers' = resolvers
      /\ resolveWith' = resolveWith /\ phase = "gather"
      /\ direct' = [imports |-> Keys(importMap'), provides |-> Provides]
      /\ required' = Keys(importMap') \o Provides
  BY DEF GatherDirect
<1>2. TablesOK /\ rule \in ScalaRule /\ resolvers \in Seq(Resolver) /\ at = 1 /\ implicit = {}
  BY <1>1 DEF RuleInv, RuleTypeOK, LoopInv
<1>3. PICK map \in FileMap : map = importMap'
  BY <1>1, <1>2, DirectMapIs
<1>4. PICK keys \in Seq(Imp) : keys = Keys(importMap')
  BY <1>3, KeysAre
<1>5. PICK provides \in Seq(Imp) : provides = Provides
  BY <1>2, ProvidesIs
<1>6. RuleTypeOK'
  <2>. HIDE DEF FileMap, ScalaRule, Resolver
  <2> QED BY <1>1, <1>2, <1>3, FindsStay DEF RuleTypeOK
<1>7. LoopInv'
  <2>1. importMap' \in Pending(fileMap')
    BY <1>1, <1>3, FilesArePending
  <2>2. PICK files : files = fileMap'
    OBVIOUS
  <2>3. map \in Pending(files)
    BY <1>3, <2>1, <2>2
  <2>4. PICK chain : chain = resolvers'
    OBVIOUS
  <2>5. PICK finds : finds = Finds'
    OBVIOUS
  <2>6. Turns(chain, map, files, 1, finds)
    BY <2>3, PendingTurns
  <2>7. DOMAIN files \subseteq DOMAIN map /\ \E m \in Nat : IsMap(map, m)
    BY <2>3, PendingIsMap
  <2>. HIDE DEF Pending, IsMap
  <2> QED BY <1>1, <1>2, <1>3, <2>1, <2>2, <2>4, <2>5, <2>6, <2>7 DEF LoopInv
<1>8. IInv'
  <2>1. LinksOK'
    BY <1>1 DEF RuleInv, IInv, LinksOK, Links
  <2>2. direct' = [imports |-> keys, provides |-> provides] /\ required' = keys \o provides /\ implicit' = {}
    BY <1>1, <1>2, <1>4, <1>5
  <2>3. direct' \in [imports : Seq(Imp), provides : Seq(Imp)]
    BY <2>2
  <2>4. required' = direct'.imports \o direct'.provides
    BY <2>2
  <2> QED BY <2>1, <2>2, <2>3, <2>4, StartedInvNext DEF Started
<1> QED BY <1>6, <1>7, <1>8 DEF RuleInv

LEMMA GatherOneInv ==
    ASSUME RuleInv, GatherOne
    PROVE  RuleInv'
<1>1. /\ phase = "implicit" /\ GatherImplicit
      /\ UNCHANGED <<globalScope, packages, rule, resolvers, phase, fileMap, at>>
  BY DEF GatherOne
<1>2. /\ resolveWith \in [Imp -> Seq(Imp)] /\ required \in Seq(Imp) /\ required # <<>>
  BY <1>1 DEF RuleInv, IInv, TypeOK, GatherImplicit
<1>3. required[Len(required)] \in Imp
  BY <1>2, PopTakesTop
<1>4. PICK deps \in Seq(Imp) : deps = resolveWith[required[Len(required)]]
  BY <1>2, <1>3
<1>5. importMap' = FoldLeft(Put, importMap, [i \in DOMAIN deps |-> Import(deps[i], {})])
  BY <1>4 DEF GatherOne
<1>6. PICK files : files = fileMap
  OBVIOUS
<1>7. importMap \in Pending(files) /\ at = 1
  BY <1>1, <1>6 DEF RuleInv, LoopInv
<1>8. importMap' \in Pending(files)
  BY <1>5, <1>7, PutBlanks
<1>9. RuleTypeOK'
  <2>. HIDE DEF FileMap, ScalaRule, Resolver
  <2> QED BY <1>1, FindsStay DEF RuleInv, RuleTypeOK
<1>10. LoopInv'
  <2>1. PICK map : map = importMap'
    OBVIOUS
  <2>2. map \in Pending(files)
    BY <1>8, <2>1
  <2>4. PICK chain : chain = resolvers'
    OBVIOUS
  <2>5. PICK finds : finds = Finds'
    OBVIOUS
  <2>6. Turns(chain, map, files, 1, finds)
    BY <2>2, PendingTurns
  <2>7. DOMAIN files \subseteq DOMAIN map /\ \E m \in Nat : IsMap(map, m)
    BY <2>2, PendingIsMap
  <2>. HIDE DEF Pending, IsMap
  <2> QED BY <1>1, <1>6, <1>7, <2>1, <2>2, <2>4, <2>5, <2>6, <2>7 DEF LoopInv
<1>11. IInv'
  BY <1>1, StepInv DEF RuleInv, Next
<1> QED BY <1>9, <1>10, <1>11 DEF RuleInv

LEMMA VarsStay ==
    ASSUME IInv, UNCHANGED vars
    PROVE  IInv'
<1> QED BY StepInv

LEMMA GatheredInv ==
    ASSUME RuleInv, Gathered
    PROVE  RuleInv'
<1>1. /\ phase' = "resolve" /\ UNCHANGED vars
      /\ UNCHANGED <<globalScope, packages, rule, resolvers, importMap, fileMap, at>>
  BY DEF Gathered
<1>2. RuleTypeOK'
  <2>. HIDE DEF FileMap, ScalaRule, Resolver
  <2> QED BY <1>1, FindsStay DEF RuleInv, RuleTypeOK
<1>3. LoopInv'
  <2>. HIDE DEF Pending, IsMap
  <2> QED BY <1>1, FindsStay DEF RuleInv, LoopInv
<1>4. IInv'
  BY <1>1, VarsStay DEF RuleInv
<1> QED BY <1>2, <1>3, <1>4 DEF RuleInv

LEMMA ImportsDoneInv ==
    ASSUME RuleInv, ImportsDone
    PROVE  RuleInv'
<1>1. /\ phase' \in {"export", "done"} /\ UNCHANGED vars /\ at \notin DOMAIN importMap
      /\ UNCHANGED <<globalScope, packages, rule, resolvers, importMap, fileMap, at>>
  BY DEF ImportsDone
<1>2. RuleTypeOK'
  <2>. HIDE DEF FileMap, ScalaRule, Resolver
  <2> QED BY <1>1, FindsStay DEF RuleInv, RuleTypeOK
<1>3. LoopInv'
  <2>. HIDE DEF Pending, IsMap
  <2> QED BY <1>1, FindsStay DEF RuleInv, LoopInv
<1>4. IInv'
  BY <1>1, VarsStay DEF RuleInv
<1> QED BY <1>2, <1>3, <1>4 DEF RuleInv

LEMMA ResolveExportsInv ==
    ASSUME RuleInv, ResolveExports
    PROVE  RuleInv'
<1>1. /\ phase = "export" /\ phase' = "done" /\ UNCHANGED vars
      /\ UNCHANGED <<globalScope, packages, rule, resolvers, importMap, fileMap, at>>
  BY DEF ResolveExports
<1>2. RuleTypeOK'
  <2>. HIDE DEF FileMap, ScalaRule, Resolver
  <2> QED BY <1>1, FindsStay DEF RuleInv, RuleTypeOK
<1>3. LoopInv'
  <2>. HIDE DEF Pending, IsMap
  <2> QED BY <1>1, FindsStay DEF RuleInv, LoopInv
<1>4. IInv'
  BY <1>1, VarsStay DEF RuleInv
<1> QED BY <1>2, <1>3, <1>4 DEF RuleInv

\* A turn settles one entry of the map: the keys and what they import stay.
LEMMA ResolveImportKeeps ==
    ASSUME RuleInv, ResolveImport
    PROVE  /\ RuleInv' /\ DOMAIN importMap' = DOMAIN importMap
           /\ \A k \in DOMAIN importMap : importMap'[k].imp = importMap[k].imp
<1>1. /\ phase = "resolve" /\ phase' = "resolve" /\ at \in DOMAIN importMap /\ at' = at + 1 /\ UNCHANGED vars
      /\ UNCHANGED <<globalScope, packages, rule, resolvers, fileMap>>
  BY DEF ResolveImport
<1>2. PICK m \in Nat : IsMap(importMap, m)
  BY DEF RuleInv, LoopInv
<1>3. DOMAIN importMap = 1 .. m /\ importMap[at].imp \in Imp
  BY <1>1, <1>2 DEF IsMap
<1>. DEFINE found == ResolveSymbol(importMap[at].imp)
            seen == Found(importMap, at, found)
<1>4. importMap' = SettledAt(resolvers, seen, at)
  BY DEF ResolveImport, Found, SettledAt, SettledBy, Settled
<1>5. found = Finds[importMap[at].imp]
  BY <1>3 DEF Finds
<1>. HIDE DEF found
<1>6. PICK map : map = importMap
  OBVIOUS
<1>7. PICK files \in FileMap : files = fileMap
  BY DEF RuleInv, RuleTypeOK
<1>8. PICK n \in 1 .. m : n = at
  BY <1>1, <1>3
<1>9. PICK chain : chain = resolvers
  OBVIOUS
<1>10. PICK finds : finds = Finds
  OBVIOUS
<1>11. IsMap(map, m) /\ Turns(chain, map, files, n, finds)
  BY <1>2, <1>6, <1>7, <1>8, <1>9, <1>10 DEF RuleInv, LoopInv
<1>12. PICK after : after = SettledAt(chain, Found(map, n, finds[map[n].imp]), n)
  OBVIOUS
<1>13. /\ IsMap(after, m) /\ Turns(chain, after, files, n + 1, finds)
       /\ SameNames(after, map, m)
  BY <1>11, <1>12, NextTurn
<1>14. importMap' = after
  BY <1>4, <1>5, <1>6, <1>8, <1>9, <1>10, <1>12
<1>15. RuleTypeOK'
  <2>1. at' \in Nat \ {0}
    BY <1>1 DEF RuleInv, RuleTypeOK
  <2>. HIDE DEF FileMap, ScalaRule, Resolver
  <2> QED BY <1>1, <2>1, FindsStay DEF RuleInv, RuleTypeOK
<1>16. LoopInv'
  <2>1. DOMAIN importMap' = DOMAIN importMap
    BY <1>3, <1>13, <1>14 DEF IsMap
  <2>2. resolvers' = chain /\ fileMap' = files /\ at' = n + 1 /\ Finds' = finds
    BY <1>1, <1>7, <1>8, <1>9, <1>10, FindsStay
  <2>3. DOMAIN fileMap' \subseteq DOMAIN importMap'
    BY <1>1, <2>1 DEF RuleInv, LoopInv
  <2>. HIDE DEF Pending, IsMap
  <2> QED BY <1>1, <1>13, <1>14, <2>2, <2>3 DEF LoopInv
<1>17. IInv'
  BY <1>1, VarsStay DEF RuleInv
<1>18. DOMAIN importMap' = DOMAIN importMap /\ \A k \in DOMAIN importMap : importMap'[k].imp = importMap[k].imp
  <2>. HIDE DEF IsMap
  <2>1. DOMAIN after = 1 .. m
    BY <1>13 DEF IsMap
  <2> QED BY <1>3, <1>6, <1>13, <1>14, <2>1 DEF SameNames
<1> QED BY <1>15, <1>16, <1>17, <1>18 DEF RuleInv

LEMMA ResolveImportInv ==
    ASSUME RuleInv, ResolveImport
    PROVE  RuleInv'
BY ResolveImportKeeps


LEMMA RuleStepInv == RuleInv /\ [Step]_<<vars, ruleVars>> => RuleInv'
<1>. SUFFICES ASSUME RuleInv, [Step]_<<vars, ruleVars>>
              PROVE  RuleInv'
  OBVIOUS
<1>1. CASE Step
  BY <1>1, GatherDirectInv, GatherOneInv, GatheredInv, ResolveImportInv, ImportsDoneInv, ResolveExportsInv DEF Step
<1>2. CASE UNCHANGED <<vars, ruleVars>>
  <2>1. UNCHANGED vars /\ UNCHANGED <<globalScope, packages, rule, resolvers, phase, importMap, fileMap, at>>
    BY <1>2 DEF ruleVars
  <2>2. implicit' = implicit /\ required' = required
    BY <2>1 DEF vars
  <2>3. RuleTypeOK'
    <3>. HIDE DEF FileMap, ScalaRule, Resolver
    <3> QED BY <2>1, FindsStay DEF RuleInv, RuleTypeOK
  <2>4. LoopInv'
    <3>. HIDE DEF Pending, IsMap
    <3> QED BY <2>1, <2>2, FindsStay DEF RuleInv, LoopInv
  <2>5. IInv'
    BY <2>1, VarsStay DEF RuleInv
  <2> QED BY <2>3, <2>4, <2>5 DEF RuleInv
<1> QED BY <1>1, <1>2
-----------------------------------------------------------------------------
(***************************************************************************)
(* What a conflict is settled to.                                          *)
(***************************************************************************)
LEMMA FirstDecides ==
    ASSUME NEW n \in Nat, NEW answers, DOMAIN answers = 1 .. n, 1 \in DOMAIN answers, answers[1] # {}
    PROVE  FirstAnswer(answers) = answers[1]
<1>. DEFINE known == {i \in DOMAIN answers : answers[i] # {}}
            first == CHOOSE i \in known : \A j \in known : i <= j
<1>1. 1 \in known /\ \A j \in known : j \in Nat /\ 1 <= j
  OBVIOUS
<1>2. FirstAnswer(answers) = answers[first]
  <2>1. known # {}
    BY <1>1
  <2> QED BY <2>1 DEF FirstAnswer
<1>. HIDE DEF known
<1>3. first \in known /\ \A j \in known : first <= j
  BY <1>1
<1>. HIDE DEF first
<1>4. first = 1
  BY <1>1, <1>3
<1> QED BY <1>2, <1>4

LEMMA ProvidersAre ==
    ASSUME NEW s \in KnownSymbol
    PROVE  /\ DOMAIN Providers(s) = 1 .. Len(s.conflicts) + 1 /\ Len(s.conflicts) \in Nat
           /\ Providers(s)[Len(s.conflicts) + 1] = s
           /\ \A i \in 1 .. Len(s.conflicts) : Providers(s)[i] = s.conflicts[i]
           /\ \A i \in DOMAIN Providers(s) : Providers(s)[i].name = s.name
<1>1. s.conflicts \in Seq(PlainSymbol) /\ \A i \in DOMAIN s.conflicts : s.conflicts[i].name = s.name
  BY DEF KnownSymbol
<1>2. PICK c \in Seq(PlainSymbol) : c = s.conflicts
  BY <1>1
<1>. HIDE DEF PlainSymbol
<1>3. /\ Len(c) \in Nat /\ DOMAIN c = 1 .. Len(c) /\ DOMAIN Append(c, s) = 1 .. Len(c) + 1
      /\ Append(c, s)[Len(c) + 1] = s /\ \A i \in 1 .. Len(c) : Append(c, s)[i] = c[i]
  OBVIOUS
<1>4. Providers(s) = Append(c, s)
  BY <1>2 DEF Providers
<1>. HIDE DEF KnownSymbol
<1>5. \A i \in 1 .. Len(c) + 1 : i = Len(c) + 1 \/ i \in 1 .. Len(c)
  BY <1>3
<1> QED BY <1>1, <1>2, <1>3, <1>4, <1>5

\* A provider with such a label, if there is one.
LEMMA FirstOfIs ==
    ASSUME NEW s \in KnownSymbol, NEW labels, FirstOf(s, labels) # {}
    PROVE  \E i \in DOMAIN Providers(s) :
               FirstOf(s, labels) = {Providers(s)[i]} /\ Providers(s)[i].label \in labels
<1>. DEFINE all == Providers(s)
            answers == [i \in DOMAIN all |-> {p \in {all[i]} : p.label \in labels}]
<1>1. PICK n \in Nat : DOMAIN all = 1 .. n
  BY ProvidersAre
<1>2. FirstOf(s, labels) = FirstAnswer(answers)
  BY DEF FirstOf
<1>. HIDE DEF all
<1>3. PICK i \in DOMAIN answers : FirstAnswer(answers) = answers[i]
  <2>1. DOMAIN answers = 1 .. n
    BY <1>1
  <2>. HIDE DEF answers
  <2> QED BY <1>2, <2>1, FirstAnswers
<1>4. i \in DOMAIN all /\ answers[i] = {p \in {all[i]} : p.label \in labels} /\ answers[i] # {}
  BY <1>2, <1>3
<1>. HIDE DEF answers
<1>5. answers[i] = {all[i]} /\ all[i].label \in labels
  BY <1>4
<1> QED BY <1>2, <1>3, <1>4, <1>5 DEF all

\* The first resolver of the chain decides where it has an answer.
LEMMA ChainDecides ==
    ASSUME NEW chain \in Seq(Resolver), chain # <<>>, NEW map, NEW s
    PROVE  /\ chain[1] = "scala_grpc_zio" /\ ScalaGrpcZio(map, s) # {} => ResolveConflict(chain, map, s) = ScalaGrpcZio(map, s)
           /\ chain[1] = "scala_proto_package" /\ ScalaProtoPackage(map, s) # {} =>
                ResolveConflict(chain, map, s) = ScalaProtoPackage(map, s)
<1>. DEFINE answers ==
        [i \in DOMAIN chain |->
            CASE chain[i] = "scala_grpc_zio" -> ScalaGrpcZio(map, s)
              [] chain[i] = "scala_proto_package" -> ScalaProtoPackage(map, s)
              [] chain[i] = "predefined_label" -> PredefinedLabel(s)
              [] chain[i] = "preferred_deps" -> PreferredDeps(s)]
<1>1. PICK n \in Nat : DOMAIN chain = 1 .. n /\ 1 \in DOMAIN chain
  <2>. HIDE DEF Resolver
  <2> QED OBVIOUS
<1>2. ResolveConflict(chain, map, s) = FirstAnswer(answers)
  BY DEF ResolveConflict
<1>3. DOMAIN answers = 1 .. n /\ 1 \in DOMAIN answers
  BY <1>1
<1>4. chain[1] = "scala_grpc_zio" => answers[1] = ScalaGrpcZio(map, s)
  BY <1>1
<1>5. chain[1] = "scala_proto_package" => answers[1] = ScalaProtoPackage(map, s)
  BY <1>1
<1>. HIDE DEF answers
<1>6. answers[1] # {} => FirstAnswer(answers) = answers[1]
  BY <1>3, FirstDecides
<1> QED BY <1>2, <1>4, <1>5, <1>6

LEMMA GrpcOrZio ==
    ASSUME NEW s \in KnownSymbol, NEW map, FirstOf(s, GrpcLabel) # {}, FirstOf(s, ZioLabel) # {}
    PROVE  \E p : /\ ScalaGrpcZio(map, s) = {p}
                  /\ p.label \in ZioLabel <=> UsesZio(map, s)
<1>1. PICK i \in DOMAIN Providers(s) : FirstOf(s, GrpcLabel) = {Providers(s)[i]} /\ Providers(s)[i].label \in GrpcLabel
  BY FirstOfIs
<1>2. PICK j \in DOMAIN Providers(s) : FirstOf(s, ZioLabel) = {Providers(s)[j]} /\ Providers(s)[j].label \in ZioLabel
  BY FirstOfIs
<1>3. PICK g, z : g = Providers(s)[i] /\ z = Providers(s)[j]
  OBVIOUS
<1>4. g.name = z.name /\ FirstOf(s, GrpcLabel) = {g} /\ FirstOf(s, ZioLabel) = {z} /\ g.label \in GrpcLabel /\ z.label \in ZioLabel
  BY <1>1, <1>2, <1>3, ProvidersAre
<1>5. ScalaGrpcZio(map, s) = IF UsesZio(map, s) THEN {z} ELSE {g}
  BY <1>4 DEF ScalaGrpcZio
<1>6. g.label \notin ZioLabel
  BY <1>4, RuleImportsAssumption
<1>7. CASE UsesZio(map, s)
  BY <1>4, <1>5, <1>7
<1>8. CASE ~UsesZio(map, s)
  BY <1>5, <1>6, <1>8
<1> QED BY <1>7, <1>8

LEMMA ProtoOrGrpc ==
    ASSUME NEW s \in KnownSymbol, NEW map, IsPackageOfTwo(s), FirstOf(s, GrpcLabel) # {}, FirstOf(s, ProtoLabel) # {}
    PROVE  \E p : /\ ScalaProtoPackage(map, s) = {p}
                  /\ p.label \in GrpcLabel <=> UsesGrpc(map, s)
<1>1. /\ Len(s.conflicts) = 1 /\ s.type = "PROTO_PACKAGE" /\ s.conflicts[1].type = "PROTO_PACKAGE"
      /\ s.name = s.conflicts[1].name
  <2>1. PICK n \in Nat : n = Len(s.conflicts) /\ n = 1
    BY DEF IsPackageOfTwo
  <2>2. /\ DOMAIN Providers(s) = 1 .. n + 1
        /\ \A i \in 1 .. n : Providers(s)[i] = s.conflicts[i]
    BY <2>1, ProvidersAre
  <2>3. 1 \in 1 .. n /\ 1 \in 1 .. n + 1
    BY <2>1
  <2>4. 1 \in DOMAIN Providers(s) /\ Providers(s)[1] = s.conflicts[1]
    BY <2>2, <2>3
  <2>5. Providers(s)[1].name = s.name
    BY <2>4, ProvidersAre
  <2> QED BY <2>4, <2>5 DEF IsPackageOfTwo
<1>2. PICK other : other = s.conflicts[1]
  OBVIOUS
<1>3. \A i \in DOMAIN Providers(s) : Providers(s)[i] = s \/ Providers(s)[i] = other
  <2>1. PICK n \in Nat : n = Len(s.conflicts) /\ n = 1
    BY <1>1
  <2>2. /\ DOMAIN Providers(s) = 1 .. n + 1 /\ Providers(s)[n + 1] = s
        /\ \A i \in 1 .. n : Providers(s)[i] = s.conflicts[i]
    BY <2>1, ProvidersAre
  <2>3. \A i \in 1 .. n + 1 : i = n + 1 \/ (i \in 1 .. n /\ i = 1)
    BY <2>1
  <2> QED BY <1>2, <2>2, <2>3
<1>4. s.label \in GrpcLabel \/ other.label \in GrpcLabel
  BY <1>3, FirstOfIs
<1>5. s.label \in ProtoLabel \/ other.label \in ProtoLabel
  BY <1>3, FirstOfIs
<1>6. \A l : ~(l \in GrpcLabel /\ l \in ProtoLabel)
  BY RuleImportsAssumption
<1>7. PICK proto : proto = IF s.label \in ProtoLabel THEN s ELSE other
  OBVIOUS
<1>8. PICK grpc : grpc = IF s.label \in ProtoLabel THEN other ELSE s
  OBVIOUS
<1>9. grpc.label \in GrpcLabel /\ proto.label \in ProtoLabel
  BY <1>4, <1>5, <1>6, <1>7, <1>8
<1>10. ScalaProtoPackage(map, s) = IF UsesGrpc(map, s) THEN {grpc} ELSE {proto}
  BY <1>1, <1>2, <1>7, <1>8, <1>9 DEF ScalaProtoPackage
<1>11. CASE UsesGrpc(map, s)
  BY <1>9, <1>10, <1>11
<1>12. CASE ~UsesGrpc(map, s)
  BY <1>6, <1>9, <1>10, <1>12
<1> QED BY <1>11, <1>12

\* What the chain finds for a name, where it has conflicts, is one symbol of the tables.
LEMMA ConflictIsKnown ==
    ASSUME TablesOK, NEW name \in Imp, NEW s \in ResolveSymbol(name), s.conflicts # <<>>
    PROVE  s \in KnownSymbol /\ ResolveSymbol(name) = {s}
<1>. DEFINE trimmed == Trimmed(name)
            answers == <<OverrideSymbol(trimmed), GetSymbol(trimmed), LookUp(packages, trimmed)>>
            Fine(found) == \A x \in found : x.conflicts # <<>> => x \in KnownSymbol /\ \A y \in found : x = y
<1>1. trimmed \in Path
  <2>1. TrimRoot(name) \in Path
    BY ImpPaths, TrimmedRoot
  <2>2. \A n \in Path : IsWildcard(n) => Front(n) \in Path
    <3>1. \A n \in Path : Len(n) > 1 => Front(n) \in Path
      BY DEF Front, Path
    <3>2. \A n \in Path : IsWildcard(n) => Len(n) > 1
      BY Zenon DEF IsWildcard
    <3> QED BY <3>1, <3>2
  <2> QED BY <2>1, <2>2 DEF Trimmed
<1>2. ResolveSymbol(name) = FirstAnswer(answers)
  BY DEF ResolveSymbol
<1>. HIDE DEF trimmed
<1>3. Fine(OverrideSymbol(trimmed))
  <2>1. \A x \in OverrideSymbol(trimmed) : x.conflicts = <<>>
    BY DEF OverrideSymbol
  <2> QED BY <2>1
<1>4. Fine(GetSymbol(trimmed))
  BY <1>1, GetSymbolIs
<1>5. Fine(LookUp(packages, trimmed))
  <2>1. packages \in Tries(KnownSymbol)
    BY DEF TablesOK, KnownTrie
  <2> QED BY <1>1, <2>1, LookUpIn, LookUpOne
<1>. HIDE DEF Fine
<1>6. DOMAIN answers = 1 .. 3 /\ \A i \in 1 .. 3 : Fine(answers[i])
  BY <1>3, <1>4, <1>5
<1>. HIDE DEF answers
<1>7. PICK i \in DOMAIN answers : FirstAnswer(answers) = answers[i]
  <2>1. FirstAnswer(answers) # {}
    BY <1>2
  <2> QED BY <1>6, <2>1, FirstAnswers
<1>8. Fine(ResolveSymbol(name))
  BY <1>2, <1>6, <1>7
<1> QED BY <1>8 DEF Fine

LEMMA SettledOne ==
    ASSUME NEW chain, NEW map, NEW s, s.conflicts # <<>>, ResolveConflict(chain, map, s) # {}
    PROVE  SettledBy(chain, map, {s}) = ResolveConflict(chain, map, s)
<1>1. {f \in {s} : f.conflicts # <<>>} = {s}
  OBVIOUS
<1>2. UNION {ResolveConflict(chain, map, x) : x \in {s}} = ResolveConflict(chain, map, s)
  OBVIOUS
<1> QED BY <1>1, <1>2 DEF SettledBy

LEMMA AtTurnOf ==
    ASSUME NEW map, NEW files, NEW i \in Nat, i \in DOMAIN map, NEW found, found # {}, NEW chain,
           InTurn(chain, map, files, i, found), NEW seen, seen = AtTurn(map, files, i, found)
    PROVE  seen[i].sym = found /\ map[i].sym = SettledBy(chain, seen, found) /\ ~map[i].error
<1>2. PICK name : name = map[i].imp
  OBVIOUS
<1>4. seen[i] = [imp |-> name, error |-> found = {}, sym |-> IF found = {} THEN AsPut(files, name, i).sym ELSE found]
  BY <1>2 DEF AtTurn
<1>5. seen[i].sym = found
  BY <1>4
<1>6. PICK settled : settled = SettledBy(chain, seen, found)
  OBVIOUS
<1>7. map[i] = [seen[i] EXCEPT !.sym = settled]
  BY <1>5, <1>6 DEF InTurn
<1>8. [seen[i] EXCEPT !.sym = settled].sym = settled /\ ~[seen[i] EXCEPT !.sym = settled].error
  <2>1. PICK failed \in BOOLEAN : failed = (found = {}) /\ ~failed
    OBVIOUS
  <2>2. PICK other : seen[i] = [imp |-> name, error |-> failed, sym |-> other]
    BY <1>4, <2>1
  <2> QED BY <2>1, <2>2
<1> QED BY <1>5, <1>6, <1>7, <1>8

\* What the other imports come to when an import is settled is what they come to in the
\* end or what the files put; what they come to both ways counts.
LEMMA SeenOthers ==
    ASSUME RuleInv, NEW i \in DOMAIN importMap, \A j \in DOMAIN importMap : j < at,
           NEW s, NEW seen, seen = AtTurn(importMap, fileMap, i, {s}), seen[i].sym = {s}
    PROVE  /\ Others(seen, s) \subseteq Others(importMap, s) \cup Others(fileMap, s)
           /\ Steady(i, s) \subseteq Others(seen, s)
<1>1. PICK m \in Nat : IsMap(importMap, m)
  BY DEF RuleInv, LoopInv
<1>2. DOMAIN importMap = 1 .. m /\ DOMAIN fileMap \subseteq DOMAIN importMap /\ DOMAIN seen = 1 .. m
  BY <1>1 DEF IsMap, AtTurn, RuleInv, LoopInv
<1>3. \A k \in DOMAIN fileMap : fileMap[k].error = FALSE
  <2>1. \A e \in FileEntry : e.error = FALSE
    BY DEF FileEntry
  <2>. HIDE DEF FileEntry
  <2> QED BY <2>1 DEF RuleInv, RuleTypeOK, FileMap
<1>4. \A k \in 1 .. m : k < i => seen[k] = importMap[k]
  BY <1>2 DEF AtTurn
<1>5. \A k \in 1 .. m : k > i /\ k \in DOMAIN fileMap => seen[k] = fileMap[k]
  <2>1. \A k \in 1 .. m : k > i => seen[k] = AsPut(fileMap, importMap[k].imp, k)
    BY <1>2 DEF AtTurn
  <2> QED BY <2>1 DEF AsPut
<1>6. \A k \in 1 .. m : k > i /\ k \notin DOMAIN fileMap => seen[k].sym = {}
  <2>1. \A k \in 1 .. m : k > i => seen[k] = AsPut(fileMap, importMap[k].imp, k)
    BY <1>2 DEF AtTurn
  <2>2. \A name : Import(name, {}).sym = {}
    BY DEF Import
  <2> QED BY <2>1, <2>2 DEF AsPut
<1>7. ASSUME NEW o \in Others(seen, s)
      PROVE  o \in Others(importMap, s) \cup Others(fileMap, s)
  <2>1. PICK k \in 1 .. m : o \in seen[k].sym /\ ~seen[k].error /\ o # s
    BY <1>2 DEF Others
  <2>2. k # i
    BY <2>1
  <2>3. CASE k < i
    BY <1>2, <1>4, <2>1, <2>3 DEF Others
  <2>4. CASE k > i
    <3>1. k \in DOMAIN fileMap /\ o \in fileMap[k].sym /\ ~fileMap[k].error
      BY <1>3, <1>5, <1>6, <2>1, <2>4
    <3> QED BY <2>1, <3>1 DEF Others
  <2> QED BY <1>2, <2>2, <2>3, <2>4
<1>8. ASSUME NEW o \in Steady(i, s)
      PROVE  o \in Others(seen, s)
  <2>1. PICK k \in DOMAIN fileMap : k # i /\ ~importMap[k].error /\ o \in fileMap[k].sym /\ o \in importMap[k].sym /\ o # s
    BY DEF Steady
  <2>2. k \in 1 .. m
    BY <1>2
  <2>3. o \in seen[k].sym /\ ~seen[k].error
    <3>1. CASE k < i
      BY <1>4, <2>1, <2>2, <3>1
    <3>2. CASE k > i
      BY <1>3, <1>5, <2>1, <2>2, <3>2
    <3> QED BY <1>2, <2>1, <2>2, <3>1, <3>2
  <2> QED BY <1>2, <2>1, <2>2, <2>3 DEF Others
<1> QED BY <1>7, <1>8

LEMMA Decided ==
    ASSUME RuleInv, Resolved, NEW i \in DOMAIN importMap, NEW s \in ResolveSymbol(importMap[i].imp), s.conflicts # <<>>
    PROVE  LET chosen == Only(importMap[i].sym).label IN ZioDecides(i, s, chosen) /\ GrpcDecides(i, s, chosen)
<1>. DEFINE chosen == Only(importMap[i].sym).label
<1>1. PICK m \in Nat : IsMap(importMap, m)
  BY DEF RuleInv, LoopInv
<1>2. DOMAIN importMap = 1 .. m /\ importMap[i].imp \in Imp
  BY <1>1 DEF IsMap
<1>3. s \in KnownSymbol /\ ResolveSymbol(importMap[i].imp) = {s}
  BY <1>2, ConflictIsKnown DEF RuleInv, RuleTypeOK
<1>4. \A j \in DOMAIN importMap : j < at
  <2>1. at \notin DOMAIN importMap /\ at \in Nat \ {0}
    BY DEF RuleInv, RuleTypeOK, LoopInv, Resolved
  <2> QED BY <1>2, <2>1
<1>5. InTurn(resolvers, importMap, fileMap, i, {s})
  <2>1. Finds[importMap[i].imp] = {s}
    BY <1>2, <1>3 DEF Finds
  <2>2. Turns(resolvers, importMap, fileMap, at, Finds) /\ i < at
    BY <1>4 DEF RuleInv, LoopInv
  <2> QED BY <2>1, <2>2 DEF Turns
<1>6. PICK seen : seen = AtTurn(importMap, fileMap, i, {s})
  OBVIOUS
<1>7. seen[i].sym = {s} /\ importMap[i].sym = SettledBy(resolvers, seen, {s})
  <2>1. i \in Nat
    BY <1>2
  <2>2. PICK found : found = {s} /\ found # {}
    OBVIOUS
  <2>3. InTurn(resolvers, importMap, fileMap, i, found) /\ seen = AtTurn(importMap, fileMap, i, found)
    BY <1>5, <1>6, <2>2
  <2>4. seen[i].sym = found /\ importMap[i].sym = SettledBy(resolvers, seen, found)
    BY <2>1, <2>2, <2>3, AtTurnOf
  <2> QED BY <2>2, <2>4
<1>8. /\ Others(seen, s) \subseteq Others(importMap, s) \cup Others(fileMap, s)
      /\ Steady(i, s) \subseteq Others(seen, s)
  BY <1>4, <1>6, <1>7, SeenOthers
<1>9. resolvers \in Seq(Resolver)
  BY DEF RuleInv, RuleTypeOK
<1>. HIDE DEF KnownSymbol, Resolver
<1>10. ZioDecides(i, s, chosen)
  <2>. SUFFICES ASSUME First("scala_grpc_zio"), FirstOf(s, GrpcLabel) # {}, FirstOf(s, ZioLabel) # {}
                PROVE  /\ (\E o \in Steady(i, s) : o.type = "PROTO_SERVICE" /\ o.name \in ZioName) => chosen \in ZioLabel
                       /\ chosen \in ZioLabel => UsesZio(importMap, s) \/ UsesZio(fileMap, s)
    BY DEF ZioDecides
  <2>1. PICK p : ScalaGrpcZio(seen, s) = {p} /\ (p.label \in ZioLabel <=> UsesZio(seen, s))
    BY <1>3, GrpcOrZio
  <2>2. ResolveConflict(resolvers, seen, s) = {p}
    BY <1>9, <2>1, ChainDecides DEF First
  <2>3. importMap[i].sym = {p}
    BY <1>7, <2>2, SettledOne
  <2>4. chosen = p.label
    BY <2>3, OnlyIs
  <2>. HIDE DEF chosen
  <2>5. (\E o \in Steady(i, s) : o.type = "PROTO_SERVICE" /\ o.name \in ZioName) => UsesZio(seen, s)
    BY <1>8 DEF UsesZio
  <2>6. UsesZio(seen, s) => UsesZio(importMap, s) \/ UsesZio(fileMap, s)
    BY <1>8 DEF UsesZio
  <2> QED BY <2>1, <2>4, <2>5, <2>6
<1>11. GrpcDecides(i, s, chosen)
  <2>. SUFFICES ASSUME First("scala_proto_package"), IsPackageOfTwo(s), FirstOf(s, GrpcLabel) # {}, FirstOf(s, ProtoLabel) # {}
                PROVE  /\ (\E o \in Steady(i, s) : IsPrefixOf(s.name, o.name) /\ o.name \in ServiceName) => chosen \in GrpcLabel
                       /\ chosen \in GrpcLabel /\ ~UsesLookAlike(importMap, s) /\ ~UsesLookAlike(fileMap, s)
                          => UsesService(importMap, s) \/ UsesService(fileMap, s)
    BY DEF GrpcDecides
  <2>1. PICK p : ScalaProtoPackage(seen, s) = {p} /\ (p.label \in GrpcLabel <=> UsesGrpc(seen, s))
    BY <1>3, ProtoOrGrpc
  <2>2. ResolveConflict(resolvers, seen, s) = {p}
    BY <1>9, <2>1, ChainDecides DEF First
  <2>3. importMap[i].sym = {p}
    BY <1>7, <2>2, SettledOne
  <2>4. chosen = p.label
    BY <2>3, OnlyIs
  <2>. HIDE DEF chosen
  <2>5. (\E o \in Steady(i, s) : IsPrefixOf(s.name, o.name) /\ o.name \in ServiceName) => UsesGrpc(seen, s)
    BY <1>8 DEF UsesGrpc, HasTextPrefix
  <2>6. \A map : UsesGrpc(map, s) <=> UsesService(map, s) \/ UsesLookAlike(map, s)
    BY DEF UsesGrpc, UsesService, UsesLookAlike, HasTextPrefix
  <2>7. UsesGrpc(seen, s) => UsesGrpc(importMap, s) \/ UsesGrpc(fileMap, s)
    BY <1>8 DEF UsesGrpc
  <2> QED BY <2>1, <2>4, <2>5, <2>6, <2>7
<1> QED BY <1>10, <1>11
-----------------------------------------------------------------------------
(***************************************************************************)
(* The import map and the work list go together.                           *)
(***************************************************************************)
Names(map) == {map[k].imp : k \in DOMAIN map}

LEMMA KeysAreNames ==
    ASSUME NEW map
    PROVE  Elements(Keys(map)) = Names(map)
<1> QED BY DEF Elements, Keys, Names

LEMMA PutAddsName ==
    ASSUME NEW map \in FileMap, NEW e \in FileEntry
    PROVE  Names(Put(map, e)) = Names(map) \cup {e.imp}
<1>1. map \in Seq(FileEntry)
  BY DEF FileMap
<1>2. Put(map, e) = IF e.imp \in Names(map) THEN map ELSE Append(map, e)
  BY KeysAreNames DEF Put
<1>. HIDE DEF FileEntry
<1>3. Names(Append(map, e)) = Names(map) \cup {e.imp}
  <2>. DEFINE more == Append(map, e)
  <2>1. /\ DOMAIN map = 1 .. Len(map) /\ Len(map) \in Nat
        /\ DOMAIN more = 1 .. Len(map) + 1 /\ more[Len(map) + 1] = e
        /\ \A i \in DOMAIN map : more[i] = map[i]
    BY <1>1, AppendedElements
  <2>. HIDE DEF more
  <2>2. Names(more) = Names(map) \cup {e.imp}
    BY <2>1 DEF Names
  <2> QED BY <2>2 DEF more
<1>4. CASE e.imp \in Names(map)
  BY <1>2, <1>4
<1>5. CASE e.imp \notin Names(map)
  BY <1>2, <1>3, <1>5
<1> QED BY <1>4, <1>5

LEMMA PutName ==
    ASSUME NEW files, NEW map \in Pending(files), NEW e \in Blank
    PROVE  Names(Put(map, e)) = Names(map) \cup {e.imp}
<1> QED BY PutAddsName DEF Pending, Blank

LEMMA PutNames ==
    ASSUME NEW files, NEW map \in Pending(files), NEW deps \in Seq(Imp)
    PROVE  Names(FoldLeft(Put, map, [i \in DOMAIN deps |-> Import(deps[i], {})])) = Names(map) \cup Elements(deps)
<1>. DEFINE n == Len(deps)
            new == [i \in DOMAIN deps |-> Import(deps[i], {})]
            Before(k) == {deps[i] : i \in 1 .. k}
            I == [k \in 0 .. n |-> {v \in Pending(files) : Names(v) = Names(map) \cup Before(k)}]
            F == BlankFcn(files)
<1>1. n \in Nat /\ DOMAIN deps = 1 .. n /\ \A i \in DOMAIN deps : deps[i] \in Imp
  OBVIOUS
<1>2. \A name \in Imp : Import(name, {}) \in Blank /\ Import(name, {}).imp = name
  BY ImportIs DEF Blank, Import
<1>. HIDE DEF Pending, Blank
<1>3. new \in Seq(Blank) /\ Len(new) = n /\ \A k \in 1 .. n : new[k] \in Blank /\ new[k].imp = deps[k]
  <2>1. new \in [1 .. n -> Blank] /\ \A k \in 1 .. n : new[k] \in Blank /\ new[k].imp = deps[k]
    BY <1>1, <1>2
  <2>. HIDE DEF new, n
  <2> QED BY <1>1, <2>1
<1>. HIDE DEF new, n
<1>4. map \in I[0]
  <2>1. Before(0) = {}
    OBVIOUS
  <2>. HIDE DEF Before
  <2> QED BY <1>1, <2>1
<1>5. ASSUME NEW k \in 1 .. n, NEW v \in Pending(files), v \in I[k - 1]
      PROVE  F[v][new[k]] \in I[k]
  <2>1. k - 1 \in 0 .. n /\ k \in 0 .. n
    BY <1>1
  <2>2. Before(k) = Before(k - 1) \cup {deps[k]}
    <3>1. \A i \in 1 .. k : i \in 1 .. k - 1 \/ i = k
      BY <1>1
    <3>2. \A i \in 1 .. k - 1 : i \in 1 .. k
      BY <1>1
    <3>3. k \in 1 .. k
      BY <1>1
    <3> QED BY <3>1, <3>2, <3>3
  <2>. HIDE DEF Before
  <2>3. Names(v) = Names(map) \cup Before(k - 1)
    BY <1>5, <2>1
  <2>4. F[v][new[k]] = Put(v, new[k])
    BY <1>3 DEF BlankFcn
  <2>5. Put(v, new[k]) \in Pending(files) /\ Names(Put(v, new[k])) = Names(v) \cup {deps[k]}
    BY <1>3, PutBlank, PutName
  <2> QED BY <2>1, <2>2, <2>3, <2>4, <2>5
<1>. HIDE DEF I
<1>6. Maintained(I, F, Pending(files), new)
  BY <1>3, <1>5 DEF Maintained
<1>. HIDE DEF F
<1>7. Folded(F, map, new) \in I[n]
  BY <1>3, <1>4, <1>6, BlankStepType, FoldedInvariant DEF F
<1>8. FoldLeft(Put, map, new) = Folded(F, map, new)
  BY <1>3, BlanksAreFold DEF F
<1>9. Before(n) = Elements(deps) /\ n \in 0 .. n
  BY <1>1 DEF Elements
<1>. HIDE DEF Before
<1>10. Names(FoldLeft(Put, map, new)) = Names(map) \cup Before(n)
  BY <1>7, <1>8, <1>9 DEF I
<1> QED BY <1>9, <1>10 DEF new

\* The keys of the map are what the work list takes for imports, and the loop that
\* resolves them starts when the list is empty.
MapIsListed ==
    /\ phase # "gather" => Elements(Keys(importMap)) = imports
    /\ phase \in {"resolve", "export", "done"} => required = <<>>

LEMMA MapIsListedInit == RuleInit => MapIsListed
<1> QED BY DEF RuleInit, MapIsListed

LEMMA MapIsListedStep == RuleInv /\ MapIsListed /\ [Step]_<<vars, ruleVars>> => MapIsListed'
<1>. SUFFICES ASSUME RuleInv, MapIsListed, [Step]_<<vars, ruleVars>>
              PROVE  MapIsListed'
  OBVIOUS
<1>1. CASE GatherDirect
  <2>1. phase' = "implicit" /\ direct'.imports = Keys(importMap') /\ implicit' = {}
    BY <1>1 DEF GatherDirect, RuleInv, LoopInv
  <2> QED BY <2>1 DEF MapIsListed, imports
<1>2. CASE GatherOne
  <2>1. phase = "implicit" /\ phase' = phase /\ GatherImplicit
    BY <1>2 DEF GatherOne
  <2>2. resolveWith \in [Imp -> Seq(Imp)] /\ required \in Seq(Imp) /\ required # <<>>
    BY <2>1 DEF RuleInv, IInv, TypeOK, GatherImplicit
  <2>3. required[Len(required)] \in Imp
    BY <2>2, PopTakesTop
  <2>4. PICK deps \in Seq(Imp) : deps = resolveWith[required[Len(required)]]
    BY <2>2, <2>3
  <2>5. importMap' = FoldLeft(Put, importMap, [i \in DOMAIN deps |-> Import(deps[i], {})])
    BY <1>2, <2>4 DEF GatherOne
  <2>6. PICK map : map = importMap
    OBVIOUS
  <2>7. PICK files : files = fileMap
    OBVIOUS
  <2>8. map \in Pending(files)
    BY <2>1, <2>6, <2>7 DEF RuleInv, LoopInv
  <2>9. PICK after : after = importMap'
    OBVIOUS
  <2>10. Names(after) = Names(map) \cup Elements(deps)
    BY <2>5, <2>6, <2>8, <2>9, PutNames
  <2>11. direct' = direct /\ implicit' = implicit \cup (Elements(deps) \ Elements(direct.imports))
    BY <2>1, <2>4 DEF GatherImplicit, PutImplicit
  <2>12. Names(map) = Elements(direct.imports) \cup implicit
    BY <2>1, <2>6, KeysAreNames DEF MapIsListed, imports
  <2>13. Elements(Keys(after)) = Elements(direct.imports) \cup implicit'
    BY <2>10, <2>11, <2>12, KeysAreNames
  <2> QED BY <2>1, <2>9, <2>11, <2>13 DEF MapIsListed, imports
<1>3. CASE ResolveImport
  <2>1. /\ phase = "resolve" /\ phase' = phase /\ UNCHANGED vars
        /\ DOMAIN importMap' = DOMAIN importMap /\ \A k \in DOMAIN importMap : importMap'[k].imp = importMap[k].imp
    BY <1>3, ResolveImportKeeps DEF ResolveImport
  <2>2. Keys(importMap') = Keys(importMap)
    BY <2>1 DEF Keys
  <2> QED BY <2>1, <2>2 DEF MapIsListed, imports, vars
<1>4. CASE Gathered
  BY <1>4 DEF Gathered, MapIsListed, imports, vars
<1>5. CASE ImportsDone \/ ResolveExports
  BY <1>5 DEF ImportsDone, ResolveExports, MapIsListed, imports, vars
<1>6. CASE UNCHANGED <<vars, ruleVars>>
  BY <1>6 DEF MapIsListed, imports, vars, ruleVars
<1> QED BY <1>1, <1>2, <1>3, <1>4, <1>5, <1>6 DEF Step
-----------------------------------------------------------------------------
(***************************************************************************)
(* The symbols of the global scope are known under their own names: the name *)
(* under which an import is put leads the chain back to the symbol that was *)
(* found behind it.                                                        *)
(***************************************************************************)
\* The global scope has each symbol under its own name.
ExactTrie == {t \in KnownTrie : \A p \in DOMAIN t : t[p].name = p /\ p \in Imp /\ IsSymbolName(p)}

LEMMA PutExact ==
    ASSUME NEW trie \in ExactTrie, NEW sym \in PlainSymbol, IsSymbolName(sym.name)
    PROVE  PutClass(trie, sym) \in ExactTrie
<1>. DEFINE after == PutAs(trie, sym.name, sym)
            current == {c \in LookUp(trie, sym.name) : c.name = sym.name /\ c.label # sym.label}
<1>1. trie \in KnownTrie /\ \A p \in DOMAIN trie : trie[p].name = p /\ p \in Imp /\ IsSymbolName(p)
  BY DEF ExactTrie
<1>2. after \in KnownTrie /\ sym.name \in Imp
  BY <1>1, PutKnown DEF PlainSymbol
<1>3. CASE current = {}
  <2>1. after = Store(trie, sym.name, sym)
    BY <1>3 DEF PutAs
  <2>2. \A p \in DOMAIN after : after[p].name = p /\ p \in Imp /\ IsSymbolName(p)
    BY <1>1, <1>2, <2>1 DEF Store
  <2> QED BY <1>1, <1>2, <2>2 DEF ExactTrie, PutClass
<1>4. CASE current # {}
  <2>1. PICK c : after = [p \in DOMAIN trie |-> IF trie[p] = c THEN WithConflict(c, sym) ELSE trie[p]] /\ c \in current
    BY <1>4 DEF PutAs
  <2>2. c \in KnownSymbol
    <3>1. trie \in Tries(KnownSymbol)
      BY <1>1 DEF KnownTrie
    <3> QED BY <2>1, <3>1, LookUpIn
  <2>3. WithConflict(c, sym).name = c.name
    BY <2>2 DEF WithConflict, KnownSymbol
  <2>. HIDE DEF current
  <2>4. DOMAIN after = DOMAIN trie /\ \A p \in DOMAIN trie : after[p].name = trie[p].name
    BY <2>1, <2>3
  <2>5. \A p \in DOMAIN after : after[p].name = p /\ p \in Imp /\ IsSymbolName(p)
    BY <1>1, <2>4
  <2> QED BY <1>1, <1>2, <2>5 DEF ExactTrie, PutClass
<1> QED BY <1>3, <1>4

LEMMA TableIsExact ==
    ASSUME NEW puts \in Seq(PlainSymbol), \A i \in DOMAIN puts : IsSymbolName(puts[i].name)
    PROVE  FoldLeft(PutClass, EmptyScope, puts) \in ExactTrie
<1>. DEFINE I == [k \in 0 .. Len(puts) |-> ExactTrie]
<1>1. EmptyScope \in KnownTrie /\ DOMAIN EmptyScope = {}
  BY EmptyIsTrie DEF KnownTrie, EmptyScope
<1>2. Len(puts) \in Nat /\ \A k \in 1 .. Len(puts) : puts[k] \in PlainSymbol /\ IsSymbolName(puts[k].name)
  <2>. HIDE DEF PlainSymbol
  <2> QED OBVIOUS
<1>3. \A v \in KnownTrie : \A k \in 1 .. Len(puts) : v \in ExactTrie => ClassFcn[v][puts[k]] \in ExactTrie
  <2>. SUFFICES ASSUME NEW v \in KnownTrie, NEW k \in 1 .. Len(puts), v \in ExactTrie
                PROVE  ClassFcn[v][puts[k]] \in ExactTrie
    OBVIOUS
  <2>1. puts[k] \in PlainSymbol /\ IsSymbolName(puts[k].name)
    BY <1>2
  <2>2. PutClass(v, puts[k]) \in ExactTrie
    BY <2>1, PutExact
  <2> QED BY <2>1, <2>2 DEF ClassFcn
<1>4. EmptyScope \in ExactTrie
  BY <1>1 DEF ExactTrie
<1>. HIDE DEF KnownTrie, PlainSymbol, ExactTrie, ClassFcn
<1>5. Maintained(I, ClassFcn, KnownTrie, puts)
  <2>1. \A k \in 1 .. Len(puts) : k \in 0 .. Len(puts) /\ k - 1 \in 0 .. Len(puts)
    BY <1>2
  <2> QED BY <1>3, <2>1 DEF Maintained
<1>6. EmptyScope \in I[0] /\ I[Len(puts)] = ExactTrie
  BY <1>2, <1>4
<1>. HIDE DEF I
<1>7. Folded(ClassFcn, EmptyScope, puts) \in I[Len(puts)]
  BY <1>1, <1>5, <1>6, PutsType, FoldedInvariant
<1> QED BY <1>1, <1>6, <1>7, ClassesAreFold

LEMMA LookUpOwn ==
    ASSUME NEW trie \in ExactTrie, NEW p \in DOMAIN trie
    PROVE  LookUp(trie, p) = {trie[p]}
<1>1. DOMAIN trie \subseteq Path /\ p \in Path /\ p # <<>>
  <2>1. trie \in Tries(KnownSymbol) /\ p \in Imp
    BY DEF ExactTrie, KnownTrie
  <2> QED BY <2>1, TrieIs, RuleImportsAssumption
<1>2. IsPrefixOf(p, p)
  BY <1>1 DEF IsPrefixOf, Path
<1>3. \A r \in DOMAIN trie : IsPrefixOf(p, r) /\ IsPrefixOf(r, p) => r = p
  <2>. SUFFICES ASSUME NEW r \in DOMAIN trie, IsPrefixOf(p, r), IsPrefixOf(r, p)
                PROVE  r = p
    OBVIOUS
  <2>1. Len(p) <= Len(r) /\ Len(r) <= Len(p) /\ SubSeq(r, 1, Len(p)) = p /\ r \in Seq(Segment) /\ p \in Seq(Segment)
    BY <1>1 DEF IsPrefixOf, Path
  <2>2. Len(p) = Len(r) /\ SubSeq(r, 1, Len(r)) = r
    BY <2>1
  <2> QED BY <2>1, <2>2
<1>4. \A q \in DOMAIN trie : IsPrefixOf(q, p) /\ (\A r \in DOMAIN trie : IsPrefixOf(q, r) /\ IsPrefixOf(r, p) => r = q) => q = p
  BY <1>2
<1> QED BY <1>1, <1>2, <1>3, <1>4 DEF LookUp

\* The first scope that answers decides.
AnswersAt(answers, n, k) ==
    /\ DOMAIN answers = 1 .. n
    /\ answers[k] # {}
    /\ \A j \in 1 .. n : j < k => answers[j] = {}

LEMMA AnswerDecides ==
    ASSUME NEW n \in Nat, NEW k \in 1 .. n, NEW answers, AnswersAt(answers, n, k)
    PROVE  FirstAnswer(answers) = answers[k]
<1>. DEFINE known == {i \in DOMAIN answers : answers[i] # {}}
            first == CHOOSE i \in known : \A j \in known : i <= j
<1>1. k \in known /\ \A j \in known : j \in 1 .. n /\ k <= j
  BY DEF AnswersAt
<1>2. FirstAnswer(answers) = answers[first]
  <2>1. known # {}
    BY <1>1
  <2> QED BY <2>1 DEF FirstAnswer
<1>. HIDE DEF known
<1>3. first \in known /\ \A j \in known : first <= j
  BY <1>1
<1>. HIDE DEF first
<1>4. first = k
  BY <1>1, <1>3
<1> QED BY <1>2, <1>4

LEMMA OwnNameIsKnown ==
    ASSUME NEW trie \in ExactTrie, NEW name \in Path, NEW s \in ScalaLookUp(trie, name)
    PROVE  s.name \in DOMAIN trie /\ trie[s.name] = s /\ (HasBuiltins(trie) => s.name \notin Builtin)
<1>. DEFINE S == {trie[p] : p \in DOMAIN trie}
<1>1. DOMAIN trie \in SUBSET Path /\ trie = [p \in DOMAIN trie |-> trie[p]]
  <2>1. trie \in Tries(KnownSymbol)
    BY DEF ExactTrie, KnownTrie
  <2> QED BY <2>1, TrieIs
<1>2. trie \in Tries(S)
  <2>1. trie \in [DOMAIN trie -> S]
    BY <1>1
  <2>. HIDE DEF S
  <2> QED BY <1>1, <2>1, IsTrie
<1>3. s \in S
  <2>. HIDE DEF S
  <2> QED BY <1>2, ScalaLookUpOne
<1>4. s.name \in DOMAIN trie /\ trie[s.name] = s
  BY <1>3 DEF ExactTrie
<1>5. ASSUME HasBuiltins(trie)
      PROVE  s.name \notin Builtin
  <2>. DEFINE answers == <<LookUp(trie, name),
                           LookUp(Only(ScopeAt(trie, <<"scala">>)), name),
                           LookUp(Only(ScopeAt(trie, <<"java", "lang">>)), name),
                           LookUp(trie, TrimRoot(name))>>
              kept == [i \in DOMAIN answers |-> {x \in answers[i] : x.name \notin Builtin}]
  <2>1. s \in FirstAnswer(kept)
    BY <1>5 DEF ScalaLookUp
  <2>2. DOMAIN answers = 1 .. 4
    OBVIOUS
  <2>. HIDE DEF answers
  <2>3. DOMAIN kept = 1 .. 4 /\ \A i \in DOMAIN kept : \A x \in kept[i] : x.name \notin Builtin
    BY <2>2
  <2>. HIDE DEF kept
  <2>4. \E i \in DOMAIN kept : FirstAnswer(kept) = kept[i]
    BY <2>1, <2>3, FirstAnswers
  <2> QED BY <2>1, <2>3, <2>4
<1> QED BY <1>4, <1>5

LEMMA KnownByOwnName ==
    ASSUME NEW trie \in ExactTrie, NEW name \in Path, NEW s \in ScalaLookUp(trie, name)
    PROVE  ScalaLookUp(trie, s.name) = {s}
<1>1. s.name \in DOMAIN trie /\ trie[s.name] = s /\ (HasBuiltins(trie) => s.name \notin Builtin)
  BY OwnNameIsKnown
<1>2. LookUp(trie, s.name) = {s}
  BY <1>1, LookUpOwn
<1>3. CASE ~HasBuiltins(trie)
  BY <1>2, <1>3 DEF ScalaLookUp
<1>4. CASE HasBuiltins(trie)
  <2>. DEFINE answers == <<LookUp(trie, s.name),
                           LookUp(Only(ScopeAt(trie, <<"scala">>)), s.name),
                           LookUp(Only(ScopeAt(trie, <<"java", "lang">>)), s.name),
                           LookUp(trie, TrimRoot(s.name))>>
              kept == [i \in DOMAIN answers |-> {x \in answers[i] : x.name \notin Builtin}]
  <2>1. ScalaLookUp(trie, s.name) = FirstAnswer(kept)
    BY <1>4 DEF ScalaLookUp
  <2>2. DOMAIN answers = 1 .. 4 /\ answers[1] = {s}
    BY <1>2
  <2>. HIDE DEF answers
  <2>3. DOMAIN kept = 1 .. 4 /\ kept[1] = {s}
    BY <1>1, <1>4, <2>2
  <2>. HIDE DEF kept
  <2>4. 4 \in Nat /\ 1 \in 1 .. 4 /\ AnswersAt(kept, 4, 1)
    BY <2>3 DEF AnswersAt
  <2>5. FirstAnswer(kept) = kept[1]
    BY <2>3, <2>4, AnswerDecides
  <2> QED BY <2>1, <2>3, <2>5
<1> QED BY <1>3, <1>4

\* A name that starts from the root package is known by the rest of it.
IsRootless(trie) == DOMAIN trie \subseteq Path /\ \A p \in DOMAIN trie : "_root_" \notin Elements(p)

LEMMA ExactIsRootless ==
    ASSUME NEW trie \in ExactTrie
    PROVE  IsRootless(trie)
<1>1. DOMAIN trie \subseteq Path
  <2>1. trie \in Tries(KnownSymbol)
    BY DEF ExactTrie, KnownTrie
  <2> QED BY <2>1, TrieIs
<1> QED BY <1>1 DEF ExactTrie, IsRootless, IsSymbolName

LEMMA RootHidden ==
    ASSUME NEW trie, IsRootless(trie), NEW name \in Path, name[1] = "_root_"
    PROVE  LookUp(trie, name) = {}
<1>1. ASSUME NEW q \in DOMAIN trie \ {<<>>}, IsPrefixOf(q, name)
      PROVE  FALSE
  <2>1. q \in Seq(Segment) /\ q # <<>> /\ "_root_" \notin Elements(q)
    BY DEF IsRootless, Path
  <2>2. Len(q) \in Nat /\ Len(q) >= 1 /\ Len(q) <= Len(name) /\ SubSeq(name, 1, Len(q)) = q
    BY <1>1, <2>1 DEF IsPrefixOf
  <2>3. q[1] = name[1] /\ 1 \in DOMAIN q
    <3>1. name \in Seq(Segment)
      BY DEF Path
    <3>2. SubSeq(name, 1, Len(q))[1] = name[1]
      BY <2>2, <3>1
    <3>3. DOMAIN q = 1 .. Len(q)
      BY <2>1
    <3> QED BY <2>2, <3>2, <3>3
  <2> QED BY <2>1, <2>3 DEF Elements
<1> QED BY <1>1 DEF LookUp

LEMMA BelowRootless ==
    ASSUME NEW trie, IsRootless(trie), NEW name \in Path, ScopeAt(trie, name) # {}
    PROVE  IsRootless(Only(ScopeAt(trie, name)))
<1>. DEFINE below == {q \in DOMAIN trie : IsPrefixOf(name, q)}
            node == [p \in {After(name, q) : q \in below} |-> trie[name \o p]]
<1>1. ScopeAt(trie, name) = {node}
  BY DEF ScopeAt
<1>2. DOMAIN node = {After(name, q) : q \in below}
  OBVIOUS
<1>. HIDE DEF node
<1>3. \A q \in below : After(name, q) \in Path /\ "_root_" \notin Elements(After(name, q))
  <2>. SUFFICES ASSUME NEW q \in below
                PROVE  After(name, q) \in Path /\ "_root_" \notin Elements(After(name, q))
    OBVIOUS
  <2>1. q \in Path /\ "_root_" \notin Elements(q)
    BY DEF IsRootless
  <2>2. After(name, q) \in Path
    BY <2>1, AfterJoins
  <2>3. \A i \in DOMAIN After(name, q) : After(name, q)[i] \in Elements(q)
    <3>1. q \in Seq(Segment) /\ name \in Seq(Segment) /\ Len(name) <= Len(q)
      BY <2>1 DEF Path, IsPrefixOf
    <3>2. PICK n \in Nat : n = Len(name)
      BY <3>1
    <3>3. PICK m \in Nat : m = Len(q) /\ n <= m /\ DOMAIN q = 1 .. m
      BY <3>1, <3>2
    <3>4. After(name, q) = SubSeq(q, n + 1, m)
      BY <3>2, <3>3 DEF After
    <3>5. Len(SubSeq(q, n + 1, m)) = m - n /\ \A i \in 1 .. m - n : SubSeq(q, n + 1, m)[i] = q[n + i]
      BY <3>1, <3>3
    <3>6. DOMAIN SubSeq(q, n + 1, m) = 1 .. m - n
      BY <3>1, <3>3, <3>5
    <3>7. \A i \in 1 .. m - n : n + i \in 1 .. m
      BY <3>3
    <3> QED BY <3>3, <3>4, <3>5, <3>6, <3>7 DEF Elements
  <2> QED BY <2>1, <2>2, <2>3 DEF Elements
<1>4. IsRootless(node)
  BY <1>2, <1>3 DEF IsRootless
<1> QED BY <1>1, <1>4, OnlyIs

LEMMA KnownFromRoot ==
    ASSUME NEW trie \in ExactTrie, NEW name \in Path, NEW s \in ScalaLookUp(trie, name)
    PROVE  ScalaLookUp(trie, TrimRoot(name)) = {s}
<1>1. \A x \in ScalaLookUp(trie, name) : x = s
  <2>1. trie \in Tries(KnownSymbol)
    BY DEF ExactTrie, KnownTrie
  <2>. HIDE DEF KnownSymbol
  <2> QED BY <2>1, ScalaLookUpOne
<1>2. CASE TrimRoot(name) = name
  BY <1>1, <1>2
<1>3. CASE TrimRoot(name) # name
  <2>. DEFINE rest == TrimRoot(name)
              Kept(found) == {x \in found : x.name \notin Builtin}
              answers == <<LookUp(trie, name),
                           LookUp(Only(ScopeAt(trie, <<"scala">>)), name),
                           LookUp(Only(ScopeAt(trie, <<"java", "lang">>)), name),
                           LookUp(trie, rest)>>
              kept == [i \in DOMAIN answers |-> Kept(answers[i])]
              direct1 == <<LookUp(trie, rest),
                           LookUp(Only(ScopeAt(trie, <<"scala">>)), rest),
                           LookUp(Only(ScopeAt(trie, <<"java", "lang">>)), rest),
                           LookUp(trie, TrimRoot(rest))>>
              kept1 == [i \in DOMAIN direct1 |-> Kept(direct1[i])]
  <2>1. name[1] = "_root_" /\ IsRootless(trie)
    BY <1>3, ExactIsRootless DEF TrimRoot
  <2>2. LookUp(trie, name) = {}
    BY <2>1, RootHidden
  <2>3. HasBuiltins(trie)
    BY <2>2 DEF ScalaLookUp
  <2>4. /\ LookUp(Only(ScopeAt(trie, <<"scala">>)), name) = {}
        /\ LookUp(Only(ScopeAt(trie, <<"java", "lang">>)), name) = {}
    <3>1. \A b \in Builtin : b \in Path /\ ScopeAt(trie, b) # {}
      BY <2>3, BuiltinPaths DEF HasBuiltins
    <3>2. \A b \in Builtin : LookUp(Only(ScopeAt(trie, b)), name) = {}
      BY <2>1, <3>1, BelowRootless, RootHidden
    <3> QED BY <3>2 DEF Builtin
  <2>5. ScalaLookUp(trie, name) = FirstAnswer(kept) /\ ScalaLookUp(trie, rest) = FirstAnswer(kept1)
    BY <2>3 DEF ScalaLookUp
  <2>6. /\ DOMAIN answers = 1 .. 4 /\ answers[1] = {} /\ answers[2] = {} /\ answers[3] = {} /\ answers[4] = LookUp(trie, rest)
        /\ DOMAIN direct1 = 1 .. 4 /\ direct1[1] = LookUp(trie, rest)
    BY <2>2, <2>4
  <2>. HIDE DEF answers, direct1, rest
  <2>7. /\ DOMAIN kept = 1 .. 4 /\ kept[1] = {} /\ kept[2] = {} /\ kept[3] = {} /\ kept[4] = Kept(LookUp(trie, rest))
        /\ DOMAIN kept1 = 1 .. 4 /\ kept1[1] = Kept(LookUp(trie, rest))
    BY <2>6
  <2>. HIDE DEF kept, kept1, Kept
  <2>8. \E i \in DOMAIN kept : FirstAnswer(kept) = kept[i]
    BY <2>5, <2>7, FirstAnswers
  <2>9. FirstAnswer(kept) = kept[4]
    BY <2>5, <2>7, <2>8
  <2>10. AnswersAt(kept1, 4, 1)
    BY <2>5, <2>7, <2>9 DEF AnswersAt
  <2>11. 4 \in Nat /\ 1 \in 1 .. 4
    OBVIOUS
  <2>12. FirstAnswer(kept1) = kept1[1]
    BY <2>10, <2>11, AnswerDecides
  <2>13. ScalaLookUp(trie, rest) = ScalaLookUp(trie, name)
    BY <2>5, <2>7, <2>9, <2>12
  <2> QED BY <1>1, <2>13 DEF rest
<1> QED BY <1>2, <1>3

\* The chain answers with the one symbol of the trimmed name, unless a directive
\* overrides it, and with no conflicts where that has none.
LEMMA ChainAnswers ==
    ASSUME NEW key, NEW s, GetSymbol(Trimmed(key)) = {s}, s.conflicts = <<>>
    PROVE  /\ ResolveSymbol(key) # {} /\ \A x \in ResolveSymbol(key) : x.conflicts = <<>>
           /\ ~Overridden(key) => ResolveSymbol(key) = {s}
<1>. DEFINE name == Trimmed(key)
            answers == <<OverrideSymbol(name), GetSymbol(name), LookUp(packages, name)>>
<1>6. ResolveSymbol(key) = FirstAnswer(answers)
  BY DEF ResolveSymbol
<1>7. DOMAIN answers = 1 .. 3 /\ answers[1] = OverrideSymbol(name) /\ answers[2] = {s}
  OBVIOUS
<1>. HIDE DEF answers
<1>8. CASE Overridden(key)
  <2>. DEFINE r == [name |-> name, label |-> Override[name], type |-> "OVERRIDE", conflicts |-> <<>>]
  <2>1. OverrideSymbol(name) = {r} /\ r.conflicts = <<>>
    BY <1>8 DEF Overridden, OverrideSymbol
  <2>. HIDE DEF r
  <2>2. 3 \in Nat /\ 1 \in 1 .. 3 /\ AnswersAt(answers, 3, 1)
    BY <1>7, <2>1 DEF AnswersAt
  <2>3. FirstAnswer(answers) = answers[1]
    BY <1>7, <2>2, AnswerDecides
  <2> QED BY <1>6, <1>7, <1>8, <2>1, <2>3
<1>9. CASE ~Overridden(key)
  <2>1. OverrideSymbol(name) = {}
    BY <1>9 DEF Overridden, OverrideSymbol
  <2>2. 3 \in Nat /\ 2 \in 1 .. 3 /\ AnswersAt(answers, 3, 2)
    BY <1>7, <2>1 DEF AnswersAt
  <2>3. FirstAnswer(answers) = answers[2]
    BY <1>7, <2>2, AnswerDecides
  <2> QED BY <1>6, <1>7, <1>9, <2>3
<1> QED BY <1>8, <1>9

\* So it is for the own name of a symbol that a name leads to, and for an import.
LEMMA ChainByOwnName ==
    ASSUME TablesOK, globalScope \in ExactTrie, NEW name \in Path, NEW s \in GetSymbol(name), s.conflicts = <<>>
    PROVE  /\ s.name \in Imp /\ GetSymbol(s.name) = {s}
           /\ ResolveSymbol(s.name) # {} /\ \A x \in ResolveSymbol(s.name) : x.conflicts = <<>>
           /\ ~Overridden(s.name) => ResolveSymbol(s.name) = {s}
<1>1. PICK trie \in ExactTrie : trie = globalScope
  OBVIOUS
<1>2. s \in ScalaLookUp(trie, name)
  BY <1>1 DEF GetSymbol
<1>3. s.name \in Imp /\ IsSymbolName(s.name) /\ ScalaLookUp(trie, s.name) = {s}
  BY <1>2, OwnNameIsKnown, KnownByOwnName DEF ExactTrie
<1>4. Trimmed(s.name) = s.name
  <2>1. s.name \in Seq(Segment) /\ s.name # <<>>
    BY <1>3, RuleImportsAssumption
  <2>2. s.name[1] # "_root_"
    <3>1. 1 \in DOMAIN s.name
      BY <2>1
    <3> QED BY <1>3, <3>1 DEF IsSymbolName, Elements
  <2>3. TrimRoot(s.name) = s.name
    BY <2>2 DEF TrimRoot
  <2>4. ~IsWildcard(s.name)
    BY <1>3 DEF IsWildcard, IsSymbolName, Last
  <2> QED BY <2>3, <2>4 DEF Trimmed
<1>5. GetSymbol(s.name) = {s}
  BY <1>1, <1>3 DEF GetSymbol
<1> QED BY <1>3, <1>4, <1>5, ChainAnswers

LEMMA ChainByImport ==
    ASSUME TablesOK, globalScope \in ExactTrie, NEW name \in Imp, ~IsWildcard(name), NEW s \in GetSymbol(name), s.conflicts = <<>>
    PROVE  /\ ResolveSymbol(name) # {} /\ \A x \in ResolveSymbol(name) : x.conflicts = <<>>
           /\ ~Overridden(name) => ResolveSymbol(name) = {s}
<1>1. PICK trie \in ExactTrie : trie = globalScope
  OBVIOUS
<1>2. s \in ScalaLookUp(trie, name) /\ name \in Path
  BY <1>1, ImpPaths DEF GetSymbol
<1>3. ScalaLookUp(trie, TrimRoot(name)) = {s}
  BY <1>2, KnownFromRoot
<1>4. Trimmed(name) = TrimRoot(name)
  <2>1. name \in Seq(Segment) /\ name # <<>>
    BY RuleImportsAssumption
  <2>2. CASE TrimRoot(name) = name
    BY <2>2 DEF Trimmed
  <2>3. CASE TrimRoot(name) # name
    <3>1. TrimRoot(name) = Tail(name) /\ Len(name) > 1
      BY <2>3 DEF TrimRoot
    <3>2. Len(Tail(name)) > 1 => Tail(name)[Len(Tail(name))] = name[Len(name)]
      BY <2>1, <3>1
    <3>3. ~IsWildcard(Tail(name))
      BY <3>1, <3>2 DEF IsWildcard
    <3> QED BY <3>1, <3>3 DEF Trimmed
  <2> QED BY <2>2, <2>3
<1>5. GetSymbol(Trimmed(name)) = {s}
  BY <1>1, <1>3, <1>4 DEF GetSymbol
<1> QED BY <1>5, ChainAnswers
-----------------------------------------------------------------------------
(***************************************************************************)
(* What the files bring into the map stays in it: the names of their import *)
(* lines, and of the symbols behind extends clauses that no scope hides.   *)
(***************************************************************************)
LEMMA NotSelfAdds ==
    ASSUME NEW map \in FileMap, NEW e \in FileEntry
    PROVE  /\ Names(map) \subseteq Names(PutIfNotSelf(map, e))
           /\ (\A s \in e.sym : s.label # rule.label) => e.imp \in Names(PutIfNotSelf(map, e))
<1> QED BY PutAddsName DEF PutIfNotSelf

LEMMA KnownAdds ==
    ASSUME NEW map \in FileMap, NEW found \in SUBSET FileSymbol
    PROVE  /\ Names(map) \subseteq Names(PutIfKnown(map, found))
           /\ \A s : found = {s} /\ s.label # rule.label => s.name \in Names(PutIfKnown(map, found))
<1>1. CASE found = {}
  BY <1>1 DEF PutIfKnown
<1>2. CASE found # {}
  <2>. DEFINE e == Import(Only(found).name, found)
  <2>1. e \in FileEntry /\ e.imp = Only(found).name /\ e.sym = found
    <3>1. Only(found).name \in Imp
      BY <1>2, OnlyOf, FileSymbolName
    <3> QED BY <3>1, ImportIs DEF Import
  <2>2. PutIfKnown(map, found) = PutIfNotSelf(map, e)
    BY <1>2 DEF PutIfKnown
  <2>3. \A s : found = {s} => Only(found) = s
    BY OnlyOf
  <2>. HIDE DEF e
  <2>4. /\ Names(map) \subseteq Names(PutIfNotSelf(map, e))
        /\ (\A s \in e.sym : s.label # rule.label) => e.imp \in Names(PutIfNotSelf(map, e))
    BY <2>1, NotSelfAdds
  <2> QED BY <2>1, <2>2, <2>3, <2>4
<1> QED BY <1>1, <1>2

NamesOf == [map \in FileMap |-> Names(map)]

LEMMA MapsGrow ==
    /\ Growing(NamesOf, NotSelfFcn, FileMap, FileEntry)
    /\ Growing(NamesOf, KnownFcn, FileMap, SUBSET FileSymbol)
<1>1. \A map \in FileMap : \A e \in FileEntry :
        PutIfNotSelf(map, e) \in FileMap /\ Names(map) \subseteq Names(PutIfNotSelf(map, e))
  BY NotSelfAdds, PutIs
<1>2. \A map \in FileMap : \A found \in SUBSET FileSymbol :
        PutIfKnown(map, found) \in FileMap /\ Names(map) \subseteq Names(PutIfKnown(map, found))
  BY KnownAdds, PutIfKnownIs
<1>. HIDE DEF FileMap, FileEntry, FileSymbol
<1> QED BY <1>1, <1>2 DEF Growing, NamesOf, NotSelfFcn, KnownFcn

LEMMA PutAllGrows ==
    ASSUME NEW map \in FileMap, NEW new \in Seq(FileEntry)
    PROVE  Names(map) \subseteq Names(PutAllIfNotSelf(map, new))
<1>. HIDE DEF FileMap, FileEntry
<1>1. Folded(NotSelfFcn, map, new) \in FileMap
  BY ImportStepsType, FoldedType
<1>2. NamesOf[map] \subseteq NamesOf[Folded(NotSelfFcn, map, new)]
  BY ImportStepsType, MapsGrow, FoldGrows
<1> QED BY <1>1, <1>2, NotSelfIsFold DEF PutAllIfNotSelf, NamesOf

LEMMA PutKnownsAdd ==
    ASSUME NEW map \in FileMap, NEW founds \in Seq(SUBSET FileSymbol)
    PROVE  /\ Names(map) \subseteq Names(FoldLeft(PutIfKnown, map, founds))
           /\ \A i \in 1 .. Len(founds) : \A s : founds[i] = {s} /\ s.label # rule.label =>
                 s.name \in Names(FoldLeft(PutIfKnown, map, founds))
<1>1. \A v \in FileMap : \A found \in SUBSET FileSymbol : \A s :
          found = {s} /\ s.label # rule.label => s.name \in Names(PutIfKnown(v, found)) /\ PutIfKnown(v, found) \in FileMap
  BY KnownAdds, PutIfKnownIs
<1>. HIDE DEF FileMap, FileSymbol
<1>2. Folded(KnownFcn, map, founds) \in FileMap
  BY ImportStepsType, FoldedType
<1>3. NamesOf[map] \subseteq NamesOf[Folded(KnownFcn, map, founds)]
  BY ImportStepsType, MapsGrow, FoldGrows
<1>4. ASSUME NEW i \in 1 .. Len(founds), NEW s, founds[i] = {s}, s.label # rule.label
      PROVE  s.name \in NamesOf[Folded(KnownFcn, map, founds)]
  <2>1. founds[i] \in SUBSET FileSymbol
    OBVIOUS
  <2>2. \A v \in FileMap : s.name \in NamesOf[KnownFcn[v][founds[i]]]
    BY <1>1, <1>4, <2>1 DEF NamesOf, KnownFcn
  <2>3. PICK n : n = s.name
    OBVIOUS
  <2>4. \A v \in FileMap : n \in NamesOf[KnownFcn[v][founds[i]]]
    BY <2>2, <2>3
  <2>5. n \in NamesOf[Folded(KnownFcn, map, founds)]
    BY <2>4, ImportStepsType, MapsGrow, FoldAdds
  <2> QED BY <2>3, <2>5
<1> QED BY <1>2, <1>3, <1>4, KnownIsFold DEF NamesOf

\* What a line imports, if the rule does not provide it itself, and the scopes it opens.
LineImport(name) ==
    IF IsWildcard(name) THEN FoundAs(name, GetSymbol(name)) ELSE Import(name, GetSymbol(name))
LineNames(name) == {n \in {LineImport(name).imp} : \A s \in GetSymbol(name) : s.label # rule.label}
LineScopes(name) == IF IsWildcard(name) THEN ScalaScopeAt(globalScope, Front(name)) ELSE {}

LEMMA LineImportIs ==
    ASSUME TablesOK, NEW name \in Imp
    PROVE  LineImport(name) \in FileEntry /\ LineImport(name).sym = GetSymbol(name)
<1>1. GetSymbol(name) \in SUBSET FileSymbol
  BY GetSymbolFiles, ImpPaths
<1> QED BY <1>1, ImportIs, FoundAsIs DEF LineImport, FoundAs, Import

LEMMA OpensScopes ==
    ASSUME NEW T, NEW scopes \in Seq(T), NEW new, IsFiniteSet(new), SetToSeq(new) \in Seq(T)
    PROVE  Elements(scopes \o SetToSeq(new)) \subseteq Elements(scopes) \cup new
<1>1. SetToSeq(new) \in Seq(new)
  BY SetToSeqType
<1>2. Elements(SetToSeq(new)) \subseteq new
  <2>. HIDE DEF SetToSeq
  <2>1. \A i \in DOMAIN SetToSeq(new) : SetToSeq(new)[i] \in new
    BY <1>1
  <2> QED BY <2>1 DEF Elements
<1>3. Elements(scopes \o SetToSeq(new)) = Elements(scopes) \cup Elements(SetToSeq(new))
  BY ElementsConcat
<1> QED BY <1>2, <1>3

LEMMA ScopesFinite ==
    ASSUME TablesOK, NEW name \in Path
    PROVE  IsFiniteSet(ScalaScopeAt(globalScope, name)) /\ SetToSeq(ScalaScopeAt(globalScope, name)) \in Seq(KnownTrie)
<1> QED BY ScalaScopeAtIs DEF TablesOK, KnownTrie

LEMMA WildcardAdds ==
    ASSUME TablesOK, NEW file, NEW g \in Gathering, NEW name \in Imp, IsWildcard(name)
    PROVE  /\ Names(g.map) \cup LineNames(name) \subseteq Names(WildcardImport(file, g, name).map)
           /\ Elements(WildcardImport(file, g, name).scopes) \subseteq Elements(g.scopes) \cup LineScopes(name)
<1>. DEFINE prefix == Front(name)
            fixed == IF ShouldFixWildcardImport(file, name) THEN FixedTo[name] ELSE <<>>
            named == [i \in DOMAIN fixed |-> GetSymbol(Append(prefix, fixed[i]))]
            known == FoldLeft(PutIfKnown, g.map, named)
            map == PutIfNotSelf(known, FoundAs(name, GetSymbol(name)))
            scopes == g.scopes \o SetToSeq(ScalaScopeAt(globalScope, prefix))
<1>1. prefix \in Path /\ \A segment \in Segment : Append(prefix, segment) \in Path
  BY Qualified
<1>2. fixed \in Seq(Segment)
  BY RuleImportsAssumption
<1>4. WildcardImport(file, g, name) = [g EXCEPT !.map = map, !.scopes = scopes]
  BY DEF WildcardImport
<1>. HIDE DEF prefix, fixed
<1>5. named \in Seq(SUBSET FileSymbol)
  <2>1. Len(fixed) \in Nat /\ DOMAIN fixed = 1 .. Len(fixed) /\ \A i \in DOMAIN fixed : fixed[i] \in Segment
    BY <1>2
  <2>2. \A i \in 1 .. Len(fixed) : GetSymbol(Append(prefix, fixed[i])) \in SUBSET FileSymbol
    BY <1>1, <2>1, GetSymbolFiles
  <2>3. named \in [1 .. Len(fixed) -> SUBSET FileSymbol]
    BY <2>1, <2>2
  <2> QED BY <2>1, <2>3
<1>6. g.map \in FileMap /\ g.scopes \in Seq(KnownTrie)
  BY GatheringIs
<1>. HIDE DEF named
<1>7. known \in FileMap /\ Names(g.map) \subseteq Names(known)
  BY <1>5, <1>6, PutKnownsIs, PutKnownsAdd
<1>. HIDE DEF known
<1>8. LineImport(name) = FoundAs(name, GetSymbol(name)) /\ LineImport(name) \in FileEntry /\ LineImport(name).sym = GetSymbol(name)
  BY LineImportIs DEF LineImport
<1>9. Names(known) \cup LineNames(name) \subseteq Names(map)
  BY <1>7, <1>8, NotSelfAdds DEF LineNames
<1>10. Elements(scopes) \subseteq Elements(g.scopes) \cup LineScopes(name)
  <2>1. IsFiniteSet(ScalaScopeAt(globalScope, prefix)) /\ SetToSeq(ScalaScopeAt(globalScope, prefix)) \in Seq(KnownTrie)
    BY <1>1, ScopesFinite
  <2>2. LineScopes(name) = ScalaScopeAt(globalScope, prefix)
    BY DEF LineScopes, prefix
  <2> QED BY <1>6, <2>1, <2>2, OpensScopes
<1>. HIDE DEF map, scopes
<1>11. WildcardImport(file, g, name).map = map /\ WildcardImport(file, g, name).scopes = scopes
  <2>. HIDE DEF FileMap, KnownTrie, FileTrie
  <2> QED BY <1>4 DEF Gathering
<1> QED BY <1>7, <1>9, <1>10, <1>11

LEMMA DirectAdds ==
    ASSUME TablesOK, NEW g \in Gathering, NEW name \in Imp, ~IsWildcard(name)
    PROVE  /\ Names(g.map) \cup LineNames(name) \subseteq Names(DirectImport(g, name).map)
           /\ DirectImport(g, name).scopes = g.scopes
<1>. DEFINE found == GetSymbol(name)
            map == PutIfNotSelf(g.map, Import(name, found))
            trie == IF found = {} THEN g.direct ELSE PutAs(g.direct, <<Last(name)>>, Only(found))
<1>1. DirectImport(g, name) = [g EXCEPT !.map = map, !.direct = trie]
  BY DEF DirectImport
<1>2. g.map \in FileMap
  BY GatheringIs
<1>3. LineImport(name) = Import(name, found) /\ LineImport(name) \in FileEntry /\ LineImport(name).sym = found
  BY LineImportIs DEF LineImport
<1>4. Names(g.map) \cup LineNames(name) \subseteq Names(map)
  BY <1>2, <1>3, NotSelfAdds DEF LineNames
<1>. HIDE DEF map, trie
<1>5. DirectImport(g, name).map = map /\ DirectImport(g, name).scopes = g.scopes
  <2>. HIDE DEF FileMap, KnownTrie, FileTrie
  <2> QED BY <1>1 DEF Gathering
<1> QED BY <1>4, <1>5

GatherNames == [g \in Gathering |-> Names(g.map)]
GatherScopes == [g \in Gathering |-> Elements(g.scopes)]
LineBrings == [name \in Imp |-> LineScopes(name)]
PackageBrings == [name \in Imp |-> ScalaScopeAt(globalScope, name)]

LEMMA LineAdds ==
    ASSUME TablesOK, NEW file, NEW g \in Gathering, NEW name \in Imp
    PROVE  /\ Names(g.map) \cup LineNames(name) \subseteq Names(ImportLine(file, g, name).map)
           /\ Elements(ImportLine(file, g, name).scopes) \subseteq Elements(g.scopes) \cup LineScopes(name)
<1>1. CASE IsWildcard(name)
  BY <1>1, WildcardAdds DEF ImportLine
<1>2. CASE ~IsWildcard(name)
  BY <1>2, DirectAdds DEF ImportLine
<1> QED BY <1>1, <1>2

LEMMA PackageAdds ==
    ASSUME TablesOK, NEW g \in Gathering, NEW name \in Imp
    PROVE  /\ PackageScope(g, name).map = g.map
           /\ Elements(PackageScope(g, name).scopes) \subseteq Elements(g.scopes) \cup ScalaScopeAt(globalScope, name)
<1>. DEFINE scopes == g.scopes \o SetToSeq(ScalaScopeAt(globalScope, name))
<1>1. PackageScope(g, name) = [g EXCEPT !.scopes = scopes]
  BY DEF PackageScope
<1>2. Elements(scopes) \subseteq Elements(g.scopes) \cup ScalaScopeAt(globalScope, name)
  BY ImpPaths, GatheringIs, ScopesFinite, OpensScopes
<1>. HIDE DEF scopes
<1>3. PackageScope(g, name).map = g.map /\ PackageScope(g, name).scopes = scopes
  <2>. HIDE DEF FileMap, KnownTrie, FileTrie
  <2> QED BY <1>1 DEF Gathering
<1> QED BY <1>2, <1>3

LEMMA LinesBring ==
    ASSUME TablesOK, NEW file
    PROVE  /\ Growing(GatherNames, LineFcn(file), Gathering, Imp)
           /\ Bringing(GatherScopes, LineBrings, LineFcn(file), Gathering, Imp)
           /\ \A name \in Imp : \A n \in LineNames(name) : \A g \in Gathering : n \in GatherNames[LineFcn(file)[g][name]]
<1>1. \A g \in Gathering : \A name \in Imp : ImportLine(file, g, name) \in Gathering
  BY WildcardImportIs, DirectImportIs DEF ImportLine
<1>2. \A g \in Gathering : \A name \in Imp :
          /\ Names(g.map) \cup LineNames(name) \subseteq Names(ImportLine(file, g, name).map)
          /\ Elements(ImportLine(file, g, name).scopes) \subseteq Elements(g.scopes) \cup LineScopes(name)
  BY LineAdds
<1>. HIDE DEF Gathering, Names, LineNames, LineScopes
<1>3. Growing(GatherNames, LineFcn(file), Gathering, Imp)
  BY <1>1, <1>2 DEF Growing, GatherNames, LineFcn
<1>4. Bringing(GatherScopes, LineBrings, LineFcn(file), Gathering, Imp)
  BY <1>1, <1>2 DEF Bringing, GatherScopes, LineBrings, LineFcn
<1>5. \A name \in Imp : \A n \in LineNames(name) : \A g \in Gathering : n \in GatherNames[LineFcn(file)[g][name]]
  BY <1>1, <1>2 DEF GatherNames, LineFcn
<1> QED BY <1>3, <1>4, <1>5

LEMMA PackagesBring ==
    ASSUME TablesOK
    PROVE  /\ Growing(GatherNames, ScopeFcn, Gathering, Imp)
           /\ Bringing(GatherScopes, PackageBrings, ScopeFcn, Gathering, Imp)
<1>1. \A g \in Gathering : \A name \in Imp : PackageScope(g, name) \in Gathering
  BY GatheringIs, MoreScopes, SetScopes, ImpPaths DEF PackageScope
<1>2. \A g \in Gathering : \A name \in Imp :
          /\ PackageScope(g, name).map = g.map
          /\ Elements(PackageScope(g, name).scopes) \subseteq Elements(g.scopes) \cup ScalaScopeAt(globalScope, name)
  BY PackageAdds
<1>. HIDE DEF Gathering, Names
<1>3. Growing(GatherNames, ScopeFcn, Gathering, Imp)
  BY <1>1, <1>2 DEF Growing, GatherNames, ScopeFcn
<1>4. Bringing(GatherScopes, PackageBrings, ScopeFcn, Gathering, Imp)
  BY <1>1, <1>2 DEF Bringing, GatherScopes, PackageBrings, ScopeFcn
<1> QED BY <1>3, <1>4

\* The scopes a file opens, and what is gathered before its extends clauses.
OpenedByLines(file) == UNION {LineScopes(file.imports[i]) : i \in 1 .. Len(file.imports)}
OpenedByPackages(file) == UNION {ScalaScopeAt(globalScope, file.packages[i]) : i \in 1 .. Len(file.packages)}
Opened(file) == OpenedByLines(file) \cup OpenedByPackages(file)

GatheredLines(map, file) ==
    FoldLeft(LAMBDA gathered, name : ImportLine(file, gathered, name),
             [map |-> map, scopes |-> <<>>, direct |-> EmptyScope], file.imports)
GatheredAll(map, file) == FoldLeft(PackageScope, GatheredLines(map, file), file.packages)

LEMMA GathersLines ==
    ASSUME TablesOK, NEW map \in FileMap, NEW file \in SourceFile
    PROVE  /\ GatheredLines(map, file) \in Gathering
           /\ Names(map) \subseteq Names(GatheredLines(map, file).map)
           /\ \A i \in 1 .. Len(file.imports) : LineNames(file.imports[i]) \subseteq Names(GatheredLines(map, file).map)
           /\ Elements(GatheredLines(map, file).scopes) \subseteq OpenedByLines(file)
<1>. DEFINE empty == [map |-> map, scopes |-> <<>>, direct |-> EmptyScope]
            lines == Folded(LineFcn(file), empty, file.imports)
<1>1. file.imports \in Seq(Imp)
  BY FileIs
<1>2. empty \in Gathering
  <2>1. EmptyScope \in FileTrie
    BY EmptyIsTrie DEF FileTrie
  <2>2. <<>> \in Seq(KnownTrie)
    OBVIOUS
  <2>. HIDE DEF FileMap, FileTrie, KnownTrie
  <2> QED BY <2>1, <2>2 DEF Gathering
<1>3. GatherNames[empty] = Names(map) /\ GatherScopes[empty] = {}
  <2>1. empty.map = map /\ empty.scopes = <<>> /\ Elements(<<>>) = {}
    BY DEF Elements
  <2>. HIDE DEF empty
  <2> QED BY <1>2, <2>1 DEF GatherNames, GatherScopes
<1>4. GatheredLines(map, file) = lines
  BY <1>1, <1>2, LinesAreFold DEF GatheredLines
<1>. HIDE DEF empty, Gathering
<1>5. lines \in Gathering
  BY <1>1, <1>2, LineStepsType, FoldedType
<1>6. GatherNames[empty] \subseteq GatherNames[lines]
  BY <1>1, <1>2, LineStepsType, LinesBring, FoldGrows
<1>7. GatherScopes[lines] \subseteq GatherScopes[empty] \cup UNION {LineBrings[file.imports[i]] : i \in 1 .. Len(file.imports)}
  BY <1>1, <1>2, LineStepsType, LinesBring, FoldBrings
<1>8. ASSUME NEW i \in 1 .. Len(file.imports), NEW n \in LineNames(file.imports[i])
      PROVE  n \in GatherNames[lines]
  <2>1. file.imports[i] \in Imp
    BY <1>1
  <2>2. \A g \in Gathering : n \in GatherNames[LineFcn(file)[g][file.imports[i]]]
    BY <1>8, <2>1, LinesBring
  <2> QED BY <1>1, <1>2, <2>2, LineStepsType, LinesBring, FoldAdds
<1>9. \A i \in 1 .. Len(file.imports) : LineBrings[file.imports[i]] = LineScopes(file.imports[i])
  BY <1>1 DEF LineBrings
<1>. HIDE DEF lines, LineNames, Names, LineScopes, Elements
<1>10. Names(map) \subseteq Names(lines.map) /\ \A i \in 1 .. Len(file.imports) : LineNames(file.imports[i]) \subseteq Names(lines.map)
  BY <1>3, <1>5, <1>6, <1>8 DEF GatherNames
<1>11. Elements(lines.scopes) \subseteq OpenedByLines(file)
  <2>1. {LineBrings[file.imports[i]] : i \in 1 .. Len(file.imports)} = {LineScopes(file.imports[i]) : i \in 1 .. Len(file.imports)}
    BY <1>9
  <2>2. GatherScopes[lines] = Elements(lines.scopes)
    BY <1>5 DEF GatherScopes
  <2> QED BY <1>3, <1>7, <2>1, <2>2 DEF OpenedByLines
<1> QED BY <1>4, <1>5, <1>10, <1>11

LEMMA GathersAll ==
    ASSUME TablesOK, NEW map \in FileMap, NEW file \in SourceFile
    PROVE  /\ GatheredAll(map, file) \in Gathering
           /\ Names(map) \subseteq Names(GatheredAll(map, file).map)
           /\ \A i \in 1 .. Len(file.imports) : LineNames(file.imports[i]) \subseteq Names(GatheredAll(map, file).map)
           /\ Elements(GatheredAll(map, file).scopes) \subseteq Opened(file)
<1>. DEFINE lines == GatheredLines(map, file)
            all == Folded(ScopeFcn, lines, file.packages)
<1>1. file.packages \in Seq(Imp)
  BY FileIs
<1>2. /\ lines \in Gathering
      /\ Names(map) \subseteq Names(lines.map)
      /\ \A i \in 1 .. Len(file.imports) : LineNames(file.imports[i]) \subseteq Names(lines.map)
      /\ Elements(lines.scopes) \subseteq OpenedByLines(file)
  BY GathersLines
<1>3. GatheredAll(map, file) = all
  BY <1>1, <1>2, ScopesAreFold DEF GatheredAll
<1>. HIDE DEF lines, Gathering
<1>4. all \in Gathering
  BY <1>1, <1>2, LineStepsType, FoldedType
<1>5. GatherNames[lines] \subseteq GatherNames[all]
  BY <1>1, <1>2, LineStepsType, PackagesBring, FoldGrows
<1>6. GatherScopes[all] \subseteq GatherScopes[lines] \cup UNION {PackageBrings[file.packages[i]] : i \in 1 .. Len(file.packages)}
  <2>1. IsStep(ScopeFcn, Gathering, Imp) /\ Bringing(GatherScopes, PackageBrings, ScopeFcn, Gathering, Imp)
    BY LineStepsType, PackagesBring
  <2> QED BY <1>1, <1>2, <2>1, FoldBrings
<1>7. \A i \in 1 .. Len(file.packages) : PackageBrings[file.packages[i]] = ScalaScopeAt(globalScope, file.packages[i])
  BY <1>1 DEF PackageBrings
<1>. HIDE DEF all, LineNames, Names, LineScopes, Elements
<1>8. Names(lines.map) \subseteq Names(all.map)
  BY <1>2, <1>4, <1>5 DEF GatherNames
<1>9. Elements(all.scopes) \subseteq Elements(lines.scopes) \cup OpenedByPackages(file)
  <2>1. {PackageBrings[file.packages[i]] : i \in 1 .. Len(file.packages)} = {ScalaScopeAt(globalScope, file.packages[i]) : i \in 1 .. Len(file.packages)}
    BY <1>7
  <2>2. GatherScopes[all] = Elements(all.scopes) /\ GatherScopes[lines] = Elements(lines.scopes)
    BY <1>2, <1>4 DEF GatherScopes
  <2> QED BY <1>6, <2>1, <2>2 DEF OpenedByPackages
<1>10. Elements(all.scopes) \subseteq Opened(file)
  BY <1>2, <1>9 DEF Opened
<1> QED BY <1>2, <1>3, <1>4, <1>8, <1>10

\* The scopes of a file that hide nothing leave a name to the global scope.
LEMMA OpenedHidesNot ==
    ASSUME NEW file \in SourceFile, NEW name, Unhidden(file, name), NEW t \in Opened(file)
    PROVE  LookUp(t, name) = {}
<1>1. file.imports \in Seq(Imp) /\ file.packages \in Seq(Imp)
  BY FileIs
<1>2. CASE \E i \in 1 .. Len(file.imports) : t \in LineScopes(file.imports[i])
  <2>1. PICK i \in 1 .. Len(file.imports) : t \in LineScopes(file.imports[i])
    BY <1>2
  <2>2. file.imports[i] \in Elements(file.imports)
    BY <1>1 DEF Elements
  <2> QED BY <2>1, <2>2 DEF LineScopes, Unhidden
<1>3. CASE \E i \in 1 .. Len(file.packages) : t \in ScalaScopeAt(globalScope, file.packages[i])
  <2>1. PICK i \in 1 .. Len(file.packages) : t \in ScalaScopeAt(globalScope, file.packages[i])
    BY <1>3
  <2>2. i \in DOMAIN file.packages
    BY <1>1
  <2> QED BY <2>1, <2>2 DEF Unhidden
<1>4. t \in OpenedByLines(file) => \E i \in 1 .. Len(file.imports) : t \in LineScopes(file.imports[i])
  <2>. HIDE DEF LineScopes
  <2> QED BY Zenon DEF OpenedByLines
<1>5. t \in OpenedByPackages(file) => \E i \in 1 .. Len(file.packages) : t \in ScalaScopeAt(globalScope, file.packages[i])
  BY Zenon DEF OpenedByPackages
<1> QED BY <1>2, <1>3, <1>4, <1>5 DEF Opened

LEMMA FileLooksOut ==
    ASSUME TablesOK, NEW g \in Gathering, NEW name \in Imp, GetSymbol(name) # {},
           \A t \in Elements(g.scopes) : LookUp(t, name) = {}
    PROVE  FileLookUp(g, name) = GetSymbol(name)
<1>. DEFINE n == Len(g.scopes)
            inner == [i \in DOMAIN g.scopes |-> LookUp(g.scopes[i], name)]
            outer == <<GetSymbol(name), LookUp(g.direct, name)>>
            answers == inner \o outer
<1>1. n \in Nat /\ DOMAIN g.scopes = 1 .. n
  <2>1. g.scopes \in Seq(KnownTrie)
    BY GatheringIs
  <2>. HIDE DEF KnownTrie
  <2> QED BY <2>1
<1>2. \A i \in 1 .. n : inner[i] = {}
  BY <1>1 DEF Elements
<1>3. DOMAIN inner = 1 .. n
  BY <1>1
<1>4. FileLookUp(g, name) = FirstAnswer(answers)
  BY DEF FileLookUp
<1>. DEFINE all == {{}, GetSymbol(name), LookUp(g.direct, name)}
<1>5. inner \in Seq(all)
  <2>1. inner = [i \in 1 .. n |-> inner[i]]
    BY <1>1
  <2>2. {} \in all
    OBVIOUS
  <2>. HIDE DEF inner, all
  <2>3. inner \in [1 .. n -> all]
    BY <1>2, <2>1, <2>2
  <2>4. n \in Nat
    BY <1>1
  <2>. HIDE DEF n
  <2> QED BY <2>3, <2>4
<1>. HIDE DEF inner
<1>6. Len(outer) = 2 /\ outer[1] = GetSymbol(name) /\ outer \in Seq(all)
  OBVIOUS
<1>. HIDE DEF outer
<1>7. Len(inner) = n
  BY <1>1, <1>3, <1>5
<1>. HIDE DEF n, all
<1>8. /\ DOMAIN answers = 1 .. (n + 2)
      /\ \A i \in 1 .. n : answers[i] = inner[i]
      /\ answers[n + 1] = GetSymbol(name)
  <2>1. answers = [i \in 1 .. (n + 2) |-> IF i <= n THEN inner[i] ELSE outer[i - n]]
    <3>1. /\ Len(answers) = Len(inner) + Len(outer) /\ answers \in Seq(all)
          /\ \A i \in 1 .. Len(inner) + Len(outer) : answers[i] = IF i <= Len(inner) THEN inner[i] ELSE outer[i - Len(inner)]
      BY <1>5, <1>6, ConcatProperties
    <3>. HIDE DEF answers
    <3>2. answers = [i \in 1 .. (n + 2) |-> answers[i]]
      <4>1. answers = [i \in 1 .. Len(answers) |-> answers[i]]
        BY <3>1
      <4> QED BY <1>6, <1>7, <3>1, <4>1
    <3> QED BY <1>6, <1>7, <3>1, <3>2
  <2>2. n + 1 \in 1 .. (n + 2) /\ ~(n + 1 <= n) /\ (n + 1) - n = 1 /\ \A i \in 1 .. n : i \in 1 .. (n + 2) /\ i <= n
    BY <1>1
  <2>. HIDE DEF answers
  <2> QED BY <1>6, <2>1, <2>2
<1>. HIDE DEF answers
<1>9. AnswersAt(answers, n + 2, n + 1)
  BY <1>1, <1>2, <1>8 DEF AnswersAt
<1>10. n + 2 \in Nat /\ n + 1 \in 1 .. (n + 2)
  BY <1>1
<1> QED BY <1>4, <1>8, <1>9, <1>10, AnswerDecides

\* The names a file brings into the map: those of its import lines, and those of the
\* symbols behind its extends clauses that none of its scopes hides.
ExtendsNames(file, e) == {s.name : s \in {x \in GetSymbol(e) : Unhidden(file, e) /\ x.label # rule.label}}
IsWanted(file, n) ==
    \/ \E i \in 1 .. Len(file.imports) : n \in LineNames(file.imports[i])
    \/ \E i \in 1 .. Len(file.extends) : n \in ExtendsNames(file, file.extends[i])

LEMMA FileImportsAdd ==
    ASSUME TablesOK, NEW map \in FileMap, NEW file \in SourceFile
    PROVE  /\ Names(map) \subseteq Names(FileImports(map, file))
           /\ \A n : IsWanted(file, n) => n \in Names(FileImports(map, file))
<1>. DEFINE all == GatheredAll(map, file)
            founds == ExtendsImports(all, file)
<1>1. FileImports(map, file) = FoldLeft(PutIfKnown, all.map, founds)
  BY DEF FileImports, GatheredAll, GatheredLines
<1>2. /\ all \in Gathering
      /\ Names(map) \subseteq Names(all.map)
      /\ \A i \in 1 .. Len(file.imports) : LineNames(file.imports[i]) \subseteq Names(all.map)
      /\ Elements(all.scopes) \subseteq Opened(file)
  BY GathersAll
<1>. HIDE DEF all
<1>3. Len(file.extends) \in Nat /\ DOMAIN file.extends = 1 .. Len(file.extends) /\ \A i \in 1 .. Len(file.extends) : file.extends[i] \in Imp
  BY FileIs
<1>4. founds \in Seq(SUBSET FileSymbol) /\ Len(founds) = Len(file.extends)
      /\ \A i \in 1 .. Len(file.extends) : founds[i] = FileLookUp(all, file.extends[i])
  <2>2. \A i \in 1 .. Len(file.extends) : FileLookUp(all, file.extends[i]) \in SUBSET FileSymbol
    BY <1>2, <1>3, FileLookUpIs
  <2>3. founds \in [1 .. Len(file.extends) -> SUBSET FileSymbol]
    BY <1>3, <2>2 DEF ExtendsImports
  <2>4. \A i \in 1 .. Len(file.extends) : founds[i] = FileLookUp(all, file.extends[i])
    BY <1>3 DEF ExtendsImports
  <2>. HIDE DEF founds, FileSymbol
  <2> QED BY <1>3, <2>3, <2>4
<1>5. all.map \in FileMap
  BY <1>2, GatheringIs
<1>. HIDE DEF founds
<1>6. /\ Names(all.map) \subseteq Names(FoldLeft(PutIfKnown, all.map, founds))
      /\ \A i \in 1 .. Len(founds) : \A s : founds[i] = {s} /\ s.label # rule.label =>
            s.name \in Names(FoldLeft(PutIfKnown, all.map, founds))
  BY <1>4, <1>5, PutKnownsAdd
<1>7. ASSUME NEW i \in 1 .. Len(file.extends), NEW n \in ExtendsNames(file, file.extends[i])
      PROVE  n \in Names(FileImports(map, file))
  <2>1. PICK s \in GetSymbol(file.extends[i]) : n = s.name /\ Unhidden(file, file.extends[i]) /\ s.label # rule.label
    BY <1>7 DEF ExtendsNames
  <2>2. file.extends[i] \in Imp /\ file.extends[i] \in Path
    BY <1>3, ImpPaths
  <2>3. GetSymbol(file.extends[i]) = {s}
    BY <2>2, GetSymbolIs
  <2>4. \A t \in Elements(all.scopes) : LookUp(t, file.extends[i]) = {}
    BY <1>2, <2>1, OpenedHidesNot
  <2>5. FileLookUp(all, file.extends[i]) = {s}
    BY <1>2, <2>2, <2>3, <2>4, FileLooksOut
  <2> QED BY <1>1, <1>4, <1>6, <2>1, <2>5
<1> QED BY <1>1, <1>2, <1>6, <1>7 DEF IsWanted

LEMMA SemanticAdd ==
    ASSUME TablesOK, NEW map \in FileMap, NEW file \in SourceFile
    PROVE  Names(map) \subseteq Names(FileSemanticImports(map, file))
<1>. DEFINE new == [i \in DOMAIN file.semantic |-> Import(file.semantic[i], GetSymbol(file.semantic[i]))]
<1>2. Len(file.semantic) \in Nat /\ DOMAIN file.semantic = 1 .. Len(file.semantic) /\ \A i \in DOMAIN file.semantic : file.semantic[i] \in Imp
  BY FileIs
<1>3. \A name \in Imp : Import(name, GetSymbol(name)) \in FileEntry
  BY GetSymbolFiles, ImpPaths, ImportIs
<1>. HIDE DEF FileEntry
<1>4. new \in [1 .. Len(file.semantic) -> FileEntry]
  BY <1>2, <1>3
<1>5. new \in Seq(FileEntry)
  BY <1>2, <1>4
<1> QED BY <1>5, PutAllGrows DEF FileSemanticImports

LEMMA FilesGrow ==
    ASSUME TablesOK
    PROVE  Growing(NamesOf, FilesFcn, FileMap, SourceFile) /\ Growing(NamesOf, SemanticFcn, FileMap, SourceFile)
<1>1. \A map \in FileMap : \A file \in SourceFile :
          /\ FileImports(map, file) \in FileMap /\ FileSemanticImports(map, file) \in FileMap
          /\ Names(map) \subseteq Names(FileImports(map, file)) /\ Names(map) \subseteq Names(FileSemanticImports(map, file))
  BY FileImportsIs, FileSemanticImportsIs, FileImportsAdd, SemanticAdd
<1>. HIDE DEF FileMap, SourceFile, Names
<1> QED BY <1>1 DEF Growing, NamesOf, FilesFcn, SemanticFcn

LEMMA DirectMapAdds ==
    ASSUME TablesOK, rule \in ScalaRule, NEW i \in 1 .. Len(rule.files), NEW n, IsWanted(rule.files[i], n)
    PROVE  n \in Names(DirectMap)
<1>. DEFINE main == [k \in DOMAIN rule.mainClass |-> Import(rule.mainClass[k], {})]
            named == Folded(FilesFcn, main, rule.files)
            last == Folded(SemanticFcn, named, rule.files)
<1>1. rule.mainClass \in Seq(Imp) /\ rule.files \in Seq(SourceFile)
  <2>. HIDE DEF SourceFile
  <2> QED BY DEF ScalaRule
<1>3. main \in FileMap
  <2>1. Len(rule.mainClass) \in Nat /\ DOMAIN rule.mainClass = 1 .. Len(rule.mainClass) /\ \A k \in DOMAIN rule.mainClass : rule.mainClass[k] \in Imp
    BY <1>1
  <2>2. \A name \in Imp : Import(name, {}) \in FileEntry
    BY ImportIs
  <2>. HIDE DEF FileEntry
  <2>3. main \in [1 .. Len(rule.mainClass) -> FileEntry]
    BY <2>1, <2>2
  <2> QED BY <2>1, <2>3 DEF FileMap
<1>4. \A map \in FileMap : FileImports(map, rule.files[i]) \in FileMap /\ n \in Names(FileImports(map, rule.files[i]))
  <2>1. rule.files[i] \in SourceFile
    <3>. HIDE DEF SourceFile
    <3> QED BY <1>1
  <2> QED BY <2>1, FileImportsIs, FileImportsAdd
<1>. HIDE DEF main, FileMap, SourceFile, Names
<1>5. rule.files[i] \in SourceFile
  BY <1>1
<1>6. \A map \in FileMap : n \in NamesOf[FilesFcn[map][rule.files[i]]]
  BY <1>4, <1>5 DEF NamesOf, FilesFcn
<1>7. named \in FileMap /\ FoldLeft(FileImports, main, rule.files) = named
  BY <1>1, <1>3, FileStepsType, FoldedType, FilesAreFold
<1>8. n \in NamesOf[named]
  BY <1>1, <1>3, <1>6, FileStepsType, FilesGrow, FoldAdds
<1>. HIDE DEF named
<1>9. last \in FileMap /\ FoldLeft(FileSemanticImports, named, rule.files) = last
  BY <1>1, <1>7, FileStepsType, FoldedType, SemanticIsFold
<1>10. NamesOf[named] \subseteq NamesOf[last]
  BY <1>1, <1>7, FileStepsType, FilesGrow, FoldGrows
<1>. HIDE DEF last
<1>11. n \in Names(last)
  BY <1>8, <1>9, <1>10 DEF NamesOf
<1>12. DirectMap = last
  BY <1>7, <1>9 DEF DirectMap, main
<1> QED BY <1>11, <1>12
-----------------------------------------------------------------------------
(***************************************************************************)
(* What is exported comes from an extends clause.                          *)
(***************************************************************************)
\* What an extends clause adds to the exports.
IsClear(e) == \A s \in GetSymbol(e) : s.conflicts = <<>> /\ s.label # rule.label
ExportOf == [e \in Imp |-> {x \in {FoundAs(e, GetSymbol(e))} : IsClear(e)}]

EntriesOf == [map \in FileMap |-> Elements(map)]
ExportFcn == [map \in FileMap |-> [e \in Imp |-> PutExport(map, e)]]

LEMMA PutEntries ==
    ASSUME NEW map \in FileMap, NEW e \in FileEntry
    PROVE  Elements(Put(map, e)) \subseteq Elements(map) \cup {e}
<1>1. CASE e.imp \in Elements(Keys(map))
  BY <1>1 DEF Put
<1>2. CASE e.imp \notin Elements(Keys(map))
  <2>. DEFINE more == Append(map, e)
  <2>1. /\ DOMAIN map = 1 .. Len(map) /\ Len(map) \in Nat
        /\ DOMAIN more = 1 .. Len(map) + 1 /\ more[Len(map) + 1] = e
        /\ \A i \in DOMAIN map : more[i] = map[i]
    <3>. HIDE DEF FileEntry
    <3> QED BY AppendedElements DEF FileMap
  <2>2. Put(map, e) = more
    BY <1>2 DEF Put
  <2>. HIDE DEF more
  <2> QED BY <2>1, <2>2 DEF Elements
<1> QED BY <1>1, <1>2

LEMMA PutExportIs ==
    ASSUME TablesOK, NEW map \in FileMap, NEW e \in Imp
    PROVE  /\ PutExport(map, e) \in FileMap
           /\ Elements(PutExport(map, e)) \subseteq Elements(map) \cup ExportOf[e]
<1>1. GetSymbol(e) \in SUBSET FileSymbol /\ FoundAs(e, GetSymbol(e)) \in FileEntry
  BY GetSymbolFiles, ImpPaths, FoundAsIs
<1>2. FoundAs(e, GetSymbol(e)).sym = GetSymbol(e)
  BY DEF FoundAs, Import
<1>. DEFINE x == FoundAs(e, GetSymbol(e))
<1>3. ExportOf[e] = {y \in {x} : IsClear(e)}
  BY DEF ExportOf
<1>4. /\ Put(map, x) \in FileMap /\ PutIfNotSelf(map, x) \in FileMap
      /\ Elements(Put(map, x)) \subseteq Elements(map) \cup {x}
  BY <1>1, PutIs, PutEntries
<1>. HIDE DEF x, FileMap
<1>5. CASE IsClear(e)
  BY <1>2, <1>3, <1>4, <1>5 DEF PutExport, IsClear, PutIfNotSelf, x
<1>6. CASE ~IsClear(e)
  <2>1. PutExport(map, e) = map
    BY <1>2, <1>6 DEF PutExport, IsClear, PutIfNotSelf, x
  <2> QED BY <2>1
<1> QED BY <1>5, <1>6

LEMMA ExportStepType ==
    ASSUME TablesOK
    PROVE  IsStep(ExportFcn, FileMap, Imp) /\ Bringing(EntriesOf, ExportOf, ExportFcn, FileMap, Imp)
<1>1. \A map \in FileMap : \A e \in Imp :
          PutExport(map, e) \in FileMap /\ Elements(PutExport(map, e)) \subseteq Elements(map) \cup ExportOf[e]
  BY PutExportIs
<1>. HIDE DEF FileMap, ExportOf, Elements
<1>2. IsStep(ExportFcn, FileMap, Imp)
  BY <1>1 DEF ExportFcn, IsStep
<1>3. Bringing(EntriesOf, ExportOf, ExportFcn, FileMap, Imp)
  BY <1>1 DEF ExportFcn, Bringing, EntriesOf
<1> QED BY <1>2, <1>3

LEMMA ExportsAreFold ==
    ASSUME TablesOK, NEW base \in FileMap, NEW list \in Seq(Imp)
    PROVE  FoldLeft(PutExport, base, list) = Folded(ExportFcn, base, list)
<1>. DEFINE IsIter(h) == h = [s \in SUBSET (1 .. Len(list)) |->
                                 IF s = {} THEN base ELSE PutExport(h[s \ {Max(s)}], list[Max(s)])]
            iter == CHOOSE h : IsIter(h)
<1>. HIDE DEF FileMap
<1>1. FoldLeft(PutExport, base, list) = iter[1 .. Len(list)]
  <2>1. DOMAIN list = 1 .. Len(list)
    OBVIOUS
  <2> QED BY <2>1 DEF FoldLeft, MapThenFoldSet
<1>2. PICK f : Iterates(f, ExportFcn, FileMap, Imp, base, list)
  BY ExportStepType, FoldIterates
<1>3. IsIter(f)
  BY <1>2 DEF Iterates, ExportFcn
<1>4. IsIter(iter)
  <2>. HIDE DEF IsIter
  <2> QED BY <1>3
<1>. HIDE DEF iter
<1>5. iter[{}] = base /\ iter = [s \in SUBSET (1 .. Len(list)) |-> iter[s]]
  BY <1>4
<1>6. ASSUME NEW s \in SUBSET (1 .. Len(list)), s # {}, iter[s \ {Max(s)}] \in FileMap
      PROVE  iter[s] = ExportFcn[iter[s \ {Max(s)}]][list[Max(s)]]
  <2>1. iter[s] = PutExport(iter[s \ {Max(s)}], list[Max(s)])
    BY <1>4, <1>6
  <2>2. list[Max(s)] \in Imp
    BY <1>2, <1>6 DEF Iterates
  <2> QED BY <1>6, <2>1, <2>2 DEF ExportFcn
<1>7. FoldsLeft(iter, ExportFcn, FileMap, Imp, base, list)
  <2>. HIDE DEF IsIter
  <2> QED BY <1>5, <1>6, ExportStepType DEF FoldsLeft
<1>8. iter[1 .. Len(list)] = Folded(ExportFcn, base, list)
  BY <1>7, FoldLeftFolds
<1> QED BY <1>1, <1>8

ExportsOfFile == [file \in SourceFile |-> UNION {ExportOf[file.extends[i]] : i \in 1 .. Len(file.extends)}]
ExportFilesFcn == [map \in FileMap |-> [file \in SourceFile |-> FileExports(map, file)]]

LEMMA FileExportsIs ==
    ASSUME TablesOK, NEW map \in FileMap, NEW file \in SourceFile
    PROVE  /\ FileExports(map, file) \in FileMap
           /\ Elements(FileExports(map, file)) \subseteq Elements(map) \cup ExportsOfFile[file]
<1>. DEFINE after == Folded(ExportFcn, map, file.extends)
<1>1. file.extends \in Seq(Imp)
  BY FileIs
<1>2. ExportsOfFile[file] = UNION {ExportOf[file.extends[i]] : i \in 1 .. Len(file.extends)}
  BY DEF ExportsOfFile
<1>. HIDE DEF FileMap
<1>3. after \in FileMap
  BY <1>1, ExportStepType, FoldedType
<1>4. EntriesOf[after] \subseteq EntriesOf[map] \cup UNION {ExportOf[file.extends[i]] : i \in 1 .. Len(file.extends)}
  BY <1>1, ExportStepType, FoldBrings
<1>5. FileExports(map, file) = after
  BY <1>1, ExportsAreFold DEF FileExports
<1>. HIDE DEF after, Elements
<1>6. EntriesOf[after] = Elements(after) /\ EntriesOf[map] = Elements(map)
  BY <1>3 DEF EntriesOf
<1> QED BY <1>2, <1>3, <1>4, <1>5, <1>6

LEMMA ExportFilesStepType ==
    ASSUME TablesOK
    PROVE  IsStep(ExportFilesFcn, FileMap, SourceFile) /\ Bringing(EntriesOf, ExportsOfFile, ExportFilesFcn, FileMap, SourceFile)
<1>1. \A map \in FileMap : \A file \in SourceFile :
          FileExports(map, file) \in FileMap /\ Elements(FileExports(map, file)) \subseteq Elements(map) \cup ExportsOfFile[file]
  BY FileExportsIs
<1>. HIDE DEF FileMap, SourceFile, ExportsOfFile, Elements
<1>2. IsStep(ExportFilesFcn, FileMap, SourceFile)
  BY <1>1 DEF ExportFilesFcn, IsStep
<1>3. Bringing(EntriesOf, ExportsOfFile, ExportFilesFcn, FileMap, SourceFile)
  BY <1>1 DEF ExportFilesFcn, Bringing, EntriesOf
<1> QED BY <1>2, <1>3

LEMMA ExportFilesAreFold ==
    ASSUME TablesOK, NEW base \in FileMap, NEW list \in Seq(SourceFile)
    PROVE  FoldLeft(FileExports, base, list) = Folded(ExportFilesFcn, base, list)
<1>. DEFINE IsIter(h) == h = [s \in SUBSET (1 .. Len(list)) |->
                                 IF s = {} THEN base ELSE FileExports(h[s \ {Max(s)}], list[Max(s)])]
            iter == CHOOSE h : IsIter(h)
<1>. HIDE DEF FileMap, SourceFile
<1>1. FoldLeft(FileExports, base, list) = iter[1 .. Len(list)]
  <2>1. DOMAIN list = 1 .. Len(list)
    OBVIOUS
  <2> QED BY <2>1 DEF FoldLeft, MapThenFoldSet
<1>2. PICK f : Iterates(f, ExportFilesFcn, FileMap, SourceFile, base, list)
  BY ExportFilesStepType, FoldIterates
<1>3. IsIter(f)
  BY <1>2 DEF Iterates, ExportFilesFcn
<1>4. IsIter(iter)
  <2>. HIDE DEF IsIter
  <2> QED BY <1>3
<1>. HIDE DEF iter
<1>5. iter[{}] = base /\ iter = [s \in SUBSET (1 .. Len(list)) |-> iter[s]]
  BY <1>4
<1>6. ASSUME NEW s \in SUBSET (1 .. Len(list)), s # {}, iter[s \ {Max(s)}] \in FileMap
      PROVE  iter[s] = ExportFilesFcn[iter[s \ {Max(s)}]][list[Max(s)]]
  <2>1. iter[s] = FileExports(iter[s \ {Max(s)}], list[Max(s)])
    BY <1>4, <1>6
  <2>2. list[Max(s)] \in SourceFile
    BY <1>2, <1>6 DEF Iterates
  <2> QED BY <1>6, <2>1, <2>2 DEF ExportFilesFcn
<1>7. FoldsLeft(iter, ExportFilesFcn, FileMap, SourceFile, base, list)
  <2>. HIDE DEF IsIter
  <2> QED BY <1>5, <1>6, ExportFilesStepType DEF FoldsLeft
<1>8. iter[1 .. Len(list)] = Folded(ExportFilesFcn, base, list)
  BY <1>7, FoldLeftFolds
<1> QED BY <1>1, <1>8

LEMMA ExportsComeFrom ==
    ASSUME TablesOK, rule \in ScalaRule
    PROVE  \A x \in Elements(FoldLeft(FileExports, <<>>, rule.files)) :
              \E i \in 1 .. Len(rule.files) : \E k \in 1 .. Len(rule.files[i].extends) :
                  x \in ExportOf[rule.files[i].extends[k]]
<1>. DEFINE after == Folded(ExportFilesFcn, <<>>, rule.files)
<1>1. rule.files \in Seq(SourceFile)
  <2>. HIDE DEF SourceFile
  <2> QED BY DEF ScalaRule
<1>2. <<>> \in FileMap
  BY EmptySeqIs DEF FileMap
<1>3. Elements(<<>>) = {}
  BY DEF Elements
<1>. HIDE DEF FileMap, SourceFile
<1>4. after \in FileMap
  BY <1>1, <1>2, ExportFilesStepType, FoldedType
<1>5. EntriesOf[after] \subseteq EntriesOf[<<>>] \cup UNION {ExportsOfFile[rule.files[i]] : i \in 1 .. Len(rule.files)}
  BY <1>1, <1>2, ExportFilesStepType, FoldBrings
<1>6. FoldLeft(FileExports, <<>>, rule.files) = after
  BY <1>1, <1>2, ExportFilesAreFold
<1>. HIDE DEF after, Elements
<1>7. EntriesOf[after] = Elements(after) /\ EntriesOf[<<>>] = {}
  BY <1>2, <1>3, <1>4 DEF EntriesOf
<1>8. ASSUME NEW x \in Elements(after)
      PROVE  \E i \in 1 .. Len(rule.files) : \E k \in 1 .. Len(rule.files[i].extends) : x \in ExportOf[rule.files[i].extends[k]]
  <2>1. x \in UNION {ExportsOfFile[rule.files[i]] : i \in 1 .. Len(rule.files)}
    BY <1>5, <1>7
  <2>2. PICK i \in 1 .. Len(rule.files) : x \in ExportsOfFile[rule.files[i]]
    BY <2>1
  <2>3. rule.files[i] \in SourceFile
    BY <1>1
  <2>4. x \in UNION {ExportOf[rule.files[i].extends[k]] : k \in 1 .. Len(rule.files[i].extends)}
    BY <2>2, <2>3 DEF ExportsOfFile
  <2> QED BY <2>4
<1> QED BY <1>6, <1>8
-----------------------------------------------------------------------------
(***************************************************************************)
(* From the files to the dependencies.                                     *)
(***************************************************************************)
\* What the files want is in the map, and what is exported is what some clause names.
IsExported(x) ==
    \E i \in 1 .. Len(rule.files) : \E k \in 1 .. Len(rule.files[i].extends) :
        /\ IsClear(rule.files[i].extends[k])
        /\ x.imp = FoundAs(rule.files[i].extends[k], GetSymbol(rule.files[i].extends[k])).imp
        /\ x.sym = ResolveSymbol(x.imp) /\ x.sym # {}

WantedAreDirect ==
    \A i \in 1 .. Len(rule.files) : \A n : IsWanted(rule.files[i], n) => n \in Elements(direct.imports)

FilesInv ==
    /\ globalScope \in ExactTrie
    /\ phase # "gather" => WantedAreDirect
    /\ \A i \in DOMAIN exportMap : ~exportMap[i].error => IsExported(exportMap[i])

LEMMA WantedStay ==
    ASSUME rule' = rule, globalScope' = globalScope
    PROVE  \A file, n : IsWanted(file, n)' <=> IsWanted(file, n)
<1>1. \A e : GetSymbol(e)' = GetSymbol(e)
  BY DEF GetSymbol
<1>2. \A name : LineNames(name)' = LineNames(name)
  BY <1>1 DEF LineNames, LineImport
<1>3. \A file, e : Unhidden(file, e)' <=> Unhidden(file, e)
  BY DEF Unhidden
<1>4. \A file, e : ExtendsNames(file, e)' = ExtendsNames(file, e)
  BY <1>1, <1>3 DEF ExtendsNames
<1> QED BY <1>2, <1>4 DEF IsWanted

LEMMA ExportedStay ==
    ASSUME rule' = rule, globalScope' = globalScope, packages' = packages
    PROVE  \A x : IsExported(x)' <=> IsExported(x)
<1>1. \A e : GetSymbol(e)' = GetSymbol(e) /\ ResolveSymbol(e)' = ResolveSymbol(e)
  BY DEF GetSymbol, ResolveSymbol
<1>2. \A e : IsClear(e)' <=> IsClear(e)
  BY <1>1 DEF IsClear
<1> QED BY <1>1, <1>2 DEF IsExported

LEMMA FilesInvInit == RuleInit => FilesInv
<1>. SUFFICES ASSUME RuleInit
              PROVE  FilesInv
  OBVIOUS
<1>1. PICK w \in Workspaces : globalScope = FoldLeft(PutClass, EmptyScope, w.puts)
  BY DEF RuleInit
<1>2. w.puts \in Seq(PlainSymbol)
  <2>1. w \in [puts : Seq(PlainSymbol), rule : ScalaRule, resolvers : Seq(Resolver), resolveWith : ResolveWith]
    BY RuleImportsAssumption
  <2>. HIDE DEF PlainSymbol, ScalaRule, Resolver
  <2> QED BY <2>1
<1>3. \A i \in DOMAIN w.puts : IsSymbolName(w.puts[i].name)
  BY RuleImportsAssumption
<1>4. globalScope \in ExactTrie
  BY <1>1, <1>2, <1>3, TableIsExact
<1>5. phase = "gather" /\ exportMap = <<>>
  BY DEF RuleInit
<1> QED BY <1>4, <1>5 DEF FilesInv

LEMMA FilesInvStep == RuleInv /\ FilesInv /\ [Step]_<<vars, ruleVars>> => FilesInv'
<1>. SUFFICES ASSUME RuleInv, FilesInv, [Step]_<<vars, ruleVars>>
              PROVE  FilesInv'
  OBVIOUS
<1>1. rule' = rule /\ globalScope' = globalScope /\ packages' = packages
  BY DEF Step, GatherDirect, GatherOne, Gathered, ResolveImport, ImportsDone, ResolveExports, vars, ruleVars
<1>2. globalScope' \in ExactTrie
  <2>1. ExactTrie' = ExactTrie
    OBVIOUS
  <2> QED BY <1>1, <2>1 DEF FilesInv
<1>3. phase' # "gather" => WantedAreDirect'
  <2>1. CASE GatherDirect
    <3>1. /\ direct'.imports = Keys(importMap') /\ importMap' = DirectMap /\ TablesOK /\ rule \in ScalaRule
      BY <2>1 DEF GatherDirect, RuleInv, RuleTypeOK
    <3>2. \A i \in 1 .. Len(rule.files) : \A n : IsWanted(rule.files[i], n) => n \in Names(DirectMap)
      BY <3>1, DirectMapAdds
    <3>3. Elements(direct'.imports) = Names(DirectMap)
      BY <3>1, KeysAreNames
    <3>4. \A i \in 1 .. Len(rule.files) : \A n : IsWanted(rule.files[i], n) => n \in Elements(direct'.imports)
      BY <3>2, <3>3
    <3> QED BY <1>1, <3>4, WantedStay DEF WantedAreDirect
  <2>2. CASE ~GatherDirect
    <3>1. direct' = direct /\ (phase' # "gather" => phase # "gather")
      BY <2>2 DEF Step, GatherOne, GatherImplicit, Gathered, ResolveImport, ImportsDone, ResolveExports, vars, ruleVars
    <3>2. WantedAreDirect => WantedAreDirect'
      BY <1>1, <3>1, WantedStay DEF WantedAreDirect
    <3> QED BY <3>1, <3>2 DEF FilesInv
  <2> QED BY <2>1, <2>2
<1>4. \A i \in DOMAIN exportMap' : ~exportMap'[i].error => IsExported(exportMap'[i])
  <2>1. CASE ResolveExports
    <3>. DEFINE map == FoldLeft(FileExports, <<>>, rule.files)
                Export(i) == LET found == ResolveSymbol(map[i].imp)
                             IN [map[i] EXCEPT !.sym = IF found = {} THEN @ ELSE found, !.error = found = {}]
    <3>1. exportMap' = [i \in DOMAIN map |-> Export(i)] /\ TablesOK /\ rule \in ScalaRule
      BY <2>1 DEF ResolveExports, RuleInv, RuleTypeOK
    <3>2. \A x \in Elements(map) :
              \E i \in 1 .. Len(rule.files) : \E k \in 1 .. Len(rule.files[i].extends) :
                  x \in ExportOf[rule.files[i].extends[k]]
      BY <3>1, ExportsComeFrom
    <3>. HIDE DEF map
    <3>. SUFFICES ASSUME NEW j \in DOMAIN map, ~Export(j).error
                  PROVE  IsExported(Export(j))
      BY <3>1
    <3>3. map[j] \in Elements(map)
      BY DEF Elements
    <3>10. PICK i \in 1 .. Len(rule.files) : \E k \in 1 .. Len(rule.files[i].extends) : map[j] \in ExportOf[rule.files[i].extends[k]]
      BY <3>2, <3>3
    <3>4. PICK k \in 1 .. Len(rule.files[i].extends) : map[j] \in ExportOf[rule.files[i].extends[k]]
      BY <3>10
    <3>5. rule.files[i].extends[k] \in Imp
      <4>1. rule.files \in Seq(SourceFile)
        <5>. HIDE DEF SourceFile
        <5> QED BY <3>1 DEF ScalaRule
      <4>2. rule.files[i] \in SourceFile
        <5>. HIDE DEF SourceFile
        <5> QED BY <4>1
      <4> QED BY <4>2, FileIs
    <3>. DEFINE e == rule.files[i].extends[k]
    <3>6. map[j] = FoundAs(e, GetSymbol(e)) /\ IsClear(e)
      BY <3>4, <3>5 DEF ExportOf
    <3>7. /\ Export(j).imp = FoundAs(e, GetSymbol(e)).imp
          /\ Export(j).sym = ResolveSymbol(Export(j).imp) /\ Export(j).sym # {}
      <4>1. PICK name, found : map[j] = [imp |-> name, sym |-> found, error |-> FALSE]
        BY <3>6 DEF FoundAs, Import
      <4> QED BY <3>6, <4>1
    <3> QED BY <3>6, <3>7 DEF IsExported
  <2>2. CASE ~ResolveExports
    BY <2>2 DEF Step, GatherDirect, GatherOne, Gathered, ResolveImport, ImportsDone, vars, ruleVars, FilesInv
  <2> QED BY <2>1, <2>2
<1>5. (\A i \in DOMAIN exportMap : ~exportMap[i].error => IsExported(exportMap[i]))'
  BY <1>1, <1>4, ExportedStay
<1> QED BY <1>2, <1>3, <1>5 DEF FilesInv

\* The import of a name behind which there is one symbol without conflicts is what the
\* chain answers.
LEMMA SettledAsFound ==
    ASSUME RuleInv, Resolved, NEW j \in DOMAIN importMap, ResolveSymbol(importMap[j].imp) # {},
           \A x \in ResolveSymbol(importMap[j].imp) : x.conflicts = <<>>
    PROVE  importMap[j].sym = ResolveSymbol(importMap[j].imp) /\ ~importMap[j].error
<1>1. PICK m \in Nat : IsMap(importMap, m)
  BY DEF RuleInv, LoopInv
<1>2. DOMAIN importMap = 1 .. m /\ importMap[j].imp \in Imp /\ j \in Nat
  BY <1>1 DEF IsMap
<1>3. j < at
  <2>1. at \notin DOMAIN importMap /\ at \in Nat \ {0}
    BY DEF RuleInv, RuleTypeOK, LoopInv, Resolved
  <2> QED BY <1>2, <2>1
<1>4. PICK found : found = ResolveSymbol(importMap[j].imp)
  OBVIOUS
<1>5. InTurn(resolvers, importMap, fileMap, j, found)
  <2>1. Finds[importMap[j].imp] = found
    BY <1>2, <1>4 DEF Finds
  <2> QED BY <1>3, <2>1 DEF RuleInv, LoopInv, Turns
<1>6. PICK seen : seen = AtTurn(importMap, fileMap, j, found)
  OBVIOUS
<1>7. seen[j].sym = found /\ importMap[j].sym = SettledBy(resolvers, seen, found) /\ ~importMap[j].error
  BY <1>2, <1>4, <1>5, <1>6, AtTurnOf
<1>8. SettledBy(resolvers, seen, found) = found
  <2>1. {f \in found : f.conflicts # <<>>} = {}
    BY <1>4
  <2>2. UNION {ResolveConflict(resolvers, seen, s) : s \in {f \in found : f.conflicts # <<>>}} = {}
    BY <2>1
  <2> QED BY <2>2 DEF SettledBy
<1> QED BY <1>4, <1>7, <1>8

LEMMA InDeps ==
    ASSUME NEW j \in DOMAIN importMap, ~importMap[j].error, NEW s \in importMap[j].sym
    PROVE  s.label \in Deps(importMap) \cup Own
<1>. DEFINE known == UNION {importMap[i].sym : i \in {k \in DOMAIN importMap : ~importMap[k].error}}
<1>1. s \in known
  OBVIOUS
<1>2. Deps(importMap) = {x.label : x \in known} \ {NoLabel, rule.label}
  BY DEF Deps
<1>. HIDE DEF known
<1> QED BY <1>1, <1>2 DEF Own

\* A name that the files want is an entry of the map; if it leads to one symbol without
\* conflicts, that symbol is among the dependencies.
LEMMA WantedIsEntry ==
    ASSUME MapIsListed, FilesInv, Resolved, NEW i \in 1 .. Len(rule.files), NEW n, IsWanted(rule.files[i], n)
    PROVE  \E j \in DOMAIN importMap : importMap[j].imp = n
<1>1. phase # "gather"
  BY DEF Resolved
<1>2. n \in Elements(direct.imports)
  BY <1>1 DEF FilesInv, WantedAreDirect
<1>3. n \in Names(importMap)
  BY <1>1, <1>2, KeysAreNames DEF MapIsListed, imports
<1> QED BY <1>3 DEF Names

LEMMA FoundInDeps ==
    ASSUME RuleInv, Resolved, NEW j \in DOMAIN importMap, ResolveSymbol(importMap[j].imp) # {},
           \A x \in ResolveSymbol(importMap[j].imp) : x.conflicts = <<>>
    PROVE  \A s \in ResolveSymbol(importMap[j].imp) : s.label \in Deps(importMap) \cup Own
<1> QED BY SettledAsFound, InDeps

LEMMA FilesOfRule ==
    ASSUME RuleInv
    PROVE  /\ rule.files \in Seq(SourceFile) /\ DOMAIN rule.files = 1 .. Len(rule.files)
           /\ \A i \in 1 .. Len(rule.files) : rule.files[i] \in SourceFile
<1>1. rule \in ScalaRule
  BY DEF RuleInv, RuleTypeOK
<1>2. rule.files \in Seq(SourceFile)
  <2>. HIDE DEF SourceFile
  <2> QED BY <1>1 DEF ScalaRule
<1>. HIDE DEF SourceFile
<1> QED BY <1>2

LEMMA ImportsDepend ==
    ASSUME RuleInv, MapIsListed, FilesInv
    PROVE  ImportsAreDeps
<1>. SUFFICES ASSUME Resolved,
                     NEW file \in Elements(rule.files), NEW name \in Elements(file.imports), ~Overridden(name),
                     NEW s \in GetSymbol(name), s.conflicts = <<>>, ~Overridden(s.name)
              PROVE  s.label \in Deps(importMap) \cup Own
  BY DEF ImportsAreDeps
<1>1. TablesOK /\ globalScope \in ExactTrie
  BY DEF RuleInv, RuleTypeOK, FilesInv
<1>2. PICK i \in 1 .. Len(rule.files) : file = rule.files[i]
  BY FilesOfRule DEF Elements
<1>3. file \in SourceFile
  BY <1>2, FilesOfRule
<1>4. PICK k \in 1 .. Len(file.imports) : name = file.imports[k]
  <2>1. file.imports \in Seq(Imp)
    BY <1>3, FileIs
  <2> QED BY <2>1 DEF Elements
<1>5. name \in Imp /\ name \in Path
  <2>1. file.imports \in Seq(Imp)
    BY <1>3, FileIs
  <2> QED BY <1>4, <2>1, ImpPaths
<1>6. CASE s.label = rule.label
  BY <1>6 DEF Own
<1>7. CASE s.label # rule.label
  <2>1. GetSymbol(name) = {s}
    BY <1>1, <1>5, GetSymbolIs
  <2>2. LineNames(name) = {LineImport(name).imp}
    BY <1>7, <2>1 DEF LineNames
  <2>3. IsWanted(file, LineImport(name).imp)
    BY <1>4, <2>2 DEF IsWanted
  <2>4. PICK key : key = LineImport(name).imp
    OBVIOUS
  <2>5. PICK j \in DOMAIN importMap : importMap[j].imp = key
    BY <1>2, <2>3, <2>4, WantedIsEntry
  <2>6. ResolveSymbol(key) = {s}
    <3>1. CASE IsWildcard(name)
      <4>1. key = s.name
        <5>1. Only({s}) = s
          BY OnlyIs
        <5> QED BY <2>1, <2>4, <3>1, <5>1 DEF LineImport, FoundAs, Import
      <4> QED BY <1>1, <1>5, <4>1, ChainByOwnName
    <3>2. CASE ~IsWildcard(name)
      <4>1. key = name
        BY <2>4, <3>2 DEF LineImport, Import
      <4> QED BY <1>1, <1>5, <3>2, <4>1, ChainByImport
    <3> QED BY <3>1, <3>2
  <2>7. s \in ResolveSymbol(importMap[j].imp) /\ \A x \in ResolveSymbol(importMap[j].imp) : x.conflicts = <<>>
    BY <2>5, <2>6
  <2> QED BY <2>7, FoundInDeps
<1> QED BY <1>6, <1>7

LEMMA ExportsDepend ==
    ASSUME RuleInv, MapIsListed, FilesInv
    PROVE  ExportsAreDeps
<1>. DEFINE Named(i) == \E file \in Elements(rule.files) : \E e \in Elements(file.extends) :
                   /\ FoundAs(e, GetSymbol(e)).imp = exportMap[i].imp
                   /\ GetSymbol(e) = {} \/ ~Unhidden(file, e)
<1>. SUFFICES ASSUME phase = "done", NEW i \in DOMAIN exportMap, ~exportMap[i].error, ~Named(i)
              PROVE  \A s \in exportMap[i].sym : s.label \in Deps(importMap) \cup Own
  BY DEF ExportsAreDeps
<1>1. TablesOK /\ globalScope \in ExactTrie /\ Resolved
  BY DEF RuleInv, RuleTypeOK, FilesInv, Resolved
<1>2. IsExported(exportMap[i])
  BY DEF FilesInv
<1>3. PICK f \in 1 .. Len(rule.files) : \E k \in 1 .. Len(rule.files[f].extends) :
        /\ IsClear(rule.files[f].extends[k])
        /\ exportMap[i].imp = FoundAs(rule.files[f].extends[k], GetSymbol(rule.files[f].extends[k])).imp
        /\ exportMap[i].sym = ResolveSymbol(exportMap[i].imp) /\ exportMap[i].sym # {}
  BY <1>2 DEF IsExported
<1>4. PICK k \in 1 .. Len(rule.files[f].extends) :
        /\ IsClear(rule.files[f].extends[k])
        /\ exportMap[i].imp = FoundAs(rule.files[f].extends[k], GetSymbol(rule.files[f].extends[k])).imp
        /\ exportMap[i].sym = ResolveSymbol(exportMap[i].imp) /\ exportMap[i].sym # {}
  BY <1>3
<1>5. PICK file : file = rule.files[f]
  OBVIOUS
<1>6. PICK e : e = file.extends[k]
  OBVIOUS
<1>7. file \in SourceFile /\ file \in Elements(rule.files)
  BY <1>5, FilesOfRule DEF Elements
<1>8. e \in Imp /\ e \in Path /\ e \in Elements(file.extends)
  <2>1. file.extends \in Seq(Imp) /\ k \in DOMAIN file.extends
    BY <1>5, <1>7, FileIs
  <2> QED BY <1>6, <2>1, ImpPaths DEF Elements
<1>9. FoundAs(e, GetSymbol(e)).imp = exportMap[i].imp /\ IsClear(e)
  BY <1>4, <1>5, <1>6
<1>10. GetSymbol(e) # {} /\ Unhidden(file, e)
  BY <1>7, <1>8, <1>9
<1>11. PICK s \in GetSymbol(e) : TRUE
  BY <1>10
<1>12. GetSymbol(e) = {s} /\ s.conflicts = <<>> /\ s.label # rule.label
  BY <1>1, <1>8, <1>9, <1>11, GetSymbolIs DEF IsClear
<1>13. exportMap[i].imp = s.name
  <2>1. Only({s}) = s
    BY OnlyIs
  <2> QED BY <1>9, <1>12, <2>1 DEF FoundAs, Import
<1>14. IsWanted(file, s.name)
  <2>1. s.name \in ExtendsNames(file, e)
    BY <1>10, <1>12 DEF ExtendsNames
  <2> QED BY <1>5, <1>6, <2>1 DEF IsWanted
<1>15. PICK j \in DOMAIN importMap : importMap[j].imp = s.name
  <2>1. PICK n : n = s.name
    OBVIOUS
  <2> QED BY <1>1, <1>5, <1>14, <2>1, WantedIsEntry
<1>16. ResolveSymbol(s.name) # {} /\ \A x \in ResolveSymbol(s.name) : x.conflicts = <<>>
  BY <1>1, <1>8, <1>12, ChainByOwnName
<1>17. \A x \in ResolveSymbol(importMap[j].imp) : x.label \in Deps(importMap) \cup Own
  BY <1>1, <1>15, <1>16, FoundInDeps
<1> QED BY <1>4, <1>13, <1>15, <1>17
-----------------------------------------------------------------------------
\* Resolving a rule keeps its invariant from the first file to the last export.
THEOREM ResolvingInvariance == RuleSpec => []RuleInv
<1> QED BY RuleInitInv, RuleStepInv, PTL DEF RuleSpec

\* The work list that a rule starts from its own imports ends as ImplicitImports says.
THEOREM RuleIncludes == RuleSpec => []IncludedTransitively
<1>1. RuleInv => IncludedTransitively
  BY InvIncludes DEF RuleInv
<1> QED BY <1>1, ResolvingInvariance, PTL

\* The loop that resolves the imports has every name to resolve: while it runs, and
\* after it, the keys of the map are the imports of the rule's files and all that is
\* linked to them or to the symbols of the rule, and no other name.
THEOREM MapHoldsAllLinked ==
    RuleSpec => [](phase \in {"resolve", "export", "done"} =>
                       Elements(Keys(importMap)) = Elements(direct.imports) \cup Linked)
<1>1. RuleInv /\ MapIsListed => (phase \in {"resolve", "export", "done"} =>
                                    Elements(Keys(importMap)) = Elements(direct.imports) \cup Linked)
  <2>. SUFFICES ASSUME RuleInv, MapIsListed, phase \in {"resolve", "export", "done"}
                PROVE  Elements(Keys(importMap)) = Elements(direct.imports) \cup Linked
    OBVIOUS
  <2>1. required = <<>> /\ Elements(Keys(importMap)) = imports
    BY DEF MapIsListed
  <2>2. IncludedTransitively
    BY InvIncludes DEF RuleInv
  <2> QED BY <2>1, <2>2 DEF IncludedTransitively
<1>2. RuleSpec => []MapIsListed
  BY MapIsListedInit, MapIsListedStep, ResolvingInvariance, PTL DEF RuleSpec
<1> QED BY <1>1, <1>2, ResolvingInvariance, PTL

\* However many files, imports, providers and conflicts there are: a use of a service
\* that the files make and the imports keep decides between the providers, and no
\* provider is chosen for a use that is neither in the files nor in what their imports are
\* resolved to.
THEOREM UsesDecide == RuleSpec => []UseDecides
<1>1. RuleInv => UseDecides
  BY Decided DEF UseDecides
<1> QED BY <1>1, ResolvingInvariance, PTL

\* However many files, import lines and scopes there are: the label behind every import
\* line of the files is a dependency.
THEOREM ImportsAreKept == RuleSpec => []ImportsAreDeps
<1>1. RuleSpec => []MapIsListed
  BY MapIsListedInit, MapIsListedStep, ResolvingInvariance, PTL DEF RuleSpec
<1>2. RuleSpec => []FilesInv
  BY FilesInvInit, FilesInvStep, ResolvingInvariance, PTL DEF RuleSpec
<1> QED BY <1>1, <1>2, ImportsDepend, ResolvingInvariance, PTL

\* A library exports nothing it does not depend on, but what its extends clauses name
\* that the global scope does not know or a scope of the file hides.
THEOREM ExportsAreKept == RuleSpec => []ExportsAreDeps
<1>1. RuleSpec => []MapIsListed
  BY MapIsListedInit, MapIsListedStep, ResolvingInvariance, PTL DEF RuleSpec
<1>2. RuleSpec => []FilesInv
  BY FilesInvInit, FilesInvStep, ResolvingInvariance, PTL DEF RuleSpec
<1> QED BY <1>1, <1>2, ExportsDepend, ResolvingInvariance, PTL
=============================================================================
