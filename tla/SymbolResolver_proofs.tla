------------------------- MODULE SymbolResolver_proofs -------------------------
(***************************************************************************)
(* Proofs about the resolver chain and its two memo tables, for every set  *)
(* of packages, imports and labels and every content of the scopes.  What  *)
(* the tables remember is what the chain answered once, for some package.  *)
(***************************************************************************)
EXTENDS SymbolResolver, TLAPS

\* The inner table remembers the override of some package, the outer one an answer
\* that some package would get from the chain alone.
RememberedForSome ==
    \A i \in Import :
        /\ overrideMemo[i] # None => \E p \in Pkg : overrideMemo[i] = override[p][i]
        /\ memo[i] # None => \E p \in Pkg : memo[i] = Fresh(p, i)

\* A label that was handed out stays in the outer table.
HandedOutRemembered == \A a \in asked : a.answer # None => memo[a.imp] = a.answer

\* The inductive invariant.
IInv ==
    /\ TypeOK
    /\ RememberedForSome
    /\ HandedOutRemembered
    /\ AnswersMatchImport
-----------------------------------------------------------------------------
\* The chain answers with one of its links, if it answers.
LEMMA FreshType ==
    ASSUME override \in Overrides, NEW p \in Pkg, NEW imp \in Import
    PROVE  override[p][Trim[imp]] \in Answer /\ Fresh(p, imp) \in Answer /\ Trim[imp] \in Import
BY ResolverAssumption DEF Fresh, FirstFound, Answer

\* Asking the chain through the inner table gives what the chain alone would give
\* the package whose override the table has, or else the package that asks.
LEMMA ChainIsFresh ==
    ASSUME TypeOK, RememberedForSome, NEW p \in Pkg, NEW imp \in Import
    PROVE  \E q \in Pkg :
              /\ Memoized(overrideMemo, Trim[imp], FindOverride(p, Trim[imp])) = override[q][Trim[imp]]
              /\ Chain(Trim[imp], Memoized(overrideMemo, Trim[imp], FindOverride(p, Trim[imp])))
                    = Fresh(q, imp)
<1>. DEFINE i == Trim[imp]
<1>1. i \in Import /\ Trim[i] = i
  BY ResolverAssumption
<1>2. PICK q \in Pkg : Memoized(overrideMemo, i, FindOverride(p, i)) = override[q][i]
  BY <1>1 DEF Memoized, FirstFound, FindOverride, RememberedForSome
<1>3. Chain(i, override[q][i]) = Fresh(q, imp)
  BY <1>1 DEF Chain, Fresh, Normalize
<1> QED BY <1>2, <1>3

\* Nothing was asked and nothing is remembered.
LEMMA InitInv == Init => IInv
BY ResolverAssumption
DEF Init, IInv, TypeOK, RememberedForSome, HandedOutRemembered, AnswersMatchImport, Answer

\* An answer from the table or from the chain preserves the invariant.
LEMMA StepInv == IInv /\ [Next]_vars => IInv'
<1>. SUFFICES ASSUME IInv, [Next]_vars
              PROVE  IInv'
  OBVIOUS
<1>o. override' = override /\ \A p, imp : Fresh(p, imp)' = Fresh(p, imp)
  BY DEF Next, ResolveSymbol, AnswerFromMemo, AskChain, vars, Fresh
<1>1. ASSUME NEW p \in Pkg, NEW imp \in Import, AnswerFromMemo(p, imp)
      PROVE  IInv'
  <2>. DEFINE a == [pkg |-> p, imp |-> imp, answer |-> memo[imp]]
  <2>1. /\ asked' = asked \cup {a}
        /\ memo' = memo /\ overrideMemo' = overrideMemo
        /\ a.imp = imp /\ a.answer = memo[imp]
    BY <1>1 DEF AnswerFromMemo
  <2>2. TypeOK'
    BY <1>o, <2>1 DEF IInv, TypeOK
  <2>3. RememberedForSome'
    BY <1>o, <2>1 DEF IInv, RememberedForSome
  <2>4. HandedOutRemembered'
    BY <2>1 DEF IInv, HandedOutRemembered
  <2>5. AnswersMatchImport'
    BY <1>1, <1>o, <2>1 DEF IInv, AnswersMatchImport, RememberedForSome, AnswerFromMemo
  <2> QED BY <2>2, <2>3, <2>4, <2>5 DEF IInv
<1>2. ASSUME NEW p \in Pkg, NEW imp \in Import, AskChain(p, imp)
      PROVE  IInv'
  <2>. DEFINE i == Trim[imp]
              found == Memoized(overrideMemo, i, FindOverride(p, i))
              answer == Chain(i, found)
              a == [pkg |-> p, imp |-> imp, answer |-> answer]
  <2>1. PICK q \in Pkg : found = override[q][i] /\ answer = Fresh(q, imp)
    BY ChainIsFresh DEF IInv
  <2>2. i \in Import /\ found \in Answer /\ answer \in Answer
    BY <2>1, FreshType DEF IInv, TypeOK
  <2>. HIDE DEF found, answer
  <2>3. /\ memo[imp] = None
        /\ asked' = asked \cup {a}
        /\ overrideMemo' = Remember(overrideMemo, i, found)
        /\ memo' = Remember(memo, imp, answer)
        /\ a.imp = imp /\ a.answer = answer
    BY <1>2 DEF AskChain, Normalize, found, answer
  <2>4. TypeOK'
    BY <1>o, <2>2, <2>3 DEF IInv, TypeOK, Remember
  <2>5. RememberedForSome'
    <3>. SUFFICES ASSUME NEW j \in Import
                  PROVE  /\ overrideMemo'[j] # None => \E r \in Pkg : overrideMemo'[j] = override[r][j]
                         /\ memo'[j] # None => \E r \in Pkg : memo'[j] = Fresh(r, j)
      BY <1>o DEF RememberedForSome
    <3>1. overrideMemo'[j] # None => \E r \in Pkg : overrideMemo'[j] = override[r][j]
      BY <2>1, <2>2, <2>3 DEF IInv, TypeOK, RememberedForSome, Remember
    <3>2. memo'[j] # None => \E r \in Pkg : memo'[j] = Fresh(r, j)
      BY <2>1, <2>3 DEF IInv, TypeOK, RememberedForSome, Remember
    <3> QED BY <3>1, <3>2
  <2>6. HandedOutRemembered'
    BY <2>3 DEF IInv, TypeOK, HandedOutRemembered, Remember
  <2>7. AnswersMatchImport'
    BY <1>o, <2>1, <2>3 DEF IInv, AnswersMatchImport
  <2> QED BY <2>4, <2>5, <2>6, <2>7 DEF IInv
<1>3. CASE UNCHANGED vars
  BY <1>o, <1>3 DEF vars, IInv, TypeOK, RememberedForSome, HandedOutRemembered, AnswersMatchImport
<1> QED BY <1>1, <1>2, <1>3 DEF Next, ResolveSymbol
-----------------------------------------------------------------------------
\* With uniform overrides the chain does not depend on the package that asks.
LEMMA UniformFresh ==
    ASSUME Uniform, NEW p \in Pkg, NEW q \in Pkg, NEW imp \in Import
    PROVE  Fresh(p, imp) = Fresh(q, imp)
BY DEF Uniform, Fresh

\* An answer that some package would be given fresh is then fresh for the one that asked.
LEMMA InvTransparent == IInv => RootOverridesHonoured
BY UniformFresh DEF IInv, TypeOK, AnswersMatchImport, RootOverridesHonoured, MemoTransparent

\* Fresh answers are looked up by the trimmed import.
LEMMA InvSpellings == IInv => SpellingsAgree
<1>. SUFFICES ASSUME IInv, Uniform, NEW a \in asked, NEW b \in asked, Trim[a.imp] = Trim[b.imp]
              PROVE  a.answer = b.answer
  BY DEF SpellingsAgree
<1>1. a.answer = Fresh(a.pkg, a.imp) /\ b.answer = Fresh(b.pkg, b.imp)
  BY InvTransparent DEF RootOverridesHonoured, MemoTransparent
<1>2. Fresh(a.pkg, a.imp) = Fresh(a.pkg, b.imp)
  BY DEF Fresh
<1>3. Fresh(a.pkg, b.imp) = Fresh(b.pkg, b.imp)
  BY UniformFresh DEF IInv, TypeOK
<1> QED BY <1>1, <1>2, <1>3

\* Both are in the outer table under the same spelling.
LEMMA InvAgree == IInv => PassesAgree
BY DEF IInv, HandedOutRemembered, PassesAgree
-----------------------------------------------------------------------------
\* The invariant holds whoever asks for what, in any order.
THEOREM Invariance == Spec => []IInv
BY InitInv, StepInv, PTL DEF Spec

\* The tables and the answers have their types.
THEOREM TypeCorrect == Spec => []TypeOK
<1>1. IInv => TypeOK
  BY DEF IInv
<1> QED BY <1>1, Invariance, PTL

\* Where every package has the same overrides, the memo tables change no answer.
THEOREM MemoInvisible == Spec => []RootOverridesHonoured
BY InvTransparent, Invariance, PTL

\* There, the spellings of an import are resolved alike.
THEOREM SpellingIrrelevant == Spec => []SpellingsAgree
BY InvSpellings, Invariance, PTL

\* Whatever the overrides, an answer is one that its import has for some package.
THEOREM AnswersBelong == Spec => []AnswersMatchImport
<1>1. IInv => AnswersMatchImport
  BY DEF IInv
<1> QED BY <1>1, Invariance, PTL

\* Whatever the directives, a package is not told two labels for one import.
THEOREM PassesDoNotDisagree == Spec => []PassesAgree
BY InvAgree, Invariance, PTL
=============================================================================
