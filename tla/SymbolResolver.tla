---------------------------- MODULE SymbolResolver ----------------------------
(***************************************************************************)
(* The resolver chain of the resolve phase (language/scala/                *)
(* symbol_resolver.go and pkg/resolver/{memo,chain,override,scope,cross,   *)
(* scala}_symbol_resolver.go):                                             *)
(*                                                                         *)
(*   memo( scala( chain( memo(override), scope, cross, scala(packages) ))) *)
(*                                                                         *)
(* Packages ask for imports in any order and any number of times: every    *)
(* rule is resolved twice, and rules of many packages share imports.  The  *)
(* scopes and the rule index do not change in this phase; the override     *)
(* directives depend on the package that asks, the memo tables do not.     *)
(***************************************************************************)
CONSTANTS
    Pkg,
    Import,      \* the spellings of imports
    Label,
    None,        \* not found
    Trim,        \* [Import -> Import]: drops a leading _root_. and a trailing ._
    Overrides,   \* the gazelle:resolve directives a behaviour may start from
    InScope,     \* [Import -> label or None]: the longest known prefix
    InIndex,     \* [Import -> label or None]: rules of other languages
    InPackages   \* [Import -> label or None]: package symbols

Answer == Label \cup {None}

ASSUME ResolverAssumption ==
    /\ None \notin Label
    /\ Trim \in [Import -> Import]
    /\ \A i \in Import : Trim[Trim[i]] = Trim[i]
    /\ Overrides \subseteq [Pkg -> [Import -> Answer]]
    /\ InScope \in [Import -> Answer]
    /\ InIndex \in [Import -> Answer]
    /\ InPackages \in [Import -> Answer]

VARIABLES
    override,      \* [Pkg -> [Import -> label or None]]: the directives in effect
    memo,          \* cache of the outer MemoSymbolResolver, by spelling
    overrideMemo,  \* cache of the one around the override resolver, by trimmed import
    asked          \* history: the answers given, [pkg, imp, answer]

vars == <<override, memo, overrideMemo, asked>>

-----------------------------------------------------------------------------
FirstFound(a, b) == IF a # None THEN a ELSE b

\* MemoSymbolResolver.ResolveSymbol: the table first, then the next resolver.
Memoized(table, i, next) == FirstFound(table[i], next)

\* Slips used to show that the properties can fail: a table of one entry, the
\* arguments swapped, the trimming forgotten, the order of two links of the chain reversed.
RememberLast(table, i, answer) == [j \in Import |-> IF j = i THEN answer ELSE None]

RememberSwapped(table, i, answer) == IF answer = None THEN table ELSE [table EXCEPT ![i] = i]

\* Only what was found is remembered.
Remember(table, i, answer) ==
    IF answer = None THEN table ELSE [table EXCEPT ![i] = answer]

NormalizeNothing(imp) == imp

\* ScalaSymbolResolver: _root_.a.b and a.b._ are looked up as a.b.
Normalize(imp) == Trim[imp]

\* OverrideSymbolResolver, the one link that looks at the configuration.
FindOverride(p, i) == override[p][i]

ScopeBeforeOverride(i, found) ==
    FirstFound(InScope[i],
        FirstFound(found,
            FirstFound(InIndex[i], InPackages[Normalize(i)])))

\* ChainSymbolResolver over the four links, for an import that was trimmed.
Chain(i, found) ==
    FirstFound(found,
        FirstFound(InScope[i],
            FirstFound(InIndex[i], InPackages[Normalize(i)])))

\* What a package would be told if nothing were memoized.
Fresh(p, imp) ==
    LET i == Trim[imp]
    IN FirstFound(override[p][i],
           FirstFound(InScope[i], FirstFound(InIndex[i], InPackages[i])))

Init ==
    /\ override \in Overrides
    /\ memo = [i \in Import |-> None]
    /\ overrideMemo = [i \in Import |-> None]
    /\ asked = {}

\* The outer table has the spelling: the chain is not consulted.
AnswerFromMemo(p, imp) ==
    /\ memo[imp] # None
    /\ asked' = asked \cup {[pkg |-> p, imp |-> imp, answer |-> memo[imp]]}
    /\ UNCHANGED <<override, memo, overrideMemo>>

AskChain(p, imp) ==
    /\ memo[imp] = None
    /\ LET i == Normalize(imp)
           found == Memoized(overrideMemo, i, FindOverride(p, i))
           answer == Chain(i, found)
       IN /\ overrideMemo' = Remember(overrideMemo, i, found)
          /\ memo' = Remember(memo, imp, answer)
          /\ asked' = asked \cup {[pkg |-> p, imp |-> imp, answer |-> answer]}
    /\ UNCHANGED override

ResolveSymbol(p, imp) == AnswerFromMemo(p, imp) \/ AskChain(p, imp)

Next == \E p \in Pkg, imp \in Import : ResolveSymbol(p, imp)

Spec == Init /\ [][Next]_vars

-----------------------------------------------------------------------------
TypeOK ==
    /\ override \in Overrides
    /\ memo \in [Import -> Answer]
    /\ overrideMemo \in [Import -> Answer]
    /\ asked \subseteq [pkg : Pkg, imp : Import, answer : Answer]

\* The memo tables are invisible: a package is told what the chain alone would tell
\* it, in particular its own gazelle:resolve override before anything else
\* ("Is the import named in a gazelle:resolve override? If yes, stop",
\* README.md:1020).
MemoTransparent == \A a \in asked : a.answer = Fresh(a.pkg, a.imp)

\* Every package sees the same overrides: the directives are in the root only.
Uniform == \A p, q \in Pkg : override[p] = override[q]

\* The tables are invisible where the overrides are the same for all packages, in
\* whatever order the packages ask.
RootOverridesHonoured == Uniform => MemoTransparent

\* A label handed out for an import is the override of some package or what the
\* scopes know: the two tables, keyed by different spellings, never mix up imports.
AnswersMatchImport ==
    \A a \in asked : \E p \in Pkg : a.answer = Fresh(p, a.imp)

\* A package that was told a label for a spelling is told that label whenever it asks
\* again, whatever the other packages ask in between and whatever directives they have:
\* the two passes over a rule (scala_package.go:124) do not disagree.  What two packages
\* with different directives are told is another matter, see MemoTransparent.
PassesAgree ==
    \A a, b \in asked :
        a.pkg = b.pkg /\ a.imp = b.imp /\ a.answer # None /\ b.answer # None =>
            a.answer = b.answer

\* Where the overrides are the same for all packages, the spellings of an import are
\* resolved alike, for all packages.
SpellingsAgree ==
    Uniform =>
        \A a, b \in asked : Trim[a.imp] = Trim[b.imp] => a.answer = b.answer
=============================================================================
