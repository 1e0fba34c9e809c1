---------------------------- MODULE ImplicitImports ----------------------------
(***************************************************************************)
(* The work list at the end of scalaRule.Imports (language/scala/          *)
(* scala_rule.go): the names that gazelle:resolve_with links to the        *)
(* imports of a rule, to what it provides and to one another are added to  *)
(* its imports.  An import map keeps the first import put under a name.    *)
(***************************************************************************)
EXTENDS Naturals, Sequences, FiniteSets

CONSTANTS
    Imp,            \* names of imports
    ResolveWith,    \* the directives in effect a behaviour may start from
    DirectImports   \* [imports, provides] of the rules a behaviour may start from

ASSUME ImplicitImportsAssumption ==
    /\ ResolveWith \subseteq [Imp -> Seq(Imp)]
    /\ \A links \in ResolveWith : IsFiniteSet({n \in Imp : links[n] # <<>>})
    /\ DirectImports \subseteq [imports : Seq(Imp), provides : Seq(Imp)]

VARIABLES
    resolveWith,  \* the deps of all the directives of a name, in their order
    direct,       \* what the rule imports and provides by itself
    required,     \* the stack; its top is the last element
    implicit      \* the names put into the map as implicit imports

vars == <<resolveWith, direct, required, implicit>>

Elements(s) == {s[i] : i \in DOMAIN s}

\* The keys of the import map.
imports == Elements(direct.imports) \cup implicit

Init ==
    /\ resolveWith \in ResolveWith
    /\ direct \in DirectImports
    /\ required = direct.imports \o direct.provides
    /\ implicit = {}

\* Plausible slips, here and below, used to show that the properties can fail.
PushNothing(rest, deps) == rest

PushBack(rest, deps) == IF deps = <<>> THEN rest ELSE required \o deps

\* A dependency of the popped name goes on the stack even if it is imported already.
Push(rest, deps) == rest \o deps

Pop == SubSeq(required, 1, Len(required) - 1)

PutLastOnly(deps) == IF deps = <<>> THEN implicit ELSE implicit \cup {deps[Len(deps)]}

PutIndexes(deps) == implicit \cup {i - 1 : i \in DOMAIN deps}

\* Put: a name that the rule imports by itself stays what it is.
PutImplicit(deps) == implicit \cup (Elements(deps) \ Elements(direct.imports))

GatherImplicit ==
    /\ required # <<>>
    /\ LET deps == resolveWith[required[Len(required)]]
       IN /\ required' = Push(Pop, deps)
          /\ implicit' = PutImplicit(deps)
    /\ UNCHANGED <<resolveWith, direct>>

Next == GatherImplicit

Spec == Init /\ [][Next]_vars

FairSpec == Spec /\ WF_vars(Next)
-----------------------------------------------------------------------------
TypeOK ==
    /\ resolveWith \in [Imp -> Seq(Imp)]
    /\ direct \in [imports : Seq(Imp), provides : Seq(Imp)]
    /\ required \in Seq(Imp)
    /\ implicit \subseteq Imp

\* At every step a name the rule imports, provides or was given either waits on the
\* stack or has all its dependencies among the imports.
WaitingOrLinked ==
    \A n \in imports \cup Elements(direct.provides) :
        n \in Elements(required) \/ Elements(resolveWith[n]) \subseteq imports

\* The names linked to some names, in one step or more; a path without repeats has at
\* most one step from each name that is linked to any.
LinkedTo(origin) ==
    LET steps == Cardinality({n \in Imp : resolveWith[n] # <<>>})
        linked[k \in 0 .. steps] ==
            IF k = 0 THEN {}
            ELSE UNION {Elements(resolveWith[n]) : n \in linked[k - 1] \cup origin}
    IN linked[steps]

Linked == LinkedTo(Elements(direct.imports) \cup Elements(direct.provides))

\* "These are included transitively" (README.md:826): the finished map has all the
\* names linked to the imports and the symbols of the rule, and no other.
IncludedTransitively ==
    required = <<>> => imports = Elements(direct.imports) \cup Linked

Finishes == <>(required = <<>>)

\* No name that the work list meets is linked to itself.
Acyclic == \A n \in Elements(direct.imports) \cup Elements(direct.provides) \cup Linked :
    n \notin LinkedTo({n})

\* The work list empties, however often names repeat in the directives, unless it
\* meets a name that is linked to itself: then it pushes that name for ever.
FinishesIfAcyclic == Acyclic => Finishes
=============================================================================
