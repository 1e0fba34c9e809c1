-------------------------------- MODULE Scopes --------------------------------
(***************************************************************************)
(* The scopes names are looked up in: pkg/collections/path_trie.go and     *)
(* pkg/resolver/{trie,scala,chain,trim_prefix}_scope.go.                   *)
(*                                                                         *)
(* A name is the sequence of its dotted segments.  A trie is a function    *)
(* from the names that have a value to their symbols; an inner node exists *)
(* where some name passes through.  What may be missing (Go's second       *)
(* result) is a set of at most one element.                                *)
(***************************************************************************)
EXTENDS Naturals, Sequences, FiniteSets

EmptyScope == [p \in {} |-> {}]

IsPrefixOf(p, q) == Len(p) <= Len(q) /\ SubSeq(q, 1, Len(p)) = p

After(p, q) == SubSeq(q, Len(p) + 1, Len(q))

-----------------------------------------------------------------------------
(***************************************************************************)
(* PathTrie and TrieScope.                                                 *)
(***************************************************************************)

\* TrieScope.GetSymbol: WalkPath visits the values from the first segment on and the
\* last one wins, so a name below a known one resolves to the known one.
LookUp(trie, name) ==
    {trie[p] : p \in {q \in DOMAIN trie \ {<<>>} :
        /\ IsPrefixOf(q, name)
        /\ \A r \in DOMAIN trie : IsPrefixOf(q, r) /\ IsPrefixOf(r, name) => r = q}}

\* TrieScope.GetScope: the node at exactly this name, as a trie of its own.
ScopeAt(trie, name) ==
    LET below == {q \in DOMAIN trie : IsPrefixOf(name, q)}
    IN IF below = {} /\ name # <<>>
       THEN {}
       ELSE {[p \in {After(name, q) : q \in below} |-> trie[name \o p]]}

\* Symbol.Conflict: a second symbol of a label is not remembered.
WithConflict(sym, other) ==
    IF \E i \in DOMAIN sym.conflicts : sym.conflicts[i].label = other.label
    THEN sym
    ELSE [sym EXCEPT !.conflicts = Append(@, other)]

Store(trie, name, sym) ==
    [p \in DOMAIN trie \cup {name} |-> IF p = name THEN sym ELSE trie[p]]

\* TrieScope.Put: the symbol that has exactly this name and another label keeps its
\* place and remembers the newcomer as a conflict; otherwise the newcomer is stored.
PutAs(trie, name, sym) ==
    LET current == {c \in LookUp(trie, name) : c.name = name /\ c.label # sym.label}
    IN IF current = {}
       THEN Store(trie, name, sym)
       ELSE LET c == CHOOSE c \in current : TRUE
            IN [p \in DOMAIN trie |-> IF trie[p] = c THEN WithConflict(c, sym) ELSE trie[p]]

-----------------------------------------------------------------------------
(***************************************************************************)
(* Chains.                                                                 *)
(***************************************************************************)

\* ChainScope: the first scope that knows the name, or any prefix of it, answers.
FirstAnswer(answers) ==
    LET known == {i \in DOMAIN answers : answers[i] # {}}
    IN IF known = {}
       THEN {}
       ELSE answers[CHOOSE i \in known : \A j \in known : i <= j]

\* TrimPrefixScope for "_root_.".
TrimRoot(name) ==
    IF Len(name) > 1 /\ name[1] = "_root_" THEN Tail(name) ELSE name

Builtin == {<<"scala">>, <<"java", "lang">>}

\* NewScalaScope fails where one of the two packages is not known; the plain trie
\* stays in use then.
HasBuiltins(trie) == \A b \in Builtin : ScopeAt(trie, b) # {}

Only(set) == CHOOSE x \in set : TRUE

\* ScalaScope.GetSymbol over its four layers: the symbols that are the two packages
\* themselves are passed over.
ScalaLookUp(trie, name) ==
    LET answers ==
            <<LookUp(trie, name),
              LookUp(Only(ScopeAt(trie, <<"scala">>)), name),
              LookUp(Only(ScopeAt(trie, <<"java", "lang">>)), name),
              LookUp(trie, TrimRoot(name))>>
    IN IF HasBuiltins(trie)
       THEN FirstAnswer([i \in DOMAIN answers |->
                {s \in answers[i] : s.name \notin Builtin}])
       ELSE LookUp(trie, name)

\* ScalaScope.GetScope.  A node is a new scope each time it is looked up, so none is
\* ever the remembered scala or java.lang scope, and none is passed over.
ScalaScopeAt(trie, name) ==
    IF HasBuiltins(trie)
    THEN FirstAnswer(
            <<ScopeAt(trie, name),
              ScopeAt(Only(ScopeAt(trie, <<"scala">>)), name),
              ScopeAt(Only(ScopeAt(trie, <<"java", "lang">>)), name),
              ScopeAt(trie, TrimRoot(name))>>)
    ELSE ScopeAt(trie, name)
=============================================================================
