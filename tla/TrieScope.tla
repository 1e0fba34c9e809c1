------------------------------ MODULE TrieScope ------------------------------
(***************************************************************************)
(* The symbol table of the extension (pkg/resolver/trie_scope.go and       *)
(* pkg/resolver/symbol.go).  A scope maps an import name to one symbol; a  *)
(* symbol remembers the label that provides it and the other labels that   *)
(* were put under the same name (its Conflicts).                           *)
(*                                                                         *)
(* A symbol that only ever became a conflict of another one carries no     *)
(* conflicts itself, so a conflict is represented by its label alone.      *)
(* Import type, provider name and the Requires edges are left out: Put     *)
(* never looks at them.                                                    *)
(***************************************************************************)
EXTENDS Naturals, Sequences

CONSTANTS
    Name,      \* the fully qualified import names
    Label,     \* the Bazel labels that provide symbols
    NoSymbol   \* the nil value of a trie node

ASSUME NoSymbolAssumption ==
    NoSymbol \notin [label : Label, conflicts : Seq(Label)]

Symbol == [label : Label, conflicts : Seq(Label)]

Trie == [Name -> Symbol \cup {NoSymbol}]

EmptyTrie == [n \in Name |-> NoSymbol]

NewSymbol(l) == [label |-> l, conflicts |-> <<>>]

ConflictLabels(sym) == {sym.conflicts[i] : i \in DOMAIN sym.conflicts}

\* Every label the scope would report for a name.
LabelsAt(trie, n) ==
    IF trie[n] = NoSymbol THEN {} ELSE {trie[n].label} \cup ConflictLabels(trie[n])

-----------------------------------------------------------------------------
\* Symbol.Conflict: remembers another provider once per label.
Conflict(sym, l) ==
    IF l \in ConflictLabels(sym)
    THEN sym
    ELSE [sym EXCEPT !.conflicts = Append(@, l)]

\* A plausible slip, used to show that the properties can fail.
PutDropsConflict(current, l) ==
    IF current # NoSymbol /\ current.label # l THEN current ELSE NewSymbol(l)

\* TrieScope.Put at one name: a symbol of another label becomes a conflict of
\* the current one; a symbol of the same label replaces it, and the conflicts
\* that the replaced symbol had accumulated go with it.
PutOne(current, l) ==
    IF current # NoSymbol /\ current.label # l
    THEN Conflict(current, l)
    ELSE NewSymbol(l)

\* The puts of all the names that one rule provides.  Puts under different
\* names commute, and a rule that puts a name twice (a class and its companion
\* object) leaves the same table as one that puts it once.
PutAll(trie, l, names) ==
    [n \in Name |-> IF n \in names THEN PutOne(trie[n], l) ELSE trie[n]]

=============================================================================
