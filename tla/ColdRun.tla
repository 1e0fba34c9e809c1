-------------------------------- MODULE ColdRun --------------------------------
(***************************************************************************)
(* A run of gazelle that has no cache to load implements SymbolTable: the  *)
(* labels that TrieScope keeps under a name, as its symbol or as one of    *)
(* the conflicts of that symbol, are the providers of the name.  (A run    *)
(* with a cache does not: see NoStaleProvider.)                            *)
(***************************************************************************)
EXTENDS ScalaLang

Table ==
    INSTANCE SymbolTable WITH
        providers <- [n \in Name |-> LabelsAt(globalScope, n)],
        provides <- [r \in Label |-> IF r \in generated THEN Defines[memo[r].src] ELSE {}],
        analysed <- generated,
        closed <- phase = "resolve"

\* The table has every provider of a name and no other ("Conflicts is a list of
\* symbols provided by another provider or label", symbol.go:29), although a put under
\* a taken name changes the symbol of another rule, rules may fail half-way, and the
\* sources change while they are read; and it stays the same while rules are resolved.
ImplementsSymbolTable == Table!Spec
=============================================================================
