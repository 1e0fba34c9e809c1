------------------------------ MODULE SymbolTable ------------------------------
(***************************************************************************)
(* What the resolver of a run may count on, whatever packages, parsers and *)
(* caches there are: rules are analysed one at a time, each at most once,  *)
(* and after each the table has exactly the names of the analysed rules,   *)
(* each with all the rules that define it; from the moment imports are     *)
(* resolved the table stays as it is, until the process ends.              *)
(***************************************************************************)
CONSTANTS
    Name,    \* the importable names
    Label    \* the rules

VARIABLES
    providers,  \* the rules under each name
    provides,   \* what the analysis of each rule found
    analysed,   \* the rules that were analysed
    closed      \* are imports being resolved?

vars == <<providers, provides, analysed, closed>>

Init ==
    /\ providers = [n \in Name |-> {}]
    /\ provides = [r \in Label |-> {}]
    /\ analysed = {}
    /\ closed = FALSE

Analyse(r, names) ==
    /\ ~closed
    /\ r \notin analysed
    /\ analysed' = analysed \cup {r}
    /\ provides' = [provides EXCEPT ![r] = names]
    /\ providers' = [n \in Name |-> {l \in analysed' : n \in provides'[l]}]
    /\ UNCHANGED closed

Close ==
    /\ ~closed
    /\ closed' = TRUE
    /\ UNCHANGED <<providers, provides, analysed>>

Forget ==
    /\ providers' = [n \in Name |-> {}]
    /\ provides' = [r \in Label |-> {}]
    /\ analysed' = {}
    /\ closed' = FALSE

Next ==
    \/ \E r \in Label, names \in SUBSET Name : Analyse(r, names)
    \/ Close
    \/ Forget

Spec == Init /\ [][Next]_vars
=============================================================================
