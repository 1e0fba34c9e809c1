------------------------------ MODULE MCRuleDeps ------------------------------
(***************************************************************************)
(* Two labels and an expression that is none; in every edit the user       *)
(* toggles one entry or tag, so every list and every pair of tags occurs.  *)
(***************************************************************************)
EXTENDS RuleDeps, TLC

Symmetric == Permutations(Label)
=============================================================================
