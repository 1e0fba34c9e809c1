----------------------------- MODULE MCScalaLang -----------------------------
(***************************************************************************)
(* Two packages, one with two rules, and a directory without a BUILD file. *)
(* The rules "a" and "b" live in different packages and may define the     *)
(* same name.                                                              *)
(***************************************************************************)
EXTENDS ColdRun

MCWalk == <<"p", "q", "none">>
MCPkg == {"p", "q", "none"}
MCLabel == {"a", "b", "c"}
MCPkgOf == [r \in MCLabel |-> IF r = "b" THEN "q" ELSE "p"]
MCBuildable == {"p", "q"}
MCLabelOrder == <<"a", "b", "c">>
MCName == {"X", "Y"}
MCSource == {1, 2}
MCDefines == [s \in MCSource |-> IF s = 1 THEN {"X"} ELSE {"X", "Y"}]

\* Every workspace in which "c", if it exists, has the first text.
MCInitialDisk == {d \in [MCLabel -> {Absent} \cup MCSource] : d["c"] # 2}

\* The two rules of package "p" and the one of "q", all with the first text.
MCFullDisk == {[r \in MCLabel |-> 1]}

\* "a" and "b" only.
MCPairDisk == {[r \in MCLabel |-> IF r = "c" THEN Absent ELSE 1]}
=============================================================================
