--------------------------- MODULE MCSymbolResolver ---------------------------
(***************************************************************************)
(* Two packages; one class that is provided by two libraries and spelled   *)
(* with and without _root_, one known to the rule index only, one package  *)
(* imported with a wildcard, and one unknown import.                       *)
(***************************************************************************)
EXTENDS SymbolResolver

MCPkg == {"p", "q"}
MCImport == {"Empty", "_root_.Empty", "Greeter", "pkg", "pkg._", "Unknown"}
MCLabel == {"protos", "maven", "greeter_jvm", "pkg_lib"}
MCTrim == [i \in MCImport |->
    CASE i = "_root_.Empty" -> "Empty" [] i = "pkg._" -> "pkg" [] OTHER -> i]
MCInScope == [i \in MCImport |-> IF i = "Empty" THEN "maven" ELSE None]
MCInIndex == [i \in MCImport |-> IF i = "Greeter" THEN "greeter_jvm" ELSE None]
MCInPackages == [i \in MCImport |-> IF i = "pkg" THEN "pkg_lib" ELSE None]

\* # gazelle:resolve scala scala Empty protos
ChooseProtos == [i \in MCImport |-> IF i = "Empty" THEN "protos" ELSE None]
NoDirective == [i \in MCImport |-> None]

\* The directive in no BUILD file, in the root, or in one of the packages.
MCOverrides ==
    {[p \in MCPkg |-> IF p \in choosing THEN ChooseProtos ELSE NoDirective] :
        choosing \in SUBSET MCPkg}
MCOnePackage == {[p \in MCPkg |-> IF p = "q" THEN ChooseProtos ELSE NoDirective]}
=============================================================================
