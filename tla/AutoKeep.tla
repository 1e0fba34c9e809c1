------------------------------- MODULE AutoKeep -------------------------------
(***************************************************************************)
(* The program autokeep (cmd/autokeep/autokeep.go, pkg/autokeep).  It      *)
(* builds rules once, reads the errors of the Scala compiler from the      *)
(* output, looks up who provides the symbols that were missing and edits   *)
(* the deps of the rules in their BUILD files: all the additions first,    *)
(* then the removals, one write for each, until one fails.                 *)
(*                                                                         *)
(* Bazel and the compiler are external: the output is any short sequence   *)
(* of lines.  Lines that no pattern of the scanner matches are left out.   *)
(***************************************************************************)
EXTENDS Naturals, Sequences, SequencesExt, TLC

CONSTANTS
    Rule,          \* labels of the rules in the BUILD files
    KeepTarget,    \* labels in error lines: rules, and test libraries of rules
    RuleOf,        \* [KeepTarget -> Rule], the target without the suffix _testlib
    Cache,         \* the rules of the cache file: sequence of [label, names]
    Table,         \* the symbol table when gazelle ended, from names to labels or
    PlatformLabel, \* the label of the platform's symbols
    KeepSymbol,    \* symbols and
    Dep,           \* dependencies that the compiler may complain about
    Files,         \* what intact BUILD files may hold: functions from Rule to sequences
    MaxLines       \* bound: lines of output

ASSUME KeepAssumption ==
    /\ RuleOf \in [KeepTarget -> Rule] /\ MaxLines \in Nat
    /\ \A file \in Files : file \in [Rule -> Seq(UNION {ToSet(file[r]) : r \in Rule})]

NoRule == <<"NoRule">>      \* the BUILD file is broken or lacks the rule
NoList == <<"NoList">>   \* no attribute deps, or something else than a list

VARIABLES
    keepPhase,    \* where run is
    output,       \* what the build printed
    diagnostics,  \* the ScalacErrors, sequence of [rule, error]
    adds,         \* what is left of DeltaDeps.Add and
    removes,      \* of DeltaDeps.Remove: sequences of [rule, deps]
    buildFiles,   \* the attribute deps of each rule on disk
    before        \* the same before the run

keepVars == <<keepPhase, output, diagnostics, adds, removes, buildFiles, before>>

-----------------------------------------------------------------------------
\* writeResolvedImportsMapFile: the imports file that gazelle leaves behind has all symbols,
\* and a word in the place of the label of those that need no dependency.
ImportsFile == [s \in DOMAIN Table |-> IF Table[s] = PlatformLabel THEN "NO_LABEL" ELSE Table[s]]

\* MergeDepsFromCache, later rules over earlier ones, and MergeDepsFromImports over both,
\* which takes the word for a label.
CacheMap ==
    FoldLeft(LAMBDA deps, rule : [s \in rule.names |-> rule.label] @@ deps, <<>>, Cache)
Deps == ImportsFile @@ CacheMap

NoError == [kind |-> "none", about |-> "nothing"]
Diagnostic(kind, about) == [kind |-> kind, about |-> about]
MissingErrors == {Diagnostic(k, s) : k \in {"MissingSymbol", "NotAMemberOfPackage"}, s \in KeepSymbol}
UnusedErrors == {Diagnostic("BuildozerUnusedDep", d) : d \in Dep}
ErrorLine(target) == [kind |-> "ScalacFailed", about |-> target]
ErrorLines == {ErrorLine(t) : t \in KeepTarget}
RequiredBy == [kind |-> "RequiredBy", about |-> "nothing"]
OutputLine == ErrorLines \cup MissingErrors \cup UnusedErrors \cup {RequiredBy}

\* One turn of ScanOutput.  Each error line opens a ScalacError and a diagnostic is
\* stored in the last one, over any that it has.  Without one that is a nil dereference,
\* and so is a "RequiredBy" line in any case: missingSymbol is never set.
ScanLine(state, line) ==
    IF state.panics THEN state
    ELSE IF line \in ErrorLines
    THEN [state EXCEPT !.errors = Append(@, [rule |-> RuleOf[line.about], error |-> NoError])]
    ELSE IF line = RequiredBy \/ state.errors = <<>>
    THEN [state EXCEPT !.panics = TRUE]
    ELSE [state EXCEPT !.errors[Len(state.errors)].error = line]

NoErrors == [errors |-> <<>>, panics |-> FALSE]
ScanOutput(lines) == FoldLeft(ScanLine, NoErrors, lines)

\* The dependency that an error asks to add or to remove.
DepOf(error) == IF error \in MissingErrors THEN Deps[error.about] ELSE error.about
ToAdd(e) == e.error \in MissingErrors /\ e.error.about \in DOMAIN Deps
ToRemove(e) == e.error \in UnusedErrors

\* Slip: the errors of a rule share one.
SharedRuleDeps(e) ==
    [rule |-> e.rule,
     deps |-> SetToSeq({DepOf(f.error) : f \in {g \in ToSet(diagnostics') :
                                         g.rule = e.rule /\ (ToAdd(g) \/ ToRemove(g))}})]

\* MakeDeltaDeps has a map of the rules it has made, but never writes it: each error
\* makes a RuleDeps of its own.
RuleDeps(e) == [rule |-> e.rule, deps |-> <<DepOf(e.error)>>]

\* MakeDeltaDeps, an error at a time.
NoDelta == [adds |-> <<>>, removes |-> <<>>]
AddDelta(delta, e) ==
    IF ToAdd(e) THEN [delta EXCEPT !.adds = Append(@, RuleDeps(e))]
    ELSE IF ToRemove(e) THEN [delta EXCEPT !.removes = Append(@, RuleDeps(e))]
    ELSE delta
MakeDeltaDeps(errors) == FoldLeft(AddDelta, NoDelta, errors)

-----------------------------------------------------------------------------
KeepInit ==
    /\ \E file \in Files :
        \/ buildFiles = file
        \/ \E r \in Rule, broken \in {NoRule, NoList} : buildFiles = [file EXCEPT ![r] = broken]
    /\ before = buildFiles
    /\ keepPhase = "build" /\ output = <<>> /\ diagnostics = <<>>
    /\ adds = <<>> /\ removes = <<>>

RuleBuilds ==
    /\ keepPhase = "build" /\ keepPhase' = "pass"
    /\ UNCHANGED <<output, diagnostics, adds, removes, buildFiles, before>>

RuleBuildFails ==
    /\ keepPhase = "build"
    /\ output' \in BoundedSeq(OutputLine, MaxLines)
    /\ keepPhase' = "scan"
    /\ UNCHANGED <<diagnostics, adds, removes, buildFiles, before>>

Scan ==
    /\ keepPhase = "scan"
    /\ LET scanned == ScanOutput(output) IN
        /\ keepPhase' = IF scanned.panics THEN "panicked" ELSE "apply"
        /\ diagnostics' = IF scanned.panics THEN <<>> ELSE scanned.errors
        /\ LET delta == MakeDeltaDeps(diagnostics')
           IN adds' = delta.adds /\ removes' = delta.removes
    /\ UNCHANGED <<output, buildFiles, before>>

Editable(rule) == buildFiles[rule] \notin {NoRule, NoList}

\* add and remove: load the file, find the rule, edit its list, write the file.
AddDeps ==
    /\ keepPhase = "apply" /\ adds # <<>> /\ Editable(Head(adds).rule)
    /\ buildFiles' = [buildFiles EXCEPT ![Head(adds).rule] = @ \o Head(adds).deps]
    /\ adds' = Tail(adds)
    /\ UNCHANGED <<keepPhase, output, diagnostics, removes, before>>

Without(list, deps) ==
    FoldLeft(LAMBDA kept, dep : IF dep \in ToSet(deps) THEN kept ELSE Append(kept, dep), <<>>, list)
RemoveDeps ==
    /\ keepPhase = "apply" /\ adds = <<>> /\ removes # <<>> /\ Editable(Head(removes).rule)
    /\ buildFiles' = [buildFiles EXCEPT ![Head(removes).rule] = Without(@, Head(removes).deps)]
    /\ removes' = Tail(removes)
    /\ UNCHANGED <<keepPhase, output, diagnostics, adds, before>>

\* The first delta that cannot be applied ends the run; those before it stay.
ApplyFails ==
    /\ keepPhase = "apply"
    /\ \/ adds # <<>> /\ ~Editable(Head(adds).rule)
       \/ adds = <<>> /\ removes # <<>> /\ ~Editable(Head(removes).rule)
    /\ keepPhase' = "failed"
    /\ UNCHANGED <<output, diagnostics, adds, removes, buildFiles, before>>

ApplyEnds ==
    /\ keepPhase = "apply" /\ adds = <<>> /\ removes = <<>>
    /\ keepPhase' = "done"
    /\ UNCHANGED <<output, diagnostics, adds, removes, buildFiles, before>>

KeepNext ==
    \/ RuleBuilds \/ RuleBuildFails \/ Scan
    \/ AddDeps \/ RemoveDeps \/ ApplyFails \/ ApplyEnds

KeepSpec == KeepInit /\ [][KeepNext]_keepVars

-----------------------------------------------------------------------------
\* Line i of the output belongs to the error line of rule r.
Concerns(i, r) ==
    \E j \in 1 .. i - 1 :
        /\ output[j] \in ErrorLines /\ RuleOf[output[j].about] = r
        /\ \A k \in j + 1 .. i : output[k] \notin ErrorLines

LastOfItsError(i) == i = Len(output) \/ output[i + 1] \in ErrorLines

ReportedFor(r) == {output[i] : i \in {j \in DOMAIN output : Concerns(j, r)}}

\* The edits are what the build asked for, although it asks rule by rule and the edits
\* are made file by file and may stop half-way: nothing is added to a rule but providers
\* of symbols that it missed, nothing is taken from it but what it does not use, and
\* when all went well the last complaint of each error is settled ("keep: deps where
\* needed", cmd/autokeep/autokeep.go:14).  Earlier complaints of an error are lost.
EditsAreReported ==
    /\ \A r \in Rule :
        IF before[r] \in {NoRule, NoList} THEN buildFiles[r] = before[r]
        ELSE /\ \A d \in ToSet(buildFiles[r]) \ ToSet(before[r]) :
                    \E m \in ReportedFor(r) \cap MissingErrors : m.about \in DOMAIN Deps /\ Deps[m.about] = d
             /\ \A d \in ToSet(before[r]) \ ToSet(buildFiles[r]) :
                    Diagnostic("BuildozerUnusedDep", d) \in ReportedFor(r)
    /\ keepPhase = "done" =>
        \A r \in Rule : \A i \in DOMAIN output :
            Concerns(i, r) /\ LastOfItsError(i) =>
                /\ output[i] \in UnusedErrors => output[i].about \notin ToSet(buildFiles[r])
                /\ output[i] \in MissingErrors /\ output[i].about \in DOMAIN Deps =>
                    \/ Deps[output[i].about] \in ToSet(buildFiles[r])
                    \/ Diagnostic("BuildozerUnusedDep", Deps[output[i].about]) \in ReportedFor(r)
=============================================================================
