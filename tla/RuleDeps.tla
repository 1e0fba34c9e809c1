------------------------------- MODULE RuleDeps -------------------------------
(***************************************************************************)
(* How the deps (or exports) attribute of one rule evolves over runs of    *)
(* gazelle: ruleAttrMergeDeps and mergeDeps of pkg/scalaconfig/config.go,  *)
(* called for the rule twice in every run (scalaPackage.Resolve and        *)
(* Finalize), with the user editing the BUILD file between the runs.       *)
(*                                                                         *)
(* The list is sorted at the end of each pass, so it is a set of entries.  *)
(* An entry is an expression: a label as it is written there, or anything  *)
(* else (Opaque), and its comment.  Debug annotations are left out.        *)
(* The labels the imports need do not change between the two passes (see   *)
(* module SymbolResolver), nor do those that the deps cleaners turn down.  *)
(***************************************************************************)
EXTENDS Naturals

CONSTANTS
    Label,
    Opaque      \* an expression that is not a label

ASSUME OpaqueAssumption == Opaque \notin Label

Mark == {"none", "keep", "TRANSITIVE"}
Entry == [dep : Label \cup {Opaque}, mark : Mark]
Tag == {"cleanup-unmanaged-deps", "no-unmanaged-deps"}

VARIABLES
    attr,          \* "deps" or "exports"
    keepUnmanaged, \* gazelle:scala_keep_unmanaged_deps
    list,          \* the entries of the attribute
    tags,          \* the tags of the rule
    pass,          \* 0 outside of the resolve phase, else 1 + the passes made
    needed,        \* the labels that provide the imports
    unwanted,      \* those of them a deps cleaner sets to false
    unmanaged,     \* the private attribute _unmanaged_deps
    before, tagsBefore  \* history: the rule when the run started

vars == <<attr, keepUnmanaged, list, tags, pass, needed, unwanted, unmanaged, before, tagsBefore>>

wanted == needed \ unwanted

-----------------------------------------------------------------------------
\* shouldKeepUnmanagedDeps
KeepsUnmanaged == attr # "deps" \/ ("no-unmanaged-deps" \notin tags /\ keepUnmanaged)

IsUnmanaged(e) == e.dep # Opaque /\ e.mark # "keep" /\ e.dep \notin needed

\* Plausible slips, here and below, used to show that the properties can fail.
StaysWithoutMark(e) ==
    e.dep = Opaque \/ (IsUnmanaged(e) /\ ("cleanup-unmanaged-deps" \in tags \/ KeepsUnmanaged))

\* The first loop: the entries that mergeDeps copies.  An entry the imports need is
\* made anew or, if a cleaner does not want it, lost with its keep comment.
Stays(e) ==
    \/ e.dep = Opaque
    \/ e.mark = "keep" /\ e.dep \notin needed
    \/ /\ IsUnmanaged(e)
       /\ \/ "cleanup-unmanaged-deps" \in tags
          \/ e.mark = "TRANSITIVE"
          \/ KeepsUnmanaged

\* The second loop.
Generated == {[dep |-> l, mark |-> "none"] : l \in wanted}

MergedSkipsPresent == {e \in list : Stays(e)} \cup (Generated \ list)

MergedKeepsAll == list \cup Generated

Merged == {e \in list : Stays(e)} \cup Generated

UnmanagedEntries == {e \in list : IsUnmanaged(e)}

TagsKept == tags

\* The tag goes when there was nothing to clean up, or nothing will be kept anyway.
TagsAfter ==
    IF attr = "deps" /\ (UnmanagedEntries = {} \/ "no-unmanaged-deps" \in tags)
    THEN tags \ {"cleanup-unmanaged-deps"}
    ELSE tags

RecordAll == {e.dep : e \in list}

\* A pass without unmanaged deps does not touch what an earlier one recorded.
Recorded ==
    IF attr = "deps" /\ "cleanup-unmanaged-deps" \in tags /\ UnmanagedEntries # {}
    THEN {e.dep : e \in UnmanagedEntries}
    ELSE unmanaged

-----------------------------------------------------------------------------
Init ==
    /\ attr \in {"deps", "exports"} /\ keepUnmanaged \in BOOLEAN
    /\ list = {} /\ tags = {}
    /\ pass = 0 /\ needed = {} /\ unwanted = {} /\ unmanaged = {}
    /\ before = {} /\ tagsBefore = {}

EditEntry(e) ==
    /\ pass = 0
    /\ list' = IF e \in list THEN list \ {e} ELSE list \cup {e}
    /\ UNCHANGED <<attr, keepUnmanaged, tags, pass, needed, unwanted, unmanaged, before, tagsBefore>>

EditTag(t) ==
    /\ pass = 0
    /\ tags' = IF t \in tags THEN tags \ {t} ELSE tags \cup {t}
    /\ UNCHANGED <<attr, keepUnmanaged, list, pass, needed, unwanted, unmanaged, before, tagsBefore>>

\* Gazelle reaches the resolve phase, whatever the sources import by now.
StartRun ==
    /\ pass = 0
    /\ pass' = 1
    /\ needed' \in SUBSET Label
    /\ unwanted' \in SUBSET needed'
    /\ before' = list /\ tagsBefore' = tags
    /\ UNCHANGED <<attr, keepUnmanaged, list, tags, unmanaged>>

RuleAttrMergeDeps ==
    /\ pass \in {1, 2}
    /\ list' = Merged
    /\ tags' = TagsAfter
    /\ unmanaged' = Recorded
    /\ pass' = pass + 1
    /\ UNCHANGED <<attr, keepUnmanaged, needed, unwanted, before, tagsBefore>>

\* The BUILD file is saved, what the process remembers goes.
SaveFile ==
    /\ pass = 3
    /\ pass' = 0
    /\ needed' = {} /\ unwanted' = {} /\ unmanaged' = {} /\ before' = {} /\ tagsBefore' = {}
    /\ UNCHANGED <<attr, keepUnmanaged, list, tags>>

Next ==
    \/ \E e \in Entry : EditEntry(e)
    \/ \E t \in Tag : EditTag(t)
    \/ StartRun \/ RuleAttrMergeDeps \/ SaveFile

Spec == Init /\ [][Next]_vars

-----------------------------------------------------------------------------
TypeOK ==
    /\ attr \in {"deps", "exports"} /\ keepUnmanaged \in BOOLEAN
    /\ list \subseteq Entry /\ before \subseteq Entry
    /\ tags \subseteq Tag /\ tagsBefore \subseteq Tag
    /\ pass \in 0 .. 3
    /\ needed \subseteq Label /\ unwanted \subseteq needed /\ unmanaged \subseteq Label

\* Two passes are enough: what is saved would not be changed by a third pass, so a
\* second run of gazelle over the saved file has nothing to do.
PassesSettle == pass = 3 => Merged = list /\ TagsAfter = tags

\* After a run every label the imports need is there, exactly once, and a label that
\* a deps cleaner turned down is not, whatever the file said of it.
DepsFollowImports ==
    pass > 1 =>
        \A l \in needed : {e \in list : e.dep = l} = {e \in Generated : e.dep = l}

\* What is neither needed nor stale is the user's: an expression that is no label, and
\* an unneeded label under "# keep" or "# TRANSITIVE", are saved as they were found.
UsersEntriesSurvive ==
    pass > 0 =>
        \A e \in before : e.dep \notin needed /\ (e.dep = Opaque \/ e.mark # "none") => e \in list

\* A run makes nothing up: what is there and not needed was in the file.
EntriesFromFile == pass > 0 => list \ Generated \subseteq before

\* A rule whose unmanaged deps are to be kept, by the directive or because the attribute
\* is exports, loses no entry the imports do not need.
UnmanagedKept ==
    pass > 0 /\ KeepsUnmanaged => {e \in before : e.dep \notin needed} \subseteq list

\* A rule tagged for cleanup loses no unneeded dep as long as it has the tag, and
\* what is recorded for the cleanup file is what the second pass still found.
CleanupRecordsAll ==
    pass = 3 /\ attr = "deps" /\ tagsBefore = {"cleanup-unmanaged-deps"} =>
        LET unneeded == {e \in before : e.dep \notin needed /\ e.dep # Opaque}
        IN /\ unneeded \subseteq list
           /\ unmanaged = {e.dep : e \in {x \in unneeded : x.mark # "keep"}}
           /\ (tags = {}) = (unmanaged = {})

\* Entries neither appear nor go unaccounted where the rule or its package says how
\* unmanaged deps are to be treated.  Which of them go where nothing is said is left open:
\* a dep that no provider is confident about is to be left alone (README.md:526-530), and
\* mergeDeps deletes it like the others.
EveryEntryAccounted == EntriesFromFile /\ UnmanagedKept /\ CleanupRecordsAll
=============================================================================
