---------------------------- MODULE RuleDeps_proofs ----------------------------
(***************************************************************************)
(* Proofs about the merging of deps and exports: for every set of labels   *)
(* and any number of runs and edits.  The invariant of the two passes is   *)
(* stated by what each pass may rely on, never by the list it computes.    *)
(***************************************************************************)
EXTENDS RuleDeps, TLAPS

\* From the first pass on, needed labels have generated entries and no others.
NeededGenerated ==
    pass > 1 => Generated \subseteq list /\ \A e \in list : e.dep \in needed => e \in Generated

\* A pass leaves the cleanup tag only to a rule that has something to clean up.
TagHasUse ==
    pass > 1 /\ attr = "deps" /\ "cleanup-unmanaged-deps" \in tags =>
        UnmanagedEntries # {} /\ "no-unmanaged-deps" \notin tags

\* The unmanaged entries that the second pass leaves would survive a third.
RestStays == pass = 3 => \A e \in list : IsUnmanaged(e) => Stays(e)

\* The unneeded labels a rule had when the run started, and the ones without "# keep".
Unneeded == {e \in before : e.dep \notin needed /\ e.dep # Opaque}
ToCleanUp == {e \in Unneeded : e.mark # "keep"}

\* What a rule that is tagged for cleanup, and only for that, goes through.
CleanupProgress ==
    attr = "deps" /\ tagsBefore = {"cleanup-unmanaged-deps"} =>
        /\ pass = 1 => list = before /\ tags = tagsBefore
        /\ pass > 1 =>
            /\ Unneeded \subseteq list
            /\ tags = IF ToCleanUp = {} THEN {} ELSE tagsBefore
            /\ unmanaged = {e.dep : e \in ToCleanUp}

\* Nothing is recorded before the first pass.
NothingRecorded == pass \in {0, 1} => unmanaged = {}

\* The inductive invariant.
IInv ==
    /\ TypeOK
    /\ NeededGenerated
    /\ EntriesFromFile
    /\ UsersEntriesSurvive
    /\ UnmanagedKept
    /\ TagHasUse
    /\ RestStays
    /\ CleanupProgress
    /\ NothingRecorded
-----------------------------------------------------------------------------
\* A generated entry has a label the imports need, and no mark.
LEMMA GeneratedIsNeeded ==
    ASSUME TypeOK, NEW e \in Generated
    PROVE  e \in Entry /\ e.dep \in needed /\ e.dep # Opaque /\ e.mark = "none"
BY OpaqueAssumption DEF TypeOK, Generated, wanted, Entry, Mark

\* An entry that a pass copies belongs to no needed label.
LEMMA StaysIsUnneeded ==
    ASSUME TypeOK, NEW e \in list, Stays(e)
    PROVE  e.dep \notin needed
BY OpaqueAssumption DEF TypeOK, Stays, IsUnmanaged

\* A pass keeps the types.
LEMMA MergeTypes ==
    ASSUME TypeOK
    PROVE  Merged \subseteq Entry /\ TagsAfter \subseteq Tag /\ Recorded \subseteq Label
<1>1. Merged \subseteq Entry
  BY GeneratedIsNeeded DEF TypeOK, Merged
<1>2. TagsAfter \subseteq Tag
  BY DEF TypeOK, TagsAfter
<1>3. \A e \in UnmanagedEntries : e.dep \in Label
  BY DEF TypeOK, UnmanagedEntries, IsUnmanaged, Entry
<1>4. Recorded \subseteq Label
  BY <1>3 DEF TypeOK, Recorded
<1> QED BY <1>1, <1>2, <1>4

\* The state of the run at the start and the sets derived from it are not changed
\* by a pass.
LEMMA PassKeeps ==
    ASSUME RuleAttrMergeDeps
    PROVE  /\ needed' = needed /\ unwanted' = unwanted /\ before' = before
           /\ tagsBefore' = tagsBefore /\ attr' = attr /\ keepUnmanaged' = keepUnmanaged
           /\ Generated' = Generated /\ Unneeded' = Unneeded /\ ToCleanUp' = ToCleanUp
           /\ \A e : IsUnmanaged(e)' = IsUnmanaged(e)
BY DEF RuleAttrMergeDeps, Generated, wanted, Unneeded, ToCleanUp, IsUnmanaged

\* A pass leaves the unmanaged entries that stay, no other.
LEMMA UnmanagedAfterPass ==
    ASSUME TypeOK, RuleAttrMergeDeps
    PROVE  UnmanagedEntries' = {e \in UnmanagedEntries : Stays(e)}
BY PassKeeps, GeneratedIsNeeded DEF RuleAttrMergeDeps, Merged, UnmanagedEntries, IsUnmanaged

-----------------------------------------------------------------------------
\* A rule as gazelle first meets it.
LEMMA InitInv == Init => IInv
BY DEF Init, IInv, TypeOK, NeededGenerated, EntriesFromFile, UsersEntriesSurvive, UnmanagedKept,
       TagHasUse, RestStays, CleanupProgress, NothingRecorded, Entry, Tag

\* One pass, conjunct by conjunct.
LEMMA PassInv ==
    ASSUME IInv, RuleAttrMergeDeps
    PROVE  IInv'
<1> USE PassKeeps
<1>t. TypeOK /\ pass \in {1, 2} /\ pass' = pass + 1
  BY DEF IInv, RuleAttrMergeDeps
<1>m. /\ list' = {e \in list : Stays(e)} \cup Generated
      /\ tags' = TagsAfter
      /\ unmanaged' = Recorded
  BY DEF RuleAttrMergeDeps, Merged
<1>1. TypeOK'
  BY <1>t, <1>m, MergeTypes DEF RuleAttrMergeDeps, TypeOK
<1>2. NeededGenerated'
  BY <1>t, <1>m, StaysIsUnneeded DEF NeededGenerated
<1>3. EntriesFromFile'
  BY <1>t, <1>m DEF IInv, EntriesFromFile
<1>4. UsersEntriesSurvive'
  <2>. SUFFICES ASSUME NEW e \in before, e.dep \notin needed, e.dep = Opaque \/ e.mark # "none"
                PROVE  e \in list'
    BY DEF UsersEntriesSurvive
  <2>1. e \in list /\ e.mark \in Mark
    BY <1>t DEF IInv, UsersEntriesSurvive, TypeOK, Entry
  <2>2. Stays(e)
    BY <2>1 DEF Stays, IsUnmanaged, Mark
  <2> QED BY <1>m, <2>1, <2>2
<1>5. TagHasUse'
  <2>. SUFFICES ASSUME attr = "deps", "cleanup-unmanaged-deps" \in tags'
                PROVE  UnmanagedEntries' # {} /\ "no-unmanaged-deps" \notin tags'
    BY DEF TagHasUse
  <2>1. /\ "cleanup-unmanaged-deps" \in tags /\ tags' = tags
        /\ UnmanagedEntries # {} /\ "no-unmanaged-deps" \notin tags
    BY <1>m DEF TagsAfter
  <2>2. UnmanagedEntries' = UnmanagedEntries
    BY <1>t, <2>1, UnmanagedAfterPass DEF Stays, UnmanagedEntries
  <2> QED BY <2>1, <2>2
<1>6. RestStays'
  <2>. SUFFICES ASSUME pass = 2, NEW e \in list', IsUnmanaged(e)
                PROVE  Stays(e)'
    BY <1>t DEF RestStays
  <2>1. e \in list /\ Stays(e)
    BY <1>t, <1>m, GeneratedIsNeeded DEF IsUnmanaged
  <2>2. CASE attr = "deps" /\ "cleanup-unmanaged-deps" \in tags
    <3>1. tags' = tags
      BY <1>t, <1>m, <2>2 DEF IInv, TagHasUse, TagsAfter
    <3> QED BY <2>1, <3>1 DEF Stays, KeepsUnmanaged
  <2>3. CASE attr = "deps" /\ "cleanup-unmanaged-deps" \notin tags
    <3>1. tags' = tags
      BY <1>m, <2>3 DEF TagsAfter
    <3> QED BY <2>1, <3>1 DEF Stays, KeepsUnmanaged
  <2>4. CASE attr # "deps"
    BY <2>1, <2>4 DEF Stays, KeepsUnmanaged
  <2> QED BY <2>2, <2>3, <2>4
<1>7. CleanupProgress'
  <2>. SUFFICES ASSUME attr = "deps", tagsBefore = {"cleanup-unmanaged-deps"}
                PROVE  /\ Unneeded \subseteq list'
                       /\ tags' = IF ToCleanUp = {} THEN {} ELSE tagsBefore
                       /\ unmanaged' = {e.dep : e \in ToCleanUp}
    BY <1>t DEF CleanupProgress
  <2>1. Unneeded \subseteq list
    BY <1>t DEF IInv, CleanupProgress, Unneeded
  <2>2. tags = tagsBefore \/ (tags = {} /\ ToCleanUp = {})
    BY <1>t DEF IInv, CleanupProgress
  <2>3. UnmanagedEntries = ToCleanUp
    <3>1. UnmanagedEntries \subseteq ToCleanUp
      BY <1>t, GeneratedIsNeeded
      DEF IInv, EntriesFromFile, UnmanagedEntries, IsUnmanaged, ToCleanUp, Unneeded
    <3>2. ToCleanUp \subseteq UnmanagedEntries
      BY <2>1 DEF UnmanagedEntries, IsUnmanaged, ToCleanUp, Unneeded
    <3> QED BY <3>1, <3>2
  <2>4. \A e \in Unneeded : Stays(e)
    <3>. SUFFICES ASSUME NEW e \in Unneeded, e.mark # "keep"
                  PROVE  Stays(e)
      BY DEF Stays, Unneeded
    <3>1. e \in ToCleanUp /\ tags = tagsBefore
      BY <2>2 DEF ToCleanUp
    <3> QED BY <3>1 DEF Stays, IsUnmanaged, ToCleanUp, Unneeded
  <2>5. Unneeded \subseteq list'
    BY <1>m, <2>1, <2>4
  <2>6. tags' = IF ToCleanUp = {} THEN {} ELSE tagsBefore
    BY <1>m, <2>2, <2>3 DEF TagsAfter
  <2>7. unmanaged' = {e.dep : e \in ToCleanUp}
    <3>1. CASE ToCleanUp # {}
      BY <1>m, <2>2, <2>3, <3>1 DEF Recorded
    <3>2. CASE ToCleanUp = {}
      <4>1. unmanaged = {}
        BY <1>t, <3>2 DEF IInv, CleanupProgress, NothingRecorded
      <4> QED BY <1>m, <2>3, <3>2, <4>1 DEF Recorded
    <3> QED BY <3>1, <3>2
  <2> QED BY <2>5, <2>6, <2>7
<1>8. NothingRecorded'
  BY <1>t DEF NothingRecorded
<1>9. UnmanagedKept'
  <2>1. KeepsUnmanaged' => KeepsUnmanaged
    BY <1>m DEF KeepsUnmanaged, TagsAfter
  <2>. SUFFICES ASSUME KeepsUnmanaged, NEW e \in before, e.dep \notin needed
                PROVE  e \in list'
    BY <2>1 DEF UnmanagedKept
  <2>2. e \in list
    BY <1>t DEF IInv, UnmanagedKept
  <2>3. Stays(e)
    BY <2>2 DEF Stays, IsUnmanaged
  <2> QED BY <1>m, <2>2, <2>3
<1> QED BY <1>1, <1>2, <1>3, <1>4, <1>5, <1>6, <1>7, <1>8, <1>9 DEF IInv

\* The other steps: the user outside of the runs, and the start and end of a run.
LEMMA StepInv == IInv /\ [Next]_vars => IInv'
<1>. SUFFICES ASSUME IInv, [Next]_vars
              PROVE  IInv'
  OBVIOUS
<1>. USE DEF IInv, NeededGenerated, EntriesFromFile, UsersEntriesSurvive, UnmanagedKept, TagHasUse,
             RestStays, CleanupProgress, NothingRecorded
<1>1. ASSUME NEW e \in Entry, EditEntry(e)
      PROVE  IInv'
  BY <1>1 DEF EditEntry, TypeOK
<1>2. ASSUME NEW t \in Tag, EditTag(t)
      PROVE  IInv'
  BY <1>2 DEF EditTag, TypeOK
<1>3. CASE StartRun
  <2>1. TypeOK'
    BY <1>3 DEF StartRun, TypeOK
  <2>2. pass' = 1 /\ list' = before' /\ tags' = tagsBefore'
    BY <1>3 DEF StartRun
  <2>3. unmanaged' = {}
    BY <1>3 DEF StartRun
  <2> QED BY <2>1, <2>2, <2>3
<1>4. CASE RuleAttrMergeDeps
  BY <1>4, PassInv
<1>5. CASE SaveFile
  BY <1>5 DEF SaveFile, TypeOK
<1>6. CASE UNCHANGED vars
  BY <1>6 DEF vars, TypeOK, UnmanagedEntries, IsUnmanaged, Stays, KeepsUnmanaged, Generated, wanted,
              Unneeded, ToCleanUp
<1> QED BY <1>1, <1>2, <1>3, <1>4, <1>5, <1>6 DEF Next

\* The properties follow from the invariant: a third pass would change nothing.
LEMMA InvSettles == IInv => PassesSettle
<1>. SUFFICES ASSUME IInv, pass = 3
              PROVE  Merged = list /\ TagsAfter = tags
  BY DEF PassesSettle
<1>1. \A e \in list \ Generated : Stays(e)
  <2>. SUFFICES ASSUME NEW e \in list, e \notin Generated, ~IsUnmanaged(e)
                PROVE  Stays(e)
    BY DEF IInv, RestStays
  <2> QED BY DEF IInv, NeededGenerated, IsUnmanaged, Stays
<1>2. Merged = list
  BY <1>1 DEF IInv, NeededGenerated, Merged
<1>3. TagsAfter = tags
  BY DEF IInv, TagHasUse, TagsAfter
<1> QED BY <1>2, <1>3

\* One entry for each wanted label, none for the unwanted ones.
LEMMA InvFollowsImports == IInv => DepsFollowImports
<1>. SUFFICES ASSUME IInv, pass > 1, NEW l \in needed
              PROVE  {e \in list : e.dep = l} = {e \in Generated : e.dep = l}
  BY DEF DepsFollowImports
<1> QED BY DEF IInv, NeededGenerated

\* The record of a cleanup is complete.
LEMMA InvRecords == IInv => CleanupRecordsAll
<1>. SUFFICES ASSUME IInv, pass = 3, attr = "deps", tagsBefore = {"cleanup-unmanaged-deps"}
              PROVE  /\ Unneeded \subseteq list
                     /\ unmanaged = {e.dep : e \in ToCleanUp}
                     /\ (tags = {}) = (unmanaged = {})
  BY DEF CleanupRecordsAll, Unneeded, ToCleanUp
<1>1. /\ Unneeded \subseteq list
      /\ tags = IF ToCleanUp = {} THEN {} ELSE tagsBefore
      /\ unmanaged = {e.dep : e \in ToCleanUp}
  BY DEF IInv, CleanupProgress
<1>2. (unmanaged = {}) <=> (ToCleanUp = {})
  BY <1>1
<1> QED BY <1>1, <1>2
-----------------------------------------------------------------------------
\* The invariant holds in every run of gazelle over any BUILD file.
THEOREM Invariance == Spec => []IInv
BY InitInv, StepInv, PTL DEF Spec

\* The attributes, tags and records of a rule keep their types.
THEOREM TypeCorrect == Spec => []TypeOK
<1>1. IInv => TypeOK
  BY DEF IInv
<1> QED BY <1>1, Invariance, PTL

\* Two merge passes are enough: a second run over the saved file changes nothing.
THEOREM TwoPassesSettle == Spec => []PassesSettle
BY InvSettles, Invariance, PTL

\* After a pass the needed labels, and of the labels the imports led to only those,
\* are listed, each by one entry.
THEOREM ImportsDecide == Spec => []DepsFollowImports
BY InvFollowsImports, Invariance, PTL

\* No pass touches what the user protected and the imports do not need.
THEOREM ProtectedSurvive == Spec => []UsersEntriesSurvive
<1>1. IInv => UsersEntriesSurvive
  BY DEF IInv
<1> QED BY <1>1, Invariance, PTL

\* A run makes no entry up, takes none that is to be kept, and takes none from a rule
\* that is tagged for cleanup before it is recorded.
THEOREM EntriesAccounted == Spec => []EveryEntryAccounted
<1>1. IInv => EveryEntryAccounted
  BY InvRecords DEF IInv, EveryEntryAccounted
<1> QED BY <1>1, Invariance, PTL
=============================================================================
