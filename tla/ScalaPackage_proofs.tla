------------------------- MODULE ScalaPackage_proofs -------------------------
(***************************************************************************)
(* Proofs about the walk: the lists of a configuration, whose arrays are   *)
(* shared; the settings and rule configurations, which are not; and, from  *)
(* the generated packages to the last resolved rule, what aggregates the   *)
(* rules of many packages, and which existing rules a package is made of.  *)
(***************************************************************************)
EXTENDS ScalaPackage, Induction, FiniteSetTheorems, TLAPS

(***************************************************************************)
(* What a list of intents says, intent by intent.                          *)
(***************************************************************************)
Cell == Item \cup {Empty}

\* The lists without repeats.
Lists == {list \in Seq(Cell) : IsInjective(list)}

AppliedFcn == [list \in Lists |-> [intent \in Intent |-> Applied(list, intent)]]

\* Without its only occurrence of an item, a list is shifted from there.
LEMMA RemoveFirstShifts ==
    ASSUME NEW list \in Lists, NEW i \in 1 .. Len(list)
    PROVE  /\ RemoveFirst(list, list[i]) \in Lists
           /\ Len(RemoveFirst(list, list[i])) = Len(list) - 1
           /\ \A j \in 1 .. Len(list) - 1 :
                RemoveFirst(list, list[i])[j] = IF j < i THEN list[j] ELSE list[j + 1]
<1>1. list \in Seq(Cell) /\ IsInjective(list) /\ Len(list) \in Nat /\ DOMAIN list = 1 .. Len(list)
  BY DEF Lists
<1>2. {k \in 1 .. Len(list) : list[k] = list[i]} = {i}
  BY <1>1 DEF IsInjective
<1>3. SelectInSeq(list, LAMBDA v : v = list[i]) = i
  <2>1. Min({i}) = i
    BY DEF Min
  <2> QED BY <1>2, <2>1 DEF SelectInSeq
<1>4. RemoveFirst(list, list[i]) = RemoveAt(list, i)
  BY <1>3 DEF RemoveFirst
<1>. DEFINE front == SubSeq(list, 1, i - 1)
            back == SubSeq(list, i + 1, Len(list))
            shifted == RemoveAt(list, i)
<1>5. front \in Seq(Cell) /\ Len(front) = i - 1 /\ \A j \in 1 .. i - 1 : front[j] = list[j]
  <2>1. \A j \in 1 .. i - 1 : list[j] \in Cell
    BY <1>1
  <2>2. i - 1 \in Int /\ 1 \in Int
    BY <1>1
  <2> QED BY <1>1, <2>1, <2>2, SubSeqProperties
<1>6. back \in Seq(Cell) /\ Len(back) = Len(list) - i /\ \A j \in 1 .. Len(list) - i : back[j] = list[j + i]
  <2>1. \A j \in i + 1 .. Len(list) : list[j] \in Cell
    BY <1>1
  <2>2. i + 1 \in Int /\ Len(list) \in Int
    BY <1>1
  <2>3. /\ back \in Seq(Cell)
        /\ Len(back) = IF i + 1 <= Len(list) THEN Len(list) - (i + 1) + 1 ELSE 0
        /\ \A j \in 1 .. Len(list) - (i + 1) + 1 : back[j] = list[(i + 1) + j - 1]
    BY <2>1, <2>2, SubSeqProperties
  <2>. HIDE DEF back
  <2>4. Len(list) - (i + 1) + 1 = Len(list) - i /\ \A j \in 1 .. Len(list) - i : (i + 1) + j - 1 = j + i
    BY <1>1
  <2>5. Len(back) = Len(list) - i
    <3>1. CASE i + 1 <= Len(list)
      <4>1. Len(back) = Len(list) - (i + 1) + 1
        BY <2>3, <3>1
      <4> QED BY <1>1, <4>1
    <3>2. CASE ~(i + 1 <= Len(list))
      <4>1. Len(back) = 0
        BY <2>3, <3>2
      <4>2. Len(list) \in Nat
        BY <1>1
      <4>3. i = Len(list)
        BY <3>2, <4>2
      <4> QED BY <4>1, <4>2, <4>3
    <3> QED BY <3>1, <3>2
  <2> QED BY <2>3, <2>4, <2>5
<1>. HIDE DEF front, back
<1>7. /\ shifted \in Seq(Cell) /\ Len(shifted) = Len(list) - 1
      /\ \A j \in 1 .. Len(list) - 1 : shifted[j] = IF j <= i - 1 THEN front[j] ELSE back[j - (i - 1)]
  <2>1. shifted = front \o back
    BY DEF RemoveAt, front, back
  <2>2. Len(front) + Len(back) = Len(list) - 1
    BY <1>1, <1>5, <1>6
  <2>3. /\ front \o back \in Seq(Cell) /\ Len(front \o back) = Len(front) + Len(back)
        /\ \A j \in 1 .. Len(front) + Len(back) :
              (front \o back)[j] = IF j <= Len(front) THEN front[j] ELSE back[j - Len(front)]
    BY <1>5, <1>6, ConcatProperties
  <2>. HIDE DEF shifted
  <2> QED BY <1>5, <2>1, <2>2, <2>3
<1>. HIDE DEF shifted
<1>8. ASSUME NEW j \in 1 .. Len(list) - 1
      PROVE  shifted[j] = IF j < i THEN list[j] ELSE list[j + 1]
  <2>1. CASE j < i
    BY <1>1, <1>5, <1>7, <2>1
  <2>2. CASE ~(j < i)
    <3>1. j - (i - 1) \in 1 .. Len(list) - i /\ (j - (i - 1)) + i = j + 1
      BY <1>1, <2>2
    <3> QED BY <1>1, <1>6, <1>7, <2>2, <3>1
  <2> QED BY <2>1, <2>2
<1>9. IsInjective(shifted)
  <2>1. DOMAIN shifted = 1 .. Len(list) - 1
    BY <1>7, LenProperties
  <2>. SUFFICES ASSUME NEW j \in 1 .. Len(list) - 1, NEW k \in 1 .. Len(list) - 1, shifted[j] = shifted[k]
                PROVE  j = k
    BY <2>1 DEF IsInjective
  <2>2. \A x \in 1 .. Len(list) - 1 : x \in DOMAIN list /\ x + 1 \in DOMAIN list
    BY <1>1
  <2>3. \A x, y \in DOMAIN list : list[x] = list[y] => x = y
    BY <1>1 DEF IsInjective
  <2>4. PICK x \in DOMAIN list : shifted[j] = list[x] /\ x = IF j < i THEN j ELSE j + 1
    BY <1>8, <2>2
  <2>5. PICK y \in DOMAIN list : shifted[k] = list[y] /\ y = IF k < i THEN k ELSE k + 1
    BY <1>8, <2>2
  <2>6. x = y
    BY <2>3, <2>4, <2>5
  <2> QED BY <1>1, <2>4, <2>5, <2>6
<1> QED BY <1>4, <1>7, <1>8, <1>9 DEF Lists, shifted

LEMMA RemoveNothing ==
    ASSUME NEW list \in Lists, NEW item, ~\E i \in 1 .. Len(list) : list[i] = item
    PROVE  RemoveFirst(list, item) = list
BY DEF RemoveFirst

LEMMA AppendNew ==
    ASSUME NEW list \in Lists, NEW item \in Cell, ~Contains(list, item)
    PROVE  Append(list, item) \in Lists
<1>1. list \in Seq(Cell) /\ Len(list) \in Nat /\ DOMAIN list = 1 .. Len(list)
  BY DEF Lists
<1>. DEFINE longer == Append(list, item)
<1>2. /\ longer \in Seq(Cell) /\ DOMAIN longer = 1 .. Len(list) + 1 /\ longer[Len(list) + 1] = item
      /\ \A i \in 1 .. Len(list) : longer[i] = list[i] /\ longer[i] # item
  BY <1>1 DEF Contains
<1>. HIDE DEF longer
<1>3. ASSUME NEW i \in 1 .. Len(list) + 1, NEW j \in 1 .. Len(list) + 1, longer[i] = longer[j]
      PROVE  i = j
  <2>1. CASE i \in 1 .. Len(list) /\ j \in 1 .. Len(list)
    BY <1>1, <1>2, <1>3, <2>1 DEF Lists, IsInjective
  <2>2. CASE i = Len(list) + 1 \/ j = Len(list) + 1
    BY <1>1, <1>2, <1>3, <2>2
  <2> QED BY <1>1, <2>1, <2>2
<1>4. IsInjective(longer)
  BY <1>2, <1>3 DEF IsInjective
<1> QED BY <1>2, <1>4 DEF Lists, longer

LEMMA AppliedType == IsStep(AppliedFcn, Lists, Intent)
<1>. SUFFICES ASSUME NEW list \in Lists, NEW intent \in Intent
              PROVE  Applied(list, intent) \in Lists
  BY DEF AppliedFcn, IsStep
<1>1. CASE ~intent.want
  <2>1. CASE \E i \in 1 .. Len(list) : list[i] = intent.item
    <3>1. PICK i \in 1 .. Len(list) : list[i] = intent.item
      BY <2>1
    <3>2. RemoveFirst(list, list[i]) \in Lists
      BY RemoveFirstShifts
    <3> QED BY <1>1, <3>1, <3>2 DEF Applied
  <2>2. CASE ~\E i \in 1 .. Len(list) : list[i] = intent.item
    BY <1>1, <2>2, RemoveNothing DEF Applied
  <2> QED BY <2>1, <2>2
<1>2. CASE intent.want
  <2>1. intent.item \in Cell
    BY DEF Intent, Cell
  <2> QED BY <1>2, <2>1, AppendNew DEF Applied
<1> QED BY <1>1, <1>2

LEMMA SaysIsFold ==
    ASSUME NEW list \in Lists, NEW intents \in Seq(Intent)
    PROVE  Says(list, intents) = Folded(AppliedFcn, list, intents)
<1>. DEFINE m == Len(intents)
            IsIter(h) == h = [s \in SUBSET (1 .. m) |->
                                 IF s = {} THEN list ELSE Applied(h[s \ {Max(s)}], intents[Max(s)])]
            step == PositionSteps(AppliedFcn, Lists, intents)
            iter == CHOOSE h : IsIter(h)
<1>1. m \in Nat /\ DOMAIN intents = 1 .. m
  OBVIOUS
<1>2. Says(list, intents) = iter[1 .. m]
  BY <1>1 DEF Says, FoldLeft, MapThenFoldSet
<1>3. step \in [1 .. m -> [Lists -> Lists]]
  BY AppliedType DEF PositionSteps, IsStep
<1>4. PICK f : IsFold(f, Lists, list, step, m)
  BY <1>1, <1>3, FoldExists
<1>5. ASSUME NEW s \in SUBSET (1 .. m), s # {}
      PROVE  Max(s) \in 1 .. m
  <2>1. \E x \in s : \A y \in s : x >= y
    BY <1>1, <1>5, RangeHasMax
  <2> QED BY <2>1 DEF Max
<1>6. ASSUME NEW s \in SUBSET (1 .. m), s # {}, NEW x \in Lists
      PROVE  step[Max(s)][x] = Applied(x, intents[Max(s)])
  BY <1>5, <1>6 DEF PositionSteps, AppliedFcn
<1>. HIDE DEF step
<1>7. IsIter(f)
  BY <1>4, <1>6 DEF IsFold
<1>8. IsIter(iter)
  <2>. HIDE DEF IsIter
  <2> QED BY <1>7
<1>. HIDE DEF iter
<1>9. FoldsLeft(iter, AppliedFcn, Lists, Intent, list, intents)
  <2>1. iter = [s \in SUBSET (1 .. m) |-> iter[s]]
    BY <1>8
  <2>2. ASSUME NEW s \in SUBSET (1 .. m), s # {}, iter[s \ {Max(s)}] \in Lists
        PROVE  iter[s] = AppliedFcn[iter[s \ {Max(s)}]][intents[Max(s)]]
    <3>1. intents[Max(s)] \in Intent
      BY <1>5, <2>2
    <3>2. iter[s] = Applied(iter[s \ {Max(s)}], intents[Max(s)])
      BY <1>8, <2>2
    <3> QED BY <2>2, <3>1, <3>2 DEF AppliedFcn
  <2>3. iter[{}] = list
    BY <1>8
  <2>. HIDE DEF IsIter
  <2> QED BY <2>1, <2>2, <2>3, AppliedType DEF FoldsLeft
<1>10. iter[1 .. Len(intents)] = Folded(AppliedFcn, list, intents)
  BY <1>9, FoldLeftFolds
<1> QED BY <1>2, <1>10
\* What is said intent by intent.
LEMMA SaysStep ==
    ASSUME NEW list \in Lists, NEW intents \in Seq(Intent)
    PROVE  /\ Says(list, intents) \in Lists
           /\ Says(list, <<>>) = list
           /\ \A k \in 1 .. Len(intents) :
                Says(list, SubSeq(intents, 1, k)) = Applied(Says(list, SubSeq(intents, 1, k - 1)), intents[k])
<1>1. Says(list, intents) \in Lists
  <2>1. Folded(AppliedFcn, list, intents) \in Lists
    BY AppliedType, FoldedType
  <2> QED BY <2>1, SaysIsFold
<1>2. Says(list, <<>>) = list
  <2>1. <<>> \in Seq(Intent)
    OBVIOUS
  <2>2. Folded(AppliedFcn, list, <<>>) = list
    BY AppliedType, FoldedEmpty
  <2> QED BY <2>1, <2>2, SaysIsFold
<1>3. ASSUME NEW k \in 1 .. Len(intents)
      PROVE  Says(list, SubSeq(intents, 1, k)) = Applied(Says(list, SubSeq(intents, 1, k - 1)), intents[k])
  <2>. DEFINE before == SubSeq(intents, 1, k - 1)
              upTo == SubSeq(intents, 1, k)
  <2>1. before \in Seq(Intent) /\ intents[k] \in Intent /\ upTo = Append(before, intents[k])
    BY PrefixAppend
  <2>2. upTo \in Seq(Intent)
    BY <2>1
  <2>3. Says(list, upTo) = Folded(AppliedFcn, list, upTo) /\ Says(list, before) = Folded(AppliedFcn, list, before)
    BY <2>1, <2>2, SaysIsFold
  <2>4. /\ Folded(AppliedFcn, list, before) \in Lists
        /\ Folded(AppliedFcn, list, upTo) = AppliedFcn[Folded(AppliedFcn, list, before)][intents[k]]
    BY AppliedType, FoldedPrefix
  <2>5. Folded(AppliedFcn, list, upTo) = Applied(Folded(AppliedFcn, list, before), intents[k])
    BY <2>1, <2>4 DEF AppliedFcn
  <2> QED BY <2>3, <2>5
<1> QED BY <1>1, <1>2, <1>3

-----------------------------------------------------------------------------
(***************************************************************************)
(* Slices and the arrays behind them.                                      *)
(***************************************************************************)
Heap == Seq(Seq(Cell))
Slice == [array : Nat, len : Nat]

WellFormed(h, s) ==
    /\ s \in Slice
    /\ s.array \in 0 .. Len(h)
    /\ IF s.array = 0 THEN s.len = 0 ELSE s.len <= Len(h[s.array])

\* What a slice shows.
LEMMA ViewType ==
    ASSUME NEW h \in Heap, NEW s, WellFormed(h, s)
    PROVE  /\ ViewIn(h, s) \in Seq(Cell)
           /\ Len(ViewIn(h, s)) = s.len
           /\ \A i \in 1 .. s.len : ViewIn(h, s)[i] = h[s.array][i] /\ h[s.array][i] \in Cell
<1>1. s.len \in Nat /\ s.array \in Nat
  BY DEF WellFormed, Slice
<1>2. CASE s.array = 0
  BY <1>1, <1>2 DEF ViewIn, WellFormed
<1>3. CASE s.array # 0
  <2>1. s.array \in 1 .. Len(h)
    BY <1>1, <1>3 DEF WellFormed
  <2>2. h[s.array] \in Seq(Cell) /\ s.len <= Len(h[s.array]) /\ Len(h[s.array]) \in Nat
    BY <1>3, <2>1, ElementOfSeq DEF WellFormed, Heap
  <2>. DEFINE cells0 == h[s.array]
  <2>. HIDE DEF cells0
  <2>3. \A i \in 1 .. s.len : i \in 1 .. Len(cells0)
    BY <1>1, <2>2 DEF cells0
  <2>4. \A i \in 1 .. s.len : cells0[i] \in Cell
    BY <2>2, <2>3, ElementOfSeq DEF cells0
  <2>5. /\ SubSeq(cells0, 1, s.len) \in Seq(Cell)
        /\ Len(SubSeq(cells0, 1, s.len)) = IF 1 <= s.len THEN s.len - 1 + 1 ELSE 0
        /\ \A i \in 1 .. s.len - 1 + 1 : SubSeq(cells0, 1, s.len)[i] = cells0[1 + i - 1]
    BY <1>1, <2>4, SubSeqProperties
  <2>6. Len(SubSeq(cells0, 1, s.len)) = s.len
    BY <1>1, <2>5
  <2>7. \A i \in 1 .. s.len : SubSeq(cells0, 1, s.len)[i] = cells0[i]
    BY <1>1, <2>5
  <2> QED BY <1>3, <2>4, <2>5, <2>6, <2>7 DEF ViewIn, cells0
<1> QED BY <1>2, <1>3

\* Two slices show the same if their cells are the same.
LEMMA SameView ==
    ASSUME NEW h \in Heap, NEW s, WellFormed(h, s), NEW g \in Heap, NEW t, WellFormed(g, t),
           s.len = t.len, \A i \in 1 .. s.len : h[s.array][i] = g[t.array][i]
    PROVE  ViewIn(h, s) = ViewIn(g, t)
<1>1. /\ ViewIn(h, s) \in Seq(Cell) /\ Len(ViewIn(h, s)) = s.len
      /\ \A i \in 1 .. s.len : ViewIn(h, s)[i] = h[s.array][i]
  BY ViewType
<1>2. /\ ViewIn(g, t) \in Seq(Cell) /\ Len(ViewIn(g, t)) = t.len
      /\ \A i \in 1 .. t.len : ViewIn(g, t)[i] = g[t.array][i]
  BY ViewType
<1> QED BY <1>1, <1>2, SeqEqual
IsAppended(g, h, s, item) == g = Append1(h, s, item)

IsRemoved(g, h, s, item) == g = RemoveLoop(h, s, item)

IsWithout(g, list, item) == g.panicked = FALSE /\ ViewIn(g.heap, g.slice) = RemoveFirst(list, item)

\* What another slice shows in the heap after an addition.
Kept(h, s, g) ==
    \A t : WellFormed(h, t) =>
        /\ WellFormed(g.heap, t)
        /\ t.array = g.slice.array => g.slice.len = s.len + 1 /\ t.array = s.array
        /\ (t.array = s.array => t.len <= s.len) => ViewIn(g.heap, t) = ViewIn(h, t)

\* append shows the item after what was shown, in place or in a new array; it changes no
\* other slice, unless that has more of the same array.
LEMMA AppendShows ==
    ASSUME NEW h \in Heap, NEW s, WellFormed(h, s), NEW item \in Cell,
           NEW g, IsAppended(g, h, s, item)
    PROVE  /\ g.heap \in Heap /\ WellFormed(g.heap, g.slice) /\ g.panicked = FALSE
           /\ ViewIn(g.heap, g.slice) = Append(ViewIn(h, s), item)
           /\ Kept(h, s, g)
<1>. USE DEF IsAppended
<1>. DEFINE a == s.array
            n == s.len
<1>1. a \in Nat /\ n \in Nat /\ a \in 0 .. Len(h) /\ s = [array |-> a, len |-> n] /\ Len(h) \in Nat
  BY DEF WellFormed, Slice, Heap
<1>2. \A i \in 1 .. Len(h) : h[i] \in Seq(Cell) /\ Len(h[i]) \in Nat
  BY ElementOfSeq DEF Heap
<1>3. \A i \in 1 .. n : h[a][i] \in Cell
  BY ViewType
\* Whatever is behind the grown slice, if it is right up to the item it shows that.
<1>4. ASSUME g.heap \in Heap, WellFormed(g.heap, g.slice), g.slice.len = n + 1,
             \A i \in 1 .. n : g.heap[g.slice.array][i] = h[a][i],
             g.heap[g.slice.array][n + 1] = item
      PROVE  ViewIn(g.heap, g.slice) = Append(ViewIn(h, s), item)
  <2>. DEFINE old == ViewIn(h, s)
              new == ViewIn(g.heap, g.slice)
  <2>1. old \in Seq(Cell) /\ Len(old) = n /\ \A i \in 1 .. n : old[i] = h[a][i]
    BY ViewType
  <2>2. new \in Seq(Cell) /\ Len(new) = n + 1 /\ \A i \in 1 .. n + 1 : new[i] = g.heap[g.slice.array][i]
    BY <1>4, ViewType
  <2>. HIDE DEF old, new
  <2>3. /\ Append(old, item) \in Seq(Cell) /\ Len(Append(old, item)) = n + 1
        /\ \A i \in 1 .. n : Append(old, item)[i] = old[i]
        /\ Append(old, item)[n + 1] = item
    BY <2>1, AppendProperties
  <2>4. ASSUME NEW i \in 1 .. n + 1
        PROVE  new[i] = Append(old, item)[i]
    <3>1. CASE i = n + 1
      BY <1>1, <1>4, <2>2, <2>3, <3>1
    <3>2. CASE i # n + 1
      <4>1. i \in 1 .. n
        BY <1>1, <3>2
      <4> QED BY <1>4, <2>1, <2>2, <2>3, <4>1
    <3> QED BY <3>1, <3>2
  <2>5. new = Append(old, item)
    BY <2>2, <2>3, <2>4, SeqEqual
  <2> QED BY <2>5 DEF old, new
<1>5. CASE n < Capacity(h, s)
  <2>1. a \in 1 .. Len(h) /\ n < Len(h[a])
    BY <1>1, <1>5 DEF Capacity
  <2>2. h[a] \in Seq(Cell) /\ Len(h[a]) \in Nat /\ n + 1 \in 1 .. Len(h[a])
    BY <1>1, <1>2, <2>1
  <2>. DEFINE row == [h[a] EXCEPT ![n + 1] = item]
  <2>3. g = [heap |-> [h EXCEPT ![a] = row], slice |-> [array |-> a, len |-> n + 1], panicked |-> FALSE]
    BY <1>1, <1>5 DEF Append1
  <2>4. row \in Seq(Cell) /\ Len(row) = Len(h[a]) /\ \A i \in 1 .. Len(h[a]) : row[i] = IF i = n + 1 THEN item ELSE h[a][i]
    BY <2>2, ExceptSeq
  <2>. HIDE DEF row
  <2>5. /\ g.heap \in Heap /\ Len(g.heap) = Len(h)
        /\ \A i \in 1 .. Len(h) : g.heap[i] = IF i = a THEN row ELSE h[i]
    <3>1. h \in Seq(Seq(Cell))
      BY DEF Heap
    <3>2. /\ [h EXCEPT ![a] = row] \in Seq(Seq(Cell)) /\ Len([h EXCEPT ![a] = row]) = Len(h)
          /\ \A i \in 1 .. Len(h) : [h EXCEPT ![a] = row][i] = IF i = a THEN row ELSE h[i]
      BY <2>1, <2>4, <3>1, ExceptSeq
    <3> QED BY <2>3, <3>2 DEF Heap
  <2>6. WellFormed(g.heap, g.slice)
    <3>1. g.slice = [array |-> a, len |-> n + 1] /\ a # 0
      BY <1>1, <2>1, <2>3
    <3>2. g.heap[a] = row /\ n + 1 <= Len(row)
      BY <1>1, <2>1, <2>2, <2>4, <2>5
    <3> QED BY <1>1, <2>5, <3>1, <3>2 DEF WellFormed, Slice
  <2>7. ViewIn(g.heap, g.slice) = Append(ViewIn(h, s), item)
    <3>1. g.slice.len = n + 1 /\ g.slice.array = a /\ g.heap[a] = row
      BY <2>1, <2>3, <2>5
    <3>2. \A i \in 1 .. n : row[i] = h[a][i]
      <4>1. \A i \in 1 .. n : i \in 1 .. Len(h[a]) /\ i # n + 1
        BY <1>1, <2>2
      <4> QED BY <2>4, <4>1
    <3>3. row[n + 1] = item
      BY <2>2, <2>4
    <3> QED BY <1>4, <2>5, <2>6, <3>1, <3>2, <3>3
  <2>8. ASSUME NEW t, WellFormed(h, t)
        PROVE  /\ WellFormed(g.heap, t)
               /\ t.array = g.slice.array => g.slice.len = s.len + 1 /\ t.array = s.array
               /\ (t.array = s.array => t.len <= s.len) => ViewIn(g.heap, t) = ViewIn(h, t)
    <3>1. t \in Slice /\ t.array \in 0 .. Len(h) /\ t.len \in Nat /\ t.array \in Nat
      BY <2>8 DEF WellFormed, Slice
    <3>2. t.array # 0 => t.array \in 1 .. Len(h) /\ t.len <= Len(h[t.array]) /\ Len(g.heap[t.array]) = Len(h[t.array])
      <4>1. t.array # 0 => t.array \in 1 .. Len(h)
        BY <1>1, <3>1
      <4> QED BY <2>4, <2>5, <2>8, <4>1 DEF WellFormed
    <3>3. WellFormed(g.heap, t)
      BY <2>5, <2>8, <3>1, <3>2 DEF WellFormed
    <3>4. ASSUME t.array = s.array => t.len <= s.len
          PROVE  ViewIn(g.heap, t) = ViewIn(h, t)
      <4>1. ASSUME NEW i \in 1 .. t.len
            PROVE  g.heap[t.array][i] = h[t.array][i]
        <5>1. t.array # 0
          BY <2>8, <3>1 DEF WellFormed
        <5>2. CASE t.array = a
          <6>1. i \in 1 .. Len(h[a]) /\ i # n + 1
            BY <1>1, <2>2, <3>1, <3>2, <3>4, <5>1, <5>2
          <6> QED BY <2>1, <2>4, <2>5, <5>2, <6>1
        <5>3. CASE t.array # a
          BY <2>5, <3>2, <5>1, <5>3
        <5> QED BY <5>2, <5>3
      <4> QED BY <2>5, <2>8, <3>3, <4>1, SameView
    <3> QED BY <2>3, <3>3, <3>4
  <2>9. g.panicked = FALSE
    BY <2>3
  <2>10. g.heap \in Heap
    BY <2>5
  <2> QED BY <2>6, <2>7, <2>8, <2>9, <2>10 DEF Kept
<1>6. CASE ~(n < Capacity(h, s))
  <2>. DEFINE row == [i \in 1 .. Grown(n) |-> IF i <= n THEN h[a][i] ELSE IF i = n + 1 THEN item ELSE Empty]
  <2>1. g = [heap |-> Append(h, row), slice |-> [array |-> Len(h) + 1, len |-> n + 1], panicked |-> FALSE]
    BY <1>6 DEF Append1
  <2>2. Grown(n) \in Nat /\ n + 1 <= Grown(n)
    BY <1>1 DEF Grown
  <2>3. row \in Seq(Cell) /\ Len(row) = Grown(n)
    <3>1. \A i \in 1 .. Grown(n) : (IF i <= n THEN h[a][i] ELSE IF i = n + 1 THEN item ELSE Empty) \in Cell
      <4>1. Empty \in Cell
        BY DEF Cell
      <4>2. \A i \in 1 .. Grown(n) : i <= n => i \in 1 .. n
        BY <1>1, <2>2
      <4> QED BY <1>3, <4>1, <4>2
    <3> QED BY <2>2, <3>1
  <2>4. \A i \in 1 .. n : row[i] = h[a][i]
    <3>1. \A i \in 1 .. n : i \in 1 .. Grown(n) /\ i <= n
      BY <1>1, <2>2
    <3> QED BY <3>1
  <2>5. row[n + 1] = item
    <3>1. n + 1 \in 1 .. Grown(n) /\ ~(n + 1 <= n)
      BY <1>1, <2>2
    <3> QED BY <3>1
  <2>. HIDE DEF row
  <2>6. /\ g.heap \in Heap /\ Len(g.heap) = Len(h) + 1
        /\ \A i \in 1 .. Len(h) : g.heap[i] = h[i]
        /\ g.heap[Len(h) + 1] = row
    <3>1. h \in Seq(Seq(Cell))
      BY DEF Heap
    <3> QED BY <2>1, <2>3, <3>1, AppendProperties DEF Heap
  <2>7. WellFormed(g.heap, g.slice)
    <3>1. g.slice = [array |-> Len(h) + 1, len |-> n + 1]
      BY <2>1
    <3> QED BY <1>1, <2>2, <2>3, <2>6, <3>1 DEF WellFormed, Slice
  <2>8. ViewIn(g.heap, g.slice) = Append(ViewIn(h, s), item)
    <3>1. g.slice.len = n + 1 /\ g.heap[g.slice.array] = row
      BY <2>1, <2>6
    <3> QED BY <1>4, <2>4, <2>5, <2>6, <2>7, <3>1
  <2>9. ASSUME NEW t, WellFormed(h, t)
        PROVE  /\ WellFormed(g.heap, t)
               /\ t.array = g.slice.array => g.slice.len = s.len + 1 /\ t.array = s.array
               /\ (t.array = s.array => t.len <= s.len) => ViewIn(g.heap, t) = ViewIn(h, t)
    <3>1. t \in Slice /\ t.array \in 0 .. Len(h) /\ t.len \in Nat /\ t.array \in Nat
      BY <2>9 DEF WellFormed, Slice
    <3>2. t.array # 0 => t.array \in 1 .. Len(h) /\ g.heap[t.array] = h[t.array]
      BY <1>1, <2>6, <3>1
    <3>3. t.array \in 0 .. Len(g.heap)
      BY <1>1, <2>6, <3>1
    <3>4. WellFormed(g.heap, t)
      BY <2>9, <3>1, <3>2, <3>3 DEF WellFormed
    <3>5. t.array # g.slice.array
      BY <1>1, <2>1, <3>1
    <3>6. ViewIn(g.heap, t) = ViewIn(h, t)
      BY <3>2 DEF ViewIn
    <3> QED BY <3>4, <3>5, <3>6
  <2>10. g.panicked = FALSE
    BY <2>1
  <2> QED BY <2>6, <2>7, <2>8, <2>9, <2>10 DEF Kept
<1> QED BY <1>5, <1>6
-----------------------------------------------------------------------------
(***************************************************************************)
(* The loop that removes an item.                                          *)
(***************************************************************************)
\* What the loop can reach: the arrays stay as long as they are.
LoopState(h, s) ==
    {state \in [heap : Heap, slice : [array : {s.array}, len : 0 .. s.len], panicked : BOOLEAN] :
        /\ Len(state.heap) = Len(h)
        /\ \A a \in 1 .. Len(h) : Len(state.heap[a]) = Len(h[a])}

LoopFcn(h, s, item) ==
    [state \in LoopState(h, s) |-> [i \in 1 .. s.len |-> RemoveIteration(state, item, i)]]

LoopStart(h, s) == [heap |-> h, slice |-> s, panicked |-> FALSE]

Positions(s) == [i \in 1 .. s.len |-> i]

LEMMA LoopStarts ==
    ASSUME NEW h \in Heap, NEW s, WellFormed(h, s)
    PROVE  LoopStart(h, s) \in LoopState(h, s)
BY DEF LoopStart, LoopState, WellFormed, Slice

LEMMA IterationType ==
    ASSUME NEW h \in Heap, NEW s, WellFormed(h, s), s.array # 0, NEW item,
           NEW state \in LoopState(h, s), NEW i \in 1 .. s.len
    PROVE  RemoveIteration(state, item, i) \in LoopState(h, s)
<1>. DEFINE a == s.array
            row == state.heap[a]
            n == state.slice.len
<1>1. a \in 1 .. Len(h) /\ s.len \in Nat /\ s.len <= Len(h[a]) /\ Len(h) \in Nat
  BY DEF WellFormed, Slice, Heap
<1>2. /\ state.heap \in Seq(Seq(Cell)) /\ Len(state.heap) = Len(h) /\ state.slice = [array |-> a, len |-> n]
      /\ n \in 0 .. s.len /\ state.panicked \in BOOLEAN
      /\ state = [heap |-> state.heap, slice |-> state.slice, panicked |-> state.panicked]
  BY DEF LoopState, Heap
<1>3. \A b \in 1 .. Len(h) : Len(state.heap[b]) = Len(h[b])
  BY DEF LoopState
<1>4. row \in Seq(Cell) /\ Len(row) = Len(h[a]) /\ DOMAIN row = 1 .. Len(row) /\ Len(row) \in Nat
  <2>1. row \in Seq(Cell)
    BY <1>1, <1>2, ElementOfSeq
  <2>2. Len(row) = Len(h[a])
    BY <1>1, <1>3
  <2> QED BY <2>1, <2>2, LenProperties
<1>5. CASE state.panicked \/ row[i] # item
  BY <1>2, <1>5 DEF RemoveIteration
<1>6. CASE ~(state.panicked \/ row[i] # item) /\ i > n
  <2>1. RemoveIteration(state, item, i) = [state EXCEPT !.panicked = TRUE]
    BY <1>2, <1>6 DEF RemoveIteration
  <2> QED BY <2>1 DEF LoopState
<1>7. CASE ~(state.panicked \/ row[i] # item) /\ ~(i > n)
  <2>. DEFINE shifted == [j \in 1 .. Len(row) |-> IF i <= j /\ j < n THEN row[j + 1] ELSE row[j]]
              heap1 == [state.heap EXCEPT ![a] = shifted]
              slice1 == [array |-> a, len |-> n - 1]
  <2>1. RemoveIteration(state, item, i) = [heap |-> heap1, slice |-> slice1, panicked |-> FALSE]
    <3>1. RemoveIteration(state, item, i) = RemoveAt1(state.heap, state.slice, i)
      BY <1>2, <1>7 DEF RemoveIteration
    <3>2. state.slice.array = a /\ state.slice.len = n /\ [state.slice EXCEPT !.len = @ - 1] = slice1
      BY <1>2
    <3>3. a \in DOMAIN state.heap
      BY <1>1, <1>2
    <3> QED BY <1>4, <3>1, <3>2, <3>3 DEF RemoveAt1
  <2>2. shifted \in Seq(Cell) /\ Len(shifted) = Len(row)
    <3>1. \A j \in 1 .. Len(row) : row[j] \in Cell
      BY <1>4, ElementOfSeq
    <3>2. \A j \in 1 .. Len(row) : j < n => j + 1 \in 1 .. Len(row)
      BY <1>1, <1>2, <1>4
    <3>3. \A j \in 1 .. Len(row) : (IF i <= j /\ j < n THEN row[j + 1] ELSE row[j]) \in Cell
      BY <3>1, <3>2
    <3> QED BY <1>4, <3>3
  <2>. HIDE DEF shifted
  <2>3. /\ heap1 \in Seq(Seq(Cell)) /\ Len(heap1) = Len(h)
        /\ \A b \in 1 .. Len(h) : heap1[b] = IF b = a THEN shifted ELSE state.heap[b]
    BY <1>1, <1>2, <2>2, ExceptSeq
  <2>4. \A b \in 1 .. Len(h) : Len(heap1[b]) = Len(h[b])
    BY <1>3, <1>4, <2>2, <2>3
  <2>5. slice1 \in [array : {s.array}, len : 0 .. s.len]
    <3>1. n - 1 \in 0 .. s.len
      BY <1>1, <1>2, <1>7
    <3> QED BY <3>1
  <2>. HIDE DEF heap1, slice1
  <2> QED BY <2>1, <2>3, <2>4, <2>5 DEF LoopState, Heap
<1> QED BY <1>5, <1>6, <1>7

LEMMA LoopIsFold ==
    ASSUME NEW h \in Heap, NEW s, WellFormed(h, s), s.array # 0, NEW item
    PROVE  /\ IsStep(LoopFcn(h, s, item), LoopState(h, s), 1 .. s.len)
           /\ Positions(s) \in Seq(1 .. s.len) /\ Len(Positions(s)) = s.len
           /\ RemoveLoop(h, s, item) = Folded(LoopFcn(h, s, item), LoopStart(h, s), Positions(s))
<1>. DEFINE F == LoopFcn(h, s, item)
            V == LoopState(h, s)
            base == LoopStart(h, s)
            all == Positions(s)
            m == Len(all)
            IsIter(g) == g = [p \in SUBSET (1 .. m) |->
                                 IF p = {} THEN base ELSE RemoveIteration(g[p \ {Max(p)}], item, all[Max(p)])]
            step == PositionSteps(F, V, all)
            iter == CHOOSE g : IsIter(g)
<1>1. s.len \in Nat /\ all \in Seq(1 .. s.len) /\ m = s.len /\ \A i \in 1 .. s.len : all[i] = i
  BY DEF Positions, WellFormed, Slice
<1>2. IsStep(F, V, 1 .. s.len)
  BY IterationType DEF LoopFcn, IsStep
<1>3. base \in V
  BY LoopStarts
<1>4. RemoveLoop(h, s, item) = iter[1 .. m]
  <2>1. DOMAIN all = 1 .. m
    BY <1>1, LenProperties
  <2> QED BY <2>1 DEF RemoveLoop, FoldLeft, MapThenFoldSet, LoopStart, Positions
<1>5. step \in [1 .. m -> [V -> V]]
  BY <1>1, <1>2 DEF PositionSteps, IsStep
<1>. HIDE DEF V, F, base
<1>6. PICK f : IsFold(f, V, base, step, m)
  <2>. HIDE DEF m, step
  <2>1. m \in Nat
    BY <1>1 DEF m
  <2> QED BY <1>3, <1>5, <2>1, FoldExists
<1>7. ASSUME NEW p \in SUBSET (1 .. m), p # {}
      PROVE  Max(p) \in 1 .. s.len
  <2>1. \E x \in p : \A y \in p : x >= y
    BY <1>1, <1>7, RangeHasMax
  <2> QED BY <1>1, <2>1 DEF Max
<1>8. ASSUME NEW p \in SUBSET (1 .. m), p # {}, NEW x \in V
      PROVE  /\ step[Max(p)][x] = RemoveIteration(x, item, all[Max(p)])
             /\ F[x][all[Max(p)]] = RemoveIteration(x, item, all[Max(p)])
  <2>1. Max(p) \in 1 .. s.len /\ all[Max(p)] = Max(p) /\ Max(p) \in 1 .. m
    BY <1>1, <1>7, <1>8
  <2>2. F[x][all[Max(p)]] = RemoveIteration(x, item, all[Max(p)])
    BY <1>8, <2>1 DEF F, V, LoopFcn
  <2> QED BY <1>8, <2>1, <2>2 DEF PositionSteps
<1>. HIDE DEF step, all
<1>9. IsIter(f)
  BY <1>6, <1>8 DEF IsFold
<1>10. IsIter(iter)
  <2>. HIDE DEF IsIter
  <2> QED BY <1>9
<1>. HIDE DEF iter
<1>11. FoldsLeft(iter, F, V, 1 .. s.len, base, all)
  <2>1. iter = [p \in SUBSET (1 .. m) |-> iter[p]]
    BY <1>10
  <2>2. ASSUME NEW p \in SUBSET (1 .. m), p # {}, iter[p \ {Max(p)}] \in V
        PROVE  iter[p] = F[iter[p \ {Max(p)}]][all[Max(p)]]
    <3>1. iter[p] = RemoveIteration(iter[p \ {Max(p)}], item, all[Max(p)])
      BY <1>10, <2>2
    <3> QED BY <1>8, <2>2, <3>1
  <2>3. iter[{}] = base
    BY <1>10
  <2>. HIDE DEF IsIter
  <2> QED BY <1>1, <1>2, <1>3, <2>1, <2>2, <2>3 DEF FoldsLeft
<1>12. iter[1 .. Len(all)] = Folded(F, base, all)
  BY <1>11, FoldLeftFolds
<1> QED BY <1>1, <1>2, <1>4, <1>12 DEF F, V, base, all
LEMMA RemoveLoopType ==
    ASSUME NEW h \in Heap, NEW s, WellFormed(h, s), s.array # 0, NEW item
    PROVE  RemoveLoop(h, s, item) \in LoopState(h, s)
<1>1. Folded(LoopFcn(h, s, item), LoopStart(h, s), Positions(s)) \in LoopState(h, s)
  BY LoopIsFold, LoopStarts, FoldedType
<1> QED BY <1>1, LoopIsFold

\* What the loop has made of the slice after its first iterations.
LEMMA LoopPrefix ==
    ASSUME NEW h \in Heap, NEW s, WellFormed(h, s), s.array # 0, NEW item
    PROVE  \E state :
               /\ state[0] = LoopStart(h, s)
               /\ \A k \in 1 .. s.len : state[k] = RemoveIteration(state[k - 1], item, k)
               /\ RemoveLoop(h, s, item) = state[s.len]
<1>. DEFINE F == LoopFcn(h, s, item)
            V == LoopState(h, s)
            base == LoopStart(h, s)
            all == Positions(s)
            state == [k \in 0 .. s.len |-> Folded(F, base, SubSeq(all, 1, k))]
<1>1. /\ IsStep(F, V, 1 .. s.len) /\ all \in Seq(1 .. s.len) /\ Len(all) = s.len
      /\ RemoveLoop(h, s, item) = Folded(F, base, all)
  BY LoopIsFold
<1>2. base \in V
  BY LoopStarts
<1>3. s.len \in Nat /\ \A k \in 1 .. s.len : all[k] = k
  BY DEF Positions, WellFormed, Slice
<1>. HIDE DEF F, V, base, all
<1>4. state[0] = base
  <2>1. SubSeq(all, 1, 0) = <<>>
    BY SubSeqEmpty
  <2>2. Folded(F, base, <<>>) = base
    BY <1>1, <1>2, FoldedEmpty
  <2> QED BY <1>3, <2>1, <2>2
<1>5. ASSUME NEW k \in 1 .. s.len
      PROVE  state[k] = RemoveIteration(state[k - 1], item, k)
  <2>1. k - 1 \in 0 .. s.len /\ k \in 0 .. s.len /\ k \in 1 .. Len(all) /\ all[k] = k
    BY <1>1, <1>3
  <2>2. Folded(F, base, SubSeq(all, 1, k - 1)) \in V
    BY <1>1, <1>2, <2>1, FoldedPrefix
  <2>3. Folded(F, base, SubSeq(all, 1, k)) = F[Folded(F, base, SubSeq(all, 1, k - 1))][all[k]]
    BY <1>1, <1>2, <2>1, FoldedPrefix
  <2> QED BY <2>1, <2>2, <2>3 DEF F, V, LoopFcn
<1>6. RemoveLoop(h, s, item) = state[s.len]
  <2>1. SubSeq(all, 1, s.len) = all
    BY <1>1, SubSeqFull
  <2>2. s.len \in 0 .. s.len
    BY <1>3
  <2>3. state[s.len] = Folded(F, base, SubSeq(all, 1, s.len))
    BY <2>2
  <2> QED BY <1>1, <2>1, <2>3
<1>. HIDE DEF state
<1> QED BY <1>4, <1>5, <1>6 DEF base
\* Where the slice shows no item twice, the loop removes the item and does not panic.
LEMMA RemoveLoopRemoves ==
    ASSUME NEW h \in Heap, NEW s, WellFormed(h, s), s.array # 0, NEW item, ViewIn(h, s) \in Lists,
           NEW g, IsRemoved(g, h, s, item)
    PROVE  IsWithout(g, ViewIn(h, s), item)
<1>. USE DEF IsWithout
<1>. DEFINE a == s.array
            n == s.len
            list == ViewIn(h, s)
            row == h[a]
<1>1. /\ a \in 1 .. Len(h) /\ n \in Nat /\ n <= Len(row) /\ Len(h) \in Nat /\ row \in Seq(Cell)
      /\ DOMAIN row = 1 .. Len(row) /\ s = [array |-> a, len |-> n]
  <2>1. a \in 1 .. Len(h) /\ n \in Nat /\ n <= Len(row) /\ Len(h) \in Nat /\ s = [array |-> a, len |-> n]
    BY DEF WellFormed, Slice, Heap
  <2>2. row \in Seq(Cell)
    BY <2>1, ElementOfSeq DEF Heap
  <2> QED BY <2>1, <2>2, LenProperties
<1>2. list \in Seq(Cell) /\ Len(list) = n /\ \A i \in 1 .. n : list[i] = row[i]
  BY ViewType
<1>3. \A i, j \in 1 .. n : row[i] = row[j] => i = j
  <2>1. DOMAIN list = 1 .. n
    BY <1>2, LenProperties
  <2> QED BY <1>2, <2>1 DEF Lists, IsInjective
<1>4. PICK state : /\ state[0] = LoopStart(h, s)
                   /\ \A k \in 1 .. n : state[k] = RemoveIteration(state[k - 1], item, k)
                   /\ g = state[n]
  BY LoopPrefix DEF IsRemoved
\* As long as the item is not met nothing changes.
<1>5. \A k \in 1 .. n : row[k] # item => RemoveIteration(LoopStart(h, s), item, k) = LoopStart(h, s)
  BY DEF RemoveIteration, LoopStart
<1>6. CASE \A i \in 1 .. n : row[i] # item
  <2>. DEFINE S == {k \in 0 .. n : state[k] = LoopStart(h, s)}
  <2>1. 0 \in S
    BY <1>1, <1>4
  <2>2. ASSUME NEW k \in 0 .. n, k < n, k \in S
        PROVE  k + 1 \in S
    <3>1. k + 1 \in 1 .. n /\ (k + 1) - 1 = k /\ k + 1 \in 0 .. n
      BY <1>1, <2>2
    <3>2. state[k + 1] = RemoveIteration(state[k], item, k + 1)
      BY <1>4, <3>1
    <3> QED BY <1>5, <1>6, <2>2, <3>1, <3>2
  <2>. HIDE DEF S
  <2>3. 0 .. n \subseteq S
    BY <1>1, <2>1, <2>2, SetInductionUpTo
  <2>4. g = LoopStart(h, s)
    <3>1. n \in S
      BY <1>1, <2>3
    <3> QED BY <1>4, <3>1 DEF S
  <2>5. RemoveFirst(list, item) = list
    BY <1>2, <1>6, RemoveNothing
  <2> QED BY <2>4, <2>5 DEF LoopStart
<1>7. ASSUME NEW p \in 1 .. n, row[p] = item
      PROVE  g.panicked = FALSE /\ ViewIn(g.heap, g.slice) = RemoveFirst(list, item)
  <2>. DEFINE shifted == [j \in 1 .. Len(row) |-> IF p <= j /\ j < n THEN row[j + 1] ELSE row[j]]
              removed == RemoveAt1(h, s, p)
              S == {k \in 0 .. n : state[k] = IF k < p THEN LoopStart(h, s) ELSE removed}
  <2>1. removed = [heap |-> [h EXCEPT ![a] = shifted], slice |-> [array |-> a, len |-> n - 1], panicked |-> FALSE]
    <3>1. a \in DOMAIN h
      BY <1>1 DEF Heap
    <3>2. [s EXCEPT !.len = @ - 1] = [array |-> a, len |-> n - 1]
      BY <1>1
    <3> QED BY <1>1, <3>1, <3>2 DEF RemoveAt1
  <2>2. /\ [h EXCEPT ![a] = shifted][a] = shifted
        /\ removed.heap[a] = shifted /\ removed.slice.array = a /\ removed.slice.len = n - 1 /\ removed.panicked = FALSE
    <3>1. a \in DOMAIN h
      BY <1>1 DEF Heap
    <3> QED BY <2>1, <3>1
  <2>3. RemoveIteration(LoopStart(h, s), item, p) = removed
    BY <1>1, <1>7 DEF RemoveIteration, LoopStart
  <2>4. ASSUME NEW k \in 1 .. n, p < k
        PROVE  RemoveIteration(removed, item, k) = removed
    <3>1. k \in 1 .. Len(row) /\ (k < n => k + 1 \in 1 .. n) /\ p <= k
      BY <1>1, <2>4
    <3>2. shifted[k] = IF k < n THEN row[k + 1] ELSE row[k]
      BY <3>1
    <3>3. shifted[k] # item
      <4>1. k # p /\ (k < n => k + 1 # p)
        BY <2>4
      <4> QED BY <1>3, <1>7, <3>1, <3>2, <4>1
    <3>. HIDE DEF removed, shifted
    <3> QED BY <2>2, <3>3 DEF RemoveIteration
  <2>5. 0 \in S
    BY <1>1, <1>4
  <2>6. ASSUME NEW k \in 0 .. n, k < n, k \in S
        PROVE  k + 1 \in S
    <3>1. k + 1 \in 1 .. n /\ (k + 1) - 1 = k /\ k + 1 \in 0 .. n
      BY <1>1, <2>6
    <3>2. state[k + 1] = RemoveIteration(state[k], item, k + 1)
      BY <1>4, <3>1
    <3>. HIDE DEF removed
    <3>3. CASE k + 1 < p
      <4>1. row[k + 1] # item
        BY <1>3, <1>7, <3>1, <3>3
      <4>2. state[k] = LoopStart(h, s)
        BY <2>6, <3>1, <3>3
      <4> QED BY <1>5, <3>1, <3>2, <3>3, <4>1, <4>2
    <3>4. CASE k + 1 = p
      <4>1. state[k] = LoopStart(h, s)
        BY <2>6, <3>1, <3>4
      <4> QED BY <2>3, <3>1, <3>2, <3>4, <4>1
    <3>5. CASE k + 1 > p
      <4>1. state[k] = removed /\ ~(k + 1 < p)
        BY <2>6, <3>1, <3>5
      <4> QED BY <2>4, <3>1, <3>2, <3>5, <4>1
    <3> QED BY <3>1, <3>3, <3>4, <3>5
  <2>7. g = removed
    <3>. HIDE DEF S
    <3>1. 0 .. n \subseteq S
      BY <1>1, <2>5, <2>6, SetInductionUpTo
    <3>2. n \in S
      BY <1>1, <3>1
    <3>3. state[n] = removed
      BY <1>1, <3>2 DEF S
    <3> QED BY <1>4, <3>3
  <2>. HIDE DEF removed, S
  <2>8. WellFormed(g.heap, g.slice) /\ g.heap \in Heap
    <3>1. g \in LoopState(h, s)
      BY RemoveLoopType DEF IsRemoved
    <3>2. Len(g.heap) = Len(h) /\ Len(g.heap[a]) = Len(row) /\ g.heap \in Heap
      BY <1>1, <3>1 DEF LoopState
    <3>3. g.slice = [array |-> a, len |-> n - 1] /\ n - 1 \in Nat /\ n - 1 <= Len(row)
      BY <1>1, <2>1, <2>7
    <3> QED BY <1>1, <3>2, <3>3 DEF WellFormed, Slice
  <2>. DEFINE shown == ViewIn(g.heap, g.slice)
              without == RemoveFirst(list, item)
  <2>9. /\ shown \in Seq(Cell) /\ Len(shown) = n - 1
        /\ \A i \in 1 .. n - 1 : shown[i] = shifted[i]
    <3>1. g.slice.len = n - 1 /\ g.slice.array = a /\ g.heap[a] = shifted
      BY <2>2, <2>7
    <3>. HIDE DEF shifted
    <3> QED BY <2>8, <3>1, ViewType
  <2>10. /\ without \in Seq(Cell) /\ Len(without) = n - 1
         /\ \A i \in 1 .. n - 1 : without[i] = IF i < p THEN list[i] ELSE list[i + 1]
    <3>1. list[p] = item /\ p \in 1 .. Len(list)
      BY <1>2, <1>7
    <3>2. /\ RemoveFirst(list, list[p]) \in Lists
          /\ Len(RemoveFirst(list, list[p])) = Len(list) - 1
          /\ \A j \in 1 .. Len(list) - 1 :
                RemoveFirst(list, list[p])[j] = IF j < p THEN list[j] ELSE list[j + 1]
      BY <3>1, RemoveFirstShifts
    <3> QED BY <1>2, <3>1, <3>2 DEF Lists
  <2>11. ASSUME NEW i \in 1 .. n - 1
         PROVE  shown[i] = without[i]
    <3>1. i \in 1 .. Len(row) /\ i \in 1 .. n /\ i + 1 \in 1 .. n /\ i < n
      BY <1>1
    <3>2. shifted[i] = IF i < p THEN row[i] ELSE row[i + 1]
      BY <3>1
    <3>3. list[i] = row[i] /\ list[i + 1] = row[i + 1]
      BY <1>2, <3>1
    <3> QED BY <2>9, <2>10, <3>2, <3>3
  <2>12. shown = without
    <3>. HIDE DEF shown, without
    <3> QED BY <2>9, <2>10, <2>11, SeqEqual
  <2> QED BY <2>2, <2>7, <2>12
<1> QED BY <1>6, <1>7
-----------------------------------------------------------------------------
(***************************************************************************)
(* The invariant of the lists.  The list that is being configured is what  *)
(* was said so far, and the array it shares with its parent was grown by   *)
(* the child alone.                                                        *)
(***************************************************************************)
ListsType ==
    /\ heap \in Heap
    /\ slice \in [Dir -> Slice] /\ \A d \in Dir : WellFormed(heap, slice[d])
    /\ inherited \in [Dir -> Seq(Cell)]
    /\ directives \in [Dir -> Seq(Intent)]
    /\ at \in 1 .. Len(Order) + 1 /\ next \in Nat
    /\ panicked \in BOOLEAN

InProgress == next > 0 => at \in DOMAIN Order /\ next <= Len(directives[Order[at]]) + 1

ObeyedSoFar ==
    next > 0 /\ NoRepeats(Order[at]) =>
        LET d == Order[at]
        IN ~panicked /\ List(d) = Says(inherited[d], SubSeq(directives[d], 1, next - 1))

ParentNotLonger ==
    next > 0 /\ OnlyAdditions =>
        LET d == Order[at]
        IN Parent[d] # d /\ slice[Parent[d]].array = slice[d].array => slice[Parent[d]].len <= slice[d].len

ListsInv == ListsType /\ InProgress /\ ObeyedSoFar /\ ParentNotLonger

\* What a step of the packages does to the lists.
LEMMA ListSteps ==
    ASSUME [PackageNext]_<<vars, packageVars>>
    PROVE  Configure \/ ParseDirective \/ Configured \/ UNCHANGED vars
BY DEF PackageNext, RegisterExistingRule, ConfigureDirectory, ParseRuleDirective, ParseListDirective,
       ConfigureReturns, GenerateRules, StartResolving, Resolve, Finalize

LEMMA OrderType ==
    /\ Len(Order) \in Nat /\ DOMAIN Order = 1 .. Len(Order)
    /\ \A i \in DOMAIN Order : Order[i] \in Dir /\ Parent[Order[i]] \in Dir
BY ConfigAssumption, ElementOfSeq, LenProperties

LEMMA ListsInit == PackageInit => ListsInv
<1>. SUFFICES ASSUME PackageInit
              PROVE  ListsInv
  OBVIOUS
<1>1. directives \in [Dir -> Seq(Intent)]
  BY PackageAssumption DEF PackageInit
<1>2. /\ heap = <<>> /\ slice = [d \in Dir |-> NilSlice] /\ inherited = [d \in Dir |-> <<>>]
      /\ at = 1 /\ next = 0 /\ panicked = FALSE
  BY DEF PackageInit, ConfigInit
<1>3. WellFormed(<<>>, NilSlice) /\ NilSlice \in Slice
  BY DEF WellFormed, NilSlice, Slice
<1>4. 1 \in 1 .. Len(Order) + 1
  BY OrderType
<1>5. ListsType
  <2>1. heap \in Heap
    BY <1>2 DEF Heap
  <2>2. \A d \in Dir : slice[d] = NilSlice
    BY <1>2
  <2>3. slice \in [Dir -> Slice] /\ inherited \in [Dir -> Seq(Cell)]
    BY <1>2, <1>3
  <2>4. \A d \in Dir : WellFormed(heap, slice[d])
    BY <1>2, <1>3, <2>2
  <2>5. at \in 1 .. Len(Order) + 1 /\ next \in Nat /\ panicked \in BOOLEAN
    BY <1>2, <1>4
  <2> QED BY <1>1, <2>1, <2>3, <2>4, <2>5 DEF ListsType
<1>6. InProgress /\ ObeyedSoFar /\ ParentNotLonger
  BY <1>2 DEF InProgress, ObeyedSoFar, ParentNotLonger
<1> QED BY <1>5, <1>6 DEF ListsInv

\* The configuration of the directory is that of its parent, or empty.
LEMMA ConfigureInv ==
    ASSUME ListsInv, Configure, NEW d, d = Order[at]
    PROVE  ListsInv'
<1>. DEFINE new == IF Parent[d] = d THEN NilSlice ELSE slice[Parent[d]]
<1>1. /\ heap \in Heap /\ slice \in [Dir -> Slice] /\ inherited \in [Dir -> Seq(Cell)]
      /\ directives \in [Dir -> Seq(Intent)] /\ at \in DOMAIN Order
      /\ \A x \in Dir : WellFormed(heap, slice[x])
  BY DEF ListsInv, ListsType, Configure, Configuring
<1>2. d \in Dir /\ Parent[d] \in Dir
  BY <1>1, OrderType
<1>3. /\ heap' = heap /\ slice' = [slice EXCEPT ![d] = new]
      /\ inherited' = [inherited EXCEPT ![d] = ViewIn(heap, new)]
      /\ next' = 1 /\ directives' = directives /\ at' = at /\ panicked' = panicked /\ panicked = FALSE
  BY DEF Configure, Clone, Configuring, ListsInv, ListsType
<1>4. WellFormed(heap, new) /\ new \in Slice
  <2>1. WellFormed(heap, NilSlice) /\ NilSlice \in Slice
    BY <1>1 DEF WellFormed, NilSlice, Slice, Heap
  <2> QED BY <1>1, <1>2, <2>1
<1>. HIDE DEF new
<1>5. ViewIn(heap, new) \in Seq(Cell)
  BY <1>1, <1>4, ViewType
<1>6. /\ slice' \in [Dir -> Slice] /\ slice'[d] = new
      /\ \A x \in Dir : x # d => slice'[x] = slice[x]
      /\ inherited' \in [Dir -> Seq(Cell)] /\ inherited'[d] = ViewIn(heap, new)
  BY <1>1, <1>2, <1>3, <1>4, <1>5
<1>7. ListsType'
  <2>1. \A x \in Dir : WellFormed(heap', slice'[x])
    BY <1>1, <1>3, <1>4, <1>6
  <2> QED BY <1>3, <1>6, <2>1 DEF ListsInv, ListsType
<1>8. InProgress'
  <2>1. Len(directives[d]) \in Nat
    BY <1>1, <1>2, LenProperties
  <2> QED BY <1>1, <1>3, <2>1 DEF InProgress
<1>9. ObeyedSoFar'
  <2>. SUFFICES ASSUME NoRepeats(d)'
                PROVE  ViewIn(heap, new) = Says(ViewIn(heap, new), SubSeq(directives[d], 1, 0))
    BY <1>3, <1>6 DEF ObeyedSoFar, List
  <2>1. SubSeq(directives[d], 1, 0) = <<>>
    BY SubSeqEmpty
  <2>2. ViewIn(heap, new) \in Lists
    BY <1>5, <1>6 DEF NoRepeats, Lists
  <2>3. <<>> \in Seq(Intent)
    OBVIOUS
  <2> QED BY <2>1, <2>2, <2>3, SaysStep
<1>10. ParentNotLonger'
  <2>1. Parent[d] # d => new = slice[Parent[d]] /\ slice'[Parent[d]] = slice[Parent[d]]
    BY <1>2, <1>6 DEF new
  <2>2. slice[Parent[d]].len \in Nat
    BY <1>1, <1>2 DEF Slice
  <2> QED BY <1>3, <1>6, <2>1, <2>2 DEF ParentNotLonger
<1> QED BY <1>7, <1>8, <1>9, <1>10 DEF ListsInv

\* What a directive of a list makes of it.
IsResult(d, intent, g) ==
    IF intent.want THEN g = Append1(heap, slice[d], intent.item)
    ELSE IF slice[d].array = 0 THEN g = [heap |-> heap, slice |-> slice[d], panicked |-> FALSE]
    ELSE g = RemoveLoop(heap, slice[d], intent.item)

IsDirective(d, intent) == d \in Dir /\ next \in 1 .. Len(directives[d]) /\ intent = directives[d][next]

LEMMA ParseDirectiveResult ==
    ASSUME ListsInv, ParseDirective, NEW d, d = Order[at]
    PROVE  \E intent, g :
               /\ intent \in Intent /\ IsDirective(d, intent) /\ IsResult(d, intent, g)
               /\ heap' = g.heap /\ slice' = [slice EXCEPT ![d] = g.slice] /\ panicked' = g.panicked
               /\ next' = next + 1 /\ directives' = directives /\ inherited' = inherited /\ at' = at
               /\ panicked = FALSE
<1>1. d \in Dir /\ directives[d] \in Seq(Intent) /\ next \in 1 .. Len(directives[d])
  <2>1. d \in Dir
    BY OrderType DEF ParseDirective, Configuring
  <2>2. directives[d] \in Seq(Intent) /\ next \in Nat
    BY <2>1 DEF ListsInv, ListsType
  <2> QED BY <2>1, <2>2 DEF ParseDirective
<1>2. directives[d][next] \in Intent
  BY <1>1, ElementOfSeq
<1>. DEFINE intent == directives[d][next]
            g == IF intent.want THEN Append1(heap, slice[d], intent.item)
                 ELSE IF slice[d].array = 0 THEN [heap |-> heap, slice |-> slice[d], panicked |-> FALSE]
                 ELSE RemoveLoop(heap, slice[d], intent.item)
<1>3. panicked = FALSE
  BY DEF ParseDirective, Configuring, ListsInv, ListsType
<1>4. IsDirective(d, intent) /\ IsResult(d, intent, g)
  BY <1>1 DEF IsDirective, IsResult
<1>5. /\ heap' = g.heap /\ slice' = [slice EXCEPT ![d] = g.slice] /\ panicked' = g.panicked
      /\ next' = next + 1 /\ directives' = directives /\ inherited' = inherited /\ at' = at
  BY DEF ParseDirective, Add
<1>. HIDE DEF g
<1> QED BY <1>2, <1>3, <1>4, <1>5

\* It stays a slice, and so do the others.
LEMMA ResultType ==
    ASSUME ListsInv, NEW d \in Dir, NEW intent \in Intent, NEW g, IsResult(d, intent, g)
    PROVE  /\ g.heap \in Heap /\ WellFormed(g.heap, g.slice) /\ g.panicked \in BOOLEAN
           /\ \A t : WellFormed(heap, t) => WellFormed(g.heap, t)
<1>. DEFINE s == slice[d]
<1>1. heap \in Heap /\ WellFormed(heap, s)
  BY DEF ListsInv, ListsType
<1>2. intent.item \in Cell
  BY DEF Intent, Cell
<1>3. CASE intent.want
  <2>1. IsAppended(g, heap, s, intent.item)
    BY <1>3 DEF IsResult, IsAppended
  <2>. HIDE DEF s
  <2>2. g.heap \in Heap /\ WellFormed(g.heap, g.slice) /\ g.panicked = FALSE /\ Kept(heap, s, g)
    BY <1>1, <1>2, <2>1, AppendShows
  <2> QED BY <2>2 DEF Kept
<1>4. CASE ~intent.want /\ s.array = 0
  <2>1. g = [heap |-> heap, slice |-> s, panicked |-> FALSE]
    BY <1>4 DEF IsResult
  <2>. HIDE DEF s
  <2> QED BY <1>1, <2>1
<1>5. CASE ~intent.want /\ s.array # 0
  <2>1. g = RemoveLoop(heap, s, intent.item)
    BY <1>5 DEF IsResult
  <2>. HIDE DEF s
  <2>2. g \in LoopState(heap, s)
    BY <1>1, <1>5, <2>1, RemoveLoopType
  <2>3. /\ g.heap \in Heap /\ Len(g.heap) = Len(heap) /\ g.panicked \in BOOLEAN
        /\ \A a \in 1 .. Len(heap) : Len(g.heap[a]) = Len(heap[a])
        /\ g.slice \in [array : {s.array}, len : 0 .. s.len]
    BY <2>2 DEF LoopState
  <2>4. ASSUME NEW t, WellFormed(heap, t)
        PROVE  WellFormed(g.heap, t)
    BY <1>1, <2>3, <2>4 DEF WellFormed, Slice, Heap
  <2>5. s.len \in Nat /\ s.array \in 1 .. Len(heap) /\ s.len <= Len(heap[s.array]) /\ s.array \in Nat
    BY <1>1, <1>5 DEF WellFormed, Slice
  <2>6. Len(heap[s.array]) \in Nat
    BY <1>1, <2>5, ElementOfSeq, LenProperties DEF Heap
  <2>7. /\ g.slice.array = s.array /\ g.slice.len \in Nat /\ g.slice.len <= s.len /\ g.slice \in Slice
    BY <2>3, <2>5 DEF Slice
  <2>8. WellFormed(g.heap, g.slice)
    BY <1>5, <2>3, <2>5, <2>6, <2>7 DEF WellFormed
  <2> QED BY <2>3, <2>4, <2>8
<1> QED BY <1>3, <1>4, <1>5

\* It shows what the directive makes of what was shown, if that had no item twice.
LEMMA ResultShows ==
    ASSUME ListsInv, NEW d \in Dir, NEW intent \in Intent, NEW g, IsResult(d, intent, g),
           ViewIn(heap, slice[d]) \in Lists,
           intent.want => ~Contains(ViewIn(heap, slice[d]), intent.item)
    PROVE  g.panicked = FALSE /\ ViewIn(g.heap, g.slice) = Applied(ViewIn(heap, slice[d]), intent)
<1>. DEFINE s == slice[d]
<1>1. heap \in Heap /\ WellFormed(heap, s) /\ ViewIn(heap, s) \in Lists
  BY DEF ListsInv, ListsType
<1>2. intent.item \in Cell
  BY DEF Intent, Cell
<1>3. CASE intent.want
  <2>1. IsAppended(g, heap, s, intent.item) /\ ~Contains(ViewIn(heap, s), intent.item)
    BY <1>3 DEF IsResult, IsAppended
  <2>. HIDE DEF s
  <2>2. g.panicked = FALSE /\ ViewIn(g.heap, g.slice) = Append(ViewIn(heap, s), intent.item)
    BY <1>1, <1>2, <2>1, AppendShows
  <2> QED BY <1>3, <2>1, <2>2 DEF Applied, s
<1>4. CASE ~intent.want /\ s.array = 0
  <2>1. g = [heap |-> heap, slice |-> s, panicked |-> FALSE]
    BY <1>4 DEF IsResult
  <2>. HIDE DEF s
  <2>2. ViewIn(heap, s) = <<>> /\ ViewIn(g.heap, g.slice) = <<>> /\ g.panicked = FALSE
    BY <1>4, <2>1 DEF ViewIn
  <2>3. Len(<<>>) = 0 /\ ~\E i \in 1 .. 0 : <<>>[i] = intent.item
    OBVIOUS
  <2>4. RemoveFirst(<<>>, intent.item) = <<>>
    BY <1>1, <2>2, <2>3, RemoveNothing
  <2> QED BY <1>4, <2>2, <2>4 DEF Applied, s
<1>5. CASE ~intent.want /\ s.array # 0
  <2>1. IsRemoved(g, heap, s, intent.item)
    BY <1>5 DEF IsResult, IsRemoved
  <2>. HIDE DEF s
  <2>2. g.panicked = FALSE /\ ViewIn(g.heap, g.slice) = RemoveFirst(ViewIn(heap, s), intent.item)
    <3>. DEFINE item == intent.item
    <3>1. IsRemoved(g, heap, s, item)
      BY <2>1
    <3>2. s.array # 0
      BY <1>5
    <3>. HIDE DEF item
    <3>3. IsWithout(g, ViewIn(heap, s), item)
      BY <1>1, <3>1, <3>2, RemoveLoopRemoves
    <3> QED BY <3>3 DEF IsWithout, item
  <2> QED BY <1>5, <2>2 DEF Applied, s
<1> QED BY <1>3, <1>4, <1>5

\* What is added to a list shows in no shorter one of the same array.
LEMMA AdditionHides ==
    ASSUME ListsInv, NEW d \in Dir, NEW intent \in Intent, NEW g, IsResult(d, intent, g), intent.want,
           NEW p \in Dir
    PROVE  /\ slice[p].array = g.slice.array =>
                    g.slice.len = slice[d].len + 1 /\ slice[p].array = slice[d].array
           /\ (slice[p].array = slice[d].array => slice[p].len <= slice[d].len) =>
                    ViewIn(g.heap, slice[p]) = ViewIn(heap, slice[p])
<1>. DEFINE s == slice[d]
            t == slice[p]
<1>1. heap \in Heap /\ WellFormed(heap, s) /\ WellFormed(heap, t)
  BY DEF ListsInv, ListsType
<1>2. intent.item \in Cell
  BY DEF Intent, Cell
<1>3. IsAppended(g, heap, s, intent.item)
  BY DEF IsResult, IsAppended
<1>. HIDE DEF s, t
<1>4. Kept(heap, s, g)
  BY <1>1, <1>2, <1>3, AppendShows
<1>5. /\ t.array = g.slice.array => g.slice.len = s.len + 1 /\ t.array = s.array
      /\ (t.array = s.array => t.len <= s.len) => ViewIn(g.heap, t) = ViewIn(heap, t)
  BY <1>1, <1>4 DEF Kept
<1> QED BY <1>5 DEF s, t

LEMMA ParseDirectiveInv ==
    ASSUME ListsInv, ParseDirective, NEW d, d = Order[at]
    PROVE  ListsInv'
<1>1. PICK intent, g :
               /\ intent \in Intent /\ IsDirective(d, intent) /\ IsResult(d, intent, g)
               /\ heap' = g.heap /\ slice' = [slice EXCEPT ![d] = g.slice] /\ panicked' = g.panicked
               /\ next' = next + 1 /\ directives' = directives /\ inherited' = inherited /\ at' = at
               /\ panicked = FALSE
  BY ParseDirectiveResult
<1>2. /\ heap \in Heap /\ slice \in [Dir -> Slice] /\ inherited \in [Dir -> Seq(Cell)]
      /\ directives \in [Dir -> Seq(Intent)] /\ at \in 1 .. Len(Order) + 1 /\ at \in DOMAIN Order
      /\ next \in Nat /\ \A x \in Dir : WellFormed(heap, slice[x])
  BY DEF ListsInv, ListsType, ParseDirective, Configuring
<1>3. d \in Dir /\ intent \in Intent /\ intent = directives[d][next] /\ next \in 1 .. Len(directives[d])
  BY <1>1 DEF IsDirective
<1>4. IsResult(d, intent, g)
  BY <1>1
<1>5. /\ g.heap \in Heap /\ WellFormed(g.heap, g.slice) /\ g.panicked \in BOOLEAN
      /\ \A x \in Dir : WellFormed(g.heap, slice[x])
  BY <1>2, <1>3, <1>4, ResultType
<1>6. /\ slice' \in [Dir -> Slice] /\ slice'[d] = g.slice
      /\ \A x \in Dir : x # d => slice'[x] = slice[x]
  BY <1>1, <1>2, <1>3, <1>5 DEF WellFormed
<1>7. ListsType'
  <2>1. \A x \in Dir : WellFormed(heap', slice'[x])
    BY <1>1, <1>5, <1>6
  <2> QED BY <1>1, <1>2, <1>5, <1>6, <2>1 DEF ListsType
<1>8. InProgress'
  BY <1>1, <1>2, <1>3 DEF InProgress
<1>9. ObeyedSoFar'
  <2>. DEFINE before == SubSeq(directives[d], 1, next - 1)
  <2>1. directives[d] \in Seq(Intent) /\ Len(directives[d]) \in Nat /\ next - 1 \in Int /\ (next + 1) - 1 = next
    BY <1>1, <1>2, <1>3, LenProperties
  <2>. SUFFICES ASSUME NoRepeats(d)
                PROVE  /\ g.panicked = FALSE
                       /\ ViewIn(g.heap, g.slice) = Says(inherited[d], SubSeq(directives[d], 1, next))
    <3>1. NoRepeats(d)' <=> NoRepeats(d)
      BY <1>1 DEF NoRepeats
    <3> QED BY <1>1, <1>6, <2>1, <3>1 DEF ObeyedSoFar, List
  <2>2. inherited[d] \in Lists
    BY <1>2, <1>3 DEF NoRepeats, Lists
  <2>3. Says(inherited[d], SubSeq(directives[d], 1, next)) = Applied(Says(inherited[d], before), intent)
    BY <1>3, <2>1, <2>2, SaysStep
  <2>4. ViewIn(heap, slice[d]) = Says(inherited[d], before)
    BY <1>2, <1>3 DEF ListsInv, ObeyedSoFar, List
  <2>5. before \in Seq(Intent)
    BY <1>3, <2>1, PrefixAppend
  <2>6. ViewIn(heap, slice[d]) \in Lists
    BY <2>2, <2>4, <2>5, SaysStep
  <2>7. intent.want => ~Contains(ViewIn(heap, slice[d]), intent.item)
    BY <1>3, <2>1, <2>4, LenProperties DEF NoRepeats
  <2>8. g.panicked = FALSE /\ ViewIn(g.heap, g.slice) = Applied(ViewIn(heap, slice[d]), intent)
    BY <1>3, <1>4, <2>6, <2>7, ResultShows
  <2> QED BY <2>3, <2>4, <2>8
<1>10. ParentNotLonger'
  <2>. DEFINE p == slice[Parent[d]]
  <2>. SUFFICES ASSUME OnlyAdditions, Parent[d] # d, p.array = g.slice.array
                PROVE  p.len <= g.slice.len
    <3>1. Parent[d] \in Dir /\ OnlyAdditions' = OnlyAdditions
      BY <1>1, <1>2, OrderType DEF OnlyAdditions
    <3> QED BY <1>1, <1>6, <3>1 DEF ParentNotLonger
  <2>1. Parent[d] \in Dir
    BY <1>2, OrderType
  <2>2. intent.want
    <3>1. next \in DOMAIN directives[d]
      BY <1>1, <1>2, <1>3, LenProperties
    <3> QED BY <1>3, <3>1 DEF OnlyAdditions
  <2>3. p.array = slice[d].array /\ g.slice.len = slice[d].len + 1
    BY <1>3, <1>4, <2>1, <2>2, AdditionHides
  <2>4. p.len <= slice[d].len
    BY <1>1, <1>3, <2>3 DEF ListsInv, ParentNotLonger
  <2>5. p.len \in Nat /\ slice[d].len \in Nat
    BY <1>2, <1>3, <2>1 DEF Slice
  <2> QED BY <2>3, <2>4, <2>5
<1> QED BY <1>7, <1>8, <1>9, <1>10 DEF ListsInv

LEMMA ConfiguredInv ==
    ASSUME ListsInv, Configured
    PROVE  ListsInv'
<1>1. /\ at' = at + 1 /\ next' = 0 /\ UNCHANGED <<directives, heap, slice, inherited, panicked>>
      /\ at \in DOMAIN Order
  BY DEF Configured, Configuring
<1>2. at + 1 \in 1 .. Len(Order) + 1
  BY <1>1, OrderType
<1>3. ListsType'
  BY <1>1, <1>2 DEF ListsInv, ListsType
<1> QED BY <1>1, <1>3 DEF ListsInv, InProgress, ObeyedSoFar, ParentNotLonger

LEMMA ListsUnchanged ==
    ASSUME ListsInv, UNCHANGED vars
    PROVE  ListsInv'
BY DEF vars, ListsInv, ListsType, InProgress, ObeyedSoFar, ParentNotLonger, NoRepeats, List, OnlyAdditions

THEOREM ListsInvariance == PackageSpec => []ListsInv
<1>1. PackageInit => ListsInv
  BY ListsInit
<1>2. ListsInv /\ [PackageNext]_<<vars, packageVars>> => ListsInv'
  BY ListSteps, ConfigureInv, ParseDirectiveInv, ConfiguredInv, ListsUnchanged
<1> QED BY <1>1, <1>2, PTL DEF PackageSpec

\* Configure makes of the inherited list what the directives say, where no item is
\* listed twice, although the removal loop shifts the array that it ranges over.
THEOREM ListsObeyDirectives == PackageSpec => []ConfigureObeysDirectives
<1>1. ListsInv => ConfigureObeysDirectives
  <2>. SUFFICES ASSUME ListsInv, NEW d \in Dir, at <= Len(Order), Order[at] = d, next > 0, NoRepeats(d),
                       next > Len(directives[d])
                PROVE  List(d) = Says(inherited[d], directives[d])
    BY DEF ConfigureObeysDirectives, ListsInv, ObeyedSoFar
  <2>1. directives[d] \in Seq(Intent) /\ Len(directives[d]) \in Nat /\ next \in Nat
    BY LenProperties DEF ListsInv, ListsType
  <2>2. next - 1 = Len(directives[d])
    BY <2>1 DEF ListsInv, InProgress
  <2>3. SubSeq(directives[d], 1, Len(directives[d])) = directives[d]
    BY <2>1, SubSeqFull
  <2> QED BY <2>2, <2>3 DEF ListsInv, ObeyedSoFar
<1> QED BY <1>1, ListsInvariance, PTL

\* Where nothing is removed, the directives of a directory leave the list of the
\* directory above it as it was.
THEOREM ListsKeepParent == PackageSpec => ParentKept
<1>1. ASSUME ListsInv, [PackageNext]_<<vars, packageVars>>, OnlyAdditions, NEW p \in Dir,
             at \in DOMAIN Order, p = Parent[Order[at]], p # Order[at]
      PROVE  List(p)' = List(p)
  <2>. DEFINE d == Order[at]
  <2>1. /\ heap \in Heap /\ slice \in [Dir -> Slice] /\ \A x \in Dir : WellFormed(heap, slice[x])
    BY <1>1 DEF ListsInv, ListsType
  <2>2. CASE Configure
    <3>1. heap' = heap /\ slice'[p] = slice[p]
      BY <1>1, <2>1, <2>2 DEF Configure, Clone
    <3> QED BY <3>1 DEF List
  <2>3. CASE ParseDirective
    <3>1. PICK intent, g :
               /\ intent \in Intent /\ IsDirective(d, intent) /\ IsResult(d, intent, g)
               /\ heap' = g.heap /\ slice' = [slice EXCEPT ![d] = g.slice] /\ panicked' = g.panicked
               /\ next' = next + 1 /\ directives' = directives /\ inherited' = inherited /\ at' = at
               /\ panicked = FALSE
      BY <1>1, <2>3, ParseDirectiveResult
    <3>2. d \in Dir /\ intent \in Intent /\ intent = directives[d][next] /\ next \in 1 .. Len(directives[d])
      BY <3>1 DEF IsDirective
    <3>3. intent.want
      <4>1. directives[d] \in Seq(Intent)
        BY <1>1, <3>2 DEF ListsInv, ListsType
      <4>2. next \in DOMAIN directives[d]
        BY <3>2, <4>1, LenProperties
      <4> QED BY <1>1, <3>2, <4>2 DEF OnlyAdditions
    <3>4. slice[p].array = slice[d].array => slice[p].len <= slice[d].len
      BY <1>1, <3>2 DEF ListsInv, ParentNotLonger
    <3>5. ViewIn(g.heap, slice[p]) = ViewIn(heap, slice[p])
      BY <1>1, <3>1, <3>2, <3>3, <3>4, AdditionHides
    <3>6. slice'[p] = slice[p]
      BY <1>1, <2>1, <3>1, <3>2
    <3> QED BY <3>1, <3>5, <3>6 DEF List
  <2>4. CASE Configured \/ UNCHANGED vars
    BY <2>4 DEF Configured, vars, List
  <2> QED BY <1>1, <2>2, <2>3, <2>4, ListSteps
<1>2. ListsInv /\ [PackageNext]_<<vars, packageVars>> =>
        [OnlyAdditions =>
            \A d \in Dir :
                at \in DOMAIN Order /\ d = Parent[Order[at]] /\ d # Order[at] => List(d)' = List(d)]_vars
  BY <1>1
<1> QED BY <1>2, ListsInvariance, PTL DEF PackageSpec, ParentKept
-----------------------------------------------------------------------------
(***************************************************************************)
(* What the directives of settings and rule configurations say, directive  *)
(* by directive.                                                           *)
(***************************************************************************)
SettingsType ==
    [generateBuildFiles : BOOLEAN, keepUnmanagedDeps : BOOLEAN, annotations : SUBSET Annotation,
     rewrites : SUBSET [kind : STRING, src : STRING, afterName : BOOLEAN, text : STRING]]

ConfigType ==
    [implementation : STRING, enabled : BOOLEAN, deps : SUBSET STRING, options : SUBSET STRING,
     attrs : SUBSET [attr : STRING, value : STRING, want : BOOLEAN]]

SettingFcn == [setting \in SettingsType |-> [directive \in Directive |-> SettingAfter(setting, directive)]]

ConfigFcn(name) ==
    [config \in ConfigType |-> [directive \in Directive |-> ConfigAfter(name, config, directive)]]

\* The result of a directive: an error, or one of a type.
IsAnswer(answer, T) == answer = <<>> \/ \E x \in T : answer = <<x>>

LEMMA AfterType ==
    ASSUME NEW T, NEW old \in T, NEW answer, IsAnswer(answer, T)
    PROVE  After(old, answer) \in T
BY DEF After, IsAnswer

LEMMA DirectiveType ==
    ASSUME NEW d \in Directive
    PROVE  /\ d.name \in STRING /\ d.param \in STRING /\ d.attr \in STRING /\ d.value \in STRING
           /\ d.want \in BOOLEAN /\ d.keyWant \in BOOLEAN
           /\ d.param \in SettingParams \/ d.name \in ToSet(ConfigNames)
BY DEF Directive

LEMMA SetType ==
    ASSUME NEW setting \in SettingsType, NEW d \in Directive, IsSetting(d)
    PROVE  IsAnswer(Set(setting, d), SettingsType)
<1>1. d.name \in STRING /\ d.attr \in STRING /\ d.value \in STRING /\ d.want \in BOOLEAN
  BY DirectiveType
<1>2. CASE d.param = "generate"
  <2>1. [setting EXCEPT !.generateBuildFiles = (d.value = "true")] \in SettingsType
    BY DEF SettingsType
  <2> QED BY <1>2, <2>1 DEF Set, ParseGenerateBuildFiles, IsAnswer
<1>3. CASE d.param = "keep"
  <2>1. [setting EXCEPT !.keepUnmanagedDeps = (d.value = "true")] \in SettingsType
    BY DEF SettingsType
  <2> QED BY <1>3, <2>1 DEF Set, ParseKeepUnmanagedDeps, IsAnswer
<1>4. CASE d.param = "debug"
  <2>1. d.value \in Annotation => [setting EXCEPT !.annotations = With(@, d.want, d.value)] \in SettingsType
    BY DEF SettingsType, With
  <2> QED BY <1>4, <2>1 DEF Set, ParseScalaAnnotation, IsAnswer
<1>5. CASE d.param = "rewrite"
  <2>. DEFINE rewritten == {r \in setting.rewrites : r.kind # d.attr}
                  \cup {[kind |-> d.attr, src |-> d.name, afterName |-> d.want, text |-> d.value]}
  <2>1. rewritten \in SUBSET [kind : STRING, src : STRING, afterName : BOOLEAN, text : STRING]
    BY <1>1 DEF SettingsType
  <2>2. [setting EXCEPT !.rewrites = rewritten] \in SettingsType
    <3>. HIDE DEF rewritten
    <3> QED BY <2>1 DEF SettingsType
  <2>3. Set(setting, d) = <<[setting EXCEPT !.rewrites = rewritten]>>
    BY <1>5 DEF Set, ParseRewriteName, SettingsType
  <2> QED BY <2>2, <2>3 DEF IsAnswer
<1> QED BY <1>2, <1>3, <1>4, <1>5 DEF IsSetting, SettingParams

LEMMA ObeyedType ==
    ASSUME NEW config \in ConfigType, NEW d \in Directive
    PROVE  IsAnswer(Obeyed(config, d), ConfigType)
<1>1. d.name \in STRING /\ d.attr \in STRING /\ d.value \in STRING /\ d.want \in BOOLEAN /\ d.keyWant \in BOOLEAN
  BY DirectiveType
<1>2. CASE d.param \in {"dep", "deps"}
  <2>1. [config EXCEPT !.deps = With(@, d.want, d.value)] \in ConfigType
    BY <1>1 DEF ConfigType, With
  <2> QED BY <1>2, <2>1 DEF Obeyed, IsAnswer
<1>3. CASE d.param = "option"
  <2>1. [config EXCEPT !.options = With(@, d.want, d.value)] \in ConfigType
    BY <1>1 DEF ConfigType, With
  <2> QED BY <1>3, <2>1 DEF Obeyed, IsAnswer
<1>4. CASE d.param = "attr" /\ d.want /\ d.value = ""
  BY <1>4 DEF Obeyed, IsAnswer
<1>5. CASE d.param = "attr" /\ ~d.want
  <2>1. [config EXCEPT !.attrs = {a \in config.attrs : a.attr # d.attr}] \in ConfigType
    BY DEF ConfigType
  <2> QED BY <1>5, <2>1 DEF Obeyed, IsAnswer
<1>6. CASE d.param = "attr" /\ d.want /\ d.value # ""
  <2>. DEFINE attrs == (config.attrs \ {a \in config.attrs : a.attr = d.attr /\ a.value = d.value})
                       \cup {[attr |-> d.attr, value |-> d.value, want |-> d.keyWant]}
  <2>1. attrs \in SUBSET [attr : STRING, value : STRING, want : BOOLEAN]
    BY <1>1 DEF ConfigType
  <2>2. [config EXCEPT !.attrs = attrs] \in ConfigType
    <3>. HIDE DEF attrs
    <3> QED BY <2>1 DEF ConfigType
  <2>3. Obeyed(config, d) = <<[config EXCEPT !.attrs = attrs]>>
    BY <1>6 DEF Obeyed, ConfigType
  <2> QED BY <2>2, <2>3 DEF IsAnswer
<1>7. CASE d.param = "implementation"
  <2>1. [config EXCEPT !.implementation = d.value] \in ConfigType
    BY <1>1 DEF ConfigType
  <2> QED BY <1>7, <2>1 DEF Obeyed, IsAnswer
<1>8. CASE d.param = "enabled" /\ d.value \in {"true", "false"}
  <2>1. [config EXCEPT !.enabled = (d.value = "true")] \in ConfigType
    BY DEF ConfigType
  <2> QED BY <1>8, <2>1 DEF Obeyed, IsAnswer
<1>9. CASE /\ d.param \notin {"dep", "deps", "option", "attr", "implementation"}
           /\ ~(d.param = "enabled" /\ d.value \in {"true", "false"})
  BY <1>9 DEF Obeyed, IsAnswer
<1> QED BY <1>1, <1>2, <1>3, <1>4, <1>5, <1>6, <1>7, <1>8, <1>9

LEMMA SettingAfterType == IsStep(SettingFcn, SettingsType, Directive)
<1>. SUFFICES ASSUME NEW setting \in SettingsType, NEW d \in Directive
              PROVE  SettingAfter(setting, d) \in SettingsType
  BY DEF SettingFcn, IsStep
<1> QED BY SetType, AfterType DEF SettingAfter

LEMMA ConfigAfterType ==
    ASSUME NEW name
    PROVE  IsStep(ConfigFcn(name), ConfigType, Directive)
<1>. SUFFICES ASSUME NEW config \in ConfigType, NEW d \in Directive
              PROVE  ConfigAfter(name, config, d) \in ConfigType
  BY DEF ConfigFcn, IsStep
<1> QED BY ObeyedType, AfterType DEF ConfigAfter

LEMMA NewTypes ==
    /\ NewSettings \in SettingsType
    /\ \A name \in ToSet(ConfigNames) : name \in STRING /\ NewConfig(name) \in ConfigType
<1>1. NewSettings \in SettingsType
  BY DEF NewSettings, SettingsType
<1>2. ASSUME NEW name \in ToSet(ConfigNames)
      PROVE  name \in STRING
  BY PackageAssumption DEF ToSet
<1>3. ASSUME NEW name \in STRING
      PROVE  NewConfig(name) \in ConfigType
  BY DEF NewConfig, ConfigType
<1> QED BY <1>1, <1>2, <1>3

LEMMA MeantSettingsIsFold ==
    ASSUME NEW said \in Seq(Directive)
    PROVE  MeantSettings(said) = Folded(SettingFcn, NewSettings, said)
<1>. DEFINE m == Len(said)
            IsIter(h) == h = [s \in SUBSET (1 .. m) |->
                                 IF s = {} THEN NewSettings ELSE SettingAfter(h[s \ {Max(s)}], said[Max(s)])]
            step == PositionSteps(SettingFcn, SettingsType, said)
            iter == CHOOSE h : IsIter(h)
<1>1. m \in Nat /\ DOMAIN said = 1 .. m
  OBVIOUS
<1>2. MeantSettings(said) = iter[1 .. m]
  BY <1>1 DEF MeantSettings, FoldLeft, MapThenFoldSet
<1>3. step \in [1 .. m -> [SettingsType -> SettingsType]]
  BY SettingAfterType DEF PositionSteps, IsStep
<1>4. NewSettings \in SettingsType
  BY NewTypes
<1>5. PICK f : IsFold(f, SettingsType, NewSettings, step, m)
  <2>. HIDE DEF step, m
  <2>1. m \in Nat
    BY <1>1 DEF m
  <2> QED BY <1>3, <1>4, <2>1, FoldExists
<1>6. ASSUME NEW s \in SUBSET (1 .. m), s # {}
      PROVE  Max(s) \in 1 .. m /\ said[Max(s)] \in Directive
  <2>1. \E x \in s : \A y \in s : x >= y
    BY <1>1, <1>6, RangeHasMax
  <2>2. Max(s) \in 1 .. m
    BY <2>1 DEF Max
  <2> QED BY <2>2, ElementOfSeq
<1>7. ASSUME NEW s \in SUBSET (1 .. m), s # {}, NEW x \in SettingsType
      PROVE  /\ step[Max(s)][x] = SettingAfter(x, said[Max(s)])
             /\ SettingFcn[x][said[Max(s)]] = SettingAfter(x, said[Max(s)])
  <2>1. SettingFcn[x][said[Max(s)]] = SettingAfter(x, said[Max(s)])
    BY <1>6, <1>7 DEF SettingFcn
  <2>2. step[Max(s)][x] = SettingFcn[x][said[Max(s)]]
    BY <1>6, <1>7 DEF PositionSteps
  <2> QED BY <2>1, <2>2
<1>. HIDE DEF step
<1>8. IsIter(f)
  BY <1>5, <1>7 DEF IsFold
<1>9. IsIter(iter)
  <2>. HIDE DEF IsIter
  <2> QED BY <1>8
<1>. HIDE DEF iter
<1>10. FoldsLeft(iter, SettingFcn, SettingsType, Directive, NewSettings, said)
  <2>1. iter = [s \in SUBSET (1 .. m) |-> iter[s]]
    BY <1>9
  <2>2. ASSUME NEW s \in SUBSET (1 .. m), s # {}, iter[s \ {Max(s)}] \in SettingsType
        PROVE  iter[s] = SettingFcn[iter[s \ {Max(s)}]][said[Max(s)]]
    <3>1. iter[s] = SettingAfter(iter[s \ {Max(s)}], said[Max(s)])
      BY <1>9, <2>2
    <3> QED BY <1>7, <2>2, <3>1
  <2>3. iter[{}] = NewSettings
    BY <1>9
  <2>. HIDE DEF IsIter
  <2> QED BY <1>4, <2>1, <2>2, <2>3, SettingAfterType DEF FoldsLeft
<1>11. iter[1 .. Len(said)] = Folded(SettingFcn, NewSettings, said)
  BY <1>10, FoldLeftFolds
<1> QED BY <1>2, <1>11

LEMMA MeantConfigIsFold ==
    ASSUME NEW name \in ToSet(ConfigNames), NEW said \in Seq(Directive)
    PROVE  MeantConfig(said, name) = Folded(ConfigFcn(name), NewConfig(name), said)
<1>. DEFINE m == Len(said)
            IsIter(h) == h = [s \in SUBSET (1 .. m) |->
                                 IF s = {} THEN NewConfig(name) ELSE ConfigAfter(name, h[s \ {Max(s)}], said[Max(s)])]
            step == PositionSteps(ConfigFcn(name), ConfigType, said)
            iter == CHOOSE h : IsIter(h)
<1>1. m \in Nat /\ DOMAIN said = 1 .. m
  OBVIOUS
<1>2. MeantConfig(said, name) = iter[1 .. m]
  BY <1>1 DEF MeantConfig, FoldLeft, MapThenFoldSet
<1>3. step \in [1 .. m -> [ConfigType -> ConfigType]]
  BY ConfigAfterType DEF PositionSteps, IsStep
<1>4. NewConfig(name) \in ConfigType
  BY NewTypes
<1>5. PICK f : IsFold(f, ConfigType, NewConfig(name), step, m)
  <2>. HIDE DEF step, m
  <2>1. m \in Nat
    BY <1>1 DEF m
  <2> QED BY <1>3, <1>4, <2>1, FoldExists
<1>6. ASSUME NEW s \in SUBSET (1 .. m), s # {}
      PROVE  Max(s) \in 1 .. m /\ said[Max(s)] \in Directive
  <2>1. \E x \in s : \A y \in s : x >= y
    BY <1>1, <1>6, RangeHasMax
  <2>2. Max(s) \in 1 .. m
    BY <2>1 DEF Max
  <2> QED BY <2>2, ElementOfSeq
<1>7. ASSUME NEW s \in SUBSET (1 .. m), s # {}, NEW x \in ConfigType
      PROVE  /\ step[Max(s)][x] = ConfigAfter(name, x, said[Max(s)])
             /\ ConfigFcn(name)[x][said[Max(s)]] = ConfigAfter(name, x, said[Max(s)])
  <2>1. ConfigFcn(name)[x][said[Max(s)]] = ConfigAfter(name, x, said[Max(s)])
    BY <1>6, <1>7 DEF ConfigFcn
  <2>2. step[Max(s)][x] = ConfigFcn(name)[x][said[Max(s)]]
    BY <1>6, <1>7 DEF PositionSteps
  <2> QED BY <2>1, <2>2
<1>. HIDE DEF step
<1>8. IsIter(f)
  BY <1>5, <1>7 DEF IsFold
<1>9. IsIter(iter)
  <2>. HIDE DEF IsIter
  <2> QED BY <1>8
<1>. HIDE DEF iter
<1>10. FoldsLeft(iter, ConfigFcn(name), ConfigType, Directive, NewConfig(name), said)
  <2>1. iter = [s \in SUBSET (1 .. m) |-> iter[s]]
    BY <1>9
  <2>2. ASSUME NEW s \in SUBSET (1 .. m), s # {}, iter[s \ {Max(s)}] \in ConfigType
        PROVE  iter[s] = ConfigFcn(name)[iter[s \ {Max(s)}]][said[Max(s)]]
    <3>1. iter[s] = ConfigAfter(name, iter[s \ {Max(s)}], said[Max(s)])
      BY <1>9, <2>2
    <3> QED BY <1>7, <2>2, <3>1
  <2>3. iter[{}] = NewConfig(name)
    BY <1>9
  <2>. HIDE DEF IsIter
  <2> QED BY <1>4, <2>1, <2>2, <2>3, ConfigAfterType DEF FoldsLeft
<1>11. iter[1 .. Len(said)] = Folded(ConfigFcn(name), NewConfig(name), said)
  BY <1>10, FoldLeftFolds
<1> QED BY <1>2, <1>11

\* What is meant after one more directive.
LEMMA MeantStep ==
    ASSUME NEW said \in Seq(Directive), NEW d \in Directive
    PROVE  /\ MeantSettings(<<>>) = NewSettings
           /\ MeantSettings(Append(said, d)) = SettingAfter(MeantSettings(said), d)
<1>1. <<>> \in Seq(Directive) /\ Append(said, d) \in Seq(Directive)
  BY AppendProperties
<1>2. NewSettings \in SettingsType
  BY NewTypes
<1>3. Folded(SettingFcn, NewSettings, <<>>) = NewSettings
  BY <1>2, SettingAfterType, FoldedEmpty
<1>4. Folded(SettingFcn, NewSettings, said) \in SettingsType
  BY <1>2, SettingAfterType, FoldedType
<1>5. Folded(SettingFcn, NewSettings, Append(said, d)) = SettingFcn[Folded(SettingFcn, NewSettings, said)][d]
  BY <1>2, SettingAfterType, FoldedAppend
<1>6. SettingFcn[Folded(SettingFcn, NewSettings, said)][d] = SettingAfter(Folded(SettingFcn, NewSettings, said), d)
  BY <1>4 DEF SettingFcn
<1>7. /\ MeantSettings(<<>>) = Folded(SettingFcn, NewSettings, <<>>)
      /\ MeantSettings(said) = Folded(SettingFcn, NewSettings, said)
      /\ MeantSettings(Append(said, d)) = Folded(SettingFcn, NewSettings, Append(said, d))
  BY <1>1, MeantSettingsIsFold
<1> QED BY <1>3, <1>5, <1>6, <1>7

LEMMA MeantConfigStep ==
    ASSUME NEW said \in Seq(Directive), NEW d \in Directive, NEW name \in ToSet(ConfigNames)
    PROVE  /\ MeantConfig(said, name) \in ConfigType
           /\ MeantConfig(<<>>, name) = NewConfig(name)
           /\ MeantConfig(Append(said, d), name) = ConfigAfter(name, MeantConfig(said, name), d)
<1>. DEFINE F == ConfigFcn(name)
            base == NewConfig(name)
<1>1. <<>> \in Seq(Directive) /\ Append(said, d) \in Seq(Directive)
  BY AppendProperties
<1>2. base \in ConfigType /\ IsStep(F, ConfigType, Directive)
  BY NewTypes, ConfigAfterType
<1>3. /\ MeantConfig(<<>>, name) = Folded(F, base, <<>>)
      /\ MeantConfig(said, name) = Folded(F, base, said)
      /\ MeantConfig(Append(said, d), name) = Folded(F, base, Append(said, d))
  BY <1>1, MeantConfigIsFold
<1>. HIDE DEF F, base
<1>4. Folded(F, base, <<>>) = base
  BY <1>2, FoldedEmpty
<1>5. Folded(F, base, said) \in ConfigType
  BY <1>2, FoldedType
<1>6. Folded(F, base, Append(said, d)) = F[Folded(F, base, said)][d]
  BY <1>2, FoldedAppend
<1>7. F[Folded(F, base, said)][d] = ConfigAfter(name, Folded(F, base, said), d)
  BY <1>5 DEF F, ConfigFcn
<1> QED BY <1>3, <1>4, <1>5, <1>6, <1>7 DEF base
-----------------------------------------------------------------------------
(***************************************************************************)
(* What is said of a directory: what is said above it, then its own.       *)
(***************************************************************************)
Above(d) == IF Parent[d] = d THEN <<>> ELSE Said[Parent[d]]

\* The directories are configured once, and a parent before its children.
LEMMA OrderedParents ==
    /\ \A i, j \in DOMAIN Order : Order[i] = Order[j] => i = j
    /\ \A i \in DOMAIN Order : Parent[Order[i]] # Order[i] =>
            \E j \in 1 .. (i - 1) : j \in DOMAIN Order /\ Order[j] = Parent[Order[i]]
<1>1. \A i, j \in DOMAIN Order : Order[i] = Order[j] => i = j
  BY ConfigAssumption DEF IsInjective
<1>2. ASSUME NEW i \in DOMAIN Order, Parent[Order[i]] # Order[i]
      PROVE  \E j \in 1 .. (i - 1) : j \in DOMAIN Order /\ Order[j] = Parent[Order[i]]
  <2>1. PICK j \in 1 .. (i - 1) : Order[j] = Parent[Order[i]]
    BY <1>2, ConfigAssumption
  <2>2. j \in DOMAIN Order
    BY OrderType
  <2> QED BY <2>1, <2>2
<1> QED BY <1>1, <1>2

LEMMA SaidSteps ==
    ASSUME workspace \in Workspaces
    PROVE  /\ Said \in [Dir -> Seq(Directive)]
           /\ \A i \in DOMAIN Order : Said[Order[i]] = Above(Order[i]) \o workspace.rules[Order[i]]
<1>. DEFINE n == Len(Order)
            V == [Dir -> Seq(Directive)]
            base == [d \in Dir |-> <<>>]
            over(v, d) == [v EXCEPT ![d] = (IF Parent[d] = d THEN <<>> ELSE v[Parent[d]]) \o workspace.rules[d]]
            IsSaid(f) == f = [i \in 0 .. n |-> IF i = 0 THEN base ELSE over(f[i - 1], Order[i])]
            step == [k \in Nat |-> [v \in V |-> IF k < n THEN over(v, Order[k + 1]) ELSE v]]
            said == CHOOSE f : IsSaid(f)
<1>1. n \in Nat /\ \A i \in 1 .. n : i \in DOMAIN Order /\ Order[i] \in Dir /\ Parent[Order[i]] \in Dir
  BY OrderType
<1>2. workspace.rules \in [Dir -> Seq(Directive)]
  BY PackageAssumption
<1>3. base \in V
  OBVIOUS
<1>4. ASSUME NEW v \in V, NEW d \in Dir, Parent[d] \in Dir
      PROVE  over(v, d) \in V
  <2>1. (IF Parent[d] = d THEN <<>> ELSE v[Parent[d]]) \in Seq(Directive) /\ workspace.rules[d] \in Seq(Directive)
    BY <1>2, <1>4
  <2>2. (IF Parent[d] = d THEN <<>> ELSE v[Parent[d]]) \o workspace.rules[d] \in Seq(Directive)
    BY <2>1, ConcatProperties
  <2> QED BY <2>2
<1>5. step \in [Nat -> [V -> V]]
  <2>. SUFFICES ASSUME NEW k \in Nat, NEW v \in V
                PROVE  (IF k < n THEN over(v, Order[k + 1]) ELSE v) \in V
    OBVIOUS
  <2>. HIDE DEF over, V, n
  <2>1. k < n => k + 1 \in 1 .. n
    BY <1>1
  <2> QED BY <1>1, <1>4, <2>1
<1>. HIDE DEF step, V, over, base, n
<1>6. PICK g : IsRecursion(g, V, base, step, n)
  BY <1>1, <1>3, <1>5, RecursionExists
<1>7. IsSaid(g)
  <2>1. ASSUME NEW i \in 0 .. n, i # 0
        PROVE  g[i] = over(g[i - 1], Order[i])
    <3>1. i - 1 \in 0 .. n /\ i - 1 < n /\ (i - 1) + 1 = i /\ i - 1 \in Nat
      BY <1>1, <2>1
    <3>2. g[i - 1] \in V /\ g[(i - 1) + 1] = step[i - 1][g[i - 1]]
      BY <1>6, <3>1 DEF IsRecursion
    <3> QED BY <3>1, <3>2 DEF step
  <2> QED BY <1>6, <2>1 DEF IsRecursion
<1>8. IsSaid(said)
  <2>. HIDE DEF IsSaid
  <2> QED BY <1>7
<1>9. Said = said[n]
  BY DEF Said, over, base, n
<1>. HIDE DEF said
<1>10. /\ said[0] = base
       /\ \A i \in 1 .. n : said[i] = over(said[i - 1], Order[i])
  <2>1. \A i \in 1 .. n : i \in 0 .. n /\ i # 0
    BY <1>1
  <2>2. 0 \in 0 .. n
    BY <1>1
  <2> QED BY <1>8, <2>1, <2>2
\* What was said of the directories so far stays.
<1>11. \A k \in 0 .. n : said[k] \in V /\ \A j \in 1 .. k : said[k][Order[j]] = said[j][Order[j]]
  <2>. DEFINE S == {k \in 0 .. n : said[k] \in V /\ \A j \in 1 .. k : said[k][Order[j]] = said[j][Order[j]]}
  <2>1. 0 \in S
    BY <1>1, <1>3, <1>10
  <2>2. ASSUME NEW k \in 0 .. n, k < n, k \in S
        PROVE  k + 1 \in S
    <3>1. k + 1 \in 1 .. n /\ (k + 1) - 1 = k /\ k + 1 \in 0 .. n /\ k \in Nat
      BY <1>1, <2>2
    <3>2. said[k + 1] = over(said[k], Order[k + 1])
      BY <1>10, <3>1
    <3>3. said[k + 1] \in V
      BY <1>1, <1>4, <2>2, <3>1, <3>2
    <3>4. ASSUME NEW j \in 1 .. k + 1
          PROVE  said[k + 1][Order[j]] = said[j][Order[j]]
      <4>1. CASE j = k + 1
        BY <4>1
      <4>2. CASE j # k + 1
        <5>1. j \in 1 .. k /\ j \in 1 .. n
          BY <1>1, <3>1, <4>2
        <5>2. Order[j] # Order[k + 1] /\ Order[j] \in Dir
          BY <1>1, <3>1, <4>2, <5>1, OrderedParents
        <5>3. said[k + 1][Order[j]] = said[k][Order[j]]
          BY <2>2, <3>2, <5>2 DEF over, V
        <5> QED BY <2>2, <5>1, <5>3
      <4> QED BY <4>1, <4>2
    <3> QED BY <3>1, <3>3, <3>4
  <2>. HIDE DEF S
  <2>3. 0 .. n \subseteq S
    BY <1>1, <2>1, <2>2, SetInductionUpTo
  <2> QED BY <2>3 DEF S
<1>12. Said \in V
  <2>1. n \in 0 .. n
    BY <1>1
  <2> QED BY <1>9, <1>11, <2>1
<1>13. ASSUME NEW i \in DOMAIN Order
       PROVE  Said[Order[i]] = Above(Order[i]) \o workspace.rules[Order[i]]
  <2>. DEFINE d == Order[i]
  <2>1. i \in 1 .. n /\ n \in 0 .. n /\ i - 1 \in 0 .. n /\ d \in Dir
    BY <1>1, OrderType DEF n
  <2>2. Said[d] = said[i][d]
    BY <1>9, <1>11, <2>1
  <2>3. said[i - 1] \in V
    BY <1>11, <2>1
  <2>4. said[i][d] = (IF Parent[d] = d THEN <<>> ELSE said[i - 1][Parent[d]]) \o workspace.rules[d]
    BY <1>10, <2>1, <2>3 DEF over, V
  <2>5. Parent[d] # d => said[i - 1][Parent[d]] = Said[Parent[d]]
    <3>. SUFFICES ASSUME Parent[d] # d
                  PROVE  said[i - 1][Parent[d]] = Said[Parent[d]]
      OBVIOUS
    <3>1. PICK j \in 1 .. (i - 1) : j \in DOMAIN Order /\ Order[j] = Parent[d]
      BY OrderedParents
    <3>2. j \in 1 .. n
      BY <1>1, <2>1, <3>1
    <3> QED BY <1>9, <1>11, <2>1, <3>1, <3>2
  <2> QED BY <2>2, <2>4, <2>5 DEF Above
<1> QED BY <1>12, <1>13 DEF V
-----------------------------------------------------------------------------
(***************************************************************************)
(* The settings and the configurations of a directory stand as they were   *)
(* said; what no directive named is as new.                                *)
(***************************************************************************)
Names == ToSet(ConfigNames)

IsAbout(directive, name) == ~IsSetting(directive) /\ directive.name = name

Stands(store, refs, setting, said) ==
    /\ setting = MeantSettings(said)
    /\ \A name \in Names :
        /\ (refs[name] # 0) = (\E i \in DOMAIN said : IsAbout(said[i], name))
        /\ MeantConfig(said, name) = IF refs[name] = 0 THEN NewConfig(name) ELSE store[refs[name]]

LEMMA StandsConfigured ==
    ASSUME NEW d, NEW said, Stands(cells, configs[d], settings[d], said)
    PROVE  ConfiguredAs(d, said)
BY DEF Stands, ConfiguredAs, ConfigOf, Names, IsAbout

\* So it is before any directive,
LEMMA StandsAtFirst ==
    ASSUME NEW store
    PROVE  Stands(store, NoConfigs, NewSettings, <<>>)
<1>1. MeantSettings(<<>>) = NewSettings /\ \A name \in Names : MeantConfig(<<>>, name) = NewConfig(name)
  <2>1. <<>> \in Seq(Directive) /\ NewSettings \in SettingsType
    BY NewTypes
  <2>2. MeantSettings(<<>>) = NewSettings
    <3>1. Folded(SettingFcn, NewSettings, <<>>) = NewSettings
      BY <2>1, SettingAfterType, FoldedEmpty
    <3> QED BY <2>1, <3>1, MeantSettingsIsFold
  <2>3. ASSUME NEW name \in Names
        PROVE  MeantConfig(<<>>, name) = NewConfig(name)
    <3>1. NewConfig(name) \in ConfigType /\ IsStep(ConfigFcn(name), ConfigType, Directive) /\ name \in ToSet(ConfigNames)
      BY NewTypes, ConfigAfterType DEF Names
    <3>2. Folded(ConfigFcn(name), NewConfig(name), <<>>) = NewConfig(name)
      BY <3>1, FoldedEmpty
    <3> QED BY <2>1, <3>1, <3>2, MeantConfigIsFold
  <2> QED BY <2>2, <2>3
<1>2. DOMAIN <<>> = {} /\ \A name \in Names : NoConfigs[name] = 0
  BY DEF NoConfigs, Names
<1> QED BY <1>1, <1>2 DEF Stands

\* and so it stays when the configurations of others change,
LEMMA StandsKept ==
    ASSUME NEW store, NEW refs, NEW setting, NEW said, Stands(store, refs, setting, said),
           NEW store2, \A name \in Names : refs[name] # 0 => store2[refs[name]] = store[refs[name]]
    PROVE  Stands(store2, refs, setting, said)
BY DEF Stands

\* when they are cloned,
IsClone(clone, store, refs) == clone = CloneRules(store, refs)

LEMMA CloneType ==
    ASSUME NEW store \in Seq(ConfigType), NEW refs \in [Names -> 0 .. Len(store)],
           NEW clone, IsClone(clone, store, refs)
    PROVE  /\ clone.cells \in Seq(ConfigType) /\ Len(store) <= Len(clone.cells)
           /\ \A i \in 1 .. Len(store) : clone.cells[i] = store[i]
           /\ clone.refs \in [Names -> 0 .. Len(clone.cells)]
           /\ \A n \in Names : IF refs[n] = 0 THEN clone.refs[n] = 0
                               ELSE clone.refs[n] > Len(store) /\ clone.cells[clone.refs[n]] = store[refs[n]]
           /\ \A n1, n2 \in Names : clone.refs[n1] # 0 /\ clone.refs[n1] = clone.refs[n2] => n1 = n2
<1>. DEFINE copy(n) == IF refs[n] = 0 THEN NewConfig(n) ELSE store[refs[n]]
            new == [i \in DOMAIN ConfigNames |-> copy(ConfigNames[i])]
            index(n) == CHOOSE i \in DOMAIN ConfigNames : ConfigNames[i] = n
            k == Len(store)
            m == Len(ConfigNames)
<1>1. k \in Nat /\ m \in Nat /\ DOMAIN ConfigNames = 1 .. m
  BY PackageAssumption, LenProperties
<1>2. \A i \in 1 .. m : ConfigNames[i] \in Names
  BY <1>1 DEF Names, ToSet
<1>3. \A n \in Names : index(n) \in 1 .. m /\ ConfigNames[index(n)] = n
  <2>. SUFFICES ASSUME NEW n \in Names
                PROVE  \E i \in DOMAIN ConfigNames : ConfigNames[i] = n
    BY <1>1
  <2> QED BY DEF Names, ToSet
<1>4. \A n \in Names : copy(n) \in ConfigType
  <2>. SUFFICES ASSUME NEW n \in Names
                PROVE  copy(n) \in ConfigType
    OBVIOUS
  <2>1. CASE refs[n] = 0
    BY <2>1, NewTypes DEF Names
  <2>2. CASE refs[n] # 0
    <3>1. refs[n] \in 1 .. k
      BY <1>1, <2>2
    <3>2. store[refs[n]] \in ConfigType
      BY <3>1, ElementOfSeq
    <3> QED BY <2>2, <3>2
  <2> QED BY <2>1, <2>2
<1>5. new \in Seq(ConfigType) /\ Len(new) = m /\ \A i \in 1 .. m : new[i] = copy(ConfigNames[i])
  <2>1. new \in [1 .. m -> ConfigType]
    BY <1>1, <1>2, <1>4
  <2> QED BY <1>1, <2>1
<1>6. /\ clone.cells = store \o new
      /\ clone.refs = [n \in Names |-> IF refs[n] = 0 THEN 0 ELSE k + index(n)]
  BY DEF IsClone, CloneRules
<1>. HIDE DEF new, index, copy
<1>7. /\ store \o new \in Seq(ConfigType) /\ Len(store \o new) = k + m
      /\ \A i \in 1 .. k + m : (store \o new)[i] = IF i <= k THEN store[i] ELSE new[i - k]
  <2>1. store \in Seq(ConfigType) /\ new \in Seq(ConfigType)
    BY <1>5
  <2>2. /\ store \o new \in Seq(ConfigType) /\ Len(store \o new) = Len(store) + Len(new)
        /\ \A i \in 1 .. Len(store) + Len(new) :
              (store \o new)[i] = IF i <= Len(store) THEN store[i] ELSE new[i - Len(store)]
    BY <2>1, ConcatProperties
  <2>3. Len(store) = k /\ Len(new) = m
    BY <1>5
  <2>. HIDE DEF k, m
  <2> QED BY <2>2, <2>3
<1>. HIDE DEF k, m
<1>8. clone.cells \in Seq(ConfigType) /\ k <= Len(clone.cells) /\ Len(clone.cells) = k + m
  BY <1>1, <1>6, <1>7
<1>9. \A i \in 1 .. k : clone.cells[i] = store[i]
  <2>1. \A i \in 1 .. k : i \in 1 .. k + m /\ i <= k
    BY <1>1
  <2> QED BY <1>6, <1>7, <2>1
<1>10. ASSUME NEW n \in Names, refs[n] # 0
       PROVE  /\ clone.refs[n] = k + index(n) /\ clone.refs[n] > k /\ clone.refs[n] \in 1 .. k + m
              /\ clone.cells[clone.refs[n]] = store[refs[n]]
  <2>1. clone.refs[n] = k + index(n) /\ index(n) \in 1 .. m
    BY <1>3, <1>6, <1>10
  <2>2. clone.refs[n] > k /\ clone.refs[n] \in 1 .. k + m /\ clone.refs[n] - k = index(n)
    BY <1>1, <2>1
  <2>3. clone.cells[clone.refs[n]] = new[index(n)]
    <3>. DEFINE at1 == clone.refs[n]
    <3>1. at1 \in 1 .. k + m /\ ~(at1 <= k) /\ at1 - k = index(n)
      BY <1>1, <2>2
    <3>. HIDE DEF at1
    <3>2. (store \o new)[at1] = new[at1 - k]
      BY <1>7, <3>1
    <3> QED BY <1>6, <3>1, <3>2 DEF at1
  <2>4. new[index(n)] = copy(n)
    BY <1>3, <1>5, <2>1
  <2> QED BY <1>10, <2>1, <2>2, <2>3, <2>4 DEF copy
<1>11. \A n \in Names : refs[n] = 0 => clone.refs[n] = 0
  BY <1>6
<1>12. clone.refs \in [Names -> 0 .. Len(clone.cells)]
  <2>1. \A n \in Names : clone.refs[n] \in 0 .. k + m
    BY <1>1, <1>10, <1>11
  <2>2. clone.refs = [n \in Names |-> clone.refs[n]]
    BY <1>6
  <2> QED BY <1>8, <2>1, <2>2
<1>13. ASSUME NEW n1 \in Names, NEW n2 \in Names, clone.refs[n1] # 0, clone.refs[n1] = clone.refs[n2]
       PROVE  n1 = n2
  <2>1. clone.refs[n1] = k + index(n1) /\ clone.refs[n2] = k + index(n2)
    BY <1>10, <1>11, <1>13
  <2>2. index(n1) = index(n2)
    <3>1. index(n1) \in 1 .. m /\ index(n2) \in 1 .. m
      BY <1>3
    <3>2. k + index(n1) = k + index(n2)
      BY <1>13, <2>1
    <3> QED BY <1>1, <3>1, <3>2
  <2> QED BY <1>3, <2>2
<1> QED BY <1>8, <1>9, <1>10, <1>11, <1>12, <1>13 DEF k

LEMMA StandsCloned ==
    ASSUME NEW store \in Seq(ConfigType), NEW refs \in [Names -> 0 .. Len(store)],
           NEW clone, IsClone(clone, store, refs),
           NEW setting, NEW said, Stands(store, refs, setting, said)
    PROVE  Stands(clone.cells, clone.refs, setting, said)
<1>1. \A n \in Names : IF refs[n] = 0 THEN clone.refs[n] = 0
                       ELSE clone.refs[n] # 0 /\ clone.cells[clone.refs[n]] = store[refs[n]]
  <2>1. \A n \in Names : IF refs[n] = 0 THEN clone.refs[n] = 0
                       ELSE clone.refs[n] > Len(store) /\ clone.cells[clone.refs[n]] = store[refs[n]]
    BY CloneType
  <2>2. Len(store) \in Nat
    BY LenProperties
  <2> QED BY <2>1, <2>2
<1> QED BY <1>1 DEF Stands

\* and when one more directive is obeyed.
LEMMA AboutAppended ==
    ASSUME NEW said \in Seq(Directive), NEW d \in Directive, NEW name
    PROVE  (\E i \in DOMAIN Append(said, d) : IsAbout(Append(said, d)[i], name))
              <=> (\E i \in DOMAIN said : IsAbout(said[i], name)) \/ IsAbout(d, name)
<1>. DEFINE longer == Append(said, d)
            n == Len(said)
<1>1. /\ n \in Nat /\ DOMAIN said = 1 .. n /\ DOMAIN longer = 1 .. n + 1
      /\ longer[n + 1] = d /\ \A i \in 1 .. n : longer[i] = said[i]
  BY AppendProperties, LenProperties
<1>. HIDE DEF longer, n
<1>2. \A i \in 1 .. n + 1 : i \in 1 .. n \/ i = n + 1
  BY <1>1
<1>3. n + 1 \in 1 .. n + 1 /\ \A i \in 1 .. n : i \in 1 .. n + 1
  BY <1>1
<1>4. (\E i \in DOMAIN longer : IsAbout(longer[i], name))
         <=> (\E i \in DOMAIN said : IsAbout(said[i], name)) \/ IsAbout(d, name)
  BY <1>1, <1>2, <1>3
<1> QED BY <1>4 DEF longer

LEMMA StandsSet ==
    ASSUME NEW store, NEW refs, NEW setting, NEW said \in Seq(Directive), Stands(store, refs, setting, said),
           NEW d \in Directive, IsSetting(d)
    PROVE  Stands(store, refs, After(setting, Set(setting, d)), Append(said, d))
<1>1. MeantSettings(Append(said, d)) = After(setting, Set(setting, d))
  BY MeantStep DEF SettingAfter, Stands
<1>2. ASSUME NEW name \in Names
      PROVE  MeantConfig(Append(said, d), name) = MeantConfig(said, name)
  <2>1. name \in ToSet(ConfigNames)
    BY DEF Names
  <2> QED BY <2>1, MeantConfigStep DEF ConfigAfter
<1>3. ~\E name \in Names : IsAbout(d, name)
  BY DEF IsAbout
<1>4. \A name \in Names :
        (\E i \in DOMAIN Append(said, d) : IsAbout(Append(said, d)[i], name))
            <=> (\E i \in DOMAIN said : IsAbout(said[i], name))
  BY <1>3, AboutAppended
<1> QED BY <1>1, <1>2, <1>4 DEF Stands

LEMMA StandsObeyed ==
    ASSUME NEW store, NEW refs, NEW setting, NEW said \in Seq(Directive), Stands(store, refs, setting, said),
           NEW d \in Directive, ~IsSetting(d),
           NEW store2, NEW refs2,
           refs2[d.name] # 0,
           store2[refs2[d.name]] =
              After(IF refs[d.name] = 0 THEN NewConfig(d.name) ELSE store[refs[d.name]],
                    Obeyed(IF refs[d.name] = 0 THEN NewConfig(d.name) ELSE store[refs[d.name]], d)),
           \A name \in Names : name # d.name =>
                refs2[name] = refs[name] /\ (refs[name] # 0 => store2[refs[name]] = store[refs[name]])
    PROVE  Stands(store2, refs2, setting, Append(said, d))
<1>1. MeantSettings(Append(said, d)) = setting
  BY MeantStep DEF SettingAfter, Stands
<1>2. ASSUME NEW name \in Names
      PROVE  MeantConfig(Append(said, d), name) = IF refs2[name] = 0 THEN NewConfig(name) ELSE store2[refs2[name]]
  <2>1. MeantConfig(Append(said, d), name) = ConfigAfter(name, MeantConfig(said, name), d)
    BY MeantConfigStep DEF Names
  <2>2. MeantConfig(said, name) = IF refs[name] = 0 THEN NewConfig(name) ELSE store[refs[name]]
    BY DEF Stands
  <2>3. CASE name = d.name
    BY <2>1, <2>2, <2>3 DEF ConfigAfter
  <2>4. CASE name # d.name
    <3>1. MeantConfig(Append(said, d), name) = MeantConfig(said, name)
      BY <2>1, <2>4 DEF ConfigAfter
    <3> QED BY <2>2, <2>4, <3>1
  <2> QED BY <2>3, <2>4
<1>3. ASSUME NEW name \in Names
      PROVE  (refs2[name] # 0) = (\E i \in DOMAIN Append(said, d) : IsAbout(Append(said, d)[i], name))
  <2>1. (refs[name] # 0) = (\E i \in DOMAIN said : IsAbout(said[i], name))
    BY DEF Stands
  <2>2. IsAbout(d, name) <=> name = d.name
    BY DEF IsAbout
  <2>3. (\E i \in DOMAIN Append(said, d) : IsAbout(Append(said, d)[i], name))
            <=> (\E i \in DOMAIN said : IsAbout(said[i], name)) \/ name = d.name
    BY <2>2, AboutAppended
  <2> QED BY <2>1, <2>3
<1> QED BY <1>1, <1>2, <1>3 DEF Stands
-----------------------------------------------------------------------------
(***************************************************************************)
(* The invariant of the settings and rule configurations.                  *)
(***************************************************************************)
RulesType ==
    /\ workspace \in Workspaces
    /\ cells \in Seq(ConfigType)
    /\ configs \in [Dir -> [Names -> 0 .. Len(cells)]]
    /\ settings \in [Dir -> SettingsType]
    /\ ruleNext \in Nat
    /\ fatal \in BOOLEAN

\* No cell is of two directories, or of two names.
NotShared ==
    \A d1, d2 \in Dir : \A n1, n2 \in Names :
        configs[d1][n1] # 0 /\ configs[d1][n1] = configs[d2][n2] => d1 = d2 /\ n1 = n2

\* The directories to be configured yet.
Untouched ==
    \A i \in DOMAIN Order :
        i > at \/ (i = at /\ next = 0) => configs[Order[i]] = NoConfigs /\ settings[Order[i]] = NewSettings

StandsHere(d, said) == Stands(cells, configs[d], settings[d], said)

\* The directory that is being configured, and those that were.
RulesSoFar ==
    next > 0 =>
        LET d == Order[at]
        IN /\ ruleNext \in 1 .. Len(workspace.rules[d]) + 1
           /\ ~fatal => StandsHere(d, Above(d) \o SubSeq(workspace.rules[d], 1, ruleNext - 1))

RulesOfDone == ~fatal => \A i \in DOMAIN Order : i < at => StandsHere(Order[i], Said[Order[i]])

RulesInv == RulesType /\ NotShared /\ Untouched /\ RulesSoFar /\ RulesOfDone

LEMMA SaidKept ==
    ASSUME UNCHANGED workspace
    PROVE  /\ Said' = Said
           /\ \A d : Above(d)' = Above(d)
<1>1. Said' = Said
  BY DEF Said
<1> QED BY <1>1 DEF Above

\* What a step does to the configurations.
RulesFrame ==
    /\ UNCHANGED <<workspace, cells, configs, settings, ruleNext, at>>
    /\ fatal' \in BOOLEAN /\ (fatal => fatal')
    /\ next' = next \/ (next > 0 /\ next' = next + 1)

LEMMA RulesSteps ==
    ASSUME RulesInv, [PackageNext]_<<vars, packageVars>>
    PROVE  ConfigureDirectory \/ ParseRuleDirective \/ ConfigureReturns \/ RulesFrame
<1>. fatal \in BOOLEAN
  BY DEF RulesInv, RulesType
<1>1. CASE RegisterExistingRule
  BY <1>1 DEF RegisterExistingRule, RulesFrame, vars, Alive
<1>2. CASE ParseListDirective
  BY <1>2 DEF ParseListDirective, ParseDirective, RulesFrame, packageVars
<1>3. CASE GenerateRules
  BY <1>3 DEF GenerateRules, RulesFrame, vars, Alive
<1>4. CASE StartResolving
  BY <1>4 DEF StartResolving, RulesFrame, vars, walkVars
<1>5. CASE Resolve
  BY <1>5 DEF Resolve, RulesFrame, vars, walkVars
<1>6. CASE Finalize
  BY <1>6 DEF Finalize, RulesFrame, vars, walkVars
<1>7. CASE UNCHANGED <<vars, packageVars>>
  BY <1>7 DEF RulesFrame, vars, packageVars
<1> QED BY <1>1, <1>2, <1>3, <1>4, <1>5, <1>6, <1>7 DEF PackageNext

LEMMA RulesInit == PackageInit => RulesInv
<1>. SUFFICES ASSUME PackageInit
              PROVE  RulesInv
  OBVIOUS
<1>1. /\ workspace \in Workspaces /\ cells = <<>> /\ configs = [d \in Dir |-> NoConfigs]
      /\ settings = [d \in Dir |-> NewSettings] /\ ruleNext = 0 /\ fatal = FALSE /\ at = 1 /\ next = 0
  BY DEF PackageInit, ConfigInit
<1>2. RulesType
  <2>1. NoConfigs \in [Names -> 0 .. Len(cells)]
    BY <1>1 DEF NoConfigs, Names
  <2>2. NewSettings \in SettingsType /\ cells \in Seq(ConfigType)
    BY <1>1, NewTypes
  <2> QED BY <1>1, <2>1, <2>2 DEF RulesType
<1>3. NotShared
  <2>1. \A d \in Dir : \A n \in Names : configs[d][n] = 0
    BY <1>1 DEF NoConfigs, Names
  <2> QED BY <2>1 DEF NotShared
<1>4. Untouched
  BY <1>1, OrderType DEF Untouched
<1>5. RulesSoFar
  BY <1>1 DEF RulesSoFar
<1>6. RulesOfDone
  BY <1>1, OrderType DEF RulesOfDone
<1> QED BY <1>2, <1>3, <1>4, <1>5, <1>6 DEF RulesInv

LEMMA RulesFramed ==
    ASSUME RulesInv, ListsInv, RulesFrame
    PROVE  RulesInv'
<1>1. /\ workspace' = workspace /\ cells' = cells /\ configs' = configs /\ settings' = settings
      /\ ruleNext' = ruleNext /\ at' = at /\ fatal' \in BOOLEAN /\ (fatal => fatal')
  BY DEF RulesFrame
<1>2. next \in Nat /\ (next' > 0 => next > 0) /\ (next' = 0 => next = 0)
  BY DEF RulesFrame, ListsInv, ListsType
<1>3. Said' = Said /\ \A d : Above(d)' = Above(d)
  BY <1>1, SaidKept
<1>4. RulesType' /\ NotShared' /\ Untouched'
  BY <1>1, <1>2 DEF RulesInv, RulesType, NotShared, Untouched
<1>5. RulesSoFar'
  BY <1>1, <1>2, <1>3 DEF RulesInv, RulesSoFar, StandsHere
<1>6. RulesOfDone'
  BY <1>1, <1>3 DEF RulesInv, RulesOfDone, StandsHere
<1> QED BY <1>4, <1>5, <1>6 DEF RulesInv

\* The types of what is said.
LEMMA SaidType ==
    ASSUME RulesInv, NEW d \in Dir, Parent[d] \in Dir
    PROVE  workspace.rules[d] \in Seq(Directive) /\ Above(d) \in Seq(Directive)
<1>1. workspace \in Workspaces
  BY DEF RulesInv, RulesType
<1>2. Said \in [Dir -> Seq(Directive)]
  BY <1>1, SaidSteps
<1>3. workspace.rules[d] \in Seq(Directive)
  BY <1>1, PackageAssumption
<1> QED BY <1>2, <1>3 DEF Above

LEMMA ConfigureReturnsInv ==
    ASSUME RulesInv, ListsInv, ConfigureReturns, NEW d, d = Order[at]
    PROVE  RulesInv'
<1>1. /\ workspace' = workspace /\ cells' = cells /\ configs' = configs /\ settings' = settings
      /\ ruleNext' = ruleNext /\ fatal' = fatal /\ at' = at + 1 /\ next' = 0
      /\ ruleNext > Len(workspace.rules[d]) /\ at \in DOMAIN Order /\ next > Len(directives[d])
  BY DEF ConfigureReturns, packageVars, Configured, Configuring
<1>2. d \in Dir /\ Parent[d] \in Dir /\ at \in Nat
  BY <1>1, OrderType
<1>3. next > 0
  <2>1. directives[d] \in Seq(Intent) /\ next \in Nat
    BY <1>2 DEF ListsInv, ListsType
  <2> QED BY <1>1, <2>1, LenProperties
<1>4. Said' = Said
  BY <1>1, SaidKept
<1>5. RulesType' /\ NotShared'
  BY <1>1 DEF RulesInv, RulesType, NotShared
<1>6. Untouched'
  <2>1. \A i \in DOMAIN Order : i > at + 1 \/ i = at + 1 => i > at
    BY <1>2, OrderType
  <2> QED BY <1>1, <2>1 DEF RulesInv, Untouched
<1>7. RulesSoFar'
  BY <1>1 DEF RulesSoFar
<1>8. ASSUME ~fatal
      PROVE  StandsHere(d, Said[d])
  <2>1. workspace.rules[d] \in Seq(Directive)
    BY <1>2, SaidType
  <2>2. ruleNext - 1 = Len(workspace.rules[d])
    <3>1. ruleNext \in 1 .. Len(workspace.rules[d]) + 1
      BY <1>3 DEF RulesInv, RulesSoFar
    <3>2. Len(workspace.rules[d]) \in Nat
      BY <2>1, LenProperties
    <3> QED BY <1>1, <3>1, <3>2
  <2>3. SubSeq(workspace.rules[d], 1, ruleNext - 1) = workspace.rules[d]
    BY <2>1, <2>2, SubSeqFull
  <2>4. Said[d] = Above(d) \o workspace.rules[d]
    BY <1>1, SaidSteps DEF RulesInv, RulesType
  <2>5. StandsHere(d, Above(d) \o SubSeq(workspace.rules[d], 1, ruleNext - 1))
    BY <1>3, <1>8 DEF RulesInv, RulesSoFar
  <2> QED BY <2>3, <2>4, <2>5
<1>9. RulesOfDone'
  <2>. SUFFICES ASSUME ~fatal, NEW i \in DOMAIN Order, i < at + 1
                PROVE  StandsHere(Order[i], Said[Order[i]])
    BY <1>1, <1>4 DEF RulesOfDone, StandsHere
  <2>1. CASE i = at
    BY <1>8, <2>1
  <2>2. CASE i # at
    <3>1. i < at
      BY <1>2, <2>2, OrderType
    <3> QED BY <3>1 DEF RulesInv, RulesOfDone
  <2> QED BY <2>1, <2>2
<1> QED BY <1>5, <1>6, <1>7, <1>9 DEF RulesInv
\* What a step that is about directory d leaves to the others.
OthersKept(d) ==
    \A x \in Dir : x # d =>
        /\ configs'[x] = configs[x] /\ settings'[x] = settings[x]
        /\ \A n \in Names : configs[x][n] # 0 => cells'[configs[x][n]] = cells[configs[x][n]]

LEMMA OthersStand ==
    ASSUME RulesInv, NEW d \in Dir, OthersKept(d), NEW x \in Dir, x # d, NEW said, StandsHere(x, said)
    PROVE  StandsHere(x, said)'
<1>1. /\ configs'[x] = configs[x] /\ settings'[x] = settings[x]
      /\ \A n \in Names : configs[x][n] # 0 => cells'[configs[x][n]] = cells[configs[x][n]]
  BY DEF OthersKept
<1>2. Stands(cells', configs[x], settings[x], said)
  BY <1>1, StandsKept DEF StandsHere
<1> QED BY <1>1, <1>2 DEF StandsHere

LEMMA OthersInv ==
    ASSUME RulesInv, ListsInv, NEW d \in Dir, at \in DOMAIN Order, d = Order[at], OthersKept(d),
           workspace' = workspace, at' = at, next' > 0, fatal => fatal'
    PROVE  Untouched' /\ RulesOfDone'
<1>1. at \in Nat /\ Said' = Said
  BY OrderType, SaidKept
<1>2. ASSUME NEW i \in DOMAIN Order, i # at
      PROVE  Order[i] \in Dir /\ Order[i] # d
  BY <1>2, OrderType, OrderedParents
<1>3. Untouched'
  <2>. SUFFICES ASSUME NEW i \in DOMAIN Order, i > at
                PROVE  configs'[Order[i]] = NoConfigs /\ settings'[Order[i]] = NewSettings
    BY DEF Untouched
  <2>1. Order[i] \in Dir /\ Order[i] # d
    BY <1>1, <1>2, OrderType
  <2> QED BY <2>1 DEF OthersKept, RulesInv, Untouched
<1>4. RulesOfDone'
  <2>. SUFFICES ASSUME ~fatal', NEW i \in DOMAIN Order, i < at
                PROVE  StandsHere(Order[i], Said[Order[i]])'
    BY DEF RulesOfDone
  <2>1. Order[i] \in Dir /\ Order[i] # d
    BY <1>1, <1>2, OrderType
  <2>2. StandsHere(Order[i], Said[Order[i]])
    BY DEF RulesInv, RulesOfDone
  <2>3. Stands(cells', configs'[Order[i]], settings'[Order[i]], Said[Order[i]])
    BY <2>1, <2>2, OthersStand DEF StandsHere
  <2> QED BY <1>1, <2>3 DEF StandsHere
<1> QED BY <1>3, <1>4
LEMMA ConfigureDirectoryInv ==
    ASSUME RulesInv, ListsInv, ConfigureDirectory, NEW d, d = Order[at]
    PROVE  RulesInv'
<1>. DEFINE p == Parent[d]
<1>1. /\ workspace' = workspace /\ fatal' = fatal /\ fatal = FALSE /\ ruleNext' = 1
      /\ at \in DOMAIN Order /\ at' = at /\ next = 0 /\ next' = 1
  BY DEF ConfigureDirectory, Configure, Configuring, Alive
<1>2. d \in Dir /\ p \in Dir /\ at \in Nat
  BY <1>1, OrderType
<1>3. /\ cells \in Seq(ConfigType) /\ configs \in [Dir -> [Names -> 0 .. Len(cells)]]
      /\ settings \in [Dir -> SettingsType] /\ workspace \in Workspaces
      /\ Len(cells) \in Nat
  BY LenProperties DEF RulesInv, RulesType
<1>4. configs[d] = NoConfigs /\ settings[d] = NewSettings
  BY <1>1, <1>2 DEF RulesInv, Untouched
<1>. DEFINE clone == CloneRules(cells, configs[p])
<1>5. IsClone(clone, cells, configs[p])
  BY DEF IsClone
<1>6. ASSUME p # d
      PROVE  RulesType' /\ OthersKept(d) /\ NotShared' /\ StandsHere(d, Above(d))'
  <2>. HIDE DEF clone, p
  <2>1. /\ cells' = clone.cells /\ configs' = [configs EXCEPT ![d] = clone.refs]
        /\ settings' = [settings EXCEPT ![d] = settings[p]]
    BY <1>6 DEF ConfigureDirectory, clone, p
  <2>2. configs[p] \in [Names -> 0 .. Len(cells)]
    BY <1>2, <1>3
  <2>3. /\ clone.cells \in Seq(ConfigType) /\ Len(cells) <= Len(clone.cells)
        /\ \A i \in 1 .. Len(cells) : clone.cells[i] = cells[i]
        /\ clone.refs \in [Names -> 0 .. Len(clone.cells)]
        /\ \A n \in Names : IF configs[p][n] = 0 THEN clone.refs[n] = 0
                            ELSE clone.refs[n] > Len(cells) /\ clone.cells[clone.refs[n]] = cells[configs[p][n]]
        /\ \A n1, n2 \in Names : clone.refs[n1] # 0 /\ clone.refs[n1] = clone.refs[n2] => n1 = n2
    BY <1>3, <1>5, <2>2, CloneType
  <2>4. /\ configs'[d] = clone.refs /\ settings'[d] = settings[p]
        /\ \A x \in Dir : x # d => configs'[x] = configs[x] /\ settings'[x] = settings[x]
    BY <1>2, <1>3, <2>1
  <2>5. Len(clone.cells) \in Nat
    BY <2>3, LenProperties
  <2>6. RulesType'
    <3>1. \A x \in Dir : configs'[x] \in [Names -> 0 .. Len(clone.cells)]
      <4>1. ASSUME NEW x \in Dir, x # d
            PROVE  configs'[x] \in [Names -> 0 .. Len(clone.cells)]
        <5>1. configs'[x] \in [Names -> 0 .. Len(cells)]
          BY <1>3, <2>4, <4>1
        <5>2. 0 .. Len(cells) \subseteq 0 .. Len(clone.cells)
          BY <1>3, <2>3, <2>5
        <5> QED BY <5>1, <5>2
      <4> QED BY <2>3, <2>4, <4>1
    <3>2. configs' \in [Dir -> [Names -> 0 .. Len(cells')]]
      BY <1>3, <2>1, <3>1
    <3>3. settings' \in [Dir -> SettingsType]
      BY <1>2, <1>3, <2>1
    <3> QED BY <1>1, <1>3, <2>1, <2>3, <3>2, <3>3 DEF RulesType
  <2>7. OthersKept(d)
    <3>. SUFFICES ASSUME NEW x \in Dir, x # d, NEW n \in Names, configs[x][n] # 0
                  PROVE  clone.cells[configs[x][n]] = cells[configs[x][n]]
      BY <2>1, <2>4 DEF OthersKept
    <3>1. configs[x][n] \in 1 .. Len(cells)
      <4>1. configs[x][n] \in 0 .. Len(cells)
        BY <1>3
      <4> QED BY <1>3, <4>1
    <3> QED BY <2>3, <3>1
  <2>8. NotShared'
    <3>1. ASSUME NEW x \in Dir, x # d, NEW n \in Names, NEW n1 \in Names, configs'[d][n1] # 0
          PROVE  configs'[x][n] # configs'[d][n1]
      <4>1. configs'[x][n] \in 0 .. Len(cells)
        BY <1>3, <2>4, <3>1
      <4>2. configs'[d][n1] > Len(cells)
        BY <2>3, <2>4, <3>1
      <4> QED BY <1>3, <4>1, <4>2
    <3>. SUFFICES ASSUME NEW d1 \in Dir, NEW d2 \in Dir, NEW n1 \in Names, NEW n2 \in Names,
                         configs'[d1][n1] # 0, configs'[d1][n1] = configs'[d2][n2]
                  PROVE  d1 = d2 /\ n1 = n2
      BY DEF NotShared
    <3>2. CASE d1 = d /\ d2 = d
      BY <2>3, <2>4, <3>2
    <3>3. CASE d1 # d /\ d2 # d
      BY <2>4, <3>3 DEF RulesInv, NotShared
    <3>4. CASE d1 = d /\ d2 # d
      BY <3>1, <3>4
    <3>5. CASE d1 # d /\ d2 = d
      BY <3>1, <3>5
    <3> QED BY <3>2, <3>3, <3>4, <3>5
  <2>9. StandsHere(d, Above(d))'
    <3>1. PICK j \in 1 .. (at - 1) : j \in DOMAIN Order /\ Order[j] = p
      BY <1>1, <1>6, OrderedParents DEF p
    <3>2. StandsHere(p, Said[p])
      BY <1>1, <1>2, <3>1 DEF RulesInv, RulesOfDone
    <3>3. Stands(clone.cells, clone.refs, settings[p], Said[p])
      BY <1>3, <1>5, <2>2, <3>2, StandsCloned DEF StandsHere
    <3>4. Above(d)' = Said[p]
      BY <1>1, <1>6, SaidKept DEF Above, p
    <3> QED BY <2>1, <2>4, <3>3, <3>4 DEF StandsHere
  <2> QED BY <2>6, <2>7, <2>8, <2>9
<1>7. ASSUME p = d
      PROVE  RulesType' /\ OthersKept(d) /\ NotShared' /\ StandsHere(d, Above(d))'
  <2>1. UNCHANGED <<cells, configs, settings>>
    BY <1>7 DEF ConfigureDirectory
  <2>2. RulesType' /\ NotShared'
    BY <1>1, <2>1 DEF RulesInv, RulesType, NotShared
  <2>3. OthersKept(d)
    BY <2>1 DEF OthersKept
  <2>4. StandsHere(d, Above(d))'
    <3>1. Above(d)' = <<>>
      BY <1>7 DEF Above
    <3>2. Stands(cells', NoConfigs, NewSettings, <<>>)
      BY StandsAtFirst
    <3> QED BY <1>4, <2>1, <3>1, <3>2 DEF StandsHere
  <2> QED BY <2>2, <2>3, <2>4
<1>8. Untouched' /\ RulesOfDone'
  BY <1>1, <1>2, <1>6, <1>7, OthersInv
<1>9. RulesSoFar'
  <2>. DEFINE rules == workspace.rules[d]
  <2>1. rules \in Seq(Directive) /\ Above(d) \in Seq(Directive) /\ Above(d)' = Above(d)
    BY <1>1, <1>2, SaidType, SaidKept
  <2>2. Above(d) \o SubSeq(rules, 1, 0) = Above(d)
    BY <2>1, SubSeqEmpty, ConcatEmptySeq
  <2>3. 1 \in 1 .. Len(rules) + 1
    BY <2>1, LenProperties
  <2>4. Stands(cells', configs'[d], settings'[d], Above(d))
    BY <1>6, <1>7, <2>1 DEF StandsHere
  <2>5. workspace'.rules[d] = rules /\ ruleNext' - 1 = 0
    BY <1>1
  <2>. HIDE DEF rules
  <2>6. Stands(cells', configs'[d], settings'[d], Above(d) \o SubSeq(rules, 1, 0))
    BY <2>2, <2>4
  <2> QED BY <1>1, <2>1, <2>3, <2>5, <2>6 DEF RulesSoFar, StandsHere, rules
<1> QED BY <1>6, <1>7, <1>8, <1>9 DEF RulesInv
\* The cell that a directive about a rule configuration writes: that of the
\* configuration, or a new one.
IsObeyed(store2, ref, store, old, x) ==
    LET before == IF old = 0 THEN Append(store, NewConfig(x.name)) ELSE store
    IN /\ ref = IF old = 0 THEN Len(store) + 1 ELSE old
       /\ Obeyed(before[ref], x) # <<>>
       /\ store2 = [before EXCEPT ![ref] = Obeyed(before[ref], x)[1]]

LEMMA ObeyedCells ==
    ASSUME NEW store \in Seq(ConfigType), NEW old \in 0 .. Len(store), NEW x \in Directive, x.name \in Names,
           NEW ref, NEW store2, IsObeyed(store2, ref, store, old, x)
    PROVE  /\ store2 \in Seq(ConfigType) /\ Len(store) <= Len(store2) /\ ref \in 1 .. Len(store2)
           /\ \A i \in 1 .. Len(store) : i # ref => store2[i] = store[i]
           /\ IF old = 0 THEN ref > Len(store) ELSE ref = old
           /\ LET config == IF old = 0 THEN NewConfig(x.name) ELSE store[old]
              IN store2[ref] = After(config, Obeyed(config, x))
<1>. DEFINE before == IF old = 0 THEN Append(store, NewConfig(x.name)) ELSE store
            config == IF old = 0 THEN NewConfig(x.name) ELSE store[old]
            k == Len(store)
<1>1. k \in Nat /\ NewConfig(x.name) \in ConfigType
  BY NewTypes, LenProperties DEF Names
<1>2. /\ before \in Seq(ConfigType) /\ k <= Len(before) /\ Len(before) \in Nat
      /\ ref \in 1 .. Len(before) /\ before[ref] = config
      /\ \A i \in 1 .. k : before[i] = store[i]
      /\ IF old = 0 THEN ref > k ELSE ref = old
  <2>1. CASE old = 0
    <3>1. /\ before \in Seq(ConfigType) /\ Len(before) = k + 1
          /\ \A i \in 1 .. k : before[i] = store[i]
          /\ before[k + 1] = NewConfig(x.name)
      BY <1>1, <2>1, AppendProperties
    <3>2. ref = k + 1
      BY <2>1 DEF IsObeyed
    <3>. HIDE DEF before
    <3> QED BY <1>1, <2>1, <3>1, <3>2
  <2>2. CASE old # 0
    <3>1. ref = old /\ before = store
      BY <2>2 DEF IsObeyed
    <3> QED BY <1>1, <2>2, <3>1
  <2> QED BY <2>1, <2>2
<1>3. /\ Obeyed(before[ref], x) # <<>>
      /\ store2 = [before EXCEPT ![ref] = Obeyed(before[ref], x)[1]]
  BY DEF IsObeyed
<1>. HIDE DEF before, config
<1>4. config \in ConfigType
  BY <1>2, ElementOfSeq
<1>5. PICK new \in ConfigType : Obeyed(config, x) = <<new>>
  BY <1>2, <1>3, <1>4, ObeyedType DEF IsAnswer
<1>6. store2 = [before EXCEPT ![ref] = new]
  BY <1>2, <1>3, <1>5
<1>7. /\ store2 \in Seq(ConfigType) /\ Len(store2) = Len(before)
      /\ store2[ref] = new /\ \A i \in 1 .. Len(before) : i # ref => store2[i] = before[i]
  BY <1>2, <1>6, ExceptSeq
<1>8. After(config, Obeyed(config, x)) = new
  BY <1>5 DEF After
<1>9. \A i \in 1 .. k : i # ref => store2[i] = store[i]
  BY <1>1, <1>2, <1>7
<1> QED BY <1>1, <1>2, <1>7, <1>8, <1>9 DEF config
LEMMA ParseRuleDirectiveInv ==
    ASSUME RulesInv, ListsInv, ParseRuleDirective, NEW d, d = Order[at]
    PROVE  RulesInv'
<1>. DEFINE rules == workspace.rules[d]
            x == rules[ruleNext]
            said == Above(d) \o SubSeq(rules, 1, ruleNext - 1)
<1>1. /\ workspace' = workspace /\ fatal = FALSE /\ ruleNext' = ruleNext + 1
      /\ at \in DOMAIN Order /\ at' = at /\ next > 0 /\ next' = next /\ ruleNext <= Len(rules)
  <2>1. ruleNext <= Len(workspace.rules[Order[at]])
    BY DEF ParseRuleDirective
  <2>2. ruleNext <= Len(rules)
    BY <2>1
  <2>3. fatal = FALSE
    BY DEF ParseRuleDirective, Alive, RulesInv, RulesType
  <2>4. /\ workspace' = workspace /\ ruleNext' = ruleNext + 1
        /\ at \in DOMAIN Order /\ at' = at /\ next > 0 /\ next' = next
    BY DEF ParseRuleDirective, vars
  <2> QED BY <2>2, <2>3, <2>4
<1>2. d \in Dir /\ Parent[d] \in Dir
  BY <1>1, OrderType
<1>3. /\ cells \in Seq(ConfigType) /\ configs \in [Dir -> [Names -> 0 .. Len(cells)]]
      /\ settings \in [Dir -> SettingsType] /\ workspace \in Workspaces
      /\ Len(cells) \in Nat /\ ruleNext \in Nat
  BY LenProperties DEF RulesInv, RulesType
<1>4. rules \in Seq(Directive) /\ Above(d) \in Seq(Directive) /\ Len(rules) \in Nat
  BY <1>2, SaidType, LenProperties
<1>5. ruleNext \in 1 .. Len(rules)
  <2>1. ruleNext \in 1 .. Len(rules) + 1
    BY <1>1 DEF RulesInv, RulesSoFar
  <2> QED BY <1>1, <1>4, <2>1
<1>6. /\ x \in Directive /\ said \in Seq(Directive)
      /\ Above(d) \o SubSeq(rules, 1, ruleNext) = Append(said, x)
  <2>. DEFINE before == SubSeq(rules, 1, ruleNext - 1)
  <2>. HIDE DEF rules
  <2>1. before \in Seq(Directive) /\ x \in Directive /\ SubSeq(rules, 1, ruleNext) = Append(before, x)
    BY <1>4, <1>5, PrefixAppend
  <2>. HIDE DEF before, x
  <2>2. Above(d) \o before \in Seq(Directive)
    BY <1>4, <2>1, ConcatProperties
  <2>3. Append(before, x) = before \o <<x>> /\ <<x>> \in Seq(Directive)
    BY <2>1, AppendIsConcat
  <2>4. Append(Above(d) \o before, x) = (Above(d) \o before) \o <<x>>
    BY <2>1, <2>2, AppendIsConcat
  <2>5. Above(d) \o (before \o <<x>>) = (Above(d) \o before) \o <<x>>
    BY <1>4, <2>1, <2>3, ConcatAssociative
  <2> QED BY <2>1, <2>2, <2>3, <2>4, <2>5 DEF before
<1>7. Stands(cells, configs[d], settings[d], said)
  BY <1>1 DEF RulesInv, RulesSoFar, StandsHere
<1>. DEFINE isNew == x.param \notin SettingParams /\ configs[d][x.name] = 0
            ref == IF isNew THEN Len(cells) + 1 ELSE configs[d][x.name]
            before == IF isNew THEN Append(cells, NewConfig(x.name)) ELSE cells
            after == IF x.param \in SettingParams THEN Set(settings[d], x) ELSE Obeyed(before[ref], x)
<1>8. /\ fatal' = (after = <<>>)
      /\ IF fatal' THEN UNCHANGED <<cells, configs, settings>>
         ELSE IF x.param \in SettingParams
         THEN settings' = [settings EXCEPT ![d] = after[1]] /\ UNCHANGED <<cells, configs>>
         ELSE /\ cells' = [before EXCEPT ![ref] = after[1]]
              /\ configs' = [configs EXCEPT ![d][x.name] = ref]
              /\ UNCHANGED settings
  BY DEF ParseRuleDirective
<1>9. fatal' \in BOOLEAN /\ ruleNext' \in Nat
  <2>1. fatal' = (after = <<>>)
    BY <1>8
  <2>. HIDE DEF after
  <2> QED BY <1>1, <1>3, <2>1
<1>. HIDE DEF said, x, rules
<1>10. ASSUME fatal'
       PROVE  RulesType' /\ OthersKept(d) /\ NotShared'
  <2>1. UNCHANGED <<cells, configs, settings>>
    BY <1>8, <1>10
  <2> QED BY <1>1, <1>9, <2>1 DEF RulesInv, RulesType, NotShared, OthersKept
<1>11. ASSUME ~fatal', IsSetting(x)
       PROVE  /\ RulesType' /\ OthersKept(d) /\ NotShared'
              /\ Stands(cells', configs'[d], settings'[d], Append(said, x))
  <2>1. /\ after = Set(settings[d], x) /\ after # <<>>
        /\ settings' = [settings EXCEPT ![d] = after[1]] /\ cells' = cells /\ configs' = configs
    BY <1>8, <1>11 DEF IsSetting
  <2>. HIDE DEF after
  <2>2. after[1] = After(settings[d], Set(settings[d], x))
    BY <2>1 DEF After
  <2>3. after[1] \in SettingsType
    BY <1>2, <1>3, <1>6, <1>11, <2>2, SetType, AfterType
  <2>4. /\ settings' \in [Dir -> SettingsType] /\ settings'[d] = after[1]
        /\ \A y \in Dir : y # d => settings'[y] = settings[y]
    BY <1>2, <1>3, <2>1, <2>3
  <2>5. RulesType' /\ OthersKept(d) /\ NotShared'
    BY <1>1, <1>3, <1>9, <2>1, <2>4 DEF RulesInv, RulesType, NotShared, OthersKept
  <2>6. Stands(cells, configs[d], After(settings[d], Set(settings[d], x)), Append(said, x))
    BY <1>6, <1>7, <1>11, StandsSet
  <2> QED BY <2>1, <2>2, <2>4, <2>5, <2>6
<1>12. ASSUME ~fatal', ~IsSetting(x)
       PROVE  /\ RulesType' /\ OthersKept(d) /\ NotShared'
              /\ Stands(cells', configs'[d], settings'[d], Append(said, x))
  <2>. DEFINE old == configs[d][x.name]
              config == IF old = 0 THEN NewConfig(x.name) ELSE cells[old]
  <2>1. x.name \in Names /\ old \in 0 .. Len(cells)
    <3>1. x.name \in Names
      BY <1>6, <1>12, DirectiveType DEF IsSetting, Names
    <3> QED BY <1>2, <1>3, <3>1
  <2>2. /\ IsObeyed(cells', ref, cells, old, x) /\ settings' = settings
        /\ configs' = [configs EXCEPT ![d][x.name] = ref]
    BY <1>8, <1>12 DEF IsObeyed, IsSetting
  <2>. HIDE DEF ref, old, config
  <2>3. /\ cells' \in Seq(ConfigType) /\ Len(cells) <= Len(cells') /\ ref \in 1 .. Len(cells')
        /\ \A i \in 1 .. Len(cells) : i # ref => cells'[i] = cells[i]
        /\ IF old = 0 THEN ref > Len(cells) ELSE ref = old
        /\ cells'[ref] = After(config, Obeyed(config, x))
    BY <1>3, <1>6, <2>1, <2>2, ObeyedCells DEF config
  <2>4. Len(cells') \in Nat
    BY <2>3, LenProperties
  <2>5. /\ configs'[d] = [configs[d] EXCEPT ![x.name] = ref]
        /\ configs'[d][x.name] = ref
        /\ \A n \in Names : n # x.name => configs'[d][n] = configs[d][n]
        /\ \A y \in Dir : y # d => configs'[y] = configs[y]
    BY <1>2, <1>3, <2>1, <2>2
  <2>6. \A y \in Dir : \A n \in Names : configs[y][n] \in 0 .. Len(cells)
    BY <1>3
  <2>7. ASSUME NEW y \in Dir, NEW n \in Names, y # d \/ n # x.name, configs[y][n] # 0
        PROVE  /\ configs[y][n] \in 1 .. Len(cells) /\ configs[y][n] # ref
               /\ cells'[configs[y][n]] = cells[configs[y][n]]
    <3>1. configs[y][n] \in 1 .. Len(cells)
      BY <1>3, <2>6, <2>7
    <3>2. configs[y][n] # ref
      <4>1. CASE old = 0
        BY <1>3, <2>3, <3>1, <4>1
      <4>2. CASE old # 0
        <5>1. configs[y][n] # configs[d][x.name]
          BY <1>2, <2>1, <2>7 DEF RulesInv, NotShared
        <5> QED BY <2>3, <4>2, <5>1 DEF old
      <4> QED BY <4>1, <4>2
    <3> QED BY <2>3, <3>1, <3>2
  <2>8. RulesType'
    <3>1. 0 .. Len(cells) \subseteq 0 .. Len(cells') /\ ref \in 0 .. Len(cells')
      BY <1>3, <2>3, <2>4
    <3>2. \A y \in Dir : configs[y] \in [Names -> 0 .. Len(cells')]
      BY <1>3, <3>1
    <3>3. configs'[d] \in [Names -> 0 .. Len(cells')]
      <4>1. configs[d] \in [Names -> 0 .. Len(cells')] /\ configs'[d] = [configs[d] EXCEPT ![x.name] = ref]
        BY <1>2, <2>5, <3>2
      <4> QED BY <3>1, <4>1
    <3>4. configs' = [configs EXCEPT ![d] = configs'[d]]
      BY <1>2, <1>3, <2>2, <2>5
    <3>5. configs' \in [Dir -> [Names -> 0 .. Len(cells')]]
      BY <1>3, <3>2, <3>3, <3>4
    <3> QED BY <1>1, <1>3, <1>9, <2>2, <2>3, <3>5 DEF RulesType
  <2>9. OthersKept(d)
    BY <2>2, <2>5, <2>7 DEF OthersKept
  <2>10. NotShared'
    <3>. DEFINE Mine(y, n) == y = d /\ n = x.name
    <3>1. \A y \in Dir, n \in Names : ~Mine(y, n) => configs'[y][n] = configs[y][n]
      BY <2>5
    <3>2. \A y \in Dir, n \in Names : ~Mine(y, n) => configs'[y][n] # ref
      <4>1. ref # 0
        BY <2>3, <2>4
      <4> QED BY <2>7, <3>1, <4>1
    <3>3. \A y \in Dir, n \in Names : Mine(y, n) => configs'[y][n] = ref
      BY <2>5
    <3>. SUFFICES ASSUME NEW d1 \in Dir, NEW d2 \in Dir, NEW n1 \in Names, NEW n2 \in Names,
                         configs'[d1][n1] # 0, configs'[d1][n1] = configs'[d2][n2]
                  PROVE  d1 = d2 /\ n1 = n2
      BY DEF NotShared
    <3>4. Mine(d1, n1) <=> Mine(d2, n2)
      <4>. HIDE DEF Mine
      <4> QED BY <3>2, <3>3
    <3>5. CASE Mine(d1, n1)
      BY <3>4, <3>5
    <3>6. CASE ~Mine(d1, n1)
      <4>1. configs[d1][n1] # 0 /\ configs[d1][n1] = configs[d2][n2]
        BY <3>1, <3>4, <3>6
      <4> QED BY <4>1 DEF RulesInv, NotShared
    <3> QED BY <3>5, <3>6
  <2>11. Stands(cells', configs'[d], settings'[d], Append(said, x))
    <3>1. configs'[d][x.name] # 0
      BY <2>3, <2>4, <2>5
    <3>2. \A n \in Names : n # x.name =>
            configs'[d][n] = configs[d][n] /\ (configs[d][n] # 0 => cells'[configs[d][n]] = cells[configs[d][n]])
      BY <1>2, <2>5, <2>7
    <3>3. cells'[configs'[d][x.name]] = After(config, Obeyed(config, x))
      BY <2>3, <2>5
    <3>4. Stands(cells', configs'[d], settings[d], Append(said, x))
      BY <1>6, <1>7, <1>12, <3>1, <3>2, <3>3, StandsObeyed DEF config, old
    <3> QED BY <2>2, <3>4
  <2> QED BY <2>8, <2>9, <2>10, <2>11
<1>13. RulesType' /\ OthersKept(d) /\ NotShared'
  BY <1>10, <1>11, <1>12
<1>14. Untouched' /\ RulesOfDone'
  BY <1>1, <1>2, <1>13, OthersInv
<1>15. RulesSoFar'
  <2>1. ruleNext + 1 \in 1 .. Len(rules) + 1 /\ (ruleNext + 1) - 1 = ruleNext
    BY <1>4, <1>5
  <2>2. ~fatal' => Stands(cells', configs'[d], settings'[d], Above(d) \o SubSeq(rules, 1, ruleNext))
    BY <1>6, <1>11, <1>12
  <2>3. Above(d)' = Above(d) /\ workspace'.rules[d] = rules
    BY <1>1, SaidKept DEF rules
  <2> QED BY <1>1, <2>1, <2>2, <2>3 DEF RulesSoFar, StandsHere
<1> QED BY <1>13, <1>14, <1>15 DEF RulesInv
\* The settings and the rule configurations of every directory that was begun are what
\* its own directives and those above it say, and no two directories share a cell.
THEOREM RulesInvariance == PackageSpec => []RulesInv
<1>1. PackageInit => RulesInv
  BY RulesInit
<1>2. RulesInv /\ ListsInv /\ [PackageNext]_<<vars, packageVars>> => RulesInv'
  BY RulesSteps, ConfigureDirectoryInv, ParseRuleDirectiveInv, ConfigureReturnsInv, RulesFramed
<1> QED BY <1>1, <1>2, ListsInvariance, PTL DEF PackageSpec

\* The settings and the rule configurations of a configured directory are, for as long as
\* its rules are generated and resolved, what its own directives and those of the
\* directories above it say.
THEOREM RulesConfigured == PackageSpec => []RulesConfiguredAsMeant
<1>1. RulesInv => RulesConfiguredAsMeant
  <2>. SUFFICES ASSUME RulesInv, Alive, NEW i \in DOMAIN Order, i < at
                PROVE  ConfiguredAs(Order[i], Said[Order[i]])
    BY DEF RulesConfiguredAsMeant, Done
  <2>1. Stands(cells, configs[Order[i]], settings[Order[i]], Said[Order[i]])
    BY DEF Alive, RulesInv, RulesOfDone, StandsHere
  <2> QED BY <2>1, StandsConfigured
<1> QED BY <1>1, RulesInvariance, PTL

-----------------------------------------------------------------------------
(***************************************************************************)
(* The package that GenerateRules makes of a directory: its rules are not  *)
(* resolved yet.                                                           *)
(***************************************************************************)
\* The rules, labels and files that may come about in a directory.
FreshRule(d) ==
    [name : STRING \cup {"scala_files"}, config : STRING, kind : {registry[k] : k \in STRING} \cup {"scala_files"},
     kinds : SUBSET STRING, srcs : {{}, workspace.build[d].regular}, deps : {{}}, deleted : {FALSE}]

LabelFor(d, r) ==
    [label |-> Rewritten(d, r), kind |-> r.kind, files |-> CollectFilenames(d, r.srcs).files,
     names |-> {f.defines : f \in {x \in workspace.build[d].tree :
                                       x.name \in CollectFilenames(d, r.srcs).files}}]

LabelsFor(d) == {LabelFor(d, r) : r \in ExistingRule}

FilesFor(d) == UNION {CollectFilenames(d, r.srcs).files : r \in ExistingRule}

FreshPackage(d) ==
    [dir : {d}, gen : Seq(FreshRule(d)), files : SUBSET FilesFor(d), labels : Seq(LabelsFor(d)),
     managed : Nat, total : {Total(d)}]

LEMMA NewPackageType ==
    ASSUME NEW d
    PROVE  NewPackage(d) \in FreshPackage(d)
<1>1. <<>> \in Seq(FreshRule(d)) /\ <<>> \in Seq(LabelsFor(d)) /\ {} \in SUBSET FilesFor(d)
  OBVIOUS
<1> QED BY <1>1 DEF NewPackage, FreshPackage

LEMMA GeneratedType ==
    ASSUME NEW d, NEW pkg \in FreshPackage(d), NEW r \in FreshRule(d)
    PROVE  [pkg EXCEPT !.gen = Append(@, r)] \in FreshPackage(d)
<1>1. pkg.gen \in Seq(FreshRule(d))
  BY DEF FreshPackage
<1>. DEFINE S == FreshRule(d)
<1>2. Append(pkg.gen, r) \in Seq(S)
  <2>. HIDE DEF S
  <2>1. r \in S /\ pkg.gen \in Seq(S)
    BY <1>1 DEF S
  <2> QED BY <2>1
<1> QED BY <1>2 DEF FreshPackage

LEMMA ProvideType ==
    ASSUME NEW d, NEW pkg \in FreshPackage(d), NEW name \in STRING
    PROVE  Provide(pkg, name) \in FreshPackage(d)
<1>1. pkg.dir = d
  BY DEF FreshPackage
<1>. DEFINE new == Generated("scala_files", name, "scala_files", {})
            r == [new EXCEPT !.srcs = workspace.build[d].regular]
<1>2. r \in FreshRule(d)
  <2>1. new = [name |-> "scala_files", config |-> name, kind |-> "scala_files", kinds |-> {},
               srcs |-> {}, deps |-> {}, deleted |-> FALSE]
    BY DEF Generated
  <2>2. {} \in SUBSET STRING
    OBVIOUS
  <2>. HIDE DEF new
  <2>3. new \in FreshRule(d)
    BY <2>1, <2>2 DEF FreshRule
  <2> QED BY <2>3 DEF FreshRule
<1>3. Provide(pkg, name) \in {pkg, [pkg EXCEPT !.gen = Append(@, r)]}
  BY <1>1 DEF Provide
<1>. HIDE DEF r
<1> QED BY <1>2, <1>3, GeneratedType

LEMMA ParsedType ==
    ASSUME NEW d, NEW pkg \in FreshPackage(d), NEW r \in ExistingRule, ParseRule(pkg, r) # <<>>
    PROVE  ParseRule(pkg, r)[1] \in FreshPackage(d)
<1>1. pkg.dir = d
  BY DEF FreshPackage
<1>. DEFINE label == LabelFor(d, r)
            files == CollectFilenames(d, r.srcs).files
<1>2. ParseRule(pkg, r)[1] = [pkg EXCEPT !.files = @ \cup files, !.labels = Append(@, label)]
  BY <1>1 DEF ParseRule, LabelFor
<1>3. label \in LabelsFor(d) /\ files \in SUBSET FilesFor(d)
  BY DEF LabelsFor, FilesFor
<1>. HIDE DEF label, files
<1>4. pkg.labels \in Seq(LabelsFor(d)) /\ pkg.files \in SUBSET FilesFor(d)
  BY DEF FreshPackage
<1>5. Append(pkg.labels, label) \in Seq(LabelsFor(d))
  BY <1>3, <1>4
<1>6. pkg.files \cup files \in SUBSET FilesFor(d)
  BY <1>3, <1>4
<1> QED BY <1>2, <1>5, <1>6 DEF FreshPackage

LEMMA ResolvedType ==
    ASSUME NEW d, NEW pkg \in FreshPackage(d), NEW name \in STRING, NEW r \in ExistingRule
    PROVE  Resolved(pkg, name, r) \in FreshPackage(d)
<1>. DEFINE provider == registry[r.kind]
            rule == Generated(r.name, name, provider, r.kinds)
            parsed == IF provider \in {"scala_fileset", "semanticdb_index"} THEN <<pkg>>
                      ELSE IF provider = "scala_files" THEN <<>> ELSE ParseRule(pkg, r)
            more == IF ContributesToCoverage(r.name) THEN 1 ELSE 0
<1>1. parsed # <<>> => parsed[1] \in FreshPackage(d)
  BY ParsedType
<1>2. rule \in FreshRule(d)
  BY DEF Generated, FreshRule, ExistingRule
<1>3. Resolved(pkg, name, r) =
        IF parsed = <<>> THEN pkg
        ELSE [parsed[1] EXCEPT !.gen = Append(@, rule), !.managed = @ + more]
  BY Zenon DEF Resolved
<1>4. more \in Nat
  OBVIOUS
<1>. HIDE DEF parsed, rule, more
<1>5. ASSUME NEW p \in FreshPackage(d)
      PROVE  [p EXCEPT !.gen = Append(@, rule), !.managed = @ + more] \in FreshPackage(d)
  <2>1. [p EXCEPT !.gen = Append(@, rule)] \in FreshPackage(d)
    BY <1>2, GeneratedType
  <2>2. p.managed + more \in Nat
    BY <1>4 DEF FreshPackage
  <2> QED BY <2>1, <2>2 DEF FreshPackage
<1> QED BY <1>1, <1>3, <1>5
\* Taking on rules one by one is a fold.
Taken(pkg, name, kind, r) == IF r.kind = kind THEN Resolved(pkg, name, r) ELSE pkg

TakeFcn(d, name, kind) ==
    [pkg \in FreshPackage(d) |-> [r \in ExistingRule |-> Taken(pkg, name, kind, r)]]

LEMMA TakeOnIsFold ==
    ASSUME NEW d, NEW pkg \in FreshPackage(d), NEW name \in STRING, NEW kind,
           workspace.build[d].existing \in Seq(ExistingRule)
    PROVE  /\ IsStep(TakeFcn(d, name, kind), FreshPackage(d), ExistingRule)
           /\ TakeOn(pkg, name, kind) = Folded(TakeFcn(d, name, kind), pkg, workspace.build[d].existing)
<1>. DEFINE rules == workspace.build[d].existing
            m == Len(rules)
            V == FreshPackage(d)
            F == TakeFcn(d, name, kind)
            IsIter(h) == h = [s \in SUBSET (1 .. m) |->
                                 IF s = {} THEN pkg ELSE Taken(h[s \ {Max(s)}], name, kind, rules[Max(s)])]
            step == PositionSteps(F, V, rules)
            iter == CHOOSE h : IsIter(h)
<1>1. rules \in Seq(ExistingRule) /\ m \in Nat /\ DOMAIN rules = 1 .. m
  OBVIOUS
<1>2. TakeOn(pkg, name, kind) = iter[1 .. m]
  <2>1. pkg.dir = d
    BY DEF FreshPackage
  <2> QED BY <1>1, <2>1 DEF TakeOn, FoldLeft, MapThenFoldSet, Taken
<1>3. IsStep(F, V, ExistingRule)
  <2>. SUFFICES ASSUME NEW p \in V, NEW r \in ExistingRule
                PROVE  Taken(p, name, kind, r) \in V
    BY DEF TakeFcn, IsStep
  <2> QED BY ResolvedType DEF Taken
<1>4. step \in [1 .. m -> [V -> V]]
  <2>. HIDE DEF V, F, rules
  <2> QED BY <1>1, <1>3 DEF PositionSteps, IsStep
<1>. HIDE DEF rules
<1>5. PICK f : IsFold(f, V, pkg, step, m)
  <2>. HIDE DEF step, m, V
  <2>1. m \in Nat /\ pkg \in V
    BY <1>1 DEF m, V
  <2> QED BY <1>4, <2>1, FoldExists
<1>6. ASSUME NEW s \in SUBSET (1 .. m), s # {}
      PROVE  Max(s) \in 1 .. m /\ rules[Max(s)] \in ExistingRule
  <2>1. \E x \in s : \A y \in s : x >= y
    BY <1>1, <1>6, RangeHasMax
  <2>2. Max(s) \in 1 .. m
    BY <2>1 DEF Max
  <2> QED BY <1>1, <2>2, ElementOfSeq
<1>7. ASSUME NEW s \in SUBSET (1 .. m), s # {}, NEW x \in V
      PROVE  /\ step[Max(s)][x] = Taken(x, name, kind, rules[Max(s)])
             /\ F[x][rules[Max(s)]] = Taken(x, name, kind, rules[Max(s)])
  <2>1. F[x][rules[Max(s)]] = Taken(x, name, kind, rules[Max(s)])
    BY <1>6, <1>7 DEF TakeFcn
  <2>. HIDE DEF F, V
  <2>2. step[Max(s)][x] = F[x][rules[Max(s)]]
    BY <1>6, <1>7 DEF PositionSteps
  <2> QED BY <2>1, <2>2
<1>. HIDE DEF step, V, F
<1>8. IsIter(f)
  BY <1>5, <1>7 DEF IsFold
<1>9. IsIter(iter)
  <2>. HIDE DEF IsIter
  <2> QED BY <1>8
<1>. HIDE DEF iter
<1>10. FoldsLeft(iter, F, V, ExistingRule, pkg, rules)
  <2>1. iter = [s \in SUBSET (1 .. m) |-> iter[s]]
    BY <1>9
  <2>2. ASSUME NEW s \in SUBSET (1 .. m), s # {}, iter[s \ {Max(s)}] \in V
        PROVE  iter[s] = F[iter[s \ {Max(s)}]][rules[Max(s)]]
    <3>1. iter[s] = Taken(iter[s \ {Max(s)}], name, kind, rules[Max(s)])
      BY <1>9, <2>2
    <3> QED BY <1>7, <2>2, <3>1
  <2>3. iter[{}] = pkg
    BY <1>9
  <2>4. pkg \in V
    BY DEF V
  <2>. HIDE DEF IsIter
  <2> QED BY <1>1, <1>3, <2>1, <2>2, <2>3, <2>4 DEF FoldsLeft
<1>11. iter[1 .. Len(rules)] = Folded(F, pkg, rules)
  BY <1>10, FoldLeftFolds
<1> QED BY <1>2, <1>3, <1>11 DEF F, V, rules

LEMMA TakeOnType ==
    ASSUME NEW d, NEW pkg \in FreshPackage(d), NEW name \in STRING, NEW kind,
           workspace.build[d].existing \in Seq(ExistingRule)
    PROVE  TakeOn(pkg, name, kind) \in FreshPackage(d)
BY TakeOnIsFold, FoldedType

\* and so is going over the configurations.
FreshState(d) == [pkg : FreshPackage(d), kinds : SUBSET ExistingKinds(d)]

GenerateFcn(d) == [state \in FreshState(d) |-> [name \in STRING |-> GenerateFor(state, name)]]

LEMMA GenerateForType ==
    ASSUME NEW d, workspace.build[d].existing \in Seq(ExistingRule)
    PROVE  IsStep(GenerateFcn(d), FreshState(d), STRING)
<1>. SUFFICES ASSUME NEW state \in FreshState(d), NEW name \in STRING
              PROVE  GenerateFor(state, name) \in FreshState(d)
  BY DEF GenerateFcn, IsStep
<1>. DEFINE kind == ConfigOf(state.pkg.dir, name).implementation
            provided == Provide(state.pkg, name)
            pkg == IF kind \in state.kinds THEN TakeOn(provided, name, kind) ELSE provided
            kinds == Without(state.kinds, kind)
<1>1. state.pkg \in FreshPackage(d) /\ state.kinds \subseteq ExistingKinds(d)
  BY DEF FreshState
<1>2. provided \in FreshPackage(d)
  BY <1>1, ProvideType
<1>3. pkg \in FreshPackage(d)
  BY <1>2, TakeOnType
<1>4. kinds \in SUBSET ExistingKinds(d)
  BY <1>1 DEF Without
<1>5. GenerateFor(state, name) \in {state, [pkg |-> pkg, kinds |-> kinds]}
  BY DEF GenerateFor
<1>. HIDE DEF pkg, kinds
<1> QED BY <1>3, <1>4, <1>5 DEF FreshState

GenerateBase(d) == [pkg |-> NewPackage(d), kinds |-> ExistingKinds(d)]

LEMMA GeneratedPackageIsFold ==
    ASSUME NEW d, workspace.build[d].existing \in Seq(ExistingRule)
    PROVE  GeneratedPackage(d) = Folded(GenerateFcn(d), GenerateBase(d), ConfigNames).pkg
<1>. DEFINE m == Len(ConfigNames)
            V == FreshState(d)
            F == GenerateFcn(d)
            base == GenerateBase(d)
            IsIter(h) == h = [s \in SUBSET (1 .. m) |->
                                 IF s = {} THEN base ELSE GenerateFor(h[s \ {Max(s)}], ConfigNames[Max(s)])]
            step == PositionSteps(F, V, ConfigNames)
            iter == CHOOSE h : IsIter(h)
<1>1. ConfigNames \in Seq(STRING) /\ m \in Nat /\ DOMAIN ConfigNames = 1 .. m
  BY PackageAssumption
<1>2. GeneratedPackage(d) = iter[1 .. m].pkg
  BY <1>1 DEF GeneratedPackage, GenerateBase, FoldLeft, MapThenFoldSet
<1>3. IsStep(F, V, STRING) /\ base \in V
  BY GenerateForType, NewPackageType DEF FreshState, GenerateBase
<1>4. step \in [1 .. m -> [V -> V]]
  <2>. HIDE DEF V, F
  <2>1. \A i \in 1 .. m : ConfigNames[i] \in STRING
    BY <1>1, ElementOfSeq
  <2> QED BY <1>3, <2>1 DEF PositionSteps, IsStep
<1>. HIDE DEF base
<1>5. PICK f : IsFold(f, V, base, step, m)
  <2>. HIDE DEF step, m, V
  <2>1. m \in Nat
    BY <1>1 DEF m
  <2> QED BY <1>3, <1>4, <2>1, FoldExists
<1>6. ASSUME NEW s \in SUBSET (1 .. m), s # {}
      PROVE  Max(s) \in 1 .. m /\ ConfigNames[Max(s)] \in STRING
  <2>1. \E x \in s : \A y \in s : x >= y
    BY <1>1, <1>6, RangeHasMax
  <2>2. Max(s) \in 1 .. m
    BY <2>1 DEF Max
  <2> QED BY <1>1, <2>2, ElementOfSeq
<1>7. ASSUME NEW s \in SUBSET (1 .. m), s # {}, NEW x \in V
      PROVE  /\ step[Max(s)][x] = GenerateFor(x, ConfigNames[Max(s)])
             /\ F[x][ConfigNames[Max(s)]] = GenerateFor(x, ConfigNames[Max(s)])
  <2>1. F[x][ConfigNames[Max(s)]] = GenerateFor(x, ConfigNames[Max(s)])
    BY <1>6, <1>7 DEF GenerateFcn
  <2>. HIDE DEF F, V
  <2>2. step[Max(s)][x] = F[x][ConfigNames[Max(s)]]
    BY <1>6, <1>7 DEF PositionSteps
  <2> QED BY <2>1, <2>2
<1>. HIDE DEF step, V, F
<1>8. IsIter(f)
  BY <1>5, <1>7 DEF IsFold
<1>9. IsIter(iter)
  <2>. HIDE DEF IsIter
  <2> QED BY <1>8
<1>. HIDE DEF iter
<1>10. FoldsLeft(iter, F, V, STRING, base, ConfigNames)
  <2>1. iter = [s \in SUBSET (1 .. m) |-> iter[s]]
    BY <1>9
  <2>2. ASSUME NEW s \in SUBSET (1 .. m), s # {}, iter[s \ {Max(s)}] \in V
        PROVE  iter[s] = F[iter[s \ {Max(s)}]][ConfigNames[Max(s)]]
    <3>1. iter[s] = GenerateFor(iter[s \ {Max(s)}], ConfigNames[Max(s)])
      BY <1>9, <2>2
    <3> QED BY <1>7, <2>2, <3>1
  <2>3. iter[{}] = base
    BY <1>9
  <2>. HIDE DEF IsIter
  <2> QED BY <1>1, <1>3, <2>1, <2>2, <2>3 DEF FoldsLeft
<1>11. iter[1 .. Len(ConfigNames)] = Folded(F, base, ConfigNames)
  BY <1>10, FoldLeftFolds
<1> QED BY <1>2, <1>11 DEF F, base

LEMMA GeneratedPackageType ==
    ASSUME NEW d, workspace.build[d].existing \in Seq(ExistingRule)
    PROVE  GeneratedPackage(d) \in FreshPackage(d)
<1>1. IsStep(GenerateFcn(d), FreshState(d), STRING) /\ GenerateBase(d) \in FreshState(d)
  BY GenerateForType, NewPackageType DEF FreshState, GenerateBase
<1>2. ConfigNames \in Seq(STRING)
  BY PackageAssumption
<1>3. Folded(GenerateFcn(d), GenerateBase(d), ConfigNames) \in FreshState(d)
  BY <1>1, <1>2, FoldedType
<1> QED BY <1>3, GeneratedPackageIsFold DEF FreshState
-----------------------------------------------------------------------------
(***************************************************************************)
(* From the first package to the last resolved rule.                       *)
(***************************************************************************)
IsSeq(s) == s \in Seq(ToSet(s))

IsRule(r) ==
    r \in [name : {r.name}, config : {r.config}, kind : {r.kind}, kinds : {r.kinds},
           srcs : {r.srcs}, deps : {r.deps}, deleted : BOOLEAN]

IsPackage(pkg) ==
    /\ pkg \in [dir : Dir, gen : {pkg.gen}, files : {pkg.files}, labels : {pkg.labels},
                managed : {pkg.managed}, total : {pkg.total}]
    /\ IsSeq(pkg.labels) /\ IsSeq(pkg.gen)
    /\ \A i \in DOMAIN pkg.gen : IsRule(pkg.gen[i])

PackagesType ==
    /\ IsSeq(packages) /\ \A p \in DOMAIN packages : IsPackage(packages[p])
    /\ visit \in Nat /\ resolving \in Nat \ {0} /\ pass \in {1, 2}
    /\ visit = 0 => resolving = 1 /\ pass = 1
    /\ IsSeq(filesets)
    /\ filegroupDeps \in Seq(Dir)
    /\ filegroups \in [Dir -> {<<>>} \cup {<<deps>> : deps \in SUBSET Dir}]

\* Was rule i of package p resolved, once at least?
HasResolved(p, i) == p < visit \/ (p = visit /\ (pass = 2 \/ i < resolving))

RulesOf(p) == DOMAIN packages[p].gen
IsKind(p, i, kind) == packages[p].gen[i].kind = kind

\* A rule is deleted for good, and one that stays has all the files.
FilesSettled ==
    \A p \in DOMAIN packages : \A i \in RulesOf(p) :
        IsKind(p, i, "scala_files") =>
            LET r == packages[p].gen[i]
            IN IF HasResolved(p, i)
               THEN packages[p].files \subseteq r.srcs /\ (r.deleted <=> r.srcs = {})
               ELSE ~r.deleted

\* The list has the rules that were resolved and stay.
Stays(p, i) == IsKind(p, i, "scala_files") /\ ~packages[p].gen[i].deleted
LabelOf(p, i) == <<packages[p].dir, packages[p].gen[i].name>>

FilesetsListed ==
    /\ \A p \in DOMAIN packages : \A i \in RulesOf(p) :
        HasResolved(p, i) /\ Stays(p, i) => LabelOf(p, i) \in ToSet(filesets)
    /\ \A x \in ToSet(filesets) : \E p \in DOMAIN packages : \E i \in RulesOf(p) :
        HasResolved(p, i) /\ Stays(p, i) /\ x = LabelOf(p, i)

\* The labels of an index, as a function of the packages.
OwnsAmong(ps, p, i) ==
    \E n \in ps[p].labels[i].names :
        /\ \A j \in 1 .. (i - 1) : n \notin ps[p].labels[j].names
        /\ \A q \in 1 .. (p - 1) : \A l \in ToSet(ps[q].labels) : n \notin l.names

SemanticdbIn(ps, kinds) ==
    UNION {{<<ps[p].dir, ps[p].labels[i].label>> :
                i \in {j \in DOMAIN ps[p].labels : ps[p].labels[j].kind \in kinds /\ OwnsAmong(ps, p, j)}} :
            p \in DOMAIN ps}

IndexesComplete ==
    \A p \in DOMAIN packages : \A i \in RulesOf(p) :
        HasResolved(p, i) /\ IsKind(p, i, "semanticdb_index") =>
            packages[p].gen[i].deps = SemanticdbIn(packages, packages[p].gen[i].kinds)

\* When the rules of the last package are resolved again, nothing is missing.
LastPackage == Len(packages)
ResolvedLast(i) == visit > LastPackage \/ (visit = LastPackage /\ pass = 2 /\ i < resolving)

FilesetsComplete ==
    packages # <<>> =>
        \A i \in RulesOf(LastPackage) :
            ResolvedLast(i) /\ IsKind(LastPackage, i, "scala_fileset") =>
                packages[LastPackage].gen[i].deps = ToSet(filesets)

\* The root is visited last, and then depends on the filegroups of all the others.
FilegroupsComplete ==
    /\ visit > 0 => Visited = Dir
    /\ \A d \in Visited : HasFiles(d) /\ Parent[d] # d => d \in ToSet(filegroupDeps)
    /\ \A r \in Visited : Parent[r] = r =>
        /\ Visited = Dir
        /\ \A d \in Dir : HasFiles(d) /\ Parent[d] # d => filegroups[r] # <<>> /\ d \in filegroups[r][1]

ResolveInv ==
    PackagesType /\ FilesSettled /\ FilesetsListed /\ IndexesComplete /\ FilesetsComplete /\ FilegroupsComplete
\* Sequences that are appended to and changed.
LEMMA SeqAppended ==
    ASSUME NEW s, IsSeq(s), NEW x
    PROVE  /\ IsSeq(Append(s, x))
           /\ DOMAIN s = 1 .. Len(s) /\ Len(s) \in Nat
           /\ Len(Append(s, x)) = Len(s) + 1 /\ DOMAIN Append(s, x) = 1 .. Len(s) + 1
           /\ Append(s, x)[Len(s) + 1] = x /\ \A i \in DOMAIN s : Append(s, x)[i] = s[i]
           /\ ToSet(Append(s, x)) = ToSet(s) \cup {x}
<1>. DEFINE T == ToSet(s) \cup {x}
            t == Append(s, x)
<1>1. s \in Seq(ToSet(s)) /\ ToSet(s) \subseteq T /\ x \in T
  BY DEF IsSeq
<1>. HIDE DEF T
<1>2. s \in Seq(T)
  BY <1>1
<1>3. /\ t \in Seq(T) /\ Len(s) \in Nat /\ DOMAIN s = 1 .. Len(s)
      /\ Len(t) = Len(s) + 1 /\ DOMAIN t = 1 .. Len(s) + 1
      /\ t[Len(s) + 1] = x /\ \A i \in DOMAIN s : t[i] = s[i]
  BY <1>1, <1>2, AppendProperties
<1>. HIDE DEF t
<1>4. ToSet(t) = ToSet(s) \cup {x}
  BY <1>3 DEF ToSet
<1>5. t \in Seq(ToSet(t))
  BY <1>3, <1>4 DEF T
<1> QED BY <1>3, <1>4, <1>5 DEF t, IsSeq

LEMMA SeqChanged ==
    ASSUME NEW s, IsSeq(s), NEW i \in DOMAIN s, NEW x
    PROVE  LET t == [s EXCEPT ![i] = x]
           IN /\ IsSeq(t) /\ Len(t) = Len(s) /\ DOMAIN t = DOMAIN s
              /\ t[i] = x /\ \A j \in DOMAIN s : j # i => t[j] = s[j]
<1>. DEFINE T == ToSet(s) \cup {x}
            t == [s EXCEPT ![i] = x]
<1>1. s \in Seq(ToSet(s)) /\ ToSet(s) \subseteq T /\ x \in T
  BY DEF IsSeq
<1>. HIDE DEF T
<1>2. s \in Seq(T)
  BY <1>1
<1>3. t \in Seq(T) /\ Len(t) = Len(s) /\ DOMAIN t = DOMAIN s
  BY <1>1, <1>2
<1>4. t[i] = x /\ \A j \in DOMAIN s : j # i => t[j] = s[j]
  OBVIOUS
<1>. HIDE DEF t
<1>5. t \in Seq(ToSet(t))
  <2>1. \A j \in 1 .. Len(t) : t[j] \in ToSet(t)
    BY <1>3 DEF ToSet
  <2>2. t = [j \in 1 .. Len(t) |-> t[j]] /\ Len(t) \in Nat
    BY <1>3
  <2> QED BY <2>1, <2>2
<1> QED BY <1>3, <1>4, <1>5 DEF t, IsSeq

\* What the rule kinds make of a rule.
LEMMA ResolvedRuleType ==
    ASSUME NEW pkg, NEW r, IsRule(r)
    PROVE  LET new == ResolvedRule(pkg, r)
           IN /\ IsRule(new) /\ new.kind = r.kind /\ new.name = r.name /\ new.kinds = r.kinds
              /\ r.kind = "scala_files" => new = FilesRule(pkg, r)
              /\ r.kind = "scala_fileset" => new.deps = ToSet(filesets)
              /\ r.kind = "semanticdb_index" => new.deps = SemanticdbLabels(r.kinds)
<1>1. ASSUME NEW new, new = FilesRule(pkg, r)
      PROVE  IsRule(new) /\ new.kind = r.kind /\ new.name = r.name /\ new.kinds = r.kinds
  BY <1>1 DEF IsRule, FilesRule
<1>2. ASSUME NEW new, NEW deps, new = [r EXCEPT !.deps = deps]
      PROVE  IsRule(new) /\ new.kind = r.kind /\ new.name = r.name /\ new.kinds = r.kinds /\ new.deps = deps
  BY <1>2 DEF IsRule
<1>3. CASE r.kind = "scala_files"
  BY <1>1, <1>3 DEF ResolvedRule
<1>4. CASE r.kind = "scala_fileset"
  BY <1>2, <1>4 DEF ResolvedRule, FilesetRule
<1>5. CASE r.kind = "semanticdb_index"
  BY <1>2, <1>5 DEF ResolvedRule, SemanticdbIndexRule
<1>6. CASE r.kind \notin {"scala_files", "scala_fileset", "semanticdb_index"}
  BY <1>6 DEF ResolvedRule
<1> QED BY <1>3, <1>4, <1>5, <1>6

LEMMA FilesRuleSettles ==
    ASSUME NEW pkg, NEW r, IsRule(r)
    PROVE  LET new == FilesRule(pkg, r)
           IN /\ new.srcs = r.srcs \cup pkg.files
              /\ new.deleted = (r.deleted \/ r.srcs \cup pkg.files = {})
<1>1. CASE r.srcs \cup pkg.files = {}
  BY <1>1 DEF FilesRule, IsRule
<1>2. CASE r.srcs \cup pkg.files # {}
  BY <1>2 DEF FilesRule, IsRule
<1> QED BY <1>1, <1>2

\* One rule is resolved, the others stay as they are.
Rewrites(r) ==
    /\ visit \in DOMAIN packages /\ resolving \in RulesOf(visit)
    /\ r = ResolvedRule(packages[visit], packages[visit].gen[resolving])
    /\ IsSeq(packages') /\ Len(packages') = Len(packages) /\ DOMAIN packages' = DOMAIN packages
    /\ \A p \in DOMAIN packages :
        /\ packages'[p].dir = packages[p].dir /\ packages'[p].files = packages[p].files
        /\ packages'[p].labels = packages[p].labels
        /\ packages'[p].managed = packages[p].managed /\ packages'[p].total = packages[p].total
        /\ RulesOf(p)' = RulesOf(p) /\ IsPackage(packages'[p])
        /\ \A i \in RulesOf(p) :
            packages'[p].gen[i] = IF p = visit /\ i = resolving THEN r ELSE packages[p].gen[i]

LEMMA ResolveRewrites ==
    ASSUME PackagesType, Resolve
    PROVE  Rewrites(ResolvedRule(packages[visit], packages[visit].gen[resolving]))
<1>. DEFINE pkg == packages[visit]
            r == ResolvedRule(pkg, pkg.gen[resolving])
            gen == [pkg.gen EXCEPT ![resolving] = r]
            new == [pkg EXCEPT !.gen = gen]
<1>1. visit \in DOMAIN packages /\ resolving \in RulesOf(visit) /\ IsSeq(packages) /\ IsPackage(pkg)
  BY DEF Resolve, Resolving, PackagesType, RulesOf
<1>2. packages' = [packages EXCEPT ![visit] = new]
  BY DEF Resolve
<1>3. IsSeq(pkg.gen) /\ IsRule(pkg.gen[resolving]) /\ resolving \in DOMAIN pkg.gen
  BY <1>1 DEF IsPackage, RulesOf
<1>4. IsRule(r)
  BY <1>3, ResolvedRuleType
<1>. HIDE DEF r
<1>5. IsSeq(gen) /\ DOMAIN gen = DOMAIN pkg.gen
      /\ gen[resolving] = r /\ \A j \in DOMAIN pkg.gen : j # resolving => gen[j] = pkg.gen[j]
  BY <1>3, SeqChanged
<1>. HIDE DEF gen
<1>6. /\ new \in [dir : Dir, gen : {gen}, files : {pkg.files}, labels : {pkg.labels},
                  managed : {pkg.managed}, total : {pkg.total}]
      /\ new.dir = pkg.dir /\ new.files = pkg.files /\ new.labels = pkg.labels /\ new.gen = gen
      /\ new.managed = pkg.managed /\ new.total = pkg.total
  BY <1>1 DEF IsPackage
<1>. HIDE DEF new
<1>7. IsPackage(new)
  <2>1. \A j \in DOMAIN gen : IsRule(gen[j])
    BY <1>1, <1>4, <1>5 DEF IsPackage
  <2> QED BY <1>1, <1>5, <1>6, <2>1 DEF IsPackage
<1>. HIDE DEF pkg
<1>8. /\ IsSeq(packages') /\ Len(packages') = Len(packages) /\ DOMAIN packages' = DOMAIN packages
      /\ packages'[visit] = new /\ \A p \in DOMAIN packages : p # visit => packages'[p] = packages[p]
  BY <1>1, <1>2, SeqChanged
<1>9. ASSUME NEW p \in DOMAIN packages
      PROVE  /\ packages'[p].dir = packages[p].dir /\ packages'[p].files = packages[p].files
             /\ packages'[p].labels = packages[p].labels
             /\ packages'[p].managed = packages[p].managed /\ packages'[p].total = packages[p].total
             /\ DOMAIN packages'[p].gen = DOMAIN packages[p].gen /\ IsPackage(packages'[p])
             /\ \A i \in DOMAIN packages[p].gen :
                  packages'[p].gen[i] = IF p = visit /\ i = resolving THEN r ELSE packages[p].gen[i]
  <2>1. CASE p = visit
    BY <1>5, <1>6, <1>7, <1>8, <2>1 DEF pkg
  <2>2. CASE p # visit
    BY <1>8, <2>2 DEF PackagesType
  <2> QED BY <2>1, <2>2
<1>10. r = ResolvedRule(packages[visit], packages[visit].gen[resolving])
  BY DEF r, pkg
<1> QED BY <1>1, <1>8, <1>9, <1>10 DEF Rewrites, RulesOf
\* Rules do not matter for the labels of an index.
LEMMA SemanticdbOfPackages ==
    ASSUME NEW kinds
    PROVE  SemanticdbLabels(kinds) = SemanticdbIn(packages, kinds)
BY DEF SemanticdbLabels, SemanticdbIn, OwnsAName, OwnsAmong

SameLabels(ps, qs) ==
    /\ DOMAIN ps = 1 .. Len(ps) /\ DOMAIN qs = DOMAIN ps
    /\ \A p \in DOMAIN ps : qs[p].dir = ps[p].dir /\ qs[p].labels = ps[p].labels

LEMMA SemanticdbKept ==
    ASSUME NEW ps, NEW qs, Len(ps) \in Nat, SameLabels(ps, qs), NEW kinds
    PROVE  SemanticdbIn(qs, kinds) = SemanticdbIn(ps, kinds)
<1>1. ASSUME NEW p \in DOMAIN ps, NEW i
      PROVE  OwnsAmong(qs, p, i) = OwnsAmong(ps, p, i)
  <2>1. \A q \in 1 .. (p - 1) : q \in DOMAIN ps /\ qs[q].labels = ps[q].labels
    BY DEF SameLabels
  <2>2. qs[p].labels = ps[p].labels
    BY DEF SameLabels
  <2> QED BY <2>1, <2>2 DEF OwnsAmong
<1>2. ASSUME NEW p \in DOMAIN ps
      PROVE  {<<qs[p].dir, qs[p].labels[i].label>> :
                  i \in {j \in DOMAIN qs[p].labels : qs[p].labels[j].kind \in kinds /\ OwnsAmong(qs, p, j)}}
             = {<<ps[p].dir, ps[p].labels[i].label>> :
                  i \in {j \in DOMAIN ps[p].labels : ps[p].labels[j].kind \in kinds /\ OwnsAmong(ps, p, j)}}
  BY <1>1 DEF SameLabels
<1>3. DOMAIN qs = DOMAIN ps
  BY DEF SameLabels
<1> QED BY <1>2, <1>3 DEF SemanticdbIn

\* The rules that were resolved, one step later.
LEMMA ResolveInvResolve ==
    ASSUME ResolveInv, Resolve
    PROVE  ResolveInv'
<1>. DEFINE old == packages[visit].gen[resolving]
            r == ResolvedRule(packages[visit], old)
<1>1. PackagesType
  BY DEF ResolveInv
<1>2. Rewrites(r)
  BY <1>1, ResolveRewrites
<1>3. /\ visit' = visit /\ pass' = pass /\ resolving' = resolving + 1
      /\ workspace' = workspace /\ filegroupDeps' = filegroupDeps /\ filegroups' = filegroups
      /\ filesets' = IF r.kind = "scala_files" /\ ~r.deleted
                     THEN Append(filesets, <<packages[visit].dir, r.name>>) ELSE filesets
  BY DEF Resolve, filegroupVars
<1>4. /\ visit \in DOMAIN packages /\ resolving \in RulesOf(visit) /\ DOMAIN packages = 1 .. Len(packages)
      /\ Len(packages) \in Nat /\ IsPackage(packages[visit]) /\ IsRule(old)
      /\ resolving \in Nat \ {0} /\ pass \in {1, 2} /\ visit \in Nat
  BY <1>1, <1>2, SeqAppended DEF Rewrites, PackagesType, IsPackage, RulesOf
<1>5. /\ r.kind = old.kind /\ r.name = old.name /\ r.kinds = old.kinds
      /\ old.kind = "scala_files" => r = FilesRule(packages[visit], old)
      /\ old.kind = "scala_fileset" => r.deps = ToSet(filesets)
      /\ old.kind = "semanticdb_index" => r.deps = SemanticdbLabels(old.kinds)
  BY <1>4, ResolvedRuleType
<1>6. old.kind = "scala_files" =>
        /\ r.srcs = old.srcs \cup packages[visit].files
        /\ r.deleted = (old.deleted \/ old.srcs \cup packages[visit].files = {})
  BY <1>4, <1>5, FilesRuleSettles
<1>7. /\ IsSeq(filesets')
      /\ ToSet(filesets') = IF r.kind = "scala_files" /\ ~r.deleted
                            THEN ToSet(filesets) \cup {<<packages[visit].dir, r.name>>} ELSE ToSet(filesets)
  <2>. HIDE DEF r
  <2>1. IsSeq(filesets)
    BY <1>1 DEF PackagesType
  <2> QED BY <1>3, <2>1, SeqAppended
\* Being resolved.
<1>8. \A p \in DOMAIN packages : \A i \in RulesOf(p) :
        /\ p = visit /\ i = resolving => HasResolved(p, i)'
        /\ p # visit \/ i # resolving => HasResolved(p, i)' = HasResolved(p, i)
  <2>. SUFFICES ASSUME NEW p \in DOMAIN packages, NEW i \in RulesOf(p)
                PROVE  /\ p = visit /\ i = resolving => HasResolved(p, i)'
                       /\ p # visit \/ i # resolving => HasResolved(p, i)' = HasResolved(p, i)
    OBVIOUS
  <2>1. i \in Nat
    <3>1. IsSeq(packages[p].gen)
      BY <1>1 DEF PackagesType, IsPackage
    <3>2. i \in 1 .. Len(packages[p].gen) /\ Len(packages[p].gen) \in Nat
      BY <3>1, SeqAppended DEF RulesOf
    <3> QED BY <3>2
  <2> QED BY <1>3, <1>4, <2>1 DEF HasResolved
<1>9. packages'[visit].gen[resolving] = r /\ IsRule(r)
  <2>1. packages'[visit].gen[resolving] = r
    BY <1>2, <1>4 DEF Rewrites
  <2>2. IsRule(r)
    BY <1>4, ResolvedRuleType
  <2> QED BY <2>1, <2>2
<1>. HIDE DEF old, r
<1>10. PackagesType'
  <2>1. IsSeq(packages') /\ \A p \in DOMAIN packages' : IsPackage(packages'[p])
    BY <1>2 DEF Rewrites
  <2>2. resolving + 1 \in Nat \ {0}
    BY <1>4
  <2>3. visit # 0
    BY <1>4
  <2> QED BY <1>1, <1>3, <1>7, <2>1, <2>2, <2>3 DEF PackagesType
<1>11. r.kind = "scala_files" => packages[visit].files \subseteq r.srcs /\ (r.deleted <=> r.srcs = {})
  <2>. SUFFICES ASSUME old.kind = "scala_files"
                PROVE  packages[visit].files \subseteq r.srcs /\ (r.deleted <=> r.srcs = {})
    BY <1>5
  <2>1. old.deleted => old.srcs = {} /\ packages[visit].files = {}
    BY <1>4 DEF ResolveInv, FilesSettled, IsKind, old
  <2> QED BY <1>6, <2>1
<1>12. FilesSettled'
  <2>. SUFFICES ASSUME NEW p \in DOMAIN packages, NEW i \in RulesOf(p), packages'[p].gen[i].kind = "scala_files"
                PROVE  IF HasResolved(p, i)'
                       THEN /\ packages'[p].files \subseteq packages'[p].gen[i].srcs
                            /\ (packages'[p].gen[i].deleted <=> packages'[p].gen[i].srcs = {})
                       ELSE ~packages'[p].gen[i].deleted
    BY <1>2 DEF Rewrites, FilesSettled, IsKind
  <2>1. CASE p = visit /\ i = resolving
    BY <1>2, <1>8, <1>9, <1>11, <2>1 DEF Rewrites
  <2>2. CASE p # visit \/ i # resolving
    <3>1. packages'[p].gen[i] = packages[p].gen[i] /\ packages'[p].files = packages[p].files
      BY <1>2, <2>2 DEF Rewrites
    <3> QED BY <1>8, <2>2, <3>1 DEF ResolveInv, FilesSettled, IsKind
  <2> QED BY <2>1, <2>2
<1>13. FilesetsListed'
  <2>1. ASSUME NEW p \in DOMAIN packages, NEW i \in RulesOf(p)
        PROVE  /\ packages'[p].dir = packages[p].dir
               /\ p # visit \/ i # resolving => packages'[p].gen[i] = packages[p].gen[i]
    BY <1>2, <2>1 DEF Rewrites
  <2>2. ASSUME NEW p \in DOMAIN packages', NEW i \in RulesOf(p)', HasResolved(p, i)', Stays(p, i)'
        PROVE  LabelOf(p, i)' \in ToSet(filesets')
    <3>1. p \in DOMAIN packages /\ i \in RulesOf(p)
      BY <1>2, <2>2 DEF Rewrites
    <3>2. CASE p = visit /\ i = resolving
      BY <1>7, <1>9, <2>1, <2>2, <3>1, <3>2 DEF Stays, IsKind, LabelOf
    <3>3. CASE p # visit \/ i # resolving
      <4>1. HasResolved(p, i) /\ Stays(p, i) /\ LabelOf(p, i)' = LabelOf(p, i)
        BY <1>8, <2>1, <2>2, <3>1, <3>3 DEF Stays, IsKind, LabelOf
      <4>2. LabelOf(p, i) \in ToSet(filesets)
        BY <3>1, <4>1 DEF ResolveInv, FilesetsListed
      <4> QED BY <1>7, <4>1, <4>2
    <3> QED BY <3>2, <3>3
  <2>3. ASSUME NEW x \in ToSet(filesets')
        PROVE  \E p \in DOMAIN packages' : \E i \in RulesOf(p)' :
                  HasResolved(p, i)' /\ Stays(p, i)' /\ x = LabelOf(p, i)'
    <3>1. CASE x \in ToSet(filesets)
      <4>1. PICK p \in DOMAIN packages : \E i \in RulesOf(p) : HasResolved(p, i) /\ Stays(p, i) /\ x = LabelOf(p, i)
        BY <3>1 DEF ResolveInv, FilesetsListed
      <4>2. PICK i \in RulesOf(p) : HasResolved(p, i) /\ Stays(p, i) /\ x = LabelOf(p, i)
        BY <4>1
      <4>3. p \in DOMAIN packages' /\ i \in RulesOf(p)'
        BY <1>2, <4>1, <4>2 DEF Rewrites
      <4>4. CASE p # visit \/ i # resolving
        <5>1. HasResolved(p, i)' /\ Stays(p, i)' /\ x = LabelOf(p, i)'
          BY <1>8, <2>1, <4>2, <4>4 DEF Stays, IsKind, LabelOf
        <5> QED BY <4>3, <5>1
      <4>5. CASE p = visit /\ i = resolving
        <5>1. old.kind = "scala_files" /\ ~old.deleted /\ old.srcs # {}
          BY <4>2, <4>5 DEF ResolveInv, FilesSettled, Stays, IsKind, old
        <5>2. ~r.deleted
          BY <1>6, <5>1
        <5>3. HasResolved(p, i)' /\ Stays(p, i)' /\ x = LabelOf(p, i)'
          BY <1>5, <1>8, <1>9, <2>1, <4>2, <4>5, <5>1, <5>2 DEF Stays, IsKind, LabelOf, old
        <5> QED BY <4>3, <5>3
      <4> QED BY <4>4, <4>5
    <3>2. CASE x \notin ToSet(filesets)
      <4>1. r.kind = "scala_files" /\ ~r.deleted /\ x = <<packages[visit].dir, r.name>>
        BY <1>7, <3>2
      <4>2. PICK p \in DOMAIN packages : p = visit
        BY <1>4
      <4>3. PICK i \in RulesOf(p) : i = resolving
        BY <1>4, <4>2
      <4>4. HasResolved(p, i)' /\ packages'[p].gen[i] = r /\ packages'[p].dir = packages[visit].dir
        BY <1>8, <1>9, <2>1, <4>2, <4>3
      <4>5. Stays(p, i)' /\ x = LabelOf(p, i)'
        BY <4>1, <4>4 DEF Stays, IsKind, LabelOf
      <4>6. p \in DOMAIN packages' /\ i \in RulesOf(p)'
        BY <1>2 DEF Rewrites
      <4> QED BY <4>4, <4>5, <4>6
    <3> QED BY <3>1, <3>2
  <2> QED BY <2>2, <2>3 DEF FilesetsListed
<1>14. IndexesComplete'
  <2>1. SameLabels(packages, packages')
    BY <1>2, <1>4 DEF Rewrites, SameLabels
  <2>. SUFFICES ASSUME NEW p \in DOMAIN packages, NEW i \in RulesOf(p), HasResolved(p, i)',
                       packages'[p].gen[i].kind = "semanticdb_index"
                PROVE  packages'[p].gen[i].deps = SemanticdbIn(packages', packages'[p].gen[i].kinds)
    BY <1>2 DEF Rewrites, IndexesComplete, IsKind
  <2>2. packages'[p].gen[i].deps = SemanticdbIn(packages, packages'[p].gen[i].kinds)
    <3>1. CASE p = visit /\ i = resolving
      <4>1. r.deps = SemanticdbIn(packages, r.kinds)
        BY <1>5, <1>9, <3>1, SemanticdbOfPackages
      <4> QED BY <1>9, <3>1, <4>1
    <3>2. CASE p # visit \/ i # resolving
      <4>1. packages'[p].gen[i] = packages[p].gen[i]
        BY <1>2, <3>2 DEF Rewrites
      <4> QED BY <1>8, <3>2, <4>1 DEF ResolveInv, IndexesComplete, IsKind
    <3> QED BY <3>1, <3>2
  <2>. DEFINE kinds == packages'[p].gen[i].kinds
  <2>3. SemanticdbIn(packages', kinds) = SemanticdbIn(packages, kinds)
    <3>. HIDE DEF kinds
    <3> QED BY <1>4, <2>1, SemanticdbKept
  <2> QED BY <2>2, <2>3
<1>15. FilesetsComplete'
  <2>. DEFINE n == LastPackage
  <2>1. n = Len(packages) /\ n \in DOMAIN packages /\ LastPackage' = n /\ RulesOf(n)' = RulesOf(n) /\ ~(visit > n)
        /\ packages # <<>>
    BY <1>2, <1>4 DEF Rewrites, LastPackage
  <2>. SUFFICES ASSUME NEW i \in RulesOf(n), visit = n, pass = 2, i < resolving + 1,
                       packages'[n].gen[i].kind = "scala_fileset"
                PROVE  packages'[n].gen[i].deps = ToSet(filesets')
    BY <1>3, <2>1 DEF FilesetsComplete, ResolvedLast, IsKind
  <2>2. ToSet(filesets') = ToSet(filesets)
    <3>. SUFFICES ASSUME r.kind = "scala_files", ~r.deleted
                  PROVE  <<packages[visit].dir, r.name>> \in ToSet(filesets)
      BY <1>7
    <3>1. HasResolved(visit, resolving) /\ Stays(visit, resolving) /\ LabelOf(visit, resolving) = <<packages[visit].dir, r.name>>
      BY <1>4, <1>5, <1>6 DEF HasResolved, Stays, IsKind, LabelOf, old
    <3> QED BY <1>4, <3>1 DEF ResolveInv, FilesetsListed
  <2>3. CASE i = resolving
    BY <1>5, <1>9, <2>2, <2>3
  <2>4. CASE i # resolving
    <3>1. packages'[n].gen[i] = packages[n].gen[i]
      BY <1>2, <2>1, <2>4 DEF Rewrites
    <3>2. i < resolving
      <4>1. IsSeq(packages[n].gen)
        BY <1>1, <2>1 DEF PackagesType, IsPackage
      <4>2. i \in 1 .. Len(packages[n].gen) /\ Len(packages[n].gen) \in Nat
        BY <4>1, SeqAppended DEF RulesOf
      <4> QED BY <1>4, <2>4, <4>2
    <3> QED BY <2>1, <2>2, <3>1, <3>2 DEF ResolveInv, FilesetsComplete, ResolvedLast, IsKind
  <2> QED BY <2>3, <2>4
<1>16. FilegroupsComplete'
  <2>1. Visited' = Visited
    BY <1>2 DEF Visited, Rewrites
  <2>2. \A d \in Dir : HasFiles(d)' = HasFiles(d)
    BY <1>3 DEF HasFiles
  <2>3. Visited \subseteq Dir
    BY <1>1 DEF Visited, PackagesType, IsPackage
  <2> QED BY <1>3, <2>1, <2>2, <2>3 DEF ResolveInv, FilegroupsComplete
<1> QED BY <1>10, <1>12, <1>13, <1>14, <1>15, <1>16 DEF ResolveInv
-----------------------------------------------------------------------------
(***************************************************************************)
(* The root is above every directory.                                      *)
(***************************************************************************)
LEMMA RootIsAbove ==
    ASSUME NEW r \in Dir, Parent[r] = r, NEW x \in Dir
    PROVE  r \in Ancestors[x]
<1>. DEFINE n == Len(Order)
            V == [Dir -> SUBSET Dir]
            base == [d \in Dir |-> {d}]
            over(v) == [d \in Dir |-> v[d] \cup {Parent[y] : y \in v[d]}]
            IsUp(f) == f = [i \in 0 .. n |-> IF i = 0 THEN base ELSE over(f[i - 1])]
            step == [k \in Nat |-> [v \in V |-> over(v)]]
            up == CHOOSE f : IsUp(f)
<1>1. /\ n \in Nat /\ DOMAIN Order = 1 .. n /\ \A i \in 1 .. n : Order[i] \in Dir
      /\ Parent \in [Dir -> Dir] /\ ToSet(Order) = Dir
      /\ \A d \in Dir : Parent[d] = d => d = r
  BY OrderType, ConfigAssumption, PackageAssumption
<1>2. base \in V
  OBVIOUS
<1>3. ASSUME NEW v \in V
      PROVE  over(v) \in V
  BY <1>1
<1>4. step \in [Nat -> [V -> V]]
  <2>. HIDE DEF V, over
  <2> QED BY <1>3
<1>. HIDE DEF step, V, over, base, n
<1>5. PICK g : IsRecursion(g, V, base, step, n)
  BY <1>1, <1>2, <1>4, RecursionExists
<1>6. IsUp(g)
  <2>1. ASSUME NEW i \in 0 .. n, i # 0
        PROVE  g[i] = over(g[i - 1])
    <3>1. i - 1 \in 0 .. n /\ i - 1 < n /\ (i - 1) + 1 = i /\ i - 1 \in Nat
      BY <1>1, <2>1
    <3>2. g[i - 1] \in V /\ g[(i - 1) + 1] = step[i - 1][g[i - 1]]
      BY <1>5, <3>1 DEF IsRecursion
    <3> QED BY <3>1, <3>2 DEF step
  <2> QED BY <1>5, <2>1 DEF IsRecursion
<1>7. IsUp(up)
  <2>. HIDE DEF IsUp
  <2> QED BY <1>6
<1>8. Ancestors = up[n]
  BY DEF Ancestors, over, base, n
<1>. HIDE DEF up
<1>9. up[0] = base /\ \A k \in 0 .. n : k < n => up[k + 1] = over(up[k])
  <2>1. \A k \in 0 .. n : k < n => k + 1 \in 0 .. n /\ k + 1 # 0 /\ (k + 1) - 1 = k
    BY <1>1
  <2>2. 0 \in 0 .. n
    BY <1>1
  <2> QED BY <1>7, <2>1, <2>2
<1>10. ASSUME NEW k \in 0 .. n, k < n, NEW d \in Dir
       PROVE  up[k + 1][d] = up[k][d] \cup {Parent[y] : y \in up[k][d]}
  BY <1>9, <1>10 DEF over
\* A directory is above itself, and what is above its parent is above it.
<1>11. \A k \in 0 .. n : \A d \in Dir : d \in up[k][d]
  <2>. DEFINE S == {k \in 0 .. n : \A d \in Dir : d \in up[k][d]}
  <2>1. 0 \in S
    BY <1>1, <1>9 DEF base
  <2>2. ASSUME NEW k \in 0 .. n, k < n, k \in S
        PROVE  k + 1 \in S
    <3>1. k + 1 \in 0 .. n
      BY <1>1, <2>2
    <3> QED BY <1>10, <2>2, <3>1
  <2>. HIDE DEF S
  <2>3. 0 .. n \subseteq S
    BY <1>1, <2>1, <2>2, SetInductionUpTo
  <2> QED BY <2>3 DEF S
<1>12. \A k \in 0 .. n : k < n => \A d \in Dir : up[k][Parent[d]] \subseteq up[k + 1][d]
  <2>. DEFINE S == {k \in 0 .. n : k < n => \A d \in Dir : up[k][Parent[d]] \subseteq up[k + 1][d]}
  <2>1. 0 \in S
    <3>1. 0 \in 0 .. n
      BY <1>1
    <3>2. ASSUME NEW d \in Dir, 0 < n
          PROVE  up[0][Parent[d]] \subseteq up[0 + 1][d]
      <4>1. up[0][Parent[d]] = {Parent[d]} /\ up[0][d] = {d}
        BY <1>1, <1>9 DEF base
      <4> QED BY <1>10, <3>1, <3>2, <4>1
    <3> QED BY <3>1, <3>2
  <2>2. ASSUME NEW k \in 0 .. n, k < n, k \in S
        PROVE  k + 1 \in S
    <3>1. k + 1 \in 0 .. n
      BY <1>1, <2>2
    <3>2. ASSUME NEW d \in Dir, k + 1 < n
          PROVE  up[k + 1][Parent[d]] \subseteq up[(k + 1) + 1][d]
      <4>1. Parent[d] \in Dir /\ up[k][Parent[d]] \subseteq up[k + 1][d]
        BY <1>1, <2>2
      <4>2. up[k + 1][Parent[d]] = up[k][Parent[d]] \cup {Parent[y] : y \in up[k][Parent[d]]}
        BY <1>10, <2>2, <4>1
      <4>3. up[(k + 1) + 1][d] = up[k + 1][d] \cup {Parent[y] : y \in up[k + 1][d]}
        BY <1>10, <3>1, <3>2
      <4> QED BY <4>1, <4>2, <4>3
    <3> QED BY <3>1, <3>2
  <2>. HIDE DEF S
  <2>3. 0 .. n \subseteq S
    BY <1>1, <2>1, <2>2, SetInductionUpTo
  <2> QED BY <2>3 DEF S
<1>13. \A k \in 0 .. n : \A i \in 1 .. k : r \in up[k][Order[i]]
  <2>. DEFINE S == {k \in 0 .. n : \A i \in 1 .. k : r \in up[k][Order[i]]}
  <2>1. 0 \in S
    BY <1>1
  <2>2. ASSUME NEW k \in 0 .. n, k < n, k \in S
        PROVE  k + 1 \in S
    <3>1. k + 1 \in 0 .. n /\ k \in Nat
      BY <1>1, <2>2
    <3>2. ASSUME NEW i \in 1 .. k + 1
          PROVE  r \in up[k + 1][Order[i]]
      <4>1. i \in 1 .. n /\ i \in DOMAIN Order /\ Order[i] \in Dir
        BY <1>1, <2>2, <3>1
      <4>2. CASE Parent[Order[i]] = Order[i]
        BY <1>1, <1>11, <3>1, <4>1, <4>2
      <4>3. CASE Parent[Order[i]] # Order[i]
        <5>1. PICK j \in 1 .. (i - 1) : j \in DOMAIN Order /\ Order[j] = Parent[Order[i]]
          BY <4>1, <4>3, OrderedParents
        <5>2. j \in 1 .. k
          BY <3>1, <5>1
        <5>3. r \in up[k][Parent[Order[i]]]
          BY <2>2, <5>1, <5>2
        <5> QED BY <1>12, <2>2, <4>1, <5>3
      <4> QED BY <4>2, <4>3
    <3> QED BY <3>1, <3>2
  <2>. HIDE DEF S
  <2>3. 0 .. n \subseteq S
    BY <1>1, <2>1, <2>2, SetInductionUpTo
  <2> QED BY <2>3 DEF S
<1>14. PICK i \in 1 .. n : Order[i] = x
  BY <1>1 DEF ToSet
<1>15. n \in 0 .. n
  BY <1>1
<1> QED BY <1>8, <1>13, <1>14, <1>15

\* So it is visited last.
LEMMA RootIsLast ==
    ASSUME NEW r \in Dir, Parent[r] = r, MayGenerate(r)
    PROVE  Visited \cup {r} = Dir \cup Visited
BY RootIsAbove DEF MayGenerate
-----------------------------------------------------------------------------
(***************************************************************************)
(* The other steps.                                                        *)
(***************************************************************************)
LEMMA SeqIsSeq ==
    ASSUME NEW T, NEW s \in Seq(T)
    PROVE  IsSeq(s)
<1>1. \A i \in 1 .. Len(s) : s[i] \in ToSet(s)
  BY DEF ToSet
<1> QED BY <1>1 DEF IsSeq

LEMMA PackagesLength ==
    ASSUME PackagesType
    PROVE  /\ DOMAIN packages = 1 .. Len(packages) /\ Len(packages) \in Nat
           /\ packages # <<>> => LastPackage \in DOMAIN packages /\ LastPackage > 0
           /\ \A p \in DOMAIN packages : RulesOf(p) = 1 .. Len(packages[p].gen) /\ Len(packages[p].gen) \in Nat
<1>1. packages \in Seq(ToSet(packages))
  BY DEF PackagesType, IsSeq
<1>2. packages # <<>> => Len(packages) # 0
  BY <1>1, EmptySeq
<1>3. \A p \in DOMAIN packages : packages[p].gen \in Seq(ToSet(packages[p].gen))
  BY DEF PackagesType, IsPackage, IsSeq
<1> QED BY <1>1, <1>2, <1>3 DEF LastPackage, RulesOf

LEMMA FreshPackageType ==
    ASSUME NEW d \in Dir, NEW pkg \in FreshPackage(d)
    PROVE  IsPackage(pkg) /\ pkg.dir = d /\ \A i \in DOMAIN pkg.gen : ~pkg.gen[i].deleted
<1>1. /\ pkg.gen \in Seq(FreshRule(d)) /\ pkg.labels \in Seq(LabelsFor(d)) /\ pkg.dir = d
      /\ pkg \in [dir : Dir, gen : {pkg.gen}, files : {pkg.files}, labels : {pkg.labels},
                  managed : {pkg.managed}, total : {pkg.total}]
  BY DEF FreshPackage
<1>2. IsSeq(pkg.gen) /\ IsSeq(pkg.labels)
  BY <1>1, SeqIsSeq
<1>3. ASSUME NEW i \in DOMAIN pkg.gen
      PROVE  IsRule(pkg.gen[i]) /\ ~pkg.gen[i].deleted
  <2>1. pkg.gen[i] \in FreshRule(d)
    BY <1>1, ElementOfSeq
  <2>. DEFINE r == pkg.gen[i]
  <2>2. r \in FreshRule(d)
    BY <2>1
  <2>. HIDE DEF r
  <2>3. IsRule(r) /\ ~r.deleted
    BY <2>2 DEF FreshRule, IsRule
  <2> QED BY <2>3 DEF r
<1> QED BY <1>1, <1>2, <1>3 DEF IsPackage

\* Nothing is resolved yet.
LEMMA NothingResolved ==
    ASSUME PackagesType, visit = 0, NEW p \in DOMAIN packages, NEW i
    PROVE  ~HasResolved(p, i)
BY PackagesLength DEF PackagesType, HasResolved

LEMMA GenerateRulesStep ==
    ASSUME GenerateRules, workspace \in Workspaces
    PROVE  \E d \in Dir :
              /\ MayGenerate(d) /\ GenerateFilegroup(d)
              /\ \/ packages' = packages
                 \/ \E pkg \in FreshPackage(d) : packages' = Append(packages, pkg)
<1>1. PICK d \in Dir : /\ MayGenerate(d) /\ GenerateFilegroup(d)
                       /\ packages' \in {packages, Append(packages, NewPackage(d)), Append(packages, GeneratedPackage(d))}
  BY DEF GenerateRules
<1>2. workspace.build[d].existing \in Seq(ExistingRule)
  BY PackageAssumption
<1> QED BY <1>1, <1>2, NewPackageType, GeneratedPackageType

LEMMA FilegroupsGenerated ==
    ASSUME PackagesType, FilegroupsComplete, NEW d \in Dir, MayGenerate(d), GenerateFilegroup(d),
           Visited' \in {Visited, Visited \cup {d}}, visit' = 0, workspace' = workspace
    PROVE  /\ FilegroupsComplete'
           /\ filegroupDeps' \in Seq(Dir)
           /\ filegroups' \in [Dir -> {<<>>} \cup {<<deps>> : deps \in SUBSET Dir}]
<1>1. /\ filegroupDeps \in Seq(Dir) /\ ToSet(filegroupDeps) \in SUBSET Dir
      /\ filegroups \in [Dir -> {<<>>} \cup {<<deps>> : deps \in SUBSET Dir}]
  BY DEF PackagesType, ToSet
<1>2. Visited \subseteq Dir /\ d \notin Visited
  BY DEF PackagesType, IsPackage, Visited, MayGenerate
<1>3. \A x \in Dir : HasFiles(x)' = HasFiles(x)
  BY DEF HasFiles
<1>4. /\ filegroupDeps' = IF HasFiles(d) /\ Parent[d] # d THEN Append(filegroupDeps, d) ELSE filegroupDeps
      /\ filegroups' = IF ~HasFiles(d) /\ (Parent[d] # d \/ filegroupDeps = <<>>) THEN filegroups
                       ELSE [filegroups EXCEPT ![d] = IF Parent[d] = d THEN <<ToSet(filegroupDeps)>> ELSE <<{}>>]
  BY DEF GenerateFilegroup
<1>5. /\ filegroupDeps' \in Seq(Dir)
      /\ ToSet(filegroupDeps') = ToSet(filegroupDeps) \cup (IF HasFiles(d) /\ Parent[d] # d THEN {d} ELSE {})
  <2>1. IsSeq(filegroupDeps)
    BY <1>1, SeqIsSeq
  <2> QED BY <1>1, <1>4, <2>1, SeqAppended
<1>6. filegroups' \in [Dir -> {<<>>} \cup {<<deps>> : deps \in SUBSET Dir}]
  <2>1. (IF Parent[d] = d THEN <<ToSet(filegroupDeps)>> ELSE <<{}>>) \in {<<deps>> : deps \in SUBSET Dir}
    BY <1>1
  <2> QED BY <1>1, <1>4, <2>1
<1>7. \A x \in Visited' : HasFiles(x)' /\ Parent[x] # x => x \in ToSet(filegroupDeps')
  BY <1>2, <1>3, <1>5 DEF FilegroupsComplete
<1>8. ASSUME NEW r \in Visited', Parent[r] = r
      PROVE  /\ Visited' = Dir
             /\ \A x \in Dir : HasFiles(x)' /\ Parent[x] # x => filegroups'[r] # <<>> /\ x \in filegroups'[r][1]
  <2>1. r \notin Visited
    BY <1>2, <1>8 DEF FilegroupsComplete
  <2>2. r = d /\ Visited' = Visited \cup {d} /\ r \in Dir
    BY <2>1
  <2>3. Visited' = Dir
    BY <1>2, <1>8, <2>2, RootIsLast
  <2>4. ASSUME NEW x \in Dir, HasFiles(x), Parent[x] # x
        PROVE  filegroups'[r] # <<>> /\ x \in filegroups'[r][1]
    <3>1. x \in ToSet(filegroupDeps)
      BY <1>8, <2>2, <2>3, <2>4 DEF FilegroupsComplete
    <3>2. filegroupDeps # <<>>
      BY <3>1 DEF ToSet
    <3>3. filegroups'[d] = <<ToSet(filegroupDeps)>>
      BY <1>1, <1>4, <1>8, <2>2, <3>2
    <3> QED BY <2>2, <3>1, <3>3
  <2> QED BY <1>3, <2>3, <2>4
<1>9. FilegroupsComplete'
  BY <1>7, <1>8 DEF FilegroupsComplete
<1> QED BY <1>5, <1>6, <1>9

LEMMA ResolveInvGenerate ==
    ASSUME ResolveInv, GenerateRules, workspace \in Workspaces
    PROVE  ResolveInv'
<1>1. PICK d \in Dir :
          /\ MayGenerate(d) /\ GenerateFilegroup(d)
          /\ \/ packages' = packages
             \/ \E pkg \in FreshPackage(d) : packages' = Append(packages, pkg)
  BY GenerateRulesStep
<1>2. /\ visit = 0 /\ visit' = 0 /\ resolving' = resolving /\ pass' = pass
      /\ filesets' = filesets /\ workspace' = workspace
  BY DEF GenerateRules
<1>3. PackagesType /\ resolving = 1 /\ pass = 1
  BY <1>2 DEF ResolveInv, PackagesType
<1>4. /\ IsSeq(packages')
      /\ \A p \in DOMAIN packages' :
            /\ IsPackage(packages'[p])
            /\ \A i \in DOMAIN packages'[p].gen :
                packages'[p].gen[i].kind = "scala_files" => ~packages'[p].gen[i].deleted
      /\ Visited' \in {Visited, Visited \cup {d}}
  <2>1. \A p \in DOMAIN packages :
            /\ IsPackage(packages[p])
            /\ \A i \in DOMAIN packages[p].gen : packages[p].gen[i].kind = "scala_files" => ~packages[p].gen[i].deleted
    BY <1>2, <1>3, NothingResolved DEF ResolveInv, PackagesType, FilesSettled, RulesOf, IsKind
  <2>2. CASE packages' = packages
    BY <1>3, <2>1, <2>2 DEF PackagesType, Visited
  <2>3. CASE \E pkg \in FreshPackage(d) : packages' = Append(packages, pkg)
    <3>1. PICK pkg \in FreshPackage(d) : packages' = Append(packages, pkg)
      BY <2>3
    <3>2. IsPackage(pkg) /\ pkg.dir = d /\ \A i \in DOMAIN pkg.gen : ~pkg.gen[i].deleted
      BY FreshPackageType
    <3>3. /\ IsSeq(packages') /\ Len(packages) \in Nat /\ DOMAIN packages = 1 .. Len(packages)
          /\ DOMAIN packages' = 1 .. Len(packages) + 1
          /\ packages'[Len(packages) + 1] = pkg /\ \A p \in DOMAIN packages : packages'[p] = packages[p]
      BY <1>3, <3>1, SeqAppended DEF PackagesType
    <3>4. \A p \in DOMAIN packages' : p \in DOMAIN packages \/ p = Len(packages) + 1
      BY <3>3
    <3>5. Len(packages) + 1 \in DOMAIN packages' /\ \A p \in DOMAIN packages : p \in DOMAIN packages'
      BY <3>3
    <3>6. Visited' = Visited \cup {d}
      BY <3>2, <3>3, <3>4, <3>5 DEF Visited
    <3> QED BY <2>1, <3>2, <3>3, <3>4, <3>6
  <2> QED BY <1>1, <2>2, <2>3
<1>5. FilegroupsComplete' /\ filegroupDeps' \in Seq(Dir)
      /\ filegroups' \in [Dir -> {<<>>} \cup {<<deps>> : deps \in SUBSET Dir}]
  BY <1>1, <1>2, <1>3, <1>4, FilegroupsGenerated DEF ResolveInv
<1>6. PackagesType'
  BY <1>2, <1>3, <1>4, <1>5 DEF PackagesType
<1>7. ASSUME NEW p \in DOMAIN packages', NEW i
      PROVE  ~HasResolved(p, i)'
  <2>1. DOMAIN packages' = 1 .. Len(packages') /\ Len(packages') \in Nat
    BY <1>4, SeqAppended
  <2> QED BY <1>2, <1>3, <2>1 DEF HasResolved
<1>8. FilesSettled'
  BY <1>4, <1>7 DEF FilesSettled, RulesOf, IsKind
<1>9. FilesetsListed'
  <2>1. ToSet(filesets) = {}
    BY <1>2, <1>3, NothingResolved DEF ResolveInv, FilesetsListed
  <2> QED BY <1>2, <1>7, <2>1 DEF FilesetsListed
<1>10. IndexesComplete'
  BY <1>7 DEF IndexesComplete
<1>11. FilesetsComplete'
  <2>. SUFFICES ASSUME packages' # <<>>
                PROVE  \A i : ~ResolvedLast(i)'
    BY DEF FilesetsComplete
  <2>1. Len(packages') \in Nat /\ Len(packages') # 0
    BY <1>4, EmptySeq DEF IsSeq
  <2> QED BY <1>2, <1>3, <2>1 DEF ResolvedLast, LastPackage
<1> QED BY <1>5, <1>6, <1>8, <1>9, <1>10, <1>11 DEF ResolveInv

\* What was resolved remains so, and nothing else changes.
LEMMA ResolveInvMoves ==
    ASSUME ResolveInv, UNCHANGED <<workspace, packages, filesets, filegroupDeps, filegroups>>,
           visit' \in Nat, resolving' \in Nat \ {0}, pass' \in {1, 2}, visit' = 0 => resolving' = 1 /\ pass' = 1,
           \A p \in DOMAIN packages : \A i \in RulesOf(p) : HasResolved(p, i)' = HasResolved(p, i),
           packages # <<>> => \A i \in RulesOf(LastPackage) : ResolvedLast(i)' => ResolvedLast(i),
           visit' > 0 => Visited = Dir
    PROVE  ResolveInv'
<1>1. PackagesType'
  BY DEF ResolveInv, PackagesType
<1>2. FilesSettled'
  BY DEF ResolveInv, FilesSettled, RulesOf, IsKind
<1>3. FilesetsListed'
  BY DEF ResolveInv, FilesetsListed, RulesOf, Stays, IsKind, LabelOf
<1>4. IndexesComplete'
  BY DEF ResolveInv, IndexesComplete, RulesOf, IsKind
<1>5. FilesetsComplete'
  BY DEF ResolveInv, FilesetsComplete, RulesOf, IsKind, LastPackage
<1>6. FilegroupsComplete'
  BY DEF ResolveInv, FilegroupsComplete, Visited, HasFiles
<1> QED BY <1>1, <1>2, <1>3, <1>4, <1>5, <1>6 DEF ResolveInv

LEMMA ResolveInvFinalize ==
    ASSUME ResolveInv, Finalize
    PROVE  ResolveInv'
<1>1. /\ UNCHANGED <<workspace, packages, filesets, filegroupDeps, filegroups>>
      /\ visit \in DOMAIN packages /\ resolving \notin RulesOf(visit)
      /\ resolving' = 1
      /\ \/ pass = 1 /\ pass' = 2 /\ visit' = visit
         \/ pass # 1 /\ pass' = 1 /\ visit' = visit + 1
  BY DEF Finalize, Resolving, RulesOf, LastPass, filegroupVars
<1>2. /\ visit \in Nat /\ resolving \in Nat \ {0} /\ pass \in {1, 2}
      /\ DOMAIN packages = 1 .. Len(packages) /\ Len(packages) \in Nat
      /\ \A p \in DOMAIN packages : RulesOf(p) = 1 .. Len(packages[p].gen) /\ Len(packages[p].gen) \in Nat
  BY PackagesLength DEF ResolveInv, PackagesType
<1>3. \A i \in RulesOf(visit) : i < resolving
  BY <1>1, <1>2
<1>4. \A p \in DOMAIN packages : \A i \in RulesOf(p) : HasResolved(p, i)' = HasResolved(p, i)
  <2>. SUFFICES ASSUME NEW p \in DOMAIN packages, NEW i \in RulesOf(p)
                PROVE  HasResolved(p, i)' = HasResolved(p, i)
    OBVIOUS
  <2>1. p \in Nat /\ i \in Nat /\ i > 0 /\ (p = visit => i < resolving)
    BY <1>2, <1>3
  <2> QED BY <1>1, <1>2, <2>1 DEF HasResolved
<1>5. packages # <<>> => \A i \in RulesOf(LastPackage) : ResolvedLast(i)' => ResolvedLast(i)
  <2>. SUFFICES ASSUME packages # <<>>, NEW i \in RulesOf(LastPackage), ResolvedLast(i)'
                PROVE  ResolvedLast(i)
    OBVIOUS
  <2>1. LastPackage \in DOMAIN packages /\ LastPackage' = LastPackage
    BY <1>1, PackagesLength DEF ResolveInv, LastPackage
  <2>2. LastPackage \in Nat /\ i \in Nat /\ i > 0 /\ (LastPackage = visit => i < resolving)
    BY <1>2, <1>3, <2>1
  <2> QED BY <1>1, <1>2, <2>1, <2>2 DEF ResolvedLast
<1>6. visit' > 0 => Visited = Dir
  BY <1>1, <1>2 DEF ResolveInv, FilegroupsComplete
<1> QED BY <1>1, <1>2, <1>4, <1>5, <1>6, ResolveInvMoves

LEMMA ResolveInvStart ==
    ASSUME ResolveInv, StartResolving
    PROVE  ResolveInv'
<1>1. /\ UNCHANGED <<workspace, packages, filesets, filegroupDeps, filegroups>>
      /\ visit = 0 /\ visit' = 1 /\ resolving' = resolving /\ pass' = pass /\ Visited = Dir
  BY DEF StartResolving, filegroupVars
<1>2. /\ resolving = 1 /\ pass = 1
      /\ DOMAIN packages = 1 .. Len(packages) /\ Len(packages) \in Nat
      /\ \A p \in DOMAIN packages : RulesOf(p) = 1 .. Len(packages[p].gen)
  BY <1>1, PackagesLength DEF ResolveInv, PackagesType
<1>3. \A p \in DOMAIN packages : \A i \in RulesOf(p) : HasResolved(p, i)' = HasResolved(p, i)
  BY <1>1, <1>2 DEF HasResolved
<1>4. packages # <<>> => \A i \in RulesOf(LastPackage) : ResolvedLast(i)' => ResolvedLast(i)
  <2>1. packages # <<>> => LastPackage \in DOMAIN packages /\ LastPackage' = LastPackage
    BY <1>1, PackagesLength DEF ResolveInv, LastPackage
  <2> QED BY <1>1, <1>2, <2>1 DEF ResolvedLast
<1> QED BY <1>1, <1>2, <1>3, <1>4, ResolveInvMoves

LEMMA ResolveInvInit == PackageInit => ResolveInv
<1>. SUFFICES ASSUME PackageInit
              PROVE  ResolveInv
  OBVIOUS
<1>1. /\ packages = <<>> /\ visit = 0 /\ resolving = 1 /\ pass = 1 /\ filesets = <<>>
      /\ filegroupDeps = <<>> /\ filegroups = [d \in Dir |-> <<>>]
  BY DEF PackageInit
<1>2. DOMAIN packages = {} /\ IsSeq(packages) /\ ToSet(filesets) = {} /\ IsSeq(filesets) /\ Visited = {}
  <2>1. <<>> \in Seq({}) /\ DOMAIN <<>> = {}
    OBVIOUS
  <2>2. IsSeq(<<>>)
    BY <2>1, SeqIsSeq
  <2> QED BY <1>1, <2>1, <2>2 DEF ToSet, Visited
<1>3. PackagesType
  BY <1>1, <1>2 DEF PackagesType
<1>4. FilesSettled /\ FilesetsListed /\ IndexesComplete /\ FilesetsComplete
  BY <1>1, <1>2 DEF FilesSettled, FilesetsListed, IndexesComplete, FilesetsComplete
<1>5. FilegroupsComplete
  BY <1>1, <1>2 DEF FilegroupsComplete
<1> QED BY <1>3, <1>4, <1>5 DEF ResolveInv

\* The steps that leave packages and rules alone.
ResolveFrame ==
    UNCHANGED <<workspace, packages, visit, resolving, pass, filesets, filegroupDeps, filegroups>>

LEMMA ResolveSteps ==
    ASSUME [PackageNext]_<<vars, packageVars>>
    PROVE  GenerateRules \/ StartResolving \/ Resolve \/ Finalize \/ ResolveFrame
<1>1. CASE RegisterExistingRule
  BY <1>1 DEF RegisterExistingRule, ResolveFrame, filegroupVars
<1>2. CASE ConfigureDirectory
  BY <1>2 DEF ConfigureDirectory, ResolveFrame, filegroupVars
<1>3. CASE ParseRuleDirective
  BY <1>3 DEF ParseRuleDirective, ResolveFrame, filegroupVars
<1>4. CASE ParseListDirective
  BY <1>4 DEF ParseListDirective, ResolveFrame, packageVars, filegroupVars
<1>5. CASE ConfigureReturns
  BY <1>5 DEF ConfigureReturns, ResolveFrame, packageVars, filegroupVars
<1>6. CASE UNCHANGED <<vars, packageVars>>
  BY <1>6 DEF ResolveFrame, packageVars, filegroupVars
<1> QED BY <1>1, <1>2, <1>3, <1>4, <1>5, <1>6 DEF PackageNext

LEMMA ResolveInvFramed ==
    ASSUME ResolveInv, ResolveFrame
    PROVE  ResolveInv'
BY ResolveInvMoves DEF ResolveFrame, ResolveInv, PackagesType, HasResolved, ResolvedLast, LastPackage, FilegroupsComplete

\* While the rules of one package after the other are resolved, twice, the lists that
\* aggregate them have what was resolved so far.
THEOREM ResolveInvariance == PackageSpec => []ResolveInv
<1>1. PackageInit => ResolveInv
  BY ResolveInvInit
<1>2. ResolveInv /\ RulesInv /\ [PackageNext]_<<vars, packageVars>> => ResolveInv'
  BY ResolveSteps, ResolveInvGenerate, ResolveInvStart, ResolveInvResolve, ResolveInvFinalize, ResolveInvFramed
     DEF RulesInv, RulesType
<1> QED BY <1>1, <1>2, RulesInvariance, PTL DEF PackageSpec

\* Once all packages are resolved, the fileset of the root has every scala_files rule that
\* stays, those rules have all the files of their packages, the index of the root every
\* rule that alone defines a name, and its filegroup those of all directories.
THEOREM Aggregated == PackageSpec => []AggregatesComplete
<1>1. ResolveInv => AggregatesComplete
  <2>. SUFFICES ASSUME ResolveInv, visit > Len(packages), packages # <<>>
                PROVE  AggregatesComplete
    BY DEF AggregatesComplete
  <2>1. /\ DOMAIN packages = 1 .. Len(packages) /\ Len(packages) \in DOMAIN packages /\ Len(packages) \in Nat
        /\ visit \in Nat /\ visit > 0 /\ LastPackage = Len(packages)
    BY PackagesLength DEF ResolveInv, PackagesType, LastPackage
  <2>2. \A p \in DOMAIN packages : \A i \in RulesOf(p) : HasResolved(p, i)
    BY <2>1 DEF HasResolved
  <2>. DEFINE kept == UNION {{<<packages[p].dir, packages[p].gen[i].name>> :
                          i \in {j \in DOMAIN packages[p].gen :
                                   packages[p].gen[j].kind = "scala_files" /\ ~packages[p].gen[j].deleted}} :
                          p \in DOMAIN packages}
              root == packages[Len(packages)]
  <2>3. kept = ToSet(filesets)
    BY <2>2 DEF ResolveInv, FilesetsListed, Stays, IsKind, LabelOf, RulesOf
  <2>4. \A p \in DOMAIN packages : IsSeq(packages[p].labels)
    BY DEF ResolveInv, PackagesType, IsPackage
\* The only rule that defines a name owns it.
  <2>5. ASSUME NEW p \in DOMAIN packages, NEW k \in DOMAIN packages[p].labels, OnlyProvider(p, k)
        PROVE  OwnsAmong(packages, p, k)
    <3>1. PICK n \in packages[p].labels[k].names :
            \A q \in DOMAIN packages : \A j \in DOMAIN packages[q].labels :
                n \in packages[q].labels[j].names => <<q, j>> = <<p, k>>
      BY <2>5 DEF OnlyProvider
    <3>2. DOMAIN packages[p].labels = 1 .. Len(packages[p].labels) /\ Len(packages[p].labels) \in Nat
      BY <2>4, SeqAppended
    <3>3. ASSUME NEW j \in 1 .. (k - 1)
          PROVE  n \notin packages[p].labels[j].names
      <4>1. j \in DOMAIN packages[p].labels /\ j # k
        BY <3>2
      <4> QED BY <3>1, <4>1
    <3>4. ASSUME NEW q \in 1 .. (p - 1), NEW l \in ToSet(packages[q].labels)
          PROVE  n \notin l.names
      <4>1. q \in DOMAIN packages /\ q # p
        BY <2>1
      <4>2. PICK j \in DOMAIN packages[q].labels : l = packages[q].labels[j]
        BY DEF ToSet
      <4> QED BY <3>1, <4>1, <4>2
    <3> QED BY <3>3, <3>4 DEF OwnsAmong
  <2>6. ASSUME NEW kinds, NEW p \in DOMAIN packages, NEW k \in DOMAIN packages[p].labels,
               OnlyProvider(p, k), packages[p].labels[k].kind \in kinds
        PROVE  <<packages[p].dir, packages[p].labels[k].label>> \in SemanticdbIn(packages, kinds)
    <3>1. OwnsAmong(packages, p, k)
      BY <2>5, <2>6
    <3> QED BY <2>6, <3>1 DEF SemanticdbIn
  <2>. HIDE DEF kept
  <2>7. ASSUME NEW i \in DOMAIN root.gen
        PROVE  /\ root.gen[i].kind = "scala_fileset" => root.gen[i].deps = kept
               /\ root.gen[i].kind = "semanticdb_index" => root.gen[i].deps = SemanticdbIn(packages, root.gen[i].kinds)
    <3>1. i \in RulesOf(LastPackage) /\ ResolvedLast(i)
      BY <2>1 DEF RulesOf, ResolvedLast
    <3> QED BY <2>1, <2>2, <2>3, <3>1 DEF ResolveInv, FilesetsComplete, IndexesComplete, IsKind
  <2>8. ASSUME NEW i \in DOMAIN root.gen, root.gen[i].kind = "semanticdb_index",
               NEW p \in DOMAIN packages, NEW k \in DOMAIN packages[p].labels,
               OnlyProvider(p, k), packages[p].labels[k].kind \in root.gen[i].kinds
        PROVE  <<packages[p].dir, packages[p].labels[k].label>> \in root.gen[i].deps
    <3>. DEFINE kinds == root.gen[i].kinds
    <3>1. <<packages[p].dir, packages[p].labels[k].label>> \in SemanticdbIn(packages, kinds)
      <4>1. packages[p].labels[k].kind \in kinds
        BY <2>8
      <4>. HIDE DEF kinds
      <4> QED BY <2>6, <2>8, <4>1
    <3> QED BY <2>7, <2>8, <3>1
  <2>9. \A d \in Dir : HasFiles(d) /\ Parent[d] # d =>
            \A r \in Dir : Parent[r] = r => filegroups[r] # <<>> /\ d \in filegroups[r][1]
    BY <2>1 DEF ResolveInv, FilegroupsComplete
  <2>10. ASSUME NEW p \in DOMAIN packages, NEW i \in DOMAIN packages[p].gen,
                packages[p].gen[i].kind = "scala_files", ~packages[p].gen[i].deleted
         PROVE  packages[p].files \subseteq packages[p].gen[i].srcs
    BY <2>2, <2>10 DEF ResolveInv, FilesSettled, IsKind, RulesOf
  <2> QED BY <2>7, <2>8, <2>9, <2>10 DEF AggregatesComplete, kept
<1> QED BY <1>1, ResolveInvariance, PTL

-----------------------------------------------------------------------------
(***************************************************************************)
(* The srcs of a rule, as the code reads them and as Bazel does.           *)
(***************************************************************************)
NeedsOf(globals) == [e \in Expr |-> Needs(globals, e)]

LEMMA ExprsBuilt ==
    ASSUME NEW globals, Grounded(globals), IsFiniteSet(Expr)
    PROVE  \E built : IsBuilt(built, Expr, NeedsOf(globals), Cardinality(Expr))
<1>. DEFINE m == Cardinality(Expr)
            IsRec(b) == b = [n \in 0 .. m |->
                                IF n = 0 THEN {}
                                ELSE LET parts == b[n - 1] IN {e \in Expr : Needs(globals, e) \subseteq parts}]
            built == CHOOSE b : IsRec(b)
            step == [n \in Nat |-> [s \in SUBSET Expr |-> {e \in Expr : Needs(globals, e) \subseteq s}]]
<1>1. m \in Nat
  BY FS_CardinalityType
<1>2. built[m] = Expr
  BY DEF Grounded
<1>3. step \in [Nat -> [SUBSET Expr -> SUBSET Expr]] /\ {} \in SUBSET Expr
  OBVIOUS
<1>. HIDE DEF m
<1>4. \E b : IsRec(b)
  <2>1. PICK b : IsRecursion(b, SUBSET Expr, {}, step, m)
    <3>. HIDE DEF step
    <3> QED BY <1>1, <1>3, RecursionExists
  <2>2. b \in [0 .. m -> SUBSET Expr] /\ b[0] = {}
    BY <2>1 DEF IsRecursion
  <2>3. ASSUME NEW n \in 0 .. m, n # 0
        PROVE  b[n] = {e \in Expr : Needs(globals, e) \subseteq b[n - 1]}
    <3>1. n - 1 \in 0 .. m /\ n - 1 < m /\ (n - 1) + 1 = n /\ n - 1 \in Nat
      BY <1>1, <2>3
    <3>2. b[n] = step[n - 1][b[n - 1]]
      BY <2>1, <3>1 DEF IsRecursion
    <3>3. b[n - 1] \in SUBSET Expr
      BY <2>2, <3>1
    <3> QED BY <3>1, <3>2, <3>3
  <2>4. IsRec(b)
    BY <2>2, <2>3
  <2> QED BY <2>4
<1>5. IsRec(built)
  <2>. HIDE DEF IsRec
  <2> QED BY <1>4
<1>. HIDE DEF built
<1>6. built[0] = {}
  BY <1>1, <1>5
<1>7. ASSUME NEW n \in 0 .. m, n < m
      PROVE  built[n + 1] = {e \in Expr : NeedsOf(globals)[e] \subseteq built[n]}
  <2>1. n + 1 \in 0 .. m /\ n + 1 # 0 /\ (n + 1) - 1 = n
    BY <1>1, <1>7
  <2>2. built[n + 1] = {e \in Expr : Needs(globals, e) \subseteq built[n]}
    BY <1>5, <2>1
  <2> QED BY <2>2 DEF NeedsOf
<1>8. built \in [0 .. m -> SUBSET Expr]
  <2>1. \A n \in 0 .. m : built[n] \in SUBSET Expr
    BY <1>5
  <2>2. built = [n \in 0 .. m |-> built[n]]
    BY <1>5
  <2> QED BY <2>1, <2>2
<1>9. IsBuilt(built, Expr, NeedsOf(globals), m)
  BY <1>1, <1>2, <1>6, <1>7, <1>8 DEF IsBuilt
<1> QED BY <1>9 DEF m

LEMMA NeedsAreExprs ==
    ASSUME NEW globals, Grounded(globals), IsFiniteSet(Expr), NEW e \in Expr
    PROVE  Needs(globals, e) \subseteq Expr
<1>. DEFINE m == Cardinality(Expr)
<1>1. PICK built : IsBuilt(built, Expr, NeedsOf(globals), m)
  BY ExprsBuilt
<1>2. m \in Nat
  BY FS_CardinalityType
<1>. HIDE DEF m
<1>3. m # 0
  BY <1>1 DEF IsBuilt
<1>4. m - 1 \in 0 .. m /\ m - 1 < m /\ (m - 1) + 1 = m
  BY <1>2, <1>3
<1>5. built[m] = {x \in Expr : NeedsOf(globals)[x] \subseteq built[m - 1]}
  BY <1>1, <1>4 DEF IsBuilt
<1>6. built[m] = Expr /\ built[m - 1] \subseteq Expr
  BY <1>1, <1>4 DEF IsBuilt
<1> QED BY <1>5, <1>6 DEF NeedsOf
IsFrom(globals, tree, from) == from = [e \in Expr |-> Collected(globals, tree, from, e)]

FileNames(globals, tree) ==
    tree \cup {e.value : e \in Expr} \cup UNION {UNION ToSet(GlobalStringList(globals, e.name)) : e \in Expr}

Answers(globals, tree) == [files : SUBSET FileNames(globals, tree), err : BOOLEAN]

LEMMA CollectedIs ==
    ASSUME NEW globals, NEW tree, NEW from \in [Expr -> Answers(globals, tree)],
           NEW e \in Expr, Needs(globals, e) \subseteq Expr
    PROVE  Collected(globals, tree, from, e) \in Answers(globals, tree)
<1>. DEFINE U == FileNames(globals, tree)
            one == Collected(globals, tree, from, e)
<1>1. tree \subseteq U /\ e.value \in U /\ UNION ToSet(GlobalStringList(globals, e.name)) \subseteq U
  BY DEF FileNames
<1>. HIDE DEF U
<1>2. \A x \in Expr : from[x].files \subseteq U
  BY DEF Answers, U
<1>3. CASE e.kind \in {"list", "sum"}
  <2>1. \A i \in DOMAIN e.of : e.of[i] \in Expr
    BY <1>3 DEF Needs, ToSet
  <2>2. UNION {from[e.of[i]].files : i \in DOMAIN e.of} \subseteq U
    BY <1>2, <2>1
  <2>3. one = [files |-> UNION {from[e.of[i]].files : i \in DOMAIN e.of}, err |-> FALSE]
    BY <1>3 DEF Collected
  <2> QED BY <2>2, <2>3 DEF Answers, U
<1>4. CASE e.kind = "glob"
  <2>1. one = [files |-> Apply(globals, e.args, tree), err |-> FALSE]
    BY <1>4 DEF Collected
  <2>2. Apply(globals, e.args, tree) \subseteq U
    BY <1>1 DEF Apply
  <2> QED BY <2>1, <2>2 DEF Answers, U
<1>5. CASE e.kind = "ident"
  <2>. DEFINE list == GlobalStringList(globals, e.name)
  <2>1. one = [files |-> UNION ToSet(list), err |-> list = <<>>]
    BY <1>5 DEF Collected
  <2>2. UNION ToSet(list) \subseteq U
    BY <1>1
  <2>. HIDE DEF list
  <2> QED BY <2>1, <2>2 DEF Answers, U
<1>6. CASE e.kind = "string"
  <2>1. one = [files |-> {e.value}, err |-> FALSE]
    BY <1>6 DEF Collected
  <2> QED BY <1>1, <2>1 DEF Answers, U
<1>7. CASE e.kind \notin {"string", "list", "sum", "glob", "ident"}
  <2>1. one \in {[files |-> {}, err |-> FALSE], [files |-> {}, err |-> TRUE]}
    BY <1>7 DEF Collected
  <2>2. [files |-> {}, err |-> FALSE] \in Answers(globals, tree) /\ [files |-> {}, err |-> TRUE] \in Answers(globals, tree)
    BY DEF Answers
  <2>. HIDE DEF one
  <2>3. one \in Answers(globals, tree)
    BY <2>1, <2>2
  <2> QED BY <2>3 DEF one
<1> QED BY <1>3, <1>4, <1>5, <1>6, <1>7

\* The code's recursion is well defined.
LEMMA FromExists ==
    ASSUME NEW globals, Grounded(globals), IsFiniteSet(Expr), NEW tree
    PROVE  \E from : IsFrom(globals, tree, from)
<1>. DEFINE V == Answers(globals, tree)
            B == [from \in [Expr -> V] |-> [e \in Expr |-> Collected(globals, tree, from, e)]]
            needs == NeedsOf(globals)
            m == Cardinality(Expr)
<1>1. PICK built : IsBuilt(built, Expr, needs, m)
  BY ExprsBuilt
<1>2. m \in Nat
  BY FS_CardinalityType
<1>3. [files |-> {}, err |-> FALSE] \in V
  BY DEF Answers
<1>4. B \in [[Expr -> V] -> [Expr -> V]]
  BY CollectedIs, NeedsAreExprs
<1>5. ASSUME NEW f \in [Expr -> V], NEW g \in [Expr -> V], NEW e \in Expr, \A x \in needs[e] : f[x] = g[x]
      PROVE  B[f][e] = B[g][e]
  <2>1. B[f][e] = Collected(globals, tree, f, e) /\ B[g][e] = Collected(globals, tree, g, e)
    OBVIOUS
  <2>2. CASE e.kind \in {"list", "sum"}
    <3>1. \A i \in DOMAIN e.of : f[e.of[i]] = g[e.of[i]]
      BY <1>5, <2>2 DEF NeedsOf, Needs, ToSet
    <3>2. UNION {f[e.of[i]].files : i \in DOMAIN e.of} = UNION {g[e.of[i]].files : i \in DOMAIN e.of}
      BY <3>1
    <3> QED BY <2>1, <2>2, <3>2 DEF Collected
  <2>3. CASE e.kind \notin {"list", "sum"}
    <3>1. Collected(globals, tree, f, e) = Collected(globals, tree, g, e)
      BY <2>3, Zenon DEF Collected
    <3> QED BY <2>1, <3>1
  <2> QED BY <2>2, <2>3
<1>6. IsLocal(B, Expr, V, needs)
  <2>. HIDE DEF B, V, needs
  <2> QED BY <1>4, <1>5 DEF IsLocal
<1>7. PICK f \in [Expr -> V] : f = B[f]
  <2>. DEFINE v0 == [files |-> {}, err |-> FALSE]
  <2>1. v0 \in V
    BY <1>3
  <2>. HIDE DEF B, V, needs, m, v0
  <2> QED BY <2>1, <1>1, <1>2, <1>3, <1>4, <1>6, GroundedRecursion
<1>8. B[f] = [e \in Expr |-> Collected(globals, tree, f, e)]
  OBVIOUS
<1>. HIDE DEF B
<1> QED BY <1>7, <1>8 DEF IsFrom

From(globals, tree) == CHOOSE from : IsFrom(globals, tree, from)

LEMMA FromExprIs ==
    ASSUME NEW globals, Grounded(globals), IsFiniteSet(Expr), NEW tree, NEW e \in Expr
    PROVE  /\ FromExpr(globals, tree, e) = From(globals, tree)[e]
           /\ From(globals, tree)[e] = Collected(globals, tree, From(globals, tree), e)
<1>1. FromExpr(globals, tree, e) = From(globals, tree)[e]
  BY DEF FromExpr, From, IsFrom
<1>2. IsFrom(globals, tree, From(globals, tree))
  BY FromExists DEF From
<1> QED BY <1>1, <1>2 DEF IsFrom
\* The same for Bazel's.
IsValue(globals, own, value) == value = [e \in Expr |-> Evaluated(globals, own, value, e)]

Values(own) == [known : BOOLEAN, files : SUBSET (own \cup {e.value : e \in Expr})]

LEMMA ArgumentType ==
    ASSUME NEW V, [known |-> TRUE, files |-> {}] \in V, NEW value \in [Expr -> V], NEW args,
           {a.value : a \in ToSet(args)} \subseteq Expr, NEW keyword, NEW position
    PROVE  Argument(value, args, keyword, position) \in V
<1>. DEFINE given == {i \in DOMAIN args :
                          args[i].keyword = keyword \/ (i = position /\ args[i].keyword = "")}
            k == CHOOSE i \in given : TRUE
<1>1. CASE given = {}
  <2>1. Argument(value, args, keyword, position) = [known |-> TRUE, files |-> {}]
    BY <1>1 DEF Argument
  <2> QED BY <2>1
<1>2. CASE given # {}
  <2>1. k \in given
    BY <1>2
  <2>2. args[k].value \in Expr
    BY <2>1 DEF ToSet
  <2>3. Argument(value, args, keyword, position) = value[args[k].value]
    BY <1>2 DEF Argument
  <2>. HIDE DEF k
  <2> QED BY <2>2, <2>3
<1> QED BY <1>1, <1>2

LEMMA EvaluatedType ==
    ASSUME NEW globals, NEW own, NEW value \in [Expr -> Values(own)],
           NEW e \in Expr, Needs(globals, e) \subseteq Expr
    PROVE  Evaluated(globals, own, value, e) \in Values(own)
<1>. DEFINE U == own \cup {x.value : x \in Expr}
            V == Values(own)
            one == Evaluated(globals, own, value, e)
<1>1. own \subseteq U /\ e.value \in U
  OBVIOUS
<1>. HIDE DEF U
<1>2. \A x \in Expr : value[x] \in [known : BOOLEAN, files : SUBSET U]
  BY DEF Values, U
<1>3. V = [known : BOOLEAN, files : SUBSET U]
  BY DEF Values, U
<1>4. CASE e.kind \in {"list", "sum"}
  <2>1. ToSet(e.of) \subseteq Expr
    BY <1>4 DEF Needs
  <2>. DEFINE known == \A x \in ToSet(e.of) : value[x].known
              files == UNION {value[x].files : x \in ToSet(e.of)}
  <2>2. files \in SUBSET U
    BY <1>2, <2>1
  <2>3. known \in BOOLEAN
    BY Zenon
  <2>4. one = [known |-> known, files |-> files]
    BY <1>4 DEF Evaluated
  <2>. HIDE DEF known, files, one, V
  <2>5. one \in V
    BY <1>3, <2>2, <2>3, <2>4
  <2> QED BY <2>5 DEF one, V
<1>5. CASE e.kind = "glob"
  <2>. DEFINE include == Argument(value, e.args, "include", 1)
              exclude == Argument(value, e.args, "exclude", 2)
              known == include.known /\ exclude.known
              files == (own \cap Matched(include.files)) \ Matched(exclude.files)
  <2>1. files \in SUBSET U
    BY <1>1
  <2>2. known \in BOOLEAN
    BY Zenon
  <2>3. one = [known |-> known, files |-> files]
    BY <1>5 DEF Evaluated
  <2>. HIDE DEF known, files, one, V
  <2>4. one \in V
    BY <1>3, <2>1, <2>2, <2>3
  <2> QED BY <2>4 DEF one, V
<1>6. CASE e.kind = "string"
  <2>1. one = [known |-> TRUE, files |-> {e.value}]
    BY <1>6 DEF Evaluated
  <2>2. [known |-> TRUE, files |-> {e.value}] \in V
    BY <1>1, <1>3
  <2> QED BY <2>1, <2>2
<1>7. CASE e.kind = "ident" /\ ResolveGlobalAssignment(globals, e.name).kind # "unknown"
  <2>1. one = value[ResolveGlobalAssignment(globals, e.name)]
    BY <1>7 DEF Evaluated
  <2>2. ResolveGlobalAssignment(globals, e.name) \in Expr
    BY <1>7 DEF Needs
  <2> QED BY <2>1, <2>2
<1>8. CASE /\ e.kind \notin {"string", "list", "sum", "glob"}
           /\ ~(e.kind = "ident" /\ ResolveGlobalAssignment(globals, e.name).kind # "unknown")
  <2>1. one \in {[known |-> TRUE, files |-> {}], [known |-> FALSE, files |-> {}]}
    BY <1>8 DEF Evaluated
  <2>2. [known |-> TRUE, files |-> {}] \in V /\ [known |-> FALSE, files |-> {}] \in V
    BY <1>3
  <2>. HIDE DEF one, V
  <2>3. one \in V
    BY <2>1, <2>2
  <2> QED BY <2>3 DEF one, V
<1> QED BY <1>4, <1>5, <1>6, <1>7, <1>8
\* Bazel's recursion is well defined.
LEMMA ValueExists ==
    ASSUME NEW globals, Grounded(globals), IsFiniteSet(Expr), NEW own
    PROVE  \E value : IsValue(globals, own, value)
<1>. DEFINE V == Values(own)
            B == [value \in [Expr -> V] |-> [e \in Expr |-> Evaluated(globals, own, value, e)]]
            needs == NeedsOf(globals)
            m == Cardinality(Expr)
            v0 == [known |-> TRUE, files |-> {}]
<1>1. PICK built : IsBuilt(built, Expr, needs, m)
  BY ExprsBuilt
<1>2. v0 \in V
  BY DEF Values
<1>3. B \in [[Expr -> V] -> [Expr -> V]]
  BY EvaluatedType, NeedsAreExprs
<1>4. ASSUME NEW f \in [Expr -> V], NEW g \in [Expr -> V], NEW e \in Expr, \A x \in needs[e] : f[x] = g[x]
      PROVE  B[f][e] = B[g][e]
  <2>1. B[f][e] = Evaluated(globals, own, f, e) /\ B[g][e] = Evaluated(globals, own, g, e)
    OBVIOUS
  <2>. SUFFICES Evaluated(globals, own, f, e) = Evaluated(globals, own, g, e)
    BY <2>1
  <2>. HIDE DEF B
  <2>2. CASE e.kind \in {"list", "sum"}
    <3>1. \A x \in ToSet(e.of) : f[x] = g[x]
      BY <1>4, <2>2 DEF NeedsOf, Needs
    <3>. DEFINE Known(h) == \A x \in ToSet(e.of) : h[x].known
                Files(h) == UNION {h[x].files : x \in ToSet(e.of)}
    <3>2. Files(f) = Files(g)
      BY <3>1
    <3>3. Known(f) = Known(g)
      BY <3>1, Zenon
    <3>4. /\ Evaluated(globals, own, f, e) = [known |-> Known(f), files |-> Files(f)]
          /\ Evaluated(globals, own, g, e) = [known |-> Known(g), files |-> Files(g)]
      BY <2>2 DEF Evaluated
    <3>. HIDE DEF Known, Files
    <3>5. [known |-> Known(f), files |-> Files(f)] = [known |-> Known(g), files |-> Files(g)]
      BY <3>2, <3>3, Zenon
    <3> QED BY <3>4, <3>5, Zenon
  <2>3. CASE e.kind = "glob"
    <3>1. \A i \in DOMAIN e.args : f[e.args[i].value] = g[e.args[i].value]
      BY <1>4, <2>3 DEF NeedsOf, Needs, ToSet
    <3>2. ASSUME NEW keyword, NEW position
          PROVE  Argument(f, e.args, keyword, position) = Argument(g, e.args, keyword, position)
      <4>. DEFINE given == {i \in DOMAIN e.args :
                                e.args[i].keyword = keyword \/ (i = position /\ e.args[i].keyword = "")}
                  k == CHOOSE i \in given : TRUE
      <4>1. CASE given = {}
        BY <4>1 DEF Argument
      <4>2. CASE given # {}
        <5>1. k \in DOMAIN e.args
          BY <4>2
        <5>2. Argument(f, e.args, keyword, position) = f[e.args[k].value]
              /\ Argument(g, e.args, keyword, position) = g[e.args[k].value]
          BY <4>2 DEF Argument
        <5> QED BY <3>1, <5>1, <5>2
      <4> QED BY <4>1, <4>2
    <3> QED BY <2>3, <3>2 DEF Evaluated
  <2>4. CASE e.kind = "ident" /\ ResolveGlobalAssignment(globals, e.name).kind # "unknown"
    BY <1>4, <2>4 DEF NeedsOf, Needs, Evaluated
  <2>5. CASE /\ e.kind \notin {"list", "sum", "glob"}
             /\ ~(e.kind = "ident" /\ ResolveGlobalAssignment(globals, e.name).kind # "unknown")
    BY <2>5, Zenon DEF Evaluated
  <2> QED BY <2>2, <2>3, <2>4, <2>5
<1>5. IsLocal(B, Expr, V, needs)
  <2>. HIDE DEF B, V, needs
  <2> QED BY <1>3, <1>4 DEF IsLocal
<1>6. PICK f \in [Expr -> V] : f = B[f]
  <2>. HIDE DEF B, V, needs, m, v0
  <2> QED BY <1>1, <1>2, <1>5, GroundedRecursion
<1>7. B[f] = [e \in Expr |-> Evaluated(globals, own, f, e)]
  OBVIOUS
<1>. HIDE DEF B
<1> QED BY <1>6, <1>7 DEF IsValue

Value(globals, own) == CHOOSE value : IsValue(globals, own, value)

LEMMA EvaluateIs ==
    ASSUME NEW globals, Grounded(globals), IsFiniteSet(Expr), NEW own, NEW e \in Expr
    PROVE  /\ Evaluate(globals, own, e) = Value(globals, own)[e]
           /\ Value(globals, own)[e] = Evaluated(globals, own, Value(globals, own), e)
<1>1. Evaluate(globals, own, e) = Value(globals, own)[e]
  BY DEF Evaluate, Value, IsValue
<1>2. IsValue(globals, own, Value(globals, own))
  BY ValueExists DEF Value
<1> QED BY <1>1, <1>2 DEF IsValue
\* What the code and Bazel read is the same for lists of strings, their names and globs.
IsList(globals, e) == Literal(e) \/ (e.kind = "ident" /\ Literal(ResolveGlobalAssignment(globals, e.name)))

IsTerm(globals, e) ==
    \/ IsList(globals, e)
    \/ /\ e.kind = "glob"
       /\ \A i, j \in DOMAIN e.args : e.args[i].keyword = e.args[j].keyword => i = j
       /\ \A i \in DOMAIN e.args :
            /\ IsList(globals, e.args[i].value)
            /\ (e.args[i].keyword = "" /\ i = 1) \/ e.args[i].keyword = "exclude"

LEMMA SimpleIs ==
    ASSUME NEW globals, NEW e, Simple(globals, e)
    PROVE  e.kind = "nil" \/ IsTerm(globals, e) \/ (e.kind = "sum" /\ \A x \in ToSet(e.of) : IsTerm(globals, x))
BY DEF Simple, IsTerm, IsList

LEMMA LiteralRead ==
    ASSUME NEW globals, Grounded(globals), IsFiniteSet(Expr), NEW tree, NEW own, NEW e \in Expr, Literal(e)
    PROVE  From(globals, tree)[e].files = StringList(e) /\ Value(globals, own)[e].files = StringList(e)
<1>. DEFINE from == From(globals, tree)
            value == Value(globals, own)
<1>1. e.kind = "list" /\ \A x \in ToSet(e.of) : x \in Expr /\ x.kind = "string"
  BY NeedsAreExprs DEF Literal, Needs
<1>2. \A x \in Expr : from[x] = Collected(globals, tree, from, x) /\ value[x] = Evaluated(globals, own, value, x)
  BY FromExprIs, EvaluateIs
<1>. HIDE DEF from, value
<1>3. \A x \in ToSet(e.of) : from[x].files = {x.value} /\ value[x].files = {x.value}
  <2>. SUFFICES ASSUME NEW x \in ToSet(e.of)
                PROVE  from[x].files = {x.value} /\ value[x].files = {x.value}
    OBVIOUS
  <2>1. x \in Expr /\ x.kind = "string"
    BY <1>1
  <2>2. Collected(globals, tree, from, x) = [files |-> {x.value}, err |-> FALSE]
    BY <2>1 DEF Collected
  <2>3. Evaluated(globals, own, value, x) = [known |-> TRUE, files |-> {x.value}]
    BY <2>1 DEF Evaluated
  <2> QED BY <1>2, <2>1, <2>2, <2>3
<1>4. StringList(e) = {x.value : x \in ToSet(e.of)}
  BY <1>1 DEF StringList
<1>5. from[e].files = UNION {from[e.of[i]].files : i \in DOMAIN e.of}
  <2>1. Collected(globals, tree, from, e) =
            [files |-> UNION {from[e.of[i]].files : i \in DOMAIN e.of}, err |-> FALSE]
    BY <1>1 DEF Collected
  <2> QED BY <1>2, <2>1
<1>6. value[e].files = UNION {value[x].files : x \in ToSet(e.of)}
  <2>. DEFINE known == \A x \in ToSet(e.of) : value[x].known
  <2>1. Evaluated(globals, own, value, e) =
            [known |-> known, files |-> UNION {value[x].files : x \in ToSet(e.of)}]
    BY <1>1 DEF Evaluated
  <2>. HIDE DEF known
  <2> QED BY <1>2, <2>1
<1>7. \A i \in DOMAIN e.of : e.of[i] \in ToSet(e.of)
  BY DEF ToSet
<1>8. \A x \in ToSet(e.of) : \E i \in DOMAIN e.of : x = e.of[i]
  BY DEF ToSet
<1>9. from[e].files = StringList(e)
  BY <1>3, <1>4, <1>5, <1>7, <1>8
<1>10. value[e].files = StringList(e)
  BY <1>3, <1>4, <1>6
<1> QED BY <1>9, <1>10 DEF from, value

LEMMA ListRead ==
    ASSUME NEW globals, Grounded(globals), IsFiniteSet(Expr), NEW tree, NEW own, NEW e \in Expr,
           IsList(globals, e)
    PROVE  /\ From(globals, tree)[e].files = Strings(globals, e)
           /\ Value(globals, own)[e].files = Strings(globals, e)
<1>. DEFINE from == From(globals, tree)
            value == Value(globals, own)
<1>1. CASE Literal(e)
  BY <1>1, LiteralRead DEF Strings, Literal
<1>2. CASE e.kind = "ident" /\ Literal(ResolveGlobalAssignment(globals, e.name))
  <2>. DEFINE list == ResolveGlobalAssignment(globals, e.name)
  <2>1. list.kind = "list" /\ list \in Expr
    <3>1. list.kind = "list"
      BY <1>2 DEF Literal
    <3> QED BY <1>2, <3>1, NeedsAreExprs DEF Needs
  <2>2. GlobalStringList(globals, e.name) = <<StringList(list)>>
    BY <2>1 DEF GlobalStringList
  <2>3. Literal(list)
    BY <1>2
  <2>. HIDE DEF list
  <2>4. <<StringList(list)>> # <<>> /\ <<StringList(list)>>[1] = StringList(list)
        /\ UNION ToSet(<<StringList(list)>>) = StringList(list)
    <3>1. DOMAIN <<StringList(list)>> = {1}
      OBVIOUS
    <3> QED BY <3>1 DEF ToSet
  <2>5. Strings(globals, e) = StringList(list)
    BY <1>2, <2>2, <2>4 DEF Strings
  <2>6. from[e].files = StringList(list)
    <3>1. from[e] = Collected(globals, tree, from, e)
      BY FromExprIs
    <3>. HIDE DEF from
    <3>2. Collected(globals, tree, from, e) =
              [files |-> UNION ToSet(GlobalStringList(globals, e.name)), err |-> GlobalStringList(globals, e.name) = <<>>]
      BY <1>2 DEF Collected
    <3> QED BY <2>2, <2>4, <3>1, <3>2
  <2>7. value[e] = value[list]
    <3>1. value[e] = Evaluated(globals, own, value, e)
      BY EvaluateIs
    <3>. HIDE DEF value
    <3>2. Evaluated(globals, own, value, e) = value[list]
      BY <1>2, <2>1 DEF Evaluated, list
    <3> QED BY <3>1, <3>2
  <2> QED BY <2>1, <2>3, <2>5, <2>6, <2>7, LiteralRead
<1> QED BY <1>1, <1>2 DEF IsList
PlainArguments(globals, args) ==
    /\ {a.value : a \in ToSet(args)} \subseteq Expr
    /\ \A i, j \in DOMAIN args : args[i].keyword = args[j].keyword => i = j
    /\ \A i \in DOMAIN args : IsList(globals, args[i].value)

\* The parameter of Bazel is the keyword of the code.
SameParameter(args, parameter, position, keyword) ==
    \A i \in DOMAIN args :
        (args[i].keyword = parameter \/ (i = position /\ args[i].keyword = "")) <=> (args[i].keyword = keyword)

LEMMA ArgumentRead ==
    ASSUME NEW globals, Grounded(globals), IsFiniteSet(Expr), NEW own, NEW args, PlainArguments(globals, args),
           NEW keyword, NEW parameter, NEW position, SameParameter(args, parameter, position, keyword)
    PROVE  Argument(Value(globals, own), args, parameter, position).files = Parse(globals, args, keyword)
<1>. DEFINE value == Value(globals, own)
            given == {i \in DOMAIN args : args[i].keyword = parameter \/ (i = position /\ args[i].keyword = "")}
            k == CHOOSE i \in given : TRUE
<1>. USE DEF PlainArguments
<1>1. given = {i \in DOMAIN args : args[i].keyword = keyword}
  BY DEF SameParameter
<1>2. Argument(value, args, parameter, position) =
          IF given = {} THEN [known |-> TRUE, files |-> {}] ELSE value[args[k].value]
  BY DEF Argument
<1>3. {x \in ToSet(args) : x.keyword = keyword} = {args[i] : i \in given}
  <2>. HIDE DEF given
  <2> QED BY <1>1 DEF ToSet
<1>4. Parse(globals, args, keyword) = UNION {Strings(globals, args[i].value) : i \in given}
  <2>. DEFINE S == {x \in ToSet(args) : x.keyword = keyword}
  <2>1. Parse(globals, args, keyword) = UNION {Strings(globals, a.value) : a \in S}
    BY DEF Parse
  <2>2. (\A x \in S : \E i \in given : x = args[i]) /\ (\A i \in given : args[i] \in S)
    BY <1>3
  <2>. HIDE DEF given, S
  <2>3. ASSUME NEW f
        PROVE  (\E a \in S : f \in Strings(globals, a.value)) <=> (\E i \in given : f \in Strings(globals, args[i].value))
    BY <2>2
  <2> QED BY <2>1, <2>3
<1>5. CASE given = {}
  <2>. HIDE DEF given
  <2>1. Parse(globals, args, keyword) = {}
    BY <1>4, <1>5
  <2> QED BY <1>2, <1>5, <2>1
<1>6. CASE given # {}
  <2>1. k \in given
    BY <1>6
  <2>. HIDE DEF k
  <2>2. given = {k}
    <3>. HIDE DEF given
    <3> QED BY <1>1, <2>1
  <2>3. args[k].value \in Expr /\ IsList(globals, args[k].value)
    BY <2>1 DEF ToSet
  <2>4. value[args[k].value].files = Strings(globals, args[k].value)
    BY <2>3, ListRead
  <2>. HIDE DEF given, value
  <2>5. Parse(globals, args, keyword) = Strings(globals, args[k].value)
    BY <1>4, <2>2
  <2> QED BY <1>2, <1>6, <2>4, <2>5 DEF value
<1> QED BY <1>5, <1>6

LEMMA TermRead ==
    ASSUME NEW globals, Grounded(globals), IsFiniteSet(Expr), NEW tree, NEW own, own \subseteq tree,
           NEW e \in Expr, IsTerm(globals, e)
    PROVE  From(globals, tree)[e].files \cap own = Value(globals, own)[e].files \cap own
<1>1. CASE IsList(globals, e)
  BY <1>1, ListRead
<1>2. CASE /\ e.kind = "glob"
           /\ \A i, j \in DOMAIN e.args : e.args[i].keyword = e.args[j].keyword => i = j
           /\ \A i \in DOMAIN e.args :
                /\ IsList(globals, e.args[i].value)
                /\ (e.args[i].keyword = "" /\ i = 1) \/ e.args[i].keyword = "exclude"
  <2>. DEFINE from == From(globals, tree)
              value == Value(globals, own)
              args == e.args
              none == ""
              include == Parse(globals, args, none)
              exclude == Parse(globals, args, "exclude")
  <2>1. PlainArguments(globals, args)
    <3>1. {a.value : a \in ToSet(args)} \subseteq Expr
      BY <1>2, NeedsAreExprs DEF Needs
    <3> QED BY <1>2, <3>1 DEF PlainArguments
  <2>2. \A i \in DOMAIN args : (args[i].keyword = "" /\ i = 1) \/ args[i].keyword = "exclude"
    BY <1>2
  <2>. HIDE DEF args, include, exclude
  <2>3. Argument(value, args, "include", 1).files = include
    <3>1. SameParameter(args, "include", 1, none)
      BY <2>2 DEF SameParameter
    <3>. HIDE DEF none
    <3> QED BY <2>1, <3>1, ArgumentRead DEF include
  <2>. HIDE DEF none
  <2>4. Argument(value, args, "exclude", 2).files = exclude
    <3>1. 2 # 1
      OBVIOUS
    <3>2. SameParameter(args, "exclude", 2, "exclude")
      <4>. SUFFICES ASSUME NEW i \in DOMAIN args, i = 2, args[i].keyword = ""
                    PROVE  FALSE
        BY DEF SameParameter
      <4>1. "" # "exclude"
        BY Zenon
      <4>2. i # 1
        BY <3>1, Zenon
      <4> QED BY <2>2, <4>1, <4>2, Zenon
    <3> QED BY <2>1, <3>2, ArgumentRead DEF exclude
  <2>5. from[e].files = (tree \cap Matched(include)) \ Matched(exclude)
    <3>1. from[e] = Collected(globals, tree, from, e)
      BY FromExprIs
    <3>. HIDE DEF from
    <3>2. Collected(globals, tree, from, e) = [files |-> Apply(globals, args, tree), err |-> FALSE]
      BY <1>2 DEF Collected, args
    <3>3. Apply(globals, args, tree) = (tree \cap Matched(include)) \ Matched(exclude)
      BY Zenon DEF Apply, include, exclude, none
    <3> QED BY <3>1, <3>2, <3>3
  <2>6. value[e].files = (own \cap Matched(include)) \ Matched(exclude)
    <3>1. value[e] = Evaluated(globals, own, value, e)
      BY EvaluateIs
    <3>. HIDE DEF value
    <3>. DEFINE known == Argument(value, args, "include", 1).known /\ Argument(value, args, "exclude", 2).known
    <3>2. Evaluated(globals, own, value, e) =
              [known |-> known,
               files |-> (own \cap Matched(Argument(value, args, "include", 1).files))
                            \ Matched(Argument(value, args, "exclude", 2).files)]
      BY <1>2 DEF Evaluated, args
    <3>. HIDE DEF known
    <3> QED BY <2>3, <2>4, <3>1, <3>2
  <2> QED BY <2>5, <2>6
<1> QED BY <1>1, <1>2 DEF IsTerm

LEMMA SimpleRead ==
    ASSUME NEW globals, Grounded(globals), IsFiniteSet(Expr), NEW tree, NEW own, own \subseteq tree,
           NEW e \in Expr, Simple(globals, e)
    PROVE  FromExpr(globals, tree, e).files \cap own = Evaluate(globals, own, e).files \cap own
<1>. DEFINE from == From(globals, tree)
            value == Value(globals, own)
<1>1. /\ FromExpr(globals, tree, e) = from[e] /\ Evaluate(globals, own, e) = value[e]
      /\ from[e] = Collected(globals, tree, from, e) /\ value[e] = Evaluated(globals, own, value, e)
  BY FromExprIs, EvaluateIs
<1>2. CASE e.kind = "nil"
  <2>. HIDE DEF from, value
  <2>1. Collected(globals, tree, from, e) = [files |-> {}, err |-> FALSE]
    BY <1>2 DEF Collected
  <2>2. Evaluated(globals, own, value, e) = [known |-> TRUE, files |-> {}]
    BY <1>2 DEF Evaluated
  <2> QED BY <1>1, <2>1, <2>2
<1>3. CASE IsTerm(globals, e)
  BY <1>1, <1>3, TermRead
<1>4. CASE e.kind = "sum" /\ \A x \in ToSet(e.of) : IsTerm(globals, x)
  <2>1. \A x \in ToSet(e.of) : from[x].files \cap own = value[x].files \cap own
    BY <1>4, NeedsAreExprs, TermRead DEF Needs
  <2>. HIDE DEF from, value
  <2>2. from[e].files = UNION {from[e.of[i]].files : i \in DOMAIN e.of}
    <3>1. Collected(globals, tree, from, e) =
              [files |-> UNION {from[e.of[i]].files : i \in DOMAIN e.of}, err |-> FALSE]
      BY <1>4 DEF Collected
    <3> QED BY <1>1, <3>1
  <2>3. value[e].files = UNION {value[x].files : x \in ToSet(e.of)}
    <3>. DEFINE known == \A x \in ToSet(e.of) : value[x].known
    <3>1. Evaluated(globals, own, value, e) =
              [known |-> known, files |-> UNION {value[x].files : x \in ToSet(e.of)}]
      BY <1>4 DEF Evaluated
    <3>. HIDE DEF known
    <3> QED BY <1>1, <3>1
  <2>4. UNION {from[e.of[i]].files : i \in DOMAIN e.of} = UNION {from[x].files : x \in ToSet(e.of)}
    BY DEF ToSet
  <2>5. ASSUME NEW f \in own
        PROVE  (f \in from[e].files) <=> (f \in value[e].files)
    BY <2>1, <2>2, <2>3, <2>4
  <2> QED BY <1>1, <2>5
<1> QED BY <1>2, <1>3, <1>4, SimpleIs
-----------------------------------------------------------------------------
(***************************************************************************)
(* Which existing rules are taken on, and by how many configurations.      *)
(***************************************************************************)
Existing(d) == workspace.build[d].existing

Counted(d, done) ==
    {k \in done : Existing(d)[k].kind \in Kinds /\ ContributesToCoverage(Existing(d)[k].name)}

\* The rules at the positions in `done` were taken on, once at most.
NamedOnce(gen) ==
    \A i, j \in DOMAIN gen : gen[i].name # "scala_files" /\ gen[i].name = gen[j].name => i = j

NamedAfter(d, done, gen) ==
    \A i \in DOMAIN gen : gen[i].name # "scala_files" => \E k \in done : gen[i].name = Existing(d)[k].name

Labelled(d, labels) == \A l \in ToSet(labels) : \E k \in DOMAIN Existing(d) : l = LabelFor(d, Existing(d)[k])

Accounted(pkg, d, done) ==
    /\ NamedOnce(pkg.gen) /\ NamedAfter(d, done, pkg.gen) /\ Labelled(d, pkg.labels)
    /\ pkg.managed <= Cardinality(Counted(d, done))

NamesDiffer(d) ==
    /\ Existing(d) \in Seq(ExistingRule)
    /\ \A i, j \in DOMAIN Existing(d) : Existing(d)[i].name = Existing(d)[j].name => i = j

LEMMA CountedType ==
    ASSUME NEW d, NamesDiffer(d), NEW done \in SUBSET DOMAIN Existing(d)
    PROVE  /\ IsFiniteSet(Counted(d, done)) /\ Cardinality(Counted(d, done)) \in Nat
           /\ \A less \in SUBSET done : Cardinality(Counted(d, less)) \in Nat
                                        /\ Cardinality(Counted(d, less)) <= Cardinality(Counted(d, done))
<1>1. DOMAIN Existing(d) = 1 .. Len(Existing(d)) /\ Len(Existing(d)) \in Nat
  BY DEF NamesDiffer
<1>2. IsFiniteSet(1 .. Len(Existing(d)))
  BY <1>1, FS_Interval
<1>3. Counted(d, done) \in SUBSET (1 .. Len(Existing(d)))
  BY <1>1 DEF Counted
<1>4. IsFiniteSet(Counted(d, done))
  BY <1>2, <1>3, FS_Subset
<1>5. ASSUME NEW less \in SUBSET done
      PROVE  Counted(d, less) \in SUBSET Counted(d, done)
  BY DEF Counted
<1> QED BY <1>4, <1>5, FS_CardinalityType, FS_Subset

LEMMA AccountedFirst ==
    ASSUME NEW d, NamesDiffer(d)
    PROVE  Accounted(NewPackage(d), d, {})
<1>. DEFINE pkg == NewPackage(d)
<1>1. pkg.gen = <<>> /\ pkg.labels = <<>> /\ pkg.managed = 0
  BY DEF NewPackage
<1>2. DOMAIN <<>> = {} /\ ToSet(<<>>) = {}
  BY DEF ToSet
<1>3. 0 <= Cardinality(Counted(d, {}))
  <2>1. Counted(d, {}) = {}
    BY DEF Counted
  <2> QED BY <2>1, FS_EmptySet
<1> QED BY <1>1, <1>2, <1>3 DEF Accounted, NamedOnce, NamedAfter, Labelled

\* One more rule.
LEMMA NamedAppended ==
    ASSUME NEW d, NEW done, NEW more, done \subseteq more, NEW T, NEW gen \in Seq(T), NEW r \in T,
           NamedOnce(gen), NamedAfter(d, done, gen),
           \/ r.name = "scala_files"
           \/ \E k \in more : r.name = Existing(d)[k].name /\ \A j \in done : Existing(d)[j].name # r.name
    PROVE  NamedOnce(Append(gen, r)) /\ NamedAfter(d, more, Append(gen, r))
<1>. DEFINE all == Append(gen, r)
<1>1. /\ DOMAIN gen = 1 .. Len(gen) /\ Len(gen) \in Nat /\ DOMAIN all = 1 .. Len(gen) + 1
      /\ all[Len(gen) + 1] = r /\ \A i \in DOMAIN gen : all[i] = gen[i]
  BY AppendProperties
<1>2. \A i \in DOMAIN all : i \in DOMAIN gen \/ i = Len(gen) + 1
  BY <1>1
<1>. HIDE DEF all
<1>3. ASSUME NEW i \in DOMAIN gen, gen[i].name # "scala_files"
      PROVE  gen[i].name # r.name
  BY <1>3 DEF NamedAfter
<1>4. NamedOnce(all)
  BY <1>1, <1>2, <1>3 DEF NamedOnce
<1>5. NamedAfter(d, more, all)
  BY <1>1, <1>2 DEF NamedAfter
<1> QED BY <1>4, <1>5 DEF all

LEMMA LabelledAppended ==
    ASSUME NEW d, NEW T, NEW labels \in Seq(T), NEW k \in DOMAIN Existing(d), LabelFor(d, Existing(d)[k]) \in T,
           Labelled(d, labels)
    PROVE  Labelled(d, Append(labels, LabelFor(d, Existing(d)[k])))
<1>. DEFINE l == LabelFor(d, Existing(d)[k])
<1>1. ToSet(Append(labels, l)) = ToSet(labels) \cup {l}
  <2>. HIDE DEF l
  <2>1. l \in T
    BY DEF l
  <2> QED BY <2>1, ToSetAppend
<1> QED BY <1>1 DEF Labelled
LEMMA ProvideAccounted ==
    ASSUME NEW d, NEW done, NEW pkg \in FreshPackage(d), NEW name \in STRING, Accounted(pkg, d, done)
    PROVE  Accounted(Provide(pkg, name), d, done)
<1>. DEFINE new == Generated("scala_files", name, "scala_files", {})
            r == [new EXCEPT !.srcs = workspace.build[d].regular]
            T == {r} \cup FreshRule(d)
<1>1. pkg.dir = d /\ pkg.gen \in Seq(FreshRule(d))
  BY DEF FreshPackage
<1>2. Provide(pkg, name) \in {pkg, [pkg EXCEPT !.gen = Append(pkg.gen, r)]}
  BY <1>1 DEF Provide
<1>3. r.name = "scala_files"
  BY DEF Generated
<1>. HIDE DEF r
<1>4. NamedOnce(Append(pkg.gen, r)) /\ NamedAfter(d, done, Append(pkg.gen, r))
  <2>1. r \in T
    OBVIOUS
  <2>2. pkg.gen \in Seq(T)
    <3>. DEFINE U == FreshRule(d)
    <3>. HIDE DEF U
    <3>1. pkg.gen \in Seq(U) /\ U \subseteq T
      BY <1>1 DEF U
    <3>. HIDE DEF T
    <3> QED BY <3>1
  <2>. HIDE DEF T
  <2> QED BY <1>3, <2>1, <2>2, NamedAppended DEF Accounted
<1>5. pkg \in [dir : {d}, gen : Seq(FreshRule(d)), files : SUBSET FilesFor(d), labels : Seq(LabelsFor(d)),
               managed : Nat, total : {Total(d)}]
  BY DEF FreshPackage
<1>. DEFINE p == [pkg EXCEPT !.gen = Append(pkg.gen, r)]
<1>6. p.gen = Append(pkg.gen, r) /\ p.labels = pkg.labels /\ p.managed = pkg.managed
  BY <1>5
<1>. HIDE DEF p
<1>7. Accounted(p, d, done)
  BY <1>4, <1>6 DEF Accounted
<1> QED BY <1>2, <1>7 DEF p

LEMMA ParsedAccounted ==
    ASSUME NEW d, NEW pkg \in FreshPackage(d), NEW k \in DOMAIN Existing(d), Existing(d)[k] \in ExistingRule,
           ParseRule(pkg, Existing(d)[k]) # <<>>, Labelled(d, pkg.labels)
    PROVE  LET parsed == ParseRule(pkg, Existing(d)[k])[1]
           IN parsed.gen = pkg.gen /\ parsed.managed = pkg.managed /\ Labelled(d, parsed.labels)
<1>. DEFINE r == Existing(d)[k]
            label == LabelFor(d, r)
            files == CollectFilenames(d, r.srcs).files
            parsed == ParseRule(pkg, r)[1]
<1>1. pkg.dir = d
  BY DEF FreshPackage
<1>2. parsed = [pkg EXCEPT !.files = @ \cup files, !.labels = Append(@, label)]
  BY <1>1 DEF ParseRule, LabelFor
<1>3. label \in LabelsFor(d)
  BY DEF LabelsFor
<1>4. Labelled(d, Append(pkg.labels, label))
  <2>1. pkg.labels \in Seq(LabelsFor(d))
    BY DEF FreshPackage
  <2>2. LabelFor(d, Existing(d)[k]) \in LabelsFor(d)
    BY <1>3
  <2>. HIDE DEF label, r
  <2>3. Labelled(d, Append(pkg.labels, LabelFor(d, Existing(d)[k])))
    BY <2>1, <2>2, LabelledAppended
  <2> QED BY <2>3 DEF label, r
<1>. HIDE DEF label, files, parsed
<1>5. parsed.gen = pkg.gen /\ parsed.managed = pkg.managed /\ parsed.labels = Append(pkg.labels, label)
  BY <1>2 DEF FreshPackage
<1> QED BY <1>4, <1>5 DEF parsed

LEMMA ResolvedAccounted ==
    ASSUME NEW d, NamesDiffer(d), NEW done \in SUBSET DOMAIN Existing(d), NEW pkg \in FreshPackage(d),
           NEW name \in STRING, NEW k \in DOMAIN Existing(d), k \notin done, Existing(d)[k].kind \in Kinds,
           Accounted(pkg, d, done)
    PROVE  Accounted(Resolved(pkg, name, Existing(d)[k]), d, done \cup {k})
<1>. DEFINE r == Existing(d)[k]
            more == done \cup {k}
            provider == registry[r.kind]
            rule == Generated(r.name, name, provider, r.kinds)
            parsed == IF provider \in {"scala_fileset", "semanticdb_index"} THEN <<pkg>>
                      ELSE IF provider = "scala_files" THEN <<>> ELSE ParseRule(pkg, r)
            one == IF ContributesToCoverage(r.name) THEN 1 ELSE 0
<1>1. Existing(d) \in Seq(ExistingRule) /\ r \in ExistingRule
  BY ElementOfSeq DEF NamesDiffer
<1>2. Resolved(pkg, name, r) =
        IF parsed = <<>> THEN pkg
        ELSE [parsed[1] EXCEPT !.gen = Append(@, rule), !.managed = @ + one]
  BY Zenon DEF Resolved
<1>3. parsed # <<>> =>
        /\ parsed[1].gen = pkg.gen /\ parsed[1].managed = pkg.managed /\ Labelled(d, parsed[1].labels)
        /\ parsed[1] \in FreshPackage(d)
  <2>1. ParseRule(pkg, r) # <<>> =>
          /\ ParseRule(pkg, r)[1].gen = pkg.gen /\ ParseRule(pkg, r)[1].managed = pkg.managed
          /\ Labelled(d, ParseRule(pkg, r)[1].labels) /\ ParseRule(pkg, r)[1] \in FreshPackage(d)
    BY <1>1, ParsedAccounted, ParsedType DEF Accounted
  <2>2. <<pkg>>[1] = pkg
    OBVIOUS
  <2> QED BY <2>1, <2>2 DEF Accounted
<1>4. NamedOnce(Append(pkg.gen, rule)) /\ NamedAfter(d, more, Append(pkg.gen, rule))
  <2>1. rule \in FreshRule(d)
    BY <1>1 DEF Generated, FreshRule, ExistingRule
  <2>2. pkg.gen \in Seq(FreshRule(d))
    BY DEF FreshPackage
  <2>3. rule.name = Existing(d)[k].name
    BY DEF Generated
  <2>4. \A j \in done : Existing(d)[j].name # Existing(d)[k].name
    BY DEF NamesDiffer
  <2>5. k \in more /\ done \subseteq more
    OBVIOUS
  <2>. HIDE DEF rule, more
  <2>6. \E n \in more : rule.name = Existing(d)[n].name /\ \A j \in done : Existing(d)[j].name # rule.name
    BY <2>3, <2>4, <2>5
  <2> QED BY <2>1, <2>2, <2>5, <2>6, NamedAppended DEF Accounted
<1>5. pkg.managed + one <= Cardinality(Counted(d, more)) /\ pkg.managed <= Cardinality(Counted(d, more))
  <2>1. pkg.managed \in Nat /\ pkg.managed <= Cardinality(Counted(d, done))
    BY DEF FreshPackage, Accounted
  <2>2. IsFiniteSet(Counted(d, done)) /\ Cardinality(Counted(d, done)) \in Nat
    BY CountedType
  <2>3. Counted(d, more) = IF ContributesToCoverage(r.name) THEN Counted(d, done) \cup {k} ELSE Counted(d, done)
    BY DEF Counted
  <2>4. k \notin Counted(d, done)
    BY DEF Counted
  <2>5. Cardinality(Counted(d, done) \cup {k}) = Cardinality(Counted(d, done)) + 1
    BY <2>2, <2>4, FS_AddElement
  <2>. HIDE DEF more, r
  <2> QED BY <2>1, <2>2, <2>3, <2>5
<1>. HIDE DEF parsed, rule, one, more
<1>6. CASE parsed = <<>>
  <2>1. NamedAfter(d, more, pkg.gen)
    BY DEF Accounted, NamedAfter, more
  <2> QED BY <1>2, <1>5, <1>6, <2>1 DEF Accounted, more
<1>7. CASE parsed # <<>>
  <2>. DEFINE p == [parsed[1] EXCEPT !.gen = Append(@, rule), !.managed = @ + one]
  <2>1. /\ p.gen = Append(pkg.gen, rule) /\ p.managed = pkg.managed + one
        /\ p.labels = parsed[1].labels
    BY <1>3, <1>7 DEF FreshPackage
  <2>. HIDE DEF p
  <2>2. Accounted(p, d, more)
    BY <1>3, <1>4, <1>5, <1>7, <2>1 DEF Accounted
  <2> QED BY <1>2, <1>7, <2>2 DEF p, more
<1> QED BY <1>6, <1>7
OfKind(d, kind) == {k \in DOMAIN Existing(d) : Existing(d)[k].kind = kind}

LEMMA TakeOnAccounted ==
    ASSUME NEW d, NamesDiffer(d), NEW done \in SUBSET DOMAIN Existing(d), NEW pkg \in FreshPackage(d),
           NEW name \in STRING, NEW kind \in Kinds, done \cap OfKind(d, kind) = {}, Accounted(pkg, d, done)
    PROVE  Accounted(TakeOn(pkg, name, kind), d, done \cup OfKind(d, kind))
<1>. DEFINE rules == Existing(d)
            m == Len(rules)
            V == FreshPackage(d)
            F == TakeFcn(d, name, kind)
            upTo(n) == done \cup {k \in 1 .. n : rules[k].kind = kind}
            I == [n \in 0 .. m |-> {p \in V : Accounted(p, d, upTo(n))}]
<1>1. rules \in Seq(ExistingRule) /\ m \in Nat /\ DOMAIN rules = 1 .. m
  BY DEF NamesDiffer
<1>2. IsStep(F, V, ExistingRule) /\ TakeOn(pkg, name, kind) = Folded(F, pkg, rules)
  BY <1>1, TakeOnIsFold DEF Existing
<1>3. pkg \in I[0]
  <2>1. upTo(0) = done /\ 0 \in 0 .. m
    BY <1>1
  <2> QED BY <2>1
<1>4. ASSUME NEW n \in 1 .. m, NEW p \in V, p \in I[n - 1]
      PROVE  F[p][rules[n]] \in I[n]
  <2>1. n - 1 \in 0 .. m /\ n \in 0 .. m /\ 1 .. n = (1 .. (n - 1)) \cup {n} /\ n \notin 1 .. (n - 1)
    BY <1>1
  <2>2. rules[n] \in ExistingRule
    BY <1>1, ElementOfSeq
  <2>3. F[p][rules[n]] = Taken(p, name, kind, rules[n])
    BY <2>2 DEF TakeFcn
  <2>4. Accounted(p, d, upTo(n - 1))
    BY <1>4, <2>1
  <2>5. F[p][rules[n]] \in V
    BY <1>2, <2>2 DEF IsStep
  <2>6. Accounted(Taken(p, name, kind, rules[n]), d, upTo(n))
    <3>1. CASE rules[n].kind = kind
      <4>1. upTo(n) = upTo(n - 1) \cup {n}
        BY <2>1, <3>1
      <4>2. n \notin upTo(n - 1) /\ upTo(n - 1) \subseteq DOMAIN rules /\ n \in DOMAIN rules
        BY <1>1, <2>1, <3>1 DEF OfKind
      <4>. HIDE DEF upTo
      <4>3. Accounted(Resolved(p, name, Existing(d)[n]), d, upTo(n - 1) \cup {n})
        BY <2>4, <3>1, <4>2, ResolvedAccounted
      <4> QED BY <3>1, <4>1, <4>3 DEF Taken
    <3>2. CASE rules[n].kind # kind
      <4>1. upTo(n) = upTo(n - 1)
        BY <2>1, <3>2
      <4>. HIDE DEF upTo
      <4> QED BY <2>4, <3>2, <4>1 DEF Taken
    <3> QED BY <3>1, <3>2
  <2>. HIDE DEF upTo
  <2> QED BY <2>1, <2>3, <2>5, <2>6
<1>5. I[m] = {p \in V : Accounted(p, d, upTo(m))} /\ upTo(m) = done \cup OfKind(d, kind)
  <2>1. m \in 0 .. m
    BY <1>1
  <2>2. upTo(m) = done \cup OfKind(d, kind)
    BY <1>1 DEF OfKind
  <2> QED BY <2>1, <2>2
<1>. HIDE DEF I, F, V, upTo
<1>6. Maintained(I, F, V, rules)
  BY <1>4 DEF Maintained
<1>7. Folded(F, pkg, rules) \in I[m]
  <2>1. pkg \in V
    BY DEF V
  <2>. HIDE DEF rules
  <2>2. Len(rules) = m /\ rules \in Seq(ExistingRule)
    BY <1>1
  <2> QED BY <1>2, <1>3, <1>6, <2>1, <2>2, FoldedInvariant
<1> QED BY <1>2, <1>5, <1>7

\* A configured kind is that of a provider.
KindsKnown(d) == \A n \in Names : IsConfigured(d, n) => ConfigOf(d, n).implementation \in Kinds

NotLeft(d, kinds) == {k \in DOMAIN Existing(d) : Existing(d)[k].kind \notin kinds}

LEMMA GenerateForAccounted ==
    ASSUME NEW d, NamesDiffer(d), KindsKnown(d), NEW state \in FreshState(d), NEW name \in Names, name \in STRING,
           Accounted(state.pkg, d, NotLeft(d, state.kinds))
    PROVE  LET new == GenerateFor(state, name) IN Accounted(new.pkg, d, NotLeft(d, new.kinds))
<1>. DEFINE kind == ConfigOf(d, name).implementation
            provided == Provide(state.pkg, name)
            pkg == IF kind \in state.kinds THEN TakeOn(provided, name, kind) ELSE provided
            kinds == Without(state.kinds, kind)
            done == NotLeft(d, state.kinds)
<1>1. state.pkg \in FreshPackage(d) /\ state.pkg.dir = d
  BY DEF FreshState, FreshPackage
<1>2. GenerateFor(state, name) = IF ~IsConfigured(d, name) THEN state ELSE [pkg |-> pkg, kinds |-> kinds]
  BY <1>1 DEF GenerateFor
<1>. SUFFICES ASSUME IsConfigured(d, name)
              PROVE  Accounted(pkg, d, NotLeft(d, kinds))
  BY <1>2
<1>3. kind \in Kinds
  BY DEF KindsKnown
<1>4. provided \in FreshPackage(d) /\ Accounted(provided, d, done)
  BY <1>1, ProvideType, ProvideAccounted
<1>5. done \in SUBSET DOMAIN Existing(d)
  BY DEF NotLeft
<1>6. CASE kind \in state.kinds
  <2>1. done \cap OfKind(d, kind) = {} /\ NotLeft(d, kinds) = done \cup OfKind(d, kind)
    BY <1>6 DEF NotLeft, OfKind, Without
  <2>. HIDE DEF kind, provided, done, kinds
  <2>2. Accounted(TakeOn(provided, name, kind), d, done \cup OfKind(d, kind))
    BY <1>3, <1>4, <1>5, <2>1, TakeOnAccounted
  <2> QED BY <1>6, <2>1, <2>2
<1>7. CASE kind \notin state.kinds
  <2>1. NotLeft(d, kinds) = done
    BY <1>7 DEF NotLeft, Without
  <2> QED BY <1>4, <1>7, <2>1
<1> QED BY <1>6, <1>7

LEMMA GeneratedAccounted ==
    ASSUME NEW d, NamesDiffer(d), KindsKnown(d)
    PROVE  \E done \in SUBSET DOMAIN Existing(d) : Accounted(GeneratedPackage(d), d, done)
<1>. DEFINE m == Len(ConfigNames)
            V == FreshState(d)
            F == GenerateFcn(d)
            base == GenerateBase(d)
            Right(state) == Accounted(state.pkg, d, NotLeft(d, state.kinds))
            I == [n \in 0 .. m |-> {state \in V : Right(state)}]
<1>1. ConfigNames \in Seq(STRING) /\ m \in Nat /\ \A n \in 1 .. m : ConfigNames[n] \in STRING /\ ConfigNames[n] \in Names
  BY PackageAssumption, ElementOfSeq DEF Names, ToSet
<1>2. Existing(d) \in Seq(ExistingRule)
  BY DEF NamesDiffer
<1>3. IsStep(F, V, STRING) /\ base \in V /\ GeneratedPackage(d) = Folded(F, base, ConfigNames).pkg
  BY <1>2, GenerateForType, NewPackageType, GeneratedPackageIsFold DEF FreshState, GenerateBase, Existing
<1>4. base \in I[0]
  <2>1. NotLeft(d, base.kinds) = {}
    BY <1>2 DEF NotLeft, GenerateBase, ExistingKinds, ToSet, Existing
  <2>2. Right(base)
    BY <2>1, AccountedFirst DEF GenerateBase
  <2>3. 0 \in 0 .. m
    BY <1>1
  <2>. HIDE DEF Right, V, base
  <2> QED BY <1>3, <2>2, <2>3
<1>5. ASSUME NEW n \in 1 .. m, NEW state \in V, state \in I[n - 1]
      PROVE  F[state][ConfigNames[n]] \in I[n]
  <2>1. n - 1 \in 0 .. m /\ n \in 0 .. m
    BY <1>1
  <2>2. F[state][ConfigNames[n]] = GenerateFor(state, ConfigNames[n])
    BY <1>1 DEF GenerateFcn
  <2>3. F[state][ConfigNames[n]] \in V
    BY <1>1, <1>3 DEF IsStep
  <2>4. Right(state)
    BY <1>5, <2>1
  <2>5. Right(GenerateFor(state, ConfigNames[n]))
    BY <1>1, <2>4, GenerateForAccounted
  <2>. HIDE DEF Right, V
  <2> QED BY <2>1, <2>2, <2>3, <2>5
<1>6. I[m] = {state \in V : Right(state)}
  <2>1. m \in 0 .. m
    BY <1>1
  <2> QED BY <2>1
<1>. HIDE DEF I, F, V, base
<1>7. Maintained(I, F, V, ConfigNames)
  BY <1>5 DEF Maintained
<1>8. Folded(F, base, ConfigNames) \in I[m]
  BY <1>1, <1>3, <1>4, <1>7, FoldedInvariant
<1>9. Accounted(GeneratedPackage(d), d, NotLeft(d, Folded(F, base, ConfigNames).kinds))
  BY <1>3, <1>6, <1>8
<1> QED BY <1>9 DEF NotLeft
-----------------------------------------------------------------------------
(***************************************************************************)
(* The packages stay accounted for while others are generated and all are  *)
(* resolved: what they were made from does not change any more.            *)
(***************************************************************************)
LabelsOf(d) == {LabelFor(d, r) : r \in ToSet(Existing(d))}

RightPackage(d, gen, labels, managed, total) ==
    /\ NamedOnce(gen) /\ ToSet(labels) \subseteq LabelsOf(d)
    /\ Conventional(d) => managed <= total

\* The registry is complete before the first directory is configured.
FlagsRead ==
    /\ flagNext \in Nat
    /\ at # 1 \/ next # 0 => flagNext > Len(workspace.flags)

IsMadeOf(pkg, d, gen, labels, managed, total) ==
    pkg.dir = d /\ pkg.gen = gen /\ pkg.labels = labels /\ pkg.managed = managed /\ pkg.total = total

PackagesRight ==
    \A p \in DOMAIN packages : \E d \in Done : \E gen, labels, managed, total :
        IsMadeOf(packages[p], d, gen, labels, managed, total) /\ RightPackage(d, gen, labels, managed, total)

AccountInv == FlagsRead /\ PackagesRight

LEMMA WorkspaceType ==
    ASSUME RulesInv
    PROVE  /\ Len(workspace.flags) \in Nat
           /\ \A d \in Dir : NamesDiffer(d) /\ Grounded(workspace.build[d].globals)
<1>1. workspace \in Workspaces
  BY DEF RulesInv, RulesType
<1>2. workspace.flags \in Seq([fqn : STRING, name : STRING])
  BY <1>1, PackageAssumption
<1>3. ASSUME NEW d \in Dir
      PROVE  NamesDiffer(d)
  <2>1. workspace.build[d].existing \in Seq(ExistingRule)
    BY <1>1, PackageAssumption
  <2>2. \A i, j \in DOMAIN workspace.build[d].existing :
          workspace.build[d].existing[i].name = workspace.build[d].existing[j].name => i = j
    BY <1>1, PackageAssumption
  <2> QED BY <2>1, <2>2 DEF NamesDiffer, Existing
<1>4. ASSUME NEW d \in Dir
      PROVE  Grounded(workspace.build[d].globals)
  <2>1. workspace.build[d].globals \in UNION {{w.build[x].globals : x \in Dir} : w \in Workspaces}
    BY <1>1
  <2> QED BY <2>1, PackageAssumption
<1> QED BY <1>2, <1>3, <1>4, LenProperties

\* A package as it is generated.
LEMMA GeneratedRight ==
    ASSUME RulesInv, NEW d \in Dir, NEW pkg, NEW done \in SUBSET DOMAIN Existing(d), Accounted(pkg, d, done),
           pkg.total = Total(d), pkg.managed \in Nat
    PROVE  RightPackage(d, pkg.gen, pkg.labels, pkg.managed, pkg.total)
<1>. DEFINE counts(i) == LET kind == Existing(d)[i].kind IN kind \in Kinds /\ ContributesToCoverage(registry[kind])
            all == {i \in DOMAIN Existing(d) : counts(i)}
<1>1. NamedOnce(pkg.gen)
  BY DEF Accounted
<1>2. ToSet(pkg.labels) \subseteq LabelsOf(d)
  BY DEF Accounted, Labelled, LabelsOf, ToSet
<1>3. ASSUME Conventional(d)
      PROVE  pkg.managed <= pkg.total
  <2>1. pkg.total = Cardinality(all)
    BY DEF Total, Quantify, Existing
  <2>2. Counted(d, done) \subseteq all
    BY <1>3 DEF Counted, Conventional, Existing
  <2>3. NamesDiffer(d)
    BY WorkspaceType
  <2>4. IsFiniteSet(all)
    <3>1. DOMAIN Existing(d) = 1 .. Len(Existing(d)) /\ Len(Existing(d)) \in Nat
      BY <2>3 DEF NamesDiffer
    <3>2. IsFiniteSet(1 .. Len(Existing(d)))
      BY <3>1, FS_Interval
    <3> QED BY <3>1, <3>2, FS_Subset
  <2>5. Cardinality(Counted(d, done)) <= Cardinality(all)
    BY <2>2, <2>4, FS_Subset
  <2>6. Cardinality(all) \in Nat /\ Cardinality(Counted(d, done)) \in Nat
    BY <2>3, <2>4, FS_CardinalityType, CountedType
  <2>7. pkg.managed <= Cardinality(Counted(d, done))
    BY DEF Accounted
  <2> QED BY <2>1, <2>5, <2>6, <2>7
<1> QED BY <1>1, <1>2, <1>3 DEF RightPackage
\* What a package was made from stays as it is.
LEMMA SourcesKept ==
    ASSUME workspace' = workspace, registry' = registry, NEW d \in Dir, settings'[d] = settings[d]
    PROVE  LabelsOf(d)' = LabelsOf(d) /\ Conventional(d)' = Conventional(d)
<1>1. \A r : LabelFor(d, r)' = LabelFor(d, r)
  BY DEF LabelFor, CollectFilenames, Rewritten
<1>2. Existing(d)' = Existing(d)
  BY DEF Existing
<1>3. LabelsOf(d)' = LabelsOf(d)
  BY <1>1, <1>2 DEF LabelsOf
<1>4. Conventional(d)' = Conventional(d)
  BY DEF Conventional, Kinds
<1> QED BY <1>3, <1>4

LEMMA RightKept ==
    ASSUME NEW d, NEW gen, NEW new, NEW labels, NEW managed, NEW total, DOMAIN new = DOMAIN gen,
           \A i \in DOMAIN gen : new[i].name = gen[i].name, RightPackage(d, gen, labels, managed, total)
    PROVE  RightPackage(d, new, labels, managed, total)
BY DEF RightPackage, NamedOnce

\* Packages whose rules keep their names.
NamesKept ==
    /\ DOMAIN packages' = DOMAIN packages
    /\ \A p \in DOMAIN packages :
        LET old == packages[p]
            new == packages'[p]
        IN /\ new.dir = old.dir /\ new.labels = old.labels /\ new.managed = old.managed /\ new.total = old.total
           /\ DOMAIN new.gen = DOMAIN old.gen /\ \A i \in DOMAIN old.gen : new.gen[i].name = old.gen[i].name

LEMMA RightStays ==
    ASSUME workspace' = workspace, registry' = registry, NEW d \in Dir, settings'[d] = settings[d],
           NEW gen, NEW labels, NEW managed, NEW total, RightPackage(d, gen, labels, managed, total)
    PROVE  RightPackage(d, gen, labels, managed, total)'
BY SourcesKept DEF RightPackage

LEMMA PackagesStayRight ==
    ASSUME PackagesRight, workspace' = workspace, registry' = registry, NamesKept, Done \subseteq Done',
           \A d \in Done : d \in Dir /\ settings'[d] = settings[d]
    PROVE  PackagesRight'
<1>. SUFFICES ASSUME NEW p \in DOMAIN packages
              PROVE  \E d \in Done' : \E gen, labels, managed, total :
                        IsMadeOf(packages'[p], d, gen, labels, managed, total)
                        /\ RightPackage(d, gen, labels, managed, total)'
  BY DEF NamesKept, PackagesRight, IsMadeOf
<1>0. PICK d \in Done : \E gen, labels, managed, total :
          IsMadeOf(packages[p], d, gen, labels, managed, total) /\ RightPackage(d, gen, labels, managed, total)
  BY DEF PackagesRight
<1>1. PICK gen, labels, managed, total :
          IsMadeOf(packages[p], d, gen, labels, managed, total) /\ RightPackage(d, gen, labels, managed, total)
  BY <1>0
<1>2. PICK new : new = packages'[p].gen
  OBVIOUS
<1>3. /\ DOMAIN new = DOMAIN gen /\ \A i \in DOMAIN gen : new[i].name = gen[i].name
      /\ IsMadeOf(packages'[p], d, new, labels, managed, total)
  BY <1>1, <1>2 DEF NamesKept, IsMadeOf
<1>4. RightPackage(d, new, labels, managed, total)
  BY <1>1, <1>3, RightKept
<1>5. d \in Dir /\ settings'[d] = settings[d] /\ d \in Done'
  OBVIOUS
<1>6. RightPackage(d, new, labels, managed, total)'
  BY <1>4, <1>5, RightStays
<1> QED BY <1>3, <1>5, <1>6
LEMMA DoneType ==
    ASSUME ListsInv
    PROVE  /\ Done \subseteq Dir /\ (Done # {} => at # 1)
           /\ at \in DOMAIN Order => Order[at] \notin Done
<1>1. at \in Nat /\ DOMAIN Order = 1 .. Len(Order) /\ Len(Order) \in Nat
  BY OrderType DEF ListsInv, ListsType
<1>2. Done \subseteq Dir /\ (Done # {} => at # 1)
  BY <1>1, OrderType DEF Done
<1>3. ASSUME at \in DOMAIN Order
      PROVE  Order[at] \notin Done
  BY <1>1, <1>3, ConfigAssumption DEF Done, IsInjective
<1> QED BY <1>2, <1>3

\* Steps that make and change no package.
AccountFrame ==
    /\ UNCHANGED <<workspace, registry, flagNext>>
    /\ NamesKept /\ Done \subseteq Done'
    /\ \A d \in Done : settings'[d] = settings[d]
    /\ at' # 1 \/ next' # 0 => at # 1 \/ next # 0 \/ flagNext > Len(workspace.flags)

LEMMA AccountFramed ==
    ASSUME AccountInv, ListsInv, AccountFrame
    PROVE  AccountInv'
<1>1. FlagsRead'
  BY DEF AccountInv, AccountFrame, FlagsRead
<1>2. PackagesRight'
  BY DoneType, PackagesStayRight DEF AccountInv, AccountFrame
<1> QED BY <1>1, <1>2 DEF AccountInv

LEMMA SameNames ==
    ASSUME packages' = packages
    PROVE  NamesKept
BY DEF NamesKept

LEMMA AccountSteps ==
    ASSUME RulesInv, ListsInv, ResolveInv, [PackageNext]_<<vars, packageVars>>
    PROVE  RegisterExistingRule \/ GenerateRules \/ AccountFrame
<1>. settings \in [Dir -> SettingsType] /\ Done \subseteq Dir /\ at \in Nat /\ next \in Nat
  BY DoneType DEF RulesInv, RulesType, ListsInv, ListsType
<1>1. CASE ConfigureDirectory
  <2>1. /\ workspace' = workspace /\ registry' = registry /\ flagNext' = flagNext /\ packages' = packages
        /\ at' = at /\ flagNext > Len(workspace.flags) /\ at \in DOMAIN Order
        /\ settings' = settings \/ settings' = [settings EXCEPT ![Order[at]] = settings[Parent[Order[at]]]]
    BY <1>1 DEF ConfigureDirectory, Configure, Configuring, flagVars
  <2>2. \A d \in Done : settings'[d] = settings[d]
    BY <2>1, DoneType
  <2>3. Done' = Done
    BY <2>1 DEF Done
  <2> QED BY <2>1, <2>2, <2>3, SameNames DEF AccountFrame
<1>2. CASE ParseRuleDirective
  <2>1. /\ workspace' = workspace /\ registry' = registry /\ flagNext' = flagNext /\ packages' = packages
        /\ at' = at /\ next' = next /\ at \in DOMAIN Order
        /\ settings' = settings \/ \E x : settings' = [settings EXCEPT ![Order[at]] = x]
    BY <1>2 DEF ParseRuleDirective, flagVars, vars
  <2>2. \A d \in Done : settings'[d] = settings[d]
    BY <2>1, DoneType
  <2>3. Done' = Done
    BY <2>1 DEF Done
  <2> QED BY <2>1, <2>2, <2>3, SameNames DEF AccountFrame
<1>3. CASE ConfigureReturns
  <2>1. /\ workspace' = workspace /\ registry' = registry /\ flagNext' = flagNext /\ packages' = packages
        /\ settings' = settings /\ at' = at + 1 /\ next' = 0 /\ at \in DOMAIN Order /\ next > Len(directives[Order[at]])
    BY <1>3 DEF ConfigureReturns, Configured, Configuring, packageVars, flagVars
  <2>2. Done \subseteq Done'
    <3>1. \A j \in DOMAIN Order : j < at => j < at + 1
      BY OrderType
    <3> QED BY <2>1, <3>1 DEF Done
  <2>3. next # 0
    <3>1. directives[Order[at]] \in Seq(Intent)
      BY <2>1, OrderType DEF ListsInv, ListsType
    <3>2. Len(directives[Order[at]]) \in Nat
      BY <3>1
    <3> QED BY <2>1, <3>2
  <2> QED BY <2>1, <2>2, <2>3, SameNames DEF AccountFrame
<1>4. CASE ParseListDirective
  <2>1. /\ workspace' = workspace /\ registry' = registry /\ flagNext' = flagNext /\ packages' = packages
        /\ settings' = settings /\ at' = at /\ next > 0
    BY <1>4 DEF ParseListDirective, ParseDirective, packageVars, flagVars
  <2>2. Done' = Done
    BY <2>1 DEF Done
  <2> QED BY <2>1, <2>2, SameNames DEF AccountFrame
<1>5. CASE StartResolving \/ Finalize \/ UNCHANGED <<vars, packageVars>>
  <2>1. /\ workspace' = workspace /\ registry' = registry /\ flagNext' = flagNext /\ packages' = packages
        /\ settings' = settings /\ at' = at /\ next' = next
    BY <1>5 DEF StartResolving, Finalize, vars, walkVars, packageVars, flagVars
  <2>2. Done' = Done
    BY <2>1 DEF Done
  <2> QED BY <2>1, <2>2, SameNames DEF AccountFrame
<1>6. CASE Resolve
  <2>. DEFINE r == ResolvedRule(packages[visit], packages[visit].gen[resolving])
  <2>1. /\ workspace' = workspace /\ registry' = registry /\ flagNext' = flagNext
        /\ settings' = settings /\ at' = at /\ next' = next
    BY <1>6 DEF Resolve, vars, walkVars, flagVars
  <2>2. Done' = Done
    BY <2>1 DEF Done
  <2>3. Rewrites(r)
    BY <1>6, ResolveRewrites DEF ResolveInv
  <2>4. IsRule(packages[visit].gen[resolving])
    BY <2>3 DEF Rewrites, RulesOf, ResolveInv, PackagesType, IsPackage
  <2>5. r.name = packages[visit].gen[resolving].name
    BY <2>4, ResolvedRuleType
  <2>. HIDE DEF r
  <2>6. NamesKept
    BY <2>3, <2>5 DEF Rewrites, NamesKept, RulesOf
  <2> QED BY <2>1, <2>2, <2>6 DEF AccountFrame
<1> QED BY <1>1, <1>2, <1>3, <1>4, <1>5, <1>6 DEF PackageNext
LEMMA AccountInvRegister ==
    ASSUME AccountInv, RulesInv, ListsInv, RegisterExistingRule
    PROVE  AccountInv'
<1>1. /\ workspace' = workspace /\ packages' = packages /\ at' = at /\ next' = next
      /\ flagNext' = flagNext + 1 /\ flagNext <= Len(workspace.flags)
  BY DEF RegisterExistingRule, vars
<1>2. Len(workspace.flags) \in Nat /\ flagNext \in Nat
  BY WorkspaceType DEF AccountInv, FlagsRead
<1>3. at = 1 /\ next = 0
  BY <1>1, <1>2 DEF AccountInv, FlagsRead
<1>4. DOMAIN packages = {}
  BY <1>3, DoneType DEF AccountInv, PackagesRight
<1>5. FlagsRead'
  BY <1>1, <1>2, <1>3 DEF FlagsRead
<1> QED BY <1>1, <1>4, <1>5 DEF AccountInv, PackagesRight

\* GenerateRules makes a package that is right, unless it ends the run.
LEMMA GenerateRulesRight ==
    ASSUME RulesInv, ListsInv, GenerateRules
    PROVE  \/ packages' = packages
           \/ \E d \in Done : \E pkg \in FreshPackage(d) :
                /\ packages' = Append(packages, pkg)
                /\ RightPackage(d, pkg.gen, pkg.labels, pkg.managed, pkg.total)
<1>. SUFFICES ASSUME packages' # packages
              PROVE  \E d \in Done : \E pkg \in FreshPackage(d) :
                        /\ packages' = Append(packages, pkg)
                        /\ RightPackage(d, pkg.gen, pkg.labels, pkg.managed, pkg.total)
  OBVIOUS
<1>1. PICK d \in Done :
          \/ /\ packages' = Append(packages, GeneratedPackage(d))
             /\ ~\E n \in ToSet(ConfigNames) :
                    IsConfigured(d, n) /\ ConfigOf(d, n).implementation \notin Kinds
          \/ packages' = Append(packages, NewPackage(d))
  BY DEF GenerateRules, MayGenerate
<1>2. d \in Dir /\ NamesDiffer(d)
  BY DoneType, WorkspaceType
<1>3. ASSUME NEW pkg \in FreshPackage(d), NEW done \in SUBSET DOMAIN Existing(d), Accounted(pkg, d, done)
      PROVE  RightPackage(d, pkg.gen, pkg.labels, pkg.managed, pkg.total)
  <2>1. pkg.total = Total(d) /\ pkg.managed \in Nat
    BY DEF FreshPackage
  <2> QED BY <1>2, <1>3, <2>1, GeneratedRight
<1>4. CASE packages' = Append(packages, NewPackage(d))
  <2>1. NewPackage(d) \in FreshPackage(d) /\ Accounted(NewPackage(d), d, {})
    BY <1>2, NewPackageType, AccountedFirst
  <2>2. {} \in SUBSET DOMAIN Existing(d)
    OBVIOUS
  <2> QED BY <1>3, <1>4, <2>1, <2>2
<1>5. CASE /\ packages' = Append(packages, GeneratedPackage(d))
           /\ ~\E n \in ToSet(ConfigNames) : IsConfigured(d, n) /\ ConfigOf(d, n).implementation \notin Kinds
  <2>1. KindsKnown(d)
    BY <1>5 DEF KindsKnown, Names
  <2>2. GeneratedPackage(d) \in FreshPackage(d)
    BY <1>2, GeneratedPackageType DEF NamesDiffer, Existing
  <2>3. PICK done \in SUBSET DOMAIN Existing(d) : Accounted(GeneratedPackage(d), d, done)
    BY <1>2, <2>1, GeneratedAccounted
  <2> QED BY <1>3, <1>5, <2>2, <2>3
<1> QED BY <1>1, <1>4, <1>5

LEMMA AccountInvGenerate ==
    ASSUME AccountInv, RulesInv, ListsInv, ResolveInv, GenerateRules
    PROVE  AccountInv'
<1>1. /\ workspace' = workspace /\ registry' = registry /\ flagNext' = flagNext
      /\ settings' = settings /\ at' = at /\ next' = next
  BY DEF GenerateRules, vars, flagVars
<1>2. FlagsRead'
  BY <1>1 DEF AccountInv, FlagsRead
<1>3. Done' = Done /\ Done \subseteq Dir
  BY <1>1, DoneType DEF Done
<1>4. CASE packages' = packages
  BY <1>1, <1>2, <1>3, <1>4, SameNames, PackagesStayRight DEF AccountInv
<1>5. CASE \E d \in Done : \E pkg \in FreshPackage(d) :
              /\ packages' = Append(packages, pkg)
              /\ RightPackage(d, pkg.gen, pkg.labels, pkg.managed, pkg.total)
  <2>. PICK d \in Done :
          \E pkg \in FreshPackage(d) :
              /\ packages' = Append(packages, pkg)
              /\ RightPackage(d, pkg.gen, pkg.labels, pkg.managed, pkg.total)
    BY <1>5
  <2>1. PICK pkg \in FreshPackage(d) :
            /\ packages' = Append(packages, pkg)
            /\ RightPackage(d, pkg.gen, pkg.labels, pkg.managed, pkg.total)
    OBVIOUS
  <2>2. /\ DOMAIN packages' = 1 .. Len(packages) + 1 /\ Len(packages) \in Nat /\ DOMAIN packages = 1 .. Len(packages)
        /\ packages'[Len(packages) + 1] = pkg /\ \A p \in DOMAIN packages : packages'[p] = packages[p]
    BY <2>1, SeqAppended DEF ResolveInv, PackagesType
  <2>3. pkg.dir = d
    BY DEF FreshPackage
  <2>. DEFINE Right(p) == \E x \in Done' : \E gen, labels, managed, total :
                            IsMadeOf(packages'[p], x, gen, labels, managed, total)
                            /\ RightPackage(x, gen, labels, managed, total)'
  <2>4. ASSUME NEW p \in DOMAIN packages
        PROVE  Right(p)
    <3>0. PICK x \in Done : \E gen, labels, managed, total :
              IsMadeOf(packages[p], x, gen, labels, managed, total) /\ RightPackage(x, gen, labels, managed, total)
      BY DEF AccountInv, PackagesRight
    <3>1. PICK gen, labels, managed, total :
              IsMadeOf(packages[p], x, gen, labels, managed, total) /\ RightPackage(x, gen, labels, managed, total)
      BY <3>0
    <3>2. IsMadeOf(packages'[p], x, gen, labels, managed, total)
      BY <2>2, <3>1
    <3>3. RightPackage(x, gen, labels, managed, total)'
      BY <1>1, <1>3, <3>1, RightStays
    <3> QED BY <1>3, <3>2, <3>3
  <2>5. Right(Len(packages) + 1)
    <3>1. PICK gen, labels, managed, total : IsMadeOf(pkg, d, gen, labels, managed, total)
      BY <2>3 DEF IsMadeOf
    <3>2. RightPackage(d, gen, labels, managed, total)
      BY <2>1, <3>1 DEF IsMadeOf
    <3>3. RightPackage(d, gen, labels, managed, total)'
      BY <1>1, <1>3, <3>2, RightStays
    <3>4. IsMadeOf(packages'[Len(packages) + 1], d, gen, labels, managed, total)
      BY <2>2, <3>1
    <3> QED BY <1>3, <3>3, <3>4
  <2>6. \A p \in DOMAIN packages' : p \in DOMAIN packages \/ p = Len(packages) + 1
    BY <2>2
  <2>7. \A p \in DOMAIN packages' : Right(p)
    <3>. HIDE DEF Right
    <3> QED BY <2>4, <2>5, <2>6
  <2>8. PackagesRight'
    BY <2>7 DEF PackagesRight, IsMadeOf
  <2> QED BY <1>2, <2>8 DEF AccountInv
<1> QED BY <1>4, <1>5, GenerateRulesRight

LEMMA AccountInvInit == PackageInit => AccountInv
<1>. SUFFICES ASSUME PackageInit
              PROVE  AccountInv
  OBVIOUS
<1>1. flagNext = 1 /\ at = 1 /\ next = 0 /\ packages = <<>>
  BY DEF PackageInit, ConfigInit
<1>2. DOMAIN packages = {}
  BY <1>1
<1> QED BY <1>1, <1>2 DEF AccountInv, FlagsRead, PackagesRight

\* What every package was made from, and that the registry did not change since.
THEOREM AccountInvariance == PackageSpec => []AccountInv
<1>1. PackageInit => AccountInv
  BY AccountInvInit
<1>2. AccountInv /\ ListsInv /\ RulesInv /\ ResolveInv /\ [PackageNext]_<<vars, packageVars>> => AccountInv'
  BY AccountSteps, AccountInvRegister, AccountInvGenerate, AccountFramed
<1> QED BY <1>1, <1>2, ListsInvariance, RulesInvariance, ResolveInvariance, PTL DEF PackageSpec

\* Every existing rule is taken on once at most; its srcs, if they are written in the simple
\* way, are what Bazel makes of them, as far as they are files of the package; and the
\* coverage does not count more rules as managed than there are.
THEOREM PackagesAccountedFor == PackageSpec => []PackageAccounted
<1>1. AccountInv /\ RulesInv /\ ListsInv /\ ResolveInv => PackageAccounted
  <2>. SUFFICES ASSUME AccountInv, RulesInv, ListsInv, ResolveInv, NEW p \in DOMAIN packages
                PROVE  LET pkg == packages[p]
                           existing == workspace.build[pkg.dir].existing
                       IN /\ \A i \in DOMAIN existing :
                                existing[i].name # "scala_files" /\ existing[i].kind \in Kinds =>
                                    Cardinality(TakenOn(pkg, existing[i])) <= 1
                          /\ \A l \in ToSet(pkg.labels) : \E i \in DOMAIN existing :
                                LET srcs == existing[i].srcs
                                    globals == workspace.build[pkg.dir].globals
                                    own == OwnFiles(pkg.dir)
                                IN /\ l.label = Rewritten(pkg.dir, existing[i])
                                   /\ Simple(globals, srcs) =>
                                        l.files \cap own = Evaluate(globals, own, srcs).files \cap own
                          /\ Conventional(pkg.dir) => pkg.managed <= pkg.total
    BY DEF PackageAccounted
  <2>1. PICK pkg : pkg = packages[p]
    OBVIOUS
  <2>2. PICK d : d = pkg.dir
    OBVIOUS
  <2>3. d \in Dir /\ RightPackage(d, pkg.gen, pkg.labels, pkg.managed, pkg.total)
    BY <2>1, <2>2, DoneType DEF AccountInv, PackagesRight, IsMadeOf
  <2>4. NamesDiffer(d) /\ Grounded(workspace.build[d].globals) /\ IsFiniteSet(Expr)
    BY <2>3, WorkspaceType, PackageAssumption
  <2>5. ASSUME NEW r, r.name # "scala_files"
        PROVE  Cardinality(TakenOn(pkg, r)) <= 1
    <3>1. \A i, j \in TakenOn(pkg, r) : i = j
      BY <2>3, <2>5 DEF TakenOn, RightPackage, NamedOnce
    <3>2. CASE TakenOn(pkg, r) = {}
      BY <3>2, FS_EmptySet
    <3>3. CASE TakenOn(pkg, r) # {}
      <4>1. PICK i : TakenOn(pkg, r) = {i}
        BY <3>1, <3>3
      <4> QED BY <4>1, FS_Singleton
    <3> QED BY <3>2, <3>3
  <2>6. ASSUME NEW l \in ToSet(pkg.labels)
        PROVE  \E i \in DOMAIN Existing(d) :
                  /\ l.label = Rewritten(d, Existing(d)[i])
                  /\ Simple(workspace.build[d].globals, Existing(d)[i].srcs) =>
                        l.files \cap OwnFiles(d) =
                            Evaluate(workspace.build[d].globals, OwnFiles(d), Existing(d)[i].srcs).files \cap OwnFiles(d)
    <3>1. PICK i \in DOMAIN Existing(d) : l = LabelFor(d, Existing(d)[i])
      BY <2>3 DEF RightPackage, LabelsOf, ToSet
    <3>2. Existing(d)[i].srcs \in Expr
      <4>1. Existing(d)[i] \in ExistingRule
        BY <2>4, ElementOfSeq DEF NamesDiffer
      <4> QED BY <4>1 DEF ExistingRule
    <3>. DEFINE srcs == Existing(d)[i].srcs
                globals == workspace.build[d].globals
                tree == {f.name : f \in workspace.build[d].tree}
    <3>3. l.label = Rewritten(d, Existing(d)[i]) /\ l.files = FromExpr(globals, tree, srcs).files
      BY <3>1 DEF LabelFor, CollectFilenames
    <3>4. OwnFiles(d) \subseteq tree
      BY DEF OwnFiles
    <3>5. Simple(globals, srcs) =>
              FromExpr(globals, tree, srcs).files \cap OwnFiles(d) = Evaluate(globals, OwnFiles(d), srcs).files \cap OwnFiles(d)
      <4>1. SUFFICES ASSUME NEW g, NEW t, NEW o, NEW e \in Expr, Grounded(g), o \subseteq t, Simple(g, e)
                     PROVE  FromExpr(g, t, e).files \cap o = Evaluate(g, o, e).files \cap o
        BY <2>4, <3>2, <3>4
      <4>2. IsFiniteSet(Expr)
        BY <2>4
      <4> QED BY <4>1, <4>2, SimpleRead
    <3> QED BY <3>3, <3>5
  <2>7. Conventional(d) => pkg.managed <= pkg.total
    BY <2>3 DEF RightPackage
  <2> QED BY <2>1, <2>2, <2>5, <2>6, <2>7 DEF Existing
<1> QED BY <1>1, AccountInvariance, ListsInvariance, RulesInvariance, ResolveInvariance, PTL
=============================================================================
