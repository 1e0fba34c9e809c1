----------------------------- MODULE Tools_proofs -----------------------------
(***************************************************************************)
(* Proofs about three of the programs beside gazelle: the wildcard import  *)
(* fixer, whatever the file, the names it uses and those the compiler      *)
(* reports first, and wherever it is killed or fails; autokeep, whatever a build    *)
(* prints and the BUILD files hold, and wherever it stops; and mergeindex, *)
(* with the providers that read its index and what else they find.         *)
(***************************************************************************)
EXTENDS WildcardFixer, AutoKeep, IndexProviders, Induction, TLAPS

-----------------------------------------------------------------------------
(***************************************************************************)
(* The wildcard import fixer.                                              *)
(***************************************************************************)

\* The lines that the file may ever have.
AnyLine ==
    (UNION {ToSet(text) : text \in Texts}) \cup {Target, CommentedTarget, Piece}
    \cup {ImportOf(these) : these \in SUBSET Used}
Lines == Seq(AnyLine)
File == [found : BOOLEAN, ended : BOOLEAN, before : Lines, after : Lines]

\* The turns of the two loops over a text, as functions.
OtherFcn == [lines \in Lines |-> [line \in AnyLine |-> TakeOther(lines, line)]]
ReadFcn == [file \in File |-> [line \in AnyLine |-> ReadLine(file, line)]]
-----------------------------------------------------------------------------
LEMMA OtherType == IsStep(OtherFcn, Lines, AnyLine) /\ <<>> \in Lines
<1>1. ASSUME NEW lines \in Lines, NEW line \in AnyLine
      PROVE  TakeOther(lines, line) \in Lines
  BY DEF TakeOther, Lines
<1>2. <<>> \in Lines
  BY DEF Lines
<1> QED BY <1>1, <1>2 DEF OtherFcn, IsStep

LEMMA OthersIsFold ==
    ASSUME NEW text \in Seq(AnyLine)
    PROVE  Others(text) = Folded(OtherFcn, <<>>, text)
<1>. DEFINE m == Len(text)
            IsIter(h) == h = [s \in SUBSET (1 .. m) |->
                                 IF s = {} THEN <<>> ELSE TakeOther(h[s \ {Max(s)}], text[Max(s)])]
            step == PositionSteps(OtherFcn, Lines, text)
            iter == CHOOSE h : IsIter(h)
<1>1. m \in Nat /\ DOMAIN text = 1 .. m
  OBVIOUS
<1>2. Others(text) = iter[1 .. m]
  BY <1>1 DEF Others, FoldLeft, MapThenFoldSet
<1>3. step \in [1 .. m -> [Lines -> Lines]]
  BY OtherType DEF PositionSteps, IsStep
<1>4. PICK f : IsFold(f, Lines, <<>>, step, m)
  BY <1>1, <1>3, OtherType, FoldExists
<1>5. ASSUME NEW s \in SUBSET (1 .. m), s # {}
      PROVE  Max(s) \in 1 .. m
  <2>1. \E x \in s : \A y \in s : x >= y
    BY <1>1, <1>5, RangeHasMax
  <2> QED BY <2>1 DEF Max
<1>6. ASSUME NEW s \in SUBSET (1 .. m), s # {}, NEW x \in Lines
      PROVE  step[Max(s)][x] = TakeOther(x, text[Max(s)])
  BY <1>5, <1>6 DEF PositionSteps, OtherFcn
<1>. HIDE DEF step
<1>7. IsIter(f)
  BY <1>4, <1>6 DEF IsFold
<1>8. IsIter(iter)
  <2>. HIDE DEF IsIter
  <2> QED BY <1>7
<1>. HIDE DEF iter
<1>9. FoldsLeft(iter, OtherFcn, Lines, AnyLine, <<>>, text)
  <2>1. iter = [s \in SUBSET (1 .. m) |-> iter[s]]
    BY <1>8
  <2>2. ASSUME NEW s \in SUBSET (1 .. m), s # {}, iter[s \ {Max(s)}] \in Lines
        PROVE  iter[s] = OtherFcn[iter[s \ {Max(s)}]][text[Max(s)]]
    <3>1. text[Max(s)] \in AnyLine
      BY <1>5, <2>2, ElementOfSeq
    <3>2. iter[s] = TakeOther(iter[s \ {Max(s)}], text[Max(s)])
      BY <1>8, <2>2
    <3> QED BY <2>2, <3>1, <3>2 DEF OtherFcn
  <2>3. iter[{}] = <<>>
    BY <1>8
  <2>. HIDE DEF IsIter
  <2> QED BY <2>1, <2>2, <2>3, OtherType DEF FoldsLeft
<1>10. iter[1 .. Len(text)] = Folded(OtherFcn, <<>>, text)
  BY <1>9, FoldLeftFolds
<1> QED BY <1>2, <1>10

LEMMA ReadType == IsStep(ReadFcn, File, AnyLine) /\ NoTextFile \in File
<1>1. ASSUME NEW file \in File, NEW line \in AnyLine
      PROVE  ReadLine(file, line) \in File
  <2>1. file.before \in Lines /\ file.after \in Lines
    BY DEF File
  <2>2. Append(file.before, line) \in Lines /\ Append(file.after, line) \in Lines
    BY <2>1 DEF Lines
  <2> QED BY <2>1, <2>2 DEF ReadLine, File
<1>2. NoTextFile \in File
  <2>1. <<>> \in Lines
    BY DEF Lines
  <2> QED BY <2>1 DEF NoTextFile, File
<1> QED BY <1>1, <1>2 DEF ReadFcn, IsStep

LEMMA SplitIsFold ==
    ASSUME NEW text \in Seq(AnyLine)
    PROVE  Split(text) = Folded(ReadFcn, NoTextFile, text)
<1>. DEFINE m == Len(text)
            IsIter(h) == h = [s \in SUBSET (1 .. m) |->
                                 IF s = {} THEN NoTextFile ELSE ReadLine(h[s \ {Max(s)}], text[Max(s)])]
            step == PositionSteps(ReadFcn, File, text)
            iter == CHOOSE h : IsIter(h)
<1>1. m \in Nat /\ DOMAIN text = 1 .. m
  OBVIOUS
<1>2. Split(text) = iter[1 .. m]
  BY <1>1 DEF Split, FoldLeft, MapThenFoldSet
<1>3. step \in [1 .. m -> [File -> File]]
  BY ReadType DEF PositionSteps, IsStep
<1>4. PICK f : IsFold(f, File, NoTextFile, step, m)
  BY <1>1, <1>3, ReadType, FoldExists
<1>5. ASSUME NEW s \in SUBSET (1 .. m), s # {}
      PROVE  Max(s) \in 1 .. m
  <2>1. \E x \in s : \A y \in s : x >= y
    BY <1>1, <1>5, RangeHasMax
  <2> QED BY <2>1 DEF Max
<1>6. ASSUME NEW s \in SUBSET (1 .. m), s # {}, NEW x \in File
      PROVE  step[Max(s)][x] = ReadLine(x, text[Max(s)])
  BY <1>5, <1>6 DEF PositionSteps, ReadFcn
<1>. HIDE DEF step
<1>7. IsIter(f)
  BY <1>4, <1>6 DEF IsFold
<1>8. IsIter(iter)
  <2>. HIDE DEF IsIter
  <2> QED BY <1>7
<1>. HIDE DEF iter
<1>9. FoldsLeft(iter, ReadFcn, File, AnyLine, NoTextFile, text)
  <2>1. iter = [s \in SUBSET (1 .. m) |-> iter[s]]
    BY <1>8
  <2>2. ASSUME NEW s \in SUBSET (1 .. m), s # {}, iter[s \ {Max(s)}] \in File
        PROVE  iter[s] = ReadFcn[iter[s \ {Max(s)}]][text[Max(s)]]
    <3>1. text[Max(s)] \in AnyLine
      BY <1>5, <2>2, ElementOfSeq
    <3>2. iter[s] = ReadLine(iter[s \ {Max(s)}], text[Max(s)])
      BY <1>8, <2>2
    <3> QED BY <2>2, <3>1, <3>2 DEF ReadFcn
  <2>3. iter[{}] = NoTextFile
    BY <1>8
  <2>. HIDE DEF IsIter
  <2> QED BY <2>1, <2>2, <2>3, ReadType DEF FoldsLeft
<1>10. iter[1 .. Len(text)] = Folded(ReadFcn, NoTextFile, text)
  BY <1>9, FoldLeftFolds
<1> QED BY <1>2, <1>10

-----------------------------------------------------------------------------
(***************************************************************************)
(* What the two loops compute.                                             *)
(***************************************************************************)
LEMMA LinesOfAppend ==
    ASSUME NEW text \in Lines, NEW line \in AnyLine
    PROVE  ToSet(Append(text, line)) = ToSet(text) \cup {line} /\ ToSet(text) \subseteq AnyLine
<1>1. /\ DOMAIN text = 1 .. Len(text) /\ Len(text) \in Nat
      /\ DOMAIN Append(text, line) = 1 .. (Len(text) + 1)
      /\ Append(text, line)[Len(text) + 1] = line
      /\ \A i \in 1 .. Len(text) : Append(text, line)[i] = text[i] /\ text[i] \in AnyLine
  BY DEF Lines
<1> QED BY <1>1 DEF ToSet

LEMMA NoLines == ToSet(<<>>) = {} /\ <<>> \in Lines
BY DEF ToSet, Lines

\* A text from three parts.
LEMMA LinesOfParts ==
    ASSUME NEW first \in Lines, NEW line \in AnyLine, NEW rest \in Lines
    PROVE  /\ first \o <<line>> \o rest \in Lines
           /\ ToSet(first \o <<line>> \o rest) = ToSet(first) \cup {line} \cup ToSet(rest)
<1>. DEFINE n == Len(first)
            m == Len(rest)
            all == first \o <<line>> \o rest
<1>1. /\ n \in Nat /\ m \in Nat /\ DOMAIN first = 1 .. n /\ DOMAIN rest = 1 .. m
      /\ all \in Lines /\ DOMAIN all = 1 .. (n + 1 + m)
  BY DEF Lines
<1>2. \A i \in 1 .. n : all[i] = first[i] /\ i \in DOMAIN all
  BY <1>1 DEF Lines
<1>3. all[n + 1] = line /\ n + 1 \in DOMAIN all
  BY <1>1 DEF Lines
<1>4. \A i \in 1 .. m : all[n + 1 + i] = rest[i] /\ n + 1 + i \in DOMAIN all
  BY <1>1 DEF Lines
<1>5. \A i \in DOMAIN all : i \in 1 .. n \/ i = n + 1 \/ (i - (n + 1) \in 1 .. m /\ i = n + 1 + (i - (n + 1)))
  <2>. HIDE DEF all, n, m
  <2> QED BY <1>1
<1>. HIDE DEF all, n, m
<1>6. ToSet(all) = ToSet(first) \cup {line} \cup ToSet(rest)
  <2>1. ASSUME NEW x \in ToSet(all)
        PROVE  x \in ToSet(first) \cup {line} \cup ToSet(rest)
    <3>1. PICK i \in DOMAIN all : x = all[i]
      BY <2>1 DEF ToSet
    <3>2. CASE i \in 1 .. n
      BY <1>1, <1>2, <3>1, <3>2 DEF ToSet
    <3>3. CASE i = n + 1
      BY <1>3, <3>1, <3>3
    <3>4. CASE i - (n + 1) \in 1 .. m /\ i = n + 1 + (i - (n + 1))
      <4>1. x = rest[i - (n + 1)]
        BY <1>4, <3>1, <3>4
      <4> QED BY <1>1, <3>4, <4>1 DEF ToSet
    <3> QED BY <1>5, <3>2, <3>3, <3>4
  <2>2. ASSUME NEW x \in ToSet(first) \cup {line} \cup ToSet(rest)
        PROVE  x \in ToSet(all)
    BY <1>1, <1>2, <1>3, <1>4 DEF ToSet
  <2> QED BY <2>1, <2>2
<1> QED BY <1>1, <1>6 DEF all

LEMMA OthersStep ==
    ASSUME NEW text \in Lines, NEW line \in AnyLine
    PROVE  /\ Others(text) \in Lines
           /\ Others(<<>>) = <<>>
           /\ Others(Append(text, line)) = IF IsOther(line) THEN Append(Others(text), line) ELSE Others(text)
<1>1. Append(text, line) \in Seq(AnyLine) /\ text \in Seq(AnyLine) /\ <<>> \in Seq(AnyLine)
  BY DEF Lines
<1>f. /\ Others(text) = Folded(OtherFcn, <<>>, text)
      /\ Others(<<>>) = Folded(OtherFcn, <<>>, <<>>)
      /\ Others(Append(text, line)) = Folded(OtherFcn, <<>>, Append(text, line))
  <2>. HIDE DEF Lines
  <2> QED BY <1>1, OthersIsFold
<1>t. IsStep(OtherFcn, Lines, AnyLine) /\ <<>> \in Lines
  BY OtherType
<1>2. Others(text) \in Lines
  <2>1. Folded(OtherFcn, <<>>, text) \in Lines
    BY <1>1, <1>t, FoldedType
  <2> QED BY <1>f, <2>1
<1>3. Others(<<>>) = <<>>
  <2>1. Folded(OtherFcn, <<>>, <<>>) = <<>>
    BY <1>t, FoldedEmpty
  <2> QED BY <1>f, <2>1
<1>4. Others(Append(text, line)) = OtherFcn[Others(text)][line]
  <2>1. Folded(OtherFcn, <<>>, Append(text, line)) = OtherFcn[Folded(OtherFcn, <<>>, text)][line]
    BY <1>1, <1>t, FoldedAppend
  <2> QED BY <1>f, <2>1
<1> QED BY <1>2, <1>3, <1>4 DEF OtherFcn, TakeOther

\* The other lines of two texts, one behind the other.
LEMMA OthersConcat ==
    ASSUME NEW first \in Lines, NEW rest \in Lines
    PROVE  Others(first \o rest) = Others(first) \o Others(rest)
<1>. DEFINE Both(t) == Others(first \o t) = Others(first) \o Others(t)
            S == {t \in Lines : Both(t)}
<1>. HIDE DEF Both
<1>1. Both(<<>>)
  <2>1. Others(first) \in Lines /\ Others(<<>>) = <<>>
    <3>1. Target \in AnyLine
      BY DEF AnyLine
    <3> QED BY <3>1, OthersStep
  <2>2. first \o <<>> = first /\ Others(first) \o <<>> = Others(first)
    BY <2>1 DEF Lines
  <2> QED BY <2>1, <2>2 DEF Both
<1>2. ASSUME NEW t \in Seq(AnyLine), NEW x \in AnyLine, Both(t)
      PROVE  Both(Append(t, x))
  <2>1. /\ t \in Lines /\ first \o t \in Lines /\ first \o Append(t, x) = Append(first \o t, x)
    BY DEF Lines
  <2>2. Others(first) \in Lines /\ Others(t) \in Lines
    BY <2>1, OthersStep
  <2>3. Others(first) \o Append(Others(t), x) = Append(Others(first) \o Others(t), x)
    BY <2>2 DEF Lines
  <2>4. Others(Append(t, x)) = IF IsOther(x) THEN Append(Others(t), x) ELSE Others(t)
    BY <2>1, OthersStep
  <2>5. Others(Append(first \o t, x)) =
            IF IsOther(x) THEN Append(Others(first \o t), x) ELSE Others(first \o t)
    BY <2>1, OthersStep
  <2> QED BY <1>2, <2>1, <2>3, <2>4, <2>5 DEF Both
<1>3. <<>> \in S /\ \A t \in Seq(AnyLine) : \A x \in AnyLine : t \in S => Append(t, x) \in S
  BY <1>1, <1>2, NoLines DEF Lines
<1>. HIDE DEF S
<1>4. Seq(AnyLine) \subseteq S
  BY <1>3, SequenceInduction
<1> QED BY <1>4 DEF S, Both, Lines

\* What is read of a text: the lines that are no targets, split at the first one, and only
\* those before a line that is too long.
IsSplit(text) ==
    /\ Split(text) \in File
    /\ Split(text).ended <=> TooLong \in ToSet(text)
    /\ Split(text).found => \E line \in ToSet(text) : IsTarget(line)
    /\ ~Split(text).found => Split(text).after = <<>>
    /\ ToSet(Split(text).before) \cup ToSet(Split(text).after) \subseteq {line \in ToSet(text) : ~IsTarget(line)}
    /\ \E rest \in Lines : Others(text) = Others(Split(text).before) \o Others(Split(text).after) \o rest
    /\ ~Split(text).ended =>
        /\ (\E line \in ToSet(text) : IsTarget(line)) => Split(text).found
        /\ Others(Split(text).before) \o Others(Split(text).after) = Others(text)

LEMMA SplitStep ==
    ASSUME NEW text \in Lines, NEW line \in AnyLine
    PROVE  /\ Split(text) \in File
           /\ Split(<<>>) = NoTextFile
           /\ Split(Append(text, line)) = ReadLine(Split(text), line)
<1>1. Append(text, line) \in Seq(AnyLine) /\ text \in Seq(AnyLine) /\ <<>> \in Seq(AnyLine)
  BY DEF Lines
<1>f. /\ Split(text) = Folded(ReadFcn, NoTextFile, text)
      /\ Split(<<>>) = Folded(ReadFcn, NoTextFile, <<>>)
      /\ Split(Append(text, line)) = Folded(ReadFcn, NoTextFile, Append(text, line))
  <2>. HIDE DEF Lines
  <2> QED BY <1>1, SplitIsFold
<1>t. IsStep(ReadFcn, File, AnyLine) /\ NoTextFile \in File
  BY ReadType
<1>2. Split(text) \in File
  <2>1. Folded(ReadFcn, NoTextFile, text) \in File
    BY <1>1, <1>t, FoldedType
  <2> QED BY <1>f, <2>1
<1>3. Split(<<>>) = NoTextFile
  <2>1. Folded(ReadFcn, NoTextFile, <<>>) = NoTextFile
    BY <1>t, FoldedEmpty
  <2> QED BY <1>f, <2>1
<1>4. Split(Append(text, line)) = ReadFcn[Split(text)][line]
  <2>1. Folded(ReadFcn, NoTextFile, Append(text, line)) = ReadFcn[Folded(ReadFcn, NoTextFile, text)][line]
    BY <1>1, <1>t, FoldedAppend
  <2> QED BY <1>f, <2>1
<1> QED BY <1>2, <1>3, <1>4 DEF ReadFcn

\* A line is added behind two texts.
LEMMA AppendToBoth ==
    ASSUME NEW first \in Lines, NEW second \in Lines, NEW line \in AnyLine
    PROVE  Append(first \o second, line) = first \o Append(second, line) /\ Append(second, line) \in Lines
BY DEF Lines

LEMMA Joined ==
    ASSUME NEW first \in Lines, NEW second \in Lines
    PROVE  first \o second \in Lines /\ first \o <<>> = first
BY DEF Lines

\* All the other lines are a beginning of them.
LEMMA WholeIsBeginning ==
    ASSUME NEW text \in Lines, NEW x, x = Others(text)
    PROVE  \E more \in Lines : Others(text) = x \o more
<1>1. Others(text) \in Seq(AnyLine) /\ <<>> \in Lines
  <2>1. Piece \in AnyLine
    BY DEF AnyLine
  <2> QED BY <2>1, OthersStep, NoLines DEF Lines
<1>2. Others(text) \o <<>> = Others(text)
  BY <1>1
<1> QED BY <1>1, <1>2

LEMMA TargetKinds == \A x : IsTarget(x) => ~IsOther(x) /\ x # TooLong
<1>1. /\ Target.kind = "import P._" /\ CommentedTarget.kind = "// import P._" /\ TooLong.kind = "too long"
  BY DEF Target, CommentedTarget, TooLong, Line
<1>2. \A x : IsTarget(x) => x.kind \in ImportKinds /\ x.kind # "too long"
  BY <1>1 DEF IsTarget, ImportKinds
<1> QED BY <1>1, <1>2 DEF IsOther

LEMMA SplitAppend ==
    ASSUME NEW text \in Lines, NEW line \in AnyLine, IsSplit(text)
    PROVE  IsSplit(Append(text, line))
<1>. DEFINE longer == Append(text, line)
            old == Split(text)
            new == Split(longer)
<1>1. /\ old \in File /\ old.found \in BOOLEAN /\ old.ended \in BOOLEAN
      /\ old.before \in Lines /\ old.after \in Lines
      /\ new = ReadLine(old, line)
  BY SplitStep DEF File
<1>2. /\ ToSet(longer) = ToSet(text) \cup {line}
      /\ ToSet(Append(old.before, line)) = ToSet(old.before) \cup {line}
      /\ ToSet(Append(old.after, line)) = ToSet(old.after) \cup {line}
  BY <1>1, LinesOfAppend
<1>3. longer \in Lines /\ new \in File
  <2>1. longer \in Lines
    BY DEF Lines
  <2> QED BY <2>1, SplitStep
<1>4. /\ old.ended <=> TooLong \in ToSet(text)
      /\ old.found => \E l \in ToSet(text) : IsTarget(l)
      /\ ~old.found => old.after = <<>>
      /\ ToSet(old.before) \cup ToSet(old.after) \subseteq {l \in ToSet(text) : ~IsTarget(l)}
      /\ ~old.ended =>
            /\ (\E l \in ToSet(text) : IsTarget(l)) => old.found
            /\ Others(old.before) \o Others(old.after) = Others(text)
  BY DEF IsSplit
<1>r. PICK rest \in Lines : Others(text) = Others(old.before) \o Others(old.after) \o rest
  BY DEF IsSplit
<1>5. /\ Others(longer) = IF IsOther(line) THEN Append(Others(text), line) ELSE Others(text)
      /\ Others(Append(old.before, line)) =
             IF IsOther(line) THEN Append(Others(old.before), line) ELSE Others(old.before)
      /\ Others(Append(old.after, line)) =
             IF IsOther(line) THEN Append(Others(old.after), line) ELSE Others(old.after)
      /\ Others(old.before) \in Lines /\ Others(old.after) \in Lines /\ Others(<<>>) = <<>>
  BY <1>1, OthersStep
<1>6. /\ Append(Others(old.before) \o Others(old.after), line) = Others(old.before) \o Append(Others(old.after), line)
      /\ Append(Others(old.before) \o Others(old.after) \o rest, line) = Others(old.before) \o Others(old.after) \o Append(rest, line)
      /\ Append(rest, line) \in Lines /\ <<>> \in Lines
      /\ Append(Others(old.before), line) = Append(Others(old.before), line) \o <<>>
      /\ Others(old.before) \o <<>> = Others(old.before)
  <2>1. PICK b : b = Others(old.before) /\ b \in Lines
    BY <1>5
  <2>2. PICK a : a = Others(old.after) /\ a \in Lines
    BY <1>5
  <2>3. PICK more : more = Append(b, line) /\ more \in Lines /\ Append(rest, line) \in Lines
    BY <2>1, AppendToBoth
  <2>4. PICK both : both = b \o a /\ both \in Lines
    BY <2>1, <2>2, Joined
  <2>5. Append(both, line) = b \o Append(a, line)
    BY <2>1, <2>2, <2>4, AppendToBoth
  <2>6. Append(both \o rest, line) = both \o Append(rest, line)
    BY <2>4, AppendToBoth
  <2>7. more \o <<>> = more /\ b \o <<>> = b
    BY <2>1, <2>3, Joined
  <2>. HIDE DEF old
  <2> QED BY <2>1, <2>2, <2>3, <2>4, <2>5, <2>6, <2>7, NoLines
<1>7. \A x : IsTarget(x) => ~IsOther(x) /\ x # TooLong
  BY TargetKinds
<1>8. CASE old.ended \/ line = TooLong
  <2>1. new.ended /\ new.found = old.found /\ new.before = old.before /\ new.after = old.after
    BY <1>1, <1>8 DEF ReadLine, File
  <2>2. TooLong \in ToSet(longer)
    BY <1>2, <1>4, <1>8
  <2>3. \E more \in Lines : Others(longer) = Others(new.before) \o Others(new.after) \o more
    BY <1>r, <1>5, <1>6, <2>1
  <2>4. ToSet(new.before) \cup ToSet(new.after) \subseteq {l \in ToSet(longer) : ~IsTarget(l)}
    BY <1>2, <1>4, <2>1
  <2> QED BY <1>2, <1>3, <1>4, <2>1, <2>2, <2>3, <2>4 DEF IsSplit
<1>. DEFINE OthersKept ==
        /\ Others(new.before) \o Others(new.after) = Others(longer)
        /\ \E more \in Lines : Others(longer) = Others(new.before) \o Others(new.after) \o more
<1>9. CASE ~old.ended /\ IsTarget(line)
  <2>1. new.found /\ ~new.ended /\ new.before = old.before /\ new.after = old.after
    BY <1>1, <1>7, <1>9 DEF ReadLine, File
  <2>2. OthersKept
    BY <1>r, <1>4, <1>5, <1>7, <1>9, <2>1
  <2>3. ToSet(new.before) \cup ToSet(new.after) \subseteq {l \in ToSet(longer) : ~IsTarget(l)}
    BY <1>2, <1>4, <2>1
  <2>4. TooLong \notin ToSet(longer) /\ line \in ToSet(longer)
    BY <1>2, <1>4, <1>7, <1>9
  <2> QED BY <1>3, <1>9, <2>1, <2>2, <2>3, <2>4 DEF IsSplit
<1>10. CASE ~old.ended /\ line # TooLong /\ ~IsTarget(line) /\ old.found
  <2>1. new.found /\ ~new.ended /\ new.before = old.before /\ new.after = Append(old.after, line)
    BY <1>1, <1>10 DEF ReadLine, File
  <2>2. Others(new.before) \o Others(new.after) = Others(longer)
    BY <1>4, <1>5, <1>6, <1>10, <2>1
  <2>3. ToSet(new.before) \cup ToSet(new.after) \subseteq {l \in ToSet(longer) : ~IsTarget(l)}
    BY <1>2, <1>4, <1>10, <2>1
  <2>4. (\E l \in ToSet(longer) : IsTarget(l)) /\ TooLong \notin ToSet(longer)
    BY <1>2, <1>4, <1>10
  <2>5. OthersKept
    BY <1>3, <2>2, WholeIsBeginning
  <2> QED BY <1>3, <2>1, <2>3, <2>4, <2>5 DEF IsSplit
<1>11. CASE ~old.ended /\ line # TooLong /\ ~IsTarget(line) /\ ~old.found
  <2>1. ~new.found /\ ~new.ended /\ new.before = Append(old.before, line) /\ new.after = <<>>
    BY <1>1, <1>4, <1>11 DEF ReadLine, File
  <2>2. Others(new.before) \o Others(new.after) = Others(longer)
    BY <1>4, <1>5, <1>6, <1>11, <2>1
  <2>3. ToSet(new.before) \cup ToSet(new.after) \subseteq {l \in ToSet(longer) : ~IsTarget(l)}
    BY <1>2, <1>4, <1>11, <2>1, NoLines
  <2>4. (~\E l \in ToSet(longer) : IsTarget(l)) /\ TooLong \notin ToSet(longer)
    BY <1>2, <1>4, <1>11
  <2>5. OthersKept
    BY <1>3, <2>2, WholeIsBeginning
  <2> QED BY <1>3, <2>1, <2>3, <2>4, <2>5 DEF IsSplit
<1> QED BY <1>1, <1>8, <1>9, <1>10, <1>11

LEMMA Splits == \A text \in Lines : IsSplit(text)
<1>. DEFINE S == {text \in Lines : IsSplit(text)}
<1>1. IsSplit(<<>>)
  <2>1. Split(<<>>) = NoTextFile /\ NoTextFile \in File /\ Others(<<>>) = <<>>
    <3>1. Target \in AnyLine
      BY DEF AnyLine
    <3> QED BY <3>1, NoLines, SplitStep, OthersStep
  <2>2. <<>> \o <<>> = <<>> /\ <<>> \o <<>> \o <<>> = <<>>
    OBVIOUS
  <2>3. NoTextFile.before = <<>> /\ NoTextFile.after = <<>> /\ ~NoTextFile.found /\ ~NoTextFile.ended
    BY DEF NoTextFile
  <2> QED BY <2>1, <2>2, <2>3, NoLines DEF IsSplit
<1>2. ASSUME NEW t \in Seq(AnyLine), NEW x \in AnyLine, t \in S
      PROVE  Append(t, x) \in S
  <2>1. Append(t, x) \in Lines
    BY DEF Lines
  <2> QED BY <1>2, <2>1, SplitAppend
<1>3. <<>> \in S
  BY <1>1, NoLines
<1>. HIDE DEF S
<1>4. Seq(AnyLine) \subseteq S
  BY <1>2, <1>3, SequenceInduction
<1> QED BY <1>4 DEF S, Lines
-----------------------------------------------------------------------------
(***************************************************************************)
(* The invariant.                                                          *)
(***************************************************************************)
IsImport(line) == line.kind = "import P.{}"
IsPlain(line) == line.kind \notin ImportKinds /\ line.names = {}

\* x are other lines of the file before the first run, in their order from the first one on;
\* and all of them, unless a write was cut or a line is too long.
FromOriginal(x) ==
    /\ \E rest \in Lines : Others(original) = x \o rest
    /\ ~cut /\ TooLong \notin ToSet(original) => x = Others(original)

\* The file keeps its other lines and, if it had one, the line in one of its forms; while
\* that is the wildcard, there is no import of names beside it.
TextShape ==
    /\ disk \in Lines /\ original \in Lines
    /\ FromOriginal(Others(disk))
    /\ TooLong \in ToSet(disk) => TooLong \in ToSet(original)
    /\ Had /\ ~cut => \E line \in ToSet(disk) : IsTarget(line) \/ IsImport(line)
    /\ (\E line \in ToSet(disk) : IsTarget(line)) =>
            \A line \in ToSet(disk) : IsTarget(line) \/ IsPlain(line)

\* What has been read is the file without the line.
ReadShape ==
    fixPhase \in {"restore", "build original", "comment", "build", "complete"} =>
        /\ textFile.before \in Lines /\ textFile.after \in Lines
        /\ \A line \in ToSet(textFile.before) \cup ToSet(textFile.after) :
              IsPlain(line) /\ (line = TooLong => TooLong \in ToSet(original))
        /\ FromOriginal(Others(textFile.before) \o Others(textFile.after))

\* The names found are names that are used, and from the second build on the file
\* imports exactly those.
NamesShape ==
    /\ used \subseteq Used
    /\ fixPhase \in {"build", "complete", "fixed"} => completion \subseteq used
    /\ fixPhase \in {"open", "restore", "build original", "comment"} => completion = {}
    /\ fixPhase \in {"build original", "comment"} => Target \in ToSet(disk)
    /\ fixPhase \in {"build", "fixed"} => Imported(disk) = completion
    /\ fixPhase \in {"comment", "build", "complete", "fixed"} => sound
    /\ fixPhase = "fixed" => used \subseteq completion
    /\ fixPhase = "failed" => ~sound \/ ~(used \subseteq Scannable)
    /\ fixPhase = "not found" /\ TooLong \notin ToSet(disk) => \A line \in ToSet(disk) : ~IsTarget(line)

FixerInv == TextShape /\ ReadShape /\ NamesShape
-----------------------------------------------------------------------------
\* The kinds of lines.
LEMMA Kinds ==
    /\ \A line : IsTarget(line) \/ IsImport(line) => ~IsOther(line) /\ ~IsPlain(line) /\ line # TooLong
    /\ \A these : IsImport(ImportOf(these)) /\ ImportOf(these).names = these
    /\ Target # CommentedTarget /\ IsTarget(Target) /\ IsTarget(CommentedTarget)
    /\ Target.names = {} /\ CommentedTarget.names = {}
    /\ ~IsImport(Target) /\ ~IsImport(CommentedTarget)
    /\ IsPlain(Piece) /\ ~IsOther(Piece) /\ Piece # TooLong
    /\ Target \in AnyLine /\ CommentedTarget \in AnyLine /\ Piece \in AnyLine
    /\ \A these \in SUBSET Used : ImportOf(these) \in AnyLine
<1>1. /\ Target.kind = "import P._" /\ CommentedTarget.kind = "// import P._" /\ TooLong.kind = "too long"
      /\ Piece.kind = "piece" /\ Target.names = {} /\ CommentedTarget.names = {} /\ Piece.names = {}
      /\ \A these : ImportOf(these).kind = "import P.{}" /\ ImportOf(these).names = these
  BY DEF Target, CommentedTarget, ImportOf, Piece, TooLong, Line
<1>2. \A line : IsTarget(line) \/ IsImport(line) => line.kind \in ImportKinds /\ line.kind # "too long"
  BY <1>1 DEF IsTarget, IsImport, ImportKinds
<1>3. \A line : IsTarget(line) \/ IsImport(line) => ~IsOther(line) /\ ~IsPlain(line) /\ line # TooLong
  BY <1>1, <1>2 DEF IsOther, IsPlain
<1>4. /\ \A these : IsImport(ImportOf(these)) /\ ImportOf(these).names = these
      /\ Target # CommentedTarget /\ IsTarget(Target) /\ IsTarget(CommentedTarget)
      /\ ~IsImport(Target) /\ ~IsImport(CommentedTarget)
  BY <1>1 DEF IsImport, IsTarget
<1>5. IsPlain(Piece) /\ ~IsOther(Piece) /\ Piece # TooLong
  BY <1>1 DEF IsPlain, IsOther, ImportKinds
<1>6. /\ Target \in AnyLine /\ CommentedTarget \in AnyLine /\ Piece \in AnyLine
      /\ \A these \in SUBSET Used : ImportOf(these) \in AnyLine
  BY DEF AnyLine
<1> QED BY <1>1, <1>3, <1>4, <1>5, <1>6

LEMMA ImportedOf ==
    ASSUME NEW text \in Lines
    PROVE  Imported(text) = IF Target \in ToSet(text) THEN Used ELSE UNION {line.names : line \in ToSet(text)}
BY DEF Imported, ToSet

\* The file as it is written.
LEMMA Written ==
    ASSUME NEW line \in AnyLine, IsTarget(line) \/ IsImport(line),
           NEW front \in Lines, NEW back \in Lines,
           \A l \in ToSet(front) \cup ToSet(back) : IsPlain(l)
    PROVE  LET text == front \o <<line>> \o back
           IN /\ text \in Lines
              /\ Others(text) = Others(front) \o Others(back)
              /\ Imported(text) = IF line = Target THEN Used ELSE line.names
              /\ \A l \in ToSet(text) : l = line \/ IsPlain(l)
              /\ line \in ToSet(text)
<1>. DEFINE text == front \o <<line>> \o back
<1>1. text \in Lines /\ ToSet(text) = ToSet(front) \cup {line} \cup ToSet(back)
  BY LinesOfParts
<1>2. Others(text) = Others(front) \o Others(back)
  <2>1. Append(front, line) \in Lines /\ text = Append(front, line) \o back
    <3>1. Append(front, line) \in Lines
      BY DEF Lines
    <3>2. front \o <<line>> = Append(front, line)
      BY DEF Lines
    <3> QED BY <3>1, <3>2
  <2>2. ~IsOther(line)
    BY Kinds
  <2>3. Others(Append(front, line)) = Others(front)
    BY <2>2, OthersStep
  <2> QED BY <2>1, <2>3, OthersConcat
<1>3. \A l \in ToSet(front) \cup ToSet(back) : l # Target /\ l.names = {}
  BY Kinds DEF IsPlain, IsTarget
<1>4. Imported(text) = IF line = Target THEN Used ELSE line.names
  <2>1. Target \in ToSet(text) <=> line = Target
    BY <1>1, <1>3
  <2>2. UNION {l.names : l \in ToSet(text)} = line.names
    <3>1. line \in ToSet(text) /\ \A l \in ToSet(text) : l = line \/ l.names = {}
      BY <1>1, <1>3
    <3>. HIDE DEF text
    <3>2. \A x : x \in UNION {l.names : l \in ToSet(text)} <=> \E l \in ToSet(text) : x \in l.names
      OBVIOUS
    <3>3. \A x : x \in UNION {l.names : l \in ToSet(text)} <=> x \in line.names
      BY <3>1, <3>2
    <3> QED BY <3>3
  <2>. HIDE DEF text
  <2> QED BY <1>1, <2>1, <2>2, ImportedOf
<1>. HIDE DEF text
<1>5. \A l \in ToSet(text) : l = line \/ IsPlain(l)
  BY <1>1
<1> QED BY <1>1, <1>2, <1>4, <1>5 DEF text

\* What the fixer is about to write.
LEMMA Contents ==
    ASSUME TextShape, ReadShape, fixPhase \in {"restore", "comment", "complete"}, NEW line \in AnyLine,
           IsTarget(line) \/ IsImport(line), NEW text, text = Content(line)
    PROVE  /\ text \in Lines
           /\ FromOriginal(Others(text))
           /\ Imported(text) = IF line = Target THEN Used ELSE line.names
           /\ \A l \in ToSet(text) : l = line \/ IsPlain(l)
           /\ TooLong \in ToSet(text) => TooLong \in ToSet(original)
           /\ line \in ToSet(text)
<1>. DEFINE front == textFile.before
            back == textFile.after
<1>1. /\ front \in Lines /\ back \in Lines
      /\ \A l \in ToSet(front) \cup ToSet(back) : IsPlain(l) /\ (l = TooLong => TooLong \in ToSet(original))
      /\ FromOriginal(Others(front) \o Others(back))
  BY DEF ReadShape
<1>2. text = front \o <<line>> \o back
  BY DEF Content
<1>. HIDE DEF front, back
<1>3. /\ text \in Lines /\ Others(text) = Others(front) \o Others(back)
      /\ Imported(text) = IF line = Target THEN Used ELSE line.names
      /\ \A l \in ToSet(text) : l = line \/ IsPlain(l)
      /\ line \in ToSet(text)
  <2>1. \A l \in ToSet(front) \cup ToSet(back) : IsPlain(l)
    BY <1>1
  <2>. DEFINE all == front \o <<line>> \o back
  <2>2. /\ all \in Lines /\ Others(all) = Others(front) \o Others(back)
        /\ Imported(all) = IF line = Target THEN Used ELSE line.names
        /\ \A l \in ToSet(all) : l = line \/ IsPlain(l)
        /\ line \in ToSet(all)
    BY <1>1, <2>1, Written
  <2>. HIDE DEF all
  <2>3. text = all
    BY <1>2 DEF all
  <2> QED BY <2>2, <2>3
<1>4. ToSet(text) = ToSet(front) \cup {line} \cup ToSet(back)
  BY <1>1, <1>2, LinesOfParts
<1>5. TooLong \in ToSet(text) => TooLong \in ToSet(original)
  BY <1>1, <1>4, Kinds
<1> QED BY <1>1, <1>3, <1>5

\* What is left of TextShape when a line is written.
LEMMA WriteKeepsText ==
    ASSUME TextShape, ReadShape, fixPhase \in {"restore", "comment", "complete"}, NEW line \in AnyLine,
           IsTarget(line) \/ IsImport(line), Write(line), original' = original, cut' = cut
    PROVE  /\ TextShape'
           /\ Imported(disk)' = IF line = Target THEN Used ELSE line.names
           /\ (line \in ToSet(disk))'
<1>1. PICK text : text = Content(line)
  OBVIOUS
<1>2. disk' = text
  BY <1>1 DEF Write
<1>3. /\ text \in Lines /\ FromOriginal(Others(text))
      /\ Imported(text) = IF line = Target THEN Used ELSE line.names
      /\ \A l \in ToSet(text) : l = line \/ IsPlain(l)
      /\ TooLong \in ToSet(text) => TooLong \in ToSet(original)
      /\ line \in ToSet(text)
  BY <1>1, Contents
<1>4. /\ Had' <=> Had
      /\ Imported(disk)' = Imported(text)
      /\ FromOriginal(Others(disk))' <=> FromOriginal(Others(text))
      /\ ToSet(disk)' = ToSet(text) /\ ToSet(original)' = ToSet(original)
  BY <1>2 DEF Had, FromOriginal
<1>5. (\E l \in ToSet(text) : IsTarget(l)) => IsTarget(line)
  BY <1>3, Kinds
<1>6. TextShape'
  BY <1>2, <1>3, <1>4, <1>5 DEF TextShape
<1> QED BY <1>2, <1>3, <1>4, <1>6

\* The beginning of a text and what is behind it.
LEMMA TextInTwo ==
    ASSUME NEW text \in Lines, NEW n \in 0 .. Len(text) - 1
    PROVE  \E p, q \in Lines : p = SubSeq(text, 1, n) /\ text = p \o q /\ ToSet(p) \subseteq ToSet(text)
<1>1. text \in Seq(AnyLine) /\ Len(text) \in Nat /\ DOMAIN text = 1 .. Len(text)
  BY DEF Lines
<1>. DEFINE p == SubSeq(text, 1, n)
            q == SubSeq(text, n + 1, Len(text))
<1>2. p \in Lines /\ q \in Lines /\ text = p \o q
  <2>1. \A i \in 1 .. Len(text) : text[i] \in AnyLine
    BY <1>1, ElementOfSeq
  <2>2. n \in Int /\ n + 1 \in Int /\ Len(text) \in Int /\ n \in 1 - 1 .. Len(text)
    BY <1>1
  <2>3. (\A i \in 1 .. n : text[i] \in AnyLine) /\ (\A i \in n + 1 .. Len(text) : text[i] \in AnyLine)
    BY <1>1, <2>1
  <2>4. p \in Seq(AnyLine) /\ q \in Seq(AnyLine)
    BY <2>2, <2>3, SubSeqProperties
  <2>5. p \o q = SubSeq(text, 1, Len(text))
    <3>1. n \in (1 - 1) .. Len(text) /\ 1 \in 1 .. Len(text) + 1 /\ Len(text) \in n .. Len(text)
      BY <1>1
    <3> QED BY <1>1, <3>1, ConcatAdjacentSubSeq
  <2>6. SubSeq(text, 1, Len(text)) = text
    BY <1>1, SubSeqFull
  <2> QED BY <2>4, <2>5, <2>6 DEF Lines
<1>3. ToSet(text) = ToSet(p) \cup ToSet(q)
  <2>1. p \in Seq(AnyLine) /\ q \in Seq(AnyLine)
    BY <1>2 DEF Lines
  <2>. HIDE DEF p, q
  <2> QED BY <1>2, <2>1, ToSetConcat
<1> QED BY <1>2, <1>3

\* And when a write is cut short: the beginning of what was to be written, and a piece.
LEMMA CutKeepsText ==
    ASSUME TextShape, ReadShape, fixPhase \in {"restore", "comment", "complete"}, NEW line \in AnyLine,
           IsTarget(line) \/ IsImport(line),
           NEW n \in 0 .. Len(Content(line)) - 1, NEW rest \in {<<>>, <<Piece>>},
           disk' = SubSeq(Content(line), 1, n) \o rest, original' = original, cut' = TRUE
    PROVE  TextShape'
<1>1. PICK text : text = Content(line)
  OBVIOUS
<1>2. /\ text \in Lines /\ FromOriginal(Others(text))
      /\ \A l \in ToSet(text) : l = line \/ IsPlain(l)
      /\ TooLong \in ToSet(text) => TooLong \in ToSet(original)
  BY <1>1, Contents
<1>3. PICK p \in Lines, q \in Lines : p = SubSeq(text, 1, n) /\ text = p \o q /\ ToSet(p) \subseteq ToSet(text)
  BY <1>1, <1>2, TextInTwo
<1>4. PICK after \in Lines : Others(original) = Others(text) \o after
  BY <1>2 DEF FromOriginal
<1>5. Others(text) = Others(p) \o Others(q) /\ Others(p) \in Lines /\ Others(q) \in Lines
  <2>1. Others(p \o q) = Others(p) \o Others(q)
    BY OthersConcat
  <2>2. Others(p) \in Lines /\ Others(q) \in Lines
    BY OthersStep, Kinds
  <2> QED BY <1>3, <2>1, <2>2
<1>6. rest \in Lines /\ Others(rest) = <<>> /\ ToSet(rest) \subseteq {Piece}
  <2>1. Append(<<>>, Piece) = <<Piece>> /\ Append(<<>>, Piece) \in Lines
    BY Kinds DEF Lines
  <2>2. Others(Append(<<>>, Piece)) = <<>> /\ Others(<<>>) = <<>>
    BY NoLines, OthersStep, Kinds
  <2>3. ToSet(Append(<<>>, Piece)) = {} \cup {Piece}
    BY NoLines, LinesOfAppend, Kinds
  <2> QED BY <2>1, <2>2, <2>3, NoLines
<1>7. p \o rest \in Lines /\ Others(p \o rest) = Others(p) /\ ToSet(p \o rest) = ToSet(p) \cup ToSet(rest)
  <2>1. p \in Seq(AnyLine) /\ rest \in Seq(AnyLine)
    BY <1>6 DEF Lines
  <2>2. Others(p) \o <<>> = Others(p)
    BY <1>5 DEF Lines
  <2>3. p \o rest \in Seq(AnyLine) /\ ToSet(p \o rest) = ToSet(p) \cup ToSet(rest)
    BY <2>1, ToSetConcat
  <2>4. Others(p \o rest) = Others(p) \o Others(rest)
    BY <1>6, OthersConcat
  <2> QED BY <1>6, <2>2, <2>3, <2>4 DEF Lines
<1>8. disk' = p \o rest
  BY <1>1, <1>3
<1>9. \E more \in Lines : Others(original) = Others(p \o rest) \o more
  <2>1. Others(q) \o after \in Lines /\ (Others(p) \o Others(q)) \o after = Others(p) \o (Others(q) \o after)
    BY <1>5 DEF Lines
  <2> QED BY <1>4, <1>5, <1>7, <2>1
<1>10. FromOriginal(Others(disk))'
  BY <1>8, <1>9 DEF FromOriginal
<1>11. \A l \in ToSet(p \o rest) : l = line \/ IsPlain(l)
  BY <1>2, <1>3, <1>6, <1>7, Kinds
<1>12. TooLong \in ToSet(p \o rest) => TooLong \in ToSet(original)
  BY <1>2, <1>3, <1>6, <1>7, Kinds
<1>13. (\E l \in ToSet(p \o rest) : IsTarget(l)) => IsTarget(line)
  BY <1>11, Kinds
<1>14. ToSet(disk)' = ToSet(p \o rest) /\ ToSet(original)' = ToSet(original)
  BY <1>8
<1> QED BY <1>7, <1>8, <1>10, <1>11, <1>12, <1>13, <1>14 DEF TextShape
-----------------------------------------------------------------------------
\* Before the first run.
LEMMA FixerInit == Init => FixerInv
<1>. SUFFICES ASSUME Init
              PROVE  FixerInv
  OBVIOUS
<1>1. /\ disk \in Texts /\ original = disk /\ used \subseteq Used /\ fixPhase = "idle" /\ completion = {}
  BY DEF Init
<1>2. \A line \in ToSet(disk) : IsTarget(line) \/ IsPlain(line)
  BY <1>1, FixerAssumption DEF IsPlain, IsTarget, IsOther
<1>3. disk \in Lines
  <2>1. ToSet(disk) \subseteq AnyLine
    BY <1>1 DEF AnyLine
  <2>2. disk \in Seq(ToSet(disk))
    BY <1>1, FixerAssumption
  <2> QED BY <2>1, <2>2 DEF Lines
<1>4. Had => \E line \in ToSet(disk) : IsTarget(line)
  BY <1>1 DEF Had, ToSet, IsTarget
<1>5. FromOriginal(Others(disk))
  <2>1. \E more \in Lines : Others(disk) = Others(disk) \o more
    BY <1>3, WholeIsBeginning
  <2> QED BY <1>1, <2>1 DEF FromOriginal
<1>6. TextShape
  BY <1>1, <1>2, <1>3, <1>4, <1>5 DEF TextShape
<1> QED BY <1>1, <1>6 DEF FixerInv, ReadShape, NamesShape

\* What an open file is read into.
LEMMA OpenReads ==
    ASSUME TextShape, Split(disk).found
    PROVE  LET file == Split(disk)
           IN /\ file.before \in Lines /\ file.after \in Lines
              /\ \A line \in ToSet(file.before) \cup ToSet(file.after) :
                    IsPlain(line) /\ (line = TooLong => TooLong \in ToSet(original))
              /\ FromOriginal(Others(file.before) \o Others(file.after))
<1>. DEFINE file == Split(disk)
<1>1. IsSplit(disk)
  BY Splits DEF TextShape
<1>2. /\ file \in File
      /\ \E line \in ToSet(disk) : IsTarget(line)
      /\ ToSet(file.before) \cup ToSet(file.after) \subseteq {line \in ToSet(disk) : ~IsTarget(line)}
      /\ file.ended <=> TooLong \in ToSet(disk)
      /\ ~file.ended => Others(file.before) \o Others(file.after) = Others(disk)
  BY <1>1 DEF IsSplit
<1>3. PICK more \in Lines : Others(disk) = Others(file.before) \o Others(file.after) \o more
  BY <1>1 DEF IsSplit
<1>4. file.before \in Lines /\ file.after \in Lines
  BY <1>2 DEF File
<1>. HIDE DEF file
<1>5. \A line \in ToSet(disk) : IsTarget(line) \/ IsPlain(line)
  BY <1>2 DEF TextShape
<1>6. TooLong \in ToSet(disk) => TooLong \in ToSet(original)
  BY DEF TextShape
<1>7. FromOriginal(Others(file.before) \o Others(file.after))
  <2>1. PICK b \in Lines, a \in Lines : b = Others(file.before) /\ a = Others(file.after)
    BY <1>4, OthersStep, Kinds
  <2>2. PICK rest \in Lines : Others(original) = Others(disk) \o rest
    BY DEF TextShape, FromOriginal
  <2>3. more \o rest \in Lines /\ (b \o a \o more) \o rest = (b \o a) \o (more \o rest)
    BY DEF Lines
  <2>4. Others(original) = (b \o a) \o (more \o rest)
    BY <1>3, <2>1, <2>2, <2>3
  <2>5. ~cut /\ TooLong \notin ToSet(original) => b \o a = Others(original)
    BY <1>2, <1>6, <2>1 DEF TextShape, FromOriginal
  <2> QED BY <2>1, <2>3, <2>4, <2>5 DEF FromOriginal
<1> QED BY <1>2, <1>4, <1>5, <1>6, <1>7 DEF file

\* Phases and names change, the file does not.
LEMMA TextStays ==
    ASSUME TextShape, UNCHANGED <<disk, original, cut>>
    PROVE  TextShape'
<1>1. Had' <=> Had
  BY DEF Had
<1>2. /\ FromOriginal(Others(disk))' <=> FromOriginal(Others(disk))
      /\ ToSet(disk)' = ToSet(disk) /\ ToSet(original)' = ToSet(original)
  BY DEF FromOriginal
<1> QED BY <1>1, <1>2 DEF TextShape

\* Nor does what was read of it.
LEMMA ReadStays ==
    ASSUME ReadShape, UNCHANGED <<textFile, original, cut>>,
           fixPhase' \in {"restore", "build original", "comment", "build", "complete"} =>
               fixPhase \in {"restore", "build original", "comment", "build", "complete"}
    PROVE  ReadShape'
<1>1. \A x : FromOriginal(x)' <=> FromOriginal(x)
  BY DEF FromOriginal
<1>2. /\ FromOriginal(Others(textFile.before) \o Others(textFile.after))' <=>
             FromOriginal(Others(textFile.before) \o Others(textFile.after))
      /\ ToSet(original)' = ToSet(original)
  BY DEF FromOriginal
<1> QED BY <1>2 DEF ReadShape

LEMMA FixerStep == FixerInv /\ [Next]_vars => FixerInv'
<1>. SUFFICES ASSUME FixerInv, [Next]_vars
              PROVE  FixerInv'
  OBVIOUS
<1>i. TextShape /\ ReadShape /\ NamesShape
  BY DEF FixerInv
<1>1. CASE Fix
  <2>1. /\ fixPhase' = "open" /\ completion' = {} /\ UNCHANGED <<disk, used, sound, textFile, original, cut>>
    BY <1>1 DEF Fix
  <2> QED BY <1>i, <2>1, TextStays DEF FixerInv, ReadShape, NamesShape
<1>2. CASE NotFound
  <2>1. /\ fixPhase' = "not found" /\ ~Split(disk).found
        /\ UNCHANGED <<disk, used, sound, textFile, completion, original, cut>>
    BY <1>2 DEF NotFound
  <2>2. TooLong \notin ToSet(disk) => \A line \in ToSet(disk) : ~IsTarget(line)
    <3>1. IsSplit(disk)
      BY <1>i, Splits DEF TextShape
    <3> QED BY <2>1, <3>1 DEF IsSplit
  <2>3. NamesShape'
    BY <1>i, <2>1, <2>2 DEF NamesShape
  <2> QED BY <1>i, <2>1, <2>3, TextStays DEF FixerInv, ReadShape
<1>3. CASE Open
  <2>1. /\ fixPhase = "open" /\ fixPhase' = "restore" /\ Split(disk).found /\ textFile' = Split(disk)
        /\ UNCHANGED <<disk, used, sound, completion, original, cut>>
    BY <1>3 DEF Open
  <2>2. NamesShape'
    BY <1>i, <2>1 DEF NamesShape
  <2>3. ReadShape'
    <3>1. PICK file : file = Split(disk)
      OBVIOUS
    <3>2. /\ file.before \in Lines /\ file.after \in Lines
          /\ \A line \in ToSet(file.before) \cup ToSet(file.after) :
                IsPlain(line) /\ (line = TooLong => TooLong \in ToSet(original))
          /\ FromOriginal(Others(file.before) \o Others(file.after))
      BY <1>i, <2>1, <3>1, OpenReads
    <3>3. FromOriginal(Others(textFile.before) \o Others(textFile.after))'
      BY <2>1, <3>1, <3>2 DEF FromOriginal
    <3> QED BY <2>1, <3>1, <3>2, <3>3 DEF ReadShape
  <2> QED BY <1>i, <2>1, <2>2, <2>3, TextStays DEF FixerInv
<1>4. CASE WriteOriginal
  <2>1. /\ fixPhase = "restore" /\ fixPhase' = "build original" /\ Write(Target)
        /\ UNCHANGED <<textFile, completion, original, cut>>
    BY <1>4 DEF WriteOriginal
  <2>2. used' \subseteq Used
    BY <1>i, <1>4 DEF WriteOriginal, AnyCode, NamesShape
  <2>3. TextShape' /\ (Target \in ToSet(disk))'
    BY <1>i, <2>1, Kinds, WriteKeepsText
  <2>4. NamesShape'
    BY <1>i, <2>1, <2>2, <2>3 DEF NamesShape
  <2>5. ReadShape'
    BY <1>i, <2>1, ReadStays
  <2> QED BY <2>3, <2>4, <2>5 DEF FixerInv
<1>5. CASE BuildOriginal
  <2>1. /\ fixPhase = "build original" /\ fixPhase' = (IF Builds THEN "comment" ELSE "failed")
        /\ UNCHANGED <<disk, used, sound, textFile, completion, original, cut>>
    BY <1>5 DEF BuildOriginal
  <2>2. Missing = {}
    <3>1. Imported(disk) = Used
      BY <1>i, <2>1, ImportedOf DEF TextShape, NamesShape
    <3> QED BY <1>i, <3>1 DEF Missing, NamesShape
  <2>3. NamesShape'
    BY <1>i, <2>1, <2>2 DEF NamesShape, Builds
  <2>4. ReadShape'
    BY <1>i, <2>1, ReadStays
  <2> QED BY <1>i, <2>1, <2>3, <2>4, TextStays DEF FixerInv
<1>6. CASE WriteCommented
  <2>1. /\ fixPhase = "comment" /\ fixPhase' = "build" /\ Write(CommentedTarget)
        /\ UNCHANGED <<used, sound, textFile, completion, original, cut>>
    BY <1>6 DEF WriteCommented
  <2>2. TextShape' /\ Imported(disk)' = {}
    BY <1>i, <2>1, Kinds, WriteKeepsText
  <2>3. NamesShape'
    BY <1>i, <2>1, <2>2 DEF NamesShape
  <2>4. ReadShape'
    BY <1>i, <2>1, ReadStays
  <2> QED BY <2>2, <2>3, <2>4 DEF FixerInv
<1>7. CASE BuildSucceeds
  <2>1. /\ fixPhase = "build" /\ fixPhase' = "fixed" /\ Builds
        /\ UNCHANGED <<disk, used, sound, textFile, completion, original, cut>>
    BY <1>7 DEF BuildSucceeds
  <2>2. used \subseteq completion
    BY <1>i, <2>1 DEF Builds, Missing, NamesShape
  <2>3. NamesShape'
    BY <1>i, <2>1, <2>2 DEF NamesShape
  <2> QED BY <1>i, <2>1, <2>3, TextStays DEF FixerInv, ReadShape
<1>8. CASE BuildFails
  <2>1. PICK reported \in (SUBSET Missing) \ {{}} :
            /\ completion' = completion \cup (reported \cap Scannable)
            /\ fixPhase' = IF NewNames(reported) # {} THEN "complete" ELSE "failed"
    BY <1>8 DEF BuildFails
  <2>2. fixPhase = "build" /\ UNCHANGED <<disk, used, sound, textFile, original, cut>>
    BY <1>8 DEF BuildFails
  <2>3. /\ reported \subseteq used /\ reported \cap completion = {} /\ completion' \subseteq used
    BY <1>i, <2>1, <2>2 DEF NamesShape, Missing
  <2>4. NewNames(reported) = {} => ~(used \subseteq Scannable)
    <3>. SUFFICES ASSUME NewNames(reported) = {}
                  PROVE  ~(used \subseteq Scannable)
      OBVIOUS
    <3>1. PICK name \in reported : TRUE
      OBVIOUS
    <3>2. name \in used /\ name \notin completion
      BY <2>3, <3>1
    <3>3. name \notin Scannable
      BY <3>1, <3>2 DEF NewNames
    <3> QED BY <3>2, <3>3
  <2>5. NamesShape'
    BY <1>i, <2>1, <2>2, <2>3, <2>4 DEF NamesShape
  <2>6. ReadShape'
    BY <1>i, <2>1, <2>2, ReadStays
  <2> QED BY <1>i, <2>2, <2>5, <2>6, TextStays DEF FixerInv
<1>9. CASE WriteCompletion
  <2>1. /\ fixPhase = "complete" /\ fixPhase' = "build" /\ Write(ImportOf(completion))
        /\ UNCHANGED <<used, sound, textFile, completion, original, cut>>
    BY <1>9 DEF WriteCompletion
  <2>2. PICK these \in SUBSET Used : these = completion
    BY <1>i, <2>1 DEF NamesShape
  <2>3. TextShape' /\ Imported(disk)' = these
    <3>1. Write(ImportOf(these))
      BY <2>1, <2>2
    <3> QED BY <1>i, <2>1, <3>1, Kinds, WriteKeepsText
  <2>4. NamesShape'
    BY <1>i, <2>1, <2>2, <2>3 DEF NamesShape
  <2>5. ReadShape'
    BY <1>i, <2>1, ReadStays
  <2> QED BY <2>3, <2>4, <2>5 DEF FixerInv
<1>10. CASE CallFails \/ Kill
  <2>1. /\ fixPhase' \in {"error", "killed"}
        /\ UNCHANGED <<disk, used, sound, textFile, completion, original, cut>>
    BY <1>10 DEF CallFails, Kill
  <2> QED BY <1>i, <2>1, TextStays DEF FixerInv, ReadShape, NamesShape
<1>11. CASE WriteIsCut
  <2>1. /\ fixPhase \in {"restore", "comment", "complete"} /\ fixPhase' \in {"error", "killed"}
        /\ used' \subseteq Used /\ cut' = TRUE /\ original' = original
    BY <1>11 DEF WriteIsCut, AnyCode
  <2>2. PICK line \in AnyLine : line = ToWrite /\ (IsTarget(line) \/ IsImport(line))
    <3>1. fixPhase = "restore" => ToWrite = Target
      BY DEF ToWrite
    <3>2. fixPhase = "comment" => ToWrite = CommentedTarget
      BY DEF ToWrite
    <3>3. fixPhase = "complete" => ToWrite = ImportOf(completion) /\ completion \in SUBSET Used
      BY <1>i DEF ToWrite, NamesShape
    <3> QED BY <2>1, <3>1, <3>2, <3>3, Kinds
  <2>3. PICK n \in 0 .. Len(Content(line)) - 1, rest \in {<<>>, <<Piece>>} :
            disk' = SubSeq(Content(line), 1, n) \o rest
    BY <1>11, <2>2 DEF WriteIsCut
  <2>4. TextShape'
    BY <1>i, <2>1, <2>2, <2>3, CutKeepsText
  <2> QED BY <2>1, <2>4 DEF FixerInv, ReadShape, NamesShape
<1>12. CASE UNCHANGED vars
  <2>1. UNCHANGED <<disk, used, sound, fixPhase, textFile, completion, original, cut>>
    BY <1>12 DEF vars
  <2>2. ReadShape'
    BY <1>i, <2>1, ReadStays
  <2> QED BY <1>i, <2>1, <2>2, TextStays DEF FixerInv, NamesShape
<1> QED BY <1>1, <1>2, <1>3, <1>4, <1>5, <1>6, <1>7, <1>8, <1>9, <1>10, <1>11, <1>12 DEF Next, Work, GoesWrong
-----------------------------------------------------------------------------
\* The invariant holds for every file, whatever is used, reported or killed.
THEOREM FixerInvariance == FixerSpec => []FixerInv
BY FixerInit, FixerStep, PTL DEF FixerSpec

\* A beginning in the words of the property.
LEMMA BeginningIsPrefix ==
    ASSUME NEW x \in Lines, NEW rest \in Lines
    PROVE  IsPrefix(x, x \o rest)
<1>1. x \in Seq(AnyLine) /\ rest \in Seq(AnyLine) /\ Len(x) \in Nat /\ Len(rest) \in Nat
  BY DEF Lines
<1>2. Len(x) <= Len(x \o rest)
  BY <1>1
<1>3. SubSeq(x \o rest, 1, Len(x)) = x /\ SubSeq(x, 1, Len(x)) = x
  BY <1>1
<1> QED BY <1>2, <1>3 DEF IsPrefix

\* The runs leave the other lines, all of them unless a write was cut or a line is too long;
\* success is reported of a file that builds with exactly the names that are used, a run
\* has a cause to give up, and can be run again after a kill.
THEOREM Survives == FixerSpec => []FileSurvives
<1>1. FixerInv => FileSurvives
  <2>. SUFFICES ASSUME FixerInv
                PROVE  FileSurvives
    OBVIOUS
  <2>. DEFINE lines == {disk[i] : i \in DOMAIN disk}
              unread == \E i \in DOMAIN original : original[i] = TooLong
  <2>1. TextShape /\ NamesShape /\ lines = ToSet(disk) /\ (unread <=> TooLong \in ToSet(original))
    BY DEF FixerInv, ToSet
  <2>2. IsPrefix(Others(disk), Others(original))
    <3>1. Others(disk) \in Lines
      BY <2>1, OthersStep, Kinds DEF TextShape
    <3>2. PICK rest \in Lines : Others(original) = Others(disk) \o rest
      BY <2>1 DEF TextShape, FromOriginal
    <3> QED BY <3>1, <3>2, BeginningIsPrefix
  <2>3. ~cut /\ ~unread => Others(disk) = Others(original)
    BY <2>1 DEF TextShape, FromOriginal
  <2>4. fixPhase = "fixed" => Builds /\ Imported(disk) = used /\ completion = used
    BY <2>1 DEF NamesShape, Builds, Missing
  <2>5. fixPhase = "failed" => ~sound \/ ~(used \subseteq Scannable)
    BY <2>1 DEF NamesShape
  <2>6. Had /\ ~cut /\ (\A l \in lines : ~IsImport(l)) => {Target, CommentedTarget} \cap lines # {}
    BY <2>1 DEF TextShape, IsTarget
  <2>7. fixPhase = "not found" /\ TooLong \notin lines => {Target, CommentedTarget} \cap lines = {}
    BY <2>1 DEF NamesShape, IsTarget
  <2>. HIDE DEF lines, unread
  <2>8. (\A l \in lines : ~IsImport(l)) <=> (\A l \in lines : l.kind # "import P.{}")
    BY DEF IsImport
  <2> QED BY <2>2, <2>3, <2>4, <2>5, <2>6, <2>7, <2>8 DEF FileSurvives, lines, unread
<1> QED BY <1>1, FixerInvariance, PTL

-----------------------------------------------------------------------------
(***************************************************************************)
(* autokeep.                                                               *)
(***************************************************************************)
\* What autokeep handles: errors, dependencies, edits.
Error == [rule : Rule, error : {NoError} \cup MissingErrors \cup UnusedErrors]
Errors == Seq(Error)
Listed ==
    {Deps[s] : s \in DOMAIN Deps} \cup Dep \cup {NoRule[1], NoList[1]}
    \cup UNION {UNION {ToSet(file[r]) : r \in Rule} : file \in Files}
Lists == Seq(Listed)
Edit == [rule : Rule, deps : Lists]
Edits == Seq(Edit)
Scanned == [errors : Errors, panics : BOOLEAN]
Delta == [adds : Edits, removes : Edits]
Outputs == Seq(OutputLine)

\* The turns of the loops over the output, the errors and a list, as functions.
ScanFcn == [state \in Scanned |-> [line \in OutputLine |-> ScanLine(state, line)]]
DeltaFcn == [delta \in Delta |-> [e \in Error |-> AddDelta(delta, e)]]
KeptDep(kept, dep, deps) == IF dep \in ToSet(deps) THEN kept ELSE Append(kept, dep)
KeptFcn(deps) == [kept \in Lists |-> [dep \in Listed |-> KeptDep(kept, dep, deps)]]

-----------------------------------------------------------------------------
LEMMA ErrorKinds ==
    ASSUME NEW line \in OutputLine, line \notin ErrorLines, line # RequiredBy
    PROVE  line \in MissingErrors \cup UnusedErrors
BY DEF OutputLine

LEMMA OneKind ==
    /\ MissingErrors \cap UnusedErrors = {} /\ NoError \notin MissingErrors \cup UnusedErrors
    /\ ErrorLines \cap (MissingErrors \cup UnusedErrors) = {}
<1>1. \A x \in MissingErrors : x.kind \in {"MissingSymbol", "NotAMemberOfPackage"}
  BY DEF MissingErrors, Diagnostic
<1>2. \A x \in UnusedErrors : x.kind = "BuildozerUnusedDep"
  BY DEF UnusedErrors, Diagnostic
<1>3. \A x \in ErrorLines : x.kind = "ScalacFailed"
  BY DEF ErrorLines, ErrorLine
<1>4. NoError.kind = "none"
  BY DEF NoError
<1> QED BY <1>1, <1>2, <1>3, <1>4

LEMMA ScanType == IsStep(ScanFcn, Scanned, OutputLine) /\ NoErrors \in Scanned
<1>1. ASSUME NEW state \in Scanned, NEW line \in OutputLine
      PROVE  ScanLine(state, line) \in Scanned
  <2>1. state.errors \in Errors /\ state.panics \in BOOLEAN
    BY DEF Scanned
  <2>2. CASE state.panics
    BY <2>2 DEF ScanLine
  <2>3. CASE ~state.panics /\ line \in ErrorLines
    <3>. DEFINE new == [rule |-> RuleOf[line.about], error |-> NoError]
    <3>1. new \in Error
      <4>1. PICK t \in KeepTarget : line = ErrorLine(t)
        BY <2>3 DEF ErrorLines
      <4>2. RuleOf[line.about] \in Rule
        BY <4>1, KeepAssumption DEF ErrorLine
      <4> QED BY <4>2 DEF Error
    <3>. HIDE DEF new
    <3>2. Append(state.errors, new) \in Errors
      BY <2>1, <3>1 DEF Errors
    <3>3. ScanLine(state, line) = [state EXCEPT !.errors = Append(@, new)]
      BY <2>3 DEF ScanLine, new
    <3> QED BY <2>1, <3>2, <3>3 DEF Scanned
  <2>4. CASE ~state.panics /\ line \notin ErrorLines /\ (line = RequiredBy \/ state.errors = <<>>)
    <3>1. ScanLine(state, line) = [state EXCEPT !.panics = TRUE]
      BY <2>4 DEF ScanLine
    <3> QED BY <2>1, <3>1 DEF Scanned
  <2>5. CASE ~state.panics /\ line \notin ErrorLines /\ line # RequiredBy /\ state.errors # <<>>
    <3>. DEFINE n == Len(state.errors)
                new == [state.errors[n] EXCEPT !.error = line]
    <3>1. n \in 1 .. n /\ state.errors[n] \in Error
      BY <2>1, <2>5 DEF Errors
    <3>2. new \in Error
      BY <2>5, <3>1, ErrorKinds DEF Error
    <3>. HIDE DEF new
    <3>3. [state.errors EXCEPT ![n] = new] \in Errors
      BY <2>1, <3>1, <3>2, ExceptSeq DEF Errors
    <3>4. ScanLine(state, line) = [state EXCEPT !.errors = [state.errors EXCEPT ![n] = new]]
      BY <2>5 DEF ScanLine, new
    <3> QED BY <2>1, <3>3, <3>4 DEF Scanned
  <2> QED BY <2>2, <2>3, <2>4, <2>5
<1>2. NoErrors \in Scanned
  BY DEF NoErrors, Scanned, Errors
<1> QED BY <1>1, <1>2 DEF ScanFcn, IsStep

LEMMA EditType ==
    ASSUME NEW e \in Error, ToAdd(e) \/ ToRemove(e)
    PROVE  /\ RuleDeps(e) \in Edit /\ RuleDeps(e).rule = e.rule
           /\ RuleDeps(e).deps = <<DepOf(e.error)>> /\ DepOf(e.error) \in Listed
           /\ ToRemove(e) => DepOf(e.error) = e.error.about /\ ~ToAdd(e)
           /\ ToAdd(e) => DepOf(e.error) = Deps[e.error.about]
<1>1. ToRemove(e) => DepOf(e.error) = e.error.about /\ e.error.about \in Dep /\ ~ToAdd(e)
  <2>. SUFFICES ASSUME ToRemove(e)
                PROVE  DepOf(e.error) = e.error.about /\ e.error.about \in Dep /\ ~ToAdd(e)
    OBVIOUS
  <2>1. e.error \notin MissingErrors /\ e.error \in UnusedErrors
    BY OneKind DEF ToRemove
  <2>2. e.error.about \in Dep
    <3>1. PICK d \in Dep : e.error = Diagnostic("BuildozerUnusedDep", d)
      BY <2>1 DEF UnusedErrors
    <3> QED BY <3>1 DEF Diagnostic
  <2> QED BY <2>1, <2>2 DEF DepOf, ToAdd
<1>2. ToAdd(e) => DepOf(e.error) = Deps[e.error.about] /\ e.error.about \in DOMAIN Deps
  BY DEF ToAdd, DepOf
<1>3. DepOf(e.error) \in Listed
  BY <1>1, <1>2 DEF Listed
<1>4. e.rule \in Rule /\ <<DepOf(e.error)>> \in Lists
  BY <1>3 DEF Error, Lists
<1> QED BY <1>1, <1>2, <1>3, <1>4 DEF RuleDeps, Edit

LEMMA DeltaType == IsStep(DeltaFcn, Delta, Error) /\ NoDelta \in Delta
<1>1. ASSUME NEW delta \in Delta, NEW e \in Error
      PROVE  AddDelta(delta, e) \in Delta
  <2>1. delta.adds \in Edits /\ delta.removes \in Edits
    BY DEF Delta
  <2>2. ToAdd(e) \/ ToRemove(e) => RuleDeps(e) \in Edit
    BY EditType
  <2>3. ToAdd(e) \/ ToRemove(e) =>
            Append(delta.adds, RuleDeps(e)) \in Edits /\ Append(delta.removes, RuleDeps(e)) \in Edits
    BY <2>1, <2>2 DEF Edits
  <2> QED BY <2>1, <2>3 DEF AddDelta, Delta
<1>2. NoDelta \in Delta
  BY DEF NoDelta, Delta, Edits
<1> QED BY <1>1, <1>2 DEF DeltaFcn, IsStep

LEMMA KeptType ==
    ASSUME NEW deps
    PROVE  IsStep(KeptFcn(deps), Lists, Listed) /\ <<>> \in Lists
<1>1. ASSUME NEW kept \in Lists, NEW dep \in Listed
      PROVE  KeptDep(kept, dep, deps) \in Lists
  BY DEF KeptDep, Lists
<1>2. <<>> \in Lists
  BY DEF Lists
<1> QED BY <1>1, <1>2 DEF KeptFcn, IsStep

LEMMA ScanIsFold ==
    ASSUME NEW text \in Seq(OutputLine)
    PROVE  ScanOutput(text) = Folded(ScanFcn, NoErrors, text)
<1>. DEFINE m == Len(text)
            IsIter(h) == h = [s \in SUBSET (1 .. m) |->
                                 IF s = {} THEN NoErrors ELSE ScanLine(h[s \ {Max(s)}], text[Max(s)])]
            step == PositionSteps(ScanFcn, Scanned, text)
            iter == CHOOSE h : IsIter(h)
<1>1. m \in Nat /\ DOMAIN text = 1 .. m
  OBVIOUS
<1>2. ScanOutput(text) = iter[1 .. m]
  BY <1>1 DEF ScanOutput, FoldLeft, MapThenFoldSet
<1>3. step \in [1 .. m -> [Scanned -> Scanned]]
  BY ScanType DEF PositionSteps, IsStep
<1>4. PICK f : IsFold(f, Scanned, NoErrors, step, m)
  BY <1>1, <1>3, ScanType, FoldExists
<1>5. ASSUME NEW s \in SUBSET (1 .. m), s # {}
      PROVE  Max(s) \in 1 .. m
  <2>1. \E x \in s : \A y \in s : x >= y
    BY <1>1, <1>5, RangeHasMax
  <2> QED BY <2>1 DEF Max
<1>6. ASSUME NEW s \in SUBSET (1 .. m), s # {}, NEW x \in Scanned
      PROVE  step[Max(s)][x] = ScanLine(x, text[Max(s)])
  BY <1>5, <1>6 DEF PositionSteps, ScanFcn
<1>. HIDE DEF step
<1>7. IsIter(f)
  BY <1>4, <1>6 DEF IsFold
<1>8. IsIter(iter)
  <2>. HIDE DEF IsIter
  <2> QED BY <1>7
<1>. HIDE DEF iter
<1>9. FoldsLeft(iter, ScanFcn, Scanned, OutputLine, NoErrors, text)
  <2>1. iter = [s \in SUBSET (1 .. m) |-> iter[s]]
    BY <1>8
  <2>2. ASSUME NEW s \in SUBSET (1 .. m), s # {}, iter[s \ {Max(s)}] \in Scanned
        PROVE  iter[s] = ScanFcn[iter[s \ {Max(s)}]][text[Max(s)]]
    <3>1. text[Max(s)] \in OutputLine
      BY <1>5, <2>2, ElementOfSeq
    <3>2. iter[s] = ScanLine(iter[s \ {Max(s)}], text[Max(s)])
      BY <1>8, <2>2
    <3> QED BY <2>2, <3>1, <3>2 DEF ScanFcn
  <2>3. iter[{}] = NoErrors
    BY <1>8
  <2>. HIDE DEF IsIter
  <2> QED BY <2>1, <2>2, <2>3, ScanType DEF FoldsLeft
<1>10. iter[1 .. Len(text)] = Folded(ScanFcn, NoErrors, text)
  BY <1>9, FoldLeftFolds
<1> QED BY <1>2, <1>10

LEMMA DeltaIsFold ==
    ASSUME NEW text \in Seq(Error)
    PROVE  MakeDeltaDeps(text) = Folded(DeltaFcn, NoDelta, text)
<1>. DEFINE m == Len(text)
            IsIter(h) == h = [s \in SUBSET (1 .. m) |->
                                 IF s = {} THEN NoDelta ELSE AddDelta(h[s \ {Max(s)}], text[Max(s)])]
            step == PositionSteps(DeltaFcn, Delta, text)
            iter == CHOOSE h : IsIter(h)
<1>1. m \in Nat /\ DOMAIN text = 1 .. m
  OBVIOUS
<1>2. MakeDeltaDeps(text) = iter[1 .. m]
  BY <1>1 DEF MakeDeltaDeps, FoldLeft, MapThenFoldSet
<1>3. step \in [1 .. m -> [Delta -> Delta]]
  BY DeltaType DEF PositionSteps, IsStep
<1>4. PICK f : IsFold(f, Delta, NoDelta, step, m)
  BY <1>1, <1>3, DeltaType, FoldExists
<1>5. ASSUME NEW s \in SUBSET (1 .. m), s # {}
      PROVE  Max(s) \in 1 .. m
  <2>1. \E x \in s : \A y \in s : x >= y
    BY <1>1, <1>5, RangeHasMax
  <2> QED BY <2>1 DEF Max
<1>6. ASSUME NEW s \in SUBSET (1 .. m), s # {}, NEW x \in Delta
      PROVE  step[Max(s)][x] = AddDelta(x, text[Max(s)])
  BY <1>5, <1>6 DEF PositionSteps, DeltaFcn
<1>. HIDE DEF step
<1>7. IsIter(f)
  BY <1>4, <1>6 DEF IsFold
<1>8. IsIter(iter)
  <2>. HIDE DEF IsIter
  <2> QED BY <1>7
<1>. HIDE DEF iter
<1>9. FoldsLeft(iter, DeltaFcn, Delta, Error, NoDelta, text)
  <2>1. iter = [s \in SUBSET (1 .. m) |-> iter[s]]
    BY <1>8
  <2>2. ASSUME NEW s \in SUBSET (1 .. m), s # {}, iter[s \ {Max(s)}] \in Delta
        PROVE  iter[s] = DeltaFcn[iter[s \ {Max(s)}]][text[Max(s)]]
    <3>1. text[Max(s)] \in Error
      BY <1>5, <2>2, ElementOfSeq
    <3>2. iter[s] = AddDelta(iter[s \ {Max(s)}], text[Max(s)])
      BY <1>8, <2>2
    <3> QED BY <2>2, <3>1, <3>2 DEF DeltaFcn
  <2>3. iter[{}] = NoDelta
    BY <1>8
  <2>. HIDE DEF IsIter
  <2> QED BY <2>1, <2>2, <2>3, DeltaType DEF FoldsLeft
<1>10. iter[1 .. Len(text)] = Folded(DeltaFcn, NoDelta, text)
  BY <1>9, FoldLeftFolds
<1> QED BY <1>2, <1>10

LEMMA WithoutIsFold ==
    ASSUME NEW deps, NEW text \in Seq(Listed)
    PROVE  Without(text, deps) = Folded(KeptFcn(deps), <<>>, text)
<1>. DEFINE m == Len(text)
            IsIter(h) == h = [s \in SUBSET (1 .. m) |->
                                 IF s = {} THEN <<>> ELSE KeptDep(h[s \ {Max(s)}], text[Max(s)], deps)]
            step == PositionSteps(KeptFcn(deps), Lists, text)
            iter == CHOOSE h : IsIter(h)
<1>1. m \in Nat /\ DOMAIN text = 1 .. m
  OBVIOUS
<1>2. Without(text, deps) = iter[1 .. m]
  BY <1>1 DEF Without, KeptDep, FoldLeft, MapThenFoldSet
<1>3. step \in [1 .. m -> [Lists -> Lists]]
  BY KeptType DEF PositionSteps, IsStep
<1>4. PICK f : IsFold(f, Lists, <<>>, step, m)
  BY <1>1, <1>3, KeptType, FoldExists
<1>5. ASSUME NEW s \in SUBSET (1 .. m), s # {}
      PROVE  Max(s) \in 1 .. m
  <2>1. \E x \in s : \A y \in s : x >= y
    BY <1>1, <1>5, RangeHasMax
  <2> QED BY <2>1 DEF Max
<1>6. ASSUME NEW s \in SUBSET (1 .. m), s # {}, NEW x \in Lists
      PROVE  step[Max(s)][x] = KeptDep(x, text[Max(s)], deps)
  BY <1>5, <1>6 DEF PositionSteps, KeptFcn
<1>. HIDE DEF step
<1>7. IsIter(f)
  BY <1>4, <1>6 DEF IsFold
<1>8. IsIter(iter)
  <2>. HIDE DEF IsIter
  <2> QED BY <1>7
<1>. HIDE DEF iter
<1>9. FoldsLeft(iter, KeptFcn(deps), Lists, Listed, <<>>, text)
  <2>1. iter = [s \in SUBSET (1 .. m) |-> iter[s]]
    BY <1>8
  <2>2. ASSUME NEW s \in SUBSET (1 .. m), s # {}, iter[s \ {Max(s)}] \in Lists
        PROVE  iter[s] = KeptFcn(deps)[iter[s \ {Max(s)}]][text[Max(s)]]
    <3>1. text[Max(s)] \in Listed
      BY <1>5, <2>2, ElementOfSeq
    <3>2. iter[s] = KeptDep(iter[s \ {Max(s)}], text[Max(s)], deps)
      BY <1>8, <2>2
    <3> QED BY <2>2, <3>1, <3>2 DEF KeptFcn
  <2>3. iter[{}] = <<>>
    BY <1>8
  <2>. HIDE DEF IsIter
  <2> QED BY <2>1, <2>2, <2>3, KeptType DEF FoldsLeft
<1>10. iter[1 .. Len(text)] = Folded(KeptFcn(deps), <<>>, text)
  BY <1>9, FoldLeftFolds
<1> QED BY <1>2, <1>10

-----------------------------------------------------------------------------
(***************************************************************************)
(* What the loops compute, a turn at a time.                               *)
(***************************************************************************)
LEMMA ScanTurn ==
    ASSUME NEW text \in Outputs, NEW line \in OutputLine
    PROVE  /\ ScanOutput(text) \in Scanned
           /\ ScanOutput(<<>>) = NoErrors
           /\ ScanOutput(Append(text, line)) = ScanLine(ScanOutput(text), line)
<1>1. Append(text, line) \in Seq(OutputLine) /\ text \in Seq(OutputLine) /\ <<>> \in Seq(OutputLine)
  BY DEF Outputs
<1>f. /\ ScanOutput(text) = Folded(ScanFcn, NoErrors, text)
      /\ ScanOutput(<<>>) = Folded(ScanFcn, NoErrors, <<>>)
      /\ ScanOutput(Append(text, line)) = Folded(ScanFcn, NoErrors, Append(text, line))
  BY <1>1, ScanIsFold
<1>t. IsStep(ScanFcn, Scanned, OutputLine) /\ NoErrors \in Scanned
  BY ScanType
<1>2. ScanOutput(text) \in Scanned
  <2>1. Folded(ScanFcn, NoErrors, text) \in Scanned
    BY <1>1, <1>t, FoldedType
  <2> QED BY <1>f, <2>1
<1>3. ScanOutput(<<>>) = NoErrors
  <2>1. Folded(ScanFcn, NoErrors, <<>>) = NoErrors
    BY <1>t, FoldedEmpty
  <2> QED BY <1>f, <2>1
<1>4. ScanOutput(Append(text, line)) = ScanFcn[ScanOutput(text)][line]
  <2>1. Folded(ScanFcn, NoErrors, Append(text, line)) = ScanFcn[Folded(ScanFcn, NoErrors, text)][line]
    BY <1>1, <1>t, FoldedAppend
  <2> QED BY <1>f, <2>1
<1> QED BY <1>2, <1>3, <1>4 DEF ScanFcn

LEMMA DeltaTurn ==
    ASSUME NEW errors \in Errors, NEW e \in Error
    PROVE  /\ MakeDeltaDeps(errors) \in Delta
           /\ MakeDeltaDeps(<<>>) = NoDelta
           /\ MakeDeltaDeps(Append(errors, e)) = AddDelta(MakeDeltaDeps(errors), e)
<1>1. Append(errors, e) \in Seq(Error) /\ errors \in Seq(Error) /\ <<>> \in Seq(Error)
  BY DEF Errors
<1>f. /\ MakeDeltaDeps(errors) = Folded(DeltaFcn, NoDelta, errors)
      /\ MakeDeltaDeps(<<>>) = Folded(DeltaFcn, NoDelta, <<>>)
      /\ MakeDeltaDeps(Append(errors, e)) = Folded(DeltaFcn, NoDelta, Append(errors, e))
  BY <1>1, DeltaIsFold
<1>t. IsStep(DeltaFcn, Delta, Error) /\ NoDelta \in Delta
  BY DeltaType
<1>2. MakeDeltaDeps(errors) \in Delta
  <2>1. Folded(DeltaFcn, NoDelta, errors) \in Delta
    BY <1>1, <1>t, FoldedType
  <2> QED BY <1>f, <2>1
<1>3. MakeDeltaDeps(<<>>) = NoDelta
  <2>1. Folded(DeltaFcn, NoDelta, <<>>) = NoDelta
    BY <1>t, FoldedEmpty
  <2> QED BY <1>f, <2>1
<1>4. MakeDeltaDeps(Append(errors, e)) = DeltaFcn[MakeDeltaDeps(errors)][e]
  <2>1. Folded(DeltaFcn, NoDelta, Append(errors, e)) = DeltaFcn[Folded(DeltaFcn, NoDelta, errors)][e]
    BY <1>1, <1>t, FoldedAppend
  <2> QED BY <1>f, <2>1
<1> QED BY <1>2, <1>3, <1>4 DEF DeltaFcn

LEMMA WithoutTurn ==
    ASSUME NEW deps, NEW list \in Lists, NEW dep \in Listed
    PROVE  /\ Without(list, deps) \in Lists
           /\ Without(<<>>, deps) = <<>>
           /\ Without(Append(list, dep), deps) = KeptDep(Without(list, deps), dep, deps)
<1>. DEFINE F == KeptFcn(deps)
<1>1. Append(list, dep) \in Seq(Listed) /\ list \in Seq(Listed) /\ <<>> \in Seq(Listed)
  BY DEF Lists
<1>f. /\ Without(list, deps) = Folded(F, <<>>, list)
      /\ Without(<<>>, deps) = Folded(F, <<>>, <<>>)
      /\ Without(Append(list, dep), deps) = Folded(F, <<>>, Append(list, dep))
  BY <1>1, WithoutIsFold
<1>t. IsStep(F, Lists, Listed) /\ <<>> \in Lists
  BY KeptType
<1>2. Without(list, deps) \in Lists
  <2>. HIDE DEF F
  <2>1. Folded(F, <<>>, list) \in Lists
    BY <1>1, <1>t, FoldedType
  <2> QED BY <1>f, <2>1
<1>3. Without(<<>>, deps) = <<>>
  <2>. HIDE DEF F
  <2>1. Folded(F, <<>>, <<>>) = <<>>
    BY <1>t, FoldedEmpty
  <2> QED BY <1>f, <2>1
<1>4. Without(Append(list, dep), deps) = F[Without(list, deps)][dep]
  <2>. HIDE DEF F
  <2>1. Folded(F, <<>>, Append(list, dep)) = F[Folded(F, <<>>, list)][dep]
    BY <1>1, <1>t, FoldedAppend
  <2> QED BY <1>f, <2>1
<1> QED BY <1>2, <1>3, <1>4 DEF KeptFcn

-----------------------------------------------------------------------------
\* The removed dependencies are those that are gone.
LEMMA WithoutHas ==
    ASSUME NEW deps, NEW list \in Lists
    PROVE  Without(list, deps) \in Lists /\ ToSet(Without(list, deps)) = ToSet(list) \ ToSet(deps)
<1>. DEFINE Has(l) == ToSet(Without(l, deps)) = ToSet(l) \ ToSet(deps)
            S == {l \in Lists : Has(l)}
<1>0. <<>> \in Lists
  BY KeptType
<1>1. Has(<<>>)
  <2>1. ToSet(<<>>) = {}
    BY DEF ToSet
  <2>2. NoRule[1] \in Listed
    BY DEF Listed
  <2>3. Without(<<>>, deps) = <<>>
    BY <1>0, <2>2, WithoutTurn
  <2> QED BY <2>1, <2>3
<1>2. ASSUME NEW l \in Seq(Listed), NEW x \in Listed, Has(l)
      PROVE  Has(Append(l, x))
  <2>1. l \in Lists
    BY DEF Lists
  <2>2. Without(l, deps) \in Seq(Listed)
    BY <2>1, WithoutTurn DEF Lists
  <2>3. Without(Append(l, x), deps) =
            IF x \in ToSet(deps) THEN Without(l, deps) ELSE Append(Without(l, deps), x)
    BY <2>1, WithoutTurn DEF KeptDep
  <2>4. /\ ToSet(Append(l, x)) = ToSet(l) \cup {x}
        /\ ToSet(Append(Without(l, deps), x)) = ToSet(Without(l, deps)) \cup {x}
    BY <2>2, ToSetAppend
  <2> QED BY <1>2, <2>3, <2>4
<1>. HIDE DEF Has
<1>3. <<>> \in S /\ \A l \in Seq(Listed) : \A x \in Listed : l \in S => Append(l, x) \in S
  BY <1>0, <1>1, <1>2 DEF Lists
<1>. HIDE DEF S
<1>4. Seq(Listed) \subseteq S
  BY <1>3, SequenceInduction
<1>5. Without(list, deps) \in Lists
  <2>1. NoRule[1] \in Listed
    BY DEF Listed
  <2> QED BY <2>1, WithoutTurn
<1> QED BY <1>4, <1>5 DEF S, Has, Lists

\* Each error that asks for an edit gets one of its own.
DeltaHas(errors) ==
    /\ ToSet(MakeDeltaDeps(errors).adds) = {RuleDeps(e) : e \in {x \in ToSet(errors) : ToAdd(x)}}
    /\ ToSet(MakeDeltaDeps(errors).removes) = {RuleDeps(e) : e \in {x \in ToSet(errors) : ToRemove(x)}}

LEMMA DeltaOf ==
    ASSUME NEW errors \in Errors
    PROVE  MakeDeltaDeps(errors) \in Delta /\ DeltaHas(errors)
<1>. DEFINE S == {es \in Errors : DeltaHas(es)}
<1>0. <<>> \in Errors /\ MakeDeltaDeps(<<>>) = NoDelta
  <2>1. <<>> \in Errors
    BY DEF Errors
  <2>2. <<>> \in Seq(Error)
    BY DEF Errors
  <2>3. MakeDeltaDeps(<<>>) = Folded(DeltaFcn, NoDelta, <<>>)
    BY <2>2, DeltaIsFold
  <2> QED BY <2>1, <2>3, DeltaType, FoldedEmpty
<1>1. DeltaHas(<<>>)
  <2>1. ToSet(<<>>) = {}
    BY DEF ToSet
  <2> QED BY <1>0, <2>1 DEF DeltaHas, NoDelta
<1>2. ASSUME NEW es \in Seq(Error), NEW e \in Error, DeltaHas(es)
      PROVE  DeltaHas(Append(es, e))
  <2>. DEFINE old == MakeDeltaDeps(es)
              new == MakeDeltaDeps(Append(es, e))
  <2>1. old \in Delta /\ new = AddDelta(old, e)
    BY DeltaTurn DEF Errors
  <2>2. ToSet(Append(es, e)) = ToSet(es) \cup {e}
    BY ToSetAppend
  <2>3. /\ ToSet(old.adds) = {RuleDeps(x) : x \in {y \in ToSet(es) : ToAdd(y)}}
        /\ ToSet(old.removes) = {RuleDeps(x) : x \in {y \in ToSet(es) : ToRemove(y)}}
    BY <1>2 DEF DeltaHas
  <2>. HIDE DEF old, new
  <2>4. ToAdd(e) \/ ToRemove(e) =>
            /\ ToSet(Append(old.adds, RuleDeps(e))) = ToSet(old.adds) \cup {RuleDeps(e)}
            /\ ToSet(Append(old.removes, RuleDeps(e))) = ToSet(old.removes) \cup {RuleDeps(e)}
    <3>. SUFFICES ASSUME ToAdd(e) \/ ToRemove(e)
                  PROVE  /\ ToSet(Append(old.adds, RuleDeps(e))) = ToSet(old.adds) \cup {RuleDeps(e)}
                         /\ ToSet(Append(old.removes, RuleDeps(e))) = ToSet(old.removes) \cup {RuleDeps(e)}
      OBVIOUS
    <3>1. RuleDeps(e) \in Edit
      BY EditType
    <3>2. old.adds \in Seq(Edit) /\ old.removes \in Seq(Edit)
      BY <2>1 DEF Delta, Edits
    <3> QED BY <3>1, <3>2, ToSetAppend
  <2>5. ToRemove(e) => ~ToAdd(e)
    BY EditType
  <2>6. ToSet(new.adds) = ToSet(old.adds) \cup IF ToAdd(e) THEN {RuleDeps(e)} ELSE {}
    BY <2>1, <2>4 DEF AddDelta, Delta
  <2>7. ToSet(new.removes) = ToSet(old.removes) \cup IF ToRemove(e) THEN {RuleDeps(e)} ELSE {}
    BY <2>1, <2>4, <2>5 DEF AddDelta, Delta
  <2>8. ToSet(new.adds) = {RuleDeps(x) : x \in {y \in ToSet(Append(es, e)) : ToAdd(y)}}
    BY <2>2, <2>3, <2>6
  <2>9. ToSet(new.removes) = {RuleDeps(x) : x \in {y \in ToSet(Append(es, e)) : ToRemove(y)}}
    BY <2>2, <2>3, <2>7
  <2> QED BY <2>8, <2>9 DEF DeltaHas, new
<1>3. <<>> \in S /\ \A es \in Seq(Error) : \A e \in Error : es \in S => Append(es, e) \in S
  BY <1>0, <1>1, <1>2 DEF Errors
<1>. HIDE DEF S
<1>4. Seq(Error) \subseteq S
  BY <1>3, SequenceInduction
<1>5. errors \in Seq(Error)
  BY DEF Errors
<1>6. MakeDeltaDeps(errors) \in Delta
  <2>1. Folded(DeltaFcn, NoDelta, errors) \in Delta
    BY <1>5, DeltaType, FoldedType
  <2> QED BY <1>5, <2>1, DeltaIsFold
<1> QED BY <1>4, <1>5, <1>6 DEF S
-----------------------------------------------------------------------------
(***************************************************************************)
(* Which lines the errors keep: each error the last one that concerns it.  *)
(***************************************************************************)
ConcernsIn(text, i, r) ==
    \E j \in 1 .. i - 1 :
        /\ text[j] \in ErrorLines /\ RuleOf[text[j].about] = r
        /\ \A k \in j + 1 .. i : text[k] \notin ErrorLines

\* The error line whose error is the last one.
OpenedBy(text, j, r) ==
    /\ j \in 1 .. Len(text) /\ text[j] \in ErrorLines /\ RuleOf[text[j].about] = r
    /\ \A k \in j + 1 .. Len(text) : text[k] \notin ErrorLines

FromOutput(text, errors) ==
    \A e \in ToSet(errors) :
        \/ e.error = NoError
        \/ \E i \in 1 .. Len(text) : text[i] = e.error /\ ConcernsIn(text, i, e.rule)

EarlierKept(text, errors) ==
    \A i \in 1 .. Len(text) : \A r \in Rule :
        ConcernsIn(text, i, r) /\ i < Len(text) /\ text[i + 1] \in ErrorLines =>
            \E m \in 1 .. Len(errors) : m < Len(errors) /\ errors[m] = [rule |-> r, error |-> text[i]]

LastKept(text, errors) ==
    \A r \in Rule : Len(text) > 0 /\ ConcernsIn(text, Len(text), r) =>
        errors # <<>> /\ errors[Len(errors)] = [rule |-> r, error |-> text[Len(text)]]

LastOpened(text, errors) ==
    IF errors = <<>> THEN \A j \in 1 .. Len(text) : text[j] \notin ErrorLines
    ELSE \E j \in 1 .. Len(text) : OpenedBy(text, j, errors[Len(errors)].rule)

ErrorsFit(text, errors) ==
    /\ FromOutput(text, errors) /\ EarlierKept(text, errors)
    /\ LastKept(text, errors) /\ LastOpened(text, errors)

ScanHas(text) == ~ScanOutput(text).panics => ErrorsFit(text, ScanOutput(text).errors)

LEMMA LongerText ==
    ASSUME NEW text \in Outputs, NEW line \in OutputLine
    PROVE  LET longer == Append(text, line)
               n == Len(text)
           IN /\ longer \in Outputs /\ Len(longer) = n + 1 /\ n \in Nat /\ longer[n + 1] = line
              /\ \A i \in 1 .. n : longer[i] = text[i]
              /\ \A i \in 1 .. n : \A r : ConcernsIn(longer, i, r) <=> ConcernsIn(text, i, r)
<1>. DEFINE longer == Append(text, line)
            n == Len(text)
<1>1. /\ longer \in Outputs /\ Len(longer) = n + 1 /\ n \in Nat /\ longer[n + 1] = line
      /\ \A i \in 1 .. n : longer[i] = text[i]
  BY DEF Outputs
<1>. HIDE DEF longer, n
<1>2. ASSUME NEW i \in 1 .. n, NEW r
      PROVE  ConcernsIn(longer, i, r) <=> ConcernsIn(text, i, r)
  <2>1. \A j \in 1 .. i : longer[j] = text[j]
    BY <1>1
  <2>2. \A j \in 1 .. i - 1 : j \in 1 .. i /\ \A k \in j + 1 .. i : k \in 1 .. i
    BY <1>1
  <2> QED BY <2>1, <2>2 DEF ConcernsIn
<1> QED BY <1>1, <1>2 DEF longer, n

\* An error line: the error before it is complete.
LEMMA ErrorOpens ==
    ASSUME NEW text \in Outputs, NEW line \in ErrorLines, NEW errors \in Errors, ErrorsFit(text, errors)
    PROVE  ErrorsFit(Append(text, line), Append(errors, [rule |-> RuleOf[line.about], error |-> NoError]))
<1>. DEFINE longer == Append(text, line)
            n == Len(text)
            new == [rule |-> RuleOf[line.about], error |-> NoError]
            more == Append(errors, new)
            m == Len(errors)
<1>0. line \in OutputLine
  BY DEF OutputLine
<1>1. /\ longer \in Outputs /\ Len(longer) = n + 1 /\ n \in Nat /\ longer[n + 1] = line
      /\ \A i \in 1 .. n : longer[i] = text[i]
      /\ \A i \in 1 .. n : \A r : ConcernsIn(longer, i, r) <=> ConcernsIn(text, i, r)
  BY <1>0, LongerText
<1>2. new \in Error
  <2>1. PICK t \in KeepTarget : line = ErrorLine(t)
    BY DEF ErrorLines
  <2>2. RuleOf[line.about] \in Rule
    BY <2>1, KeepAssumption DEF ErrorLine
  <2> QED BY <2>2 DEF Error
<1>3. /\ more \in Errors /\ Len(more) = m + 1 /\ m \in Nat /\ more[m + 1] = new /\ more # <<>>
      /\ \A i \in 1 .. m : more[i] = errors[i]
      /\ m > 0 <=> errors # <<>>
  BY <1>2 DEF Errors
<1>4. ToSet(more) = ToSet(errors) \cup {new}
  BY <1>2, ToSetAppend DEF Errors
<1>n. new.error = NoError /\ new.rule = RuleOf[line.about]
  OBVIOUS
<1>. HIDE DEF longer, n, new, more, m
<1>5. FromOutput(longer, more)
  <2>. SUFFICES ASSUME NEW e \in ToSet(errors), e.error # NoError
                PROVE  \E i \in 1 .. n + 1 : longer[i] = e.error /\ ConcernsIn(longer, i, e.rule)
    BY <1>1, <1>4, <1>n DEF FromOutput
  <2>1. PICK i \in 1 .. n : text[i] = e.error /\ ConcernsIn(text, i, e.rule)
    BY DEF ErrorsFit, FromOutput, n
  <2>2. i \in 1 .. n + 1 /\ longer[i] = e.error /\ ConcernsIn(longer, i, e.rule)
    BY <1>1, <2>1
  <2> QED BY <2>2
<1>6. EarlierKept(longer, more)
  <2>. SUFFICES ASSUME NEW i \in 1 .. n, NEW r \in Rule, ConcernsIn(text, i, r), longer[i + 1] \in ErrorLines
                PROVE  \E k \in 1 .. m + 1 : k < m + 1 /\ more[k] = [rule |-> r, error |-> text[i]]
    <3>1. \A i \in 1 .. n + 1 : i < n + 1 => i \in 1 .. n
      BY <1>1
    <3> QED BY <1>1, <1>3, <3>1 DEF EarlierKept
  <2>1. CASE i < n
    <3>1. text[i + 1] \in ErrorLines
      BY <1>1, <2>1
    <3>2. PICK k \in 1 .. m : k < m /\ errors[k] = [rule |-> r, error |-> text[i]]
      BY <2>1, <3>1 DEF ErrorsFit, EarlierKept, n, m
    <3>3. k \in 1 .. m + 1 /\ k < m + 1 /\ more[k] = errors[k]
      BY <1>3, <3>2
    <3> QED BY <3>2, <3>3
  <2>2. CASE i = n
    <3>1. errors # <<>> /\ errors[m] = [rule |-> r, error |-> text[n]]
      BY <1>1, <2>2 DEF ErrorsFit, LastKept, n, m
    <3>2. m \in 1 .. m + 1 /\ m < m + 1 /\ more[m] = errors[m]
      BY <1>3, <3>1
    <3> QED BY <2>2, <3>1, <3>2
  <2> QED BY <1>1, <2>1, <2>2
<1>7. LastKept(longer, more)
  <2>1. \A r : ~ConcernsIn(longer, n + 1, r)
    <3>1. \A j \in 1 .. (n + 1) - 1 : n + 1 \in j + 1 .. n + 1
      BY <1>1
    <3> QED BY <1>1, <3>1 DEF ConcernsIn
  <2> QED BY <1>1, <2>1 DEF LastKept
<1>8. LastOpened(longer, more)
  <2>1. OpenedBy(longer, n + 1, new.rule)
    <3>1. \A k \in (n + 1) + 1 .. n + 1 : FALSE
      BY <1>1
    <3>2. n + 1 \in 1 .. n + 1
      BY <1>1
    <3> QED BY <1>1, <1>n, <3>1, <3>2 DEF OpenedBy
  <2>2. more[Len(more)] = new /\ n + 1 \in 1 .. Len(longer)
    BY <1>1, <1>3
  <2> QED BY <1>3, <2>1, <2>2 DEF LastOpened
<1> QED BY <1>5, <1>6, <1>7, <1>8 DEF ErrorsFit, longer, more, new

\* A diagnostic: the last error takes it.
LEMMA DiagnosticKept ==
    ASSUME NEW text \in Outputs, NEW line \in MissingErrors \cup UnusedErrors,
           NEW errors \in Errors, errors # <<>>, ErrorsFit(text, errors)
    PROVE  ErrorsFit(Append(text, line), [errors EXCEPT ![Len(errors)].error = line])
<1>. DEFINE longer == Append(text, line)
            n == Len(text)
            m == Len(errors)
            new == [errors[m] EXCEPT !.error = line]
            more == [errors EXCEPT ![m] = new]
<1>0. line \in OutputLine /\ line \notin ErrorLines
  BY OneKind DEF OutputLine
<1>1. /\ longer \in Outputs /\ Len(longer) = n + 1 /\ n \in Nat /\ longer[n + 1] = line
      /\ \A i \in 1 .. n : longer[i] = text[i]
      /\ \A i \in 1 .. n : \A r : ConcernsIn(longer, i, r) <=> ConcernsIn(text, i, r)
  BY <1>0, LongerText
<1>2. m \in 1 .. m /\ m \in Nat /\ errors[m] \in Error
  BY DEF Errors
<1>n. new \in Error /\ new = [rule |-> errors[m].rule, error |-> line]
  BY <1>2 DEF Error
<1>. HIDE DEF longer, n, new
<1>3. /\ more \in Errors /\ Len(more) = m /\ more[m] = new
      /\ \A i \in 1 .. m : i # m => more[i] = errors[i]
  <2>1. errors \in Seq(Error)
    BY DEF Errors
  <2> QED BY <1>2, <1>n, <2>1, ExceptSeq DEF Errors
<1>d. DOMAIN more = 1 .. m /\ DOMAIN errors = 1 .. m /\ more # <<>>
  BY <1>2 DEF Errors
<1>. HIDE DEF m, more
<1>4. \A e \in ToSet(more) : e = new \/ e \in ToSet(errors)
  BY <1>3, <1>d DEF ToSet
<1>5. PICK j \in 1 .. n : OpenedBy(text, j, errors[m].rule)
  BY DEF ErrorsFit, LastOpened, n, m
<1>6. OpenedBy(longer, j, errors[m].rule)
  <2>1. j \in 1 .. n + 1 /\ longer[j] = text[j]
    BY <1>1
  <2>2. ASSUME NEW k \in j + 1 .. n + 1
        PROVE  longer[k] \notin ErrorLines
    <3>1. CASE k = n + 1
      BY <1>0, <1>1, <3>1
    <3>2. CASE k # n + 1
      <4>1. k \in j + 1 .. n /\ k \in 1 .. n
        BY <1>1, <3>2
      <4> QED BY <1>1, <1>5, <4>1 DEF OpenedBy, n
    <3> QED BY <3>1, <3>2
  <2> QED BY <1>1, <1>5, <2>1, <2>2 DEF OpenedBy
<1>7. ConcernsIn(longer, n + 1, errors[m].rule)
  <2>1. j \in 1 .. (n + 1) - 1
    BY <1>1
  <2> QED BY <1>1, <1>6, <2>1 DEF OpenedBy, ConcernsIn
<1>8. FromOutput(longer, more)
  <2>. SUFFICES ASSUME NEW e \in ToSet(more), e.error # NoError
                PROVE  \E i \in 1 .. n + 1 : longer[i] = e.error /\ ConcernsIn(longer, i, e.rule)
    BY <1>1 DEF FromOutput
  <2>1. CASE e = new
    <3>1. n + 1 \in 1 .. n + 1
      BY <1>1
    <3> QED BY <1>1, <1>n, <1>7, <2>1, <3>1
  <2>2. CASE e \in ToSet(errors)
    <3>1. PICK i \in 1 .. n : text[i] = e.error /\ ConcernsIn(text, i, e.rule)
      BY <2>2 DEF ErrorsFit, FromOutput, n
    <3>2. i \in 1 .. n + 1 /\ longer[i] = e.error /\ ConcernsIn(longer, i, e.rule)
      BY <1>1, <3>1
    <3> QED BY <3>2
  <2> QED BY <1>4, <2>1, <2>2
<1>9. EarlierKept(longer, more)
  <2>. SUFFICES ASSUME NEW i \in 1 .. n + 1, NEW r \in Rule, ConcernsIn(longer, i, r), i < n + 1,
                       longer[i + 1] \in ErrorLines
                PROVE  \E k \in 1 .. m : k < m /\ more[k] = [rule |-> r, error |-> longer[i]]
    BY <1>1, <1>3 DEF EarlierKept
  <2>1. i \in 1 .. n /\ i < n
    <3>1. i # n
      BY <1>0, <1>1
    <3> QED BY <1>1, <3>1
  <2>2. text[i + 1] \in ErrorLines /\ ConcernsIn(text, i, r) /\ longer[i] = text[i]
    <3>1. i + 1 \in 1 .. n
      BY <1>1, <2>1
    <3> QED BY <1>1, <2>1, <3>1
  <2>3. PICK k \in 1 .. m : k < m /\ errors[k] = [rule |-> r, error |-> text[i]]
    BY <2>1, <2>2 DEF ErrorsFit, EarlierKept, n, m
  <2>4. more[k] = errors[k]
    BY <1>2, <1>3, <2>3
  <2> QED BY <2>2, <2>3, <2>4
<1>10. LastKept(longer, more)
  <2>. SUFFICES ASSUME NEW r \in Rule, ConcernsIn(longer, n + 1, r)
                PROVE  r = errors[m].rule
    BY <1>1, <1>3, <1>n, <1>d DEF LastKept
  <2>1. PICK i \in 1 .. (n + 1) - 1 :
            /\ longer[i] \in ErrorLines /\ RuleOf[longer[i].about] = r
            /\ \A k \in i + 1 .. n + 1 : longer[k] \notin ErrorLines
    BY DEF ConcernsIn
  <2>2. /\ longer[j] \in ErrorLines /\ RuleOf[longer[j].about] = errors[m].rule
        /\ \A k \in j + 1 .. n + 1 : longer[k] \notin ErrorLines
    BY <1>1, <1>6 DEF OpenedBy
  <2>3. i = j
    <3>1. ~ (i \in j + 1 .. n + 1) /\ ~ (j \in i + 1 .. n + 1)
      BY <2>1, <2>2
    <3> QED BY <1>1, <2>1, <3>1
  <2> QED BY <2>1, <2>2, <2>3
<1>11. LastOpened(longer, more)
  <2>1. j \in 1 .. Len(longer) /\ more[Len(more)].rule = errors[m].rule
    BY <1>1, <1>3, <1>n
  <2> QED BY <1>6, <1>d, <2>1 DEF LastOpened
<1> QED BY <1>8, <1>9, <1>10, <1>11 DEF ErrorsFit, longer, more, new, m
\* What ScanOutput returns, unless it panics.
LEMMA ScanOf ==
    ASSUME NEW text \in Outputs
    PROVE  ScanOutput(text) \in Scanned /\ ScanHas(text)
<1>. DEFINE S == {t \in Outputs : ScanHas(t)}
<1>0. <<>> \in Outputs /\ RequiredBy \in OutputLine
  BY DEF Outputs, OutputLine
<1>1. ScanHas(<<>>)
  <2>1. ScanOutput(<<>>) = NoErrors
    BY <1>0, ScanTurn
  <2>2. ToSet(<<>>) = {}
    BY DEF ToSet
  <2>3. ErrorsFit(<<>>, <<>>)
    BY <2>2 DEF ErrorsFit, FromOutput, EarlierKept, LastKept, LastOpened
  <2> QED BY <2>1, <2>3 DEF ScanHas, NoErrors
<1>2. ASSUME NEW t \in Seq(OutputLine), NEW line \in OutputLine, ScanHas(t)
      PROVE  ScanHas(Append(t, line))
  <2>. DEFINE state == ScanOutput(t)
  <2>1. t \in Outputs /\ state \in Scanned /\ ScanOutput(Append(t, line)) = ScanLine(state, line)
    BY ScanTurn DEF Outputs
  <2>2. ~state.panics => ErrorsFit(t, state.errors)
    BY <1>2 DEF ScanHas
  <2>. HIDE DEF state
  <2>3. state.errors \in Errors /\ state.panics \in BOOLEAN
    BY <2>1 DEF Scanned
  <2>4. CASE state.panics
    BY <2>1, <2>4 DEF ScanHas, ScanLine
  <2>5. CASE ~state.panics /\ line \in ErrorLines
    <3>1. ErrorsFit(Append(t, line), Append(state.errors, [rule |-> RuleOf[line.about], error |-> NoError]))
      BY <2>1, <2>2, <2>3, <2>5, ErrorOpens
    <3>2. ScanLine(state, line).errors = Append(state.errors, [rule |-> RuleOf[line.about], error |-> NoError])
      BY <2>1, <2>5 DEF ScanLine, Scanned
    <3> QED BY <2>1, <3>1, <3>2 DEF ScanHas
  <2>6. CASE ~state.panics /\ line \notin ErrorLines /\ (line = RequiredBy \/ state.errors = <<>>)
    <3>1. ScanLine(state, line).panics
      BY <2>1, <2>6 DEF ScanLine, Scanned
    <3> QED BY <2>1, <3>1 DEF ScanHas
  <2>7. CASE ~state.panics /\ line \notin ErrorLines /\ line # RequiredBy /\ state.errors # <<>>
    <3>1. ErrorsFit(Append(t, line), [state.errors EXCEPT ![Len(state.errors)].error = line])
      <4>1. line \in MissingErrors \cup UnusedErrors
        BY <2>7, ErrorKinds
      <4> QED BY <2>1, <2>2, <2>3, <2>7, <4>1, DiagnosticKept
    <3>2. ScanLine(state, line).errors = [state.errors EXCEPT ![Len(state.errors)].error = line]
      BY <2>1, <2>7 DEF ScanLine, Scanned
    <3> QED BY <2>1, <3>1, <3>2 DEF ScanHas
  <2> QED BY <2>3, <2>4, <2>5, <2>6, <2>7
<1>3. <<>> \in S /\ \A t \in Seq(OutputLine) : \A line \in OutputLine : t \in S => Append(t, line) \in S
  BY <1>0, <1>1, <1>2 DEF Outputs
<1>. HIDE DEF S
<1>4. Seq(OutputLine) \subseteq S
  BY <1>3, SequenceInduction
<1>5. ScanOutput(text) \in Scanned
  BY <1>0, ScanTurn
<1> QED BY <1>4, <1>5 DEF S, Outputs

-----------------------------------------------------------------------------
(***************************************************************************)
(* The inductive invariant.                                                *)
(***************************************************************************)
KeepTypes ==
    /\ output \in Outputs /\ diagnostics \in Errors /\ adds \in Edits /\ removes \in Edits
    /\ buildFiles \in [Rule -> Lists] /\ before \in [Rule -> Lists]

\* Once the output is scanned.
Applying == keepPhase \in {"apply", "failed", "done"}

\* Every error has a line of the output that concerns its rule, the last one.
DiagnosticsFit ==
    /\ \A e \in ToSet(diagnostics) :
        e.error = NoError \/ \E i \in DOMAIN output : output[i] = e.error /\ Concerns(i, e.rule)
    /\ Applying => \A r \in Rule : \A i \in DOMAIN output :
        Concerns(i, r) /\ LastOfItsError(i) =>
            \E e \in ToSet(diagnostics) : e.rule = r /\ e.error = output[i]

Takes(e, rule, dep) == ToRemove(e) /\ e.rule = rule /\ e.error.about = dep

\* The edits to come are those of errors, and so are those that were made.
EditsAsked ==
    /\ ToSet(adds) \subseteq {RuleDeps(e) : e \in {x \in ToSet(diagnostics) : ToAdd(x)}}
    /\ ToSet(removes) \subseteq {RuleDeps(e) : e \in {x \in ToSet(diagnostics) : ToRemove(x)}}
    /\ \A r \in Rule :
        /\ before[r] \in {NoRule, NoList} => buildFiles[r] = before[r]
        /\ \A d \in ToSet(buildFiles[r]) \ ToSet(before[r]) :
            \E e \in ToSet(diagnostics) : ToAdd(e) /\ e.rule = r /\ Deps[e.error.about] = d
        /\ \A d \in ToSet(before[r]) \ ToSet(buildFiles[r]) :
            \E e \in ToSet(diagnostics) : Takes(e, r, d)

\* No error is forgotten.
ErrorsSettled ==
    /\ Applying => \A e \in ToSet(diagnostics) :
        /\ ToAdd(e) =>
            \/ RuleDeps(e) \in ToSet(adds)
            \/ Deps[e.error.about] \in ToSet(buildFiles[e.rule])
            \/ \E f \in ToSet(diagnostics) : Takes(f, e.rule, Deps[e.error.about])
        /\ ToRemove(e) =>
            \/ RuleDeps(e) \in ToSet(removes)
            \/ adds = <<>> /\ e.error.about \notin ToSet(buildFiles[e.rule])
    /\ ~Applying => diagnostics = <<>>
    /\ keepPhase = "done" => adds = <<>> /\ removes = <<>>

KeepInv == KeepTypes /\ DiagnosticsFit /\ EditsAsked /\ ErrorsSettled

-----------------------------------------------------------------------------
LEMMA NoItems == \A s : s = <<>> => ToSet(s) = {}
BY DEF ToSet

\* Before the build.
LEMMA KeepStart == KeepInit => KeepInv
<1>. SUFFICES ASSUME KeepInit
              PROVE  KeepInv
  OBVIOUS
<1>1. /\ before = buildFiles /\ keepPhase = "build" /\ output = <<>> /\ diagnostics = <<>>
      /\ adds = <<>> /\ removes = <<>>
  BY DEF KeepInit
<1>2. buildFiles \in [Rule -> Lists]
  <2>1. NoRule \in Lists /\ NoList \in Lists
    BY DEF NoRule, NoList, Listed, Lists
  <2>2. PICK file \in Files :
            \/ buildFiles = file
            \/ \E r \in Rule, broken \in {NoRule, NoList} : buildFiles = [file EXCEPT ![r] = broken]
    BY DEF KeepInit
  <2>3. file \in [Rule -> Lists]
    <3>. DEFINE items == UNION {ToSet(file[r]) : r \in Rule}
    <3>1. items \subseteq Listed
      BY DEF Listed
    <3>2. file \in [Rule -> Seq(items)]
      BY KeepAssumption
    <3>. HIDE DEF items
    <3>3. \A s \in Seq(items) : s \in Lists
      BY <3>1 DEF Lists
    <3> QED BY <3>2, <3>3
  <2> QED BY <2>1, <2>2, <2>3
<1>3. KeepTypes
  <2>1. <<>> \in Outputs /\ <<>> \in Errors /\ <<>> \in Edits
    BY DEF Outputs, Errors, Edits
  <2> QED BY <1>1, <1>2, <2>1 DEF KeepTypes
<1>4. ToSet(diagnostics) = {} /\ ToSet(adds) = {} /\ ToSet(removes) = {}
  BY <1>1, NoItems
<1> QED BY <1>1, <1>3, <1>4 DEF KeepInv, DiagnosticsFit, EditsAsked, ErrorsSettled, Applying
\* Steps that leave the edits and the files alone.
LEMMA EditsStay ==
    ASSUME EditsAsked, UNCHANGED <<diagnostics, adds, removes, buildFiles, before>>
    PROVE  EditsAsked'
<1>1. /\ ToSet(diagnostics)' = ToSet(diagnostics) /\ ToSet(adds)' = ToSet(adds)
      /\ ToSet(removes)' = ToSet(removes)
      /\ \A r \in Rule : buildFiles'[r] = buildFiles[r] /\ before'[r] = before[r]
  OBVIOUS
<1> QED BY <1>1 DEF EditsAsked

LEMMA DiagnosticsStay ==
    ASSUME DiagnosticsFit, Applying, UNCHANGED <<output, diagnostics>>
    PROVE  DiagnosticsFit'
<1>1. /\ ToSet(diagnostics)' = ToSet(diagnostics)
      /\ \A i, r : Concerns(i, r)' <=> Concerns(i, r)
      /\ \A i : LastOfItsError(i)' <=> LastOfItsError(i)
  BY DEF Concerns, LastOfItsError
<1> QED BY <1>1 DEF DiagnosticsFit

\* What is known of the scanned output, in terms of the variables.
LEMMA ScanFits ==
    ASSUME output \in Outputs, NEW errors \in Errors, ErrorsFit(output, errors)
    PROVE  /\ \A e \in ToSet(errors) :
                e.error = NoError \/ \E i \in DOMAIN output : output[i] = e.error /\ Concerns(i, e.rule)
           /\ \A r \in Rule : \A i \in DOMAIN output :
                Concerns(i, r) /\ LastOfItsError(i) =>
                    \E e \in ToSet(errors) : e.rule = r /\ e.error = output[i]
<1>1. /\ DOMAIN output = 1 .. Len(output) /\ Len(output) \in Nat
      /\ DOMAIN errors = 1 .. Len(errors) /\ Len(errors) \in Nat
      /\ errors # <<>> => Len(errors) \in 1 .. Len(errors)
  BY DEF Outputs, Errors
<1>2. \A i, r : Concerns(i, r) <=> ConcernsIn(output, i, r)
  BY DEF Concerns, ConcernsIn
<1>3. ASSUME NEW r \in Rule, NEW i \in DOMAIN output, Concerns(i, r), LastOfItsError(i)
      PROVE  \E e \in ToSet(errors) : e.rule = r /\ e.error = output[i]
  <2>. SUFFICES \E k \in DOMAIN errors : errors[k] = [rule |-> r, error |-> output[i]]
    BY DEF ToSet
  <2>1. CASE i = Len(output)
    BY <1>1, <1>2, <1>3, <2>1 DEF ErrorsFit, LastKept
  <2>2. CASE i # Len(output)
    <3>1. i < Len(output) /\ output[i + 1] \in ErrorLines
      BY <1>1, <1>3, <2>2 DEF LastOfItsError
    <3> QED BY <1>1, <1>2, <1>3, <3>1 DEF ErrorsFit, EarlierKept
  <2> QED BY <2>1, <2>2
<1> QED BY <1>1, <1>2, <1>3 DEF ErrorsFit, FromOutput

LEMMA ScanKeeps == KeepInv /\ Scan => KeepInv'
<1>. SUFFICES ASSUME KeepInv, Scan
              PROVE  KeepInv'
  OBVIOUS
<1>. DEFINE state == ScanOutput(output)
            delta == MakeDeltaDeps(diagnostics')
<1>1. /\ keepPhase = "scan" /\ UNCHANGED <<output, buildFiles, before>>
      /\ keepPhase' = IF state.panics THEN "panicked" ELSE "apply"
      /\ diagnostics' = IF state.panics THEN <<>> ELSE state.errors
      /\ adds' = delta.adds /\ removes' = delta.removes
  BY DEF Scan
<1>2. KeepTypes /\ EditsAsked /\ ErrorsSettled
  BY DEF KeepInv
<1>3. state \in Scanned /\ (~state.panics => ErrorsFit(output, state.errors))
  BY <1>2, ScanOf DEF KeepTypes, ScanHas
<1>4. diagnostics' \in Errors /\ <<>> \in Errors /\ (state.panics => ToSet(diagnostics') = {})
  <2>1. <<>> \in Errors
    BY DEF Errors
  <2> QED BY <1>1, <1>3, <2>1, NoItems DEF Scanned
<1>5. delta \in Delta /\ DeltaHas(diagnostics')
  BY <1>4, DeltaOf
<1>6. /\ ToSet(adds') = {RuleDeps(e) : e \in {x \in ToSet(diagnostics') : ToAdd(x)}}
      /\ ToSet(removes') = {RuleDeps(e) : e \in {x \in ToSet(diagnostics') : ToRemove(x)}}
  BY <1>1, <1>5 DEF DeltaHas
<1>. HIDE DEF state, delta
<1>7. KeepTypes'
  BY <1>1, <1>2, <1>4, <1>5 DEF KeepTypes, Delta
<1>8. DiagnosticsFit'
  <2>1. CASE state.panics
    BY <1>1, <1>4, <2>1 DEF DiagnosticsFit, Applying
  <2>2. CASE ~state.panics
    <3>1. diagnostics' = state.errors /\ ErrorsFit(output, state.errors)
      BY <1>1, <1>3, <2>2
    <3>2. /\ \A e \in ToSet(diagnostics') :
                e.error = NoError \/ \E i \in DOMAIN output : output[i] = e.error /\ Concerns(i, e.rule)
          /\ \A r \in Rule : \A i \in DOMAIN output :
                Concerns(i, r) /\ LastOfItsError(i) =>
                    \E e \in ToSet(diagnostics') : e.rule = r /\ e.error = output[i]
      <4>1. state.errors \in Errors /\ output \in Outputs
        BY <1>2, <1>3 DEF Scanned, KeepTypes
      <4>2. /\ \A e \in ToSet(state.errors) :
                e.error = NoError \/ \E i \in DOMAIN output : output[i] = e.error /\ Concerns(i, e.rule)
            /\ \A r \in Rule : \A i \in DOMAIN output :
                Concerns(i, r) /\ LastOfItsError(i) =>
                    \E e \in ToSet(state.errors) : e.rule = r /\ e.error = output[i]
        BY <3>1, <4>1, ScanFits
      <4> QED BY <3>1, <4>2
    <3>3. /\ \A i, r : Concerns(i, r)' <=> Concerns(i, r)
          /\ \A i : LastOfItsError(i)' <=> LastOfItsError(i)
      BY <1>1 DEF Concerns, LastOfItsError
    <3> QED BY <1>1, <3>2, <3>3 DEF DiagnosticsFit
  <2> QED BY <2>1, <2>2
<1>9. \A r \in Rule : ToSet(buildFiles[r]) = ToSet(before[r])
  <2>1. diagnostics = <<>>
    BY <1>1, <1>2 DEF ErrorsSettled, Applying
  <2>2. ToSet(diagnostics) = {}
    BY <2>1, NoItems
  <2> QED BY <1>2, <2>2 DEF EditsAsked
<1>10. EditsAsked'
  BY <1>1, <1>2, <1>6, <1>9 DEF EditsAsked
<1>11. ErrorsSettled'
  BY <1>1, <1>4, <1>6 DEF ErrorsSettled, Applying
<1> QED BY <1>7, <1>8, <1>10, <1>11 DEF KeepInv
LEMMA FirstEdit ==
    ASSUME NEW edits \in Edits, edits # <<>>
    PROVE  /\ Head(edits) \in ToSet(edits) /\ Head(edits) \in Edit /\ Tail(edits) \in Edits
           /\ ToSet(edits) = {Head(edits)} \cup ToSet(Tail(edits))
<1>. DEFINE n == Len(edits)
            rest == Tail(edits)
<1>1. /\ n \in Nat /\ n > 0 /\ DOMAIN edits = 1 .. n /\ Head(edits) = edits[1] /\ edits[1] \in Edit
      /\ rest \in Edits /\ DOMAIN rest = 1 .. n - 1 /\ \A i \in 1 .. n - 1 : rest[i] = edits[i + 1]
  BY DEF Edits
<1>. HIDE DEF n, rest
<1>2. \A i \in 1 .. n : i = 1 \/ (i - 1 \in 1 .. n - 1 /\ (i - 1) + 1 = i)
  BY <1>1
<1>3. \A i \in 1 .. n - 1 : i + 1 \in 1 .. n
  BY <1>1
<1>4. ASSUME NEW x \in ToSet(edits), x # edits[1]
      PROVE  x \in ToSet(rest)
  <2>1. PICK i \in 1 .. n : x = edits[i]
    BY <1>1 DEF ToSet
  <2>2. i - 1 \in 1 .. n - 1 /\ rest[i - 1] = x
    BY <1>1, <1>2, <1>4, <2>1
  <2> QED BY <1>1, <2>2 DEF ToSet
<1>5. ASSUME NEW x \in ToSet(rest)
      PROVE  x \in ToSet(edits)
  <2>1. PICK i \in 1 .. n - 1 : x = rest[i]
    BY <1>1 DEF ToSet
  <2> QED BY <1>1, <1>3, <2>1 DEF ToSet
<1>6. edits[1] \in ToSet(edits)
  BY <1>1 DEF ToSet
<1> QED BY <1>1, <1>4, <1>5, <1>6 DEF rest

LEMMA OneItem == \A x : ToSet(<<x>>) = {x}
BY DEF ToSet

LEMMA AddKeeps == KeepInv /\ AddDeps => KeepInv'
<1>. SUFFICES ASSUME KeepInv, AddDeps
              PROVE  KeepInv'
  OBVIOUS
<1>. DEFINE edit == Head(adds)
<1>1. /\ keepPhase = "apply" /\ adds # <<>> /\ buildFiles[edit.rule] \notin {NoRule, NoList}
      /\ buildFiles' = [buildFiles EXCEPT ![edit.rule] = @ \o edit.deps]
      /\ adds' = Tail(adds)
      /\ UNCHANGED <<keepPhase, output, diagnostics, removes, before>>
  BY DEF AddDeps, Editable
<1>2. KeepTypes /\ DiagnosticsFit /\ EditsAsked /\ ErrorsSettled
  BY DEF KeepInv
<1>3. /\ edit \in ToSet(adds) /\ edit \in Edit /\ adds' \in Edits
      /\ ToSet(adds) = {edit} \cup ToSet(adds')
  BY <1>1, <1>2, FirstEdit DEF KeepTypes
<1>. HIDE DEF edit
<1>4. PICK e \in ToSet(diagnostics) : ToAdd(e) /\ edit = RuleDeps(e)
  BY <1>2, <1>3 DEF EditsAsked
<1>5. \A x \in ToSet(diagnostics) : x \in Error
  BY <1>2 DEF KeepTypes, Errors, ToSet
<1>6. edit.rule = e.rule /\ ToSet(edit.deps) = {Deps[e.error.about]}
  BY <1>4, <1>5, EditType, OneItem
<1>7. edit.rule \in Rule /\ edit.deps \in Seq(Listed)
  BY <1>3 DEF Edit, Lists
<1>8. \A r \in Rule : /\ buildFiles[r] \in Seq(Listed)
                      /\ buildFiles'[r] = IF r = edit.rule THEN buildFiles[r] \o edit.deps ELSE buildFiles[r]
  BY <1>1, <1>2 DEF KeepTypes, Lists
<1>9. \A r \in Rule : /\ buildFiles'[r] \in Lists
                      /\ ToSet(buildFiles'[r]) =
                            ToSet(buildFiles[r]) \cup IF r = e.rule THEN {Deps[e.error.about]} ELSE {}
  <2>. SUFFICES ASSUME NEW r \in Rule
                PROVE  /\ buildFiles'[r] \in Lists
                       /\ ToSet(buildFiles'[r]) =
                            ToSet(buildFiles[r]) \cup IF r = e.rule THEN {Deps[e.error.about]} ELSE {}
    OBVIOUS
  <2>1. CASE r = edit.rule
    <3>1. /\ buildFiles[r] \o edit.deps \in Seq(Listed)
          /\ ToSet(buildFiles[r] \o edit.deps) = ToSet(buildFiles[r]) \cup ToSet(edit.deps)
      BY <1>7, <1>8, ToSetConcat
    <3> QED BY <1>6, <1>8, <2>1, <3>1 DEF Lists
  <2>2. CASE r # edit.rule
    BY <1>6, <1>8, <2>2 DEF Lists
  <2> QED BY <2>1, <2>2
<1>10. KeepTypes'
  BY <1>1, <1>2, <1>3, <1>9 DEF KeepTypes
<1>11. DiagnosticsFit'
  BY <1>1, <1>2, DiagnosticsStay DEF Applying
<1>u. diagnostics' = diagnostics /\ before' = before /\ removes' = removes /\ keepPhase' = "apply"
  BY <1>1
<1>12. EditsAsked'
  <2>1. ToSet(adds') \subseteq {RuleDeps(x) : x \in {y \in ToSet(diagnostics) : ToAdd(y)}}
    BY <1>2, <1>3 DEF EditsAsked
  <2>2. ASSUME NEW r \in Rule, before[r] \in {NoRule, NoList}
        PROVE  buildFiles'[r] = before[r]
    <3>1. buildFiles[r] = before[r] /\ r # edit.rule
      BY <1>1, <1>2, <2>2 DEF EditsAsked
    <3> QED BY <1>8, <3>1
  <2>3. ASSUME NEW r \in Rule, NEW d \in ToSet(buildFiles'[r]) \ ToSet(before[r])
        PROVE  \E x \in ToSet(diagnostics) : ToAdd(x) /\ x.rule = r /\ Deps[x.error.about] = d
    <3>1. CASE d \in ToSet(buildFiles[r])
      BY <1>2, <2>3, <3>1 DEF EditsAsked
    <3>2. CASE r = e.rule /\ d = Deps[e.error.about]
      BY <1>4, <3>2
    <3> QED BY <1>9, <2>3, <3>1, <3>2
  <2>4. ASSUME NEW r \in Rule, NEW d \in ToSet(before[r]) \ ToSet(buildFiles'[r])
        PROVE  \E x \in ToSet(diagnostics) : Takes(x, r, d)
    BY <1>2, <1>9, <2>4 DEF EditsAsked
  <2>5. ToSet(removes) \subseteq {RuleDeps(x) : x \in {y \in ToSet(diagnostics) : ToRemove(y)}}
    BY <1>2 DEF EditsAsked
  <2> QED BY <1>u, <2>1, <2>2, <2>3, <2>4, <2>5 DEF EditsAsked
<1>13. ErrorsSettled'
  <2>1. ASSUME NEW x \in ToSet(diagnostics), ToAdd(x)
        PROVE  \/ RuleDeps(x) \in ToSet(adds')
               \/ Deps[x.error.about] \in ToSet(buildFiles'[x.rule])
               \/ \E f \in ToSet(diagnostics) : Takes(f, x.rule, Deps[x.error.about])
    <3>0. x.rule \in Rule /\ x \in Error
      BY <1>5 DEF Error
    <3>1. CASE RuleDeps(x) = edit
      <4>1. x.rule = e.rule /\ DepOf(x.error) = DepOf(e.error)
        BY <1>4, <3>1 DEF RuleDeps
      <4>2. Deps[x.error.about] = Deps[e.error.about]
        BY <1>4, <1>5, <2>1, <3>0, <4>1, EditType
      <4> QED BY <1>9, <3>0, <4>1, <4>2
    <3>2. CASE RuleDeps(x) # edit
      BY <1>1, <1>2, <1>3, <1>9, <2>1, <3>0, <3>2 DEF ErrorsSettled, Applying
    <3> QED BY <3>1, <3>2
  <2>2. ASSUME NEW x \in ToSet(diagnostics), ToRemove(x)
        PROVE  RuleDeps(x) \in ToSet(removes)
    BY <1>1, <1>2, <2>2 DEF ErrorsSettled, Applying
  <2> QED BY <1>u, <2>1, <2>2 DEF ErrorsSettled, Applying, Takes
<1> QED BY <1>10, <1>11, <1>12, <1>13 DEF KeepInv

LEMMA RemoveKeeps == KeepInv /\ RemoveDeps => KeepInv'
<1>. SUFFICES ASSUME KeepInv, RemoveDeps
              PROVE  KeepInv'
  OBVIOUS
<1>. DEFINE edit == Head(removes)
<1>1. /\ keepPhase = "apply" /\ adds = <<>> /\ removes # <<>>
      /\ buildFiles[edit.rule] \notin {NoRule, NoList}
      /\ buildFiles' = [buildFiles EXCEPT ![edit.rule] = Without(@, edit.deps)]
      /\ removes' = Tail(removes)
      /\ UNCHANGED <<keepPhase, output, diagnostics, adds, before>>
  BY DEF RemoveDeps, Editable
<1>2. KeepTypes /\ DiagnosticsFit /\ EditsAsked /\ ErrorsSettled
  BY DEF KeepInv
<1>3. /\ edit \in ToSet(removes) /\ edit \in Edit /\ removes' \in Edits
      /\ ToSet(removes) = {edit} \cup ToSet(removes')
  BY <1>1, <1>2, FirstEdit DEF KeepTypes
<1>. HIDE DEF edit
<1>4. PICK e \in ToSet(diagnostics) : ToRemove(e) /\ edit = RuleDeps(e)
  BY <1>2, <1>3 DEF EditsAsked
<1>5. \A x \in ToSet(diagnostics) : x \in Error
  BY <1>2 DEF KeepTypes, Errors, ToSet
<1>6. edit.rule = e.rule /\ ToSet(edit.deps) = {e.error.about}
  BY <1>4, <1>5, EditType, OneItem
<1>7. edit.rule \in Rule
  BY <1>3 DEF Edit
<1>8. \A r \in Rule : /\ buildFiles[r] \in Lists
                      /\ buildFiles'[r] = IF r = edit.rule THEN Without(buildFiles[r], edit.deps) ELSE buildFiles[r]
  BY <1>1, <1>2 DEF KeepTypes
<1>9. \A r \in Rule : /\ buildFiles'[r] \in Lists
                      /\ ToSet(buildFiles'[r]) =
                            ToSet(buildFiles[r]) \ IF r = e.rule THEN {e.error.about} ELSE {}
  BY <1>6, <1>7, <1>8, WithoutHas
<1>10. KeepTypes'
  <2>1. buildFiles' \in [Rule -> Lists]
    BY <1>1, <1>2, <1>9 DEF KeepTypes
  <2> QED BY <1>1, <1>2, <1>3, <2>1 DEF KeepTypes
<1>11. DiagnosticsFit'
  BY <1>1, <1>2, DiagnosticsStay DEF Applying
<1>u. diagnostics' = diagnostics /\ before' = before /\ adds' = <<>> /\ keepPhase' = "apply"
  BY <1>1
<1>n. ToSet(adds') = {}
  BY <1>u, NoItems
<1>12. EditsAsked'
  <2>1. ToSet(removes') \subseteq {RuleDeps(x) : x \in {y \in ToSet(diagnostics) : ToRemove(y)}}
    BY <1>2, <1>3 DEF EditsAsked
  <2>2. ASSUME NEW r \in Rule, before[r] \in {NoRule, NoList}
        PROVE  buildFiles'[r] = before[r]
    <3>1. buildFiles[r] = before[r] /\ r # edit.rule
      BY <1>1, <1>2, <2>2 DEF EditsAsked
    <3> QED BY <1>8, <3>1
  <2>3. ASSUME NEW r \in Rule, NEW d \in ToSet(buildFiles'[r]) \ ToSet(before[r])
        PROVE  \E x \in ToSet(diagnostics) : ToAdd(x) /\ x.rule = r /\ Deps[x.error.about] = d
    BY <1>2, <1>9, <2>3 DEF EditsAsked
  <2>4. ASSUME NEW r \in Rule, NEW d \in ToSet(before[r]) \ ToSet(buildFiles'[r])
        PROVE  \E x \in ToSet(diagnostics) : Takes(x, r, d)
    <3>1. CASE d \notin ToSet(buildFiles[r])
      BY <1>2, <2>4, <3>1 DEF EditsAsked
    <3>2. CASE r = e.rule /\ d = e.error.about
      BY <1>4, <3>2 DEF Takes
    <3> QED BY <1>9, <2>4, <3>1, <3>2
  <2> QED BY <1>n, <1>u, <2>1, <2>2, <2>3, <2>4 DEF EditsAsked, Takes
<1>13. ErrorsSettled'
  <2>1. ASSUME NEW x \in ToSet(diagnostics), ToAdd(x)
        PROVE  \/ Deps[x.error.about] \in ToSet(buildFiles'[x.rule])
               \/ \E f \in ToSet(diagnostics) : Takes(f, x.rule, Deps[x.error.about])
    <3>0. x.rule \in Rule /\ ToSet(adds) = {}
      BY <1>1, <1>5, NoItems DEF Error
    <3>1. \/ Deps[x.error.about] \in ToSet(buildFiles[x.rule])
          \/ \E f \in ToSet(diagnostics) : Takes(f, x.rule, Deps[x.error.about])
      BY <1>1, <1>2, <2>1, <3>0 DEF ErrorsSettled, Applying
    <3>2. CASE x.rule = e.rule /\ Deps[x.error.about] = e.error.about
      BY <1>4, <3>2 DEF Takes
    <3> QED BY <1>9, <3>0, <3>1, <3>2
  <2>2. ASSUME NEW x \in ToSet(diagnostics), ToRemove(x)
        PROVE  RuleDeps(x) \in ToSet(removes') \/ x.error.about \notin ToSet(buildFiles'[x.rule])
    <3>0. x.rule \in Rule /\ x \in Error
      BY <1>5 DEF Error
    <3>1. CASE RuleDeps(x) = edit
      <4>1. x.rule = e.rule /\ DepOf(x.error) = DepOf(e.error)
        BY <1>4, <3>1 DEF RuleDeps
      <4>2. x.error.about = e.error.about
        BY <1>4, <1>5, <2>2, <3>0, <4>1, EditType
      <4> QED BY <1>9, <3>0, <4>1, <4>2
    <3>2. CASE RuleDeps(x) # edit
      BY <1>1, <1>2, <1>3, <1>9, <2>2, <3>0, <3>2 DEF ErrorsSettled, Applying
    <3> QED BY <3>1, <3>2
  <2> QED BY <1>u, <2>1, <2>2 DEF ErrorsSettled, Applying, Takes
<1> QED BY <1>10, <1>11, <1>12, <1>13 DEF KeepInv
\* The other steps: a build, and the end of a run.
LEMMA BuildKeeps == KeepInv /\ (RuleBuilds \/ RuleBuildFails) => KeepInv'
<1>. SUFFICES ASSUME KeepInv, RuleBuilds \/ RuleBuildFails
              PROVE  KeepInv'
  OBVIOUS
<1>1. /\ keepPhase = "build" /\ keepPhase' \in {"pass", "scan"}
      /\ UNCHANGED <<diagnostics, adds, removes, buildFiles, before>>
  BY DEF RuleBuilds, RuleBuildFails
<1>2. KeepTypes /\ EditsAsked /\ ErrorsSettled
  BY DEF KeepInv
<1>3. output' \in Outputs
  <2>1. CASE RuleBuilds
    BY <1>2, <2>1 DEF RuleBuilds, KeepTypes
  <2>2. CASE RuleBuildFails
    <3>1. PICK n \in 0 .. MaxLines : output' \in [1 .. n -> OutputLine]
      BY <2>2 DEF RuleBuildFails, BoundedSeq, SeqOf
    <3>2. n \in Nat
      BY KeepAssumption
    <3> QED BY <3>1, <3>2 DEF Outputs
  <2> QED BY <2>1, <2>2
<1>4. diagnostics' = <<>> /\ ToSet(diagnostics') = {}
  BY <1>1, <1>2, NoItems DEF ErrorsSettled, Applying
<1>5. KeepTypes' /\ EditsAsked' /\ ErrorsSettled'
  <2>1. KeepTypes'
    BY <1>1, <1>2, <1>3 DEF KeepTypes
  <2>2. EditsAsked'
    BY <1>1, <1>2, EditsStay
  <2>3. ErrorsSettled'
    BY <1>1, <1>4 DEF ErrorsSettled, Applying
  <2> QED BY <2>1, <2>2, <2>3
<1>6. DiagnosticsFit'
  BY <1>1, <1>4 DEF DiagnosticsFit, Applying
<1> QED BY <1>5, <1>6 DEF KeepInv

LEMMA EndKeeps == KeepInv /\ (ApplyFails \/ ApplyEnds) => KeepInv'
<1>. SUFFICES ASSUME KeepInv, ApplyFails \/ ApplyEnds
              PROVE  KeepInv'
  OBVIOUS
<1>1. /\ keepPhase = "apply" /\ keepPhase' \in {"failed", "done"}
      /\ keepPhase' = "done" => adds = <<>> /\ removes = <<>>
      /\ UNCHANGED <<output, diagnostics, adds, removes, buildFiles, before>>
  BY DEF ApplyFails, ApplyEnds
<1>2. KeepTypes /\ DiagnosticsFit /\ EditsAsked /\ ErrorsSettled
  BY DEF KeepInv
<1>3. KeepTypes' /\ DiagnosticsFit' /\ EditsAsked'
  BY <1>1, <1>2, DiagnosticsStay, EditsStay DEF KeepTypes, Applying
<1>4. /\ ToSet(diagnostics)' = ToSet(diagnostics) /\ ToSet(adds)' = ToSet(adds)
      /\ ToSet(removes)' = ToSet(removes) /\ adds' = adds /\ removes' = removes
      /\ buildFiles' = buildFiles
  BY <1>1
<1>5. ErrorsSettled'
  BY <1>1, <1>2, <1>4 DEF ErrorsSettled, Applying
<1> QED BY <1>3, <1>5 DEF KeepInv

LEMMA KeepStep == KeepInv /\ [KeepNext]_keepVars => KeepInv'
<1>. SUFFICES ASSUME KeepInv, [KeepNext]_keepVars
              PROVE  KeepInv'
  OBVIOUS
<1>1. CASE RuleBuilds \/ RuleBuildFails
  BY <1>1, BuildKeeps
<1>2. CASE Scan
  BY <1>2, ScanKeeps
<1>3. CASE AddDeps
  BY <1>3, AddKeeps
<1>4. CASE RemoveDeps
  BY <1>4, RemoveKeeps
<1>5. CASE ApplyFails \/ ApplyEnds
  BY <1>5, EndKeeps
<1>6. CASE UNCHANGED keepVars
  <2>1. UNCHANGED <<keepPhase, output, diagnostics, adds, removes, buildFiles, before>>
    BY <1>6 DEF keepVars
  <2>2. KeepTypes /\ DiagnosticsFit /\ EditsAsked /\ ErrorsSettled
    BY DEF KeepInv
  <2>3. /\ ToSet(diagnostics)' = ToSet(diagnostics) /\ ToSet(adds)' = ToSet(adds)
        /\ ToSet(removes)' = ToSet(removes) /\ adds' = adds /\ removes' = removes
        /\ buildFiles' = buildFiles /\ keepPhase' = keepPhase /\ diagnostics' = diagnostics
    BY <2>1
  <2>4. ErrorsSettled'
    BY <2>2, <2>3 DEF ErrorsSettled, Applying
  <2>5. DiagnosticsFit'
    <3>1. CASE Applying
      BY <2>1, <2>2, <3>1, DiagnosticsStay
    <3>2. CASE ~Applying
      <4>1. ToSet(diagnostics) = {}
        BY <2>2, <3>2, NoItems DEF ErrorsSettled
      <4> QED BY <2>3, <3>2, <4>1 DEF DiagnosticsFit, Applying
    <3> QED BY <3>1, <3>2
  <2>6. KeepTypes' /\ EditsAsked'
    BY <2>1, <2>2, EditsStay DEF KeepTypes
  <2> QED BY <2>4, <2>5, <2>6 DEF KeepInv
<1> QED BY <1>1, <1>2, <1>3, <1>4, <1>5, <1>6 DEF KeepNext

-----------------------------------------------------------------------------
\* The invariant of autokeep holds for every output of the build and all BUILD files.
THEOREM KeepInvariance == KeepSpec => []KeepInv
BY KeepStart, KeepStep, PTL DEF KeepSpec

\* Wherever autokeep stops, its edits are what the build asked for, and when all went
\* well the last complaint of each error is settled.
THEOREM EditsReported == KeepSpec => []EditsAreReported
<1>1. KeepInv => EditsAreReported
  <2>. SUFFICES ASSUME KeepInv
                PROVE  EditsAreReported
    OBVIOUS
  <2>0. KeepTypes /\ DiagnosticsFit /\ EditsAsked /\ ErrorsSettled
    BY DEF KeepInv
  <2>1. ASSUME NEW e \in ToSet(diagnostics), e.error # NoError
        PROVE  e.error \in ReportedFor(e.rule)
    BY <2>0, <2>1 DEF DiagnosticsFit, ReportedFor
  <2>2. \A e : (ToAdd(e) => e.error \in MissingErrors /\ e.error # NoError)
               /\ (ToRemove(e) => e.error \in UnusedErrors /\ e.error # NoError)
    BY OneKind DEF ToAdd, ToRemove
  <2>3. \A x \in UnusedErrors : x = Diagnostic("BuildozerUnusedDep", x.about)
    <3>1. ASSUME NEW x \in UnusedErrors
          PROVE  x = Diagnostic("BuildozerUnusedDep", x.about)
      <4>1. PICK d \in Dep : x = Diagnostic("BuildozerUnusedDep", d)
        BY DEF UnusedErrors
      <4> QED BY <4>1 DEF Diagnostic
    <3> QED BY <3>1
  <2>4. ASSUME NEW r \in Rule, NEW d \in ToSet(buildFiles[r]) \ ToSet(before[r])
        PROVE  \E m \in ReportedFor(r) \cap MissingErrors : m.about \in DOMAIN Deps /\ Deps[m.about] = d
    <3>1. PICK e \in ToSet(diagnostics) : ToAdd(e) /\ e.rule = r /\ Deps[e.error.about] = d
      BY <2>0, <2>4 DEF EditsAsked
    <3>2. e.error \in ReportedFor(r) \cap MissingErrors
      BY <2>1, <2>2, <3>1
    <3>3. e.error.about \in DOMAIN Deps
      BY <3>1 DEF ToAdd
    <3> QED BY <3>1, <3>2, <3>3
  <2>5. ASSUME NEW r \in Rule, NEW d, NEW e \in ToSet(diagnostics), Takes(e, r, d)
        PROVE  Diagnostic("BuildozerUnusedDep", d) \in ReportedFor(r)
    BY <2>1, <2>2, <2>3, <2>5 DEF Takes
  <2>6. ASSUME NEW r \in Rule, NEW d \in ToSet(before[r]) \ ToSet(buildFiles[r])
        PROVE  Diagnostic("BuildozerUnusedDep", d) \in ReportedFor(r)
    BY <2>0, <2>5, <2>6 DEF EditsAsked
  <2>7. ASSUME keepPhase = "done", NEW r \in Rule, NEW i \in DOMAIN output,
               Concerns(i, r), LastOfItsError(i)
        PROVE  /\ output[i] \in UnusedErrors => output[i].about \notin ToSet(buildFiles[r])
               /\ output[i] \in MissingErrors /\ output[i].about \in DOMAIN Deps =>
                    \/ Deps[output[i].about] \in ToSet(buildFiles[r])
                    \/ Diagnostic("BuildozerUnusedDep", Deps[output[i].about]) \in ReportedFor(r)
    <3>1. PICK e \in ToSet(diagnostics) : e.rule = r /\ e.error = output[i]
      BY <2>0, <2>7 DEF DiagnosticsFit, Applying
    <3>2. ToSet(adds) = {} /\ ToSet(removes) = {}
      BY <2>0, <2>7, NoItems DEF ErrorsSettled
    <3>3. CASE output[i] \in UnusedErrors
      <4>1. e.error.about \notin ToSet(buildFiles[r])
        BY <2>0, <2>7, <3>1, <3>2, <3>3 DEF ErrorsSettled, Applying, ToRemove
      <4> QED BY <3>1, <3>3, <4>1, OneKind
    <3>4. CASE output[i] \in MissingErrors /\ output[i].about \in DOMAIN Deps
      <4>1. \/ Deps[e.error.about] \in ToSet(buildFiles[r])
            \/ \E f \in ToSet(diagnostics) : Takes(f, r, Deps[e.error.about])
        BY <2>0, <2>7, <3>1, <3>2, <3>4 DEF ErrorsSettled, Applying, ToAdd
      <4> QED BY <2>5, <3>1, <3>4, <4>1, OneKind
    <3> QED BY <3>3, <3>4
  <2>8. \A r \in Rule : before[r] \in {NoRule, NoList} => buildFiles[r] = before[r]
    BY <2>0 DEF EditsAsked
  <2> QED BY <2>4, <2>6, <2>7, <2>8 DEF EditsAreReported
<1> QED BY <1>1, KeepInvariance, PTL
-----------------------------------------------------------------------------
(***************************************************************************)
(* The symbol table: what a put leaves of the labels of a name.            *)
(***************************************************************************)
LEMMA PutTyped ==
    ASSUME NEW current \in Symbol \cup {NoSymbol}, NEW l \in Label
    PROVE  /\ PutOne(current, l) \in Symbol /\ PutOne(current, l) # NoSymbol
           /\ l \in {PutOne(current, l).label} \cup ConflictLabels(PutOne(current, l))
           /\ current = NoSymbol \/ current.label = l => PutOne(current, l) = NewSymbol(l)
           /\ current # NoSymbol /\ current.label # l =>
                /\ PutOne(current, l).label = current.label
                /\ ConflictLabels(PutOne(current, l)) = ConflictLabels(current) \cup {l}
<1>1. NoSymbol \notin Symbol
  BY NoSymbolAssumption DEF Symbol
<1>2. CASE current = NoSymbol \/ current.label = l
  <2>1. PutOne(current, l) = NewSymbol(l)
    BY <1>2 DEF PutOne
  <2>2. NewSymbol(l) \in Symbol /\ NewSymbol(l).label = l
    BY DEF NewSymbol, Symbol
  <2> QED BY <1>1, <1>2, <2>1, <2>2
<1>3. CASE current # NoSymbol /\ current.label # l
  <2>1. current \in Symbol /\ PutOne(current, l) = Conflict(current, l)
    BY <1>3 DEF PutOne
  <2>2. current.label \in Label /\ current.conflicts \in Seq(Label)
    BY <2>1 DEF Symbol
  <2>3. CASE l \in ConflictLabels(current)
    BY <1>1, <1>3, <2>1, <2>3 DEF Conflict
  <2>4. CASE l \notin ConflictLabels(current)
    <3>1. Conflict(current, l) = [current EXCEPT !.conflicts = Append(@, l)]
      BY <2>4 DEF Conflict
    <3>2. Append(current.conflicts, l) \in Seq(Label)
      BY <2>2
    <3>3. /\ Conflict(current, l) \in Symbol /\ Conflict(current, l).label = current.label
          /\ Conflict(current, l).conflicts = Append(current.conflicts, l)
      BY <2>1, <3>1, <3>2 DEF Symbol
    <3>4. ToSet(Append(current.conflicts, l)) = ToSet(current.conflicts) \cup {l}
      BY <2>2, ToSetAppend
    <3>5. ConflictLabels(Conflict(current, l)) = ConflictLabels(current) \cup {l}
      BY <3>3, <3>4 DEF ConflictLabels, ToSet
    <3> QED BY <1>1, <1>3, <2>1, <3>3, <3>5
  <2> QED BY <2>3, <2>4
<1> QED BY <1>2, <1>3

LEMMA PutsTyped ==
    ASSUME NEW trie \in Trie, NEW l \in Label, NEW put
    PROVE  PutAll(trie, l, put) \in Trie
<1>1. ASSUME NEW n \in Name
      PROVE  (IF n \in put THEN PutOne(trie[n], l) ELSE trie[n]) \in Symbol \cup {NoSymbol}
  <2>1. trie[n] \in Symbol \cup {NoSymbol}
    BY DEF Trie
  <2> QED BY <2>1, PutTyped
<1> QED BY <1>1 DEF PutAll, Trie

\* A put adds one label at most, wherever it is.
LEMMA PutsSpread ==
    ASSUME NEW trie \in Trie, NEW l \in Label, NEW put, NEW n \in Name
    PROVE  LabelsAt(PutAll(trie, l, put), n) \subseteq LabelsAt(trie, n) \cup {l}
<1>1. trie[n] \in Symbol \cup {NoSymbol}
  BY DEF Trie
<1>2. PutAll(trie, l, put)[n] = IF n \in put THEN PutOne(trie[n], l) ELSE trie[n]
  BY DEF PutAll
<1>3. CASE n \notin put
  BY <1>2, <1>3 DEF LabelsAt
<1>4. CASE n \in put /\ (trie[n] = NoSymbol \/ trie[n].label = l)
  <2>1. PutAll(trie, l, put)[n] = NewSymbol(l)
    BY <1>1, <1>2, <1>4, PutTyped
  <2>2. NewSymbol(l).label = l /\ ConflictLabels(NewSymbol(l)) = {}
    BY DEF NewSymbol, ConflictLabels
  <2> QED BY <2>1, <2>2 DEF LabelsAt
<1>5. CASE n \in put /\ trie[n] # NoSymbol /\ trie[n].label # l
  BY <1>1, <1>2, <1>5, PutTyped DEF LabelsAt
<1> QED BY <1>3, <1>4, <1>5

\* The label is among those of the name from then on; the one that owns the name and the
\* conflicts stay, unless the owner puts the name again.
LEMMA PutsAt ==
    ASSUME NEW trie \in Trie, NEW l \in Label, NEW put, NEW n \in put \cap Name
    PROVE  LET after == PutAll(trie, l, put)
           IN /\ after[n] # NoSymbol /\ l \in LabelsAt(after, n)
              /\ trie[n] = NoSymbol \/ trie[n].label = l => after[n].label = l
              /\ trie[n] # NoSymbol /\ trie[n].label # l =>
                    after[n].label = trie[n].label /\ LabelsAt(trie, n) \subseteq LabelsAt(after, n)
<1>1. trie[n] \in Symbol \cup {NoSymbol}
  BY DEF Trie
<1>2. PutAll(trie, l, put)[n] = PutOne(trie[n], l)
  BY DEF PutAll
<1>3. NewSymbol(l).label = l
  BY DEF NewSymbol
<1> QED BY <1>1, <1>2, <1>3, PutTyped DEF LabelsAt

LEMMA PutsElsewhere ==
    ASSUME NEW trie \in Trie, NEW l \in Label, NEW put, NEW n \in Name, n \notin put
    PROVE  PutAll(trie, l, put)[n] = trie[n] /\ LabelsAt(PutAll(trie, l, put), n) = LabelsAt(trie, n)
<1> QED BY DEF PutAll, LabelsAt
-----------------------------------------------------------------------------
(***************************************************************************)
(* The indexes of jars and the providers that read them.                   *)
(***************************************************************************)
IndexType ==
    /\ index \in Seq(JarFile) /\ jars \in Seq(JarFile)
    /\ providers \in Seq(Known) /\ lockFiles \in LockFiles
    /\ scope \in Trie /\ packages \in Trie
    /\ kind \in 0 .. Len(Provided) /\ todo \subseteq Label
    /\ todo # {} => kind \in DOMAIN Provided /\ todo \subseteq DOMAIN Provided[kind]

\* The jars are those of one list, as far as their labels go.
OneInput ==
    \E input \in Inputs : \A j \in ToSet(jars) \cup ToSet(index) :
        \E i \in DOMAIN input : j.label = input[i].label

\* The merge lists a label once and knows the predefined classes of what it listed.
MergedOnce ==
    /\ \A i, k \in DOMAIN index : index[i].label = index[k].label => i = k
    /\ \A j \in ToSet(index) : j.label \in seen
    /\ dropped = PredefinedClasses
    /\ indexPhase # "merge" => \A j \in ToSet(index) : \A c \in j.classes : c.symbols \cap dropped = {}

\* A jar was read: its classes have an owner among the jars, and those of a predefined jar
\* are known to come without a label.
JarRead(jar) ==
    /\ ParsedLabel[jar.label] \in byLabel
    /\ \A n \in ClassNames(jar) :
        /\ scope[n] # NoSymbol
        /\ \E owner \in ToSet(index) : scope[n].label = From(owner)
        /\ From(jar) = NoLabel => NoLabel \in LabelsAt(scope, n)

\* The owner of a class is the first jar of the index that has it.
FirstOwns ==
    \A n \in Name : scope[n] # NoSymbol =>
        \E first \in DOMAIN index : \E owner \in ToSet(index) :
            /\ owner = index[first] /\ n \in ClassNames(owner) /\ scope[n].label = From(owner)
            /\ \A g \in 1 .. first - 1 : n \notin ClassNames(index[g])

\* How far the index was read.
ReadSoFar ==
    /\ indexPhase = "merge" => scope = EmptyTrie /\ packages = EmptyTrie /\ providers = <<>>
    /\ indexPhase \in {"merge", "setup", "read index"} => FirstOwns
    /\ indexPhase = "read index" =>
        \E k \in 0 .. Len(index) :
            jars = SubSeq(index, k + 1, Len(index)) /\ \A i \in 1 .. k : \E j \in ToSet(index) : j = index[i] /\ JarRead(j)
    /\ indexPhase \in {"setup", "protobuf", "resolve"} /\ "java" \in ToSet(providers) =>
        \A j \in ToSet(index) : JarRead(j)

\* Somebody answers for the label.
Claimed(l) ==
    \/ l = NoLabel
    \/ "java" \in ToSet(providers) /\ l \in byLabel
    \/ "maven" \in ToSet(providers) /\ RepoOf[l] \in repos
    \/ "protobuf" \in ToSet(providers) /\ \E k \in DOMAIN Provided : l \in DOMAIN Provided[k]

AllClaimed ==
    /\ indexPhase = "read index" => "java" \in ToSet(providers)
    /\ indexPhase = "protobuf" => "protobuf" \in ToSet(providers)
    /\ indexPhase # "fatal" =>
        /\ "maven" \in ToSet(providers) => repos = {f.repo : f \in ToSet(lockFiles)}
        /\ \A n \in Name : \A l \in LabelsAt(scope, n) \cup LabelsAt(packages, n) : Claimed(l)

IndexInv == IndexType /\ OneInput /\ MergedOnce /\ ReadSoFar /\ AllClaimed

\* The predefined classes of some jars.
ClassesOf(these, labels) == {Object} \cup UNION {ClassNames(j) : j \in {k \in these : Accepted(k) /\ k.label \in labels}}

LEMMA PredefinedAre ==
    /\ PredefinedClasses = ClassesOf(ToSet(index), predefined)
    /\ PredefinedClasses' = ClassesOf(ToSet(index'), predefined')
<1>1. {k \in Merged : k.label \in predefined} = {k \in ToSet(index) : Accepted(k) /\ k.label \in predefined}
  BY DEF Merged
<1>2. {k \in Merged' : k.label \in predefined'} = {k \in ToSet(index') : Accepted(k) /\ k.label \in predefined'}
  BY DEF Merged
<1> QED BY <1>1, <1>2 DEF PredefinedClasses, ClassesOf

LEMMA InClassesOf ==
    ASSUME NEW these, NEW labels, NEW x
    PROVE  x \in ClassesOf(these, labels) <=>
                x = Object \/ \E k \in these : Accepted(k) /\ k.label \in labels /\ x \in ClassNames(k)
<1>. HIDE DEF Object
<1> QED BY DEF ClassesOf

LEMMA NoLabelType == NoLabel \in Label
<1>1. ParsedLabel \in [DOMAIN ParsedLabel -> Label] /\ "" \in DOMAIN ParsedLabel
  BY Zenon, IndexAssumption
<1>. DEFINE none == ""
<1>2. none \in DOMAIN ParsedLabel /\ NoLabel = ParsedLabel[none]
  BY Zenon, <1>1 DEF NoLabel
<1>. HIDE DEF none
<1> QED BY <1>1, <1>2

\* The labels of jars.
LEMMA FromType ==
    ASSUME OneInput, NEW jar \in ToSet(jars) \cup ToSet(index)
    PROVE  /\ ParsedLabel[jar.label] \in Label /\ From(jar) \in Label
           /\ From(jar) = NoLabel \/ From(jar) = ParsedLabel[jar.label]
           /\ \A k \in DOMAIN Provided : ParsedLabel[jar.label] \notin DOMAIN Provided[k]
<1>1. PICK input \in Inputs : \E i \in DOMAIN input : jar.label = input[i].label
  BY DEF OneInput
<1>2. PICK i \in DOMAIN input : jar.label = input[i].label
  BY <1>1
<1>3. input[i].label \in DOMAIN ParsedLabel /\ ParsedLabel \in [DOMAIN ParsedLabel -> Label]
  BY Zenon, IndexAssumption
<1>4. \A k \in DOMAIN Provided : ParsedLabel[input[i].label] \notin DOMAIN Provided[k]
  BY Zenon, IndexAssumption
<1>5. ParsedLabel[jar.label] \in Label
  BY <1>2, <1>3
<1> QED BY <1>2, <1>4, <1>5, NoLabelType DEF From

\* Two jars of the index have different labels, if they have any.
LEMMA FromDiffers ==
    ASSUME IndexInv, NEW i \in DOMAIN index, NEW k \in DOMAIN index,
           From(index[i]) = From(index[k]), From(index[i]) # NoLabel
    PROVE  i = k
<1>1. index[i] \in ToSet(index) /\ index[k] \in ToSet(index)
  BY DEF ToSet
<1>2. PICK input \in Inputs : \A j \in ToSet(jars) \cup ToSet(index) : \E x \in DOMAIN input : j.label = input[x].label
  BY DEF IndexInv, OneInput
<1>3. PICK x \in DOMAIN input, y \in DOMAIN input : index[i].label = input[x].label /\ index[k].label = input[y].label
  BY <1>1, <1>2
<1>4. ParsedLabel[index[i].label] = ParsedLabel[index[k].label]
  BY <1>1, FromType DEF IndexInv
<1>5. ParsedLabel[input[x].label] = ParsedLabel[input[y].label] => input[x].label = input[y].label
  BY Zenon, IndexAssumption
<1> QED BY <1>3, <1>4, <1>5 DEF IndexInv, MergedOnce

LEMMA FromFixed == predefined' = predefined => \A j : From(j)' = From(j)
<1> QED BY DEF From

\* While jars are merged, and before, nothing was put.
LEMMA NothingPut ==
    ASSUME scope = EmptyTrie
    PROVE  FirstOwns
<1>1. \A n \in Name : scope[n] = NoSymbol
  BY DEF EmptyTrie
<1> QED BY <1>1 DEF FirstOwns

LEMMA EmptyTrieType == EmptyTrie \in Trie /\ \A n \in Name : LabelsAt(EmptyTrie, n) = {}
<1>1. EmptyTrie = [n \in Name |-> NoSymbol]
  BY DEF EmptyTrie
<1> QED BY <1>1 DEF Trie, LabelsAt

LEMMA IndexInvInit == IndexInit => IndexInv
<1>. SUFFICES ASSUME IndexInit
              PROVE  IndexInv
  OBVIOUS
<1>1. /\ jars \in Inputs /\ lockFiles \in LockFiles /\ indexPhase = "merge"
      /\ index = <<>> /\ seen = {} /\ dropped = {Object}
      /\ providers = <<>> /\ scope = EmptyTrie /\ packages = EmptyTrie /\ kind = 0 /\ todo = {}
  BY DEF IndexInit
<1>2. ToSet(index) = {} /\ ToSet(providers) = {} /\ DOMAIN index = {}
  BY <1>1 DEF ToSet
<1>3. IndexType
  <2>1. jars \in Seq(JarFile) /\ Len(Provided) \in Nat
    BY Zenon, <1>1, IndexAssumption
  <2>2. 0 \in 0 .. Len(Provided)
    BY <2>1
  <2>3. index \in Seq(JarFile) /\ providers \in Seq(Known)
    BY <1>1
  <2> QED BY <1>1, <2>1, <2>2, <2>3, EmptyTrieType DEF IndexType
<1>4. OneInput
  BY <1>1, <1>2 DEF OneInput, ToSet
<1>5. MergedOnce
  <2>1. PredefinedClasses = {Object}
    BY <1>2 DEF PredefinedClasses, Merged
  <2> QED BY <1>1, <1>2, <2>1 DEF MergedOnce
<1>6. ReadSoFar
  BY <1>1, NothingPut DEF ReadSoFar
<1>7. AllClaimed
  BY <1>1, <1>2, EmptyTrieType DEF AllClaimed
<1> QED BY <1>3, <1>4, <1>5, <1>6, <1>7 DEF IndexInv

\* A jar more in the index, if its label is new there.
LEMMA MergeJarKeeps ==
    ASSUME IndexInv, MergeJar
    PROVE  IndexInv'
<1>1. /\ indexPhase = "merge" /\ jars # <<>> /\ jars' = Tail(jars) /\ indexPhase' = "merge" /\ predefined' = predefined
      /\ UNCHANGED <<names, lockFiles, repos, providers, scope, packages, byLabel, kind, todo>>
  BY DEF MergeJar, gazelleVars
<1>2. scope = EmptyTrie /\ packages = EmptyTrie /\ providers = <<>> /\ IndexType /\ OneInput /\ MergedOnce
  BY <1>1 DEF IndexInv, ReadSoFar
<1>3. PICK jar : jar = Head(jars)
  OBVIOUS
<1>4. jars \in Seq(JarFile) /\ jar \in JarFile /\ Tail(jars) \in Seq(JarFile) /\ jar \in ToSet(jars) /\ ToSet(Tail(jars)) \subseteq ToSet(jars)
  <2>1. jars \in Seq(JarFile)
    BY <1>2 DEF IndexType
  <2>. HIDE DEF JarFile
  <2>2. /\ jar = jars[1] /\ 1 \in DOMAIN jars /\ jar \in JarFile /\ Tail(jars) \in Seq(JarFile)
        /\ \A i \in DOMAIN Tail(jars) : i + 1 \in DOMAIN jars /\ Tail(jars)[i] = jars[i + 1]
    BY <1>1, <1>3, <2>1
  <2> QED BY <2>1, <2>2 DEF ToSet
<1>5. \/ jar.label \in seen /\ UNCHANGED <<index, seen, dropped>>
      \/ /\ jar.label \notin seen /\ seen' = seen \cup {jar.label} /\ index' = Append(index, jar)
         /\ dropped' = VisitJar(jar)
  BY <1>3 DEF MergeJar, mergeVars
<1>6. ReadSoFar'
  <2>1. ToSet(providers) = {}
    BY <1>2 DEF ToSet
  <2>2. \A n \in Name : scope'[n] = NoSymbol
    BY <1>1, <1>2 DEF EmptyTrie
  <2>3. FirstOwns'
    BY <2>2 DEF FirstOwns
  <2> QED BY <1>1, <1>2, <2>1, <2>3 DEF ReadSoFar
<1>7. AllClaimed'
  <2>1. ToSet(providers') = {}
    BY <1>1, <1>2 DEF ToSet
  <2>2. \A n \in Name : LabelsAt(scope', n) = {} /\ LabelsAt(packages', n) = {}
    BY <1>1, <1>2, EmptyTrieType
  <2> QED BY <1>1, <2>1, <2>2 DEF AllClaimed
<1>8. CASE jar.label \in seen /\ UNCHANGED <<index, seen, dropped>>
  <2>1. IndexType'
    BY <1>1, <1>2, <1>4, <1>8 DEF IndexType
  <2>2. OneInput'
    BY <1>1, <1>2, <1>4, <1>8 DEF OneInput
  <2>3. PredefinedClasses' = PredefinedClasses
    BY <1>1, <1>8 DEF PredefinedClasses, Merged
  <2>4. MergedOnce'
    BY <1>1, <1>2, <1>8, <2>3 DEF MergedOnce
  <2> QED BY <1>6, <1>7, <2>1, <2>2, <2>4 DEF IndexInv
<1>9. CASE /\ jar.label \notin seen /\ seen' = seen \cup {jar.label} /\ index' = Append(index, jar)
           /\ dropped' = VisitJar(jar)
  <2>1. index \in Seq(JarFile)
    BY <1>2 DEF IndexType
  <2>2. ToSet(index') = ToSet(index) \cup {jar}
    <3>. HIDE DEF JarFile
    <3> QED BY <1>4, <1>9, <2>1, ToSetAppend
  <2>3. /\ index' \in Seq(JarFile) /\ Len(index) \in Nat /\ DOMAIN index = 1 .. Len(index)
        /\ DOMAIN index' = 1 .. Len(index) + 1 /\ index'[Len(index) + 1] = jar
        /\ \A i \in DOMAIN index : index'[i] = index[i] /\ index[i] \in ToSet(index)
    <3>. HIDE DEF JarFile
    <3> QED BY <1>4, <1>9, <2>1 DEF ToSet
  <2>4. IndexType'
    BY <1>1, <1>2, <1>4, <2>3 DEF IndexType
  <2>5. OneInput'
    BY <1>1, <1>2, <1>4, <2>2 DEF OneInput
  <2>6. \A i, k \in DOMAIN index' : index'[i].label = index'[k].label => i = k
    <3>1. \A i \in DOMAIN index : index[i].label \in seen
      BY <1>2, <2>3 DEF MergedOnce
    <3>2. \A i \in DOMAIN index' : i \in DOMAIN index \/ i = Len(index) + 1
      BY <2>3
    <3> QED BY <1>2, <1>9, <2>3, <3>1, <3>2 DEF MergedOnce
  <2>7. dropped' = ClassesOf(ToSet(index'), predefined')
    <3>1. dropped = ClassesOf(ToSet(index), predefined)
      BY <1>2, PredefinedAre DEF MergedOnce
    <3>2. dropped' = dropped \cup IF Accepted(jar) /\ jar.label \in predefined THEN ClassNames(jar) ELSE {}
      BY <1>9 DEF VisitJar
    <3>3. ClassesOf(ToSet(index) \cup {jar}, predefined) =
              ClassesOf(ToSet(index), predefined)
              \cup (IF Accepted(jar) /\ jar.label \in predefined THEN ClassNames(jar) ELSE {})
      <4>. HIDE DEF Object
      <4> QED BY DEF ClassesOf
    <3> QED BY <1>1, <2>2, <3>1, <3>2, <3>3
  <2>8. PredefinedClasses' = ClassesOf(ToSet(index'), predefined')
    BY PredefinedAre
  <2>9. MergedOnce'
    BY <1>1, <1>2, <1>9, <2>2, <2>6, <2>7, <2>8 DEF MergedOnce
  <2> QED BY <1>6, <1>7, <2>4, <2>5, <2>9 DEF IndexInv
<1> QED BY <1>5, <1>8, <1>9

\* What is removed from a jar are names that its classes refer to, and nothing else.
LEMMA ResolvableKeeps ==
    ASSUME NEW jar \in JarFile
    PROVE  LET after == Resolvable(jar)
           IN /\ after \in JarFile /\ after.label = jar.label /\ after.filename = jar.filename
              /\ ClassNames(after) = ClassNames(jar)
              /\ \A c \in after.classes : c.symbols \cap dropped = {}
<1>. DEFINE Class == [name : Name, symbols : SUBSET STRING]
            Cleared(c) == [c EXCEPT !.symbols = @ \ dropped]
            classes == {Cleared(c) : c \in jar.classes}
<1>1. jar.classes \in SUBSET Class
  BY DEF JarFile
<1>2. ASSUME NEW c \in Class
      PROVE  Cleared(c) \in Class /\ Cleared(c).name = c.name /\ Cleared(c).symbols \cap dropped = {}
  <2>1. /\ c = [name |-> c.name, symbols |-> c.symbols] /\ c.name \in Name /\ c.symbols \in SUBSET STRING
    OBVIOUS
  <2>2. c.symbols \ dropped \in SUBSET STRING
    BY <2>1
  <2>3. Cleared(c) = [name |-> c.name, symbols |-> c.symbols \ dropped]
    BY <2>1
  <2> QED BY <2>1, <2>2, <2>3
<1>3. Resolvable(jar) = [jar EXCEPT !.classes = classes]
  BY DEF Resolvable
<1>. HIDE DEF Cleared, Class
<1>4. classes \in SUBSET Class /\ \A c \in classes : c.symbols \cap dropped = {}
  BY <1>1, <1>2
<1>5. {c.name : c \in classes} = {c.name : c \in jar.classes}
  <2>1. \A x : x \in {c.name : c \in classes} <=> \E c \in jar.classes : x = Cleared(c).name
    OBVIOUS
  <2>2. \A x : x \in {c.name : c \in jar.classes} <=> \E c \in jar.classes : x = c.name
    OBVIOUS
  <2>3. \A c \in jar.classes : Cleared(c).name = c.name
    BY <1>1, <1>2
  <2>. HIDE DEF classes
  <2> QED BY <2>1, <2>2, <2>3
<1>6. jar = [label |-> jar.label, filename |-> jar.filename, packages |-> jar.packages, classes |-> jar.classes]
  BY DEF JarFile
<1>. HIDE DEF classes
<1>7. Resolvable(jar) =
        [label |-> jar.label, filename |-> jar.filename, packages |-> jar.packages, classes |-> classes]
  BY <1>3, <1>6
<1>8. Resolvable(jar) \in JarFile
  BY <1>4, <1>7 DEF JarFile, Class
<1>9. /\ Resolvable(jar).label = jar.label /\ Resolvable(jar).filename = jar.filename
      /\ Resolvable(jar).classes = classes
  BY <1>7
<1>10. ClassNames(Resolvable(jar)) = ClassNames(jar)
  BY <1>5, <1>9 DEF ClassNames
<1> QED BY Zenon, <1>4, <1>8, <1>9, <1>10

LEMMA WriteIndexKeeps ==
    ASSUME IndexInv, WriteIndex
    PROVE  IndexInv'
<1>1. /\ indexPhase = "merge" /\ indexPhase' = "setup" /\ jars' = jars /\ predefined' = predefined
      /\ seen' = seen /\ dropped' = dropped /\ index' = [i \in DOMAIN index |-> Resolvable(index[i])]
      /\ UNCHANGED <<names, lockFiles, repos, providers, scope, packages, byLabel, kind, todo>>
  BY DEF WriteIndex, gazelleVars
<1>2. scope = EmptyTrie /\ packages = EmptyTrie /\ providers = <<>> /\ IndexType /\ OneInput /\ MergedOnce
  BY <1>1 DEF IndexInv, ReadSoFar
<1>3. index \in Seq(JarFile) /\ \A i \in DOMAIN index : index[i] \in JarFile
  <2>1. index \in Seq(JarFile)
    BY <1>2 DEF IndexType
  <2>. HIDE DEF JarFile
  <2> QED BY <2>1
<1>4. ASSUME NEW i \in DOMAIN index
      PROVE  /\ index'[i] = Resolvable(index[i]) /\ index'[i] \in JarFile
             /\ index'[i].label = index[i].label /\ index'[i].filename = index[i].filename
             /\ ClassNames(index'[i]) = ClassNames(index[i])
             /\ \A c \in index'[i].classes : c.symbols \cap dropped = {}
  <2>1. index'[i] = Resolvable(index[i])
    BY <1>1
  <2> QED BY <1>3, <2>1, ResolvableKeeps
<1>5. DOMAIN index' = DOMAIN index /\ index' \in Seq(JarFile)
  <2>1. DOMAIN index = 1 .. Len(index) /\ Len(index) \in Nat
    <3>. HIDE DEF JarFile
    <3> QED BY <1>3
  <2>2. DOMAIN index' = DOMAIN index /\ index' = [i \in 1 .. Len(index) |-> index'[i]]
    BY <1>1, <2>1
  <2>3. \A i \in 1 .. Len(index) : index'[i] \in JarFile
    BY <1>4, <2>1
  <2>. HIDE DEF JarFile
  <2> QED BY <2>1, <2>2, <2>3
<1>6. IndexType'
  BY <1>1, <1>2, <1>5 DEF IndexType
<1>7. \A j \in ToSet(index') : \E k \in ToSet(index) :
          j.label = k.label /\ (Accepted(j) <=> Accepted(k)) /\ ClassNames(j) = ClassNames(k)
          /\ \A c \in j.classes : c.symbols \cap dropped = {}
  BY Zenon, <1>4, <1>5 DEF ToSet, Accepted
<1>8. \A k \in ToSet(index) : \E j \in ToSet(index') :
          j.label = k.label /\ (Accepted(j) <=> Accepted(k)) /\ ClassNames(j) = ClassNames(k)
  BY Zenon, <1>4, <1>5 DEF ToSet, Accepted
<1>9. OneInput'
  <2>1. PICK input \in Inputs : \A j \in ToSet(jars) \cup ToSet(index) : \E i \in DOMAIN input : j.label = input[i].label
    BY <1>2 DEF OneInput
  <2>2. ASSUME NEW j \in ToSet(jars') \cup ToSet(index')
        PROVE  \E i \in DOMAIN input : j.label = input[i].label
    BY <1>1, <1>7, <2>1
  <2> QED BY <2>2 DEF OneInput
<1>10. PredefinedClasses' = PredefinedClasses
  <2>1. ClassesOf(ToSet(index'), predefined) = ClassesOf(ToSet(index), predefined)
    <3>1. \A x : x \in ClassesOf(ToSet(index'), predefined) => x \in ClassesOf(ToSet(index), predefined)
      BY <1>7, InClassesOf
    <3>2. \A x : x \in ClassesOf(ToSet(index), predefined) => x \in ClassesOf(ToSet(index'), predefined)
      BY <1>8, InClassesOf
    <3> QED BY <3>1, <3>2
  <2> QED BY <1>1, <2>1, PredefinedAre
<1>11. MergedOnce'
  <2>1. \A i, k \in DOMAIN index' : index'[i].label = index'[k].label => i = k
    BY <1>2, <1>4, <1>5 DEF MergedOnce
  <2>2. \A j \in ToSet(index') : j.label \in seen
    BY <1>2, <1>7 DEF MergedOnce
  <2> QED BY <1>1, <1>2, <1>7, <1>10, <2>1, <2>2 DEF MergedOnce
<1>12. ToSet(providers') = {}
  BY <1>1, <1>2 DEF ToSet
<1>13. ReadSoFar'
  <2>1. \A n \in Name : scope'[n] = NoSymbol
    BY <1>1, <1>2 DEF EmptyTrie
  <2>2. FirstOwns'
    BY <2>1 DEF FirstOwns
  <2> QED BY <1>1, <1>12, <2>2 DEF ReadSoFar
<1>14. AllClaimed'
  <2>1. \A n \in Name : LabelsAt(scope', n) = {} /\ LabelsAt(packages', n) = {}
    BY <1>1, <1>2, EmptyTrieType
  <2> QED BY <1>1, <1>12, <2>1 DEF AllClaimed
<1> QED BY <1>6, <1>9, <1>11, <1>13, <1>14 DEF IndexInv

\* The packages of a lock file, artifact after artifact, and of the lock files.
ArtifactFcn == [trie \in Trie |-> [artifact \in Artifact |-> PutArtifact(trie, artifact)]]
LockFileFcn == [trie \in Trie |-> [file \in LockFile |-> PutLockFile(trie, file)]]

LEMMA PutArtifactType == IsStep(ArtifactFcn, Trie, Artifact)
<1>. SUFFICES ASSUME NEW trie \in Trie, NEW artifact \in Artifact
              PROVE  PutArtifact(trie, artifact) \in Trie
  BY DEF ArtifactFcn, IsStep
<1>1. artifact.from \in Label
  BY DEF Artifact
<1> QED BY <1>1, PutsTyped DEF PutArtifact

LEMMA LockFileIsFold ==
    ASSUME NEW base \in Trie, NEW file \in LockFile
    PROVE  PutLockFile(base, file) = Folded(ArtifactFcn, base, file.artifacts)
<1>. DEFINE list == file.artifacts
            m == Len(list)
            IsIter(h) == h = [s \in SUBSET (1 .. m) |->
                                 IF s = {} THEN base ELSE PutArtifact(h[s \ {Max(s)}], list[Max(s)])]
            step == PositionSteps(ArtifactFcn, Trie, list)
            iter == CHOOSE h : IsIter(h)
<1>1. list \in Seq(Artifact)
  BY DEF LockFile
<1>2. PutLockFile(base, file) = iter[1 .. m]
  <2>1. DOMAIN list = 1 .. m
    <3>. HIDE DEF list, Artifact
    <3> QED BY <1>1
  <2> QED BY <2>1 DEF PutLockFile, FoldLeft, MapThenFoldSet
<1>. HIDE DEF list, Artifact, Trie
<1>3. m \in Nat /\ DOMAIN list = 1 .. m
  BY <1>1
<1>4. step \in [1 .. m -> [Trie -> Trie]]
  <2>1. \A i \in 1 .. m : list[i] \in Artifact
    BY <1>1, <1>3, ElementOfSeq
  <2> QED BY <2>1, PutArtifactType DEF PositionSteps, IsStep
<1>5. PICK f : IsFold(f, Trie, base, step, m)
  BY <1>3, <1>4, FoldExists
<1>6. ASSUME NEW s \in SUBSET (1 .. m), s # {}
      PROVE  Max(s) \in 1 .. m /\ list[Max(s)] \in Artifact
  <2>1. \E x \in s : \A y \in s : x >= y
    BY <1>3, <1>6, RangeHasMax
  <2>2. Max(s) \in 1 .. m
    BY <2>1 DEF Max
  <2> QED BY <1>1, <1>3, <2>2, ElementOfSeq
<1>7. ASSUME NEW s \in SUBSET (1 .. m), s # {}, NEW x \in Trie
      PROVE  step[Max(s)][x] = PutArtifact(x, list[Max(s)])
  BY <1>6, <1>7 DEF PositionSteps, ArtifactFcn
<1>. HIDE DEF step
<1>8. IsIter(f)
  BY <1>5, <1>7 DEF IsFold
<1>9. IsIter(iter)
  <2>. HIDE DEF IsIter
  <2> QED BY <1>8
<1>. HIDE DEF iter
<1>10. FoldsLeft(iter, ArtifactFcn, Trie, Artifact, base, list)
  <2>1. iter = [s \in SUBSET (1 .. m) |-> iter[s]]
    BY <1>9
  <2>2. ASSUME NEW s \in SUBSET (1 .. m), s # {}, iter[s \ {Max(s)}] \in Trie
        PROVE  iter[s] = ArtifactFcn[iter[s \ {Max(s)}]][list[Max(s)]]
    <3>1. iter[s] = PutArtifact(iter[s \ {Max(s)}], list[Max(s)])
      BY <1>9, <2>2
    <3> QED BY <1>6, <2>2, <3>1 DEF ArtifactFcn
  <2>3. iter[{}] = base
    BY <1>9
  <2>. HIDE DEF IsIter
  <2> QED BY <1>1, <2>1, <2>2, <2>3, PutArtifactType DEF FoldsLeft
<1>11. iter[1 .. Len(list)] = Folded(ArtifactFcn, base, list)
  BY <1>10, FoldLeftFolds
<1> QED BY <1>2, <1>11 DEF list

\* A lock file adds labels of its artifacts.
LEMMA LockFileSpreads ==
    ASSUME NEW base \in Trie, NEW file \in LockFile
    PROVE  /\ PutLockFile(base, file) \in Trie
           /\ \A n \in Name : LabelsAt(PutLockFile(base, file), n)
                                  \subseteq LabelsAt(base, n) \cup {a.from : a \in ToSet(file.artifacts)}
<1>. DEFINE list == file.artifacts
            froms == {a.from : a \in ToSet(list)}
            Near(trie) == \A n \in Name : LabelsAt(trie, n) \subseteq LabelsAt(base, n) \cup froms
            I == [k \in 0 .. Len(list) |-> {trie \in Trie : Near(trie)}]
<1>1. list \in Seq(Artifact)
  BY DEF LockFile
<1>2. PutLockFile(base, file) = Folded(ArtifactFcn, base, list)
  BY LockFileIsFold
<1>3. ASSUME NEW k \in 1 .. Len(list), NEW trie \in Trie, Near(trie)
      PROVE  ArtifactFcn[trie][list[k]] \in Trie /\ Near(ArtifactFcn[trie][list[k]])
  <2>1. list[k] \in Artifact /\ list[k] \in ToSet(list)
    <3>. HIDE DEF list, Artifact
    <3> QED BY <1>1, ElementOfSeq DEF ToSet
  <2>2. list[k].from \in Label /\ list[k].from \in froms
    BY <2>1 DEF Artifact
  <2>3. ArtifactFcn[trie][list[k]] = PutAll(trie, list[k].from, list[k].packages)
    BY <2>1 DEF ArtifactFcn, PutArtifact
  <2>. HIDE DEF froms, list
  <2>4. PutAll(trie, list[k].from, list[k].packages) \in Trie
    BY <2>2, PutsTyped
  <2>5. \A n \in Name : LabelsAt(PutAll(trie, list[k].from, list[k].packages), n) \subseteq LabelsAt(trie, n) \cup {list[k].from}
    BY <2>2, PutsSpread
  <2> QED BY <1>3, <2>2, <2>3, <2>4, <2>5
<1>4. Len(list) \in Nat
  <2>. HIDE DEF list, Artifact
  <2> QED BY <1>1
<1>5. Near(base)
  OBVIOUS
<1>. HIDE DEF list, froms, Near, Artifact, Trie
<1>6. base \in I[0] /\ Maintained(I, ArtifactFcn, Trie, list)
  BY <1>3, <1>4, <1>5 DEF Maintained
<1>7. I[Len(list)] = {trie \in Trie : Near(trie)}
  BY <1>4
<1>. HIDE DEF I
<1>8. Folded(ArtifactFcn, base, list) \in I[Len(list)]
  BY <1>1, <1>6, PutArtifactType, FoldedInvariant
<1>9. PutLockFile(base, file) \in Trie /\ Near(PutLockFile(base, file))
  BY <1>2, <1>7, <1>8
<1> QED BY <1>9 DEF Near, froms, list

LEMMA PutLockFileType == IsStep(LockFileFcn, Trie, LockFile)
<1>. HIDE DEF LockFile, Trie
<1> QED BY LockFileSpreads DEF LockFileFcn, IsStep

LEMMA LockFilesAreFold ==
    ASSUME NEW base \in Trie, NEW list \in Seq(LockFile)
    PROVE  FoldLeft(PutLockFile, base, list) = Folded(LockFileFcn, base, list)
<1>. DEFINE m == Len(list)
            IsIter(h) == h = [s \in SUBSET (1 .. m) |->
                                 IF s = {} THEN base ELSE PutLockFile(h[s \ {Max(s)}], list[Max(s)])]
            step == PositionSteps(LockFileFcn, Trie, list)
            iter == CHOOSE h : IsIter(h)
<1>. HIDE DEF LockFile, Trie
<1>1. m \in Nat /\ DOMAIN list = 1 .. m
  OBVIOUS
<1>2. FoldLeft(PutLockFile, base, list) = iter[1 .. m]
  BY <1>1 DEF FoldLeft, MapThenFoldSet
<1>. HIDE DEF m
<1>3. m = Len(list)
  BY DEF m
<1>4. step \in [1 .. m -> [Trie -> Trie]]
  <2>1. \A i \in 1 .. m : list[i] \in LockFile
    BY <1>1, ElementOfSeq
  <2> QED BY <1>3, <2>1, PutLockFileType DEF PositionSteps, IsStep
<1>5. PICK f : IsFold(f, Trie, base, step, m)
  BY <1>1, <1>4, FoldExists
<1>6. ASSUME NEW s \in SUBSET (1 .. m), s # {}
      PROVE  Max(s) \in 1 .. m /\ list[Max(s)] \in LockFile
  <2>1. \E x \in s : \A y \in s : x >= y
    BY <1>1, <1>6, RangeHasMax
  <2>2. Max(s) \in 1 .. m
    BY <2>1 DEF Max
  <2> QED BY <1>1, <2>2, ElementOfSeq
<1>7. ASSUME NEW s \in SUBSET (1 .. m), s # {}, NEW x \in Trie
      PROVE  step[Max(s)][x] = PutLockFile(x, list[Max(s)])
  BY <1>3, <1>6, <1>7 DEF PositionSteps, LockFileFcn
<1>. HIDE DEF step
<1>8. IsIter(f)
  BY <1>5, <1>7 DEF IsFold
<1>9. IsIter(iter)
  <2>. HIDE DEF IsIter
  <2> QED BY <1>8
<1>. HIDE DEF iter
<1>10. FoldsLeft(iter, LockFileFcn, Trie, LockFile, base, list)
  <2>1. iter = [s \in SUBSET (1 .. m) |-> iter[s]]
    BY <1>9
  <2>2. ASSUME NEW s \in SUBSET (1 .. m), s # {}, iter[s \ {Max(s)}] \in Trie
        PROVE  iter[s] = LockFileFcn[iter[s \ {Max(s)}]][list[Max(s)]]
    <3>1. iter[s] = PutLockFile(iter[s \ {Max(s)}], list[Max(s)])
      BY <1>9, <2>2
    <3> QED BY <1>6, <2>2, <3>1 DEF LockFileFcn
  <2>3. iter[{}] = base
    BY <1>9
  <2>. HIDE DEF IsIter
  <2> QED BY <1>3, <2>1, <2>2, <2>3, PutLockFileType DEF FoldsLeft
<1>11. iter[1 .. Len(list)] = Folded(LockFileFcn, base, list)
  BY <1>10, FoldLeftFolds
<1> QED BY <1>2, <1>3, <1>11

\* What the lock files add are labels of their artifacts.
LEMMA LockFilesSpread ==
    ASSUME NEW base \in Trie, NEW list \in Seq(LockFile)
    PROVE  /\ FoldLeft(PutLockFile, base, list) \in Trie
           /\ \A n \in Name : \A l \in LabelsAt(FoldLeft(PutLockFile, base, list), n) :
                l \in LabelsAt(base, n) \/ \E f \in ToSet(list) : \E a \in ToSet(f.artifacts) : l = a.from
<1>. DEFINE OfArtifact(l) == \E f \in ToSet(list) : \E a \in ToSet(f.artifacts) : l = a.from
            Near(trie) == \A n \in Name : \A l \in LabelsAt(trie, n) : l \in LabelsAt(base, n) \/ OfArtifact(l)
            I == [k \in 0 .. Len(list) |-> {trie \in Trie : Near(trie)}]
<1>. HIDE DEF LockFile, Trie
<1>1. FoldLeft(PutLockFile, base, list) = Folded(LockFileFcn, base, list)
  BY LockFilesAreFold
<1>2. ASSUME NEW k \in 1 .. Len(list), NEW trie \in Trie, Near(trie)
      PROVE  LockFileFcn[trie][list[k]] \in Trie /\ Near(LockFileFcn[trie][list[k]])
  <2>1. list[k] \in LockFile /\ list[k] \in ToSet(list)
    BY ElementOfSeq DEF ToSet
  <2>2. LockFileFcn[trie][list[k]] = PutLockFile(trie, list[k])
    BY <2>1 DEF LockFileFcn
  <2>3. \A l \in {a.from : a \in ToSet(list[k].artifacts)} : OfArtifact(l)
    BY <2>1
  <2>4. /\ PutLockFile(trie, list[k]) \in Trie
        /\ \A n \in Name : LabelsAt(PutLockFile(trie, list[k]), n)
                               \subseteq LabelsAt(trie, n) \cup {a.from : a \in ToSet(list[k].artifacts)}
    BY <2>1, LockFileSpreads
  <2>. HIDE DEF OfArtifact
  <2> QED BY <1>2, <2>2, <2>3, <2>4
<1>3. Len(list) \in Nat
  OBVIOUS
<1>4. Near(base)
  OBVIOUS
<1>. HIDE DEF Near
<1>5. base \in I[0] /\ Maintained(I, LockFileFcn, Trie, list)
  BY <1>2, <1>3, <1>4 DEF Maintained
<1>6. I[Len(list)] = {trie \in Trie : Near(trie)}
  BY <1>3
<1>. HIDE DEF I
<1>7. Folded(LockFileFcn, base, list) \in I[Len(list)]
  BY <1>5, PutLockFileType, FoldedInvariant
<1>8. Folded(LockFileFcn, base, list) \in Trie /\ Near(Folded(LockFileFcn, base, list))
  BY <1>6, <1>7
<1> QED BY <1>1, <1>8 DEF Near, OfArtifact

\* What the steps of gazelle leave alone.
LEMMA JarsFramed ==
    ASSUME IndexInv, UNCHANGED <<index, predefined, seen, dropped>>,
           indexPhase # "merge", indexPhase' # "merge", ToSet(jars') \subseteq ToSet(jars) \cup ToSet(index)
    PROVE  OneInput' /\ MergedOnce'
<1>1. OneInput'
  BY DEF IndexInv, OneInput
<1>2. PredefinedClasses' = PredefinedClasses
  BY PredefinedAre
<1> QED BY <1>1, <1>2 DEF IndexInv, MergedOnce

LEMMA ReadFramed ==
    ASSUME UNCHANGED <<index, predefined, scope, byLabel>>
    PROVE  (\A j : JarRead(j) => JarRead(j)') /\ (FirstOwns => FirstOwns')
<1>1. \A j : From(j)' = From(j)
  BY FromFixed
<1> QED BY <1>1 DEF JarRead, FirstOwns

LEMMA ProviderAppended ==
    ASSUME NEW list \in Seq(Known), NEW name \in Known
    PROVE  Append(list, name) \in Seq(Known) /\ ToSet(Append(list, name)) = ToSet(list) \cup {name}
<1>. HIDE DEF Known
<1> QED BY ToSetAppend

LEMMA ClaimStays ==
    ASSUME ToSet(providers) \subseteq ToSet(providers'), byLabel \subseteq byLabel',
           "maven" \in ToSet(providers) => repos' = repos
    PROVE  \A l : Claimed(l) => Claimed(l)'
<1> QED BY DEF Claimed, NoLabel

LEMMA SetupJavaKeeps ==
    ASSUME IndexInv, SetupJava
    PROVE  IndexInv'
<1>1. /\ indexPhase = "setup" /\ indexPhase' = "read index" /\ jars' = index /\ providers' = Append(providers, "java")
      /\ UNCHANGED <<predefined, index, seen, dropped, lockFiles, repos, scope, packages, byLabel, kind, todo>>
  BY DEF SetupJava, SetupNext, mergeVars
<1>2. "java" \in Known /\ providers \in Seq(Known) /\ index \in Seq(JarFile)
  BY DEF IndexInv, IndexType, Known
<1>3. providers' \in Seq(Known) /\ ToSet(providers') = ToSet(providers) \cup {"java"}
  BY <1>1, <1>2, ProviderAppended
<1>4. IndexType'
  BY <1>1, <1>2, <1>3 DEF IndexInv, IndexType
<1>5. OneInput' /\ MergedOnce'
  BY <1>1, JarsFramed
<1>6. ReadSoFar'
  <2>1. Len(index) \in Nat /\ SubSeq(index, 1, Len(index)) = index
    <3>. HIDE DEF JarFile
    <3> QED BY <1>2
  <2>2. 0 \in 0 .. Len(index) /\ 0 + 1 = 1 /\ 1 .. 0 = {}
    BY <2>1
  <2>3. jars' = SubSeq(index, 0 + 1, Len(index)) /\ index' = index
    BY <1>1, <2>1, <2>2
  <2>4. FirstOwns'
    BY <1>1, ReadFramed DEF IndexInv, ReadSoFar
  <2> QED BY <1>1, <2>2, <2>3, <2>4 DEF ReadSoFar
<1>7. AllClaimed'
  <2>1. \A l : Claimed(l) => Claimed(l)'
    BY <1>1, <1>3, ClaimStays
  <2> QED BY <1>1, <1>3, <2>1 DEF IndexInv, AllClaimed
<1> QED BY <1>4, <1>5, <1>6, <1>7 DEF IndexInv

LEMMA SetupOtherKeeps ==
    ASSUME IndexInv, SetupOther
    PROVE  IndexInv'
<1>1. PICK name \in Known \ {"java", "maven"} : SetupNext(name)
  BY DEF SetupOther
<1>2. /\ indexPhase = "setup" /\ indexPhase' = "setup" /\ jars' = jars /\ providers' = Append(providers, name)
      /\ UNCHANGED <<predefined, index, seen, dropped, lockFiles, repos, scope, packages, byLabel, kind, todo>>
  BY <1>1 DEF SetupOther, SetupNext, mergeVars
<1>3. providers \in Seq(Known)
  BY DEF IndexInv, IndexType
<1>4. providers' \in Seq(Known) /\ ToSet(providers') = ToSet(providers) \cup {name}
  BY <1>2, <1>3, ProviderAppended
<1>5. IndexType'
  BY <1>2, <1>4 DEF IndexInv, IndexType
<1>6. OneInput' /\ MergedOnce'
  BY <1>2, JarsFramed
<1>7. ReadSoFar'
  BY <1>1, <1>2, <1>4, ReadFramed DEF IndexInv, ReadSoFar
<1>8. AllClaimed'
  <2>1. \A l : Claimed(l) => Claimed(l)'
    BY <1>2, <1>4, ClaimStays
  <2> QED BY <1>1, <1>2, <1>4, <2>1 DEF IndexInv, AllClaimed
<1> QED BY <1>5, <1>6, <1>7, <1>8 DEF IndexInv

\* All lock files have a proper name, or gazelle ends.
LEMMA FirstBad ==
    ASSUME NEW list \in Seq(LockFile)
    PROVE  LET bad == SelectInSeq(list, LAMBDA f : f.repo = "")
           IN /\ bad = 0 => \A i \in DOMAIN list : list[i].repo # ""
              /\ bad # 0 => SubSeq(list, 1, bad - 1) \in Seq(LockFile)
<1>. DEFINE none == ""
            B == {i \in 1 .. Len(list) : list[i].repo = none}
            bad == SelectInSeq(list, LAMBDA f : f.repo = "")
<1>1. bad = IF B # {} THEN Min(B) ELSE 0
  BY Zenon DEF SelectInSeq
<1>. HIDE DEF none, bad, LockFile
<1>2. Len(list) \in Nat /\ DOMAIN list = 1 .. Len(list)
  OBVIOUS
<1>3. CASE B = {}
  <2>1. bad = 0 /\ \A i \in DOMAIN list : list[i].repo # none
    BY <1>1, <1>2, <1>3
  <2> QED BY Zenon, <2>1 DEF bad, none
<1>4. CASE B # {}
  <2>1. PICK x \in B : \A y \in B : x <= y
    BY <1>2, <1>4, RangeHasMin
  <2>2. Min(B) \in 1 .. Len(list)
    BY <2>1 DEF Min
  <2>3. bad \in 1 .. Len(list)
    BY <1>1, <1>4, <2>2
  <2>4. SubSeq(list, 1, bad - 1) \in Seq(LockFile) /\ bad # 0
    BY <2>3
  <2> QED BY Zenon, <2>4 DEF bad
<1> QED BY <1>3, <1>4

LEMMA MavenReads ==
    ASSUME IndexInv, SetupMaven
    PROVE  \E list \in Seq(LockFile) :
             /\ packages' = FoldLeft(PutLockFile, packages, list)
             /\ repos' = {f.repo : f \in ToSet(list)}
             /\ indexPhase' \in {"setup", "fatal"}
             /\ indexPhase' = "setup" =>
                    list = lockFiles /\ \A f \in ToSet(list) : \A a \in ToSet(f.artifacts) : RepoOf[a.from] = f.repo
<1>. DEFINE bad == SelectInSeq(lockFiles, LAMBDA f : f.repo = "")
            read == IF bad = 0 THEN lockFiles ELSE SubSeq(lockFiles, 1, bad - 1)
<1>1. /\ packages' = FoldLeft(PutLockFile, packages, read)
      /\ repos' = {f.repo : f \in ToSet(read)}
      /\ indexPhase' = IF bad = 0 THEN "setup" ELSE "fatal"
  BY Zenon DEF SetupMaven
<1>2. lockFiles \in LockFiles
  BY DEF IndexInv, IndexType
<1>3. lockFiles \in Seq(LockFile)
  BY Zenon, <1>2, IndexAssumption
<1>4. /\ bad = 0 => \A i \in DOMAIN lockFiles : lockFiles[i].repo # ""
      /\ bad # 0 => SubSeq(lockFiles, 1, bad - 1) \in Seq(LockFile)
  BY Zenon, <1>3, FirstBad
<1>5. bad = 0 => \A f \in ToSet(lockFiles) : \A a \in ToSet(f.artifacts) : RepoOf[a.from] = f.repo
  <2>1. \A i \in DOMAIN lockFiles : \A a \in ToSet(lockFiles[i].artifacts) :
            lockFiles[i].repo # "" => RepoOf[a.from] = lockFiles[i].repo
    BY Zenon, <1>2, IndexAssumption
  <2>2. \A f \in ToSet(lockFiles) : \E i \in DOMAIN lockFiles : f = lockFiles[i]
    BY Zenon DEF ToSet
  <2>3. bad = 0 => \A i \in DOMAIN lockFiles : \A a \in ToSet(lockFiles[i].artifacts) : RepoOf[a.from] = lockFiles[i].repo
    BY Zenon, <1>4, <2>1
  <2>. HIDE DEF bad
  <2>. SUFFICES ASSUME bad = 0, NEW f \in ToSet(lockFiles), NEW a \in ToSet(f.artifacts)
                PROVE  RepoOf[a.from] = f.repo
    OBVIOUS
  <2>4. PICK i \in DOMAIN lockFiles : f = lockFiles[i]
    BY <2>2
  <2> QED BY <2>3, <2>4
<1>6. read \in Seq(LockFile)
  BY Zenon, <1>3, <1>4
<1>. HIDE DEF bad
<1>7. indexPhase' \in {"setup", "fatal"} /\ (indexPhase' = "setup" => bad = 0 /\ read = lockFiles)
  BY <1>1
<1>. HIDE DEF read
<1> QED BY Zenon, <1>1, <1>5, <1>6, <1>7

LEMMA SetupMavenKeeps ==
    ASSUME IndexInv, SetupMaven
    PROVE  IndexInv'
<1>1. PICK list \in Seq(LockFile) :
             /\ packages' = FoldLeft(PutLockFile, packages, list)
             /\ repos' = {f.repo : f \in ToSet(list)}
             /\ indexPhase' \in {"setup", "fatal"}
             /\ indexPhase' = "setup" =>
                    list = lockFiles /\ \A f \in ToSet(list) : \A a \in ToSet(f.artifacts) : RepoOf[a.from] = f.repo
  BY MavenReads
<1>2. /\ indexPhase = "setup" /\ jars' = jars /\ providers' = Append(providers, "maven")
      /\ UNCHANGED <<predefined, index, seen, dropped, lockFiles, scope, byLabel, kind, todo>>
  BY DEF SetupMaven, SetupNext, mergeVars
<1>3. "maven" \in Known /\ providers \in Seq(Known) /\ packages \in Trie
  BY DEF IndexInv, IndexType, Known
<1>4. providers' \in Seq(Known) /\ ToSet(providers') = ToSet(providers) \cup {"maven"}
  BY <1>2, <1>3, ProviderAppended
<1>5. /\ packages' \in Trie
      /\ \A n \in Name : \A l \in LabelsAt(packages', n) :
            l \in LabelsAt(packages, n) \/ \E f \in ToSet(list) : \E a \in ToSet(f.artifacts) : l = a.from
  BY <1>1, <1>3, LockFilesSpread
<1>6. IndexType'
  BY <1>2, <1>4, <1>5 DEF IndexInv, IndexType
<1>7. OneInput' /\ MergedOnce'
  BY <1>1, <1>2, JarsFramed
<1>8. ReadSoFar'
  BY <1>1, <1>2, <1>4, ReadFramed DEF IndexInv, ReadSoFar
<1>9. AllClaimed'
  <2>1. CASE indexPhase' = "fatal"
    BY <2>1 DEF AllClaimed
  <2>2. CASE indexPhase' = "setup"
    <3>1. repos' = {f.repo : f \in ToSet(lockFiles)}
      BY <1>1, <2>2
    <3>2. \A l : Claimed(l) => Claimed(l)'
      <4>1. "maven" \in ToSet(providers) => repos' = repos
        BY <1>2, <3>1 DEF IndexInv, AllClaimed
      <4> QED BY <1>2, <1>4, <4>1, ClaimStays
    <3>3. ASSUME NEW n \in Name, NEW l \in LabelsAt(scope', n) \cup LabelsAt(packages', n)
          PROVE  Claimed(l)'
      <4>1. CASE l \in LabelsAt(scope, n) \cup LabelsAt(packages, n)
        BY <1>2, <3>2, <4>1 DEF IndexInv, AllClaimed
      <4>2. CASE \E f \in ToSet(list) : \E a \in ToSet(f.artifacts) : l = a.from
        <5>1. PICK f \in ToSet(list) : \E a \in ToSet(f.artifacts) : l = a.from
          BY <4>2
        <5>2. RepoOf[l] = f.repo
          BY <1>1, <2>2, <5>1
        <5>3. RepoOf[l] \in repos'
          BY <1>1, <5>2
        <5> QED BY <1>4, <5>3 DEF Claimed
      <4> QED BY <1>2, <1>5, <4>1, <4>2
    <3> QED BY <1>2, <2>2, <3>1, <3>3 DEF AllClaimed
  <2> QED BY <1>1, <2>1, <2>2
<1> QED BY <1>6, <1>7, <1>8, <1>9 DEF IndexInv

\* The jar that is read next.
LEMMA HeadOfRest ==
    ASSUME NEW T, NEW list \in Seq(T), NEW k \in 0 .. Len(list), SubSeq(list, k + 1, Len(list)) # <<>>
    PROVE  /\ Len(list) \in Nat /\ DOMAIN list = 1 .. Len(list) /\ k + 1 \in DOMAIN list
           /\ Head(SubSeq(list, k + 1, Len(list))) = list[k + 1]
           /\ Tail(SubSeq(list, k + 1, Len(list))) = SubSeq(list, k + 2, Len(list))
<1>1. Len(list) \in Nat /\ DOMAIN list = 1 .. Len(list)
  OBVIOUS
<1>2. k < Len(list)
  BY <1>1
<1>3. /\ Head(SubSeq(list, k + 1, Len(list))) = list[k + 1]
      /\ Tail(SubSeq(list, k + 1, Len(list))) = SubSeq(list, k + 2, Len(list))
  BY <1>1, <1>2
<1> QED BY <1>1, <1>2, <1>3

LEMMA NextJar ==
    ASSUME IndexInv, indexPhase = "read index", jars # <<>>
    PROVE  \E k \in 0 .. Len(index) :
             /\ k + 1 \in DOMAIN index /\ Head(jars) = index[k + 1]
             /\ Tail(jars) = SubSeq(index, k + 2, Len(index)) /\ Len(index) \in Nat /\ DOMAIN index = 1 .. Len(index)
             /\ \A i \in 1 .. k : \E j \in ToSet(index) : j = index[i] /\ JarRead(j)
<1>1. PICK k \in 0 .. Len(index) :
          jars = SubSeq(index, k + 1, Len(index)) /\ \A i \in 1 .. k : \E j \in ToSet(index) : j = index[i] /\ JarRead(j)
  BY DEF IndexInv, ReadSoFar
<1>2. index \in Seq(JarFile)
  BY DEF IndexInv, IndexType
<1> QED BY Zenon, <1>1, <1>2, HeadOfRest

\* A predefined class keeps its missing label when another jar puts it: the first jar owns
\* the class, and no jar but the first has its label.
LEMMA JarReadNext ==
    ASSUME IndexInv, FirstOwns, NEW k \in 0 .. Len(index), Len(index) \in Nat, DOMAIN index = 1 .. Len(index),
           k + 1 \in DOMAIN index, NEW jar, jar = index[k + 1],
           \A i \in 1 .. k : \E j \in ToSet(index) : j = index[i] /\ JarRead(j),
           index' = index, predefined' = predefined,
           byLabel' = byLabel \cup {ParsedLabel[jar.label]}, scope' = PutAll(scope, From(jar), ClassNames(jar))
    PROVE  FirstOwns' /\ \A i \in 1 .. k + 1 : \E j \in ToSet(index) : j = index[i] /\ JarRead(j)'
<1>1. scope \in Trie /\ index \in Seq(JarFile) /\ OneInput
  BY DEF IndexInv, IndexType
<1>2. \A i \in DOMAIN index : index[i] \in ToSet(index) /\ index[i] \in JarFile
  <2>. HIDE DEF JarFile
  <2> QED BY <1>1 DEF ToSet
<1>3. \A j \in ToSet(index) : ClassNames(j) \subseteq Name
  <2>1. \A j \in JarFile : ClassNames(j) \subseteq Name
    BY DEF JarFile, ClassNames
  <2>2. ToSet(index) \subseteq JarFile
    BY <1>2 DEF ToSet
  <2> QED BY <2>1, <2>2
<1>4. jar \in ToSet(index) /\ From(jar) \in Label
  BY <1>1, <1>2, FromType
<1>5. PICK l \in Label : l = From(jar)
  BY <1>4
<1>6. \A j : From(j)' = From(j)
  BY FromFixed
<1>7. NoLabel' = NoLabel
  BY DEF NoLabel
<1>8. \A i \in 1 .. k : \A n \in ClassNames(index[i]) : scope[n] # NoSymbol
  BY DEF JarRead
\* The owner puts its class once.
<1>9. ASSUME NEW n \in Name, n \in ClassNames(jar), scope[n] # NoSymbol, scope[n].label = l, l # NoLabel,
             NEW i \in 1 .. k
      PROVE  n \notin ClassNames(index[i])
  <2>1. PICK first \in DOMAIN index : \E owner \in ToSet(index) :
            /\ owner = index[first] /\ n \in ClassNames(owner) /\ scope[n].label = From(owner)
            /\ \A g \in 1 .. first - 1 : n \notin ClassNames(index[g])
    BY <1>9 DEF FirstOwns
  <2>2. From(index[first]) = From(index[k + 1]) /\ From(index[first]) # NoLabel
    BY <1>5, <1>9, <2>1
  <2>3. first = k + 1
    BY <2>2, FromDiffers
  <2> QED BY <2>1, <2>3
<1>10. ASSUME NEW n \in Name, n \in ClassNames(jar)
       PROVE  /\ scope'[n] # NoSymbol /\ l \in LabelsAt(scope', n)
              /\ scope[n] = NoSymbol \/ scope[n].label = l => scope'[n].label = l
              /\ scope[n] # NoSymbol /\ scope[n].label # l =>
                    scope'[n].label = scope[n].label /\ LabelsAt(scope, n) \subseteq LabelsAt(scope', n)
  <2>1. n \in ClassNames(jar) \cap Name
    BY <1>10
  <2> QED BY <1>1, <1>5, <2>1, PutsAt
<1>11. ASSUME NEW n \in Name, n \notin ClassNames(jar)
       PROVE  scope'[n] = scope[n] /\ LabelsAt(scope', n) = LabelsAt(scope, n)
  BY <1>1, <1>4, <1>11, PutsElsewhere
<1>12. FirstOwns'
  <2>. SUFFICES ASSUME NEW n \in Name, scope'[n] # NoSymbol
                PROVE  \E first \in DOMAIN index : \E owner \in ToSet(index) :
                          /\ owner = index[first] /\ n \in ClassNames(owner) /\ scope'[n].label = From(owner)
                          /\ \A g \in 1 .. first - 1 : n \notin ClassNames(index[g])
    BY <1>6 DEF FirstOwns
  <2>1. CASE scope[n] # NoSymbol
    <3>1. scope'[n].label = scope[n].label
      BY <1>10, <1>11, <2>1
    <3>2. PICK first \in DOMAIN index : \E owner \in ToSet(index) :
              /\ owner = index[first] /\ n \in ClassNames(owner) /\ scope[n].label = From(owner)
              /\ \A g \in 1 .. first - 1 : n \notin ClassNames(index[g])
      BY <2>1 DEF FirstOwns
    <3> QED BY <3>1, <3>2
  <2>2. CASE scope[n] = NoSymbol
    <3>1. n \in ClassNames(jar)
      BY <1>11, <2>2
    <3>2. scope'[n].label = From(jar)
      BY <1>5, <1>10, <2>2, <3>1
    <3>3. \A g \in 1 .. (k + 1) - 1 : n \notin ClassNames(index[g])
      BY <1>8, <2>2
    <3> QED BY <1>4, <3>1, <3>2, <3>3
  <2> QED BY <2>1, <2>2
<1>13. ASSUME NEW i \in 1 .. k + 1, NEW j, j = index[i], NEW n \in ClassNames(j)
       PROVE  /\ scope'[n] # NoSymbol
              /\ \E owner \in ToSet(index) : scope'[n].label = From(owner)
              /\ From(j) = NoLabel => NoLabel \in LabelsAt(scope', n)
  <2>1. n \in Name /\ j \in ToSet(index)
    BY <1>2, <1>3, <1>13
  <2>2. i \in 1 .. k \/ (i = k + 1 /\ j = jar)
    BY <1>13
  <2>3. CASE n \notin ClassNames(jar)
    <3>1. i \in 1 .. k /\ JarRead(j)
      BY <1>13, <2>2, <2>3
    <3> QED BY <1>11, <1>13, <2>1, <2>3, <3>1 DEF JarRead
  <2>4. CASE n \in ClassNames(jar)
    <3>1. scope'[n] # NoSymbol /\ l \in LabelsAt(scope', n)
      BY <1>10, <2>1, <2>4
    <3>2. \E owner \in ToSet(index) : scope'[n].label = From(owner)
      <4>1. CASE scope[n] = NoSymbol \/ scope[n].label = l
        BY <1>4, <1>5, <1>10, <2>1, <2>4, <4>1
      <4>2. CASE scope[n] # NoSymbol /\ scope[n].label # l
        <5>1. \E owner \in ToSet(index) : scope[n].label = From(owner)
          BY <2>1, <4>2 DEF FirstOwns
        <5> QED BY <1>10, <2>1, <2>4, <4>2, <5>1
      <4> QED BY <4>1, <4>2
    <3>3. ASSUME From(j) = NoLabel
          PROVE  NoLabel \in LabelsAt(scope', n)
      <4>1. CASE l = NoLabel
        BY <3>1, <4>1
      <4>2. CASE l # NoLabel
        <5>1. i \in 1 .. k /\ JarRead(j)
          BY <1>5, <1>13, <2>2, <3>3, <4>2
        <5>2. scope[n] # NoSymbol /\ NoLabel \in LabelsAt(scope, n)
          BY <1>13, <3>3, <5>1 DEF JarRead
        <5>3. scope[n].label # l
          BY <1>9, <1>13, <2>1, <2>4, <4>2, <5>1, <5>2
        <5> QED BY <1>10, <2>1, <2>4, <5>2, <5>3
      <4> QED BY <4>1, <4>2
    <3> QED BY <3>1, <3>2, <3>3
  <2> QED BY <2>3, <2>4
<1>14. ASSUME NEW i \in 1 .. k + 1
       PROVE  \E j \in ToSet(index) : j = index[i] /\ JarRead(j)'
  <2>1. PICK j \in ToSet(index) : j = index[i]
    BY <1>2, <1>14
  <2>2. ParsedLabel[j.label] \in byLabel'
    <3>1. CASE i \in 1 .. k
      BY <2>1, <3>1 DEF JarRead
    <3>2. CASE i = k + 1
      BY <2>1, <3>2
    <3> QED BY <3>1, <3>2
  <2>3. JarRead(j)'
    BY <1>6, <1>7, <1>13, <2>1, <2>2 DEF JarRead
  <2> QED BY <2>1, <2>3
<1> QED BY <1>12, <1>14

LEMMA ReadJarKeeps ==
    ASSUME IndexInv, ReadJar
    PROVE  IndexInv'
<1>1. /\ indexPhase = "read index" /\ jars # <<>> /\ indexPhase' = indexPhase /\ jars' = Tail(jars)
      /\ UNCHANGED <<predefined, index, seen, dropped, providers, lockFiles, repos, kind, todo>>
  BY Zenon DEF ReadJar, mergeVars
<1>2. PICK jar : jar = Head(jars)
  OBVIOUS
<1>3. /\ byLabel' = byLabel \cup {ParsedLabel[jar.label]}
      /\ packages' = PutAll(packages, From(jar), jar.packages)
      /\ scope' = PutAll(scope, From(jar), ClassNames(jar))
  BY Zenon, <1>2 DEF ReadJar
<1>4. PICK k \in 0 .. Len(index) :
             /\ k + 1 \in DOMAIN index /\ jar = index[k + 1]
             /\ Tail(jars) = SubSeq(index, k + 2, Len(index)) /\ Len(index) \in Nat /\ DOMAIN index = 1 .. Len(index)
             /\ \A i \in 1 .. k : \E j \in ToSet(index) : j = index[i] /\ JarRead(j)
  BY Zenon, <1>1, <1>2, NextJar
<1>5. FirstOwns /\ IndexType /\ OneInput /\ AllClaimed
  BY <1>1 DEF IndexInv, ReadSoFar
<1>6. FirstOwns' /\ \A i \in 1 .. k + 1 : \E j \in ToSet(index) : j = index[i] /\ JarRead(j)'
  <2>1. index' = index /\ predefined' = predefined
    BY <1>1
  <2> QED BY Zenon, <1>3, <1>4, <1>5, <2>1, JarReadNext
<1>7. /\ jar \in ToSet(index) /\ scope \in Trie /\ packages \in Trie
      /\ From(jar) \in Label /\ (From(jar) = NoLabel \/ From(jar) = ParsedLabel[jar.label])
  <2>1. jar \in ToSet(index)
    BY <1>4 DEF ToSet
  <2> QED BY <1>5, <2>1, FromType DEF IndexType
<1>8. scope' \in Trie /\ packages' \in Trie
  BY <1>3, <1>7, PutsTyped
<1>9. jars' \in Seq(JarFile) /\ ToSet(jars') \subseteq ToSet(index)
  <2>1. index \in Seq(JarFile) /\ jars' = SubSeq(index, k + 2, Len(index))
    BY <1>1, <1>4, <1>5 DEF IndexType
  <2>. HIDE DEF JarFile
  <2>2. k + 2 \in Nat /\ k + 2 >= 1 /\ k + 2 <= Len(index) + 1 /\ Len(index) \in Nat
    BY <1>4
  <2>3. /\ SubSeq(index, k + 2, Len(index)) \in Seq(JarFile)
        /\ \A i \in DOMAIN SubSeq(index, k + 2, Len(index)) :
              SubSeq(index, k + 2, Len(index))[i] = index[k + 1 + i] /\ k + 1 + i \in DOMAIN index
    BY <1>4, <2>1, <2>2
  <2> QED BY <2>1, <2>3 DEF ToSet
<1>10. IndexType'
  BY <1>1, <1>5, <1>8, <1>9 DEF IndexType
<1>11. OneInput' /\ MergedOnce'
  <2>1. indexPhase # "merge" /\ indexPhase' # "merge"
    BY <1>1
  <2> QED BY <1>1, <1>9, <2>1, JarsFramed
<1>12. ReadSoFar'
  <2>1. k + 1 \in 0 .. Len(index) /\ (k + 1) + 1 = k + 2
    BY <1>4
  <2>2. jars' = SubSeq(index', (k + 1) + 1, Len(index')) /\ k + 1 \in 0 .. Len(index')
    BY <1>1, <1>4, <2>1
  <2>3. \A i \in 1 .. k + 1 : \E j \in ToSet(index') : j = index'[i] /\ JarRead(j)'
    BY <1>1, <1>6
  <2>. HIDE DEF JarRead, FirstOwns
  <2>4. \E x \in 0 .. Len(index') :
            jars' = SubSeq(index', x + 1, Len(index'))
            /\ \A i \in 1 .. x : \E j \in ToSet(index') : j = index'[i] /\ JarRead(j)'
    BY Zenon, <2>2, <2>3
  <2> QED BY Zenon, <1>1, <1>6, <2>4 DEF ReadSoFar
<1>13. AllClaimed'
  <2>1. "java" \in ToSet(providers')
    BY <1>1, <1>5 DEF AllClaimed
  <2>2. \A l : Claimed(l) => Claimed(l)'
    BY <1>1, <1>3, ClaimStays
  <2>3. Claimed(From(jar))'
    <3>1. PICK l : l = From(jar)
      OBVIOUS
    <3>2. l = NoLabel' \/ l \in byLabel'
      BY <1>3, <1>7, <3>1 DEF NoLabel
    <3>3. Claimed(l)'
      BY <2>1, <3>2 DEF Claimed
    <3>4. From(jar)' = From(jar)
      BY <1>1, FromFixed
    <3> QED BY <3>1, <3>3, <3>4
  <2>4. ASSUME NEW n \in Name, NEW l \in LabelsAt(scope', n) \cup LabelsAt(packages', n)
        PROVE  Claimed(l)'
    <3>1. l \in LabelsAt(scope, n) \cup LabelsAt(packages, n) \/ l = From(jar)
      BY <1>3, <1>7, PutsSpread
    <3>2. CASE l = From(jar)
      <4>1. From(jar)' = From(jar)
        BY <1>1, FromFixed
      <4>2. l = From(jar)'
        BY <3>2, <4>1
      <4> QED BY <2>3, <4>2
    <3>3. CASE l \in LabelsAt(scope, n) \cup LabelsAt(packages, n)
      BY <1>1, <1>5, <2>2, <3>3 DEF AllClaimed
    <3> QED BY <3>1, <3>2, <3>3
  <2> QED BY <1>1, <1>5, <2>1, <2>4 DEF AllClaimed
<1> QED BY <1>10, <1>11, <1>12, <1>13 DEF IndexInv

\* Where gazelle ends at once.
LEMMA FatalKeeps ==
    ASSUME IndexInv, SetupFails \/ ReadPanics
    PROVE  IndexInv'
<1>1. /\ indexPhase \in {"setup", "read index"} /\ indexPhase' = "fatal" /\ jars' = jars
      /\ UNCHANGED <<predefined, index, seen, dropped, providers, lockFiles, repos, scope, packages, byLabel, kind, todo>>
  BY Zenon DEF SetupFails, ReadPanics, mergeVars, gazelleVars
<1>2. IndexType'
  BY <1>1 DEF IndexInv, IndexType
<1>3. OneInput' /\ MergedOnce'
  <2>1. indexPhase # "merge" /\ indexPhase' # "merge"
    BY Zenon, <1>1
  <2> QED BY <1>1, <2>1, JarsFramed
<1>4. ReadSoFar' /\ AllClaimed'
  BY Zenon, <1>1 DEF ReadSoFar, AllClaimed
<1> QED BY <1>2, <1>3, <1>4 DEF IndexInv

LEMMA NotSmaller ==
    ASSUME NEW n \in Nat, NEW k \in 0 .. n, ~ k < n
    PROVE  k = n
<1> QED OBVIOUS

LEMMA RestEmpty ==
    ASSUME NEW T, NEW list \in Seq(T), NEW k \in 0 .. Len(list), SubSeq(list, k + 1, Len(list)) = <<>>
    PROVE  k = Len(list) /\ DOMAIN list = 1 .. Len(list)
<1>1. Len(list) \in Nat /\ DOMAIN list = 1 .. Len(list)
  OBVIOUS
<1>2. PICK rest : rest = SubSeq(list, k + 1, Len(list))
  OBVIOUS
<1>3. k < Len(list) => 1 \in DOMAIN rest
  BY <1>1, <1>2
<1>4. rest = <<>>
  BY <1>2
<1>5. DOMAIN rest = {}
  BY <1>4
<1>6. ~ k < Len(list)
  BY Zenon, <1>3, <1>5
<1> QED BY Zenon, <1>1, <1>6, NotSmaller

LEMMA IndexReadKeeps ==
    ASSUME IndexInv, IndexRead
    PROVE  IndexInv'
<1>1. /\ indexPhase = "read index" /\ indexPhase' = "setup" /\ jars = <<>> /\ jars' = jars
      /\ UNCHANGED <<predefined, index, seen, dropped, providers, lockFiles, repos, scope, packages, byLabel, kind, todo>>
  BY DEF IndexRead, mergeVars, gazelleVars
<1>2. IndexType'
  BY <1>1 DEF IndexInv, IndexType
<1>3. OneInput' /\ MergedOnce'
  <2>1. indexPhase # "merge" /\ indexPhase' # "merge"
    BY <1>1
  <2> QED BY <1>1, <2>1, JarsFramed
<1>4. FirstOwns' /\ \A j \in ToSet(index') : JarRead(j)'
  <2>1. FirstOwns /\ \E k \in 0 .. Len(index) :
            jars = SubSeq(index, k + 1, Len(index)) /\ \A i \in 1 .. k : \E j \in ToSet(index) : j = index[i] /\ JarRead(j)
    BY <1>1 DEF IndexInv, ReadSoFar
  <2>2. PICK k \in 0 .. Len(index) :
            jars = SubSeq(index, k + 1, Len(index)) /\ \A i \in 1 .. k : \E j \in ToSet(index) : j = index[i] /\ JarRead(j)
    BY Zenon, <2>1
  <2>3. k = Len(index) /\ DOMAIN index = 1 .. Len(index)
    <3>1. index \in Seq(JarFile)
      BY DEF IndexInv, IndexType
    <3>2. SubSeq(index, k + 1, Len(index)) = <<>>
      BY Zenon, <1>1, <2>2
    <3> QED BY Zenon, <3>1, <3>2, RestEmpty
  <2>4. \A j \in ToSet(index) : JarRead(j)
    BY Zenon, <2>2, <2>3 DEF ToSet
  <2>5. (\A j : JarRead(j) => JarRead(j)') /\ (FirstOwns => FirstOwns')
    BY <1>1, ReadFramed
  <2>6. ToSet(index') = ToSet(index)
    BY <1>1
  <2>. HIDE DEF JarRead, FirstOwns
  <2> QED BY Zenon, <2>1, <2>4, <2>5, <2>6
<1>5. ReadSoFar'
  <2>. HIDE DEF JarRead, FirstOwns
  <2>1. indexPhase' \notin {"merge", "read index"}
    BY <1>1
  <2> QED BY Zenon, <1>4, <2>1 DEF ReadSoFar
<1>6. AllClaimed'
  <2>1. \A l : Claimed(l) => Claimed(l)'
    BY <1>1, ClaimStays
  <2> QED BY <1>1, <2>1 DEF IndexInv, AllClaimed
<1> QED BY <1>2, <1>3, <1>5, <1>6 DEF IndexInv

LEMMA StartResolveKeeps ==
    ASSUME IndexInv, StartResolve
    PROVE  IndexInv'
<1>1. /\ indexPhase = "setup" /\ indexPhase' \in {"protobuf", "resolve"} /\ jars' = jars
      /\ indexPhase' = "protobuf" => "protobuf" \in ToSet(providers)
      /\ UNCHANGED <<predefined, index, seen, dropped, providers, lockFiles, repos, scope, packages, byLabel, kind, todo>>
  BY DEF StartResolve, mergeVars, gazelleVars
<1>2. IndexType'
  BY <1>1 DEF IndexInv, IndexType
<1>3. OneInput' /\ MergedOnce'
  BY <1>1, JarsFramed
<1>4. ReadSoFar'
  BY <1>1, ReadFramed DEF IndexInv, ReadSoFar
<1>5. AllClaimed'
  <2>1. \A l : Claimed(l) => Claimed(l)'
    BY <1>1, ClaimStays
  <2> QED BY <1>1, <2>1 DEF IndexInv, AllClaimed
<1> QED BY <1>2, <1>3, <1>4, <1>5 DEF IndexInv

LEMMA KindsAreRules ==
    /\ Len(Provided) \in Nat /\ DOMAIN Provided = 1 .. Len(Provided)
    /\ \A k \in DOMAIN Provided : DOMAIN Provided[k] \subseteq Label
<1> QED BY Zenon, IndexAssumption

LEMMA WalkKindKeeps ==
    ASSUME IndexInv, WalkKind
    PROVE  IndexInv'
<1>1. /\ indexPhase = "protobuf" /\ indexPhase' \in {"protobuf", "resolve"} /\ jars' = jars
      /\ \/ kind < Len(Provided) /\ kind' = kind + 1 /\ todo' = DOMAIN Provided[kind + 1]
         \/ UNCHANGED <<kind, todo>>
      /\ UNCHANGED <<predefined, index, seen, dropped, providers, lockFiles, repos, scope, packages, byLabel>>
  BY DEF WalkKind, mergeVars
<1>2. IndexType'
  <2>1. kind \in 0 .. Len(Provided)
    BY DEF IndexInv, IndexType
  <2>2. CASE kind < Len(Provided) /\ kind' = kind + 1 /\ todo' = DOMAIN Provided[kind + 1]
    <3>1. kind' \in DOMAIN Provided /\ kind' \in 0 .. Len(Provided) /\ todo' = DOMAIN Provided[kind']
      BY <2>1, <2>2, KindsAreRules
    <3>2. todo' \subseteq Label
      BY <3>1, KindsAreRules
    <3> QED BY <1>1, <3>1, <3>2 DEF IndexInv, IndexType
  <2>3. CASE UNCHANGED <<kind, todo>>
    BY <1>1, <2>3 DEF IndexInv, IndexType
  <2> QED BY <1>1, <2>2, <2>3
<1>3. OneInput' /\ MergedOnce'
  BY <1>1, JarsFramed
<1>4. ReadSoFar'
  BY <1>1, ReadFramed DEF IndexInv, ReadSoFar
<1>5. AllClaimed'
  <2>1. \A l : Claimed(l) => Claimed(l)'
    BY <1>1, ClaimStays
  <2> QED BY <1>1, <2>1 DEF IndexInv, AllClaimed
<1> QED BY <1>2, <1>3, <1>4, <1>5 DEF IndexInv

\* A label of the other extension is that of no jar: what it is put to keeps its owner, and
\* a class of a predefined jar is put again without a label at most.
LEMMA ProtoLeavesJars ==
    ASSUME IndexInv, NEW from \in Label, NEW kd \in DOMAIN Provided, from \in DOMAIN Provided[kd], NEW put,
           index' = index, predefined' = predefined, byLabel' = byLabel, scope' = PutAll(scope, from, put),
           NEW j \in ToSet(index), JarRead(j)
    PROVE  JarRead(j)'
<1>1. scope \in Trie /\ index \in Seq(JarFile) /\ OneInput
  BY DEF IndexInv, IndexType
<1>2. ClassNames(j) \subseteq Name
  <2>1. ToSet(index) \subseteq JarFile
    <3>. HIDE DEF JarFile
    <3> QED BY <1>1 DEF ToSet
  <2> QED BY <2>1 DEF JarFile, ClassNames
<1>3. \A x : From(x)' = From(x)
  BY FromFixed
<1>4. NoLabel' = NoLabel
  BY DEF NoLabel
<1>5. ASSUME NEW n \in ClassNames(j)
      PROVE  /\ scope'[n] # NoSymbol
             /\ \E owner \in ToSet(index) : scope'[n].label = From(owner)
             /\ From(j) = NoLabel => NoLabel \in LabelsAt(scope', n)
  <2>1. n \in Name /\ scope[n] # NoSymbol /\ (From(j) = NoLabel => NoLabel \in LabelsAt(scope, n))
    BY <1>2 DEF JarRead
  <2>2. PICK owner \in ToSet(index) : scope[n].label = From(owner)
    BY DEF JarRead
  <2>3. from = From(owner) => from = NoLabel
    BY <1>1, FromType
  <2>4. CASE n \notin put
    BY <1>1, <2>1, <2>2, <2>4, PutsElsewhere
  <2>5. CASE n \in put
    <3>1. n \in put \cap Name
      BY <2>1, <2>5
    <3>2. /\ scope'[n] # NoSymbol /\ from \in LabelsAt(scope', n)
          /\ scope[n].label = from => scope'[n].label = from
          /\ scope[n].label # from => scope'[n].label = scope[n].label /\ LabelsAt(scope, n) \subseteq LabelsAt(scope', n)
      BY <1>1, <2>1, <3>1, PutsAt
    <3> QED BY <2>1, <2>2, <2>3, <3>2
  <2> QED BY <2>4, <2>5
<1> QED BY <1>3, <1>4, <1>5 DEF JarRead

LEMMA PutProtoKeeps ==
    ASSUME IndexInv, NEW from \in todo, PutProto(from)
    PROVE  IndexInv'
<1>1. /\ indexPhase = "protobuf" /\ indexPhase' = indexPhase /\ jars' = jars
      /\ scope' = PutAll(scope, from, Provided[kind][from]) /\ todo' = todo \ {from}
      /\ UNCHANGED <<predefined, index, seen, dropped, providers, lockFiles, repos, packages, byLabel, kind>>
  BY DEF PutProto, mergeVars
<1>2. scope \in Trie /\ from \in Label /\ kind \in DOMAIN Provided /\ from \in DOMAIN Provided[kind]
  BY DEF IndexInv, IndexType
<1>3. scope' \in Trie
  BY <1>1, <1>2, PutsTyped
<1>4. IndexType'
  BY <1>1, <1>3 DEF IndexInv, IndexType
<1>5. OneInput' /\ MergedOnce'
  BY <1>1, JarsFramed
<1>6. ASSUME "java" \in ToSet(providers), NEW j \in ToSet(index)
      PROVE  JarRead(j)'
  <2>1. JarRead(j)
    BY <1>1, <1>6 DEF IndexInv, ReadSoFar
  <2> QED BY <1>1, <1>2, <2>1, ProtoLeavesJars
<1>7. ReadSoFar'
  <2>. HIDE DEF JarRead, FirstOwns
  <2>1. indexPhase' \notin {"merge", "setup", "read index"} /\ ToSet(providers') = ToSet(providers) /\ ToSet(index') = ToSet(index)
    BY <1>1
  <2> QED BY Zenon, <1>6, <2>1 DEF ReadSoFar
<1>8. AllClaimed'
  <2>1. \A l : Claimed(l) => Claimed(l)'
    BY <1>1, ClaimStays
  <2>2. PICK l \in Label : l = from
    BY <1>2
  <2>3. Claimed(l)'
    BY <1>1, <1>2, <2>2 DEF Claimed, IndexInv, AllClaimed
  <2>4. ASSUME NEW n \in Name, NEW x \in LabelsAt(scope', n) \cup LabelsAt(packages', n)
        PROVE  Claimed(x)'
    <3>1. x \in LabelsAt(scope, n) \cup LabelsAt(packages, n) \/ x = l
      BY <1>1, <1>2, <2>2, PutsSpread
    <3>2. x \in LabelsAt(scope, n) \cup LabelsAt(packages, n) => Claimed(x)
      BY <1>1 DEF IndexInv, AllClaimed
    <3> QED BY <2>1, <2>3, <3>1, <3>2
  <2> QED BY <1>1, <2>4 DEF IndexInv, AllClaimed
<1> QED BY <1>4, <1>5, <1>7, <1>8 DEF IndexInv

LEMMA IndexStutters ==
    ASSUME IndexInv, UNCHANGED indexVars
    PROVE  IndexInv'
<1>1. /\ UNCHANGED <<indexPhase, jars, predefined, index, seen, dropped>>
      /\ UNCHANGED <<names, lockFiles, repos, providers, scope, packages, byLabel, kind, todo>>
  BY DEF indexVars, mergeVars, gazelleVars
<1>2. IndexType' /\ OneInput'
  BY <1>1 DEF IndexInv, IndexType, OneInput
<1>3. MergedOnce'
  <2>1. PredefinedClasses' = PredefinedClasses
    BY <1>1, PredefinedAre
  <2> QED BY <1>1, <2>1 DEF IndexInv, MergedOnce
<1>4. ReadSoFar'
  BY <1>1, ReadFramed DEF IndexInv, ReadSoFar
<1>5. AllClaimed'
  <2>1. \A l : Claimed(l) => Claimed(l)'
    BY <1>1, ClaimStays
  <2> QED BY <1>1, <2>1 DEF IndexInv, AllClaimed
<1> QED BY <1>2, <1>3, <1>4, <1>5 DEF IndexInv

\* The merged index and what gazelle has read of it, at every moment: mergeindex knows the
\* predefined classes of the jars it has listed and no class refers to one afterwards, the
\* classes of the jars that were read have the first jar with them as their owner, those of
\* predefined jars are known to come without a label, and every label is claimed.
THEOREM IndexInvariance == IndexSpec => []IndexInv
<1>1. IndexInv /\ [IndexNext]_indexVars => IndexInv'
  <2>. SUFFICES ASSUME IndexInv, [IndexNext]_indexVars
                PROVE  IndexInv'
    OBVIOUS
  <2>1. CASE MergeJar
    BY <2>1, MergeJarKeeps
  <2>2. CASE WriteIndex
    BY <2>2, WriteIndexKeeps
  <2>3. CASE SetupFails \/ ReadPanics
    BY <2>3, FatalKeeps
  <2>4. CASE SetupJava
    BY <2>4, SetupJavaKeeps
  <2>5. CASE SetupMaven
    BY <2>5, SetupMavenKeeps
  <2>6. CASE SetupOther
    BY <2>6, SetupOtherKeeps
  <2>7. CASE ReadJar
    BY <2>7, ReadJarKeeps
  <2>8. CASE IndexRead
    BY <2>8, IndexReadKeeps
  <2>9. CASE StartResolve
    BY <2>9, StartResolveKeeps
  <2>10. CASE WalkKind
    BY <2>10, WalkKindKeeps
  <2>11. ASSUME NEW from \in todo, PutProto(from)
         PROVE  IndexInv'
    BY <2>11, PutProtoKeeps
  <2>12. CASE UNCHANGED indexVars
    BY <2>12, IndexStutters
  <2> QED BY Zenon, <2>1, <2>2, <2>3, <2>4, <2>5, <2>6, <2>7, <2>8, <2>9, <2>10, <2>11, <2>12 DEF IndexNext
<1> QED BY IndexInvInit, <1>1, PTL DEF IndexSpec

\* What mergeindex drops never costs a dependency, and each label of a symbol is claimed by
\* a provider, for all jars, lock files and generated rules and in whatever order the
\* providers are set up.
THEOREM DroppedNeedsNoDep == IndexSpec => []PredefinedNeedsNoDep
<1>1. IndexInv => PredefinedNeedsNoDep
  <2>. SUFFICES ASSUME IndexInv
                PROVE  PredefinedNeedsNoDep
    OBVIOUS
  <2>1. indexPhase # "merge" => \A j \in ToSet(index) : \A c \in j.classes : c.symbols \cap PredefinedClasses = {}
    BY Zenon DEF IndexInv, MergedOnce
  <2>2. ASSUME indexPhase = "resolve" /\ "java" \in ToSet(providers)
        PROVE  /\ \A n \in dropped \ {Object} : NoLabel \in LabelsAt(scope, n)
               /\ \A j \in Merged : JavaCanProvide(ParsedLabel[j.label])
    <3>1. \A j \in ToSet(index) : JarRead(j)
      BY <2>2 DEF IndexInv, ReadSoFar
    <3>2. ASSUME NEW n \in dropped, n # Object
          PROVE  NoLabel \in LabelsAt(scope, n)
      <4>1. n \in ClassesOf(ToSet(index), predefined)
        BY Zenon, PredefinedAre DEF IndexInv, MergedOnce
      <4>2. PICK k \in ToSet(index) : k.label \in predefined /\ n \in ClassNames(k)
        BY Zenon, <3>2, <4>1, InClassesOf
      <4>3. From(k) = NoLabel
        BY Zenon, <4>2 DEF From
      <4> QED BY Zenon, <3>1, <4>2, <4>3 DEF JarRead
    <3>3. ASSUME NEW j \in Merged
          PROVE  JavaCanProvide(ParsedLabel[j.label])
      <4>1. j \in ToSet(index)
        BY Zenon, <3>3 DEF Merged
      <4> QED BY Zenon, <2>2, <3>1, <4>1 DEF JarRead, JavaCanProvide
    <3>. HIDE DEF Object
    <3> QED BY <3>2, <3>3
  <2>3. ASSUME indexPhase = "resolve", NEW n \in Name, NEW l \in LabelsAt(scope, n) \cup LabelsAt(packages, n)
        PROVE  \/ l = NoLabel
               \/ JavaCanProvide(l) \/ MavenCanProvide(l) \/ ProtobufCanProvide(l)
               \/ \E k \in DOMAIN Provided : l \in DOMAIN Provided[k] \ ProtoRules
    <3>1. Claimed(l)
      BY <2>3 DEF IndexInv, AllClaimed
    <3>. HIDE DEF NoLabel
    <3> QED BY <3>1 DEF Claimed, JavaCanProvide, MavenCanProvide, ProtobufCanProvide
  <2> QED BY Zenon, <2>1, <2>2, <2>3 DEF PredefinedNeedsNoDep
<1> QED BY IndexInvariance, <1>1, PTL
=============================================================================
