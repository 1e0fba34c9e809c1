----------------------------- MODULE WildcardFixer -----------------------------
(***************************************************************************)
(* The wildcard import fixer (pkg/wildcardimport/fixer.go, scanner.go and  *)
(* text_file.go).  It replaces the line `import P._` of a Scala file by an *)
(* import of the names that are used: it comments the line out, builds     *)
(* the rule, reads the names the compiler does not find from the output,   *)
(* writes an import of them and builds again, until the build succeeds.    *)
(* It edits the file in place: a write truncates it first, so one that     *)
(* fails or is killed leaves the beginning of the text.  Any call of the   *)
(* system may fail, the fixer may be killed anywhere, and it may be run    *)
(* again on what it left behind.                                           *)
(*                                                                         *)
(* The compiler is external: it may report any of the missing names first. *)
(* What the code takes from P when lines of it are lost is left open.      *)
(***************************************************************************)
EXTENDS Naturals, Sequences, SequencesExt

CONSTANTS
    Used,       \* names the file may take from the package P
    Scannable,  \* those the scanner recognizes: `not found: value|type` and a capital
    Texts,      \* files on disk before the first run: sequences of lines
    MaxRuns     \* bound: how often the fixer is started

VARIABLES
    disk,        \* the lines of the file
    used,        \* what its code takes from P
    sound,       \* does the rule build apart from that?
    fixPhase,    \* where Fix is
    textFile,    \* the TextFile: [found, ended, before, after]
    completion,  \* the names found so far
    runs,        \* the number of starts
    original,    \* the file before the first run
    cut          \* has a write of it been cut short? (history)

vars == <<disk, used, sound, fixPhase, textFile, completion, runs, original, cut>>

-----------------------------------------------------------------------------
\* Lines.
Line(kind, names) == [kind |-> kind, names |-> names]
Target == Line("import P._", {})
CommentedTarget == Line("// import P._", {})
ImportOf(names) == Line("import P.{}", names)   \* makeImportLine
TooLong == Line("too long", {})                 \* more than the 64 KB of a bufio.Scanner
Piece == Line("piece", {})                      \* what a write that was cut left of a line

\* Slip: only the line itself.
IsUncommented(line) == line = Target
\* A line that Fix takes for the one to replace, also when a run before commented it out.
IsTarget(line) == line \in {Target, CommentedTarget}

Imported(text) ==
    IF \E i \in DOMAIN text : text[i] = Target THEN Used
    ELSE UNION {text[i].names : i \in DOMAIN text}

Missing == used \ Imported(disk)

\* `bazel build` exits with 0.
Builds == sound /\ Missing = {}

\* NewTextFileFromReader: the lines around the first target line, any others dropped.  A
\* line that is too long ends the loop, and nobody asks for the error of the scanner.
NoTextFile == [found |-> FALSE, ended |-> FALSE, before |-> <<>>, after |-> <<>>]
ReadLine(file, line) ==
    IF file.ended \/ line = TooLong THEN [file EXCEPT !.ended = TRUE]
    ELSE IF IsTarget(line) THEN [file EXCEPT !.found = TRUE]
    ELSE IF file.found THEN [file EXCEPT !.after = Append(@, line)]
    ELSE [file EXCEPT !.before = Append(@, line)]
Split(text) == FoldLeft(ReadLine, NoTextFile, text)

\* TextFile.Write, where nothing goes wrong.
Content(line) == textFile.before \o <<line>> \o textFile.after
Write(line) == disk' = Content(line)

\* Without some of its lines the rest of the code may take anything from P, and may not build.
AnyCode == used' \in SUBSET Used /\ sound' \in BOOLEAN

-----------------------------------------------------------------------------
\* Before the first run the names of P come through the wildcard, and through it alone.
ImportKinds == {Target.kind, CommentedTarget.kind, "import P.{}"}
IsOther(line) == line.kind \notin ImportKinds \cup {Piece.kind}
ASSUME FixerAssumption ==
    /\ Scannable \subseteq Used /\ MaxRuns \in Nat \ {0}
    /\ \A text \in Texts :
        /\ text \in Seq(ToSet(text))
        /\ \A line \in ToSet(text) :
            line \in {Target, CommentedTarget} \/ (IsOther(line) /\ line.names = {})

Init ==
    /\ disk \in Texts /\ original = disk
    /\ used \in SUBSET Used
    /\ sound \in BOOLEAN
    /\ fixPhase = "idle" /\ textFile = NoTextFile /\ completion = {} /\ runs = 0
    /\ cut = FALSE

\* "failed" is the fixer giving up, "error" one of its calls of the system failing.
Stopped == {"idle", "fixed", "not found", "failed", "error", "killed"}

\* Fix is called by the program wildcardimportfixer or for a gazelle directive.
Fix ==
    /\ fixPhase \in Stopped /\ runs < MaxRuns
    /\ runs' = runs + 1 /\ fixPhase' = "open" /\ completion' = {}
    /\ UNCHANGED <<disk, used, sound, textFile, original, cut>>

\* A file without the line is left alone, and the run counts as a success.
NotFound ==
    /\ fixPhase = "open" /\ ~Split(disk).found
    /\ fixPhase' = "not found"
    /\ UNCHANGED <<disk, used, sound, textFile, completion, runs, original, cut>>

Open ==
    /\ fixPhase = "open" /\ Split(disk).found
    /\ textFile' = Split(disk) /\ fixPhase' = "restore"
    /\ UNCHANGED <<disk, used, sound, completion, runs, original, cut>>

\* What was not read is not written.
WriteOriginal ==
    /\ fixPhase = "restore" /\ Write(Target) /\ fixPhase' = "build original"
    /\ IF textFile.ended THEN AnyCode ELSE UNCHANGED <<used, sound>>
    /\ UNCHANGED <<textFile, completion, runs, original, cut>>

\* Iteration 0: the target must build the first time.
BuildOriginal ==
    /\ fixPhase = "build original"
    /\ fixPhase' = IF Builds THEN "comment" ELSE "failed"
    /\ UNCHANGED <<disk, used, sound, textFile, completion, runs, original, cut>>

WriteCommented ==
    /\ fixPhase = "comment" /\ Write(CommentedTarget) /\ fixPhase' = "build"
    /\ UNCHANGED <<used, sound, textFile, completion, runs, original, cut>>

BuildSucceeds ==
    /\ fixPhase = "build" /\ Builds /\ fixPhase' = "fixed"
    /\ UNCHANGED <<disk, used, sound, textFile, completion, runs, original, cut>>

\* Slip: any name will do.
AnyNames(reported) == reported

\* The compiler names some of the missing names; outputScanner.scan keeps those it
\* can read, and without a new one the run fails and leaves the file as it is.
NewNames(reported) == (reported \cap Scannable) \ completion
BuildFails ==
    /\ fixPhase = "build" /\ ~Builds
    /\ \E reported \in (SUBSET Missing) \ {{}} :
        /\ completion' = completion \cup (reported \cap Scannable)
        /\ fixPhase' = IF NewNames(reported) # {} THEN "complete" ELSE "failed"
    /\ UNCHANGED <<disk, used, sound, textFile, runs, original, cut>>

WriteCompletion ==
    /\ fixPhase = "complete" /\ Write(ImportOf(completion)) /\ fixPhase' = "build"
    /\ UNCHANGED <<used, sound, textFile, completion, runs, original, cut>>

\* A call fails before it changes anything, or cannot be made sense of: the file cannot be
\* opened, bazel cannot be run, its output has a line that is too long.
CallFails ==
    /\ fixPhase \notin Stopped /\ fixPhase' = "error"
    /\ UNCHANGED <<disk, used, sound, textFile, completion, runs, original, cut>>

\* os.WriteFile has truncated the file when it fails or is killed: some lines of the text
\* are there, and perhaps a piece of the next.
ToWrite ==
    CASE fixPhase = "restore" -> Target
      [] fixPhase = "comment" -> CommentedTarget
      [] fixPhase = "complete" -> ImportOf(completion)
WriteIsCut ==
    /\ fixPhase \in {"restore", "comment", "complete"}
    /\ \E n \in 0 .. Len(Content(ToWrite)) - 1, rest \in {<<>>, <<Piece>>} :
        disk' = SubSeq(Content(ToWrite), 1, n) \o rest
    /\ AnyCode /\ cut' = TRUE
    /\ fixPhase' \in {"error", "killed"}
    /\ UNCHANGED <<textFile, completion, runs, original>>

Kill ==
    /\ fixPhase \notin Stopped /\ fixPhase' = "killed"
    /\ UNCHANGED <<disk, used, sound, textFile, completion, runs, original, cut>>

Work ==
    \/ NotFound \/ Open \/ WriteOriginal \/ BuildOriginal
    \/ WriteCommented \/ BuildSucceeds \/ BuildFails \/ WriteCompletion

GoesWrong == CallFails \/ WriteIsCut \/ Kill

Next == Fix \/ Work \/ GoesWrong

FixerSpec == Init /\ [][Next]_vars

-----------------------------------------------------------------------------
TakeOther(lines, line) == IF IsOther(line) THEN Append(lines, line) ELSE lines
Others(text) == FoldLeft(TakeOther, <<>>, text)
Had == \E i \in DOMAIN original : original[i] \in {Target, CommentedTarget}

\* What the runs leave behind, although they edit the file in place ("rewrite the file
\* clean on the first iteration, in case the previous run edited it", fixer.go:79-80):
\* the other lines, unchanged and in their order, and all of them unless a write was cut
\* short or a line is too long to be read; after a success, a file that builds and
\* imports from P exactly the names that it uses; a cause where the fixer gives up, a
\* name that cannot be scanned or a rule that never built; until names are written, the
\* line in one of its forms, so that a run after a kill starts from the original again;
\* and no such line where a run found nothing to do.
FileSurvives ==
    LET lines == {disk[i] : i \in DOMAIN disk}
        unread == \E i \in DOMAIN original : original[i] = TooLong
    IN
    /\ IsPrefix(Others(disk), Others(original))
    /\ ~cut /\ ~unread => Others(disk) = Others(original)
    /\ fixPhase = "fixed" => Builds /\ Imported(disk) = used /\ completion = used
    /\ fixPhase = "failed" => ~sound \/ ~(used \subseteq Scannable)
    /\ Had /\ ~cut /\ (\A l \in lines : l.kind # "import P.{}") => {Target, CommentedTarget} \cap lines # {}
    /\ fixPhase = "not found" /\ TooLong \notin lines => {Target, CommentedTarget} \cap lines = {}

\* Every run stops: each build but the last finds a name that was not found before.
RunStops == fixPhase \notin Stopped ~> fixPhase \in Stopped
=============================================================================
