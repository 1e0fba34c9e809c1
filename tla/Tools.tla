--------------------------------- MODULE Tools ---------------------------------
(***************************************************************************)
(* The programs beside gazelle and what gazelle takes from them.  They     *)
(* share no state, so a behaviour is a run of one of them: the wildcard    *)
(* import fixer, autokeep, the indexes of jars and the providers that read *)
(* them, or the file sets of semanticdb and the provider above them.       *)
(***************************************************************************)
EXTENDS WildcardFixer, AutoKeep, IndexProviders

CONSTANTS MergeInputs, Rules, MaxGazelle

VARIABLES
    tool,
    setPhase, args, allArgs, fileSet, memo, parsedWith, nextRule, gazelles

Documents == INSTANCE Semanticdb

setVars == <<setPhase, args, allArgs, fileSet, memo, parsedWith, nextRule, gazelles>>
toolVars == <<tool, vars, keepVars, indexVars, setVars>>

-----------------------------------------------------------------------------
\* A tool that is not run.
NoFixer ==
    /\ disk = <<>> /\ used = {} /\ sound = TRUE /\ fixPhase = "idle" /\ textFile = NoTextFile
    /\ completion = {} /\ runs = 0 /\ original = <<>> /\ cut = FALSE
NoKeep ==
    /\ keepPhase = "off" /\ output = <<>> /\ diagnostics = <<>> /\ adds = <<>>
    /\ removes = <<>> /\ buildFiles = [r \in Rule |-> <<>>] /\ before = buildFiles
NoIndexes ==
    /\ indexPhase = "off" /\ jars = <<>> /\ index = <<>> /\ seen = {} /\ dropped = {}
    /\ predefined = {} /\ names = <<>> /\ lockFiles = <<>> /\ repos = {} /\ providers = <<>> /\ scope = <<>>
    /\ packages = <<>> /\ byLabel = {} /\ kind = 0 /\ todo = {}
NoDocuments ==
    /\ setPhase = "off" /\ args = <<>> /\ allArgs = <<>> /\ fileSet = <<>> /\ memo = <<>>
    /\ parsedWith = <<>> /\ nextRule = 0 /\ gazelles = 0

ToolsInit ==
    \/ tool = "fixer" /\ Init /\ NoKeep /\ NoIndexes /\ NoDocuments
    \/ tool = "autokeep" /\ NoFixer /\ KeepInit /\ NoIndexes /\ NoDocuments
    \/ tool = "indexes" /\ NoFixer /\ NoKeep /\ IndexInit /\ NoDocuments
    \/ tool = "semanticdb" /\ NoFixer /\ NoKeep /\ NoIndexes /\ Documents!Init

FixerWorks == tool = "fixer" /\ Work /\ UNCHANGED <<tool, keepVars, indexVars, setVars>>

ToolsNext ==
    \/ FixerWorks
    \/ tool = "fixer" /\ (Fix \/ GoesWrong) /\ UNCHANGED <<tool, keepVars, indexVars, setVars>>
    \/ tool = "autokeep" /\ KeepNext /\ UNCHANGED <<tool, vars, indexVars, setVars>>
    \/ tool = "indexes" /\ IndexNext /\ UNCHANGED <<tool, vars, keepVars, setVars>>
    \/ tool = "semanticdb" /\ Documents!Next /\ UNCHANGED <<tool, vars, keepVars, indexVars>>

\* Fix is a loop of one thread that waits for nothing but the build.
ToolsSpec == ToolsInit /\ [][ToolsNext]_toolVars /\ WF_toolVars(FixerWorks)

-----------------------------------------------------------------------------
\* The semantic imports of a rule can be traced to the documents of its files, see
\* Semanticdb.
SemanticImportsTraced == tool = "semanticdb" => Documents!SemanticImportsTraced
=============================================================================
