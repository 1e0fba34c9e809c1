----------------------------- MODULE ParserClients -----------------------------
(***************************************************************************)
(* The two programs that own a scalameta parser, each with the parser and  *)
(* its process to itself: the persistent worker of scalafileextract        *)
(* (ExtractWorker) and the source provider of gazelle (SourceParser).  A   *)
(* behaviour is a run of one of them.                                      *)
(***************************************************************************)
EXTENDS ExtractWorker

CONSTANT
    Rule        \* the rules gazelle asks the provider to parse

VARIABLES
    owner,      \* "worker" or "provider"
    phase,      \* pc of the provider
    preParsed, current, created, parsed, skipped, faults

Provider == INSTANCE SourceParser WITH pc <- phase

workerVars == <<pc, workVars>>
providerVars == <<phase, preParsed, current, created, parsed, skipped, faults>>
clientVars == <<parserVars, workerVars, providerVars, owner>>

ClientsInit == owner \in {"worker", "provider"} /\ Init /\ Provider!Init

ClientsNext ==
    \/ owner = "worker" /\ Next /\ UNCHANGED <<providerVars, owner>>
    \/ owner = "provider" /\ Provider!Next /\ UNCHANGED <<workerVars, owner>>

\* The loop of the worker never blocks but on its input: every wait in it has a timeout.
ClientsSpec ==
    /\ ClientsInit /\ [][ClientsNext]_clientVars
    /\ WF_clientVars(owner = "worker" /\ Worker /\ UNCHANGED <<providerVars, owner>>)
    /\ WF_clientVars(owner = "worker" /\ Node /\ UNCHANGED <<providerVars, owner>>)
-----------------------------------------------------------------------------
\* The provider starts the process to parse files, and stops it before rules are
\* resolved, see SourceParser.
RunsOnlyToParse == owner = "provider" => Provider!RunsOnlyToParse

\* The provider gives up a rule only after a fault, and every rule is parsed or given
\* up in the end, see SourceParser.
SkippedForCause == Provider!SkippedForCause

\* A second process is never started over the first, by either of them: it would be
\* left running, since only the last one is ever killed.
OneProcessOnly == Provider!OneProcessOnly
=============================================================================
