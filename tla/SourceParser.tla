----------------------------- MODULE SourceParser -----------------------------
(***************************************************************************)
(* How the source provider of one gazelle process uses its parser          *)
(* (pkg/provider/source_provider.go): the rules that the cache does not    *)
(* have are parsed one after the other; the parser is created for the      *)
(* first file that no pre-parsed file set provides, and stopped at the     *)
(* transition to the resolve phase.                                        *)
(***************************************************************************)
EXTENDS ScalametaParser

CONSTANT
    Rule        \* the rules gazelle asks the provider to parse

VARIABLES
    preParsed, \* the rules whose files are all in the -scala_fileset_file
    pc,       \* "generate", "start", "connect", "parse", "resolve" or "panicked"
    current,  \* the rules being parsed (one at a time)
    created,  \* is r.parser set?
    parsed,   \* rules whose symbols are loaded
    skipped,  \* rules for which ParseScalaRule returned an error
    faults    \* history: "start", "exit" and "file" faults that happened

vars == <<parserVars, preParsed, pc, current, created, parsed, skipped, faults>>

Init ==
    /\ ParserInit
    /\ preParsed \in SUBSET Rule
    /\ pc = "generate" /\ current = {} /\ created = FALSE
    /\ parsed = {} /\ skipped = {} /\ faults = {}

Pending == Rule \ (parsed \cup skipped)

NeedsParser(r) == r \notin preParsed

\* parseFiles finds all the files in the pre-parsed sets.
TakePreParsed(r) ==
    /\ pc = "generate"
    /\ r \in Pending /\ ~NeedsParser(r)
    /\ parsed' = parsed \cup {r}
    /\ UNCHANGED <<parserVars, preParsed, pc, current, created, skipped, faults>>

\* A slip: every rule starts a parser.
AlwaysStart == pc' = "start"

\* ensureParserStarted: only a parser that does not exist yet is started.  Parsing in a
\* gazelle run is allowed (SCALA_GAZELLE_ALLOW_RUNTIME_PARSING); else it panics here.
EnsureParserStarted == pc' = IF created THEN "parse" ELSE "start"

ParseRule(r) ==
    /\ pc = "generate"
    /\ r \in Pending /\ NeedsParser(r)
    /\ EnsureParserStarted
    /\ created' = TRUE
    /\ current' = {r}
    /\ UNCHANGED <<parserVars, preParsed, parsed, skipped, faults>>

StartParser ==
    /\ pc = "start"
    /\ StartProcess
    /\ pc' = "connect"
    /\ UNCHANGED <<preParsed, current, created, parsed, skipped, faults>>

ParserAvailable ==
    /\ pc = "connect"
    /\ Connected
    /\ pc' = "parse"
    /\ UNCHANGED <<preParsed, current, created, parsed, skipped, faults>>

\* A slip: the rule counts as parsed too.
SkipAsParsed ==
    /\ skipped' = skipped \cup current
    /\ parsed' = parsed \cup current
    /\ current' = {}
    /\ pc' = "generate"
    /\ UNCHANGED <<preParsed, created>>

\* The error of ParseScalaRule makes gazelle skip the rule.
SkipRule ==
    /\ skipped' = skipped \cup current
    /\ current' = {}
    /\ pc' = "generate"
    /\ UNCHANGED <<preParsed, created, parsed>>

StartFails ==
    /\ \/ pc = "start" /\ (StartFailsEarly \/ StartFailsToExec)
       \/ pc = "connect" /\ ConnectTimeout
    /\ faults' = faults \cup {"start"}
    /\ SkipRule

ParseSucceeds ==
    /\ pc = "parse"
    /\ ParseCanSucceed
    /\ parsed' = parsed \cup current
    /\ current' = {}
    /\ pc' = "generate"
    /\ UNCHANGED <<parserVars, preParsed, created, skipped, faults>>

ParseFails ==
    /\ pc = "parse"
    /\ ~ParsePanics
    /\ faults' = IF node = "serving" THEN faults \cup {"file"} ELSE faults
    /\ SkipRule
    /\ UNCHANGED parserVars

ParseOnNilClient ==
    /\ pc = "parse"
    /\ ParsePanics
    /\ pc' = "panicked"
    /\ UNCHANGED <<parserVars, preParsed, current, created, parsed, skipped, faults>>

\* A slip: only a parser that answers is stopped.
StopConnected == IF httpClient THEN Stopped ELSE UNCHANGED parserVars

\* OnResolve stops the parser if there is one.
StopCreated == IF created THEN Stopped ELSE UNCHANGED parserVars

OnResolve ==
    /\ pc = "generate"
    /\ Pending = {}
    /\ IF created /\ StopPanics
       THEN pc' = "panicked" /\ UNCHANGED parserVars
       ELSE pc' = "resolve" /\ StopCreated
    /\ UNCHANGED <<preParsed, current, created, parsed, skipped, faults>>

Node ==
    /\ \/ NodeServes /\ UNCHANGED faults
       \/ NodeExits /\ faults' = faults \cup {"exit"}
       \/ WaitReturns /\ UNCHANGED faults
    /\ UNCHANGED <<preParsed, pc, current, created, parsed, skipped>>

Next ==
    \/ \E r \in Rule : TakePreParsed(r) \/ ParseRule(r)
    \/ StartParser \/ ParserAvailable \/ StartFails
    \/ ParseSucceeds \/ ParseFails \/ ParseOnNilClient
    \/ OnResolve
    \/ Node

Spec == Init /\ [][Next]_vars
-----------------------------------------------------------------------------
TypeOK ==
    /\ ParserTypeOK
    /\ preParsed \subseteq Rule
    /\ pc \in {"generate", "start", "connect", "parse", "resolve", "panicked"}
    /\ current \subseteq Pending /\ \A r, s \in current : r = s
    /\ created \in BOOLEAN
    /\ parsed \subseteq Rule /\ skipped \subseteq Rule
    /\ faults \subseteq {"start", "exit", "file"}

\* The node process, some 200 MB of it, does not run in the resolve phase, nor at all
\* when there was nothing to parse (a warm start); and files are sent to a parser only
\* when it was started ("ensureParserStarted begins the parser process if it hasn't
\* already", source_provider.go:117), unless a start failed: the code does not try
\* again then.
RunsOnlyToParse ==
    /\ pc = "resolve" => ~NodeAlive /\ ~httpClient
    /\ cmd => (parsed \cup skipped \cup current) \ preParsed # {}
    /\ pc \in {"parse", "panicked"} => httpClient \/ "start" \in faults

\* A rule reaches the resolve phase with its symbols loaded, and is given up only
\* after a fault; none is parsed and skipped both.
SkippedForCause ==
    /\ parsed \cap skipped = {}
    /\ skipped # {} => faults # {}
    /\ skipped \cap preParsed = {}
    /\ pc = "resolve" => parsed \cup skipped = Rule

\* Whatever fails, a second process is never started over the first, which would be
\* left running when gazelle is done.
OneProcessOnly == [][node' = "booting" /\ node # "booting" => ~cmd]_vars
=============================================================================
