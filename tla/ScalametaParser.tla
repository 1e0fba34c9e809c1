---------------------------- MODULE ScalametaParser ----------------------------
(***************************************************************************)
(* The client of the scalameta parser (pkg/parser/scalameta_parser.go): a  *)
(* node process that it starts and talks to over HTTP.  Modules that own a *)
(* parser (ExtractWorker, SourceParser) extend this one and compose its    *)
(* steps with theirs.                                                      *)
(*                                                                         *)
(* Start waits until the port of the process accepts a connection; only    *)
(* then the HTTP client exists.  A goroutine calls cmd.Wait, which sets    *)
(* ProcessState some time after the process exited.  Every Start of a      *)
(* stopped parser takes a port of its own; the files of the process are    *)
(* left out.                                                               *)
(***************************************************************************)
VARIABLES
    cmd,        \* is s.cmd set?
    node,       \* the process of s.cmd: "none", "booting", "serving" or "exited"
    reaped,     \* is cmd.ProcessState set?
    httpClient, \* is s.httpClient set?
    httpUrl     \* is s.httpUrl set?

parserVars == <<cmd, node, reaped, httpClient, httpUrl>>

ParserTypeOK ==
    /\ cmd \in BOOLEAN
    /\ node \in {"none", "booting", "serving", "exited"}
    /\ reaped \in BOOLEAN
    /\ httpClient \in BOOLEAN
    /\ httpUrl \in BOOLEAN

ParserInit ==
    cmd = FALSE /\ node = "none" /\ reaped = FALSE /\ httpClient = FALSE /\ httpUrl = FALSE

\* A slip: a parser that was never stopped counts as running.
CmdIsSet == cmd

\* A command that failed to start has no ProcessState either.
IsRunning == cmd /\ ~reaped

\* Kill of a command that never had a process is a nil dereference.
StopPanics == cmd /\ node = "none"

\* A slip: the process is not killed.
StoppedClientOnly ==
    httpClient' = FALSE /\ httpUrl' = FALSE /\ UNCHANGED <<cmd, node, reaped>>

Stopped ==
    cmd' = FALSE /\ node' = "none" /\ reaped' = FALSE /\ httpClient' = FALSE /\ httpUrl' = FALSE

Stop == ~StopPanics /\ Stopped

-----------------------------------------------------------------------------
\* Start, step by step.  The directory or the port cannot be had, or after them the
\* executable: by then the URL of the server is set.
StartFailsEarly == httpUrl' \in {httpUrl, TRUE} /\ UNCHANGED <<cmd, node, reaped, httpClient>>

\* s.cmd is assigned before the command is started.
StartFailsToExec ==
    cmd' = TRUE /\ node' = "none" /\ reaped' = FALSE /\ httpUrl' = TRUE /\ UNCHANGED httpClient

StartProcess ==
    cmd' = TRUE /\ node' = "booting" /\ reaped' = FALSE /\ httpUrl' = TRUE /\ UNCHANGED httpClient

Connected == node = "serving" /\ httpClient' = TRUE /\ UNCHANGED <<cmd, node, reaped, httpUrl>>

\* Ten seconds without a connection: the process is left as it is.
ConnectTimeout == UNCHANGED parserVars

\* Parse returns an error as long as there is no URL; then it calls s.httpClient.Do,
\* a nil dereference before Start succeeded.
ParsePanics == httpUrl /\ ~httpClient

ParseCanSucceed == httpClient /\ node = "serving"

-----------------------------------------------------------------------------
\* The process and the goroutine that waits for it.
NodeAlive == node \in {"booting", "serving"}

NodeServes ==
    node = "booting" /\ node' = "serving" /\ UNCHANGED <<cmd, reaped, httpClient, httpUrl>>

NodeExits ==
    /\ NodeAlive
    /\ node' = "exited"
    /\ UNCHANGED <<cmd, reaped, httpClient, httpUrl>>

WaitReturns ==
    node = "exited" /\ ~reaped /\ reaped' = TRUE /\ UNCHANGED <<cmd, node, httpClient, httpUrl>>
=============================================================================
