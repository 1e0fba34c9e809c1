----------------------------- MODULE ExtractWorker -----------------------------
(***************************************************************************)
(* The persistent worker of cmd/scalafileextract/scalafileextract.go: it   *)
(* reads one work request after the other, makes sure that its parser is   *)
(* running, tries up to MaxRetries times to parse the files of the         *)
(* request, and writes one response for each request.                      *)
(*                                                                         *)
(* The arguments of a request are well formed: Bazel makes them from the   *)
(* rule.  Writing to stdout does not fail.                                 *)
(***************************************************************************)
EXTENDS ScalametaParser, Naturals, Sequences

CONSTANTS
    MaxRetries,   \* maxRetries of batchWork
    MaxRequests   \* bound on the requests of a behaviour

ASSUME WorkerAssumption == MaxRetries \in Nat \ {0} /\ MaxRequests \in Nat

VARIABLES
    pc,         \* "read", "check", "start", "connect", "parse", "done", "panicked"
    attempt,    \* of batchWork
    requests,   \* requests read
    responses,  \* the exit codes written
    fault,      \* history: did a fault hit the current request?
    dying       \* history: when the current request was read, had the process exited
                \* without cmd.Wait having returned?

workVars == <<attempt, requests, responses, fault, dying>>
vars == <<parserVars, pc, workVars>>

Init ==
    /\ ParserInit
    /\ pc = "read" /\ attempt = 0 /\ requests = 0 /\ responses = <<>>
    /\ fault = FALSE /\ dying = FALSE

ReadRequest ==
    /\ pc = "read" /\ requests < MaxRequests
    /\ pc' = "check"
    /\ requests' = requests + 1
    /\ fault' = FALSE
    /\ dying' = (node = "exited" /\ ~reaped)
    /\ UNCHANGED <<parserVars, attempt, responses>>

\* EOF; the deferred Stop of run.
EndOfInput ==
    /\ pc = "read"
    /\ pc' = IF StopPanics THEN "panicked" ELSE "done"
    /\ IF StopPanics THEN UNCHANGED parserVars ELSE Stopped
    /\ UNCHANGED workVars

Respond(exitCode) ==
    /\ responses' = Append(responses, exitCode)
    /\ pc' = "read"
    /\ attempt' = 0
    /\ UNCHANGED <<requests, dying>>

FirstAttempt == pc' = "parse" /\ attempt' = 1

ParserIsRunning ==
    /\ pc = "check"
    /\ IsRunning
    /\ FirstAttempt
    /\ UNCHANGED <<parserVars, requests, responses, fault, dying>>

\* Stop, and on to Start.
ParserIsNotRunning ==
    /\ pc = "check"
    /\ ~IsRunning
    /\ Stop
    /\ pc' = "start"
    /\ UNCHANGED workVars

StartParser ==
    /\ pc = "start"
    /\ StartProcess
    /\ pc' = "connect"
    /\ UNCHANGED workVars

\* Plausible slips, here and below, used to show that the properties can fail.
StartErrorAndGoOn ==
    /\ responses' = Append(responses, 1)
    /\ FirstAttempt
    /\ fault' = TRUE
    /\ UNCHANGED <<requests, dying>>

\* What a failed Start does to the loop: the failure is the response.
StartError == Respond(1) /\ fault' = TRUE

StartParserFails ==
    \/ pc = "start" /\ (StartFailsEarly \/ StartFailsToExec) /\ StartError
    \/ pc = "connect" /\ ConnectTimeout /\ StartError

ParserAvailable ==
    /\ pc = "connect"
    /\ Connected
    /\ FirstAttempt
    /\ UNCHANGED <<requests, responses, fault, dying>>

ParseSucceeds ==
    /\ pc = "parse"
    /\ ParseCanSucceed
    /\ Respond(0)
    /\ UNCHANGED <<parserVars, fault>>

\* The files parse, but the output file cannot be written: no retry.
WriteOutputFails ==
    /\ pc = "parse"
    /\ ParseCanSucceed
    /\ Respond(1)
    /\ fault' = TRUE
    /\ UNCHANGED parserVars

RetryForever == UNCHANGED <<pc, attempt, requests, responses, dying>>

\* The retries go to the same process, dead or not.
Retry ==
    IF attempt < MaxRetries
    THEN attempt' = attempt + 1 /\ UNCHANGED <<pc, requests, responses, dying>>
    ELSE Respond(1)

\* No connection, a timeout, a file that does not parse, an answer that is no JSON.
ParseFails ==
    /\ pc = "parse"
    /\ ~ParsePanics
    /\ fault' = (fault \/ node = "serving")
    /\ Retry
    /\ UNCHANGED parserVars

\* The panic unwinds run, whose deferred call stops the parser if it can.
ParseOnNilClient ==
    /\ pc = "parse"
    /\ ParsePanics
    /\ pc' = "panicked"
    /\ IF StopPanics THEN UNCHANGED parserVars ELSE Stopped
    /\ UNCHANGED workVars

ProcessExits ==
    /\ NodeExits
    /\ fault' = (pc # "read" \/ fault)
    /\ UNCHANGED <<pc, attempt, requests, responses, dying>>

Worker ==
    \/ ParserIsRunning \/ ParserIsNotRunning
    \/ StartParser \/ StartParserFails \/ ParserAvailable
    \/ ParseSucceeds \/ WriteOutputFails \/ ParseFails \/ ParseOnNilClient

Node ==
    \/ NodeServes /\ UNCHANGED <<pc, workVars>>
    \/ WaitReturns /\ UNCHANGED <<pc, workVars>>

Next == Worker \/ ReadRequest \/ EndOfInput \/ Node \/ ProcessExits

Spec == Init /\ [][Next]_vars

\* The loop never blocks but on its input: every wait in it has a timeout.
FairSpec == Spec /\ WF_vars(Worker) /\ WF_vars(Node)
-----------------------------------------------------------------------------
TypeOK ==
    /\ ParserTypeOK
    /\ pc \in {"read", "check", "start", "connect", "parse", "done", "panicked"}
    /\ attempt \in 0 .. MaxRetries
    /\ requests \in 0 .. MaxRequests
    /\ responses \in Seq({0, 1})
    /\ fault \in BOOLEAN /\ dying \in BOOLEAN

\* Each request gets one response, written before the next request is read.
OneResponseEach ==
    /\ pc = "read" => Len(responses) = requests
    /\ pc \notin {"read", "done", "panicked"} => Len(responses) + 1 = requests

\* A request fails only for a fault that hits it, or because the process had exited
\* before without the waiting goroutine having seen it: a crash that was noticed and
\* the failure of an earlier request leave nothing behind.
FailureHasCause ==
    pc = "read" /\ requests > 0 /\ responses[requests] = 1 => fault \/ dying

\* No process outlives the worker.
NodeGoesWithWorker == pc \in {"done", "panicked"} => ~NodeAlive

\* Every request is answered, whatever the process does, unless the worker panics.
EveryRequestAnswered ==
    \A n \in 1 .. MaxRequests :
        (requests = n) ~> (Len(responses) >= n \/ pc = "panicked")

\* "parser initialization is deferred to inside the loop so startup failures are
\* reported per-request via WorkResponse rather than killing the worker process"
\* (scalafileextract.go:71).
WorkerSurvives == pc = "panicked" => Len(responses) = requests
=============================================================================
