------------------------- MODULE ParserClients_proofs -------------------------
(***************************************************************************)
(* Proofs about both owners of a parser: the invariants of the worker and  *)
(* of the source provider hold of whichever of them runs, and the other    *)
(* one does not move.                                                      *)
(***************************************************************************)
EXTENDS ParserClients, TLAPS

(***************************************************************************)
(* Proofs about the scalafileextract worker, for any number of retries and *)
(* requests and faults at every step.                                      *)
(***************************************************************************)
\* What the fields of the parser say about its process.
ParserShape ==
    /\ cmd => httpUrl
    /\ node # "none" => cmd
    /\ httpClient => node \in {"serving", "exited"}

\* Start is only called when the parser is stopped, files are only sent after it.
StartShape ==
    /\ pc = "start" => ~cmd
    /\ pc \in {"start", "connect"} => ~httpClient
    /\ pc \in {"connect", "parse"} => cmd

\* A process that is dead when it should parse died during the request, or before it
\* without the waiting goroutine having noticed.
DeadForCause ==
    /\ pc = "check" /\ node = "exited" /\ ~reaped => fault \/ dying
    /\ pc = "parse" /\ node = "exited" => fault \/ dying

\* The inductive invariant.
IInv ==
    /\ TypeOK
    /\ ParserShape
    /\ StartShape
    /\ DeadForCause
    /\ OneResponseEach
    /\ FailureHasCause
    /\ NodeGoesWithWorker
-----------------------------------------------------------------------------
\* The loop starts with a parser that was never started.
LEMMA InitInv == Init => IInv
<1>. SUFFICES ASSUME Init
              PROVE  IInv
  OBVIOUS
<1>1. ParserTypeOK /\ fault \in BOOLEAN /\ dying \in BOOLEAN
  BY DEF Init, ParserInit, ParserTypeOK
<1>2. TypeOK
  BY <1>1, WorkerAssumption DEF Init, TypeOK
<1> QED BY <1>2 DEF Init, ParserInit, IInv, ParserShape, StartShape, DeadForCause, OneResponseEach,
                    FailureHasCause, NodeGoesWithWorker, NodeAlive

\* A response of the running request, for which there is a cause if it is a failure.
LEMMA RespondInv ==
    ASSUME IInv, NEW code \in {0, 1}, Respond(code), pc \in {"start", "connect", "parse"},
           ParserTypeOK', ParserShape', fault' \in BOOLEAN, code = 1 => fault' \/ dying
    PROVE  IInv'
<1>1. /\ responses' = Append(responses, code) /\ pc' = "read" /\ attempt' = 0
      /\ requests' = requests /\ dying' = dying
  BY DEF Respond
<1>2. /\ responses \in Seq({0, 1}) /\ Len(responses) + 1 = requests /\ requests \in 0 .. MaxRequests
      /\ dying \in BOOLEAN
  BY DEF IInv, TypeOK, OneResponseEach
<1>3. responses' \in Seq({0, 1}) /\ Len(responses') = requests /\ responses'[requests] = code
  BY <1>1, <1>2
<1>4. TypeOK'
  BY <1>1, <1>2, <1>3, WorkerAssumption DEF TypeOK
<1>5. OneResponseEach' /\ FailureHasCause'
  BY <1>1, <1>3 DEF OneResponseEach, FailureHasCause
<1> QED BY <1>1, <1>4, <1>5 DEF IInv, StartShape, DeadForCause, NodeGoesWithWorker

\* No step of the loop, of the process or of its input leads out of the invariant.
LEMMA StepInv == IInv /\ [Next]_vars => IInv'
<1>. SUFFICES ASSUME IInv, [Next]_vars
              PROVE  IInv'
  OBVIOUS
<1>. USE DEF parserVars, workVars
<1>t. TypeOK /\ ParserTypeOK
  BY DEF IInv, TypeOK
<1>i. ParserShape /\ StartShape /\ DeadForCause /\ OneResponseEach /\ FailureHasCause /\ NodeGoesWithWorker
  BY DEF IInv
<1>. USE DEF ParserShape, StartShape, DeadForCause, OneResponseEach, NodeGoesWithWorker, NodeAlive
<1>1. CASE ReadRequest
  <2>1. TypeOK'
    <3>1. fault' \in BOOLEAN /\ dying' \in BOOLEAN
      BY <1>1 DEF ReadRequest
    <3> QED BY <1>t, <1>1, <3>1, WorkerAssumption DEF ReadRequest, TypeOK, ParserTypeOK
  <2>2. FailureHasCause'
    BY <1>1 DEF ReadRequest, FailureHasCause
  <2> QED BY <1>t, <1>i, <1>1, <2>1, <2>2 DEF ReadRequest, IInv, TypeOK
<1>2. CASE EndOfInput
  <2>1. TypeOK'
    <3>1. Stopped => ParserTypeOK'
      BY DEF Stopped, ParserTypeOK
    <3>2. UNCHANGED parserVars => ParserTypeOK'
      BY <1>t DEF ParserTypeOK
    <3>3. pc' \in {"panicked", "done"}
      BY <1>2 DEF EndOfInput
    <3>4. ParserTypeOK' /\ UNCHANGED workVars
      BY <1>2, <3>1, <3>2 DEF EndOfInput
    <3> QED BY <1>t, <3>3, <3>4 DEF TypeOK
  <2> QED BY <1>t, <1>i, <1>2, <2>1 DEF EndOfInput, Stopped, StopPanics, IInv, FailureHasCause
<1>3. CASE ParserIsRunning
  <2>1. TypeOK'
    BY <1>t, <1>3, WorkerAssumption DEF ParserIsRunning, FirstAttempt, TypeOK, ParserTypeOK
  <2> QED BY <1>t, <1>i, <1>3, <2>1 DEF ParserIsRunning, IsRunning, FirstAttempt, IInv,
                                        FailureHasCause
<1>4. CASE ParserIsNotRunning
  <2>1. TypeOK'
    BY <1>t, <1>4 DEF ParserIsNotRunning, Stop, Stopped, TypeOK, ParserTypeOK
  <2> QED BY <1>t, <1>i, <1>4, <2>1 DEF ParserIsNotRunning, Stop, Stopped, IInv, FailureHasCause
<1>5. CASE StartParser
  <2>1. TypeOK'
    BY <1>t, <1>5 DEF StartParser, StartProcess, TypeOK, ParserTypeOK
  <2> QED BY <1>t, <1>i, <1>5, <2>1 DEF StartParser, StartProcess, IInv, FailureHasCause
<1>6. CASE StartParserFails
  <2>1. fault' = TRUE /\ Respond(1) /\ pc \in {"start", "connect"}
    BY <1>6 DEF StartParserFails, StartError
  <2>2. ParserTypeOK' /\ ParserShape'
    <3>1. CASE pc = "start" /\ StartFailsEarly
      <4>1. httpUrl' \in BOOLEAN
        BY <1>t, <3>1 DEF StartFailsEarly, ParserTypeOK
      <4> QED BY <1>t, <1>i, <3>1, <4>1 DEF StartFailsEarly, ParserTypeOK
    <3>2. CASE pc = "start" /\ StartFailsToExec
      <4>1. cmd' \in BOOLEAN /\ reaped' \in BOOLEAN /\ httpUrl' \in BOOLEAN
        BY <3>2 DEF StartFailsToExec
      <4> QED BY <1>t, <1>i, <3>2, <4>1 DEF StartFailsToExec, ParserTypeOK
    <3>3. CASE ConnectTimeout
      BY <1>t, <1>i, <3>3 DEF ConnectTimeout, ParserTypeOK
    <3> QED BY <1>6, <3>1, <3>2, <3>3 DEF StartParserFails
  <2> QED BY <2>1, <2>2, RespondInv
<1>7. CASE ParserAvailable
  <2>1. TypeOK'
    BY <1>t, <1>7, WorkerAssumption DEF ParserAvailable, Connected, FirstAttempt, TypeOK,
                                        ParserTypeOK
  <2> QED BY <1>t, <1>i, <1>7, <2>1 DEF ParserAvailable, Connected, FirstAttempt, IInv,
                                        FailureHasCause
<1>8. CASE ParseSucceeds
  <2>1. ParserTypeOK' /\ ParserShape' /\ fault' \in BOOLEAN
    BY <1>t, <1>i, <1>8 DEF ParseSucceeds, ParserTypeOK, TypeOK
  <2> QED BY <1>8, <2>1, RespondInv DEF ParseSucceeds
<1>9. CASE WriteOutputFails
  <2>1. ParserTypeOK' /\ ParserShape' /\ fault'
    BY <1>t, <1>i, <1>9 DEF WriteOutputFails, ParserTypeOK
  <2> QED BY <1>9, <2>1, RespondInv DEF WriteOutputFails
<1>10. CASE ParseFails
  <2>1. pc = "parse" /\ ~ParsePanics /\ Retry /\ UNCHANGED parserVars /\ fault' = (fault \/ node = "serving")
    BY <1>10 DEF ParseFails
  <2>2. fault' \in BOOLEAN
    BY <2>1
  <2>3. node \in {"serving", "exited"}
    BY <1>t, <1>i, <2>1 DEF ParsePanics, ParserTypeOK
  <2>4. fault' \/ dying
    BY <1>i, <2>1, <2>3
  <2>5. ParserTypeOK' /\ ParserShape'
    BY <1>t, <1>i, <2>1 DEF ParserTypeOK
  <2>6. CASE Respond(1)
    BY <2>1, <2>2, <2>4, <2>5, <2>6, RespondInv
  <2>7. CASE attempt < MaxRetries /\ attempt' = attempt + 1 /\ UNCHANGED <<pc, requests,
                                     responses, dying>>
    <3>1. TypeOK'
      BY <1>t, <2>2, <2>5, <2>7, WorkerAssumption DEF TypeOK
    <3> QED BY <1>t, <1>i, <2>1, <2>4, <2>7, <3>1 DEF IInv, FailureHasCause
  <2> QED BY <2>1, <2>6, <2>7 DEF Retry
<1>11. CASE ParseOnNilClient
  <2>1. TypeOK'
    BY <1>t, <1>11 DEF ParseOnNilClient, Stopped, TypeOK, ParserTypeOK
  <2> QED BY <1>t, <1>i, <1>11, <2>1 DEF ParseOnNilClient, Stopped, StopPanics, IInv,
                                         FailureHasCause
<1>12. CASE Node
  <2>1. TypeOK'
    BY <1>t, <1>12 DEF Node, NodeServes, WaitReturns, TypeOK, ParserTypeOK
  <2> QED BY <1>t, <1>i, <1>12, <2>1 DEF Node, NodeServes, WaitReturns, IInv, FailureHasCause
<1>13. CASE ProcessExits
  <2>1. fault' = (pc # "read" \/ fault) /\ NodeExits /\ UNCHANGED <<pc, attempt, requests,
                                           responses, dying>>
    BY <1>13 DEF ProcessExits
  <2>2. TypeOK'
    <3>1. fault' \in BOOLEAN
      BY <2>1
    <3> QED BY <1>t, <2>1, <3>1 DEF NodeExits, TypeOK, ParserTypeOK
  <2> QED BY <1>t, <1>i, <2>1, <2>2 DEF NodeExits, IInv, FailureHasCause
<1>14. CASE UNCHANGED vars
  <2>1. TypeOK'
    BY <1>t, <1>14 DEF vars, TypeOK, ParserTypeOK
  <2> QED BY <1>t, <1>i, <1>14, <2>1 DEF vars, IInv, FailureHasCause
<1> QED BY <1>1, <1>2, <1>3, <1>4, <1>5, <1>6, <1>7, <1>8, <1>9, <1>10, <1>11, <1>12, <1>13, <1>14
        DEF Next, Worker
-----------------------------------------------------------------------------
\* The invariant holds whatever the process does, fair or not.
THEOREM Invariance == Spec => []IInv
BY InitInv, StepInv, PTL DEF Spec

\* The attempts stay within the retries.
THEOREM TypeCorrect == Spec => []TypeOK
<1>1. IInv => TypeOK
  BY DEF IInv
<1> QED BY <1>1, Invariance, PTL

\* A request has one response before the next request is read.
THEOREM OneEach == Spec => []OneResponseEach
<1>1. IInv => OneResponseEach
  BY DEF IInv
<1> QED BY <1>1, Invariance, PTL

\* A failure answers a fault of its own request, or a death that was not noticed.
THEOREM FailuresCaused == Spec => []FailureHasCause
<1>1. IInv => FailureHasCause
  BY DEF IInv
<1> QED BY <1>1, Invariance, PTL

\* No process is left behind when the worker is done or panics.
THEOREM NoProcessLeft == Spec => []NodeGoesWithWorker
<1>1. IInv => NodeGoesWithWorker
  BY DEF IInv
<1> QED BY <1>1, Invariance, PTL
-----------------------------------------------------------------------------
(***************************************************************************)
(* Proofs about the parser of the source provider, for any set of rules,   *)
(* pre-parsed or not, with faults at every step.                           *)
(***************************************************************************)
\* The fields of the parser are set for a parser that exists, and a process that
\* exited did so by a fault.
ProviderParserShape ==
    /\ cmd \/ httpClient => created
    /\ node # "none" => cmd
    /\ httpClient => node \in {"serving", "exited"}
    /\ node = "exited" => "exit" \in faults

\* The parser is started once; if it has no client after that, the start failed.
ProviderStartShape ==
    /\ phase \in {"start", "connect", "parse", "panicked"} => created
    /\ phase = "start" => ~cmd
    /\ created /\ phase \in {"generate", "parse", "panicked"} => httpClient \/ "start" \in faults
    /\ phase = "resolve" => node = "none" /\ ~httpClient

\* A parser exists because of a rule that is not pre-parsed; no other is at hand.
RuleShape ==
    /\ phase \in {"generate", "resolve"} => current = {}
    /\ current \cap preParsed = {}
    /\ created => (parsed \cup skipped \cup current) \ preParsed # {}

\* The inductive invariant.
ProviderInv ==
    /\ Provider!TypeOK
    /\ ProviderParserShape
    /\ ProviderStartShape
    /\ RuleShape
    /\ Provider!SkippedForCause
-----------------------------------------------------------------------------
\* The provider starts without a parser.
LEMMA ProviderInit == Provider!Init => ProviderInv
<1>. SUFFICES ASSUME Provider!Init
              PROVE  ProviderInv
  OBVIOUS
<1>1. Provider!ParserTypeOK /\ created \in BOOLEAN
  BY DEF Provider!Init, Provider!ParserInit, Provider!ParserTypeOK
<1>2. Provider!TypeOK
  BY <1>1 DEF Provider!Init, Provider!TypeOK
<1> QED BY <1>2 DEF Provider!Init, Provider!ParserInit, ProviderInv, ProviderParserShape,
                    ProviderStartShape, RuleShape, Provider!SkippedForCause

\* A rule that is given up was at hand, and something failed.
LEMMA SkipInv ==
    ASSUME ProviderInv, Provider!SkipRule, phase \in {"start", "connect", "parse"},
           current \subseteq Provider!Pending,
           Provider!ParserTypeOK', faults' \subseteq {"start", "exit", "file"}, faults' # {},
           ProviderParserShape', httpClient' \/ "start" \in faults'
    PROVE  ProviderInv'
<1>1. /\ skipped' = skipped \cup current /\ current' = {} /\ phase' = "generate"
      /\ preParsed' = preParsed /\ created' = created /\ parsed' = parsed
  BY DEF Provider!SkipRule
<1>2. /\ Provider!TypeOK /\ RuleShape /\ Provider!SkippedForCause
  BY DEF ProviderInv
<1>3. Provider!TypeOK'
  BY <1>1, <1>2 DEF Provider!TypeOK, Provider!Pending
<1>4. RuleShape'
  BY <1>1, <1>2 DEF RuleShape
<1>5. Provider!SkippedForCause'
  BY <1>1, <1>2 DEF Provider!SkippedForCause, RuleShape, Provider!Pending
<1>6. ProviderStartShape'
  BY <1>1 DEF ProviderStartShape
<1> QED BY <1>3, <1>4, <1>5, <1>6 DEF ProviderInv

\* The invariant, step by step.
LEMMA ProviderStep == ProviderInv /\ [Provider!Next]_(Provider!vars) => ProviderInv'
<1>. SUFFICES ASSUME ProviderInv, [Provider!Next]_(Provider!vars)
              PROVE  ProviderInv'
  OBVIOUS
<1>. USE DEF Provider!parserVars
<1>t. Provider!TypeOK /\ Provider!ParserTypeOK
  BY DEF ProviderInv, Provider!TypeOK
<1>i. ProviderParserShape /\ ProviderStartShape /\ RuleShape /\ Provider!SkippedForCause
  BY DEF ProviderInv
<1>1. ASSUME NEW r \in Rule, Provider!TakePreParsed(r)
      PROVE  ProviderInv'
  <2>1. /\ r \in Provider!Pending /\ r \in preParsed /\ phase = "generate" /\ current = {} /\ parsed' = parsed \cup {r}
        /\ UNCHANGED <<Provider!parserVars, preParsed, phase, current, created, skipped, faults>>
    BY <1>i, <1>1 DEF Provider!TakePreParsed, Provider!NeedsParser, RuleShape
  <2>2. Provider!TypeOK'
    BY <1>t, <2>1 DEF Provider!TypeOK, Provider!ParserTypeOK, Provider!Pending
  <2>3. ProviderParserShape' /\ ProviderStartShape'
    BY <1>i, <2>1 DEF ProviderParserShape, ProviderStartShape
  <2>4. RuleShape' /\ Provider!SkippedForCause'
    BY <1>i, <2>1 DEF RuleShape, Provider!SkippedForCause, Provider!Pending
  <2> QED BY <2>2, <2>3, <2>4 DEF ProviderInv
<1>2. ASSUME NEW r \in Rule, Provider!ParseRule(r)
      PROVE  ProviderInv'
  <2>1. /\ r \in Provider!Pending /\ r \notin preParsed /\ phase = "generate" /\ current' = {r} /\ created' = TRUE
        /\ phase' = (IF created THEN "parse" ELSE "start")
        /\ UNCHANGED <<Provider!parserVars, preParsed, parsed, skipped, faults>>
    BY <1>2 DEF Provider!ParseRule, Provider!NeedsParser, Provider!EnsureParserStarted
  <2>2. Provider!TypeOK'
    BY <1>t, <2>1 DEF Provider!TypeOK, Provider!ParserTypeOK, Provider!Pending
  <2>3. ProviderParserShape' /\ ProviderStartShape'
    BY <1>t, <1>i, <2>1 DEF ProviderParserShape, ProviderStartShape, Provider!TypeOK
  <2>4. RuleShape' /\ Provider!SkippedForCause'
    BY <1>i, <2>1 DEF RuleShape, Provider!SkippedForCause
  <2> QED BY <2>2, <2>3, <2>4 DEF ProviderInv
<1>3. CASE Provider!StartParser
  <2>1. /\ phase = "start" /\ phase' = "connect" /\ cmd' = TRUE /\ node' = "booting" /\ reaped' = FALSE
        /\ httpUrl' = TRUE
        /\ UNCHANGED <<httpClient, preParsed, current, created, parsed, skipped, faults>>
    BY <1>3 DEF Provider!StartParser, Provider!StartProcess
  <2>2. ~httpClient
    BY <1>i, <2>1 DEF ProviderParserShape, ProviderStartShape
  <2>3. Provider!TypeOK'
    BY <1>t, <2>1 DEF Provider!TypeOK, Provider!ParserTypeOK, Provider!Pending
  <2>4. ProviderParserShape' /\ ProviderStartShape'
    BY <1>i, <2>1, <2>2 DEF ProviderParserShape, ProviderStartShape
  <2>5. RuleShape' /\ Provider!SkippedForCause'
    BY <1>i, <2>1 DEF RuleShape, Provider!SkippedForCause
  <2> QED BY <2>3, <2>4, <2>5 DEF ProviderInv
<1>4. CASE Provider!ParserAvailable
  <2>1. /\ phase = "connect" /\ phase' = "parse" /\ node = "serving" /\ httpClient' = TRUE
        /\ UNCHANGED <<cmd, node, reaped, httpUrl, preParsed, current, created, parsed, skipped,
           faults>>
    BY <1>4 DEF Provider!ParserAvailable, Provider!Connected
  <2>2. Provider!TypeOK'
    BY <1>t, <2>1 DEF Provider!TypeOK, Provider!ParserTypeOK, Provider!Pending
  <2>3. ProviderParserShape' /\ ProviderStartShape'
    BY <1>i, <2>1 DEF ProviderParserShape, ProviderStartShape
  <2>4. RuleShape' /\ Provider!SkippedForCause'
    BY <1>i, <2>1 DEF RuleShape, Provider!SkippedForCause
  <2> QED BY <2>2, <2>3, <2>4 DEF ProviderInv
<1>5. CASE Provider!StartFails
  <2>1. Provider!SkipRule /\ phase \in {"start", "connect"} /\ faults' = faults \cup {"start"}
    BY <1>5 DEF Provider!StartFails
  <2>2. Provider!ParserTypeOK' /\ UNCHANGED httpClient /\ node' \in {node, "none"}
        /\ (node' # "none" => node' = node /\ cmd' = cmd) /\ (cmd' => cmd \/ phase = "start")
    <3>1. CASE phase = "start" /\ Provider!StartFailsEarly
      <4>1. httpUrl' \in BOOLEAN
        BY <1>t, <3>1 DEF Provider!StartFailsEarly, Provider!ParserTypeOK
      <4> QED BY <1>t, <3>1, <4>1 DEF Provider!StartFailsEarly, Provider!ParserTypeOK
    <3>2. CASE phase = "start" /\ Provider!StartFailsToExec
      <4>1. cmd' \in BOOLEAN /\ reaped' \in BOOLEAN /\ httpUrl' \in BOOLEAN
        BY <3>2 DEF Provider!StartFailsToExec
      <4> QED BY <1>t, <3>2, <4>1 DEF Provider!StartFailsToExec, Provider!ParserTypeOK
    <3>3. CASE Provider!ConnectTimeout
      BY <1>t, <3>3 DEF Provider!ConnectTimeout, Provider!ParserTypeOK
    <3> QED BY <1>5, <3>1, <3>2, <3>3 DEF Provider!StartFails
  <2>3. created' = created
    BY <2>1 DEF Provider!SkipRule
  <2>4. ProviderParserShape'
    <3>1. cmd' \/ httpClient' => created'
      BY <1>i, <2>1, <2>2, <2>3 DEF ProviderParserShape, ProviderStartShape
    <3>2. phase = "start" => node = "none" /\ ~httpClient
      BY <1>i DEF ProviderParserShape, ProviderStartShape
    <3>3. phase = "connect" => UNCHANGED node
      BY <1>5 DEF Provider!StartFails, Provider!ConnectTimeout
    <3> QED BY <1>i, <2>1, <2>2, <3>1, <3>2, <3>3 DEF ProviderParserShape
  <2>5. current \subseteq Provider!Pending /\ faults' \subseteq {"start", "exit",
                                              "file"} /\ faults' # {}
    BY <1>t, <2>1 DEF Provider!TypeOK
  <2> QED BY <2>1, <2>2, <2>4, <2>5, SkipInv
<1>6. CASE Provider!ParseSucceeds
  <2>1. /\ phase = "parse" /\ phase' = "generate" /\ httpClient /\ parsed' = parsed \cup current /\ current' = {}
        /\ UNCHANGED <<Provider!parserVars, preParsed, created, skipped, faults>>
    BY <1>6 DEF Provider!ParseSucceeds, Provider!ParseCanSucceed
  <2>2. Provider!TypeOK'
    BY <1>t, <2>1 DEF Provider!TypeOK, Provider!ParserTypeOK, Provider!Pending
  <2>3. ProviderParserShape' /\ ProviderStartShape'
    BY <1>i, <2>1 DEF ProviderParserShape, ProviderStartShape
  <2>4. RuleShape'
    BY <1>i, <2>1 DEF RuleShape
  <2>5. Provider!SkippedForCause'
    BY <1>t, <1>i, <2>1 DEF Provider!SkippedForCause, Provider!TypeOK, Provider!Pending
  <2> QED BY <2>2, <2>3, <2>4, <2>5 DEF ProviderInv
<1>7. CASE Provider!ParseFails
  <2>1. /\ phase = "parse" /\ Provider!SkipRule /\ UNCHANGED Provider!parserVars
        /\ faults' = IF node = "serving" THEN faults \cup {"file"} ELSE faults
    BY <1>7 DEF Provider!ParseFails
  <2>2. httpClient \/ "start" \in faults
    BY <1>i, <2>1 DEF ProviderStartShape
  <2>3. faults' # {} /\ faults \subseteq faults'
    BY <1>i, <2>1, <2>2 DEF ProviderParserShape
  <2>4. Provider!ParserTypeOK' /\ ProviderParserShape'
    <3>1. created' = created
      BY <2>1 DEF Provider!SkipRule
    <3> QED BY <1>t, <1>i, <2>1, <2>3, <3>1 DEF Provider!ParserTypeOK, ProviderParserShape
  <2>5. current \subseteq Provider!Pending /\ faults' \subseteq {"start", "exit", "file"}
    BY <1>t, <2>1 DEF Provider!TypeOK
  <2> QED BY <2>1, <2>2, <2>3, <2>4, <2>5, SkipInv
<1>8. CASE Provider!ParseOnNilClient
  <2>1. /\ phase = "parse" /\ phase' = "panicked"
        /\ UNCHANGED <<Provider!parserVars, preParsed, current, created, parsed, skipped, faults>>
    BY <1>8 DEF Provider!ParseOnNilClient
  <2>2. Provider!TypeOK'
    BY <1>t, <2>1 DEF Provider!TypeOK, Provider!ParserTypeOK, Provider!Pending
  <2> QED BY <1>i, <2>1, <2>2 DEF ProviderInv, ProviderParserShape, ProviderStartShape, RuleShape,
                                  Provider!SkippedForCause
<1>9. CASE Provider!OnResolve
  <2>1. /\ phase = "generate" /\ Provider!Pending = {}
        /\ UNCHANGED <<preParsed, current, created, parsed, skipped, faults>>
    BY <1>9 DEF Provider!OnResolve
  <2>2. parsed \cup skipped = Rule
    BY <1>t, <2>1 DEF Provider!Pending, Provider!TypeOK
  <2>3. RuleShape' /\ Provider!SkippedForCause'
    <3>1. phase' \in {"resolve", "panicked"}
      BY <1>9 DEF Provider!OnResolve
    <3> QED BY <1>i, <2>1, <2>2, <3>1 DEF RuleShape, Provider!SkippedForCause
  <2>4. CASE created /\ Provider!StopPanics
    <3>1. phase' = "panicked" /\ UNCHANGED Provider!parserVars
      BY <1>9, <2>4 DEF Provider!OnResolve
    <3>2. Provider!TypeOK'
      BY <1>t, <2>1, <3>1 DEF Provider!TypeOK, Provider!ParserTypeOK, Provider!Pending
    <3> QED BY <1>i, <2>1, <2>3, <2>4, <3>1, <3>2 DEF ProviderInv, ProviderParserShape,
                                                      ProviderStartShape
  <2>5. CASE created /\ ~Provider!StopPanics
    <3>1. phase' = "resolve" /\ Provider!Stopped
      BY <1>9, <2>5 DEF Provider!OnResolve, Provider!StopCreated
    <3>2. Provider!TypeOK'
      BY <1>t, <2>1, <3>1 DEF Provider!TypeOK, Provider!ParserTypeOK, Provider!Pending,
                              Provider!Stopped
    <3> QED BY <1>i, <2>1, <2>3, <3>1, <3>2 DEF ProviderInv, ProviderParserShape,
                                                ProviderStartShape, Provider!Stopped
  <2>6. CASE ~created
    <3>1. phase' = "resolve" /\ UNCHANGED Provider!parserVars
      BY <1>9, <2>6 DEF Provider!OnResolve, Provider!StopCreated
    <3>2. node = "none" /\ ~httpClient
      BY <1>i, <2>6 DEF ProviderParserShape
    <3>3. Provider!TypeOK'
      BY <1>t, <2>1, <3>1 DEF Provider!TypeOK, Provider!ParserTypeOK, Provider!Pending
    <3> QED BY <1>i, <2>1, <2>3, <2>6, <3>1, <3>2, <3>3 DEF ProviderInv, ProviderParserShape,
        ProviderStartShape
  <2> QED BY <2>4, <2>5, <2>6
<1>10. CASE Provider!Node
  <2>1. UNCHANGED <<preParsed, phase, current, created, parsed, skipped, cmd, httpClient, httpUrl>>
    BY <1>10 DEF Provider!Node, Provider!NodeServes, Provider!NodeExits, Provider!WaitReturns
  <2>2. \/ node = "booting" /\ node' = "serving" /\ UNCHANGED <<reaped, faults>>
        \/ Provider!NodeAlive /\ node' = "exited" /\ reaped' = reaped /\ faults' = faults \cup {"exit"}
        \/ node' = node /\ reaped' = TRUE /\ faults' = faults
    BY <1>10 DEF Provider!Node, Provider!NodeServes, Provider!NodeExits, Provider!WaitReturns
  <2>3. Provider!TypeOK'
    <3>1. reaped' \in BOOLEAN /\ node' \in {"none", "booting", "serving", "exited"}
          /\ faults' \subseteq {"start", "exit", "file"}
      BY <1>t, <2>2 DEF Provider!TypeOK, Provider!ParserTypeOK
    <3> QED BY <1>t, <2>1, <3>1 DEF Provider!TypeOK, Provider!ParserTypeOK, Provider!Pending
  <2>4. ProviderParserShape'
    BY <1>i, <2>1, <2>2 DEF ProviderParserShape, Provider!NodeAlive
  <2>5. ProviderStartShape'
    BY <1>i, <2>1, <2>2 DEF ProviderStartShape, Provider!NodeAlive
  <2>6. RuleShape' /\ Provider!SkippedForCause'
    BY <1>i, <2>1, <2>2 DEF RuleShape, Provider!SkippedForCause
  <2> QED BY <2>3, <2>4, <2>5, <2>6 DEF ProviderInv
<1>11. CASE UNCHANGED Provider!vars
  <2>1. Provider!TypeOK'
    BY <1>t, <1>11 DEF Provider!vars, Provider!TypeOK, Provider!ParserTypeOK, Provider!Pending
  <2> QED BY <1>i, <1>11, <2>1 DEF Provider!vars, ProviderInv, ProviderParserShape,
                                   ProviderStartShape, RuleShape, Provider!SkippedForCause
<1> QED BY <1>1, <1>2, <1>3, <1>4, <1>5, <1>6, <1>7, <1>8, <1>9, <1>10, <1>11 DEF Provider!Next

\* What the invariant says of the process in each phase.
LEMMA ProviderRunsOnlyToParse == ProviderInv => Provider!RunsOnlyToParse
<1>. SUFFICES ASSUME ProviderInv
              PROVE  Provider!RunsOnlyToParse
  OBVIOUS
<1>1. phase = "resolve" => ~Provider!NodeAlive /\ ~httpClient
  BY DEF ProviderInv, ProviderStartShape, Provider!NodeAlive
<1>2. cmd => (parsed \cup skipped \cup current) \ preParsed # {}
  BY DEF ProviderInv, ProviderParserShape, RuleShape
<1>3. phase \in {"parse", "panicked"} => httpClient \/ "start" \in faults
  BY DEF ProviderInv, ProviderStartShape
<1> QED BY <1>1, <1>2, <1>3 DEF Provider!RunsOnlyToParse

\* A process is started by StartParser alone, when there is none.
LEMMA ProviderStartsWithout ==
    ASSUME ProviderInv, Provider!Next, node' = "booting", node # "booting"
    PROVE  ~cmd
<1>1. Provider!StartParser
  BY DEF Provider!Next, Provider!TakePreParsed, Provider!ParseRule, Provider!ParserAvailable,
         Provider!StartFails, Provider!ParseSucceeds, Provider!ParseFails,
         Provider!ParseOnNilClient, Provider!OnResolve, Provider!Node, Provider!NodeServes,
             Provider!NodeExits, Provider!WaitReturns, Provider!Connected,
         Provider!StartFailsEarly, Provider!StartFailsToExec, Provider!ConnectTimeout,
             Provider!StopCreated, Provider!Stopped, Provider!parserVars
<1> QED BY <1>1 DEF Provider!StartParser, ProviderInv, ProviderStartShape
-----------------------------------------------------------------------------
\* The one that does not run.
ProviderIdle == phase = "generate" /\ parsed = {} /\ skipped = {}
WorkerIdle == pc = "read" /\ requests = 0 /\ responses = <<>>

ClientsInv ==
    \/ owner = "worker" /\ IInv /\ ProviderIdle
    \/ owner = "provider" /\ ProviderInv /\ WorkerIdle
-----------------------------------------------------------------------------
\* Either of them starts without a parser.
LEMMA InitClients == ClientsInit => ClientsInv
<1>. SUFFICES ASSUME ClientsInit
              PROVE  ClientsInv
  OBVIOUS
<1>1. IInv
  BY InitInv DEF ClientsInit
<1>2. ProviderInv
  BY ProviderInit DEF ClientsInit
<1>3. ProviderIdle /\ WorkerIdle
  BY DEF ClientsInit, Init, Provider!Init, ProviderIdle, WorkerIdle
<1> QED BY <1>1, <1>2, <1>3 DEF ClientsInit, ClientsInv

\* Each of them keeps its invariant, and the other one stays where it is.
LEMMA StepClients == ClientsInv /\ [ClientsNext]_clientVars => ClientsInv'
<1>. SUFFICES ASSUME ClientsInv, [ClientsNext]_clientVars
              PROVE  ClientsInv'
  OBVIOUS
<1>1. ASSUME owner = "worker", IInv, ProviderIdle, Next \/ UNCHANGED vars,
             UNCHANGED <<providerVars, owner>>
      PROVE  ClientsInv'
  <2>1. IInv'
    BY <1>1, StepInv
  <2>2. ProviderIdle'
    BY <1>1 DEF ProviderIdle, providerVars
  <2> QED BY <1>1, <2>1, <2>2 DEF ClientsInv
<1>2. ASSUME owner = "provider", ProviderInv, WorkerIdle, Provider!Next \/ UNCHANGED Provider!vars,
             UNCHANGED <<workerVars, owner>>
      PROVE  ClientsInv'
  <2>1. ProviderInv'
    BY <1>2, ProviderStep
  <2>2. WorkerIdle'
    BY <1>2 DEF WorkerIdle, workerVars, workVars
  <2> QED BY <1>2, <2>1, <2>2 DEF ClientsInv
<1>3. UNCHANGED clientVars => /\ UNCHANGED vars /\ UNCHANGED Provider!vars
                              /\ UNCHANGED <<providerVars, owner>> /\ UNCHANGED <<workerVars,
                                 owner>>
  BY DEF clientVars, workerVars, providerVars, vars, Provider!vars, parserVars, Provider!parserVars
<1> QED BY <1>1, <1>2, <1>3 DEF ClientsInv, ClientsNext
-----------------------------------------------------------------------------
\* The invariants hold whoever owns the parser.
THEOREM ClientsInvariance == ClientsSpec => []ClientsInv
BY InitClients, StepClients, PTL DEF ClientsSpec

\* One response for each request, a cause for each failure, and no process left by the
\* worker.
THEOREM WorkerIsSound == ClientsSpec => [](OneResponseEach /\ FailureHasCause /\ NodeGoesWithWorker)
<1>1. ClientsInv => OneResponseEach /\ FailureHasCause /\ NodeGoesWithWorker
  <2>1. WorkerIdle => OneResponseEach /\ FailureHasCause /\ NodeGoesWithWorker
    BY DEF WorkerIdle, OneResponseEach, FailureHasCause, NodeGoesWithWorker
  <2>2. IInv => OneResponseEach /\ FailureHasCause /\ NodeGoesWithWorker
    BY DEF IInv
  <2> QED BY <2>1, <2>2 DEF ClientsInv
<1> QED BY <1>1, ClientsInvariance, PTL

\* The process of the provider is started for files that nobody else parsed, is there
\* when it is asked unless its start failed, and is gone when rules are resolved.
THEOREM ParserOnlyWhereNeeded == ClientsSpec => []RunsOnlyToParse
<1>1. ClientsInv => RunsOnlyToParse
  BY ProviderRunsOnlyToParse DEF ClientsInv, RunsOnlyToParse
<1> QED BY <1>1, ClientsInvariance, PTL

\* One rule at a time is being parsed, and only one that is still pending.
THEOREM ProviderTypeCorrect == ClientsSpec => [](owner = "provider" => Provider!TypeOK)
<1>1. ClientsInv => (owner = "provider" => Provider!TypeOK)
  BY DEF ClientsInv, ProviderInv
<1> QED BY <1>1, ClientsInvariance, PTL

\* Every rule ends up parsed or skipped, never both, and skipped only after a fault.
THEOREM SkippedOnlyForCause == ClientsSpec => []SkippedForCause
<1>1. ClientsInv => SkippedForCause
  <2>1. ProviderIdle => Provider!SkippedForCause
    BY DEF ProviderIdle, Provider!SkippedForCause
  <2>2. ProviderInv => Provider!SkippedForCause
    BY DEF ProviderInv
  <2> QED BY <2>1, <2>2 DEF ClientsInv, SkippedForCause
<1> QED BY <1>1, ClientsInvariance, PTL

\* No step starts a process while the parser has one.
THEOREM NeverTwoProcesses == ClientsSpec => OneProcessOnly
<1>1. ClientsInv /\ [ClientsNext]_clientVars =>
          [node' = "booting" /\ node # "booting" => ~cmd]_(Provider!vars)
  <2>. SUFFICES ASSUME ClientsInv, ClientsNext, node' = "booting", node # "booting"
                PROVE  ~cmd
    BY DEF clientVars, parserVars, providerVars, Provider!vars, Provider!parserVars
  <2>1. CASE owner = "worker"
    <3>1. IInv /\ Next
      BY <2>1 DEF ClientsInv, ClientsNext
    <3>2. StartParser
      BY <3>1 DEF Next, Worker, ReadRequest, EndOfInput, ParserIsRunning, ParserIsNotRunning, Stop,
                  StartParserFails, ParserAvailable, ParseSucceeds, WriteOutputFails, ParseFails,
                  ParseOnNilClient, Node, ProcessExits, NodeServes, NodeExits, WaitReturns,
                      Connected,
                  StartFailsEarly, StartFailsToExec, ConnectTimeout, Stopped, parserVars
    <3> QED BY <3>1, <3>2 DEF StartParser, IInv, StartShape
  <2>2. CASE owner = "provider"
    <3>1. ProviderInv /\ Provider!Next
      BY <2>2 DEF ClientsInv, ClientsNext
    <3> QED BY <3>1, ProviderStartsWithout
  <2> QED BY <2>1, <2>2 DEF ClientsInv
<1> QED BY <1>1, ClientsInvariance, PTL DEF ClientsSpec, OneProcessOnly, Provider!OneProcessOnly
=============================================================================
