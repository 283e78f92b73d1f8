-------------------------- MODULE AzRunner_proofs --------------------------
(***************************************************************************)
(* What is proved of a call of az, for every timeout, number of attempts,  *)
(* pipe size and amount of output: it returns in its time, az is never     *)
(* killed for its own output, and the answer is all of az's.               *)
(*                                                                         *)
(* The invariant says who may do what in each phase of an attempt, what    *)
(* the two pipes hold, by when each phase is over, and what the caller has *)
(* once it has stopped waiting for a pipe.                                 *)
(*                                                                         *)
(* At the end, what is proved of OitAgent, whose calls of az go by none of *)
(* this.                                                                   *)
(***************************************************************************)
EXTENDS AzRunner, OitAgent, Integers, TLAPS

Statuses == {"none", "timed_out", "error", "not_found"} \cup ExitCodes

Phases == {"backoff", "poll", "returned", "done"} \cup Pipes

TypeOK ==
  /\ now \in Nat
  /\ child \in {"running", "reaped"} \cup ExitCodes
  /\ orphan \in {"none", "alive", "gone"}
  /\ output \in [Pipes -> Nat]
  /\ written \in [Pipes -> Nat] /\ read \in [Pipes -> Nat]
  /\ reader \in [Pipes -> {"reading", "sent"}]
  /\ pc \in Phases
  /\ attempt \in Nat /\ due \in Nat /\ deadline \in Nat
  /\ status \in Statuses
  /\ buffer \in [Pipes -> Nat]
  /\ starved \in BOOLEAN

\* The child is waited for before the caller turns to its pipes, and a thread
\* is there to read for as long as the child runs.
Attended ==
  /\ pc = "poll" <=> child # "reaped"
  /\ child = "running" => \A p \in Pipes : reader[p] = "reading"

\* What is read was written and what is written is the child's; a pipe holds no
\* more than it can, and a thread stops at the end of its own.
Flows ==
  \A p \in Pipes :
    /\ read[p] <= written[p] /\ written[p] <= output[p]
    /\ written[p] - read[p] <= PipeSize
    /\ reader[p] = "sent" => read[p] = written[p]

\* A child that ends by itself has written everything, and one that fails has
\* something to say.
Spoken(s) ==
  /\ s \in ExitCodes => written = output
  /\ s = "transient" => output["stderr"] # 0

Finished == Spoken(child) /\ (pc # "poll" => Spoken(status))

\* The phases in which the caller has stopped waiting for a pipe.
Past(p) ==
  {"returned", "backoff", "done"} \cup (IF p = "stdout" THEN {"stderr"} ELSE {})

\* With nobody left holding a pipe, what the caller takes from it is all of it.
Taken ==
  \A p \in Pipes :
    pc \in Past(p) /\ status \in ExitCodes /\ orphan = "none"
      => buffer[p] = output[p]

\* The most one attempt takes, with the pause after it.
Budget == CallTimeout + 2 * JoinTimeout + MaxBackoff

\* When the attempts before this one are over, at the latest.
Started == (attempt - 1) * Budget

\* By when each phase of the attempt is over.
Timely ==
  /\ attempt <= MaxAttempts
  /\ pc = "backoff" =>
       attempt < MaxAttempts /\ now <= due /\ due <= attempt * Budget
  /\ pc # "backoff" => attempt >= 1
  /\ pc = "poll" =>
       now <= due /\ due <= deadline /\ deadline <= Started + CallTimeout
  /\ pc = "stdout" =>
       now <= due /\ due <= Started + CallTimeout + JoinTimeout
  /\ pc = "stderr" =>
       now <= due /\ due <= Started + CallTimeout + 2 * JoinTimeout
  /\ pc \in {"returned", "done"} =>
       now <= Started + CallTimeout + 2 * JoinTimeout

IInv ==
  /\ TypeOK /\ Attended /\ Flows /\ Finished /\ Taken /\ Timely
  /\ AnswerIsWhole /\ NotKilledForItsOutput

-----------------------------------------------------------------------------
(* Arithmetic *)

\* The time of one attempt more.
LEMMA OneMore ==
  ASSUME NEW n \in Nat
  PROVE  /\ Budget \in Nat
         /\ (n + 1 - 1) * Budget = n * Budget
         /\ (n - 1) * Budget + Budget = n * Budget
         /\ n * Budget \in Nat /\ (n - 1) * Budget \in Int
<1>1. Budget \in Nat
  BY RunnerAssumption DEF Budget
<1> DEFINE b == Budget
<1>2. b \in Nat
  BY <1>1
<1> HIDE DEF b
<1>3. (n - 1) * b + b = n * b
  BY <1>2, Z3
<1>4. (n + 1 - 1) * b = n * b
  BY <1>2, Z3
<1>5. n * b \in Nat /\ (n - 1) * b \in Int
  BY <1>2, Z3
<1> QED
  BY <1>1, <1>3, <1>4, <1>5 DEF b

-----------------------------------------------------------------------------
(* The steps *)

LEMMA InitIInv == Init => IInv
<1> SUFFICES ASSUME Init PROVE IInv
  OBVIOUS
<1> USE DEF Init
<1>1. TypeOK
  BY DEF TypeOK, Nothing, Statuses, Phases, Pipes, ExitCodes
<1>2. Attended
  BY DEF Attended
<1>3. Flows
  BY RunnerAssumption DEF Flows, Nothing, Pipes
<1>4. Finished /\ Taken
  BY DEF Finished, Spoken, Taken, Past, ExitCodes
<1>5. Timely
  BY RunnerAssumption, OneMore DEF Timely, Pipes
<1>6. AnswerIsWhole /\ NotKilledForItsOutput
  BY DEF AnswerIsWhole, NotKilledForItsOutput
<1> QED
  BY <1>1, <1>2, <1>3, <1>4, <1>5, <1>6 DEF IInv

LEMMA WriteStep ==
  ASSUME IInv, NEW p \in Pipes, Write(p)
  PROVE  IInv'
<1> USE DEF IInv, Write, threads, caller
<1>1. TypeOK'
  BY DEF TypeOK
<1>2. Attended'
  BY DEF Attended
<1>3. Flows'
  BY RunnerAssumption DEF Flows, Full, TypeOK, Attended
<1>4. Finished'
  BY DEF Finished, Spoken, Attended, TypeOK, ExitCodes
<1>5. Taken' /\ AnswerIsWhole'
  BY DEF Taken, Past, AnswerIsWhole, Attended
<1>6. Timely' /\ NotKilledForItsOutput'
  BY DEF Timely, Started, NotKilledForItsOutput
<1> QED
  BY <1>1, <1>2, <1>3, <1>4, <1>5, <1>6

LEMMA ReadStep ==
  ASSUME IInv, NEW p \in Pipes, Read(p)
  PROVE  IInv'
<1> USE DEF IInv, Read, CanRead, process, caller
<1>1. TypeOK'
  BY DEF TypeOK
<1>2. Attended' /\ Finished'
  BY DEF Attended, Finished, Spoken
<1>3. Flows'
  <2> SUFFICES ASSUME NEW q \in Pipes
               PROVE  /\ read'[q] <= written[q] /\ written[q] <= output[q]
                      /\ written[q] - read'[q] <= PipeSize
                      /\ reader[q] = "sent" => read'[q] = written[q]
    BY DEF Flows
  <2>1. read[q] \in Nat /\ written[q] \in Nat /\ output[q] \in Nat
    BY DEF TypeOK
  <2>2. CASE q = p
    BY <2>1, <2>2, RunnerAssumption DEF Flows, TypeOK
  <2>3. CASE q # p
    BY <2>1, <2>3 DEF Flows, TypeOK
  <2> QED
    BY <2>2, <2>3
<1>4. Taken' /\ AnswerIsWhole'
  BY DEF Taken, Past, AnswerIsWhole
<1>5. Timely' /\ NotKilledForItsOutput'
  BY DEF Timely, Started, NotKilledForItsOutput
<1> QED
  BY <1>1, <1>2, <1>3, <1>4, <1>5

LEMMA SendStep ==
  ASSUME IInv, NEW p \in Pipes, Send(p)
  PROVE  IInv'
<1> USE DEF IInv, Send, AtEnd, process, caller
<1>1. TypeOK'
  BY DEF TypeOK
<1>2. Attended' /\ Finished'
  BY DEF Attended, Finished, Spoken
<1>3. Flows'
  BY DEF Flows, TypeOK
<1>4. Taken' /\ AnswerIsWhole'
  BY DEF Taken, Past, AnswerIsWhole
<1>5. Timely' /\ NotKilledForItsOutput'
  BY DEF Timely, Started, NotKilledForItsOutput
<1> QED
  BY <1>1, <1>2, <1>3, <1>4, <1>5

LEMMA ExitStep ==
  ASSUME IInv, Exit
  PROVE  IInv'
<1> USE DEF IInv, Exit, threads, caller
<1>1. TypeOK'
  BY DEF TypeOK, ExitCodes
<1>2. Attended' /\ Finished'
  BY DEF Attended, Finished, Spoken, ExitCodes
<1>3. Flows'
  BY DEF Flows
<1>4. Taken' /\ AnswerIsWhole'
  BY DEF Taken, Past, AnswerIsWhole, Attended
<1>5. Timely' /\ NotKilledForItsOutput'
  BY DEF Timely, Started, NotKilledForItsOutput
<1> QED
  BY <1>1, <1>2, <1>3, <1>4, <1>5

LEMMA OrphanExitStep ==
  ASSUME IInv, OrphanExit
  PROVE  IInv'
<1> USE DEF IInv, OrphanExit, threads, caller
<1>1. TypeOK'
  BY DEF TypeOK
<1>2. Attended' /\ Finished' /\ Flows'
  BY DEF Attended, Finished, Spoken, Flows
<1>3. Taken' /\ AnswerIsWhole'
  BY DEF Taken, AnswerIsWhole
<1>4. Timely' /\ NotKilledForItsOutput'
  BY DEF Timely, Started, NotKilledForItsOutput
<1> QED
  BY <1>1, <1>2, <1>3, <1>4

-----------------------------------------------------------------------------
(* The caller's steps *)

LEMMA SpawnStep ==
  ASSUME IInv, Spawn
  PROVE  IInv'
<1> USE DEF IInv, Spawn
<1>1. now <= attempt * Budget /\ attempt' \in Nat
  BY OneMore DEF Timely, TypeOK
<1>2. Started' = attempt * Budget
  BY OneMore DEF Started, TypeOK
<1>3. CASE SpawnFails
  <2> USE <1>3 DEF SpawnFails, process, threads
  <2>1. TypeOK'
    BY DEF TypeOK, Statuses, Phases
  <2>2. Attended' /\ Flows'
    BY DEF Attended, Flows
  <2>3. Finished' /\ Taken'
    BY DEF Finished, Spoken, Taken, ExitCodes
  <2>4. Timely'
    BY <1>1, <1>2, OneMore, RunnerAssumption DEF Timely, TypeOK, Pipes
  <2>5. AnswerIsWhole' /\ NotKilledForItsOutput'
    BY DEF AnswerIsWhole, NotKilledForItsOutput
  <2> QED
    BY <2>1, <2>2, <2>3, <2>4, <2>5
<1>4. CASE SpawnAz
  <2> USE <1>4 DEF SpawnAz
  <2>1. TypeOK'
    BY RunnerAssumption DEF TypeOK, Statuses, Phases, Nothing
  <2>2. Attended'
    BY DEF Attended
  <2>3. Flows'
    BY RunnerAssumption DEF Flows, Nothing, TypeOK
  <2>4. Finished' /\ Taken'
    BY DEF Finished, Spoken, Taken, Past, ExitCodes
  <2>5. Timely'
    BY <1>1, <1>2, OneMore, RunnerAssumption DEF Timely, TypeOK, Pipes
  <2>6. AnswerIsWhole' /\ NotKilledForItsOutput'
    BY DEF AnswerIsWhole, NotKilledForItsOutput
  <2> QED
    BY <2>1, <2>2, <2>3, <2>4, <2>5, <2>6
<1> QED
  BY <1>3, <1>4

\* A thread that can do nothing while the child is there has read all it wrote.
LEMMA IdleIsEmpty ==
  ASSUME IInv, ThreadsIdle, child = "running", NEW p \in Pipes
  PROVE  ~Full(p)
BY RunnerAssumption
   DEF IInv, TypeOK, Attended, Flows, ThreadsIdle, CanRead, Full

\* The child is waited for, with a status it has earned.
LEMMA WaitStep ==
  ASSUME IInv, NEW s \in Statuses \ {"none"}, WaitFor(s), Spoken(s),
         pc = "poll", now >= due,
         orphan' \in {"none", "alive", "gone"}, starved' = starved,
         UNCHANGED <<now, output, written, threads, attempt, deadline, buffer>>
  PROVE  IInv'
<1> USE DEF IInv, WaitFor, threads
<1>1. TypeOK'
  BY RunnerAssumption DEF TypeOK, Phases, Pipes
<1>2. Attended' /\ Flows'
  BY DEF Attended, Flows
<1>3. Finished' /\ Taken'
  BY DEF Finished, Spoken, Taken, Past, ExitCodes, Pipes
<1>4. Timely'
  BY OneMore, RunnerAssumption DEF Timely, Started, TypeOK, Pipes
<1>5. AnswerIsWhole' /\ NotKilledForItsOutput'
  BY DEF AnswerIsWhole, NotKilledForItsOutput
<1> QED
  BY <1>1, <1>2, <1>3, <1>4, <1>5

LEMMA PollStep ==
  ASSUME IInv, Poll
  PROVE  IInv'
<1> USE DEF Poll
<1>1. CASE Exited
  <2>1. child \in Statuses \ {"none"} /\ Spoken(child)
    BY <1>1 DEF Exited, IInv, Finished, Statuses, ExitCodes
  <2>2. orphan' \in {"none", "alive", "gone"} /\ WaitFor(child)
    BY <1>1 DEF Exited, IInv, TypeOK
  <2> QED
    BY <1>1, <2>1, <2>2, WaitStep DEF Exited
<1>2. CASE TimedOut
  <2>1. starved' = starved
    BY <1>2, IdleIsEmpty DEF TimedOut, IInv, TypeOK
  <2>2. "timed_out" \in Statuses \ {"none"} /\ Spoken("timed_out")
    BY DEF Statuses, Spoken, ExitCodes
  <2>3. orphan' \in {"none", "alive", "gone"} /\ WaitFor("timed_out")
    BY <1>2 DEF TimedOut, KillAndWait, IInv, TypeOK
  <2> QED
    BY <2>1, <2>2, <2>3, WaitStep
<1>3. CASE Unwaitable
  <2>1. "error" \in Statuses \ {"none"} /\ Spoken("error")
    BY DEF Statuses, Spoken, ExitCodes
  <2>2. orphan' \in {"none", "alive", "gone"} /\ WaitFor("error")
    BY <1>3 DEF Unwaitable, KillAndWait, IInv, TypeOK
  <2> QED
    BY <1>3, <2>1, <2>2, WaitStep DEF Unwaitable
<1>4. CASE KeepPolling
  <2> USE <1>4 DEF KeepPolling, IInv, threads
  <2>1. TypeOK'
    BY DEF TypeOK
  <2>2. Attended' /\ Flows' /\ Finished'
    BY DEF Attended, Flows, Finished, Spoken
  <2>3. Taken' /\ AnswerIsWhole' /\ NotKilledForItsOutput'
    BY DEF Taken, Past, AnswerIsWhole, NotKilledForItsOutput
  <2>4. Timely'
    BY DEF Timely, Started, TypeOK, Pipes
  <2> QED
    BY <2>1, <2>2, <2>3, <2>4
<1> QED
  BY <1>1, <1>2, <1>3, <1>4

LEMMA ReceiveStep ==
  ASSUME IInv, NEW p \in Pipes, Receive(p)
  PROVE  IInv'
<1> USE DEF IInv, Receive, process, threads
<1>1. TypeOK'
  BY RunnerAssumption DEF TypeOK, Phases, Pipes
<1>2. Attended' /\ Flows' /\ Finished'
  BY DEF Attended, Flows, Finished, Spoken, Pipes
<1>3. status \in ExitCodes /\ orphan = "none" => buffer'[p] = output[p]
  <2> SUFFICES ASSUME status \in ExitCodes, orphan = "none"
               PROVE  buffer'[p] = output[p]
    OBVIOUS
  <2>1. child = "reaped" /\ pc # "poll"
    BY DEF Attended, Pipes
  <2>2. written = output
    BY <2>1 DEF Finished, Spoken
  <2>3. reader[p] = "sent"
    BY <2>1 DEF ThreadsIdle, CanRead, AtEnd, TypeOK, Flows
  <2> QED
    BY <2>2, <2>3 DEF Flows, TypeOK
<1>4. Taken'
  BY <1>3 DEF Taken, Past, Pipes, TypeOK
<1>5. Timely'
  BY OneMore, RunnerAssumption DEF Timely, Started, TypeOK, Pipes
<1>6. AnswerIsWhole' /\ NotKilledForItsOutput'
  BY DEF AnswerIsWhole, NotKilledForItsOutput
<1> QED
  BY <1>1, <1>2, <1>4, <1>5, <1>6

LEMMA JudgeStep ==
  ASSUME IInv, Judge
  PROVE  IInv'
<1> USE DEF IInv, Judge, process, threads
<1>1. TypeOK'
  BY RunnerAssumption DEF TypeOK, Phases, Backoff
<1>2. Attended' /\ Flows' /\ Finished'
  BY DEF Attended, Flows, Finished, Spoken
<1>3. Taken' /\ NotKilledForItsOutput'
  BY DEF Taken, Past, NotKilledForItsOutput
<1>4. Timely'
  BY OneMore, RunnerAssumption
     DEF Timely, Started, TypeOK, Pipes, Backoff, Budget
<1>5. AnswerIsWhole'
  <2> SUFFICES ASSUME pc' = "done", orphan = "none"
               PROVE  /\ status = "ok" => buffer = output
                      /\ status = "transient" => attempt = MaxAttempts
    BY DEF AnswerIsWhole
  <2>1. status \in ExitCodes => \A p \in Pipes : buffer[p] = output[p]
    BY DEF Taken, Past
  <2>2. status = "ok" => buffer = output
    BY <2>1 DEF TypeOK, ExitCodes
  <2>3. status = "transient" => buffer["stderr"] > 0
    BY <2>1 DEF Finished, Spoken, TypeOK, ExitCodes, Pipes
  <2> QED
    BY <2>2, <2>3 DEF Retryable, IsTransient
<1> QED
  BY <1>1, <1>2, <1>3, <1>4, <1>5

LEMMA TickStep ==
  ASSUME IInv, Tick
  PROVE  IInv'
<1> USE DEF IInv, Tick, process, threads, caller
<1>1. TypeOK'
  BY DEF TypeOK
<1>2. Attended' /\ Flows' /\ Finished'
  BY DEF Attended, Flows, Finished, Spoken
<1>3. Taken' /\ AnswerIsWhole' /\ NotKilledForItsOutput'
  BY DEF Taken, Past, AnswerIsWhole, NotKilledForItsOutput
<1>4. Timely'
  BY DEF Timely, Started, Due, TypeOK, Phases, Pipes
<1> QED
  BY <1>1, <1>2, <1>3, <1>4

LEMMA NextIInv == IInv /\ [Next]_vars => IInv'
<1> SUFFICES ASSUME IInv, [Next]_vars PROVE IInv'
  OBVIOUS
<1>1. ASSUME NEW p \in Pipes, Write(p) \/ Read(p) \/ Send(p) \/ Receive(p)
      PROVE  IInv'
  BY <1>1, WriteStep, ReadStep, SendStep, ReceiveStep
<1>2. CASE Exit
  BY <1>2, ExitStep
<1>3. CASE OrphanExit
  BY <1>3, OrphanExitStep
<1>4. CASE Spawn
  BY <1>4, SpawnStep
<1>5. CASE Poll
  BY <1>5, PollStep
<1>6. CASE Judge
  BY <1>6, JudgeStep
<1>7. CASE Tick
  BY <1>7, TickStep
<1>8. CASE UNCHANGED vars
  BY <1>8 DEF vars, process, threads, caller, IInv, TypeOK, Attended, Flows,
     Finished, Spoken, Taken, Past, Timely, Started, AnswerIsWhole,
     NotKilledForItsOutput
<1> QED
  BY <1>1, <1>2, <1>3, <1>4, <1>5, <1>6, <1>7, <1>8 DEF Next

LEMMA Invariance == Spec => []IInv
<1> QED
  BY InitIInv, NextIInv, PTL DEF Spec

-----------------------------------------------------------------------------
(* Theorems *)

\* Every variable has its type: outputs and clocks are natural numbers, the
\* phases and codes those of ProcessAzRunner::run and AzBackend::run.
THEOREM RunnerTypeOK == Spec => []TypeOK
<1> QED
  BY Invariance, PTL DEF IInv

\* A call of az returns within the budget az_runner.rs promises, whatever the
\* child, the processes it leaves behind and its pipes do, and for every choice
\* of the timeouts and attempts: each attempt takes at most the call's timeout
\* and two waits for a thread, and no child is left unwaited for.
THEOREM CallsReturnInTime == Spec => []ReturnsInTime
<1>1. IInv => ReturnsInTime
  <2> SUFFICES ASSUME IInv PROVE ReturnsInTime
    OBVIOUS
  <2>1. attempt \in 0..MaxAttempts
    BY RunnerAssumption DEF IInv, TypeOK, Timely
  <2>2. pc \in {"returned", "backoff", "done"} => child = "reaped"
    BY DEF IInv, Attended
  <2>3. pc = "backoff" => now <= attempt * Budget
    BY OneMore DEF IInv, TypeOK, Timely
  <2>4. pc # "backoff" => now <= Started + Budget
    BY OneMore, RunnerAssumption
       DEF IInv, TypeOK, Timely, Phases, Pipes, Budget, Started
  <2>5. now <= attempt * Budget
    BY <2>3, <2>4, OneMore DEF IInv, TypeOK, Started
  <2> QED
    BY <2>1, <2>2, <2>5 DEF ReturnsInTime, Budget
<1> QED
  BY <1>1, Invariance, PTL

\* The output and the failure the caller acts on are az's own: a success comes
\* with all that az wrote, and a transient failure is given up only after the
\* last attempt, when no process has outlived az with a pipe in hand.
THEOREM AnswersAreWhole == Spec => []AnswerIsWhole
<1> QED
  BY Invariance, PTL DEF IInv

\* No call is killed because az waits for its own pipe to be drained, however
\* much az writes and however little a pipe holds (az_runner.rs:77-84).
THEOREM PipesAreDrained == Spec => []NotKilledForItsOutput
<1> QED
  BY Invariance, PTL DEF IInv

-----------------------------------------------------------------------------
(* The live agent, which calls az without any of this: OitAgent, for all   *)
(* sets of agents and names.  Its two properties rest on different facts:  *)
(* that nothing but the agents' one name is ever tagged and deleted, and   *)
(* that whatever an agent has still to delete is on what is left of its    *)
(* list.  OitAssumption is what OitAgent asks of its constants.            *)

AgentsTypeOK ==
  /\ tags \in [Names -> {"own", "other", "absent"}]
  /\ place \in [Agents -> {"off", "preflight", "create", "list", "look", "delete", "done"}]
  /\ listing \in [Agents -> SUBSET Names]
  /\ target \in [Agents -> Names]
  /\ maker \in [Names -> {"agent", "someone", "nobody"}]
  /\ left \in [Agents -> SUBSET Names]
  /\ clean \in [Agents -> BOOLEAN]

AgentStep(a) ==
  \/ Launch(a) \/ Preflight(a) \/ Create(a) \/ List(a)
  \/ \E n \in Names : Look(a, n)
  \/ Delete(a) \/ LookedAll(a) \/ End(a)

OthersStep == \E n \in Names : Found(n) \/ Remove(n)

\* Next is a step of an agent or of somebody else.
LEMMA NextAgentsSplit == OitNext <=> (\E a \in Agents : AgentStep(a)) \/ OthersStep
BY DEF OitNext, AgentStep, OthersStep

LEMMA InitAgents ==
  ASSUME OitAssumption
  PROVE  OitInit => AgentsTypeOK
BY DEF OitAssumption, OitInit, AgentsTypeOK

LEMMA NextAgents ==
  ASSUME OitAssumption, AgentsTypeOK, [OitNext]_(oitVars)
  PROVE  AgentsTypeOK'
<1> USE DEF OitAssumption, AgentsTypeOK, Goto, Reset, azure, run
<1>1. ASSUME NEW a \in Agents, Launch(a) PROVE AgentsTypeOK'
  BY <1>1 DEF Launch
<1>2. ASSUME NEW a \in Agents, Preflight(a) PROVE AgentsTypeOK'
  BY <1>2 DEF Preflight
<1>3. ASSUME NEW a \in Agents, Create(a) PROVE AgentsTypeOK'
  BY <1>3 DEF Create
<1>4. ASSUME NEW a \in Agents, List(a) PROVE AgentsTypeOK'
  <2>1. Present \in SUBSET Names /\ OwnGroups \in SUBSET Names
    BY DEF Present, OwnGroups
  <2> QED
    BY <1>4, <2>1 DEF List
<1>5. ASSUME NEW a \in Agents, NEW n \in Names, Look(a, n) PROVE AgentsTypeOK'
  BY <1>5 DEF Look
<1>6. ASSUME NEW a \in Agents, Delete(a) PROVE AgentsTypeOK'
  <2>1. /\ clean' \in [Agents -> BOOLEAN]
        /\ place' \in [Agents -> {"off", "preflight", "create", "list", "look", "delete", "done"}]
    BY <1>6 DEF Delete
  <2>2. left' \in [Agents -> SUBSET Names]
    BY <1>6 DEF Delete
  <2>3. UNCHANGED <<listing, target>> /\ tags' \in [Names -> {"own", "other", "absent"}]
    BY <1>6 DEF Delete
  <2>4. maker' \in [Names -> {"agent", "someone", "nobody"}]
    BY <1>6 DEF Delete
  <2> QED
    BY <2>1, <2>2, <2>3, <2>4
<1>7. ASSUME NEW a \in Agents, LookedAll(a) PROVE AgentsTypeOK'
  BY <1>7 DEF LookedAll
<1>8. ASSUME NEW a \in Agents, End(a) PROVE AgentsTypeOK'
  BY <1>8 DEF End
<1>9. ASSUME NEW n \in Names, Found(n) PROVE AgentsTypeOK'
  BY <1>9 DEF Found
<1>10. ASSUME NEW n \in Names, Remove(n) PROVE AgentsTypeOK'
  BY <1>10 DEF Remove
<1>11. CASE UNCHANGED oitVars
  BY <1>11 DEF oitVars
<1> QED
  BY <1>1, <1>2, <1>3, <1>4, <1>5, <1>6, <1>7, <1>8, <1>9, <1>10, <1>11 DEF OitNext

\* The state of the agents has its types.
THEOREM OitTypeOK ==
  ASSUME OitAssumption
  PROVE  OitSpec => []AgentsTypeOK
BY InitAgents, NextAgents, PTL DEF OitSpec

-----------------------------------------------------------------------------
(* Other people's groups *)

\* Only groups of the agents' name bear their tags, so an agent's target never
\* is another one; only names other people use have a group of theirs.
OneNameTagged ==
  /\ \A n \in Names : tags[n] = "own" => n = OitName
  /\ \A a \in Agents : target[a] = OitName
  /\ \A n \in Names : maker[n] = "someone" => n \in ForeignNames

OthersInv == AgentsTypeOK /\ OneNameTagged /\ OthersKeepTheirGroups

\* No step tags or takes aim at another name, nor deletes another person's
\* group, as long as nobody else uses the agents' name.
LEMMA NextOthersInv ==
  ASSUME OitAssumption, OitName \notin ForeignNames, OthersInv,
         [OitNext]_(oitVars)
  PROVE  OthersInv'
<1> USE DEF OitAssumption, OthersInv, AgentsTypeOK, OneNameTagged,
            OthersKeepTheirGroups, Goto, Reset, azure, run
<1>1. AgentsTypeOK'
  BY NextAgents
<1>2. ASSUME NEW a \in Agents, AgentStep(a)
      PROVE  OneNameTagged' /\ OthersKeepTheirGroups'
  <2>1. CASE Launch(a) \/ Preflight(a) \/ LookedAll(a) \/ End(a)
    BY <2>1 DEF Launch, Preflight, LookedAll, End
  <2>2. CASE Create(a)
    BY <2>2 DEF Create
  <2>3. CASE List(a)
    BY <2>3 DEF List
  <2>4. ASSUME NEW n \in Names, Look(a, n)
        PROVE  OneNameTagged' /\ OthersKeepTheirGroups'
    BY <2>4 DEF Look, OwnGroups
  <2>5. CASE Delete(a)
    <3>1. maker[target[a]] # "someone"
      OBVIOUS
    <3> QED
      BY <2>5, <3>1 DEF Delete
  <2> QED
    BY <1>2, <2>1, <2>2, <2>3, <2>4, <2>5 DEF AgentStep
<1>3. ASSUME NEW n \in Names, Found(n) \/ Remove(n)
      PROVE  OneNameTagged' /\ OthersKeepTheirGroups'
  BY <1>3 DEF Found, Remove
<1>4. CASE UNCHANGED oitVars
  BY <1>4 DEF oitVars
<1> QED
  BY <1>1, <1>2, <1>3, <1>4, NextAgentsSplit DEF OthersStep

\* No agent ever deletes a group of somebody else (teardown_all and
\* guard_mutation), if nobody else uses the agents' name.
THEOREM AgentsSpareOthers ==
  ASSUME OitAssumption, OitName \notin ForeignNames
  PROVE  OitSpec => []OthersKeepTheirGroups
<1>1. OitInit => OthersInv
  BY InitAgents DEF OitInit, OthersInv, OneNameTagged, OthersKeepTheirGroups
<1>2. OthersInv /\ [OitNext]_(oitVars) => OthersInv'
  BY NextOthersInv
<1>3. OthersInv => OthersKeepTheirGroups
  BY DEF OthersInv
<1> QED
  BY <1>1, <1>2, <1>3, PTL DEF OitSpec

-----------------------------------------------------------------------------
(* The teardown *)

\* What an agent has still to delete bears the tags, and, if no call failed, is
\* yet to be looked at or is its target.
LeftToDelete ==
  \A a \in Agents :
    /\ left[a] \subseteq OwnGroups
    /\ clean[a] =>
         /\ place[a] = "look"   => left[a] \subseteq listing[a]
         /\ place[a] = "delete" => left[a] \subseteq listing[a] \cup {target[a]}
         /\ place[a] = "done"   => left[a] = {}

TeardownInv == AgentsTypeOK /\ LeftToDelete

\* Groups that are gone are left to nobody, and a group an agent passes over
\* does not bear the tags.
LEMMA NextTeardownInv ==
  ASSUME OitAssumption, TeardownInv, [OitNext]_(oitVars)
  PROVE  TeardownInv'
<1> USE DEF OitAssumption, TeardownInv, AgentsTypeOK, LeftToDelete, OwnGroups,
            Goto, Reset, azure, run
<1>1. AgentsTypeOK'
  BY NextAgents
<1>2. ASSUME NEW a \in Agents, AgentStep(a)
      PROVE  LeftToDelete'
  <2>1. CASE Launch(a) \/ Preflight(a) \/ End(a)
    BY <2>1 DEF Launch, Preflight, End
  <2>2. CASE LookedAll(a)
    BY <2>2 DEF LookedAll
  <2>3. CASE Create(a)
    BY <2>3 DEF Create
  <2>4. CASE List(a)
    BY <2>4 DEF List, Present
  <2>5. ASSUME NEW n \in Names, Look(a, n)
        PROVE  LeftToDelete'
    BY <2>5 DEF Look
  <2>6. CASE Delete(a)
    BY <2>6 DEF Delete, Present
  <2> QED
    BY <1>2, <2>1, <2>2, <2>3, <2>4, <2>5, <2>6 DEF AgentStep
<1>3. ASSUME NEW n \in Names, Found(n)
      PROVE  LeftToDelete'
  BY <1>3 DEF Found
<1>4. ASSUME NEW n \in Names, Remove(n)
      PROVE  LeftToDelete'
  BY <1>4 DEF Remove
<1>5. CASE UNCHANGED oitVars
  BY <1>5 DEF oitVars
<1> QED
  BY <1>1, <1>2, <1>3, <1>4, <1>5, NextAgentsSplit DEF OthersStep

\* A teardown none of whose calls failed leaves nothing of what it saw
\* (teardown_all), whatever other agents and people do meanwhile.
THEOREM TeardownIsClean ==
  ASSUME OitAssumption
  PROVE  OitSpec => []CleanTeardown
<1>1. OitInit => TeardownInv
  BY InitAgents DEF OitInit, TeardownInv, LeftToDelete
<1>2. TeardownInv /\ [OitNext]_(oitVars) => TeardownInv'
  BY NextTeardownInv
<1>3. TeardownInv => CleanTeardown
  BY DEF TeardownInv, LeftToDelete, CleanTeardown
<1> QED
  BY <1>1, <1>2, <1>3, PTL DEF OitSpec
=============================================================================
