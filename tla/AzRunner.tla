------------------------------ MODULE AzRunner ------------------------------
(***************************************************************************)
(* A call of az by the live backend: AzBackend::run of                     *)
(* src/src/backend/az.rs, that tries up to MaxAttempts times, and each     *)
(* attempt, ProcessAzRunner::run of src/src/az_runner.rs: the child with   *)
(* its two pipes, the two threads that drain them, and the caller, that    *)
(* polls for the child's exit until a deadline, kills it then, and waits a *)
(* bounded time for each thread's buffer.  A process the child has started *)
(* may outlive it and keep the pipes open.                                 *)
(*                                                                         *)
(* Output is counted in pieces, of which a pipe holds PipeSize.  Time is   *)
(* counted in polls and passes only when nothing is due: the caller and    *)
(* the threads are prompt, the child is not, and a kill takes effect at    *)
(* once.  The processes and threads an earlier attempt left behind touch   *)
(* nothing of a later one and are not kept.                                *)
(*                                                                         *)
(* Operators named Faulty... are no part of the model, see AimdLimiter.    *)
(***************************************************************************)
EXTENDS Naturals

CONSTANTS
  CallTimeout,  (* AZ_CALL_TIMEOUT, in polls                              *)
  JoinTimeout,  (* AZ_READER_JOIN_TIMEOUT, in polls                       *)
  MaxAttempts,
  MaxBackoff,   (* bound on a backoff, in polls, for TLC                  *)
  PipeSize,
  MaxOutput     (* bound on what a child writes to a pipe, for TLC        *)

ASSUME RunnerAssumption ==
  /\ CallTimeout \in Nat \ {0} /\ JoinTimeout \in Nat \ {0}
  /\ MaxAttempts \in Nat \ {0} /\ MaxBackoff \in Nat
  /\ PipeSize \in Nat \ {0} /\ MaxOutput \in Nat

Pipes == {"stdout", "stderr"}

\* How az ends: well, or with a message is_transient accepts, or another.
ExitCodes == {"ok", "transient", "permanent"}

VARIABLES
  now,
  child,     (* "running", exited with a code but not waited for, "reaped" *)
  orphan,    (* a process of the child's that outlives it with the pipes
                open: "none", "alive", "gone"                              *)
  output,    (* per pipe, what the child has to write in all               *)
  written, read,
  reader,    (* per pipe, its thread: "reading", "sent" its buffer         *)
  pc, attempt,
  due,       (* when the caller acts next: polls, or stops waiting         *)
  deadline,
  status,    (* what ended the polling, or the attempt to start az         *)
  buffer,    (* per pipe, what the caller got                              *)
  starved    (* history: a child was timed out while a pipe was full       *)

process == <<child, orphan, output, written, starved>>
threads == <<read, reader>>
caller  == <<pc, attempt, due, deadline, status, buffer>>
vars    == <<now, process, threads, caller>>

Nothing == [p \in Pipes |-> 0]

Init ==
  /\ now = 0 /\ child = "reaped" /\ orphan = "none"
  /\ output = Nothing /\ written = Nothing /\ read = Nothing
  /\ reader = [p \in Pipes |-> "reading"]
  /\ pc = "backoff" /\ attempt = 0 /\ due = 0 /\ deadline = 0
  /\ status = "none" /\ buffer = Nothing
  /\ starved = FALSE

-----------------------------------------------------------------------------
(* The child *)

Full(p) == written[p] - read[p] = PipeSize

Write(p) ==
  /\ child = "running" /\ written[p] < output[p] /\ ~Full(p)
  /\ written' = [written EXCEPT ![p] = @ + 1]
  /\ UNCHANGED <<now, child, orphan, output, starved, threads, caller>>

\* It has written everything, a failure its message, and may leave somebody behind.
Exit ==
  /\ child = "running" /\ written = output
  /\ child' \in IF output["stderr"] = 0 THEN {"ok"} ELSE ExitCodes
  /\ orphan' \in {"none", "alive"}
  /\ UNCHANGED <<now, output, written, starved, threads, caller>>

OrphanExit ==
  /\ orphan = "alive"
  /\ orphan' = "gone"
  /\ UNCHANGED <<now, child, output, written, starved, threads, caller>>

-----------------------------------------------------------------------------
(* The threads *)

FaultyCanRead(p) ==         \* reads when the child has ended
  child # "running" /\ reader[p] = "reading" /\ written[p] > read[p]

CanRead(p) == reader[p] = "reading" /\ written[p] > read[p]

Read(p) ==
  /\ CanRead(p)
  /\ read' = [read EXCEPT ![p] = @ + 1]
  /\ UNCHANGED <<now, process, reader, caller>>

\* read_to_end: the pipe is at its end when nobody holds it open for writing.
AtEnd(p) ==
  /\ reader[p] = "reading" /\ written[p] = read[p]
  /\ child # "running" /\ orphan # "alive"

Send(p) ==
  /\ AtEnd(p)
  /\ reader' = [reader EXCEPT ![p] = "sent"]
  /\ UNCHANGED <<now, process, read, caller>>

ThreadsIdle == \A p \in Pipes : ~CanRead(p) /\ ~AtEnd(p)

-----------------------------------------------------------------------------
(* One attempt *)

\* az cannot be started: it is not installed, or the system refuses.
SpawnFails ==
  /\ status' \in {"not_found", "error"}
  /\ pc' = "returned"
  /\ UNCHANGED <<process, threads, due, deadline, buffer>>

SpawnAz ==
  /\ child' = "running" /\ orphan' = "none"
  /\ output' \in [Pipes -> 0..MaxOutput]
  /\ written' = Nothing /\ read' = Nothing
  /\ reader' = [p \in Pipes |-> "reading"]
  /\ pc' = "poll" /\ due' = now /\ deadline' = now + CallTimeout
  /\ buffer' = Nothing /\ status' = "none"
  /\ UNCHANGED starved

Spawn ==
  /\ pc = "backoff" /\ now >= due
  /\ attempt' = attempt + 1
  /\ SpawnFails \/ SpawnAz
  /\ UNCHANGED now

WaitFor(s) ==
  /\ status' = s
  /\ child' = "reaped"
  /\ pc' = "stdout" /\ due' = now + JoinTimeout

\* kill() and wait(); what the child has started lives on.
KillAndWait(s) ==
  /\ WaitFor(s)
  /\ orphan' \in IF child = "running" THEN {"none", "alive"} ELSE {orphan}

Exited ==
  /\ child \in ExitCodes
  /\ WaitFor(child)
  /\ UNCHANGED <<orphan, starved>>

TimedOut ==
  /\ child = "running" /\ now >= deadline /\ ThreadsIdle
  /\ KillAndWait("timed_out")
  /\ starved' = (starved \/ \E p \in Pipes : written[p] < output[p] /\ Full(p))

\* try_wait fails.
Unwaitable ==
  /\ KillAndWait("error")
  /\ UNCHANGED starved

KeepPolling ==
  /\ child = "running" /\ now < deadline
  /\ due' = now + 1
  /\ UNCHANGED <<child, orphan, starved, pc, status>>

FaultyPoll ==               \* no deadline
  /\ pc = "poll" /\ now >= due
  /\ \/ Exited
     \/ child = "running" /\ due' = now + 1 /\ UNCHANGED <<child, orphan, starved, pc, status>>
     \/ Unwaitable
  /\ UNCHANGED <<now, output, written, threads, attempt, deadline, buffer>>

Poll ==
  /\ pc = "poll" /\ now >= due
  /\ Exited \/ TimedOut \/ Unwaitable \/ KeepPolling
  /\ UNCHANGED <<now, output, written, threads, attempt, deadline, buffer>>

\* recv_timeout(...).unwrap_or_default(), first of stdout and then of stderr.
Receive(p) ==
  /\ pc = p
  /\ reader[p] = "sent" \/ (now >= due /\ ThreadsIdle)
  /\ buffer' = [buffer EXCEPT ![p] = IF reader[p] = "sent" THEN read[p] ELSE 0]
  /\ pc' = IF p = "stdout" THEN "stderr" ELSE "returned"
  /\ due' = now + JoinTimeout
  /\ UNCHANGED <<now, process, threads, attempt, deadline, status>>

-----------------------------------------------------------------------------
(* The attempts *)

FaultyRetryable ==          \* takes any failure of az for a permanent one
  status \in {"timed_out", "error"}

\* is_transient reads the message, or what the caller got of it.
IsTransient == status = "transient" /\ buffer["stderr"] > 0

Retryable == status \in {"timed_out", "error"} \/ IsTransient

\* backoff_with_jitter: any pause, and no shorter one than az asked for.
Backoff == 0..MaxBackoff

Judge ==
  /\ pc = "returned"
  /\ \/ /\ Retryable /\ attempt < MaxAttempts
        /\ pc' = "backoff" /\ \E pause \in Backoff : due' = now + pause
     \/ /\ ~Retryable \/ attempt = MaxAttempts
        /\ pc' = "done" /\ UNCHANGED due
  /\ UNCHANGED <<now, process, threads, attempt, deadline, status, buffer>>

Due ==
  \/ pc \in {"backoff", "poll"} \cup Pipes /\ now >= due
  \/ pc \in Pipes /\ reader[pc] = "sent"
  \/ pc = "returned"

Tick ==
  /\ pc # "done" /\ ~Due /\ ThreadsIdle
  /\ now' = now + 1
  /\ UNCHANGED <<process, threads, caller>>

-----------------------------------------------------------------------------

Next ==
  \/ \E p \in Pipes : Write(p) \/ Read(p) \/ Send(p) \/ Receive(p)
  \/ Exit \/ OrphanExit \/ Spawn \/ Poll \/ Judge \/ Tick

Spec == Init /\ [][Next]_vars

-----------------------------------------------------------------------------
(* Properties *)

\* "Bounding it here guarantees a call always returns within a predictable
\* wall-clock budget" (az_runner.rs:23-30): whoever hangs or holds the pipes,
\* an attempt is over, and its child waited for, when its waits have passed, and
\* so is the call.
ReturnsInTime ==
  /\ attempt \in 0..MaxAttempts
  /\ now <= attempt * (CallTimeout + 2 * JoinTimeout + MaxBackoff)
  /\ pc \in {"returned", "backoff", "done"} => child = "reaped"

\* The answer the caller acts on is az's: a success comes with all of its output
\* and a failure az calls transient is given up only after the last attempt,
\* unless somebody outlived the child with a pipe in hand.
AnswerIsWhole ==
  pc = "done" /\ orphan = "none" =>
    /\ status = "ok" => buffer = output
    /\ status = "transient" => attempt = MaxAttempts

\* A call is killed because az is slow, never because az waits for its own pipe
\* to be drained (az_runner.rs:77-84).
NotKilledForItsOutput == ~starved
=============================================================================
