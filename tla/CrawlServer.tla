----------------------------- MODULE CrawlServer -----------------------------
(***************************************************************************)
(* The server of src/src/dungeon/server.rs: one thread accepts a           *)
(* connection, reads a request from it, answers, and accepts the next; the *)
(* holder of the ServerHandle may drop it at any moment, which sets a      *)
(* flag, connects once to wake the thread and joins it.                    *)
(*                                                                         *)
(* What a client sends is a sequence of what the thread will read:         *)
(*                                                                         *)
(*   "line" "header" "length" "blank"  a line: the request, a header, the  *)
(*                                     header with a length, the blank one *)
(*   "bytes"                           a part of the body                  *)
(*   "long"                            more than MAX_LINE_LEN in a line    *)
(*   "stall"                           nothing for the read timeout        *)
(*   "eof"                             the end, found again by every read  *)
(*                                                                         *)
(* It ends with one of the last two, for nobody sends header lines for     *)
(* ever: the loop over them has no bound of its own.                       *)
(*                                                                         *)
(* Whether a client reads what it is sent is its own affair, and the       *)
(* writes, other than the reads, have no timeout.                          *)
(*                                                                         *)
(* Operators named Faulty... are no part of the model, see AimdLimiter.    *)
(***************************************************************************)
EXTENDS Naturals, Sequences, SequencesExt

CONSTANTS
  Clients,
  Streams,     (* what a client may send                                   *)
  Requests,    (* what it may ask for: [method, path]                      *)
  Backlog,     (* how many connections wait in the listener's queue        *)
  Waker,       (* who makes the connection that wakes the thread           *)
  Nobody

VARIABLES
  served,      (* the rooms of the map                                     *)
  flag,        (* shutdown_flag                                            *)
  listening,   (* the listener is open                                     *)
  backlog,     (* connections not yet accepted                             *)
  phase,       (* where the thread is; "write" is inside write_all         *)
  conn,        (* whose connection it handles                              *)
  input,       (* what is still to be read from it                         *)
  length,      (* content_length > 0                                       *)
  holder,      (* where the owner of the handle is                         *)
  sends,       (* per client whose connection is open, its stream          *)
  fate         (* per client, what became of its connection: the status it *)
               (* was answered, or "dropped" by the thread, "lost" because *)
               (* the client closed it, "failed" because the system did    *)

thread  == <<phase, conn, input, length>>
clients == <<sends, fate>>
vars    == <<served, flag, listening, backlog, thread, holder, clients>>

Init ==
  /\ served = << >> /\ flag = FALSE /\ listening = FALSE /\ backlog = << >>
  /\ phase = "none" /\ conn = Nobody /\ input = << >> /\ length = FALSE
  /\ holder = "none"
  /\ sends = [c \in Clients |-> << >>]
  /\ fate = [c \in Clients |-> "away"]

\* serve: the listener is bound and the thread started.
Serve(rooms) ==
  /\ holder = "none"
  /\ served' = rooms
  /\ listening' = TRUE /\ phase' = "accept" /\ holder' = "holding"
  /\ UNCHANGED <<flag, backlog, conn, input, length, clients>>

\* A client connects as soon as there is room in the queue, thread or no.
Connect(c, stream) ==
  /\ fate[c] = "away"
  /\ listening /\ Len(backlog) < Backlog
  /\ backlog' = Append(backlog, c)
  /\ sends' = [sends EXCEPT ![c] = stream]
  /\ fate' = [fate EXCEPT ![c] = "waiting"]
  /\ UNCHANGED <<served, flag, listening, thread, holder>>

-----------------------------------------------------------------------------
(* The thread *)

\* The connection is closed, and the next one is waited for.
TakeNext ==
  /\ phase' = "accept" /\ conn' = Nobody /\ input' = << >> /\ length' = FALSE
  /\ UNCHANGED <<served, flag, listening, backlog, holder>>

Settled(c, how) ==
  /\ fate' = [d \in Clients |-> IF d = c THEN how ELSE fate[d]]
  /\ sends' = [d \in Clients |-> IF d = c THEN << >> ELSE sends[d]]

\* The thread ends and takes the listener with it: whoever waits is cut off.
Exit ==
  /\ phase' = "exited"
  /\ listening' = FALSE /\ backlog' = << >>
  /\ fate' = [c \in Clients |-> IF fate[c] = "waiting" THEN "dropped" ELSE fate[c]]
  /\ sends' = [c \in Clients |-> << >>]
  /\ conn' = Nobody /\ input' = << >> /\ length' = FALSE
  /\ UNCHANGED <<served, flag, holder>>

\* The flag is looked at for each connection accepted, and only then; it is up
\* when the waking one comes.
Accept ==
  /\ phase = "accept" /\ backlog # << >>
  /\ IF flag THEN Exit
     ELSE /\ phase' = "line"
          /\ conn' = Head(backlog) /\ backlog' = Tail(backlog)
          /\ input' = sends[Head(backlog)]
          /\ length' = FALSE
          /\ UNCHANGED <<served, flag, listening, holder, clients>>

\* Neither a timeout nor a second handle can be had for the connection.
FailSetUp ==
  /\ phase = "line"
  /\ Settled(conn, "failed")
  /\ TakeNext

Read == Head(input)
Rest == IF Read = "eof" THEN input ELSE Tail(input)

To(p) ==
  /\ phase' = p
  /\ input' = Rest
  /\ UNCHANGED <<served, flag, listening, backlog, conn, holder, clients>>

\* The request line.  Nothing at all is an empty one.
ReadRequest ==
  /\ phase = "line" /\ Read \notin {"stall", "long"}
  /\ To("headers")
  /\ UNCHANGED length

\* The end of the input is read as a blank line.
ReadHeader ==
  /\ phase = "headers" /\ Read \notin {"stall", "long"}
  /\ length' = (length \/ Read = "length")
  /\ To(CASE Read \notin {"blank", "eof"} -> "headers"
          [] Read \in {"blank", "eof"} -> IF length THEN "body" ELSE "reply")

\* The body is thrown away, as much of it as came: a part of it may be all that
\* was promised, and no more than MAX_BODY_LEN is read.
ReadBody ==
  /\ phase = "body"
  /\ \/ Read = "bytes" /\ To("body")
     \/ To("reply")
  /\ UNCHANGED length

FaultyFailRead ==           \* the error ends the thread
  /\ phase \in {"line", "headers"} /\ Read \in {"stall", "long"}
  /\ Exit

\* Nothing came in time, or too much: the connection is closed without a word,
\* and the next one is taken.
FailRead ==
  /\ phase \in {"line", "headers"} /\ Read \in {"stall", "long"}
  /\ Settled(conn, "dropped")
  /\ TakeNext

\* route.  Resources are looked up by their ids as rooms are, and left out here.
Route(request) ==
  CASE request.method # "GET" -> "405"
    [] request.method = "GET" ->
         IF \/ request.path \in {<<"index">>, <<"rooms">>}
            \/ \E i \in DOMAIN served : request.path = <<"room", served[i]>>
         THEN "200" ELSE "404"

\* Any request may have been in the line; none was if there was no line.
Status ==
  IF sends[conn] = <<"eof">> THEN {"405"} ELSE {Route(request) : request \in Requests}

\* The answer is written: into the buffers of the socket, if it fits them, as all
\* but pages and lists do; or to nobody, if the client is gone.
Reply ==
  /\ phase = "reply"
  /\ \E status \in Status :
       \/ Settled(conn, status) /\ TakeNext
       \/ Settled(conn, "lost") /\ TakeNext
       \/ /\ status = "200"
          /\ phase' = "write"
          /\ UNCHANGED <<served, flag, listening, backlog, conn, input, length, holder, clients>>

\* A larger answer is written as the client reads it, and lost if the client
\* closes.  If it does neither, the thread stays in write_all for ever.
EndWrite ==
  /\ phase = "write"
  /\ Settled(conn, "200") \/ Settled(conn, "lost")
  /\ TakeNext

ThreadStep ==
  Accept \/ FailSetUp \/ ReadRequest \/ ReadHeader \/ ReadBody \/ FailRead \/ Reply

-----------------------------------------------------------------------------
(* The end of the handle: ServerHandle::drop *)

StoreFlag ==
  /\ holder = "holding"
  /\ flag' = TRUE
  /\ holder' = "flagged"
  /\ UNCHANGED <<served, listening, backlog, thread, clients>>

FaultyWake ==               \* joins at once
  /\ holder = "flagged"
  /\ holder' = "joining"
  /\ UNCHANGED <<served, flag, listening, backlog, thread, clients>>

\* The connection waits for room in the queue, or is refused once the thread
\* has met the flag with another one.
Wake ==
  /\ holder = "flagged"
  /\ \/ listening /\ Len(backlog) < Backlog /\ backlog' = Append(backlog, Waker)
     \/ ~listening /\ UNCHANGED backlog
  /\ holder' = "joining"
  /\ UNCHANGED <<served, flag, listening, thread, clients>>

Join ==
  /\ holder = "joining" /\ phase = "exited"
  /\ holder' = "dropped"
  /\ UNCHANGED <<served, flag, listening, backlog, thread, clients>>

-----------------------------------------------------------------------------
(* Properties *)

\* No client leaves a large answer unread for ever and keeps the connection.
AnswersRead == []<>(phase # "write")

\* Whoever sends a whole request in time and stays is answered, if the server is
\* not shut down meanwhile, whatever others send or fail to send (one connection
\* is handled at a time, and none of them can end the thread), provided that
\* each of them reads what it asked for, or closes, at last.
Whole(stream) ==
  \A i \in DOMAIN stream : stream[i] = "blank" => \A j \in 1..i : stream[j] \notin {"stall", "long"}

EveryoneAnswered ==
  AnswersRead =>
    \A c \in Clients :
      fate[c] = "waiting" /\ Contains(sends[c], "blank") /\ Whole(sends[c])
        ~> fate[c] \in {"200", "404", "405", "lost", "failed"} \/ flag

\* A handle that is dropped comes to its end, in whatever state the thread is
\* and whether or not anybody connects, provided that answers are read at last:
\* the flag is up before the connection that makes the thread look at it.
ShutdownReturns == AnswersRead => (holder = "flagged" ~> holder = "dropped")
=============================================================================
