----------------------------- MODULE CrawlCommand -----------------------------
(***************************************************************************)
(* The whole of `azork crawl`, run_crawl of src/src/main.rs: the map that  *)
(* DungeonCrawl builds is written as a snapshot, rendered and written as a *)
(* page, and served by CrawlServer, as the flags of dungeon/cli.rs ask.    *)
(*                                                                         *)
(* The command itself neither cancels the crawl nor drops the server; the  *)
(* functions allow both, other callers do both, and so may the model.  A   *)
(* kill is one of the ways a write may end; elsewhere it leaves nothing    *)
(* behind.  --diff is Atlas's subject.                                     *)
(*                                                                         *)
(* Operators named Faulty... are no part of the model, see AimdLimiter.    *)
(***************************************************************************)
EXTENDS DungeonCrawl, SequencesExt

CONSTANTS
  Clients, Streams, Requests, Backlog, Waker, Nobody,  (* of the server     *)
  Flags      (* --snapshot, --out and --serve                              *)

ASSUME ServerAssumption ==
  /\ Waker \notin Clients /\ Nobody \notin Clients \cup {Waker}
  /\ Backlog \in Nat \ {0}
  /\ \A s \in Streams : s # << >> /\ Last(s) \in {"stall", "eof"}
  /\ Flags = {"snapshot", "out", "serve"}

VARIABLES
  step,      (* what the command does next, or how it ended                *)
  args,      (* CrawlArgs: the flags given                                 *)
  snapshot,  (* the file of --snapshot                                     *)
  page,      (* the file of --out                                          *)
  served, flag, listening, backlog, phase, conn, input, length, holder, sends, fate

Server == INSTANCE CrawlServer

serverVars == <<served, flag, listening, backlog, phase, conn, input, length, holder, sends, fate>>
commandVars == <<vars, step, args, snapshot, page, serverVars>>

NoFile == [status |-> "missing"]
Cut    == [status |-> "cut"]        \* shorter than what was to be written

CommandInit ==
  /\ Init
  /\ step = "crawl" /\ args = {}
  /\ snapshot = NoFile /\ page = NoFile
  /\ Server!Init

-----------------------------------------------------------------------------

Crawl(A) == step = "crawl" /\ A /\ UNCHANGED <<step, args, snapshot, page, serverVars>>

\* build_cancellable has returned: its threads and its limiter are gone.  The
\* flags are read here for the first time.
Assembled ==
  /\ step = "crawl" /\ result.status # "pending"
  /\ args' \in SUBSET Flags
  /\ step' = IF result.status = "map" THEN "snapshot" ELSE "exit1"
  /\ in_flight' = 0 /\ ceiling' = MaxCeiling /\ consecutive_successes' = 0
  /\ waiting' = {} /\ woken' = {} /\ holders' = {}
  /\ idx' = [w \in Workers |-> 0] /\ attempt' = [t \in Threads |-> 0]
  /\ outcome' = [t \in Threads |-> "none"] /\ cursor' = 1
  /\ pc' = [t \in Threads |-> IF t = Main THEN "returned" ELSE "unspawned"]
  /\ UNCHANGED <<cancelled, slots, subscription, partial, result, snapshot, page, serverVars>>

\* fs::write: the file is opened, emptied and filled.  It fails before or after
\* it is emptied, the latter by a kill, too.
Write(file, next) ==
  \/ file' = result /\ step' = next
  \/ UNCHANGED file /\ step' = "exit1"
  \/ file' = Cut /\ step' \in {"exit1", "killed"}

FaultyWriteSnapshot ==      \* takes a partial map
  /\ step = "snapshot"
  /\ IF "snapshot" \in args THEN Write(snapshot, "out")
     ELSE step' = "out" /\ UNCHANGED snapshot
  /\ UNCHANGED <<vars, args, page, serverVars>>

WriteSnapshot ==
  /\ step = "snapshot"
  /\ CASE "snapshot" \notin args -> step' = "out" /\ UNCHANGED snapshot
       [] "snapshot" \in args /\ result.partial -> step' = "exit1" /\ UNCHANGED snapshot
       [] OTHER -> Write(snapshot, "out")
  /\ UNCHANGED <<vars, args, page, serverVars>>

FaultyWritePage ==          \* goes on without it
  /\ step = "out"
  /\ step' = "serve"
  /\ IF "out" \in args THEN page' \in {result, Cut, page} ELSE UNCHANGED page
  /\ UNCHANGED <<vars, args, snapshot, serverVars>>

\* Rendered by render_html in any case: try_render has nothing to offer.
WritePage ==
  /\ step = "out"
  /\ IF "out" \in args THEN Write(page, "serve")
     ELSE step' = "serve" /\ UNCHANGED page
  /\ UNCHANGED <<vars, args, snapshot, serverVars>>

\* The port may be taken.
StartServer ==
  /\ step = "serve"
  /\ \/ "serve" \notin args /\ step' = "exit0" /\ UNCHANGED serverVars
     \/ "serve" \in args /\ step' = "exit1" /\ UNCHANGED serverVars
     \/ "serve" \in args /\ step' = "serving" /\ Server!Serve(result.rooms)
  /\ UNCHANGED <<vars, args, snapshot, page>>

CommandStep == Assembled \/ WriteSnapshot \/ WritePage \/ StartServer

Serving(A) == step = "serving" /\ A /\ UNCHANGED <<vars, step, args, snapshot, page>>

ClientStep ==
  \E c \in Clients, stream \in Streams : Server!Connect(c, stream)

CommandNext ==
  \/ Crawl(Next)
  \/ CommandStep
  \/ Serving(Server!ThreadStep)
  \/ Serving(Server!EndWrite)
  \/ Serving(ClientStep)
  \/ Serving(Server!StoreFlag)
  \/ Serving(Server!Wake \/ Server!Join)

\* The threads of the crawl, the command and the server's thread run while they
\* can, for every az call and every read ends in time, and so does the drop of
\* the handle once it has begun.  A write that waits for its client need not end.
CommandSpec ==
  /\ CommandInit /\ [][CommandNext]_commandVars
  /\ \A t \in Threads : WF_commandVars(Crawl(FairCall(t)))
  /\ \A w \in Workers : WF_commandVars(Crawl(WorkerStep(w)))
  /\ WF_commandVars(Crawl(MainStep))
  /\ WF_commandVars(CommandStep)
  /\ WF_commandVars(Serving(Server!ThreadStep))
  /\ WF_commandVars(Serving(Server!Wake \/ Server!Join))

-----------------------------------------------------------------------------
(* Properties *)

\* A snapshot that can be read is one of a whole subscription, with a room for
\* every well-formed group, in order: what --diff reports as gone was not just
\* left out (main.rs:790-797).
SnapshotWhole ==
  snapshot.status = "map" =>
    /\ ~snapshot.partial
    /\ snapshot.rooms = InOrder(WellFormed)

\* A command that says it went well, or is serving, has written everything it
\* was asked for, and snapshot, page and server show one and the same map; one
\* that was not serves nothing.
OutputsAgree ==
  IF step \in {"exit0", "serving"}
  THEN /\ "snapshot" \in args => snapshot = result
       /\ "out" \in args => page = result
       /\ step = "serving" => served = result.rooms
       /\ "serve" \in args <=> step = "serving"
  ELSE holder = "none"

\* What CrawlServer promises holds of the command's server, too.
EveryoneAnswered == Server!EveryoneAnswered
ShutdownReturns  == Server!ShutdownReturns
=============================================================================
