------------------------------- MODULE Session -------------------------------
(***************************************************************************)
(* An interactive azork session and the two files it keeps, across         *)
(* launches and kills: the main loop of src/src/main.rs (launch, drain of  *)
(* the discovery channel, one line per turn, `learn`, exit), the startup   *)
(* discovery thread of src/src/capabilities/autodiscover.rs, and the       *)
(* loading and saving of the capability cache and of the graph memory.     *)
(*                                                                         *)
(* A capability is abstracted to its command path, <<group, verb>>, its    *)
(* key in the registry; graph memory to the set of paths it has a          *)
(* capability node for.  Help texts are read as HelpText does.  The cache  *)
(* is a text of one line per path; it is written in path order by one      *)
(* fs::write, which truncates first: a write that fails or dies half-way   *)
(* leaves the lines of a prefix, and perhaps one line cut inside its path. *)
(* A cut path of two words parses as a capability that az does not have.   *)
(*                                                                         *)
(* Operators named Faulty... are no part of the model, see AimdLimiter.    *)
(***************************************************************************)
EXTENDS HelpText

CONSTANTS
  AzGroups,     (* the groups `az --help` lists, in its order               *)
  KeySeq,       (* all command paths, cut ones included, in path order      *)
  CapsOf,       (* the paths that az has in a group                         *)
  RootHelp,     (* the texts `az --help` may print                          *)
  HelpOf,       (* the texts `az <group> --help` may print                  *)
  CannedHelp,   (* the texts of mock_learn_runner, for the groups it knows  *)
  CutsOf        (* the paths a line of the cache may be cut to              *)

Groups == {AzGroups[i] : i \in DOMAIN AzGroups}
Keys   == {KeySeq[i] : i \in DOMAIN KeySeq}

ASSUME SessionAssumption ==
  /\ AzGroups \in Seq(Groups) /\ KeySeq \in Seq(Keys)
  /\ \A k \in Keys : k[1] \in Groups
  /\ CapsOf \in [Groups -> SUBSET Keys]
  /\ \A g \in Groups : \A k \in CapsOf[g] : k[1] = g
  /\ DOMAIN HelpOf = Groups /\ DOMAIN CannedHelp \subseteq Groups
  /\ \A g \in Groups : HelpOf[g] \subseteq Seq(Lines)
  /\ CutsOf \in [Keys -> SUBSET Keys]

VARIABLES
  cache,        (* capabilities.tsv: the paths it parses to                *)
  graph,        (* memory.graph: the paths of its capability nodes         *)
  pc,           (* the main thread                                         *)
  backend,      (* whose help `learn` reads: "mock" for that identifier only *)
  registry,     (* CapabilityRegistry                                      *)
  remembered,   (* GraphMemory's capability nodes                          *)
  channel,      (* results sent and not drained                            *)
  cancel,       (* discovery_cancel                                        *)
  scout,        (* the discovery thread                                    *)
  known,        (* its snapshot of registry.groups()                       *)
  missing,      (* the groups it still has to learn                        *)
  \* What a reader of the history would know:
  unsaved,      (* the last write of the cache failed                      *)
  interrupted,  (* some process was killed, or some write failed           *)
  degraded,     (* groups cut by a torn cache, or learned from the canned help *)
  late          (* how many results it sent after the player's first line  *)

files   == <<cache, graph>>
main    == <<pc, backend, registry, remembered>>
thread  == <<scout, known, missing, late>>
history == <<unsaved, interrupted, degraded>>
vars == <<files, main, channel, cancel, thread, history>>

GroupOf(path)  == path[1]
GroupsIn(caps) == {GroupOf(k) : k \in caps}     \* CapabilityRegistry::groups

-----------------------------------------------------------------------------
(* What az is found to say *)

Learned(g, text) == [ok |-> TRUE, group |-> g, caps |-> DeriveGroupCapabilities(g, text)]
NotLearned(g)    == [ok |-> FALSE, group |-> g, caps |-> {}]

\* `az <group> --help`: its list, nothing (the runner gives up on a pipe that
\* stays open), or an error.
AzAnswers ==
  [g \in Groups |-> {Learned(g, text) : text \in HelpOf[g] \cup {<< >>}} \cup {NotLearned(g)}]

MockAnswer ==
  [g \in Groups |-> IF g \in DOMAIN CannedHelp THEN Learned(g, CannedHelp[g]) ELSE NotLearned(g)]

\* `az --help`, when it is no error.
GroupLists == {DeriveGroups(text) : text \in RootHelp \cup {<< >>}}

-----------------------------------------------------------------------------
(* The files *)

\* What an interrupted write of `caps` may leave of the cache.
TornCaches(caps) ==
  LET written(n) == {KeySeq[i] : i \in 1..n} \cap caps
  IN  UNION {{written(n)} \cup
             {written(n) \cup {c} : c \in IF n < Len(KeySeq) /\ KeySeq[n + 1] \in caps
                                          THEN CutsOf[KeySeq[n + 1]] ELSE {}}
             : n \in 0..Len(KeySeq)}

\* Node lines are written in the order of the id strings (n1, n10, n2), which
\* is any order for paths: a torn memory.graph holds any of them.
TornGraphs(caps) == SUBSET caps

SaveCache ==
  /\ cache' = registry
  /\ unsaved' = FALSE
  /\ UNCHANGED <<interrupted, degraded>>

\* fs::write failed, before the truncation or after: a warning, and no retry.
SaveCacheFailed ==
  /\ cache' \in {cache} \cup TornCaches(registry)
  /\ unsaved' = TRUE
  /\ interrupted' = TRUE
  /\ degraded' = IF cache' = cache THEN degraded ELSE Groups

-----------------------------------------------------------------------------
(* Launch and exit *)

Down == pc = "down"

Init ==
  /\ cache = {} /\ graph = {}
  /\ pc = "down" /\ backend = "mock"
  /\ registry = {} /\ remembered = {}
  /\ channel = << >> /\ cancel = FALSE
  /\ scout = "off" /\ known = {} /\ missing = << >>
  /\ unsaved = FALSE /\ interrupted = FALSE /\ degraded = {}
  /\ late = 0

\* Both files are recalled, then the discovery thread starts, unless it is
\* disabled, with a snapshot of the groups known.
Launch ==
  /\ Down
  /\ pc' = "drain"
  /\ backend' \in {"mock", "az"}
  /\ registry' = cache
  /\ remembered' = graph
  /\ channel' = << >>
  /\ cancel' = FALSE
  /\ scout' \in {"off", "start"}
  /\ known' = GroupsIn(cache)
  /\ missing' = << >>
  /\ late' = 0
  /\ unsaved' = FALSE
  /\ UNCHANGED <<files, interrupted, degraded>>

\* The process is gone, and with it the thread and the channel.
Gone ==
  /\ pc' = "down"
  /\ backend' = "mock"
  /\ registry' = {}
  /\ remembered' = {}
  /\ channel' = << >>
  /\ cancel' = FALSE
  /\ scout' = "off"
  /\ known' = {}
  /\ missing' = << >>
  /\ late' = 0
  /\ unsaved' = FALSE

\* Only the graph memory is saved on the way out.
Exit ==
  /\ pc = "exit"
  /\ \/ graph' = remembered /\ UNCHANGED interrupted
     \/ graph' \in {graph} \cup TornGraphs(remembered) /\ interrupted' = TRUE
  /\ Gone
  /\ UNCHANGED <<cache, degraded>>

\* A signal, a panic or a power cut, perhaps in the middle of a write.
Kill ==
  /\ ~Down
  /\ cache' \in {cache} \cup IF pc \in {"save", "learned"} THEN TornCaches(registry) ELSE {}
  /\ graph' \in {graph} \cup IF pc = "exit" THEN TornGraphs(remembered) ELSE {}
  /\ Gone
  /\ interrupted' = TRUE
  /\ degraded' = IF cache' = cache THEN degraded ELSE Groups

-----------------------------------------------------------------------------
(* The main loop *)

Extended(reg, results) ==
  reg \cup UNION {results[i].caps : i \in {j \in DOMAIN results : results[j].ok}}

FaultyDrain ==              \* an error in the batch returns before the save
  /\ pc = "drain"
  /\ LET gained == {channel[i].group : i \in
                      {j \in DOMAIN channel : channel[j].ok /\ ~(channel[j].caps \subseteq registry)}}
         caps == Extended(registry, channel)
     IN  /\ registry' = caps
         /\ remembered' = remembered \cup {k \in caps : GroupOf(k) \in gained}
         /\ pc' = IF gained # {} /\ \A i \in DOMAIN channel : channel[i].ok
                  THEN "save" ELSE "prompt"
  /\ channel' = << >>
  /\ UNCHANGED <<files, backend, cancel, thread, history>>

\* drain_discovery: all results that have arrived are applied to the registry,
\* then every path of a group that gained one is remembered, known or not.
Drain ==
  /\ pc = "drain"
  /\ LET gained == {channel[i].group : i \in
                      {j \in DOMAIN channel : channel[j].ok /\ ~(channel[j].caps \subseteq registry)}}
         caps == Extended(registry, channel)
     IN  /\ registry' = caps
         /\ remembered' = remembered \cup {k \in caps : GroupOf(k) \in gained}
         /\ pc' = IF gained # {} THEN "save" ELSE "prompt"
  /\ channel' = << >>
  /\ UNCHANGED <<files, backend, cancel, thread, history>>

DrainSave ==
  /\ pc = "save"
  /\ SaveCache \/ SaveCacheFailed
  /\ pc' = "prompt"
  /\ UNCHANGED <<graph, backend, registry, remembered, channel, cancel, thread>>

\* End of input: out of the loop before the flag is set.
EndOfInput ==
  /\ pc = "prompt"
  /\ pc' = "exit"
  /\ UNCHANGED <<files, backend, registry, remembered, channel, cancel, thread, history>>

\* A line that changes neither the registry nor the capability nodes.
OtherLine ==
  /\ pc = "prompt"
  /\ cancel' = TRUE
  /\ pc' = "turn_end"
  /\ UNCHANGED <<files, backend, registry, remembered, channel, thread, history>>

Quit ==
  /\ pc = "prompt"
  /\ cancel' = TRUE
  /\ pc' = "exit"
  /\ UNCHANGED <<files, backend, registry, remembered, channel, thread, history>>

\* The mock runner knows its canned texts only.
LearnAnswers(g) == IF backend = "az" THEN AzAnswers[g] ELSE {MockAnswer[g]}

FaultyLearn(g) ==           \* remembers before it extends
  /\ pc = "prompt"
  /\ cancel' = TRUE
  /\ \E a \in LearnAnswers(g) :
       IF a.ok
       THEN /\ registry' = registry \cup a.caps
            /\ remembered' = remembered \cup {k \in registry : GroupOf(k) = g}
            /\ degraded' = IF backend = "mock" THEN degraded \cup {g} ELSE degraded
            /\ pc' = "learned"
       ELSE /\ pc' = "turn_end"
            /\ UNCHANGED <<registry, remembered, degraded>>
  /\ UNCHANGED <<files, backend, channel, thread, unsaved, interrupted>>

\* learn: extend, remember every path of the group, save the cache; the next
\* step saves.  An error changes nothing.
Learn(g) ==
  /\ pc = "prompt"
  /\ cancel' = TRUE
  /\ \E a \in LearnAnswers(g) :
       IF a.ok
       THEN /\ registry' = registry \cup a.caps
            /\ remembered' = remembered \cup {k \in registry' : GroupOf(k) = g}
            /\ degraded' = IF backend = "mock" THEN degraded \cup {g} ELSE degraded
            /\ pc' = "learned"
       ELSE /\ pc' = "turn_end"
            /\ UNCHANGED <<registry, remembered, degraded>>
  /\ UNCHANGED <<files, backend, channel, thread, unsaved, interrupted>>

LearnSave ==
  /\ pc = "learned"
  /\ SaveCache \/ SaveCacheFailed
  /\ pc' = "turn_end"
  /\ UNCHANGED <<graph, backend, registry, remembered, channel, cancel, thread>>

\* The Grue check: devoured, the loop ends before its next drain.
TurnEnd ==
  /\ pc = "turn_end"
  /\ pc' \in {"drain", "exit"}
  /\ UNCHANGED <<files, backend, registry, remembered, channel, cancel, thread, history>>

-----------------------------------------------------------------------------
(* stream_startup_autodiscovery *)

Send(r) ==
  /\ channel' = Append(channel, r)
  /\ late' = IF cancel THEN late + 1 ELSE late

\* The flag is tested once before az is asked for anything.
ScoutStart ==
  /\ scout = "start"
  /\ scout' = IF cancel THEN "done" ELSE "listing"
  /\ UNCHANGED <<files, main, channel, cancel, known, missing, late, history>>

\* `az --help`: an error is reported without a group, and is the end; silence
\* is a list of none.
ScoutList ==
  /\ scout = "listing"
  /\ \/ /\ \E all \in GroupLists :
             missing' = SelectSeq(all, LAMBDA g : g \notin known)
        /\ scout' = "next"
        /\ UNCHANGED <<channel, late>>
     \/ /\ Send(NotLearned(""))
        /\ scout' = "done"
        /\ UNCHANGED missing
  /\ UNCHANGED <<files, main, cancel, known, history>>

FaultyScoutNextDeaf ==      \* tests the flag at the start only
  /\ scout = "next"
  /\ scout' = IF missing = << >> THEN "done" ELSE "deriving"
  /\ UNCHANGED <<files, main, channel, cancel, known, missing, late, history>>

FaultyScoutNextPause ==     \* waits for the player to finish
  /\ scout = "next"
  /\ missing = << >> \/ ~cancel
  /\ scout' = IF missing = << >> THEN "done" ELSE "deriving"
  /\ UNCHANGED <<files, main, channel, cancel, known, missing, late, history>>

\* The flag again, before each group.
ScoutNext ==
  /\ scout = "next"
  /\ scout' = IF missing = << >> \/ cancel THEN "done" ELSE "deriving"
  /\ UNCHANGED <<files, main, channel, cancel, known, missing, late, history>>

FaultyScoutDerive ==        \* cut short by the flag, sends what it has
  /\ scout = "deriving"
  /\ \E caps \in IF cancel THEN SUBSET CapsOf[Head(missing)] ELSE {CapsOf[Head(missing)]} :
       Send([ok |-> TRUE, group |-> Head(missing), caps |-> caps])
  /\ missing' = Tail(missing)
  /\ scout' = "next"
  /\ UNCHANGED <<files, main, cancel, known, history>>

\* `az <group> --help`, never the canned runner, and the result is sent.
ScoutDerive ==
  /\ scout = "deriving"
  /\ \E g \in Groups : g = Head(missing) /\ \E a \in AzAnswers[g] : Send(a)
  /\ missing' = Tail(missing)
  /\ scout' = "next"
  /\ UNCHANGED <<files, main, cancel, known, history>>

-----------------------------------------------------------------------------

Scout == ScoutStart \/ ScoutList \/ ScoutNext \/ ScoutDerive

Turn ==
  \/ Drain \/ DrainSave
  \/ EndOfInput \/ OtherLine \/ Quit
  \/ \E g \in Groups : Learn(g)
  \/ LearnSave \/ TurnEnd

Next == Launch \/ Turn \/ Exit \/ Kill \/ Scout

Spec == Init /\ [][Next]_vars

\* The discovery thread is scheduled, and each of its az calls ends: the runner
\* kills it after its time limit.
FairSpec == Spec /\ WF_vars(Scout)

-----------------------------------------------------------------------------
(* Properties *)

\* At the prompt nothing learned is in the process alone: what is on disk is
\* what a new launch would need to know as much, whether the paths came over
\* the channel, by `learn`, or both (README.md:144-147).  After a failed write
\* this holds again from the next successful one on.
CacheFollowsRegistry == ~unsaved => cache = registry

\* Registry and graph memory are in step, as long as no process was killed and
\* no write failed in between (memory/mod.rs:353-354).
InStepUninterrupted == ~interrupted => registry = remembered

\* The three places a command path is kept in agree whenever the player may
\* type, though two threads find paths and each place is written on its own.
StoresAgree == pc = "prompt" => CacheFollowsRegistry /\ InStepUninterrupted

\* A group of which anything is known is known as az has it, no path missing
\* and none invented, unless a torn cache or the canned help gave it: whatever
\* the layout of the help text (derive.rs:91-95), and though discovery may be
\* cancelled between two lines (docs/AUTODISCOVERY.md).  A group that is known is
\* never asked for again, so what is wrong then would stay wrong.
KnownGroupsWhole ==
  \A g \in GroupsIn(registry) \ degraded : {k \in registry : GroupOf(k) = g} = CapsOf[g]

\* Once the player has typed a line, at most one more result arrives: the flag
\* is read before each az call and not after.
OneLateResult == late <= 1

\* Once the player has typed a line, the discovery thread ends.
DiscoveryStops == cancel ~> (scout \in {"done", "off"})
=============================================================================
