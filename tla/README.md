# A TLA+ model of AzZork

AzZork (`azork`) shows a Microsoft Azure subscription as a text adventure:
resource groups are rooms, resources are objects, what is insecure or costly is
a hazard, and the Grue lives where nothing is monitored.  Around the game are a
concurrent crawler that maps a subscription as a dungeon, a thread that
discovers what the `az` CLI can do, two knowledge files, a self-updater, and an
agent that tests the program against a live subscription.

This directory holds TLA+ modules translated from the Rust sources under
`src/src/`, TLC configurations that check them on small instances, and proofs
for the TLA+ proof system.  `PROJECT.json` maps every definition to the lines it
models and lists the runs, the hazards, the findings, and, for each property, a
mutant: a plausible bug in the code (an operator named `Faulty...`, beside the
definition it is a variation of) that the property catches.

To check a module: `tlc -config MCSession.cfg MCSession`.  To check the proofs:
`tlapm Session_proofs.tla`, and so for each module whose name ends in `_proofs`.

## 1. Inventory

Paths are relative to `src/src/`.

| Component | State | Operations | Interacts with | Modules |
|---|---|---|---|---|
| Crawl: limiter (`dungeon/concurrency.rs`) | mutex-protected `in_flight`, `ceiling`, `consecutive_successes`; one condition variable; live `Permit`s | `acquire`, `Permit::drop`, `report_success`, `report_throttle` | every crawl thread | `GatedPool`, `AimdLimiter`, `AimdLimiter_proofs` |
| Crawl: enumeration (`dungeon/map.rs`) | cancel flag, group cursor, one slot per room, subscription, `partial`; per thread the group, attempt and outcome | `build_cancellable`, `process_one_group`, `call_with_throttle_retry`, `CancelToken::cancel` | limiter (every az call holds a permit), the caller (cancel, result) | `CrawlContract`, `DungeonCrawl`, `Crawl_proofs` |
| Crawl: command (`run_crawl` in `main.rs`) | snapshot file, page, handle of the server | crawl, write the snapshot, write the page, serve | enumeration (its map), file system, server | `CrawlCommand`, `Crawl_proofs` |
| Crawl: server (`dungeon/server.rs`) | listener, shutdown flag, the connection being served | accept, read a bounded request, route, answer; drop of the handle | clients, the command | `CrawlServer` |
| Interactive session (`main.rs`) | registry, graph memory, world, cancel flag, channel | launch, `drain_discovery`, one line per turn, `learn`, saves, exit | discovery thread (channel, flag), both files, world | `Session`, `Session_proofs` |
| Capability discovery and cache (`capabilities/`) | snapshot of the known groups, list of the missing ones; `capabilities.tsv` | `discover_new_groups`, derive a group from its help text, send; `save`, `load` | session, az | `Session`, `HelpText`, `Session_proofs` |
| Graph memory (`memory/mod.rs`, `record_room` in `main.rs`) | nodes, edges, logical clock, id sequence; `memory.graph` | `remember`, `remember_room`, `remember_resource`, `record_intent`, `save`, `load` | session, world, scrubbing | `GraphMemory`, `Memory_proofs` |
| Durable memory store (`src/memory-store/`) | experiences in an external store, oldest and newest copies side by side | `open`, `save`, `load` | graph memory (a snapshot of it), the experience library | `MemoryStore`, `Memory_proofs` |
| Secret scrubbing (`secrets.rs`) | none | `scrub`: three passes over a text | everything that keeps or shows text of az or of the player | `Scrub`, `Memory_proofs` |
| Game world (`world.rs`, `quests.rs`) | rooms, resources in rooms and in the inventory, their flags and cost, streak in the dark | go, take, drop, lock, unlock, resize, monitor, `grue_check`; score, badges, quests | session (a line a turn), backend (built once) | `World`, `World_proofs` |
| Backends (`backend/`) | none: the world is built once | select, `build_world` of the three estates, `World::new` | az invocation, world | `Estate` |
| Self-update (`update/`) | executable, `.installed-version`, `last_update_check`, temporary files; per process its step and resolved release | startup check, `azork update`, download and verify, swap, stamp | other azork processes of the installation, GitHub | `Update`, `Update_proofs` |
| Outside-in-testing agent (`bin/azork-oit.rs`, `oit/guardrails.rs`) | the groups of a subscription and their tags; per run its list and position | preflight, create, list, look at tags, delete | other runs, other people, az | `OitAgent`, `AzRunner_proofs` |
| az invocation (`az_runner.rs`, `AzBackend::run`) | child process, two pipes and their threads, deadline, attempt | spawn, poll, kill, wait, bounded read, retry | everything that calls az | `AzRunner`, `AzRunner_proofs` |
| Layout, snapshots and their comparison (`dungeon/map.rs`, `run_crawl` in `main.rs`, `dungeon/diff.rs`) | the groups and resources listed so far; snapshot files | place rooms, write a snapshot, compare two | crawl, the subscription as others change it | `Atlas`, `Atlas_proofs` |
| Rendering (`dungeon/render.rs`, `dungeon/decorations.rs`) | none | rooms, icons, corridors and border art of a map | layout (cells, edges), server and page | `Render`, `Atlas_proofs` |
| Tables and texts of the crawl (`dungeon/cli.rs`, `icons.rs`, `links.rs`, `commands.rs`, ...) | none | flags, escaping, icons, links, suggested commands | | not modelled: tables and text |
| Intent resolution, use-case catalog, report | none that changes | rank suggestions, detect friction by substrings | | not modelled: sequential text processing |
| `azext`, `install.sh`, `scripts` | | wrapper, packaging | | not modelled |

### What is hard, and what makes each component correct

* **Limiter.** Two ways past the same mutex (a barging `acquire`, a thread woken
  by the condition variable), one `notify_one` per dropped permit, a ceiling that
  shrinks below what is in flight, and a `report_success` that must wake threads
  although no permit was dropped.  Correct: permits are counted exactly; no slot
  is idle beside a parked thread; the ceiling bounds what is admitted.
* **Crawl.** Workers race on a cursor, publish to two separately locked places,
  are throttled, retry, fail, and are cancelled between any two steps.  Correct:
  each well-formed group has one room, in the order az listed them, unless the
  map says it is partial; no permit is held outside a call; the crawl returns.
* **Crawl command and server.** Snapshot, page and port are had one after the
  other, and each may fail after the ones before succeeded; one thread serves
  clients that stall, close and flood; the thread sees the shutdown flag only when
  a connection comes.  Correct: a snapshot is whole or absent, what is written and
  what is served agree; whoever sends a request is answered, and the shutdown comes to
  its end, as long as clients read what they asked for.
* **Session.** Results arrive at any moment and are drained once a turn; the
  player's first line cancels the thread but cannot stop the call that runs; two
  files are saved at different moments by writes that truncate first; the process
  can be killed anywhere.  Correct: what is at the prompt is on disk; registry
  and memory agree; a group is known as a whole or not at all, however its help text
  is laid out.
* **Graph memory.** Ids and ticks continue across sessions from a file that may
  have been cut anywhere.  Correct: ids are never reused, recency is a strict
  order, rooms and links are not duplicated by seeing them again.
* **Durable store.** A save adds copies beside the older ones and may stop after
  any node; a load chooses a copy per node; texts are trimmed and cut on their way
  in.  Correct: a load gives back the last whole snapshot, as the store holds it.
* **Scrubbing.** Three passes, each over what the one before left, over texts that
  were scrubbed before.  Correct: what a pass should see is not hidden by another;
  a second scrubbing changes nothing; nothing secret is kept in any store.
* **Backends.** Grids whose last row is short, a chain that a cap cuts off,
  listings that fail.  Correct: each room can be reached and left again, and the
  world is refused for want of an answer only.
* **World.** Words name resources by prefix, in the room and in the inventory,
  with different precedence per command.  Correct: a resource is in one place;
  only an unlocked one that is carried or lit is destroyed; the Grue warns
  first; score and badges agree.
* **Self-update.** No lock anywhere: processes meet at two fixed temporary names
  and at the executable itself, and are killed between any two steps.  Correct:
  the executable is always whole and verified; a version goes back only if
  updates overtake one another; readers find whole files.
* **az invocation.** A child, two threads and the caller, three clocks, and a
  process that may outlive the child with the pipes in its hands.  Correct: a call
  returns in time and leaves no zombie; what it returns is what az said; it is
  never killed for waiting on its own pipe.
* **Layout and comparison.** Groups are listed once and their resources later,
  in any order, while others change the subscription; homes of rooms collide at
  the border of the grid.  Correct: one room per cell, and room for all
  that is drawn in and between the cells; the map depends on the
  subscription and not on the order of the list; the comparison is right about
  whatever did not change while somebody looked.
* **Agent.** Tags are read and then a group is deleted by name; runs share one
  name and a subscription with other people.  Correct: nobody else's group is
  deleted; a clean teardown leaves nothing; only the expected subscription is
  touched.

## 2. Modules and the code

Actions are atomic where the code is: a critical section of a mutex, one az
call with its outcome, one file operation, one turn of a loop that shares
nothing.  The operators carry the names of the Rust functions where there are
any.  Outcomes of az are left open outside `AzRunner`: each call succeeds, fails, is
throttled or answers garbage, as far as its caller tells these apart.

**`GatedPool`** is what the limiter promises: a set of permit holders and a
limit that moves up by one and down by halves; a thread is admitted below the
limit only, and moving the limit takes no permit away.

**`AimdLimiter`** is `AimdLimiter` of `concurrency.rs`.  A thread is outside, in
`waiting` (parked, mutex released), in `woken` (notified, still to lock the
mutex and test the condition again), or in `holders`.  `Acquire`, `Resume`,
`Drop`, `ReportSuccess` and `ReportThrottle` are one critical section each;
`SpuriousWake` is what `Condvar` permits.  `ImplementsPool` maps `ceiling` to
the pool's limit; the mutex, the streak and the counter become stuttering.

**`CrawlContract`** is what `build_cancellable` promises: one answer, an error
before anything was observed, a complete map, or, if the caller asked to stop, a
partial one.

**`DungeonCrawl`** instantiates `AimdLimiter` on its own variables and adds
`pc`, the cursor, the slots, the subscription and the flags.  An az call is
`BeginCall` (a conjunct of the step before), `AcquirePermit`, `RunAz` (which
drops the permit before looking at the outcome, as the code does), then
`ReportSuccess`, `RetryThrottled` or `GiveUp`.  A worker loops through
`PassCheck`, `Claim`, `StartGroup`, the call, `PublishSubscription` and
`StoreRoom`; the main thread through `Start`, its call, `Spawn` (or
`ListFailed`) and `Join`.

**`CrawlServer`** has the thread of `serve` (its step of a connection, from
`Accept` through the reading of the request line, the headers and the body to
`Reply`), the clients, who may connect, send whole or cut or oversized requests,
stall or leave, and the two halves of `ServerHandle::drop`: `StoreFlag`, then
`Wake` and `Join`.  Reads of a connection have a timeout, writes have none:
`Reply` completes an answer that fits the buffers of the socket, loses it to a
client that has gone, or goes to the phase "write", where the thread stays until the client
reads or closes (`EndWrite`), which it need never do.

**`CrawlCommand`** EXTENDS `DungeonCrawl` with what `run_crawl` does with the map:
`WriteSnapshot`, `WritePage`, `StartServer`, each of which may fail, and a write
of which may stop half-way, by an error or by a kill; it instantiates
`CrawlServer` on its own variables.  The command itself never cancels the crawl and
never drops the handle: it serves until it is killed.  `Cancel` and the drop are
there for the callers of the library, the tests among them.

**`Session`** has both threads of an interactive process and both files, over
any number of launches.  `cache` and `graph` are what the files parse to;
`TornCaches` is what a write that dies half-way leaves (lines in path order, the
last one perhaps cut inside its path, which parses as another capability).
`scout` is the discovery thread.  The effects of a line on the world and the
nodes of the memory are not repeated here: a line either changes the registry
(`Learn`) or does not (`OtherLine`).

**`HelpText`** is `capabilities/derive.rs` on lines of words; `Session` EXTENDS it,
and discovery and `learn` read what az prints with it, in several layouts for one
group (`HelpOf`).  What az has is a constant of its own (`CapsOf`), with which
`KnownGroupsWhole` compares what was learned.

**`GraphMemory`** keeps nodes as (kind, label, touch) under numbers for the ids
`n1`, `n2`, ...; `record_room` is unrolled into the visits it makes; `Exit`
writes the file, `ExitTorn` a part of it, and `Launch` reads it unchecked, as `load` does.
The map of a torn save lists what `load` makes of each cut.  Labels are texts, and
`Created` scrubs them as `remember` does.

**`Scrub`** is `scrub` on texts of tokens, for the scrubbing to be about something:
a token is a run of characters that the passes cannot tell apart (a key word, a
space, a word, a JWT).  The passes are folds, each with the state the code keeps
while it walks over the text.  `Settles`, `LeavesAlone` and `Hides` are what is asked
of them; `Findable` says where a shape of a secret can be found, for text before it
can take the start of the shape for its own secret: after a bare `key:` that is
the next word, with any number of spaces between (`secrets.rs:141-157`).

**`MemoryStore`** EXTENDS `GraphMemory` with an external store of experiences:
`SaveStore` adds a copy of every node, or of some before it fails, `LoadStore`
takes for each id the copy touched last and, of edges, those of the copies taken.
The library is modelled from how the crate uses it; in which order it returns
records is the constant `Retrieved`.  What the store holds of a node is not the node
(`Held`): its text is scrubbed, trimmed, cut to `MaxText`, and replaced by the label if
nothing is left of it (`Clip`).  A cut is made between two tokens here, so a redaction is
cut off as a whole, where the code may keep the beginning of one.  Labels are left as they
are: names of Azure and keys of commands have no white space around them and stay
far below the 500 characters a label is cut to.

**`Estate`** is the three backends as operators: from what a launch asks for and
what az answers to the rooms, and from the rooms to the world or its refusal
(`WorldNew`).

**`World`** EXTENDS `Estate` and plays on the estate of any of the launches it is
given.  It has one action per command that changes the world and `GrueCheck`
after each line.  A target is a word; `FindByName` is the code's (exact name
first, then the first prefix).  Score, badges and quests are operators that count as the code counts.

**`Update`** has, per process, the steps from launch to stamp, and on disk the
executable and two small files with their temporary names.  A file is what it
holds and who has it open for writing, so that a write through a handle follows
the file through a rename.  Releases are published and withdrawn at any time, so
the newest release is chosen afresh at each query; a download brings what is
published, something else, or nothing, and `VerifySha256` decides.

**`OitAgent`** has, per run of the agent, preflight, creation and the loop of
the teardown; other people create (`Found`) and delete (`Remove`) groups
between any two steps.  `maker` remembers who made a group.

**`AzRunner`** is one call of the backend, attempt by attempt: the child
(`Write`, `Exit`, and the process it may leave behind), the threads (`Read`,
`Send`) and the caller (`Spawn`, `Poll`, `Receive` for each pipe, `Judge`).
Output is counted in pieces.  Time passes (`Tick`) only when neither the caller
nor a thread has anything to do, so that a deadline that passes is the child's
fault; without this assumption a busy machine could kill any call.

**`Atlas`** has the subscription with everything others do to it, a crawl that
lists the groups in any order and then each group's resources at a later moment
(or fails to), the placement of the rooms (`Home`, `RingOffsets`,
`NearestFreeCell`, `Place`), the snapshots, and their comparison (`DiffMaps`).
The hash of a name is a constant function that is chosen from `Fines`.  How the
workers share the listing is `DungeonCrawl`'s subject.

**`Render`** EXTENDS `Atlas` with the geometry of the page: `RoomLayout` is
computed from the number of resources, `CellSize` from the largest room, and boxes of
rooms, icons, corridors and border art follow, in the pixels of the code.

History variables (what a reader of the history would know, and the program does
not) are marked as such in the modules and guard no action.

## 3. Runs

| Run | Instance | What it shows |
|---|---|---|
| `limiter` | 5 threads, ceiling up to 4 | exact counting, no idle slot beside a parked thread, refinement of `GatedPool` |
| `crawl` | 2 workers, 3 groups (one malformed, two subscriptions), 2 attempts, 2 clients | completeness unless partial, the subscription is one that was observed, permits in calls only, termination, refinement of `CrawlContract`; whole snapshots, outputs that agree, answers for everyone and a shutdown that returns, if no client leaves its answer unread for ever |
| `crawl_partial` | 2 workers | *finding*: a map with unobserved rooms is not marked partial |
| `session` | 2 groups, 4 command paths, any number of launches | cache, registry and memory agree at the prompt unless a write failed or a process was killed, groups known as az has them whatever the layout of the help, at most one late result, the thread ends |
| `memory` | 2 rooms that share the name of a resource, notes with secrets, an empty and a long one, 7 ticks, 3 saves to the store | sequence and clock ahead of all nodes, a sound graph (connected and unique edges, rooms linked and not duplicated), over saves, torn saves and launches; a load gives back the last whole snapshot, with every text that fits the store unchanged; no secret is kept; scrubbing is sound on every text of three tokens |
| `world` | the hand-authored estate, 20 launches with az, 12 sizes of generated ones and 32 of the smallest with resources | a sound estate, one place per resource, destruction only of what is unlocked and carried or lit, the Grue warns first, score, badges and quests agree |
| `update` | 2 processes, 3 versions, 2 moments | sound executable, whole files, true stamp, rollback only when overtaken, cooldown |
| `update_stamp` | 1 process that updates twice, 3 versions | *finding*: the stamp of an old version is not healed |
| `oit` | 2 runs, 3 names | others' groups survive, clean teardown |
| `oit_foreign` | the same, others may use the agent's name | *finding*: a group of that name is taken over and deleted |
| `az_call` | 3 attempts, up to 2 pieces per pipe of size 1, waits of 2 polls | the call returns in time, no zombie; its answer is az's; no child starves at its pipe |
| `atlas` | 3 groups, 2 regions, 2 resources, 2 changes, 17 icons each, any listing order | a sound picture (rooms apart, icons inside, corridors from wall to wall, border art in the margin), stable layout, true comparison |

Each run with *finding* checks a statement of the repository's own docs or
comments, and TLC finds the code not to keep it; `PROJECT.json` quotes them.

Bounds, and why they are enough:

* Limiter: five threads and a ceiling of four let a thread be parked, one be
  woken and one barge in, all while a ceiling of 4 is halved twice below what is
  in flight.  The proofs cover every other number.
* Crawl: with two workers on three groups a worker can find the cursor at the end,
  one can be parked, and two can publish at once; the limiter has more threads in
  its own run.  Two attempts (`MaxThrottleAttempts`, 4 in the code) show a retry and
  the last attempt.  Two clients let one wait while the other is served.
* Session: one group learned by discovery alone and one that the canned help
  covers in part; the paths have a cut that parses; the help texts have two layouts
  of one group, a tag, a wrapped summary with a colon in it and foreign sections.
  No bound on launches, kills or lines: the state is finite.
* Memory: `MaxClock` bounds the ticks of the logical clock, and with them the
  nodes; 7 ticks allow both rooms to be seen in one session and seen again in
  the next.  `MaxSaves` (3) lets two copies of a node meet a third.  `MaxText` is 3 tokens (1000
  characters in the code): one of the notes is as long as that once it is scrubbed, one is longer,
  and one is empty.  `ProbeLength`
  is the length of the texts on which scrubbing is compared with its definition:
  a header word, a space and a secret.
* World: the hand-authored estate is the code's, the words name two of its
  resources.  Generated estates go to eleven rooms (rows of four, the last one
  short), those with resources to two.  `DarkPeriod` is 3 (11 in the code), so that
  dark rooms are neighbours; `CostUnit` counts costs in hundreds.  At most three rooms
  of four groups are mapped and two listed (40 and 8 in the code).  `StreakCap` bounds
  the streak at the turn after which the code's odds no longer change, so it cuts
  nothing off.
* Update: two processes overtake one another at every step; the third version
  is needed for an update to be overtaken by a newer one, and, in `update_stamp`, for
  a stamp to be there before the one that is missed.  `MaxNow` (2) and a
  cooldown of one tick distinguish "within" from "after" the cooldown.
* az call: a pipe of one piece and outputs of up to two make a child wait for a
  reader; two polls of time tell a late exit from one after the deadline; three
  attempts are the code's `MAX_ATTEMPTS`.  `MaxBackoff` bounds a pause, which in the
  code has no bound if az prints a large `Retry-After`.
* Atlas: three groups make a room fight for a cell with one that is at home and
  one that was moved.  A wing of two by two cells and a reach of one ring
  (`WING_SIZE` 6 and 63 rings in the code) let all three collide in the corner of
  the grid, where only three cells of the ring exist.  Two changes are enough for
  something to change during a crawl and something between two.  `Bulk` makes each
  resource seventeen: rooms have one size up to six resources and grow in both
  directions from ten on, so that the rooms of a map have three sizes.
* Agent: two runs share the fixed name; the other two names are someone's group
  with and without the agent's prefix.

Deadlock is checked except where the program may stop: a crawl that returned
and a command that ended (`DungeonCrawl`, `CrawlCommand`), a game that is over or a launch that failed (`World`), a clock at its bound
(`MemoryStore`), a call that returned (`AzRunner`), two snapshots compared
(`Atlas`).

### Fairness

* `CrawlCommand!CommandSpec`, for the crawl: weak fairness of each thread's own
  steps (`FairCall`, `WorkerStep`, `MainStep`): a thread woken by the condition
  variable gets the mutex in the end, which is the operating system's
  scheduling, and an az call ends, which is `ReturnsInTime` of `AzRunner`.  A
  parked thread takes no step by itself, so that termination rests on the
  notifications.
* `CrawlCommand!CommandSpec`, for the rest: weak fairness of the command's steps,
  of the server's thread outside of a blocked write (`ThreadStep`), whose reads end because
  a stream has a read timeout of five seconds (`dungeon/server.rs:283`), and of a drop of the
  handle once it has begun; the waking connection of the drop is assumed to be made.  A
  write has no timeout, and nothing is assumed of `EndWrite`.  So the two properties
  of the server have a premise, `AnswersRead`: the thread is outside of a blocked write
  again and again, that is, every client reads the page it asked for, or closes.  Without the
  premise both fail: TLC finds the thread in the phase "write" for ever, with the flag up
  and the handle's owner waiting in the join (section 3, below).  No client sends header lines for ever: the
  loop over the headers has no bound but the client's patience
  (`dungeon/server.rs:292-306`).
* `Session!FairSpec`: the discovery thread is scheduled and its az calls end.
  Nothing is assumed of the player.

No action is strongly fair, and the properties of the other modules are safety
properties: those programs depend on a person or on the world to go on, and
`ReturnsInTime` states its bound with a clock.

### Exclusions in the properties

Some statements hold only with an exclusion, which the property names through a
history variable: `interrupted` (a process was killed or a write failed),
`unsaved` (the last write of the cache failed), `degraded` (groups cut by a torn
cache or learned from canned help), `torn` (a file of the memory was cut),
`crowded` (two processes were in the updater at once), `failed` (a small file of
the updater was not written), `orphan` (a process that az started outlived it),
`disturbed` and `unlisted` (a group or resource changed during a crawl, or could
not be listed).  In each case the code does not keep the statement
otherwise, and TLC says so when the exclusion is removed:

* two processes that write a small file of the updater at once share its
  temporary name, and one may rename what the other has only truncated
  (`update/mod.rs:296-303`, `update/post_install.rs:38-43`): readers may find a
  blank file, and the cooldown may be ignored;
* on Linux `current_exe()` names "azork (deleted)" once another process has
  replaced the executable, and an update then goes to a file of that name and is
  reported a success (`update/install.rs:43-45`);
* a kill between the saves of cache and memory leaves them apart for good
  (`main.rs:296`), although `memory/mod.rs:353-354` says they stay in step;
* a cut `memory.graph` may lose nodes that its edges refer to, and rename a
  room to another's name;
* a process that az started and that keeps a pipe open costs the whole output of
  the call: a success comes back empty, and a throttled call without its message
  is not retried (`az_runner.rs:127-132`, `backend/az.rs:128-132`);
* the comparison of two snapshots reports the resources of a group that could
  not be listed as removed.

### Where docs and code part

Three runs show such a place (`PROJECT.json`, "findings"): `crawl_partial`,
`oit_foreign` and `update_stamp`.  In the last one a process that is killed, or fails to
write, between the swap of the executable and its stamp leaves the stamp of the version
before, and no launch looks at it (`self_heal` is called by its tests only), though
`docs/UPDATING.md:175-182` says the next run rewrites it.

Others came up, that no run is spent on:

* `ServerHandle::drop` makes a connection "so it notices the shutdown flag promptly
  instead of waiting for the next real client" (`dungeon/server.rs:210-212`), but the two
  `write_all` of a connection have no timeout (`dungeon/server.rs:337-339`): a client that
  asks for the page and neither reads it nor closes keeps the one thread, everybody
  behind it and the drop.  `EveryoneAnswered` and `ShutdownReturns` have a premise for it.
* `secrets.rs:29-31` promises that long opaque tokens after a colon or an equals sign are
  redacted.  No pass looks at the length of a token: such a one behind a word that is no
  key of `SECRET_KEYS` is kept.  `Shapes` has the other shapes of that comment and not
  this one, and `LeavesAlone` says nothing of a text with a secret in it, so that neither
  takes it for right.
* `src/memory-store/src/lib.rs:76-78` calls the graph "stored verbatim", but an empty
  text comes back as the label of its node (that of a learned command without a summary,
  say), a long one without its end, and white space around it is gone
  (`lib.rs:177-202`).  `SnapshotRestored` promises the node itself for the texts that
  fit, and fails when it promises it for all.

* The backend is selected by its identifier in any case, and an unknown one means
  the mock estate (`backend/mod.rs:32-36`), but `learn` is kept offline for the very
  word "mock" only (`main.rs:219`): with `--backend MOCK` a session on the mock
  estate asks the live az, which the comment above (`main.rs:212-218`) rules out.
* "Continuation lines" are told from entries by having "no ` : `"
  (`capabilities/derive.rs:20-22`); the code takes more: a line with a colon is a
  continuation if more than one word stands before it.  A summary that wraps
  right before one word and a colon still makes that word a capability
  (`KnownGroupsWhole` fails with such a text in `HelpOf`).
* A group that has subgroups only gives no capability, so it never counts as known
  and is asked for again at each launch (`registry.rs:78-83`).
* A room of the live estate whose listing failed, or that lies beyond the cap,
  looks like an empty one (`backend/az.rs:315-334`), and neither score nor badges
  know that they have not seen it.
* `src/memory-store/src/lib.rs:85-87` says that the latest snapshot always wins.  This
  rests on the library returning newest copies first: a room that is linked
  to a resource is not touched by it, so the copies tie, and with oldest-first
  retrieval `SnapshotRestored` fails.  A graph that was not started from `load()`, as
  in the crate's own example (`lib.rs:36-45`), counts its ids and ticks from the
  beginning, and its snapshot can lose to the older one.
* "No room/corridor can ever collide" (`dungeon/render.rs:119-123`) is true of rooms:
  corridors join every two rooms of a region and run beneath the rooms between
  them.
* The main loop breaks on `quit`, end of input and death without draining the
  channel (`main.rs:287`): what discovery learned in the last turn is lost, though
  the help text says of it that "all of it persists across sessions"
  (`main.rs:71-74`).
* `lock`, `unlock` and `resize` look through the room before the inventory, each
  by exact name and then by prefix (`world.rs:429`), so the full name of a carried
  resource may hit a longer name in the room, though the comment says that
  "exact-match precedence avoids silently targeting the wrong resource"
  (`world.rs:29-31`).
* A resource that moved to another group has another ARM id, and the comparison
  reports it as removed and added, while `dungeon/diff.rs:4-7` and
  `docs/DUNGEON-CRAWLER.md:140-144` say it is reported as changed.  If the id did
  stay the same, it would not be reported at all (`dungeon/diff.rs:94`).
* `docs/DUNGEON-CRAWLER.md:119-123` says a partial view can never be mistaken for a
  complete one when it is compared; a snapshot with groups that could not be
  listed is written as complete (run `crawl_partial`).

The time of a startup check is recorded before the check (`update/check.rs:147`),
though `docs/UPDATING.md:160` says the file is created "on the first successful
check".  The agent compares the subscription only and never the tenant
(`bin/azork-oit.rs:237-254`), though `bin/azork-oit.rs:30-34` says it enforces
both.

## 4. Proofs

Each component's proofs are in a module of their own, checked by `tlapm`.  An
invariant is proved by a stronger one that is inductive (`IInv`, which the
module states part by part), first checked by TLC on the instance of the runs,
then by one lemma per action.  Where nothing is said, a theorem assumes only what
the module it is about assumes of its constants (`ASSUME`, evaluated by TLC on
every run).

| Module | Theorems | For every |
|---|---|---|
| `AimdLimiter_proofs` | `LimiterTypeOK`, `LimiterPermitAccounting`, `LimiterNoIdleSlot`, `LimiterImplementsPool` | finite set of threads, ceiling and streak length |
| `Crawl_proofs` | `CrawlTypeOK`, `MapIsComplete`, `SubscriptionIsOneShown`, `PermitsAreDropped`, `CrawlImplementsContract`; of the command `SnapshotsAreWhole`, `CommandOutputsAgree` | number of workers and groups, of attempts, any limiter, any flags |
| `Session_proofs` | `SessionTypeOK`, `PromptsFindAgreement`, `OneResultIsLate`, `KnownIsWhole` | groups, command paths, help texts and canned help |
| the same, of `HelpText` | `SectionsAreRead` | text, of any lines |
| `World_proofs` | `WorldTypeOK`, `WorldsCanBeWandered`, `NothingIsInTwoPlaces`, `DestroyedLawfully`, `DevouredAfterAWarning`, `ReportsAlwaysAgree` | launch, size of a generated estate, answers of az, names and words |
| `Update_proofs` | `UpdateTypeOK`, `InstalledCanRun`, `ReadersFindWholeValues`, `StampNamesTheInstalled`, `NoRollbackAlone`, `ChecksKeepTheCooldown` | number of processes and versions, cooldown |
| `Memory_proofs` | `MemoryInvariant`, `CountersAlwaysSound`, `GraphAlwaysSound`, `SecretsAlwaysStayOut`, `SnapshotAlwaysRestored` | rooms, resources and notes, number of sessions, cuts and saves |
| the same, of `Scrub` | `RedactionIsSound`, `RedactionAlwaysSound` | text, of any length |
| `AzRunner_proofs` | `RunnerTypeOK`, `CallsReturnInTime`, `AnswersAreWhole`, `PipesAreDrained` | number of attempts, timeouts, size of a pipe and amount of output |
| the same, of `OitAgent` | `OitTypeOK`, `AgentsSpareOthers`, `TeardownIsClean` | agents and names |
| `Atlas_proofs` | `AtlasTypeOK`, `DiffsAreTrue`, `LayoutIsStable` | groups, resources and regions, hash, size of a wing, number and moments of the changes |
| the same, of `Render` | `PicturesAreSound` | map, number of resources in a room |

Some theorems suppose something more, for a reason:

* `AgentsSpareOthers` assumes that nobody else uses the agents' name
  (`OitName \notin ForeignNames`).  The run `oit_foreign` shows that the code needs it.
* `KnownIsWhole` assumes of the help texts of az that they name what az has
  (`HelpNamesAll`): in the sections of commands of a group's text there is an entry for
  every command of the group, and no other.  That such a text is then read right,
  whatever else is in it, is proved (`SectionsAreRead`).
* `WorldsCanBeWandered` assumes that az lists no group twice (`NoGroupTwice`).  Of two
  rooms with one name `World::new` keeps the last only, and with it one place in the chain
  of doors; names of groups are unique in a subscription.
* Those of the memory assume of the library that holds the experiences what the
  code relies on: that it hands out all records and no others (`RetrievesAll`), and
  `SnapshotAlwaysRestored` that it hands out the newest first (`NewestFirst`), without
  which it fails (section 3).  The library is not part of the repository.  What
  `SnapshotAlwaysRestored` says comes back of a node is what the store can hold of it
  (`Held`), which is the node itself if its text fits (`Fits`): the theorem has no
  assumption on the texts.
* `SecretsAlwaysStayOut` assumes of what is noted that a secret in it has one of the
  shapes that `secrets.rs` knows, where it can be found (`SecretsHaveShapes`).  No scrubbing
  finds what looks like any other word.

`AtlasAssumption` and `RenderAssumption` hold what is said of the constants for the page: as
many cells in reach of a corner as there are groups (the code has 64 times 64, and falls
back to the room's home beyond), a room that is as large as its finitely many
resources make it.

The arguments, and what the invariants add to what they prove:

* **Limiter.** `IInv` is `TypeOK`, `PermitAccounting`, `InFlightBounded` and
  `NoIdleSlot`.  `NoIdleSlot` needs that a drop lowers `in_flight` by exactly one, so that
  the one thread it wakes is promised exactly that slot (a saturated subtraction
  would break this), and that a thread that resumes leaves `woken` and takes the
  slot or parks because the slots are taken.  The refinement needs
  `PermitAccounting`, for the code compares its counter and the pool its holders.
  `PoolCardinality` states that the instance's copy of `Cardinality` is `Cardinality`.
* **Crawl.** The limiter's invariant is used as it is: `Crawl_proofs` instantiates
  `AimdLimiter_proofs` on the crawl's variables, and each step of the crawl is a
  step of the limiter or leaves it alone.  To it come where threads can be (`Phases`),
  that a claimed group has exactly one worker until its slot is filled or the map is
  marked partial (`Claims`), where the subscription comes from (`Published`) and
  what the caller was given (`Answered`).  The refinement maps every step to one of
  `CrawlContract` or to a stutter.  `InOrder`, the ascending enumeration of a finite set of
  numbers that the flattened slots amount to, is shown to exist by least
  counterexample.  The command's invariant says of each of its steps what it
  has behind it (`Handed`).
* **Session.** Registry, graph memory and cache can differ in the middle of a turn
  only; `Agree` says at which step of the main loop which of them is ahead.  `LateOnce` follows
  the discovery thread between its look at the flag and its send.  `BothWhole` asks
  of the cache what `KnownGroupsWhole` asks of the registry, since the next launch reads it.
  How a text is read is shown line by line (`LineIsRead`): a section is open from its
  header on (`Open`), and what has been collected are the names of the entries so far.
* **World.** `Furnished` is what any of the three backends hands over: each resource
  at one place, and exits that lead to rooms.  From then on commands take away one place
  of one sequence, or move it to the end of another (`RemoveAtKeeps`, `AppendAdds`); a
  word is found at a place of the sequence it was looked up in (`FoundInside`).  A
  streak in the dark has a warning behind it (`Warned`).  That a world can be
  wandered is a matter of how it is built: doors lead back, and every room of a grid
  and of a chain is reached from the first one, over the sets of rooms reached so far,
  of which none short of all is closed under going through a door.  That the reports agree
  holds of any state with finitely many rooms: the score is a fold over a set, which
  `SubsetInduction` takes apart by a smallest counterexample.
* **Update.** A process alone knows what it has read and verified (`Sound`); while no
  two processes were in the updater at once, what they know is also what the disk
  holds (`Alone`); what is recorded is true as long as every write succeeded
  (`Recorded`).
* **Agent.** Only one name ever gets the agents' tags, and only tagged groups are
  deleted (`OneNameTagged`); what an agent still has to delete is on what is left of its
  list (`LeftToDelete`).  The theorems assume `OitAssumption` explicitly, since the module is
  proved beside `AzRunner`.
* **Memory.** The file is asked for what the graph is asked for (`Counted`, `Shaped`),
  since the next session starts from it; a torn file is still `Counted`
  (`TornIsCounted`).  `Visited` says of a room being recorded that what has been gone
  through is linked to it.  The store's copies agree with one another
  (`Consistent`), and an open session knows all of them, no node of it older than a
  copy (`Followed`): hence what a save writes is not older than what it finds.  A
  load amounts to one freshest copy per node (`BestIsFreshest`) and the edges among
  those (`LoadedEdgesSound`); `Snapshot` says that the store's newest freshest copies
  are the last whole save.  A text that fits is left as it is by scrubbing, trimming and
  cutting (`FittingIsHeld`).  That no secret is kept is shown for any set T of tokens that
  what is done to a text on its way does not leave (`Closed(T)`, of scrubbing; a trim, a cut and a
  torn file take tokens away, and the label in place of an empty text is a word): then every text in
  graph, file and store is made from T (`TextsKept`), and the tokens that are no secret
  are such a set (`NotesHidden`).
* **Scrubbing.** A fold is a recursion over sets of places; `FoldedLaw` makes of it what
  happens at a further token, and `TextInduction` goes from there to all texts, by a shortest
  counterexample.  Two readers accept what a pass leaves alone: `PairsOf` what the first
  one does (`FirstPassKeeps`), `HeadersOf` what the second does (`SecondPassKeeps`).  The
  first pass writes what its reader accepts (`FirstPassReadable`), and the others keep it so
  (`SecondPassReadable`, `ThirdPassReadable`); so it is with the second pass and the third.
  Hence `ScrubbedIsFinal`.  A text with no shape of a secret is accepted by both
  (`HarmlessUnshaped`).  That a shape is hidden rests on when a pass waits for a
  secret: the first only behind a bare key that is in the text itself (`Waits`), the
  second only behind a header that is (`HeaderOpen`), so that nothing before the shape
  takes its start away, and no pass brings back what another has hidden (`Clean`).
* **az call.** What the caller waits for in each phase of an attempt (`Attended`), that
  written is read plus what the pipe holds (`Flows`), who is finished and what has been
  taken over (`Finished`, `Taken`), and by when each phase is over (`Timely`).
* **Layout and comparison.** `Watched` says what a crawl knows while others change the
  subscription: of what nobody touched since it began, it has the truth.  `Written` says
  so of the maps, and the report of two of them follows.  `AllLaid` says that every room is
  where `Place` puts it beside those before it.  `LayoutExists` shows that there is
  such a layout, `RingIsWhole` and `FreeCell` that the search in rings finds a cell, by
  counting the cells in reach against the rooms; that two maps with the same rooms before
  one have it at the same cell is then an induction over the rooms.
* **Page.** From distinct cells the geometry is arithmetic: a cell is as large as the
  largest room and the gap (`CellSize`), a room as large as the rows of its icons, for any
  number of them; a corridor goes from the middle of a side wall of one room to
  that of the other, with a bend half-way (`Corridor`), so it ends in walls and stays
  between the outermost rooms (`CorridorHolds`), which keeps it off the border art
  (`BorderHolds`).

Only model-checked, and why:

* liveness (`CrawlTerminates`, `EveryoneAnswered`, `ShutdownReturns`,
  `DiscoveryStops`), which is beyond the prover.

No invariant or action property of a run is without a theorem.  Induction over data needs
care: the library's induction theorems take an operator as a parameter, which the provers
cannot instantiate, so what is to hold of all texts, lists or rooms is shown of the
set of those it does not hold of, which has no smallest member.

For the proofs' sake some definitions say what they did in another form:

* the flattened slots of a crawl are `InOrder` of a set of groups, `EachInOnePlace` compares
  the sequences and not the number of their elements, the discovery thread names
  the group whose help it asks for (`ScoutDerive`), and `MemoryStore` speaks of the places of
  the records (`Copies`) and not of sequences of them;
* of the estates, `EstateSound` states reachability by sets of rooms and not by repeated
  expansion, and the doors of a grid are given by neighbours (`Beside`, `RoomName`);
* of the layout, `Layout` is a recursive function on the rooms, the nearest free cell is
  looked for ring by ring (`NearestFreeCell`), and a hash is a function of group and region;
* of the scrubbing, `BearerStep` goes token by token with a state for a header that has
  begun, where the code looks ahead, and the cases of `GluedStep` exclude one another;
* of the help texts, `NamePart` drops an empty name instead of selecting the others;
* `OitAgent` has names of its own for what `AzRunner` has too.

TLC was run on the old and the new form of the scrubbing side by side: they are equal on
all texts of up to five tokens.

## 5. Plan

Done: limiter, crawl with its command and server, session, memory with its store
and the scrubbing, backends and world, updater, agent, az call, atlas and page; the
proofs of section 4.  In the order of what they would add:

1. A second azork process beside `Session`'s: the last one to exit wins both files,
   and what the other learned is lost; only that no group is half-applied can be
   expected to survive it.
2. A safety property of the server alone, and its proof: that a request is answered
   by at most one reply, whatever the clients do.
3. The lines of the cache with their statuses and summaries, and the ranking of
   suggestions.
4. The rest of `World` that only reads: look, examine, and the wording of reports.

Not modelled, and why: intent resolution and the use-case catalog compare words and
change no state; icons, links, suggested commands and the flags of the crawl are
tables; `azext`, `install.sh` and `scripts` start or package the program.
