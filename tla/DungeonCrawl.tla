----------------------------- MODULE DungeonCrawl -----------------------------
(***************************************************************************)
(* The enumeration of a subscription in src/src/dungeon/map.rs             *)
(* (build_cancellable, process_one_group, call_with_throttle_retry): the   *)
(* main thread lists the resource groups, then a scope of workers claims   *)
(* groups through a shared cursor, lists each group's resources with az    *)
(* calls gated by the AimdLimiter, and writes each room to the slot of its *)
(* group; the main thread joins them and assembles the map.  The caller    *)
(* may cancel at any moment.                                               *)
(*                                                                         *)
(* Groups are numbered in the order az listed them.  A room is abstracted  *)
(* to "listed" (its resources were observed) or "blank" (they were not:    *)
(* the call failed, or its output could not be parsed).                    *)
(***************************************************************************)
EXTENDS Naturals, FiniteSets

CONSTANTS
  Main,                 (* the calling thread                            *)
  Workers,              (* the scoped worker threads                     *)
  NGroups,              (* how many groups az listed                     *)
  Malformed,            (* the groups whose row has no usable name       *)
  SubscriptionOf,       (* per group, the subscription its ids name      *)
  Unknown,              (* "unknown", no subscription                    *)
  MaxThrottleAttempts,  (* MAX_THROTTLE_ATTEMPTS                         *)
  MaxCeiling,           (* available_parallelism(), of the limiter       *)
  SuccessesPerIncrease  (* SUCCESSES_PER_INCREASE, of the limiter        *)

Threads == Workers \cup {Main}
Groups  == 1..NGroups
WellFormed == Groups \ Malformed

ASSUME CrawlAssumption ==
  /\ IsFiniteSet(Workers) /\ Workers # {}
  /\ Main \notin Workers
  /\ NGroups \in Nat
  /\ Malformed \subseteq Groups
  /\ DOMAIN SubscriptionOf = Groups
  /\ MaxThrottleAttempts \in Nat \ {0}
  /\ MaxCeiling \in Nat \ {0}
  /\ SuccessesPerIncrease \in Nat \ {0}

VARIABLES
  in_flight, ceiling, consecutive_successes, waiting, woken, holders,
  cancelled,     (* CancelToken                                            *)
  pc,            (* where each thread is                                   *)
  idx,           (* the group a worker has claimed                         *)
  attempt,       (* call_with_throttle_retry's attempt                     *)
  outcome,       (* how the thread's last az call ended                    *)
  cursor,        (* the next group to claim                                *)
  slots,         (* per group, its room or "none"                          *)
  subscription,
  partial,
  result         (* what build_cancellable returned                        *)

Limiter == INSTANCE AimdLimiter

limiterVars == <<in_flight, ceiling, consecutive_successes, waiting, woken, holders>>
threadVars  == <<pc, idx, attempt, outcome>>
shared      == <<cursor, slots, subscription, partial>>
vars == <<limiterVars, cancelled, threadVars, shared, result>>

Pending == [status |-> "pending"]

Init ==
  /\ Limiter!Init
  /\ cancelled \in BOOLEAN
  /\ pc = [t \in Threads |-> IF t = Main THEN "start" ELSE "unspawned"]
  /\ idx = [w \in Workers |-> 0]
  /\ attempt = [t \in Threads |-> 0]
  /\ outcome = [t \in Threads |-> "none"]
  /\ cursor = 1
  /\ slots = [g \in Groups |-> "none"]
  /\ subscription = Unknown
  /\ partial = FALSE
  /\ result = Pending

Goto(t, l) == pc' = [pc EXCEPT ![t] = l]

\* CancelToken::cancel, from the caller's thread or a signal handler.
Cancel ==
  /\ ~cancelled
  /\ cancelled' = TRUE
  /\ UNCHANGED <<limiterVars, threadVars, shared, result>>

-----------------------------------------------------------------------------
(* call_with_throttle_retry: pc = "call" from the acquire to the drop.     *)

BeginCall(t) ==
  /\ Goto(t, "call")
  /\ attempt' = [attempt EXCEPT ![t] = 1]

AcquirePermit(t) ==
  /\ pc[t] = "call"
  /\ Limiter!Acquire(t) \/ Limiter!Resume(t) \/ Limiter!SpuriousWake(t)
  /\ UNCHANGED <<cancelled, threadVars, shared, result>>

\* Success with a list or with something that cannot be parsed, a failure that
\* ThrottleDetector takes for throttling, and any other one.
Outcomes == {"listed", "garbled", "throttled", "failed"}

FaultyRunAz(t) ==           \* keeps the permit while it backs off
  /\ pc[t] = "call"
  /\ \E o \in Outcomes :
        /\ outcome' = [outcome EXCEPT ![t] = o]
        /\ IF o = "throttled" THEN t \in holders /\ UNCHANGED limiterVars
                              ELSE Limiter!Drop(t)
  /\ Goto(t, "report")
  /\ UNCHANGED <<cancelled, idx, attempt, shared, result>>

\* The az call runs while the permit is held, and the permit is dropped before
\* its outcome is looked at.
RunAz(t) ==
  /\ pc[t] = "call"
  /\ Limiter!Drop(t)
  /\ \E o \in Outcomes :
        outcome' = [outcome EXCEPT ![t] = o]
  /\ Goto(t, "report")
  /\ UNCHANGED <<cancelled, idx, attempt, shared, result>>

\* Exit status zero, whatever the output holds.
ReportSuccess(t) ==
  /\ pc[t] = "report"
  /\ outcome[t] \in {"listed", "garbled"}
  /\ Limiter!ReportSuccess
  /\ Goto(t, "called")
  /\ UNCHANGED <<cancelled, idx, attempt, outcome, shared, result>>

\* Throttled with attempts left: shrink, sleep (without a permit), call again.
RetryThrottled(t) ==
  /\ pc[t] = "report"
  /\ outcome[t] = "throttled"
  /\ attempt[t] < MaxThrottleAttempts
  /\ Limiter!ReportThrottle
  /\ attempt' = [attempt EXCEPT ![t] = @ + 1]
  /\ Goto(t, "call")
  /\ UNCHANGED <<cancelled, idx, outcome, shared, result>>

\* Throttled once too often, or failed otherwise: nothing is reported.
GiveUp(t) ==
  /\ pc[t] = "report"
  /\ \/ outcome[t] = "failed"
     \/ outcome[t] = "throttled" /\ attempt[t] >= MaxThrottleAttempts
  /\ Goto(t, "called")
  /\ UNCHANGED <<limiterVars, cancelled, idx, attempt, outcome, shared, result>>

-----------------------------------------------------------------------------
(* A worker's loop *)

FaultyStopCancelled(w) ==   \* drops a claimed group and says nothing
  /\ pc[w] \in {"check", "recheck"}
  /\ cancelled
  /\ partial' = (partial \/ pc[w] = "check")
  /\ Goto(w, "exited")
  /\ UNCHANGED <<limiterVars, cancelled, idx, attempt, outcome,
                 cursor, slots, subscription, result>>

\* `if cancel.is_cancelled() { partial.store(true); break; }`, at either check.
StopCancelled(w) ==
  /\ pc[w] \in {"check", "recheck"}
  /\ cancelled
  /\ partial' = TRUE
  /\ Goto(w, "exited")
  /\ UNCHANGED <<limiterVars, cancelled, idx, attempt, outcome,
                 cursor, slots, subscription, result>>

PassCheck(w) ==
  /\ pc[w] = "check"
  /\ ~cancelled
  /\ Goto(w, "claim")
  /\ UNCHANGED <<limiterVars, cancelled, idx, attempt, outcome, shared, result>>

\* cursor.fetch_add(1), and the test of its old value.
Claim(w) ==
  /\ pc[w] = "claim"
  /\ cursor' = cursor + 1
  /\ IF cursor \in Groups
     THEN idx' = [idx EXCEPT ![w] = cursor] /\ Goto(w, "recheck")
     ELSE UNCHANGED idx /\ Goto(w, "exited")
  /\ UNCHANGED <<limiterVars, cancelled, attempt, outcome,
                 slots, subscription, partial, result>>

\* The second check passes; a malformed row yields no room and no call.
StartGroup(w) ==
  /\ pc[w] = "recheck"
  /\ ~cancelled
  /\ IF idx[w] \in Malformed
     THEN Goto(w, "check") /\ UNCHANGED attempt
     ELSE BeginCall(w)
  /\ UNCHANGED <<limiterVars, cancelled, idx, outcome, shared, result>>

FaultyPublishSubscription(w) ==   \* last writer wins
  /\ pc[w] = "called"
  /\ subscription' =
       IF outcome[w] = "listed" THEN SubscriptionOf[idx[w]] ELSE Unknown
  /\ Goto(w, "store")
  /\ UNCHANGED <<limiterVars, cancelled, idx, attempt, outcome,
                 cursor, slots, partial, result>>

\* First writer wins, under the subscription's own mutex.
PublishSubscription(w) ==
  /\ pc[w] = "called"
  /\ subscription' =
       IF outcome[w] = "listed" /\ subscription = Unknown
       THEN SubscriptionOf[idx[w]] ELSE subscription
  /\ Goto(w, "store")
  /\ UNCHANGED <<limiterVars, cancelled, idx, attempt, outcome,
                 cursor, slots, partial, result>>

StoreRoom(w) ==
  /\ pc[w] = "store"
  /\ slots' = [slots EXCEPT ![idx[w]] =
                 IF outcome[w] = "listed" THEN "listed" ELSE "blank"]
  /\ Goto(w, "check")
  /\ UNCHANGED <<limiterVars, cancelled, idx, attempt, outcome,
                 cursor, subscription, partial, result>>

-----------------------------------------------------------------------------
(* The calling thread *)

FaultyStart ==              \* the early return looks complete
  /\ pc[Main] = "start"
  /\ IF cancelled
     THEN /\ result' = [status |-> "map", rooms |-> << >>,
                        subscription |-> Unknown, partial |-> FALSE]
          /\ Goto(Main, "returned")
          /\ UNCHANGED attempt
     ELSE BeginCall(Main) /\ UNCHANGED result
  /\ UNCHANGED <<limiterVars, cancelled, idx, outcome, shared>>

\* Cancelled before anything was asked of az: an empty partial map.
Start ==
  /\ pc[Main] = "start"
  /\ IF cancelled
     THEN /\ result' = [status |-> "map", rooms |-> << >>,
                        subscription |-> Unknown, partial |-> TRUE]
          /\ Goto(Main, "returned")
          /\ UNCHANGED attempt
     ELSE BeginCall(Main) /\ UNCHANGED result
  /\ UNCHANGED <<limiterVars, cancelled, idx, outcome, shared>>

\* `az group list` answered: spawn the workers.
Spawn ==
  /\ pc[Main] = "called"
  /\ outcome[Main] = "listed"
  /\ pc' = [t \in Threads |-> IF t = Main THEN "join" ELSE "check"]
  /\ UNCHANGED <<limiterVars, cancelled, idx, attempt, outcome, shared, result>>

\* It failed, or its output is not a JSON list.
ListFailed ==
  /\ pc[Main] = "called"
  /\ outcome[Main] # "listed"
  /\ result' = [status |-> "error"]
  /\ Goto(Main, "returned")
  /\ UNCHANGED <<limiterVars, cancelled, idx, attempt, outcome, shared>>

\* The groups of S, in the order az listed them.
InOrder(S) ==
  CHOOSE s \in [1..Cardinality(S) -> S] :
    /\ S = {s[i] : i \in DOMAIN s}
    /\ \A i, j \in DOMAIN s : i < j => s[i] < s[j]

\* The slots that hold a room.
Flatten == InOrder({g \in Groups : slots[g] # "none"})

Join ==
  /\ pc[Main] = "join"
  /\ \A w \in Workers : pc[w] = "exited"
  /\ result' = [status |-> "map", rooms |-> Flatten,
                subscription |-> subscription, partial |-> partial]
  /\ Goto(Main, "returned")
  /\ UNCHANGED <<limiterVars, cancelled, idx, attempt, outcome, shared>>

-----------------------------------------------------------------------------

Call(t) ==
  AcquirePermit(t) \/ RunAz(t) \/ ReportSuccess(t) \/ RetryThrottled(t) \/ GiveUp(t)

WorkerStep(w) ==
  StopCancelled(w) \/ PassCheck(w) \/ Claim(w) \/ StartGroup(w)
    \/ PublishSubscription(w) \/ StoreRoom(w)

MainStep == Start \/ Spawn \/ ListFailed \/ Join

Next ==
  \/ Cancel
  \/ \E t \in Threads : Call(t)
  \/ \E w \in Workers : WorkerStep(w)
  \/ MainStep

Spec == Init /\ [][Next]_vars

\* Every thread is scheduled while it can run: an az call ends (ProcessAzRunner
\* kills it after 30 s), a sleep ends, a woken thread runs.  Spurious wakeups
\* and the cancellation are nobody's duty.
FairCall(t) ==
  \/ pc[t] = "call" /\ (Limiter!Acquire(t) \/ Limiter!Resume(t))
       /\ UNCHANGED <<cancelled, threadVars, shared, result>>
  \/ RunAz(t) \/ ReportSuccess(t) \/ RetryThrottled(t) \/ GiveUp(t)

-----------------------------------------------------------------------------
(* Properties *)

\* A map that is not marked partial has a room for every well-formed group, in
\* the order az listed them: no claimed group is dropped between the cursor,
\* the second cancellation check and the slots, whichever worker had it.
CompleteUnlessPartial ==
  result.status = "map" /\ ~result.partial =>
    result.rooms = InOrder(WellFormed)

\* The subscription is published before the room it came with is stored, under
\* another lock; the map names a subscription exactly if one of its rooms
\* showed one, and then one that such a room showed.
SubscriptionObserved ==
  result.status = "map" =>
    LET shown == {SubscriptionOf[g] : g \in {r \in Groups : slots[r] = "listed"}}
    IN  IF shown \subseteq {Unknown} THEN result.subscription = Unknown
        ELSE result.subscription \in shown \ {Unknown}

\* Permits are held inside az calls only: nobody sleeps, publishes, stores or
\* returns with one, so no permit outlives the crawl.
PermitsOnlyInCalls ==
  /\ \A t \in holders : pc[t] = "call"
  /\ result.status # "pending" =>
       in_flight = 0 /\ waiting = {} /\ woken = {}

\* The crawl returns, cancelled or not, however the limiter's ceiling moves and
\* whoever barges past a parked worker.
CrawlTerminates == <>(result.status # "pending")

\* What map.rs:88-91 says of DungeonMap::partial: it is set also when the
\* enumeration "otherwise could not observe the whole subscription".
PartialUnlessObserved ==
  result.status = "map" /\ ~result.partial =>
    \A g \in WellFormed : slots[g] = "listed"

\* The concurrent crawl implements its contract.
Contract == INSTANCE CrawlContract WITH
  asked    <- cancelled,
  observed <- {g \in Groups : slots[g] # "none"},
  answer   <- IF result.status = "map"
              THEN [status |-> "map", partial |-> result.partial,
                    rooms |-> {result.rooms[i] : i \in DOMAIN result.rooms}]
              ELSE result
ImplementsContract == Contract!Spec
=============================================================================
