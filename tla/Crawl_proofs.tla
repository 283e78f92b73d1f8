---------------------------- MODULE Crawl_proofs ----------------------------
(***************************************************************************)
(* Proofs about DungeonCrawl, for every finite set of workers, any number  *)
(* of groups and any limiter: its safety properties, and that it           *)
(* implements CrawlContract; and about CrawlCommand, which hands its map   *)
(* to a snapshot, a page and a server.                                     *)
(*                                                                         *)
(* The parts of the inductive invariant of DungeonCrawl say where threads  *)
(* can be (Phases), which worker answers for which group (Claims), where   *)
(* the subscription comes from (Published) and what the caller was given   *)
(* (Answered); AimdLimiter_proofs has that of the limiter, which is used   *)
(* here step by step.  That of CrawlCommand says what each of its steps    *)
(* has behind it (Handed).                                                 *)
(***************************************************************************)
EXTENDS CrawlCommand, Integers, FiniteSetTheorems, WellFoundedInduction, TLAPS

Limits == INSTANCE AimdLimiter_proofs

Places == {"unspawned", "start", "call", "report", "called", "join", "returned",
           "check", "claim", "recheck", "store", "exited"}

TypeOK ==
  /\ cancelled \in BOOLEAN /\ partial \in BOOLEAN
  /\ pc \in [Threads -> Places]
  /\ idx \in [Workers -> Nat]
  /\ attempt \in [Threads -> Nat]
  /\ outcome \in [Threads -> Outcomes \cup {"none"}]
  /\ cursor \in Nat \ {0}
  /\ slots \in [Groups -> {"none", "listed", "blank"}]

Listing  == pc[Main] \in {"start", "call", "report", "called"}
Stored   == {g \in Groups : slots[g] # "none"}
InLimiter == holders \cup waiting \cup woken

\* Workers exist while the main thread waits for them, and threads are in the
\* limiter only while they are in an az call.
Phases ==
  /\ pc[Main] \in {"start", "call", "report", "called", "join", "returned"}
  /\ \A w \in Workers : pc[w] \notin {"start", "join", "returned"}
  /\ Listing => \A w \in Workers : pc[w] = "unspawned"
  /\ pc[Main] = "returned" => \A w \in Workers : pc[w] \in {"unspawned", "exited"}
  /\ \A t \in InLimiter : pc[t] = "call"
  /\ Listing => /\ Stored = {} /\ cursor = 1
                /\ subscription = Unknown /\ ~partial

HasGroup(w) == pc[w] \in {"recheck", "call", "report", "called", "store"}

\* A claimed group is malformed, in its slot or in the hands of one worker, while
\* nobody was stopped; and none is left when a worker exits.
Claims ==
  /\ partial => cancelled
  /\ \A w \in Workers : HasGroup(w) =>
       /\ idx[w] \in Groups \ Stored /\ idx[w] < cursor
       /\ pc[w] # "recheck" => idx[w] \notin Malformed
  /\ \A v, w \in Workers : HasGroup(v) /\ HasGroup(w) /\ idx[v] = idx[w] => v = w
  /\ \A g \in Stored : g < cursor /\ g \notin Malformed
  /\ ~partial =>
       /\ \A g \in Groups : g < cursor =>
            g \in Malformed \cup Stored \/ \E w \in Workers : HasGroup(w) /\ idx[w] = g
       /\ \A w \in Workers : pc[w] = "exited" => cursor > NGroups

\* A group whose resources were listed, and the subscription looked at.
Shown(g) ==
  \/ slots[g] = "listed"
  \/ \E w \in Workers : pc[w] = "store" /\ outcome[w] = "listed" /\ idx[w] = g

Published ==
  IF \E g \in Groups : Shown(g) /\ SubscriptionOf[g] # Unknown
  THEN subscription # Unknown /\ \E g \in Groups : Shown(g) /\ SubscriptionOf[g] = subscription
  ELSE subscription = Unknown

\* What the caller was given is what was found.
MapOf(b) == [status |-> "map", rooms |-> Flatten, subscription |-> subscription, partial |-> b]

Answered ==
  IF pc[Main] = "returned"
  THEN \/ result = [status |-> "error"]
       \/ result = MapOf(TRUE)
       \/ result = MapOf(FALSE) /\ Stored = WellFormed
  ELSE result = Pending

IInv == TypeOK /\ Limits!IInv /\ Phases /\ Claims /\ Published /\ Answered

-----------------------------------------------------------------------------
(* The limiter *)

\* The instances' copies of FiniteSets are FiniteSets.
LEMMA SameSets ==
  /\ \A S : Limits!IsFiniteSet(S) <=> IsFiniteSet(S)
  /\ \A S : Limits!Cardinality(S) = Cardinality(S)
BY DEF Limits!IsFiniteSet, IsFiniteSet, Limits!Cardinality, Cardinality

LEMMA ThreadsFinite == Limits!LimiterAssumption
<1>1. IsFiniteSet(Threads)
  BY CrawlAssumption, FS_AddElement DEF Threads
<1> QED
  BY <1>1, CrawlAssumption, SameSets DEF Limits!LimiterAssumption

\* Who acquires a permit is in the limiter, who drops one is out of it, and the
\* limiter's invariant is kept.
LEMMA AcquireStep ==
  ASSUME Limits!IInv, NEW t \in Threads,
         Limiter!Acquire(t) \/ Limiter!Resume(t) \/ Limiter!SpuriousWake(t)
  PROVE  Limits!IInv' /\ InLimiter' \subseteq InLimiter \cup {t}
<1> USE DEF Limiter!TakePermit, Limits!TakePermit, Limiter!Park, Limits!Park,
            Limiter!state, Limits!state, InLimiter
<1>1. CASE Limiter!Acquire(t)
  <2>1. Limits!IInv'
    BY <1>1, ThreadsFinite, Limits!AcquireInv
       DEF Limiter!Acquire, Limits!Acquire, Limiter!Outside, Limits!Outside
  <2> QED
    BY <1>1, <2>1 DEF Limiter!Acquire
<1>2. CASE Limiter!Resume(t)
  <2>1. Limits!IInv'
    BY <1>2, ThreadsFinite, Limits!ResumeInv DEF Limiter!Resume, Limits!Resume
  <2> QED
    BY <1>2, <2>1 DEF Limiter!Resume
<1>3. CASE Limiter!SpuriousWake(t)
  <2>1. Limits!IInv'
    BY <1>3, ThreadsFinite, Limits!SpuriousWakeInv DEF Limiter!SpuriousWake, Limits!SpuriousWake
  <2> QED
    BY <1>3, <2>1 DEF Limiter!SpuriousWake
<1> QED
  BY <1>1, <1>2, <1>3

LEMMA DropStep ==
  ASSUME Limits!IInv, NEW t \in Threads, Limiter!Drop(t)
  PROVE  Limits!IInv' /\ InLimiter' \subseteq InLimiter \ {t}
<1>1. Limits!IInv'
  BY ThreadsFinite, Limits!DropInv
     DEF Limiter!Drop, Limits!Drop, Limiter!NotifyOne, Limits!NotifyOne,
         Limiter!SaturatingDec, Limits!SaturatingDec
<1>2. t \notin waiting /\ t \notin woken
  BY DEF Limiter!Drop, Limits!IInv, Limits!TypeOK
<1> QED
  BY <1>1, <1>2 DEF Limiter!Drop, Limiter!NotifyOne, InLimiter

LEMMA ReportStep ==
  ASSUME Limits!IInv, Limiter!ReportSuccess \/ Limiter!ReportThrottle
  PROVE  Limits!IInv' /\ InLimiter' \subseteq InLimiter
<1>1. CASE Limiter!ReportSuccess
  <2>1. Limits!IInv'
    BY <1>1, ThreadsFinite, Limits!ReportSuccessInv
       DEF Limiter!ReportSuccess, Limits!ReportSuccess, Limiter!NotifyAll, Limits!NotifyAll
  <2> QED
    BY <1>1, <2>1 DEF Limiter!ReportSuccess, Limiter!NotifyAll, InLimiter
<1>2. CASE Limiter!ReportThrottle
  <2>1. Limits!IInv'
    BY <1>2, ThreadsFinite, Limits!ReportThrottleInv
       DEF Limiter!ReportThrottle, Limits!ReportThrottle, Limiter!Halved, Limits!Halved
  <2> QED
    BY <1>2, <2>1 DEF Limiter!ReportThrottle, InLimiter
<1> QED
  BY <1>1, <1>2

LEMMA NoLimiterStep ==
  ASSUME Limits!IInv, UNCHANGED limiterVars
  PROVE  Limits!IInv' /\ InLimiter' = InLimiter
BY ThreadsFinite, Limits!StutterInv DEF limiterVars, Limits!limiter, InLimiter

-----------------------------------------------------------------------------
(* Rooms in order *)

Enumerates(s, S) ==
  /\ s \in [1..Cardinality(S) -> S]
  /\ S = {s[i] : i \in DOMAIN s}
  /\ \A i, j \in DOMAIN s : i < j => s[i] < s[j]

LEMMA LeastElement ==
  ASSUME NEW T \in SUBSET Nat, T # {}
  PROVE  \E m \in T : \A k \in T : m <= k
<1>1. PICK m \in T : \A k \in T : <<k, m>> \notin OpToRel(<, Nat)
  BY NatLessThanWellFounded, WFMin
<1>2. \A k \in T : ~(k < m)
  BY <1>1 DEF OpToRel
<1> QED
  BY <1>2

\* Every set of numbers up to k has an ascending enumeration: otherwise take the
\* least k with a set that has none, and leave out k.
LEMMA EnumerationExists ==
  ASSUME NEW k \in Nat, NEW S \in SUBSET (1..k)
  PROVE  \E s : Enumerates(s, S)
<1> DEFINE Lacking == {n \in Nat : \E R \in SUBSET (1..n) : ~ \E s : Enumerates(s, R)}
<1> SUFFICES ASSUME Lacking # {} PROVE FALSE
  OBVIOUS
<1>1. PICK m \in Lacking : \A n \in Lacking : m <= n
  <2>1. Lacking \in SUBSET Nat
    OBVIOUS
  <2> QED
    BY <2>1, LeastElement
<1>2. PICK R \in SUBSET (1..m) : ~ \E s : Enumerates(s, R)
  OBVIOUS
<1>3. m # 0
  <2> SUFFICES ASSUME m = 0 PROVE FALSE
    OBVIOUS
  <2>1. R = {} /\ Cardinality({}) = 0
    BY <1>2, FS_EmptySet
  <2>2. Enumerates([i \in 1..0 |-> 0], {})
    BY <2>1 DEF Enumerates
  <2> QED
    BY <1>2, <2>1, <2>2
<1> DEFINE Rest == R \ {m}
<1>4. PICK s : Enumerates(s, Rest)
  <2>1. m - 1 \in Nat /\ m - 1 \notin Lacking
    BY <1>1, <1>3
  <2>2. Rest \in SUBSET (1..(m - 1))
    BY <1>1, <1>2, <2>1
  <2> QED
    BY <2>1, <2>2
<1>5. m \in R
  <2>1. m \notin R => Rest = R
    OBVIOUS
  <2> QED
    BY <1>2, <1>4, <2>1
<1> DEFINE n == Cardinality(Rest)
           t == [i \in 1..(n + 1) |-> IF i = n + 1 THEN m ELSE s[i]]
<1>6. n \in Nat /\ Cardinality(R) = n + 1
  <2>1. IsFiniteSet(Rest)
    <3>1. IsFiniteSet(1..m)
      BY FS_Interval
    <3>2. Rest \in SUBSET (1..m)
      OBVIOUS
    <3> QED
      BY <3>1, <3>2, FS_Subset
  <2>2. R = Rest \cup {m} /\ m \notin Rest
    BY <1>5
  <2> QED
    BY <2>1, <2>2, FS_CardinalityType, FS_AddElement
<1>7. Enumerates(t, R)
  <2> HIDE DEF n
  <2>1. s \in [1..n -> Rest] /\ Rest = {s[i] : i \in 1..n}
        /\ \A i, j \in 1..n : i < j => s[i] < s[j]
    BY <1>4 DEF Enumerates, n
  <2>2. DOMAIN t = 1..(n + 1) /\ t[n + 1] = m /\ \A i \in 1..n : t[i] = s[i] /\ i \in 1..(n + 1)
    BY <1>6
  <2>3. \A i \in 1..(n + 1) : i = n + 1 \/ i \in 1..n
    BY <1>6
  <2>4. t \in [1..Cardinality(R) -> R]
    BY <1>5, <1>6, <2>1, <2>3
  <2>5. R = {t[i] : i \in 1..(n + 1)}
    <3>1. ASSUME NEW g \in R PROVE \E i \in 1..(n + 1) : g = t[i]
      <4>1. CASE g = m
        BY <1>6, <2>2, <4>1
      <4>2. CASE g # m
        <5>1. PICK i \in 1..n : g = s[i]
          BY <2>1, <4>2
        <5> QED
          BY <2>2, <5>1
      <4> QED
        BY <4>1, <4>2
    <3>2. \A i \in 1..(n + 1) : t[i] \in R
      BY <1>6, <2>4
    <3> QED
      BY <3>1, <3>2
  <2>6. ASSUME NEW i \in 1..(n + 1), NEW j \in 1..(n + 1), i < j PROVE t[i] < t[j]
    <3>1. i \in 1..n /\ t[i] = s[i] /\ s[i] \in Rest
      BY <1>6, <2>1, <2>2, <2>6
    <3>2. CASE j = n + 1
      <4>1. s[i] \in 1..m /\ s[i] # m
        BY <3>1
      <4>2. m \in Nat
        OBVIOUS
      <4> QED
        BY <2>2, <3>1, <3>2, <4>1, <4>2
    <3>3. CASE j \in 1..n
      BY <2>1, <2>2, <2>6, <3>1, <3>3
    <3> QED
      BY <2>3, <3>2, <3>3
  <2> HIDE DEF t
  <2> QED
    BY <2>2, <2>4, <2>5, <2>6 DEF Enumerates
<1> QED
  BY <1>2, <1>7

\* The rooms of the map are those in the slots, each once and in order.
LEMMA InOrderEnumerates ==
  ASSUME NEW S \in SUBSET Groups
  PROVE  Enumerates(InOrder(S), S)
<1>1. \E s : Enumerates(s, S)
  BY EnumerationExists, CrawlAssumption DEF Groups
<1>2. \E s \in [1..Cardinality(S) -> S] : /\ S = {s[i] : i \in DOMAIN s}
                                          /\ \A i, j \in DOMAIN s : i < j => s[i] < s[j]
  BY <1>1 DEF Enumerates
<1> QED
  BY <1>2 DEF Enumerates, InOrder

LEMMA NoRooms == InOrder({}) = << >>
<1>1. InOrder({}) \in [1..0 -> {}]
  BY InOrderEnumerates, FS_EmptySet DEF Enumerates
<1> QED
  BY <1>1

-----------------------------------------------------------------------------
(* The inductive invariant *)

\* A worker that is at work is one the main thread waits for.
LEMMA AtWork ==
  ASSUME IInv, NEW w \in Workers, pc[w] \notin {"unspawned", "exited"}
  PROVE  pc[Main] = "join" /\ result = Pending /\ w # Main
BY CrawlAssumption DEF IInv, Phases, Answered, Listing

LEMMA InitInv == Init => IInv
<1> SUFFICES ASSUME Init PROVE IInv
  OBVIOUS
<1>1. Limits!IInv
  BY ThreadsFinite, Limits!InitInv DEF Init, Limiter!Init, Limits!Init
<1>2. /\ pc[Main] = "start" /\ \A w \in Workers : pc[w] = "unspawned"
      /\ Stored = {} /\ InLimiter = {} /\ \A g \in Groups : slots[g] = "none"
  BY CrawlAssumption DEF Init, Limiter!Init, Threads, Stored, InLimiter
<1>3. TypeOK
  <2>1. cancelled \in BOOLEAN /\ partial \in BOOLEAN
    BY DEF Init
  <2>2. cursor \in Nat \ {0} /\ slots \in [Groups -> {"none", "listed", "blank"}]
    BY DEF Init
  <2>3. /\ pc \in [Threads -> Places] /\ idx \in [Workers -> Nat] /\ attempt \in [Threads -> Nat]
        /\ outcome \in [Threads -> Outcomes \cup {"none"}]
    BY DEF Init, Places
  <2> QED
    BY <2>1, <2>2, <2>3 DEF TypeOK
<1>4. Phases
  BY <1>2 DEF Init, Phases, Listing
<1>5. Claims
  BY <1>2 DEF Init, Claims, HasGroup, Groups
<1>6. Published
  BY <1>2 DEF Init, Published, Shown
<1>7. Answered
  BY <1>2 DEF Init, Answered
<1> QED
  BY <1>1, <1>3, <1>4, <1>5, <1>6, <1>7 DEF IInv

\* A step of t within an az call: the rooms, the claims and the answer are not
\* its business.
LEMMA CallKept ==
  ASSUME IInv, Limits!IInv', NEW t \in Threads, pc[t] \in {"call", "report"},
         NEW l \in {"call", "report", "called"}, pc' = [pc EXCEPT ![t] = l],
         NEW o \in Outcomes \cup {"none"}, outcome' = [outcome EXCEPT ![t] = o],
         NEW n \in Nat, attempt' = [attempt EXCEPT ![t] = n],
         UNCHANGED <<cancelled, idx, shared, result>>,
         InLimiter' \subseteq InLimiter \cup {t}, l # "call" => t \notin InLimiter'
  PROVE  IInv'
<1> USE DEF IInv, shared
<1>1. TypeOK'
  BY DEF TypeOK, Places
<1>2. /\ pc \in [Threads -> Places] /\ pc'[t] = l
      /\ \A u \in Threads : u # t => pc'[u] = pc[u] /\ outcome'[u] = outcome[u]
      /\ Main \in Threads /\ Workers \subseteq Threads /\ Main \notin Workers
      /\ InLimiter \subseteq Threads
  BY CrawlAssumption DEF TypeOK, Threads, InLimiter, Limits!IInv, Limits!TypeOK
<1>3. Listing' = Listing /\ Stored' = Stored
  BY <1>2 DEF Listing, Stored
<1>4. Phases'
  BY <1>2, <1>3 DEF Phases, Listing
<1>5. \A w \in Workers : /\ HasGroup(w)' <=> HasGroup(w)
                         /\ pc'[w] = "exited" => pc[w] = "exited"
                         /\ pc'[w] = "recheck" <=> pc[w] = "recheck"
                         /\ pc'[w] = "store" <=> pc[w] = "store"
                         /\ pc'[w] = "store" => outcome'[w] = outcome[w]
  BY <1>2 DEF HasGroup
<1>6. Claims'
  BY <1>3, <1>5 DEF Claims
<1>7. Published'
  BY <1>5 DEF Published, Shown
<1>8. Answered'
  BY <1>2 DEF Answered, MapOf, Flatten, Stored
<1> QED
  BY <1>1, <1>4, <1>6, <1>7, <1>8

LEMMA CallInv ==
  ASSUME IInv, NEW t \in Threads, Call(t)
  PROVE  IInv'
<1>1. /\ Limits!IInv /\ pc \in [Threads -> Places]
      /\ outcome \in [Threads -> Outcomes \cup {"none"}] /\ attempt \in [Threads -> Nat]
  BY DEF IInv, TypeOK
<1>2. pc[t] # "call" => t \notin InLimiter
  BY DEF IInv, Phases
<1>3. CASE AcquirePermit(t)
  <2>1. Limits!IInv' /\ InLimiter' \subseteq InLimiter \cup {t}
    BY <1>1, <1>3, AcquireStep DEF AcquirePermit
  <2>2. /\ pc[t] = "call" /\ UNCHANGED <<cancelled, idx, shared, result>>
        /\ pc' = [pc EXCEPT ![t] = "call"]
        /\ outcome' = [outcome EXCEPT ![t] = outcome[t]] /\ outcome[t] \in Outcomes \cup {"none"}
        /\ attempt' = [attempt EXCEPT ![t] = attempt[t]] /\ attempt[t] \in Nat
    BY <1>1, <1>3 DEF AcquirePermit, threadVars
  <2> QED
    BY <2>1, <2>2, CallKept
<1>4. CASE RunAz(t)
  <2>1. Limits!IInv' /\ InLimiter' \subseteq InLimiter \ {t}
    BY <1>1, <1>4, DropStep DEF RunAz
  <2>2. /\ pc[t] = "call" /\ UNCHANGED <<cancelled, idx, shared, result>>
        /\ pc' = [pc EXCEPT ![t] = "report"]
        /\ attempt' = [attempt EXCEPT ![t] = attempt[t]] /\ attempt[t] \in Nat
    BY <1>1, <1>4 DEF RunAz, Goto
  <2>3. PICK o \in Outcomes : outcome' = [outcome EXCEPT ![t] = o]
    BY <1>4 DEF RunAz
  <2> QED
    BY <2>1, <2>2, <2>3, CallKept
<1>5. CASE ReportSuccess(t)
  <2>1. Limits!IInv' /\ InLimiter' \subseteq InLimiter
    BY <1>1, <1>5, ReportStep DEF ReportSuccess
  <2>2. /\ pc[t] = "report" /\ UNCHANGED <<cancelled, idx, shared, result>>
        /\ pc' = [pc EXCEPT ![t] = "called"]
        /\ outcome' = [outcome EXCEPT ![t] = outcome[t]] /\ outcome[t] \in Outcomes \cup {"none"}
        /\ attempt' = [attempt EXCEPT ![t] = attempt[t]] /\ attempt[t] \in Nat
    BY <1>1, <1>5 DEF ReportSuccess, Goto
  <2> QED
    BY <1>2, <2>1, <2>2, CallKept
<1>6. CASE RetryThrottled(t)
  <2>1. Limits!IInv' /\ InLimiter' \subseteq InLimiter
    BY <1>1, <1>6, ReportStep DEF RetryThrottled
  <2>2. /\ pc[t] = "report" /\ UNCHANGED <<cancelled, idx, shared, result>>
        /\ pc' = [pc EXCEPT ![t] = "call"]
        /\ outcome' = [outcome EXCEPT ![t] = outcome[t]] /\ outcome[t] \in Outcomes \cup {"none"}
    BY <1>1, <1>6 DEF RetryThrottled, Goto
  <2>3. PICK n \in Nat : attempt' = [attempt EXCEPT ![t] = n]
    <3>1. attempt' = [attempt EXCEPT ![t] = attempt[t] + 1]
      BY <1>6 DEF RetryThrottled
    <3>2. attempt[t] + 1 \in Nat
      BY <1>1
    <3> QED
      BY <3>1, <3>2
  <2> QED
    BY <1>2, <2>1, <2>2, <2>3, CallKept
<1>7. CASE GiveUp(t)
  <2>1. Limits!IInv' /\ InLimiter' = InLimiter
    BY <1>1, <1>7, NoLimiterStep DEF GiveUp
  <2>2. /\ pc[t] = "report" /\ UNCHANGED <<cancelled, idx, shared, result>>
        /\ pc' = [pc EXCEPT ![t] = "called"]
        /\ outcome' = [outcome EXCEPT ![t] = outcome[t]] /\ outcome[t] \in Outcomes \cup {"none"}
        /\ attempt' = [attempt EXCEPT ![t] = attempt[t]] /\ attempt[t] \in Nat
    BY <1>1, <1>7 DEF GiveUp, Goto
  <2> QED
    BY <1>2, <2>1, <2>2, CallKept
<1> QED
  BY <1>3, <1>4, <1>5, <1>6, <1>7 DEF Call

\* A step of a worker's own loop: it alone moves, and the main thread waits.
LEMMA WorkerKept ==
  ASSUME IInv, NEW w \in Workers, pc[w] \notin {"unspawned", "call", "exited"},
         NEW l \in {"check", "claim", "recheck", "call", "store", "exited"},
         pc' = [pc EXCEPT ![w] = l], UNCHANGED <<limiterVars, result>>
  PROVE  /\ pc' \in [Threads -> Places] /\ pc'[w] = l /\ w \in Threads
         /\ \A t \in Threads \ {w} : pc'[t] = pc[t]
         /\ Limits!IInv' /\ Phases' /\ Answered'
<1> USE DEF IInv
<1>1. pc[Main] = "join" /\ result = Pending /\ w # Main
  BY AtWork
<1>2. /\ pc' \in [Threads -> Places] /\ pc'[w] = l /\ w \in Threads
      /\ \A t \in Threads \ {w} : pc'[t] = pc[t]
      /\ Main \in Threads /\ Workers \subseteq Threads
  BY CrawlAssumption DEF TypeOK, Threads, Places
<1>3. Limits!IInv' /\ InLimiter' = InLimiter
  BY NoLimiterStep DEF limiterVars
<1>4. InLimiter \subseteq Threads /\ w \notin InLimiter
  BY DEF InLimiter, Phases, Limits!IInv, Limits!TypeOK
<1>5. pc'[Main] = "join"
  BY <1>1, <1>2
<1>6. Phases'
  BY <1>2, <1>3, <1>4, <1>5 DEF Phases, Listing
<1>7. Answered'
  BY <1>1, <1>5 DEF Answered
<1> QED
  BY <1>2, <1>3, <1>6, <1>7

LEMMA StopCancelledInv ==
  ASSUME IInv, NEW w \in Workers, StopCancelled(w)
  PROVE  IInv'
<1> USE DEF IInv
<1>1. /\ pc[w] \in {"check", "recheck"} /\ cancelled /\ partial'
      /\ UNCHANGED <<limiterVars, cancelled, idx, attempt, outcome, cursor, slots, subscription, result>>
      /\ pc' = [pc EXCEPT ![w] = "exited"] /\ partial' \in BOOLEAN
  BY DEF StopCancelled, Goto
<1>2. /\ pc' \in [Threads -> Places] /\ pc'[w] = "exited" /\ Workers \subseteq Threads
      /\ \A t \in Threads \ {w} : pc'[t] = pc[t]
      /\ Limits!IInv' /\ Phases' /\ Answered'
  BY <1>1, WorkerKept DEF Threads
<1>3. TypeOK'
  BY <1>1, <1>2 DEF TypeOK
<1>4. Stored' = Stored /\ \A v \in Workers : HasGroup(v)' => v # w /\ HasGroup(v) /\ pc'[v] = pc[v]
  BY <1>1, <1>2 DEF Stored, HasGroup
<1>5. Claims'
  BY <1>1, <1>4 DEF Claims
<1>6. Published'
  BY <1>1, <1>2 DEF Published, Shown
<1> QED
  BY <1>2, <1>3, <1>5, <1>6

LEMMA PassCheckInv ==
  ASSUME IInv, NEW w \in Workers, PassCheck(w)
  PROVE  IInv'
<1> USE DEF IInv, shared
<1>1. /\ pc[w] = "check" /\ pc' = [pc EXCEPT ![w] = "claim"]
      /\ UNCHANGED <<limiterVars, cancelled, idx, attempt, outcome, shared, result>>
  BY DEF PassCheck, Goto
<1>2. /\ pc' \in [Threads -> Places] /\ pc'[w] = "claim" /\ Workers \subseteq Threads
      /\ \A t \in Threads \ {w} : pc'[t] = pc[t]
      /\ Limits!IInv' /\ Phases' /\ Answered'
  BY <1>1, WorkerKept DEF Threads
<1>3. TypeOK'
  BY <1>1, <1>2 DEF TypeOK
<1>4. /\ Stored' = Stored
      /\ \A v \in Workers : /\ HasGroup(v)' <=> HasGroup(v)
                            /\ pc'[v] = "recheck" <=> pc[v] = "recheck"
                            /\ pc'[v] = "store" <=> pc[v] = "store"
                            /\ pc'[v] = "exited" <=> pc[v] = "exited"
  BY <1>1, <1>2 DEF Stored, HasGroup
<1>5. Claims'
  BY <1>1, <1>4 DEF Claims
<1>6. Published'
  BY <1>1, <1>4 DEF Published, Shown
<1> QED
  BY <1>2, <1>3, <1>5, <1>6

\* The cursor hands out every group once.
LEMMA ClaimInv ==
  ASSUME IInv, NEW w \in Workers, Claim(w)
  PROVE  IInv'
<1> USE DEF IInv
<1> DEFINE l == IF cursor \in Groups THEN "recheck" ELSE "exited"
<1>1. /\ pc[w] = "claim" /\ cursor' = cursor + 1 /\ pc' = [pc EXCEPT ![w] = l]
      /\ idx' = IF cursor \in Groups THEN [idx EXCEPT ![w] = cursor] ELSE idx
      /\ UNCHANGED <<limiterVars, cancelled, attempt, outcome, slots, subscription, partial, result>>
  BY DEF Claim, Goto
<1>2. /\ pc' \in [Threads -> Places] /\ pc'[w] = l /\ Workers \subseteq Threads
      /\ \A t \in Threads \ {w} : pc'[t] = pc[t]
      /\ Limits!IInv' /\ Phases' /\ Answered'
  BY <1>1, WorkerKept DEF Threads
<1>3. cursor \in Nat \ {0} /\ NGroups \in Nat /\ idx \in [Workers -> Nat]
  BY CrawlAssumption DEF TypeOK
<1>4. TypeOK'
  <2>1. cursor' \in Nat \ {0} /\ idx' \in [Workers -> Nat]
    BY <1>1, <1>3
  <2> QED
    BY <1>1, <1>2, <2>1 DEF TypeOK
<1>5. /\ Stored' = Stored
      /\ \A v \in Workers : v # w => /\ HasGroup(v)' <=> HasGroup(v)
                                     /\ pc'[v] = pc[v] /\ idx'[v] = idx[v]
      /\ HasGroup(w)' => cursor \in Groups /\ idx'[w] = cursor /\ pc'[w] = "recheck"
      /\ ~HasGroup(w)' => cursor > NGroups
  BY <1>1, <1>2, <1>3 DEF Stored, HasGroup, Groups
<1>6. Claims'
  <2>1. partial' => cancelled'
    BY <1>1 DEF Claims
  <2>2. ASSUME NEW v \in Workers, HasGroup(v)'
        PROVE  /\ idx'[v] \in Groups \ Stored /\ idx'[v] < cursor'
               /\ pc'[v] # "recheck" => idx'[v] \notin Malformed
    <3>1. CASE v = w
      <4>1. cursor \notin Stored
        BY <1>3 DEF Claims
      <4> QED
        BY <1>1, <1>3, <1>5, <2>2, <3>1, <4>1
    <3>2. CASE v # w
      BY <1>1, <1>3, <1>5, <2>2, <3>2 DEF Claims, Groups
    <3> QED
      BY <3>1, <3>2
  <2>3. ASSUME NEW u \in Workers, NEW v \in Workers, HasGroup(u)', HasGroup(v)', idx'[u] = idx'[v]
        PROVE  u = v
    <3>1. \A x \in Workers : HasGroup(x) => idx[x] # cursor
      BY <1>3 DEF Claims
    <3> QED
      BY <1>5, <2>3, <3>1 DEF Claims
  <2>4. \A g \in Stored : g < cursor' /\ g \notin Malformed
    BY <1>1, <1>3 DEF Claims, Stored, Groups
  <2>5. ASSUME ~partial', NEW g \in Groups, g < cursor', g \notin Malformed, g \notin Stored
        PROVE  \E v \in Workers : HasGroup(v)' /\ idx'[v] = g
    <3>1. CASE g = cursor
      BY <1>3, <1>5, <2>5, <3>1 DEF Groups
    <3>2. CASE g # cursor
      <4>1. g < cursor
        BY <1>1, <1>3, <2>5, <3>2 DEF Groups
      <4>2. PICK v \in Workers : HasGroup(v) /\ idx[v] = g
        BY <1>1, <2>5, <4>1 DEF Claims
      <4>3. v # w
        BY <1>1, <4>2 DEF HasGroup
      <4> QED
        BY <1>5, <4>2, <4>3
    <3> QED
      BY <3>1, <3>2
  <2>6. ASSUME ~partial', NEW v \in Workers, pc'[v] = "exited" PROVE cursor' > NGroups
    <3>1. CASE v = w
      BY <1>1, <1>2, <1>3, <1>5, <2>6, <3>1 DEF HasGroup
    <3>2. CASE v # w
      BY <1>1, <1>3, <1>5, <2>6, <3>2 DEF Claims
    <3> QED
      BY <3>1, <3>2
  <2> QED
    BY <1>5, <2>1, <2>2, <2>3, <2>4, <2>5, <2>6 DEF Claims
<1>7. Published'
  <2>1. \A v \in Workers : pc'[v] = "store" <=> v # w /\ pc[v] = "store"
    BY <1>1, <1>2
  <2>2. \A g \in Groups : Shown(g)' <=> Shown(g)
    BY <1>1, <1>5, <2>1 DEF Shown
  <2> QED
    BY <1>1, <2>2 DEF Published
<1> QED
  BY <1>2, <1>4, <1>6, <1>7

\* A malformed group is given up before it was asked for.
LEMMA StartGroupInv ==
  ASSUME IInv, NEW w \in Workers, StartGroup(w)
  PROVE  IInv'
<1> USE DEF IInv, shared
<1> DEFINE l == IF idx[w] \in Malformed THEN "check" ELSE "call"
<1>1. /\ pc[w] = "recheck" /\ pc' = [pc EXCEPT ![w] = l]
      /\ attempt' \in {attempt, [attempt EXCEPT ![w] = 1]}
      /\ UNCHANGED <<limiterVars, cancelled, idx, outcome, shared, result>>
  BY DEF StartGroup, BeginCall, Goto
<1>2. /\ pc' \in [Threads -> Places] /\ pc'[w] = l /\ Workers \subseteq Threads
      /\ \A t \in Threads \ {w} : pc'[t] = pc[t]
      /\ Limits!IInv' /\ Phases' /\ Answered'
  BY <1>1, WorkerKept DEF Threads
<1>3. TypeOK'
  <2>1. attempt' \in [Threads -> Nat]
    BY <1>1 DEF TypeOK
  <2> QED
    BY <1>1, <1>2, <2>1 DEF TypeOK
<1>4. /\ Stored' = Stored
      /\ \A v \in Workers : v # w => (HasGroup(v)' <=> HasGroup(v)) /\ pc'[v] = pc[v]
      /\ HasGroup(w) /\ (HasGroup(w)' <=> idx[w] \notin Malformed)
      /\ pc'[w] # "exited"
  BY <1>1, <1>2 DEF Stored, HasGroup
<1>5. Claims'
  <2>1. ASSUME NEW v \in Workers, HasGroup(v)'
        PROVE  /\ idx[v] \in Groups \ Stored /\ idx[v] < cursor
               /\ pc'[v] # "recheck" => idx[v] \notin Malformed
    BY <1>4, <2>1 DEF Claims
  <2>2. ASSUME ~partial, NEW g \in Groups, g < cursor, g \notin Malformed \cup Stored
        PROVE  \E v \in Workers : HasGroup(v)' /\ idx[v] = g
    <3>1. PICK v \in Workers : HasGroup(v) /\ idx[v] = g
      BY <2>2 DEF Claims
    <3> QED
      BY <1>4, <2>2, <3>1
  <2>3. \A u, v \in Workers : HasGroup(u)' /\ HasGroup(v)' /\ idx[u] = idx[v] => u = v
    BY <1>4 DEF Claims
  <2>4. \A v \in Workers : pc'[v] = "exited" => pc[v] = "exited"
    BY <1>4
  <2> QED
    BY <1>1, <1>4, <2>1, <2>2, <2>3, <2>4 DEF Claims
<1>6. Published'
  <2>1. \A v \in Workers : pc'[v] = "store" <=> pc[v] = "store"
    BY <1>1, <1>2
  <2>2. \A g \in Groups : Shown(g)' <=> Shown(g)
    BY <1>1, <2>1 DEF Shown
  <2> QED
    BY <1>1, <2>2 DEF Published
<1> QED
  BY <1>2, <1>3, <1>5, <1>6

\* The first to see a subscription names it, before anybody can see the room.
LEMMA PublishSubscriptionInv ==
  ASSUME IInv, NEW w \in Workers, PublishSubscription(w)
  PROVE  IInv'
<1> USE DEF IInv
<1>1. /\ pc[w] = "called" /\ pc' = [pc EXCEPT ![w] = "store"]
      /\ subscription' = IF outcome[w] = "listed" /\ subscription = Unknown
                         THEN SubscriptionOf[idx[w]] ELSE subscription
      /\ UNCHANGED <<limiterVars, cancelled, idx, attempt, outcome, cursor, slots, partial, result>>
  BY DEF PublishSubscription, Goto
<1>2. /\ pc' \in [Threads -> Places] /\ pc'[w] = "store" /\ Workers \subseteq Threads
      /\ \A t \in Threads \ {w} : pc'[t] = pc[t]
      /\ Limits!IInv' /\ Phases' /\ Answered'
  BY <1>1, WorkerKept DEF Threads
<1>3. TypeOK'
  BY <1>1, <1>2 DEF TypeOK
<1>4. /\ Stored' = Stored
      /\ \A v \in Workers : /\ HasGroup(v)' <=> HasGroup(v)
                            /\ pc'[v] = "recheck" <=> pc[v] = "recheck"
                            /\ pc'[v] = "exited" <=> pc[v] = "exited"
  BY <1>1, <1>2 DEF Stored, HasGroup
<1>5. Claims'
  BY <1>1, <1>4 DEF Claims
<1>6. Published'
  <2>1. \A v \in Workers : pc'[v] = "store" <=> pc[v] = "store" \/ v = w
    BY <1>1, <1>2
  <2>2. \A g \in Groups : Shown(g)' <=> Shown(g) \/ (g = idx[w] /\ outcome[w] = "listed")
    BY <1>1, <2>1 DEF Shown
  <2>3. idx[w] \in Groups
    BY <1>1 DEF Claims, HasGroup
  <2>4. CASE outcome[w] = "listed"
    <3>1. \A g \in Groups : Shown(g)' <=> Shown(g) \/ g = idx[w]
      BY <2>2, <2>4
    <3>2. CASE subscription = Unknown
      BY <1>1, <2>3, <2>4, <3>1, <3>2 DEF Published
    <3>3. CASE subscription # Unknown
      BY <1>1, <2>3, <2>4, <3>1, <3>3 DEF Published
    <3> QED
      BY <3>2, <3>3
  <2>5. CASE outcome[w] # "listed"
    BY <1>1, <2>2, <2>5 DEF Published
  <2> QED
    BY <2>4, <2>5
<1> QED
  BY <1>2, <1>3, <1>5, <1>6

LEMMA StoreRoomInv ==
  ASSUME IInv, NEW w \in Workers, StoreRoom(w)
  PROVE  IInv'
<1> USE DEF IInv
<1> DEFINE room == IF outcome[w] = "listed" THEN "listed" ELSE "blank"
<1>1. /\ pc[w] = "store" /\ pc' = [pc EXCEPT ![w] = "check"]
      /\ slots' = [slots EXCEPT ![idx[w]] = room]
      /\ UNCHANGED <<limiterVars, cancelled, idx, attempt, outcome, cursor, subscription, partial, result>>
  BY DEF StoreRoom, Goto
<1>2. /\ pc' \in [Threads -> Places] /\ pc'[w] = "check" /\ Workers \subseteq Threads
      /\ \A t \in Threads \ {w} : pc'[t] = pc[t]
      /\ Limits!IInv' /\ Phases' /\ Answered'
  BY <1>1, WorkerKept DEF Threads
<1>3. /\ idx[w] \in Groups /\ idx[w] \notin Stored /\ idx[w] < cursor /\ idx[w] \notin Malformed
      /\ slots \in [Groups -> {"none", "listed", "blank"}] /\ HasGroup(w)
  BY <1>1 DEF Claims, HasGroup, TypeOK
<1>4. TypeOK'
  BY <1>1, <1>2, <1>3 DEF TypeOK
<1>5. /\ slots'[idx[w]] = room /\ \A g \in Groups : g # idx[w] => slots'[g] = slots[g]
      /\ Stored' = Stored \cup {idx[w]}
  BY <1>1, <1>3 DEF Stored
<1>6. \A v \in Workers : /\ HasGroup(v)' <=> HasGroup(v) /\ v # w
                         /\ v # w => pc'[v] = pc[v]
                         /\ pc'[v] = "exited" => pc[v] = "exited"
  BY <1>2 DEF HasGroup
<1>7. Claims'
  <2>1. ASSUME NEW v \in Workers, HasGroup(v)'
        PROVE  /\ idx[v] \in Groups \ Stored' /\ idx[v] < cursor
               /\ pc'[v] # "recheck" => idx[v] \notin Malformed
    <3>1. v # w /\ HasGroup(v) /\ pc'[v] = pc[v]
      BY <1>6, <2>1
    <3>2. idx[v] # idx[w]
      BY <1>3, <3>1 DEF Claims
    <3> QED
      BY <1>5, <3>1, <3>2 DEF Claims
  <2>2. \A u, v \in Workers : HasGroup(u)' /\ HasGroup(v)' /\ idx[u] = idx[v] => u = v
    BY <1>6 DEF Claims
  <2>3. \A g \in Stored' : g < cursor /\ g \notin Malformed
    BY <1>3, <1>5 DEF Claims
  <2>4. ASSUME ~partial, NEW g \in Groups, g < cursor, g \notin Malformed \cup Stored'
        PROVE  \E v \in Workers : HasGroup(v)' /\ idx[v] = g
    <3>1. g \notin Malformed \cup Stored /\ g # idx[w]
      BY <1>5, <2>4
    <3>2. PICK v \in Workers : HasGroup(v) /\ idx[v] = g
      BY <2>4, <3>1 DEF Claims
    <3> QED
      BY <1>6, <3>1, <3>2
  <2>5. \A v \in Workers : pc'[v] = "exited" => pc[v] = "exited"
    BY <1>6
  <2> QED
    BY <1>1, <2>1, <2>2, <2>3, <2>4, <2>5 DEF Claims
<1>8. Published'
  <2>1. ASSUME NEW g \in Groups PROVE Shown(g)' <=> Shown(g)
    <3>1. CASE g = idx[w]
      <4>1. Shown(g) <=> outcome[w] = "listed"
        <5>1. slots[g] = "none"
          BY <1>3, <3>1 DEF Stored
        <5>2. ASSUME NEW v \in Workers, pc[v] = "store", idx[v] = g PROVE v = w
          <6>1. HasGroup(v)
            BY <5>2 DEF HasGroup
          <6> QED
            BY <1>3, <3>1, <5>2, <6>1 DEF Claims
        <5> QED
          BY <1>1, <3>1, <5>1, <5>2 DEF Shown
      <4>2. Shown(g)' <=> outcome[w] = "listed"
        <5>1. ASSUME NEW v \in Workers, pc'[v] = "store", idx[v] = g PROVE FALSE
          <6>1. HasGroup(v)' /\ HasGroup(v) /\ v # w
            BY <1>2, <1>6, <5>1 DEF HasGroup
          <6> QED
            BY <1>3, <3>1, <5>1, <6>1 DEF Claims
        <5> QED
          BY <1>1, <1>5, <3>1, <5>1 DEF Shown
      <4> QED
        BY <4>1, <4>2
    <3>2. CASE g # idx[w]
      BY <1>1, <1>2, <1>5, <3>2 DEF Shown
    <3> QED
      BY <3>1, <3>2
  <2> QED
    BY <1>1, <2>1 DEF Published
<1> QED
  BY <1>2, <1>4, <1>7, <1>8

\* A step of the main thread, before and after it waits for the workers.
LEMMA MainKept ==
  ASSUME IInv, UNCHANGED <<limiterVars, cancelled, idx, outcome, shared>>,
         attempt' \in [Threads -> Nat], pc[Main] # "call",
         NEW l \in {"call", "returned"}, pc' = [pc EXCEPT ![Main] = l],
         l = "call" => Listing, l # "returned" => UNCHANGED result,
         l = "returned" => \A w \in Workers : pc[w] \in {"unspawned", "exited"},
         l = "returned" => \/ result' = [status |-> "error"]
                           \/ result' = MapOf(TRUE)
                           \/ result' = MapOf(FALSE) /\ Stored = WellFormed,
         pc[Main] # "returned"
  PROVE  IInv'
<1> USE DEF IInv, shared
<1>1. /\ pc' \in [Threads -> Places] /\ pc'[Main] = l /\ Main \in Threads /\ Workers \subseteq Threads
      /\ \A t \in Threads \ {Main} : pc'[t] = pc[t]
      /\ \A w \in Workers : pc'[w] = pc[w]
  BY CrawlAssumption DEF TypeOK, Threads, Places
<1>2. Limits!IInv' /\ InLimiter' = InLimiter
  BY NoLimiterStep
<1>3. InLimiter \subseteq Threads /\ Main \notin InLimiter
  BY DEF InLimiter, Phases, Limits!IInv, Limits!TypeOK
<1>4. Stored' = Stored /\ MapOf(TRUE)' = MapOf(TRUE) /\ MapOf(FALSE)' = MapOf(FALSE)
  BY DEF Stored, MapOf, Flatten
<1>5. TypeOK'
  BY <1>1 DEF TypeOK
<1>6. Phases'
  BY <1>1, <1>2, <1>3, <1>4 DEF Phases, Listing
<1>7. Claims'
  BY <1>1, <1>4 DEF Claims, HasGroup
<1>8. Published'
  BY <1>1 DEF Published, Shown
<1>9. Answered'
  BY <1>1, <1>4 DEF Answered
<1> QED
  BY <1>2, <1>5, <1>6, <1>7, <1>8, <1>9

\* The answer of a crawl that was cancelled before it began.
LEMMA StartInv ==
  ASSUME IInv, Start
  PROVE  IInv'
<1>1. /\ pc[Main] = "start" /\ Stored = {} /\ subscription = Unknown
      /\ \A w \in Workers : pc[w] = "unspawned"
      /\ UNCHANGED <<limiterVars, cancelled, idx, outcome, shared>>
  BY DEF Start, IInv, Phases, Listing
<1>2. CASE cancelled
  <2>1. result' = MapOf(TRUE) /\ pc' = [pc EXCEPT ![Main] = "returned"] /\ UNCHANGED attempt
    BY <1>1, <1>2, NoRooms DEF Start, Goto, MapOf, Flatten, Stored
  <2>2. attempt' \in [Threads -> Nat]
    BY <2>1 DEF IInv, TypeOK
  <2> QED
    BY <1>1, <2>1, <2>2, MainKept
<1>3. CASE ~cancelled
  <2>1. UNCHANGED result /\ pc' = [pc EXCEPT ![Main] = "call"]
        /\ attempt' = [attempt EXCEPT ![Main] = 1]
    BY <1>3 DEF Start, BeginCall, Goto
  <2>2. attempt' \in [Threads -> Nat]
    BY <2>1 DEF IInv, TypeOK
  <2> QED
    BY <1>1, <2>1, <2>2, MainKept DEF Listing
<1> QED
  BY <1>2, <1>3

LEMMA ListFailedInv ==
  ASSUME IInv, ListFailed
  PROVE  IInv'
<1>1. /\ pc[Main] = "called" /\ \A w \in Workers : pc[w] = "unspawned"
      /\ UNCHANGED <<limiterVars, cancelled, idx, outcome, shared, attempt>>
      /\ result' = [status |-> "error"] /\ pc' = [pc EXCEPT ![Main] = "returned"]
  BY DEF ListFailed, IInv, Phases, Listing, Goto
<1>2. attempt' \in [Threads -> Nat]
  BY <1>1 DEF IInv, TypeOK
<1> QED
  BY <1>1, <1>2, MainKept

\* When every worker has exited and nobody was stopped, every group was dealt with.
LEMMA JoinFindsAll ==
  ASSUME IInv, Join, ~partial
  PROVE  Stored = WellFormed
<1>1. /\ \A w \in Workers : pc[w] = "exited" /\ ~HasGroup(w)
      /\ Workers # {} /\ NGroups \in Nat
  BY CrawlAssumption DEF Join, HasGroup
<1>2. \A g \in Groups : g < cursor
  BY <1>1 DEF IInv, Claims, TypeOK, Groups
<1>3. \A g \in Groups : g \in Malformed \cup Stored
  BY <1>1, <1>2 DEF IInv, Claims
<1> QED
  BY <1>3 DEF IInv, Claims, Stored, WellFormed

LEMMA JoinInv ==
  ASSUME IInv, Join
  PROVE  IInv'
<1>1. /\ pc[Main] = "join" /\ \A w \in Workers : pc[w] = "exited"
      /\ UNCHANGED <<limiterVars, cancelled, idx, outcome, shared, attempt>>
      /\ result' = MapOf(partial) /\ pc' = [pc EXCEPT ![Main] = "returned"]
  BY DEF Join, Goto, MapOf
<1>2. attempt' \in [Threads -> Nat] /\ partial \in BOOLEAN
  BY <1>1 DEF IInv, TypeOK
<1>3. CASE partial = TRUE
  BY <1>1, <1>2, <1>3, MainKept
<1>4. CASE partial = FALSE
  BY <1>1, <1>2, <1>4, JoinFindsAll, MainKept
<1> QED
  BY <1>2, <1>3, <1>4

LEMMA SpawnInv ==
  ASSUME IInv, Spawn
  PROVE  IInv'
<1> USE DEF IInv, shared
<1>1. /\ pc[Main] = "called" /\ \A w \in Workers : pc[w] = "unspawned"
      /\ pc' = [t \in Threads |-> IF t = Main THEN "join" ELSE "check"]
      /\ UNCHANGED <<limiterVars, cancelled, idx, attempt, outcome, shared, result>>
      /\ Stored = {} /\ cursor = 1
  BY DEF Spawn, Phases, Listing
<1>2. /\ pc'[Main] = "join" /\ \A w \in Workers : pc'[w] = "check"
      /\ pc' \in [Threads -> Places]
  BY <1>1, CrawlAssumption DEF Threads, Places
<1>3. Limits!IInv' /\ InLimiter' = InLimiter
  BY <1>1, NoLimiterStep
<1>4. InLimiter = {}
  BY <1>1 DEF InLimiter, Phases, Limits!IInv, Limits!TypeOK, Threads
<1>5. TypeOK'
  BY <1>1, <1>2 DEF TypeOK
<1>6. Phases'
  BY <1>2, <1>3, <1>4 DEF Phases, Listing
<1>7. Stored' = Stored /\ \A w \in Workers : ~HasGroup(w)'
  BY <1>1, <1>2 DEF Stored, HasGroup
<1>8. Claims'
  BY <1>1, <1>2, <1>7 DEF Claims, Groups
<1>9. Published'
  BY <1>1, <1>2 DEF Published, Shown
<1>10. Answered'
  BY <1>1, <1>2 DEF Answered
<1> QED
  BY <1>3, <1>5, <1>6, <1>8, <1>9, <1>10

LEMMA QuietInv ==
  ASSUME IInv, cancelled' \in {cancelled, TRUE}, UNCHANGED <<limiterVars, threadVars, shared, result>>
  PROVE  IInv'
<1> USE DEF IInv, shared, threadVars
<1>1. Limits!IInv' /\ InLimiter' = InLimiter
  BY NoLimiterStep
<1>2. TypeOK'
  BY DEF TypeOK
<1>3. Phases'
  BY <1>1 DEF Phases, Listing, Stored
<1>4. Claims'
  BY DEF Claims, HasGroup, Stored
<1>5. Published' /\ Answered'
  BY DEF Published, Shown, Answered, MapOf, Flatten, Stored
<1> QED
  BY <1>1, <1>2, <1>3, <1>4, <1>5

LEMMA NextInv == IInv /\ [Next]_vars => IInv'
<1> SUFFICES ASSUME IInv, [Next]_vars PROVE IInv'
  OBVIOUS
<1>1. CASE Cancel
  BY <1>1, QuietInv DEF Cancel
<1>2. ASSUME NEW t \in Threads, Call(t) PROVE IInv'
  BY <1>2, CallInv
<1>3. ASSUME NEW w \in Workers, WorkerStep(w) PROVE IInv'
  BY <1>3, StopCancelledInv, PassCheckInv, ClaimInv, StartGroupInv, PublishSubscriptionInv,
     StoreRoomInv DEF WorkerStep
<1>4. CASE MainStep
  BY <1>4, StartInv, SpawnInv, ListFailedInv, JoinInv DEF MainStep
<1>5. CASE UNCHANGED vars
  BY <1>5, QuietInv DEF vars
<1> QED
  BY <1>1, <1>2, <1>3, <1>4, <1>5 DEF Next

LEMMA Invariance == Spec => []IInv
BY InitInv, NextInv, PTL DEF Spec

-----------------------------------------------------------------------------
(* What the crawl promises *)

\* Every variable is of its type, and the limiter's stay in their invariant,
\* whatever the threads of a crawl do with it.
THEOREM CrawlTypeOK == Spec => [](TypeOK /\ Limiter!TypeOK)
<1>1. IInv => TypeOK /\ Limiter!TypeOK
  BY DEF IInv, Limits!IInv, Limits!TypeOK, Limiter!TypeOK
<1> QED
  BY <1>1, Invariance, PTL

LEMMA InvIsComplete == IInv => CompleteUnlessPartial
BY DEF IInv, Answered, MapOf, Pending, CompleteUnlessPartial, Flatten, Stored

\* A map that is not partial has a room for every well-formed group, in order: no
\* claimed group is lost between cursor, checks and slots (process_one_group).
THEOREM MapIsComplete == Spec => []CompleteUnlessPartial
<1> QED
  BY InvIsComplete, Invariance, PTL

\* The map names a subscription exactly if one of its rooms showed one, and then
\* one of those (the mutex of the subscription and the one of the slots).
THEOREM SubscriptionIsOneShown == Spec => []SubscriptionObserved
<1>1. ASSUME IInv, result.status = "map" PROVE SubscriptionObserved
  <2> USE DEF IInv
  <2>1. pc[Main] = "returned" /\ result.subscription = subscription
    BY <1>1 DEF Answered, MapOf, Pending
  <2>2. \A g \in Groups : Shown(g) <=> slots[g] = "listed"
    BY <1>1, <2>1 DEF Shown, Phases
  <2> DEFINE shown == {SubscriptionOf[g] : g \in {r \in Groups : slots[r] = "listed"}}
  <2>3. IF shown \subseteq {Unknown} THEN subscription = Unknown
        ELSE subscription \in shown \ {Unknown}
    BY <1>1, <2>2 DEF Published
  <2> QED
    BY <2>1, <2>3 DEF SubscriptionObserved
<1>2. IInv => SubscriptionObserved
  BY <1>1 DEF SubscriptionObserved
<1> QED
  BY <1>2, Invariance, PTL

\* Nobody sleeps, stores or returns with a permit, and none outlives the crawl
\* (call_with_throttle_retry drops it before it looks at the outcome).
THEOREM PermitsAreDropped == Spec => []PermitsOnlyInCalls
<1>1. ASSUME IInv PROVE PermitsOnlyInCalls
  <2> USE DEF IInv
  <2>1. \A t \in InLimiter : pc[t] = "call"
    BY <1>1 DEF Phases
  <2>2. ASSUME result.status # "pending" PROVE InLimiter = {}
    <3>1. pc[Main] = "returned"
      <4>1. result # Pending
        BY <2>2 DEF Pending
      <4> QED
        BY <1>1, <4>1 DEF Answered
    <3>2. \A t \in Threads : pc[t] # "call"
      BY <1>1, <3>1 DEF Phases, Threads
    <3>3. InLimiter \subseteq Threads
      BY <1>1 DEF InLimiter, Limits!IInv, Limits!TypeOK
    <3> QED
      BY <2>1, <3>2, <3>3
  <2>3. InLimiter = {} => in_flight = 0
    BY <1>1, SameSets, FS_EmptySet DEF InLimiter, Limits!IInv, Limits!PermitAccounting
  <2> QED
    BY <2>1, <2>2, <2>3 DEF PermitsOnlyInCalls, InLimiter
<1> QED
  BY <1>1, Invariance, PTL

-----------------------------------------------------------------------------
(* The crawl implements CrawlContract *)

\* The groups of the map the caller was given.
Rooms == {result.rooms[i] : i \in DOMAIN result.rooms}

\* The contract's view of the answer.
Answer == IF result.status = "map"
          THEN [status |-> "map", partial |-> result.partial, rooms |-> Rooms]
          ELSE result

LEMMA AnswerOfOthers ==
  /\ result = Pending => Answer = [status |-> "pending"]
  /\ result = [status |-> "error"] => Answer = [status |-> "error"]
BY DEF Answer, Pending

\* Most steps are none of the contract.
LEMMA Stutters == UNCHANGED <<cancelled, slots, result>> => UNCHANGED Contract!vars
BY DEF Contract!vars

LEMMA ContractInit == Init => Contract!Init
<1> SUFFICES ASSUME Init PROVE Contract!Init
  OBVIOUS
<1>1. cancelled \in BOOLEAN /\ Stored = {} /\ Answer = [status |-> "pending"]
  BY AnswerOfOthers DEF Init, Stored
<1> QED
  BY <1>1 DEF Contract!Init, Stored, Answer, Rooms

\* Storing a room is observing its group, once and before the answer.
LEMMA StoreRoomObserves ==
  ASSUME IInv, NEW w \in Workers, StoreRoom(w)
  PROVE  Contract!Next
<1>1. pc[w] = "store" /\ UNCHANGED <<cancelled, result>>
      /\ slots' = [slots EXCEPT ![idx[w]] = IF outcome[w] = "listed" THEN "listed" ELSE "blank"]
  BY DEF StoreRoom
<1>2. result = Pending
  BY <1>1, AtWork
<1>3. idx[w] \in WellFormed /\ idx[w] \notin Stored /\ slots \in [Groups -> {"none", "listed", "blank"}]
  BY <1>1 DEF IInv, Claims, HasGroup, WellFormed, TypeOK
<1>4. Stored' = Stored \cup {idx[w]}
  BY <1>1, <1>3 DEF Stored, WellFormed
<1>5. Answer' = Answer /\ Answer.status = "pending"
  BY <1>1, <1>2, AnswerOfOthers DEF Answer, Rooms
<1>6. PICK g \in WellFormed : g = idx[w]
  BY <1>3
<1>7. Contract!Observe(g)
  BY <1>1, <1>3, <1>4, <1>5, <1>6 DEF Contract!Observe, Stored, Answer, Rooms
<1> QED
  BY <1>7 DEF Contract!Next

\* The main thread's answers are the contract's: an error before anything was
\* observed, a whole map, or a partial one because the caller asked to stop.
LEMMA MainAnswers ==
  ASSUME IInv, IInv', MainStep, result' # result
  PROVE  Contract!Next
<1>1. UNCHANGED <<cancelled, slots>> /\ Stored' = Stored
  BY DEF MainStep, Start, Spawn, ListFailed, Join, shared, Stored
<1>2. result = Pending
  BY DEF MainStep, Start, Spawn, ListFailed, Join, IInv, Answered
<1>3. Answer.status = "pending"
  BY <1>2, AnswerOfOthers
<1>4. CASE Start
  <2>1. cancelled /\ result' = [status |-> "map", rooms |-> << >>,
                                subscription |-> Unknown, partial |-> TRUE]
    BY <1>4 DEF Start
  <2>2. Stored = {} /\ Rooms' = {}
    BY <1>4, <2>1 DEF Start, IInv, Phases, Listing, Rooms
  <2>3. Answer' = [status |-> "map", rooms |-> Stored, partial |-> TRUE]
    BY <2>1, <2>2 DEF Answer
  <2>4. Contract!AnswerPartial
    BY <1>1, <1>3, <2>1, <2>3 DEF Contract!AnswerPartial, Stored, Answer, Rooms
  <2> QED
    BY <2>4 DEF Contract!Next
<1>5. CASE ListFailed
  <2>1. Answer' = [status |-> "error"] /\ Stored = {}
    BY <1>5, AnswerOfOthers DEF ListFailed, Answer, Rooms, IInv, Phases, Listing
  <2>2. Contract!AnswerError
    BY <1>1, <1>3, <2>1 DEF Contract!AnswerError, Stored, Answer, Rooms
  <2> QED
    BY <2>2 DEF Contract!Next
<1>6. CASE Join
  <2>1. result' = MapOf(partial) /\ partial \in BOOLEAN
    BY <1>6 DEF Join, MapOf, IInv, TypeOK
  <2>2. Answer' = [status |-> "map", rooms |-> Stored, partial |-> partial]
    <3>1. Enumerates(Flatten, Stored)
      BY InOrderEnumerates DEF Flatten, Stored
    <3>2. Rooms' = Stored
      BY <2>1, <3>1 DEF Rooms, MapOf, Enumerates
    <3> QED
      BY <2>1, <3>2 DEF Answer, MapOf
  <2>3. CASE partial = TRUE
    <3>1. cancelled
      BY <2>3 DEF IInv, Claims
    <3>2. Contract!AnswerPartial
      BY <1>1, <1>3, <2>2, <2>3, <3>1 DEF Contract!AnswerPartial, Stored, Answer, Rooms
    <3> QED
      BY <3>2 DEF Contract!Next
  <2>4. CASE partial = FALSE
    <3>1. Stored = WellFormed
      BY <1>6, <2>4, JoinFindsAll
    <3>2. Contract!AnswerComplete
      BY <1>1, <1>3, <2>2, <2>4, <3>1 DEF Contract!AnswerComplete, Stored, Answer, Rooms
    <3> QED
      BY <3>2 DEF Contract!Next
  <2> QED
    BY <2>1, <2>3, <2>4
<1> QED
  BY <1>4, <1>5, <1>6 DEF MainStep, Spawn

LEMMA ContractStep ==
  ASSUME IInv, IInv', [Next]_vars
  PROVE  [Contract!Next]_(Contract!vars)
<1>1. CASE Cancel
  <2>1. Contract!Ask
    BY <1>1 DEF Cancel, shared, Contract!Ask
  <2> QED
    BY <2>1 DEF Contract!Next
<1>2. ASSUME NEW t \in Threads, Call(t) PROVE UNCHANGED Contract!vars
  <2>1. UNCHANGED <<cancelled, slots, result>>
    BY <1>2 DEF Call, AcquirePermit, RunAz, ReportSuccess, RetryThrottled, GiveUp, shared
  <2> QED
    BY <2>1, Stutters
<1>3. ASSUME NEW w \in Workers, WorkerStep(w) PROVE [Contract!Next]_(Contract!vars)
  <2>1. CASE StoreRoom(w)
    BY <2>1, StoreRoomObserves
  <2>2. CASE ~StoreRoom(w)
    <3>1. UNCHANGED <<cancelled, slots, result>>
      BY <1>3, <2>2 DEF WorkerStep, StopCancelled, PassCheck, Claim, StartGroup,
                        PublishSubscription, shared
    <3> QED
      BY <3>1, Stutters
  <2> QED
    BY <2>1, <2>2
<1>4. CASE MainStep
  <2>1. CASE result' = result
    <3>1. UNCHANGED <<cancelled, slots, result>>
      BY <1>4, <2>1 DEF MainStep, Start, Spawn, ListFailed, Join, shared
    <3> QED
      BY <3>1, Stutters
  <2>2. CASE result' # result
    BY <1>4, <2>2, MainAnswers
  <2> QED
    BY <2>1, <2>2
<1>5. CASE UNCHANGED vars
  BY <1>5, Stutters DEF vars, shared
<1> QED
  BY <1>1, <1>2, <1>3, <1>4, <1>5 DEF Next

\* However the workers, the cursor, the limiter and the retries interleave, the
\* crawl is an enumeration that answers once and truthfully (build_cancellable).
THEOREM CrawlImplementsContract == Spec => ImplementsContract
<1>1. IInv /\ [Next]_vars /\ IInv' => [Contract!Next]_(Contract!vars)
  BY ContractStep
<1> QED
  BY ContractInit, <1>1, Invariance, PTL DEF Spec, ImplementsContract, Contract!Spec

-----------------------------------------------------------------------------
(* The command *)

\* What is in hand at each step: the crawl until it has returned, then its map,
\* and what the flags asked to be made of it.
Handed ==
  /\ IF step = "crawl" THEN IInv /\ snapshot = NoFile /\ page = NoFile
     ELSE CompleteUnlessPartial
  /\ step \in {"snapshot", "out", "serve", "serving", "exit0"} => result.status = "map"
  /\ step \in {"out", "serve", "serving", "exit0"} =>
       ("snapshot" \in args => snapshot = result)
  /\ step \in {"serve", "serving", "exit0"} => ("out" \in args => page = result)
  /\ step = "serving" => "serve" \in args /\ served = result.rooms
  /\ step = "exit0" => "serve" \notin args
  /\ step # "serving" => holder = "none"

CommandInv == Handed /\ SnapshotWhole

LEMMA CommandInitInv == CommandInit => CommandInv
<1> SUFFICES ASSUME CommandInit PROVE CommandInv
  OBVIOUS
<1>1. IInv /\ snapshot = NoFile /\ page = NoFile
  BY InitInv DEF CommandInit
<1>2. step = "crawl" /\ holder = "none"
  BY DEF CommandInit, Server!Init
<1>3. SnapshotWhole
  BY <1>1 DEF SnapshotWhole, NoFile
<1> QED
  BY <1>1, <1>2, <1>3 DEF CommandInv, Handed

\* The map in hand is complete, unless it says that it is not.
LEMMA MapInHand == ASSUME CommandInv PROVE CompleteUnlessPartial
BY InvIsComplete DEF CommandInv, Handed

LEMMA AssembledInv ==
  ASSUME CommandInv, Assembled
  PROVE  CommandInv'
<1>1. CompleteUnlessPartial'
  BY MapInHand DEF Assembled, CompleteUnlessPartial
<1>2. step' \in {"snapshot", "exit1"} /\ (step' = "snapshot" => result'.status = "map")
  BY DEF Assembled
<1>3. holder' = "none"
  BY DEF CommandInv, Handed, Assembled, serverVars
<1>4. SnapshotWhole'
  BY DEF CommandInv, SnapshotWhole, Assembled
<1> QED
  BY <1>1, <1>2, <1>3, <1>4 DEF CommandInv, Handed

\* The steps after the crawl leave its map alone.
LEMMA MapKept ==
  ASSUME CommandInv, step # "crawl", UNCHANGED vars
  PROVE  CompleteUnlessPartial' /\ result' = result
BY MapInHand DEF vars, CompleteUnlessPartial

LEMMA WriteSnapshotInv ==
  ASSUME CommandInv, WriteSnapshot
  PROVE  CommandInv'
<1> USE DEF WriteSnapshot, CommandInv, Handed
<1>1. CompleteUnlessPartial' /\ result' = result /\ result.status = "map"
  BY MapKept
<1>2. holder' = "none" /\ args' = args
  BY DEF serverVars
<1>3. CASE "snapshot" \notin args
  BY <1>1, <1>2, <1>3 DEF SnapshotWhole
<1>4. CASE "snapshot" \in args /\ result.partial
  BY <1>1, <1>2, <1>4 DEF SnapshotWhole
<1>5. CASE "snapshot" \in args /\ ~result.partial
  <2>1. Write(snapshot, "out")
    BY <1>5
  <2>2. CASE snapshot' = result /\ step' = "out"
    <3>1. result.rooms = InOrder(WellFormed)
      BY <1>1, <1>5, MapInHand DEF CompleteUnlessPartial
    <3> QED
      BY <1>1, <1>2, <1>5, <2>2, <3>1 DEF SnapshotWhole
  <2>3. CASE step' \in {"exit1", "killed"} /\ (snapshot' = snapshot \/ snapshot' = Cut)
    BY <1>1, <1>2, <2>3 DEF SnapshotWhole, Cut
  <2> QED
    BY <2>1, <2>2, <2>3 DEF Write
<1> QED
  BY <1>3, <1>4, <1>5

LEMMA WritePageInv ==
  ASSUME CommandInv, WritePage
  PROVE  CommandInv'
<1> USE DEF WritePage, CommandInv, Handed
<1>1. CompleteUnlessPartial' /\ result' = result /\ result.status = "map"
  BY MapKept
<1>2. holder' = "none" /\ args' = args /\ snapshot' = snapshot
  BY DEF serverVars
<1>3. SnapshotWhole'
  BY <1>2 DEF SnapshotWhole
<1> QED
  BY <1>1, <1>2, <1>3 DEF Write

LEMMA StartServerInv ==
  ASSUME CommandInv, StartServer
  PROVE  CommandInv'
<1> USE DEF StartServer, CommandInv, Handed
<1>1. CompleteUnlessPartial' /\ result' = result /\ result.status = "map"
  BY MapKept
<1>2. args' = args /\ snapshot' = snapshot /\ page' = page
  OBVIOUS
<1>3. SnapshotWhole'
  BY <1>2 DEF SnapshotWhole
<1> QED
  BY <1>1, <1>2, <1>3 DEF serverVars, Server!Serve

\* Whatever clients, thread and owner of the server do, it serves the same map.
LEMMA ServingInv ==
  ASSUME CommandInv, Serving(served' = served)
  PROVE  CommandInv'
<1> USE DEF Serving, CommandInv, Handed
<1>1. CompleteUnlessPartial' /\ result' = result
  BY MapKept
<1>2. SnapshotWhole'
  BY DEF SnapshotWhole
<1> QED
  BY <1>1, <1>2

LEMMA ServerKeepsMap ==
  ASSUME \/ Server!ThreadStep \/ Server!EndWrite
         \/ Server!StoreFlag \/ Server!Wake \/ Server!Join
         \/ ClientStep
  PROVE  served' = served
BY DEF Server!ThreadStep, Server!Accept, Server!Exit, Server!ReadRequest,
   Server!FailSetUp, Server!ReadHeader, Server!ReadBody, Server!To, Server!FailRead,
   Server!Reply, Server!EndWrite,
   Server!TakeNext, Server!StoreFlag, Server!Wake, Server!Join, ClientStep,
   Server!Connect

LEMMA CommandNextInv == CommandInv /\ [CommandNext]_commandVars => CommandInv'
<1> SUFFICES ASSUME CommandInv, [CommandNext]_commandVars PROVE CommandInv'
  OBVIOUS
<1>1. CASE Crawl(Next)
  <2>1. IInv'
    BY <1>1, NextInv DEF Crawl, CommandInv, Handed
  <2>2. holder' = "none" /\ SnapshotWhole'
    BY <1>1 DEF Crawl, CommandInv, Handed, serverVars, SnapshotWhole
  <2> QED
    BY <1>1, <2>1, <2>2 DEF Crawl, CommandInv, Handed
<1>2. CASE CommandStep
  BY <1>2, AssembledInv, WriteSnapshotInv, WritePageInv, StartServerInv DEF CommandStep
<1>3. CASE \/ Serving(Server!ThreadStep) \/ Serving(Server!EndWrite) \/ Serving(ClientStep)
           \/ Serving(Server!StoreFlag) \/ Serving(Server!Wake \/ Server!Join)
  <2>1. served' = served
    BY <1>3, ServerKeepsMap DEF Serving
  <2> QED
    BY <1>3, <2>1, ServingInv DEF Serving
<1>4. CASE UNCHANGED commandVars
  <2>1. step = "crawl" => IInv'
    BY <1>4, NextInv DEF commandVars, CommandInv, Handed
  <2>2. CompleteUnlessPartial' /\ SnapshotWhole'
    BY <1>4, MapInHand DEF commandVars, vars, CommandInv, CompleteUnlessPartial, SnapshotWhole
  <2> QED
    BY <1>4, <2>1, <2>2 DEF commandVars, vars, serverVars, CommandInv, Handed
<1> QED
  BY <1>1, <1>2, <1>3, <1>4 DEF CommandNext

LEMMA CommandInvariance == CommandSpec => []CommandInv
<1> QED
  BY CommandInitInv, CommandNextInv, PTL DEF CommandSpec

\* Whatever the crawl, the disk and a kill do, a snapshot that can be read has a
\* room for every well-formed group of a subscription that was crawled to its
\* end (run_crawl).
THEOREM SnapshotsAreWhole == CommandSpec => []SnapshotWhole
<1> QED
  BY CommandInvariance, PTL DEF CommandInv

\* A crawl that exits with 0, or serves, has written what its flags ask for, and
\* all of it from one map; any other serves nothing (run_crawl).
THEOREM CommandOutputsAgree == CommandSpec => []OutputsAgree
<1>1. CommandInv => OutputsAgree
  BY DEF CommandInv, Handed, OutputsAgree
<1> QED
  BY <1>1, CommandInvariance, PTL
=============================================================================
