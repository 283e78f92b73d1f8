-------------------------- MODULE AimdLimiter_proofs --------------------------
(***************************************************************************)
(* Proofs about AimdLimiter, for every finite set of threads, every        *)
(* maximal ceiling and every streak length.  The inductive invariant is    *)
(* TypeOK with PermitAccounting, InFlightBounded and NoIdleSlot: the       *)
(* counter has to be tied to the holders before the count of woken threads *)
(* can be compared with it.                                                *)
(***************************************************************************)
EXTENDS AimdLimiter, FiniteSetTheorems, TLAPS

IInv == TypeOK /\ PermitAccounting /\ InFlightBounded /\ NoIdleSlot

\* Every set of threads is finite, so its cardinality is a number.
LEMMA ThreadSetsFinite ==
  ASSUME NEW S \in SUBSET Threads
  PROVE  IsFiniteSet(S) /\ Cardinality(S) \in Nat
BY LimiterAssumption, FS_Subset, FS_CardinalityType

\* Halving keeps a ceiling in its range and never raises it.
LEMMA HalvedRange ==
  ASSUME NEW c \in 1..MaxCeiling
  PROVE  Halved(c) \in 1..MaxCeiling /\ Halved(c) <= c
BY LimiterAssumption DEF Halved

LEMMA InitInv == Init => IInv
<1> SUFFICES ASSUME Init PROVE IInv
  OBVIOUS
<1>1. TypeOK
  BY LimiterAssumption DEF Init, TypeOK
<1>2. PermitAccounting
  BY FS_EmptySet DEF Init, PermitAccounting
<1>3. InFlightBounded /\ NoIdleSlot
  BY LimiterAssumption DEF Init, InFlightBounded, NoIdleSlot
<1> QED
  BY <1>1, <1>2, <1>3 DEF IInv

\* The first pass of acquire(): a permit taken below the ceiling is counted
\* once; a thread parks only when no slot is free.
LEMMA AcquireInv ==
  ASSUME IInv, NEW t \in Threads, Acquire(t)
  PROVE  IInv'
<1> USE DEF IInv
<1>1. IsFiniteSet(holders) /\ Cardinality(woken) \in Nat
  BY ThreadSetsFinite DEF TypeOK
<1>2. CASE TakePermit(t) /\ UNCHANGED <<waiting, woken>>
  <2>1. TypeOK'
    BY <1>2 DEF TakePermit, TypeOK, Outside, Acquire
  <2>2. Cardinality(holders \cup {t}) = Cardinality(holders) + 1
    BY <1>1, FS_AddElement DEF Acquire, Outside
  <2>3. PermitAccounting' /\ InFlightBounded'
    BY <1>2, <2>2, LimiterAssumption
       DEF TakePermit, PermitAccounting, InFlightBounded, TypeOK
  <2>4. NoIdleSlot'
    BY <1>1, <1>2 DEF TakePermit, NoIdleSlot, TypeOK
  <2> QED
    BY <2>1, <2>3, <2>4
<1>3. CASE Park(t) /\ UNCHANGED woken
  <2>1. TypeOK'
    BY <1>3 DEF Park, TypeOK, Outside, state, Acquire
  <2>2. PermitAccounting' /\ InFlightBounded'
    BY <1>3 DEF Park, PermitAccounting, InFlightBounded, state
  <2>3. NoIdleSlot'
    BY <1>1, <1>3 DEF Park, NoIdleSlot, TypeOK, state
  <2> QED
    BY <2>1, <2>2, <2>3
<1> QED
  BY <1>2, <1>3 DEF Acquire

\* A woken thread gives its promise back: it either takes the slot it was
\* woken for, or finds that there is none.
LEMMA ResumeInv ==
  ASSUME IInv, NEW t \in Threads, Resume(t)
  PROVE  IInv'
<1> USE DEF IInv
<1>1. /\ IsFiniteSet(holders) /\ IsFiniteSet(woken)
      /\ Cardinality(woken) \in Nat
      /\ Cardinality(woken \ {t}) \in Nat
  BY ThreadSetsFinite DEF TypeOK
<1>2. Cardinality(woken \ {t}) = Cardinality(woken) - 1
  BY <1>1, FS_RemoveElement DEF Resume
<1>3. CASE TakePermit(t) /\ UNCHANGED waiting
  <2>1. TypeOK'
    BY <1>3 DEF TakePermit, TypeOK, Resume
  <2>2. Cardinality(holders \cup {t}) = Cardinality(holders) + 1
    BY <1>1, FS_AddElement DEF Resume, TypeOK
  <2>3. PermitAccounting' /\ InFlightBounded'
    BY <1>3, <2>2, LimiterAssumption
       DEF TakePermit, PermitAccounting, InFlightBounded, TypeOK
  <2>4. NoIdleSlot'
    BY <1>1, <1>2, <1>3 DEF TakePermit, NoIdleSlot, TypeOK, Resume
  <2> QED
    BY <2>1, <2>3, <2>4
<1>4. CASE Park(t)
  <2>1. TypeOK'
    BY <1>4 DEF Park, TypeOK, state, Resume
  <2>2. PermitAccounting' /\ InFlightBounded'
    BY <1>4 DEF Park, PermitAccounting, InFlightBounded, state
  <2>3. NoIdleSlot'
    BY <1>1, <1>4 DEF Park, NoIdleSlot, TypeOK, state, Resume
  <2> QED
    BY <2>1, <2>2, <2>3
<1> QED
  BY <1>3, <1>4 DEF Resume

\* A spurious wakeup only adds a promise.
LEMMA SpuriousWakeInv ==
  ASSUME IInv, NEW t \in Threads, SpuriousWake(t)
  PROVE  IInv'
<1> USE DEF IInv
<1>1. /\ IsFiniteSet(woken)
      /\ Cardinality(woken) \in Nat
  BY ThreadSetsFinite DEF TypeOK
<1>2. Cardinality(woken \cup {t}) = Cardinality(woken) + 1
  BY <1>1, FS_AddElement DEF SpuriousWake, TypeOK
<1>3. TypeOK'
  BY DEF SpuriousWake, TypeOK, state
<1>4. PermitAccounting' /\ InFlightBounded'
  BY DEF SpuriousWake, PermitAccounting, InFlightBounded, state
<1>5. NoIdleSlot'
  BY <1>1, <1>2 DEF SpuriousWake, NoIdleSlot, TypeOK, state
<1> QED
  BY <1>3, <1>4, <1>5

\* A dropped permit frees one slot and wakes one thread for it.  Nothing is
\* parked afterwards unless a thread was woken, which balances the count.
LEMMA DropInv ==
  ASSUME IInv, NEW t \in Threads, Drop(t)
  PROVE  IInv'
<1> USE DEF IInv
<1>1. /\ IsFiniteSet(holders) /\ IsFiniteSet(woken)
      /\ Cardinality(holders) \in Nat
      /\ Cardinality(holders \ {t}) \in Nat
      /\ Cardinality(woken) \in Nat
  BY ThreadSetsFinite DEF TypeOK
<1>2. Cardinality(holders \ {t}) = Cardinality(holders) - 1
  BY <1>1, FS_RemoveElement DEF Drop
<1>3. in_flight > 0 /\ in_flight' = in_flight - 1
  BY <1>1, <1>2 DEF Drop, SaturatingDec, PermitAccounting, TypeOK
<1>4. PermitAccounting' /\ InFlightBounded'
  BY <1>1, <1>2, <1>3, LimiterAssumption
     DEF Drop, PermitAccounting, InFlightBounded, TypeOK
<1>5. CASE waiting = {} /\ UNCHANGED <<waiting, woken>>
  <2>1. TypeOK'
    BY <1>3, <1>5 DEF Drop, TypeOK
  <2>2. NoIdleSlot'
    BY <1>5 DEF NoIdleSlot
  <2> QED
    BY <1>4, <2>1, <2>2
<1>6. ASSUME NEW w \in waiting,
             waiting' = waiting \ {w}, woken' = woken \cup {w}
      PROVE  IInv'
  <2>1. TypeOK'
    BY <1>3, <1>6 DEF Drop, TypeOK
  <2>2. Cardinality(woken \cup {w}) = Cardinality(woken) + 1
    BY <1>1, FS_AddElement DEF TypeOK
  <2>3. NoIdleSlot'
    BY <1>1, <1>3, <1>6, <2>2 DEF Drop, NoIdleSlot, TypeOK
  <2> QED
    BY <1>4, <2>1, <2>3
<1> QED
  BY <1>5, <1>6 DEF Drop, NotifyOne

\* A new slot is announced to everybody, so nobody stays parked beside it.
LEMMA ReportSuccessInv ==
  ASSUME IInv, ReportSuccess
  PROVE  IInv'
<1> USE DEF IInv
<1>1. CASE consecutive_successes + 1 < SuccessesPerIncrease
  BY <1>1, LimiterAssumption
     DEF ReportSuccess, TypeOK, PermitAccounting, InFlightBounded, NoIdleSlot
<1>2. CASE ~(consecutive_successes + 1 < SuccessesPerIncrease)
  <2>1. CASE ceiling < MaxCeiling
    <3>1. TypeOK'
      BY <1>2, <2>1, LimiterAssumption DEF ReportSuccess, TypeOK, NotifyAll
    <3>2. PermitAccounting' /\ InFlightBounded'
      BY DEF ReportSuccess, PermitAccounting, InFlightBounded
    <3>3. NoIdleSlot'
      BY <1>2, <2>1 DEF ReportSuccess, NotifyAll, NoIdleSlot
    <3> QED
      BY <3>1, <3>2, <3>3
  <2>2. CASE ~(ceiling < MaxCeiling)
    BY <1>2, <2>2, LimiterAssumption
       DEF ReportSuccess, TypeOK, PermitAccounting, InFlightBounded, NoIdleSlot
  <2> QED
    BY <2>1, <2>2
<1> QED
  BY <1>1, <1>2

\* A shrink lowers the number of slots that have to be accounted for.
LEMMA ReportThrottleInv ==
  ASSUME IInv, ReportThrottle
  PROVE  IInv'
<1> USE DEF IInv
<1>1. Halved(ceiling) \in 1..MaxCeiling /\ Halved(ceiling) <= ceiling
  BY HalvedRange DEF TypeOK
<1>2. Cardinality(woken) \in Nat
  BY ThreadSetsFinite DEF TypeOK
<1>3. TypeOK'
  BY <1>1, LimiterAssumption DEF ReportThrottle, TypeOK
<1>4. PermitAccounting' /\ InFlightBounded'
  BY DEF ReportThrottle, PermitAccounting, InFlightBounded
<1>5. NoIdleSlot'
  BY <1>1, <1>2 DEF ReportThrottle, NoIdleSlot, TypeOK
<1> QED
  BY <1>3, <1>4, <1>5

LEMMA StutterInv ==
  ASSUME IInv, UNCHANGED limiter
  PROVE  IInv'
BY DEF IInv, limiter, TypeOK, PermitAccounting, InFlightBounded, NoIdleSlot

\* The inductive invariant holds in every reachable state.
THEOREM LimiterInvariant == Spec => []IInv
<1>1. IInv /\ [Next]_limiter => IInv'
  <2> SUFFICES ASSUME IInv, [Next]_limiter PROVE IInv'
    OBVIOUS
  <2>1. ASSUME NEW t \in Threads, Acquire(t) PROVE IInv'
    BY <2>1, AcquireInv
  <2>2. ASSUME NEW t \in Threads, Resume(t) PROVE IInv'
    BY <2>2, ResumeInv
  <2>3. ASSUME NEW t \in Threads, SpuriousWake(t) PROVE IInv'
    BY <2>3, SpuriousWakeInv
  <2>4. ASSUME NEW t \in Threads, Drop(t) PROVE IInv'
    BY <2>4, DropInv
  <2>5. CASE ReportSuccess
    BY <2>5, ReportSuccessInv
  <2>6. CASE ReportThrottle
    BY <2>6, ReportThrottleInv
  <2>7. CASE UNCHANGED limiter
    BY <2>7, StutterInv
  <2> QED
    BY <2>1, <2>2, <2>3, <2>4, <2>5, <2>6, <2>7 DEF Next
<1> QED
  BY InitInv, <1>1, PTL DEF Spec

\* Type correctness of the limiter.
THEOREM LimiterTypeOK == Spec => []TypeOK
<1>1. IInv => TypeOK
  BY DEF IInv
<1> QED
  BY <1>1, LimiterInvariant, PTL

\* in_flight is always the number of live permits.
THEOREM LimiterPermitAccounting == Spec => []PermitAccounting
<1>1. IInv => PermitAccounting
  BY DEF IInv
<1> QED
  BY <1>1, LimiterInvariant, PTL

\* No wakeup of the condition variable is ever lost.
THEOREM LimiterNoIdleSlot == Spec => []NoIdleSlot
<1>1. IInv => NoIdleSlot
  BY DEF IInv
<1> QED
  BY <1>1, LimiterInvariant, PTL

-----------------------------------------------------------------------------
(* The limiter implements GatedPool. *)

\* The instance's copy of Cardinality is the same operator.
LEMMA PoolCardinality == \A S : Pool!Cardinality(S) = Cardinality(S)
BY DEF Pool!Cardinality, Cardinality

\* A thread that takes a permit below the ceiling is admitted by the pool.
LEMMA TakePermitAdmits ==
  ASSUME IInv, NEW t \in Threads, t \notin holders, TakePermit(t)
  PROVE  Pool!Admit(t)
BY PoolCardinality DEF IInv, PermitAccounting, TakePermit, Pool!Admit

\* Every limiter step is a step of the pool or leaves the pool as it is.
LEMMA PoolStep == IInv /\ [Next]_limiter => [Pool!Next]_(Pool!vars)
<1> SUFFICES ASSUME IInv, [Next]_limiter
             PROVE  Pool!Next \/ UNCHANGED <<holders, ceiling>>
  BY DEF Pool!vars
<1>1. ASSUME NEW t \in Threads, Acquire(t)
      PROVE  Pool!Next \/ UNCHANGED <<holders, ceiling>>
  <2>1. CASE TakePermit(t)
    BY <1>1, <2>1, TakePermitAdmits DEF Pool!Next, Acquire, Outside
  <2>2. CASE Park(t)
    BY <2>2 DEF Park, state
  <2> QED
    BY <1>1, <2>1, <2>2 DEF Acquire
<1>2. ASSUME NEW t \in Threads, Resume(t)
      PROVE  Pool!Next \/ UNCHANGED <<holders, ceiling>>
  <2>1. CASE TakePermit(t)
    <3>1. t \notin holders
      BY <1>2 DEF Resume, IInv, TypeOK
    <3> QED
      BY <2>1, <3>1, TakePermitAdmits DEF Pool!Next
  <2>2. CASE Park(t)
    BY <2>2 DEF Park, state
  <2> QED
    BY <1>2, <2>1, <2>2 DEF Resume
<1>3. ASSUME NEW t \in Threads, SpuriousWake(t)
      PROVE  UNCHANGED <<holders, ceiling>>
  BY <1>3 DEF SpuriousWake, state
<1>4. ASSUME NEW t \in Threads, Drop(t)
      PROVE  Pool!Next
  BY <1>4 DEF Drop, Pool!Next, Pool!Release
<1>5. CASE ReportSuccess
  BY <1>5 DEF ReportSuccess, Pool!Next, Pool!Raise
<1>6. CASE ReportThrottle
  BY <1>6 DEF ReportThrottle, Halved, Pool!Next, Pool!Halve
<1>7. CASE UNCHANGED limiter
  BY <1>7 DEF limiter
<1> QED
  BY <1>1, <1>2, <1>3, <1>4, <1>5, <1>6, <1>7 DEF Next

\* The condition-variable limiter implements the abstract pool of permits.
THEOREM LimiterImplementsPool == Spec => ImplementsPool
<1>1. Init => Pool!Init
  BY DEF Init, Pool!Init
<1> QED
  BY <1>1, PoolStep, LimiterInvariant, PTL DEF Spec, Pool!Spec, ImplementsPool
=============================================================================
