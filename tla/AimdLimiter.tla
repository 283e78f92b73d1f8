----------------------------- MODULE AimdLimiter -----------------------------
(***************************************************************************)
(* The adaptive concurrency limiter of src/src/dungeon/concurrency.rs: a   *)
(* counting semaphore built from one mutex and one condition variable,     *)
(* whose ceiling grows by one after a streak of successes and is halved by *)
(* a throttle.                                                             *)
(*                                                                         *)
(* Every critical section of the mutex is one action.  A thread is in at   *)
(* most one of                                                             *)
(*   waiting   parked inside condvar.wait, mutex released;                 *)
(*   woken     returned from the park but still to re-lock the mutex and   *)
(*             re-test the loop condition of acquire();                    *)
(*   holders   owner of a live Permit;                                     *)
(* and otherwise it is outside the limiter.                                *)
(*                                                                         *)
(* An operator named Faulty... is no part of the model: it is a plausible  *)
(* mistake in the definition after it, which a property must catch.        *)
(***************************************************************************)
EXTENDS Naturals, FiniteSets

CONSTANTS
  Threads,              (* the threads that use the limiter               *)
  MaxCeiling,           (* AimdLimiter::max_ceiling, the parallelism      *)
  SuccessesPerIncrease  (* SUCCESSES_PER_INCREASE                         *)

ASSUME LimiterAssumption ==
  /\ IsFiniteSet(Threads)
  /\ MaxCeiling \in Nat \ {0}             \* available_parallelism().max(1)
  /\ SuccessesPerIncrease \in Nat \ {0}

VARIABLES
  in_flight,              (* LimiterState::in_flight             *)
  ceiling,                (* LimiterState::ceiling               *)
  consecutive_successes,  (* LimiterState::consecutive_successes *)
  waiting,
  woken,
  holders

state   == <<in_flight, ceiling, consecutive_successes>>
limiter == <<in_flight, ceiling, consecutive_successes, waiting, woken, holders>>

Outside == Threads \ (waiting \cup woken \cup holders)

Init ==
  /\ in_flight = 0
  /\ ceiling = 1
  /\ consecutive_successes = 0
  /\ waiting = {}
  /\ woken = {}
  /\ holders = {}

-----------------------------------------------------------------------------
(* acquire() *)

\* The loop condition is false: count the permit and return it.
TakePermit(t) ==
  /\ in_flight < ceiling
  /\ in_flight' = in_flight + 1
  /\ holders' = holders \cup {t}
  /\ UNCHANGED <<ceiling, consecutive_successes>>

\* The loop condition is true: release the mutex and park, atomically.
Park(t) ==
  /\ in_flight >= ceiling
  /\ waiting' = waiting \cup {t}
  /\ UNCHANGED <<state, holders>>

\* First evaluation of the loop.  Nothing orders this thread behind those that
\* are parked or woken already, so it may barge past them.
Acquire(t) ==
  /\ t \in Outside
  /\ \/ TakePermit(t) /\ UNCHANGED <<waiting, woken>>
     \/ Park(t) /\ UNCHANGED woken

\* A woken thread re-locks the mutex and evaluates the loop again.
Resume(t) ==
  /\ t \in woken
  /\ woken' = woken \ {t}
  /\ \/ TakePermit(t) /\ UNCHANGED waiting
     \/ Park(t)

\* Condvar::wait may return without a notification.
SpuriousWake(t) ==
  /\ t \in waiting
  /\ waiting' = waiting \ {t}
  /\ woken' = woken \cup {t}
  /\ UNCHANGED <<state, holders>>

-----------------------------------------------------------------------------
(* Permit::drop, report_success, report_throttle *)

FaultyNotifyOne == UNCHANGED <<waiting, woken>>

NotifyOne ==
  \/ waiting = {} /\ UNCHANGED <<waiting, woken>>
  \/ \E w \in waiting : /\ waiting' = waiting \ {w}
                        /\ woken' = woken \cup {w}

FaultyNotifyAll == UNCHANGED <<waiting, woken>>

NotifyAll ==
  /\ waiting' = {}
  /\ woken' = woken \cup waiting

SaturatingDec(n) == IF n = 0 THEN 0 ELSE n - 1

FaultyDrop(t) ==            \* forgets the permits above a ceiling that shrank
  /\ t \in holders
  /\ holders' = holders \ {t}
  /\ in_flight' = IF in_flight > ceiling THEN in_flight ELSE SaturatingDec(in_flight)
  /\ NotifyOne
  /\ UNCHANGED <<ceiling, consecutive_successes>>

Drop(t) ==
  /\ t \in holders
  /\ holders' = holders \ {t}
  /\ in_flight' = SaturatingDec(in_flight)
  /\ NotifyOne
  /\ UNCHANGED <<ceiling, consecutive_successes>>

ReportSuccess ==
  /\ UNCHANGED <<in_flight, holders>>
  /\ IF consecutive_successes + 1 < SuccessesPerIncrease
     THEN /\ consecutive_successes' = consecutive_successes + 1
          /\ UNCHANGED <<ceiling, waiting, woken>>
     ELSE /\ consecutive_successes' = 0
          /\ IF ceiling < MaxCeiling
             THEN ceiling' = ceiling + 1 /\ NotifyAll
             ELSE UNCHANGED <<ceiling, waiting, woken>>

FaultyHalvedToZero(n) == n \div 2

FaultyHalvedByOne(n) == IF n > 1 THEN n - 1 ELSE 1

Halved(n) == IF n \div 2 > 1 THEN n \div 2 ELSE 1

ReportThrottle ==
  /\ consecutive_successes' = 0
  /\ ceiling' = Halved(ceiling)
  /\ UNCHANGED <<in_flight, waiting, woken, holders>>

-----------------------------------------------------------------------------
(* A client thread that uses the public interface in any legal order: it   *)
(* drops what it acquired, and reports an outcome only while it is running *)
(* its own code (every outcome is reported after the drop).                *)

Next ==
  \/ \E t \in Threads : Acquire(t) \/ Resume(t) \/ SpuriousWake(t) \/ Drop(t)
  \/ Outside # {} /\ (ReportSuccess \/ ReportThrottle)

Spec == Init /\ [][Next]_limiter

-----------------------------------------------------------------------------
(* Properties *)

\* Types, and the disjointness of the places a thread can be in.
TypeOK ==
  /\ in_flight \in Nat
  /\ ceiling \in 1..MaxCeiling
  /\ consecutive_successes \in 0..(SuccessesPerIncrease - 1)
  /\ waiting \subseteq Threads
  /\ woken \subseteq Threads
  /\ holders \subseteq Threads
  /\ waiting \cap woken = {}
  /\ waiting \cap holders = {}
  /\ woken \cap holders = {}

\* The counter counts live permits, exactly: no permit is leaked or released
\* twice, so the saturating subtraction in Permit::drop never saturates.
PermitAccounting == in_flight = Cardinality(holders)

\* No lost wakeup.  While a thread is parked, every slot below the ceiling is
\* taken or promised to a thread already woken for it; Permit::drop notifies
\* one thread only, also when the ceiling has shrunk below in_flight, and
\* report_success must notify when it adds a slot.
NoIdleSlot ==
  waiting # {} => in_flight + Cardinality(woken) >= ceiling

\* The ceiling may shrink below what is in flight, but never lets more threads
\* in than the highest ceiling there can be.
InFlightBounded == in_flight <= MaxCeiling

\* The limiter implements the abstract pool: the condition variable, the
\* streak and the counter are stuttering steps of it.
Pool == INSTANCE GatedPool WITH limit <- ceiling, MaxLimit <- MaxCeiling
ImplementsPool == Pool!Spec
=============================================================================
