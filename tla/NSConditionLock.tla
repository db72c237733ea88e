--------------------------- MODULE NSConditionLock ---------------------------
(***************************************************************************)
(* NSConditionLock (src/Sources/Foundation/NSLock.swift): a lock with an    *)
(* integer condition, built from an NSCondition (one pthread mutex and one  *)
(* pthread condition variable), the field _value and the field _thread.     *)
(*                                                                         *)
(* One action is one step between two points where another thread may run: *)
(* acquiring the mutex of _cond, one pass of the loop `while _thread != nil *)
(* || _value != condition`, a wakeup, and the return.                       *)
(*                                                                         *)
(* A limit is a Date.  Only three kinds of dates differ for the code:       *)
(*   "past"   timeSpecFrom returns nil, wait(until:) returns false at once; *)
(*   "soon"   an ordinary deadline, which the clock may reach;              *)
(*   "never"  Date.distantFuture, which lock() and lock(whenCondition:)     *)
(*            pass: 64092211200 s after 1970 is 6.4e19 ns, more than        *)
(*            Int64.max, so the conversion in timeSpecFrom traps.           *)
(***************************************************************************)
EXTENDS Integers, FiniteSets

CONSTANTS
  Threads,   \* the threads that use the lock
  Values,    \* the conditions they use
  Limits,    \* the kinds of deadlines they pass
  NoThread,  \* nil, for _thread and for the owner of the mutex
  AnyValue        \* the request of lock() and lock(before:): any condition

ASSUME LockConstants ==
  /\ NoThread \notin Threads
  /\ AnyValue \notin Values
  /\ Limits \subseteq {"past", "soon", "never"}

VARIABLES
  value,     \* _value
  thread,    \* _thread
  mutex,     \* the owner of the pthread mutex of _cond
  sleeping,  \* the threads blocked in pthread_cond_timedwait on _cond
  pc,        \* where each thread is
  want,      \* the condition each thread asked for
  limit,     \* the deadline each thread passed
  trapped    \* the process was aborted by a failed conversion

vars == <<value, thread, mutex, sleeping, pc, want, limit, trapped>>

Requests == Values \cup {AnyValue}

\* "acquire": about to take the mutex;  "test": at the loop condition, with
\* the mutex;  "asleep", then "woken" or "expired": blocked in the condition
\* variable, or about to retake the mutex to return from it;  "holding": the
\* call returned true;  "release": in unlock, about to take the mutex.
Labels == {"idle", "acquire", "test", "asleep", "woken", "expired",
           "holding", "release"}

Init ==
  /\ value \in Values
  /\ thread = NoThread
  /\ mutex = NoThread
  /\ sleeping = {}
  /\ pc = [t \in Threads |-> "idle"]
  /\ want = [t \in Threads |-> AnyValue]
  /\ limit = [t \in Threads |-> "past"]
  /\ trapped = FALSE

Goto(t, label) == pc' = [pc EXCEPT ![t] = label]

\* What a loop `while _thread != nil && _value != condition` would wait for.
AvailableConfused(t) == thread = NoThread \/ want[t] \in {AnyValue, value}

\* The negation of the loop condition: _thread == nil and the condition is met.
Available(t) == thread = NoThread /\ want[t] \in {AnyValue, value}

-----------------------------------------------------------------------------

\* lock(before:) with w = AnyValue, lock(whenCondition:before:) otherwise; try() and
\* tryLock pass "past", lock() and lock(whenCondition:) pass "never".
Lock(t, w, l) ==
  /\ pc[t] = "idle"
  /\ want' = [want EXCEPT ![t] = w]
  /\ limit' = [limit EXCEPT ![t] = l]
  /\ Goto(t, "acquire")
  /\ UNCHANGED <<value, thread, mutex, sleeping, trapped>>

\* _cond.lock()
AcquireMutex(t) ==
  /\ pc[t] = "acquire"
  /\ mutex = NoThread
  /\ mutex' = t
  /\ Goto(t, "test")
  /\ UNCHANGED <<value, thread, sleeping, want, limit, trapped>>

\* _thread and _value mixed up.
TakeValue(t) ==
  /\ pc[t] = "test"
  /\ Available(t)
  /\ thread' = want[t]
  /\ mutex' = NoThread
  /\ Goto(t, "holding")
  /\ UNCHANGED <<value, sleeping, want, limit, trapped>>

\* The loop ends: _thread = pthread_self(), _cond.unlock(), return true.
Take(t) ==
  /\ pc[t] = "test"
  /\ Available(t)
  /\ thread' = t
  /\ mutex' = NoThread
  /\ Goto(t, "holding")
  /\ UNCHANGED <<value, sleeping, want, limit, trapped>>

\* wait(until:) on a deadline in the past: false with the mutex still held, so
\* the caller unlocks it and returns false.
GiveUp(t) ==
  /\ pc[t] = "test"
  /\ ~Available(t)
  /\ limit[t] = "past"
  /\ mutex' = NoThread
  /\ Goto(t, "idle")
  /\ UNCHANGED <<value, thread, sleeping, want, limit, trapped>>

\* wait(until:) on an ordinary deadline: releases the mutex and blocks.
Sleep(t) ==
  /\ pc[t] = "test"
  /\ ~Available(t)
  /\ limit[t] = "soon"
  /\ mutex' = NoThread
  /\ sleeping' = sleeping \cup {t}
  /\ Goto(t, "asleep")
  /\ UNCHANGED <<value, thread, want, limit, trapped>>

\* wait(until: .distantFuture): Int64(interval * 1e9) in timeSpecFrom traps.
Trap(t) ==
  /\ pc[t] = "test"
  /\ ~Available(t)
  /\ limit[t] = "never"
  /\ trapped' = TRUE
  /\ UNCHANGED <<value, thread, mutex, sleeping, pc, want, limit>>

\* pthread_cond_timedwait may return 0 without a broadcast.
SpuriousWakeup(t) ==
  /\ pc[t] = "asleep"
  /\ sleeping' = sleeping \ {t}
  /\ Goto(t, "woken")
  /\ UNCHANGED <<value, thread, mutex, want, limit, trapped>>

\* The deadline passes while the thread is blocked.
Expire(t) ==
  /\ pc[t] = "asleep"
  /\ sleeping' = sleeping \ {t}
  /\ Goto(t, "expired")
  /\ UNCHANGED <<value, thread, mutex, want, limit, trapped>>

\* A wait that was woken retakes the mutex and tests the loop condition again.
Reacquire(t) ==
  /\ pc[t] = "woken"
  /\ mutex = NoThread
  /\ mutex' = t
  /\ Goto(t, "test")
  /\ limit' \in { [limit EXCEPT ![t] = l] : l \in {limit[t], "past"} \cap Limits }
  /\ UNCHANGED <<value, thread, sleeping, want, trapped>>

\* A wait that timed out is repeated, with the same interval.
WaitAgain(t) ==
  /\ pc[t] = "expired"
  /\ mutex = NoThread
  /\ mutex' = t
  /\ Goto(t, "test")
  /\ UNCHANGED <<value, thread, sleeping, want, limit, trapped>>

\* A wait that timed out retakes the mutex, releases it and returns false
\* without looking at the condition again.
ReturnFalse(t) ==
  /\ pc[t] = "expired"
  /\ mutex = NoThread
  /\ Goto(t, "idle")
  /\ UNCHANGED <<value, thread, mutex, sleeping, want, limit, trapped>>

\* The owner calls unlock() or unlock(withCondition:).
Unlock(t) ==
  /\ pc[t] = "holding"
  /\ Goto(t, "release")
  /\ UNCHANGED <<value, thread, mutex, sleeping, want, limit, trapped>>

\* _cond.signal() for _cond.broadcast(): one sleeping thread is woken.
ReleaseSignal(t, v) ==
  /\ pc[t] = "release"
  /\ mutex = NoThread
  /\ thread' = NoThread
  /\ value' = v
  /\ \E S \in SUBSET sleeping :
       /\ Cardinality(S) = (IF sleeping = {} THEN 0 ELSE 1)
       /\ sleeping' = sleeping \ S
       /\ pc' = [s \in Threads |-> IF s = t THEN "idle"
                                   ELSE IF s \in S THEN "woken" ELSE pc[s]]
  /\ UNCHANGED <<mutex, want, limit, trapped>>

\* _cond.lock(); _thread = nil; _value = condition; _cond.broadcast();
\* _cond.unlock().  unlock() leaves _value alone: v = value.
Release(t, v) ==
  /\ pc[t] = "release"
  /\ mutex = NoThread
  /\ thread' = NoThread
  /\ value' = v
  /\ sleeping' = {}
  /\ pc' = [s \in Threads |-> IF s = t THEN "idle"
                              ELSE IF s \in sleeping THEN "woken" ELSE pc[s]]
  /\ UNCHANGED <<mutex, want, limit, trapped>>

Step(t) ==
  \/ AcquireMutex(t)
  \/ Take(t)
  \/ GiveUp(t)
  \/ Sleep(t)
  \/ Trap(t)
  \/ SpuriousWakeup(t)
  \/ Expire(t)
  \/ Reacquire(t)
  \/ ReturnFalse(t)
  \/ Unlock(t)
  \/ \E v \in Values : Release(t, v)

Next ==
  /\ ~trapped
  /\ \E t \in Threads :
       \/ \E w \in Requests, l \in Limits : Lock(t, w, l)
       \/ Step(t)

Spec == Init /\ [][Next]_vars

(***************************************************************************)
(* The scheduler runs every thread that is inside a call, a deadline that a *)
(* thread waits for passes, and no thread is kept from a mutex that is free *)
(* again and again.  Nothing makes an owner call unlock(): the client does. *)
(***************************************************************************)
Fairness ==
  \A t \in Threads :
    /\ SF_vars(AcquireMutex(t))
    /\ WF_vars(Take(t) \/ GiveUp(t) \/ Sleep(t))
    /\ SF_vars(Expire(t))
    /\ SF_vars(Reacquire(t))
    /\ SF_vars(ReturnFalse(t))
    /\ SF_vars(\E v \in Values : Release(t, v))

FairSpec == Spec /\ Fairness

-----------------------------------------------------------------------------

TypeOK ==
  /\ value \in Values
  /\ thread \in Threads \cup {NoThread}
  /\ mutex \in Threads \cup {NoThread}
  /\ sleeping \subseteq Threads
  /\ pc \in [Threads -> Labels]
  /\ want \in [Threads -> Requests]
  /\ limit \in [Threads -> {"past", "soon", "never"}]
  /\ trapped \in BOOLEAN

\* The threads for which a lock call has returned true and no unlock has yet
\* cleared _thread.
Holders == {t \in Threads : pc[t] \in {"holding", "release"}}

\* A lock call that returned true gave its thread the lock alone, and the
\* condition it asked for stays in force until that thread releases it, however
\* other threads sleep, time out and are woken meanwhile.
HeldAlone ==
  \A t \in Holders : /\ Holders = {t}
                     /\ want[t] \in {AnyValue, value}

\* No lost wakeup: no thread is left asleep that could take the lock, whichever
\* of several sleeping threads, each with its own condition, the last
\* unlock(withCondition:) was meant for.
NoSleeperMissed == \A t \in sleeping : ~Available(t)

\* A call that passes an ordinary deadline or a past one returns, with the lock
\* or without it.
EveryCallReturns ==
  \A t \in Threads : pc[t] = "acquire" ~> pc[t] \in {"idle", "holding"}
==============================================================================
