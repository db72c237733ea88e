------------------------- MODULE NSConditionLockProofs -------------------------
(***************************************************************************)
(* Mutual exclusion and the absence of lost wakeups of NSConditionLock, for *)
(* any number of threads, any conditions and any mixture of deadlines.      *)
(***************************************************************************)
EXTENDS NSConditionLock, TLAPS

\* What ties the position of a thread to the fields: the thread at the loop
\* condition owns the mutex, the sleeping threads are those in the condition
\* variable, and _thread names the one thread that holds the lock.
PlaceInv ==
  \A t \in Threads :
    /\ mutex = t <=> pc[t] = "test"
    /\ t \in sleeping <=> pc[t] = "asleep"
    /\ thread = t <=> pc[t] \in {"holding", "release"}

\* The inductive invariant: types, places, the condition of the holder, and that
\* a thread only sleeps while it cannot take the lock.
LockInv ==
  /\ TypeOK
  /\ PlaceInv
  /\ \A t \in Threads : thread = t => want[t] \in {AnyValue, value}
  /\ NoSleeperMissed

\* The lock starts in the inductive invariant.
LEMMA LockInvInit == Init => LockInv
  BY LockConstants
  DEF Init, LockInv, TypeOK, PlaceInv, NoSleeperMissed, Requests, Labels

\* Every step of every thread keeps the inductive invariant.
LEMMA LockInvNext == LockInv /\ [Next]_vars => LockInv'
<1> USE LockConstants DEF LockInv, TypeOK, PlaceInv, NoSleeperMissed,
                          Available, Requests, Labels, Goto
<1> SUFFICES ASSUME LockInv, [Next]_vars
             PROVE  LockInv'
  OBVIOUS
<1>1. ASSUME NEW t \in Threads, NEW w \in Requests, NEW l \in Limits, Lock(t, w, l)
      PROVE  LockInv'
  BY <1>1 DEF Lock
<1>2. ASSUME NEW t \in Threads, AcquireMutex(t)
      PROVE  LockInv'
  BY <1>2 DEF AcquireMutex
<1>3. ASSUME NEW t \in Threads, Take(t)
      PROVE  LockInv'
  BY <1>3 DEF Take
<1>4. ASSUME NEW t \in Threads, GiveUp(t)
      PROVE  LockInv'
  BY <1>4 DEF GiveUp
<1>5. ASSUME NEW t \in Threads, Sleep(t)
      PROVE  LockInv'
  BY <1>5 DEF Sleep
<1>6. ASSUME NEW t \in Threads, Trap(t)
      PROVE  LockInv'
  BY <1>6 DEF Trap
<1>7. ASSUME NEW t \in Threads, SpuriousWakeup(t)
      PROVE  LockInv'
  BY <1>7 DEF SpuriousWakeup
<1>8. ASSUME NEW t \in Threads, Expire(t)
      PROVE  LockInv'
  BY <1>8 DEF Expire
<1>9. ASSUME NEW t \in Threads, Reacquire(t)
      PROVE  LockInv'
  BY <1>9 DEF Reacquire
<1>10. ASSUME NEW t \in Threads, ReturnFalse(t)
       PROVE  LockInv'
  BY <1>10 DEF ReturnFalse
<1>11. ASSUME NEW t \in Threads, Unlock(t)
       PROVE  LockInv'
  BY <1>11 DEF Unlock
<1>12. ASSUME NEW t \in Threads, NEW v \in Values, Release(t, v)
       PROVE  LockInv'
  BY <1>12 DEF Release
<1>13. CASE UNCHANGED vars
  BY <1>13 DEF vars
<1>14. QED
  BY <1>1, <1>2, <1>3, <1>4, <1>5, <1>6, <1>7, <1>8, <1>9, <1>10, <1>11,
     <1>12, <1>13 DEF Next, Step

\* The inductive invariant holds throughout.
LEMMA LockInvAlways == Spec => []LockInv
  BY LockInvInit, LockInvNext, PTL DEF Spec

\* The fields keep their types.
THEOREM LockTypeOK == Spec => []TypeOK
<1>1. LockInv => TypeOK
  BY DEF LockInv
<1>2. QED
  BY <1>1, LockInvAlways, PTL

\* At most one lock call at a time has returned true and not been undone by an
\* unlock, and the condition it waited for still holds.
THEOREM LockHeldAlone == Spec => []HeldAlone
<1>1. LockInv => HeldAlone
  BY LockConstants DEF LockInv, PlaceInv, TypeOK, HeldAlone, Holders
<1>2. QED
  BY <1>1, LockInvAlways, PTL

\* The broadcast of unlock() and unlock(withCondition:) leaves no thread asleep
\* that could take the lock.
THEOREM LockNoSleeperMissed == Spec => []NoSleeperMissed
<1>1. LockInv => NoSleeperMissed
  BY DEF LockInv
<1>2. QED
  BY <1>1, LockInvAlways, PTL
================================================================================
