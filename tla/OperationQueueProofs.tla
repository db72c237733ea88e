-------------------------- MODULE OperationQueueProofs --------------------------
(***************************************************************************)
(* Theorems about OperationQueue, for any operations, barriers, clients,     *)
(* programs, priorities and limits: the fields keep their types, and no      *)
(* dispatch exceeds the limit of the moment.                                 *)
(*                                                                         *)
(* The second needs to know what __queueLock protects: a thread that walks   *)
(* over the priority lists owns it, so that the slots it computed are those  *)
(* there are (Located).  A thread in a routine that _addOperations called    *)
(* under the lock (it returns to "link") owns it too, and can therefore      *)
(* never come to walk over the lists from there.                             *)
(***************************************************************************)
EXTENDS OperationQueue, OperationProofs, FiniteSetTheorems, SequenceTheorems

AddingLabels ==
  {"prepare", "readReady", "writeReady", "adopt", "appendBatch", "appendBarrier", "link",
   "publish", "addBarrier", "submitBlock"}

\* What is known of a thread in a routine of the queue: what it has still to do, that
\* it owns the lock, and that the slots it has computed are right.
Located(t) ==
  /\ pc[t] \in AddingLabels => frame[t].pending # <<>> /\ frame[t].batch # <<>>
  /\ local[t].after = "link" =>
       frame[t].pending # <<>> /\ frame[t].batch # <<>> /\ queueLock = t
  /\ pc[t] = "probe" => frame[t].walk # <<>>
  /\ pc[t] \in {"retest", "retestSet"} => frame[t].retest # <<>>
  /\ pc[t] = "changePriority" => frame[t].level \in Levels /\ local[t].subject \in Ops
  /\ pc[t] \in {"link", "publish", "level", "visit", "probe", "invalidate"} => queueLock = t
  /\ pc[t] \in {"level", "visit", "probe", "invalidate"} => local[t].after # "link"
  /\ pc[t] \in {"level", "visit", "probe"} => frame[t].slots = maxOps - numExec

\* The types of the fields of the queue.
QueueTypes ==
  /\ queueLock \in Threads \cup {None}
  /\ operations \in Seq(Ops)
  /\ lists \in [Levels -> Seq(Ops)]
  /\ priority \in [Ops -> Levels \cup {None}]
  /\ numExec \in Nat
  /\ maxOps \in 0..Unlimited
  /\ suspended \in BOOLEAN
  /\ gcd \in Seq(Ops)

\* The inductive invariant.
QueueInv ==
  /\ TypeOK
  /\ Subjects
  /\ \A t \in Threads : Located(t)

\* There is a number of operations.
LEMMA UnlimitedType == Unlimited \in Nat
  BY QueueConstants, FS_CardinalityType DEF Unlimited

\* A sequence of operations is one still when an element is taken out of it.
LEMMA RemoveAtType ==
  ASSUME NEW s \in Seq(Ops), NEW i \in 1..Len(s)
  PROVE  RemoveAt(s, i) \in Seq(Ops)
<1>1. SubSeq(s, 1, i - 1) \in Seq(Ops)
  <2>1. \A j \in 1..(i - 1) : s[j] \in Ops
    OBVIOUS
  <2>2. 1 \in Int /\ i - 1 \in Int
    OBVIOUS
  <2>3. QED
    BY <2>1, <2>2, SubSeqProperties
<1>2. SubSeq(s, i + 1, Len(s)) \in Seq(Ops)
  <2>1. \A j \in (i + 1)..Len(s) : s[j] \in Ops
    OBVIOUS
  <2>2. i + 1 \in Int /\ Len(s) \in Int
    OBVIOUS
  <2>3. QED
    BY <2>1, <2>2, SubSeqProperties
<1>3. QED
  BY <1>1, <1>2, ConcatProperties DEF RemoveAt

\* ... and when one of its members is unlinked.
LEMMA UnlinkedType ==
  ASSUME NEW s \in Seq(Ops), NEW o
  PROVE  Unlinked(s, o) \in Seq(Ops)
<1>1. CASE o \notin ToSet(s)
  BY <1>1 DEF Unlinked
<1>2. CASE o \in ToSet(s)
  <2>1. (CHOOSE i \in DOMAIN s : s[i] = o) \in 1..Len(s)
    BY <1>2 DEF ToSet
  <2>2. QED
    BY <1>2, <2>1, RemoveAtType DEF Unlinked
<1>3. QED
  BY <1>1, <1>2

\* The locals of a thread in the queue with some of its fields changed.
LEMMA FramesExcept ==
  ASSUME NEW f \in Frames
  PROVE  /\ \A s \in Seq(Ops) : /\ [f EXCEPT !.pending = s] \in Frames
                                /\ [f EXCEPT !.links = s] \in Frames
                                /\ [f EXCEPT !.retest = s] \in Frames
                                /\ [f EXCEPT !.snapshot = s] \in Frames
         /\ \A r, s \in Seq(Ops) : /\ [f EXCEPT !.batch = r, !.pending = s] \in Frames
                                   /\ [f EXCEPT !.pending = r, !.links = s] \in Frames
                                   /\ [f EXCEPT !.walk = r, !.retest = s] \in Frames
         /\ \A n \in Int : [f EXCEPT !.slots = n] \in Frames
         /\ \A k \in Nat : [f EXCEPT !.level = k] \in Frames
         /\ \A k \in Nat, s \in Seq(Ops) : [f EXCEPT !.level = k, !.walk = s] \in Frames
         /\ \A n \in Int, s \in Seq(Ops) : [f EXCEPT !.walk = s, !.slots = n] \in Frames
         /\ \A k \in Nat, n \in Int, s \in Seq(Ops) :
              [f EXCEPT !.level = k, !.slots = n, !.walk = s] \in Frames
<1> USE DEF Frames
<1>1. \A s \in Seq(Ops) : /\ [f EXCEPT !.pending = s] \in Frames
                          /\ [f EXCEPT !.links = s] \in Frames
                          /\ [f EXCEPT !.retest = s] \in Frames
                          /\ [f EXCEPT !.snapshot = s] \in Frames
  OBVIOUS
<1>2. \A r, s \in Seq(Ops) : /\ [f EXCEPT !.batch = r, !.pending = s] \in Frames
                             /\ [f EXCEPT !.pending = r, !.links = s] \in Frames
                             /\ [f EXCEPT !.walk = r, !.retest = s] \in Frames
  OBVIOUS
<1>3. \A n \in Int : [f EXCEPT !.slots = n] \in Frames
  OBVIOUS
<1>4. \A k \in Nat : [f EXCEPT !.level = k] \in Frames
  OBVIOUS
<1>5. \A k \in Nat, s \in Seq(Ops) : [f EXCEPT !.level = k, !.walk = s] \in Frames
  OBVIOUS
<1>6. \A n \in Int, s \in Seq(Ops) : [f EXCEPT !.walk = s, !.slots = n] \in Frames
  OBVIOUS
<1>7. \A k \in Nat, n \in Int, s \in Seq(Ops) :
        [f EXCEPT !.level = k, !.slots = n, !.walk = s] \in Frames
  OBVIOUS
<1>8. QED
  BY <1>1, <1>2, <1>3, <1>4, <1>5, <1>6, <1>7

\* The initial state satisfies the inductive invariant.
LEMMA QueueInvInit == Init => QueueInv
<1> SUFFICES ASSUME Init
             PROVE  QueueInv
  OBVIOUS
<1>1. OpTypeOK /\ Subjects
  BY OpInvInit DEF Init, OpInv
<1>2. <<>> \in Seq(Ops)
  OBVIOUS
<1>3. NoFrame \in Frames
  BY <1>2 DEF NoFrame, Frames
<1>4. priority \in [Ops -> Levels \cup {None}]
  BY QueueConstants DEF Init, QueueInit
<1>5. maxOps \in 0..Unlimited /\ numExec \in Nat
  BY UnlimitedType DEF Init, QueueInit
<1>6. TypeOK
  BY <1>1, <1>2, <1>3, <1>4, <1>5 DEF Init, QueueInit, TypeOK
<1>7. \A t \in Threads : Located(t)
  BY DEF Init, OpInit, QueueInit, NoLocal, Located, AddingLabels
<1>8. QED
  BY <1>1, <1>6, <1>7 DEF QueueInv

\* A step of the queue: Next is OpNext or one of these.
QueueNext ==
  \/ \E t \in Threads : QueueStep(t)
  \/ \E o \in Ops : ItemStep(o)
  \/ \E c \in Clients : QueueCall(c)

\* The steps of the queue keep the type of the locals of the queue's routines.
LEMMA FramesNext == QueueInv /\ QueueNext => frame' \in [Threads -> Frames]
<1> SUFFICES ASSUME QueueInv, QueueNext
             PROVE  frame' \in [Threads -> Frames]
  OBVIOUS
<1>1. /\ frame \in [Threads -> Frames] /\ operations \in Seq(Ops)
      /\ lists \in [Levels -> Seq(Ops)] /\ maxOps \in Int /\ numExec \in Int
  BY DEF QueueInv, TypeOK
<1>2. Ops \subseteq Threads /\ Clients \subseteq Threads
  BY DEF Threads
<1>3. lists[0] \in Seq(Ops) /\ <<>> \in Seq(Ops) /\ 0 \in Nat /\ 0 \in Int /\ Levels \subseteq Nat
  BY <1>1, QueueConstants
<1>4. \A t \in Threads : /\ frame[t].batch \in Seq(Ops) /\ frame[t].pending \in Seq(Ops)
                         /\ frame[t].links \in Seq(Ops) /\ frame[t].walk \in Seq(Ops)
                         /\ frame[t].retest \in Seq(Ops) /\ frame[t].snapshot \in Seq(Ops)
                         /\ frame[t].level \in Nat /\ frame[t].slots \in Int
  BY <1>1 DEF Frames
<1>5. \A s \in Seq(Ops) : s # <<>> => Tail(s) \in Seq(Ops) /\ Head(s) \in Ops
  OBVIOUS
<1>6. \A t \in Threads : Located(t)
  BY DEF QueueInv
<1>7. ASSUME NEW t \in Threads, Adopt(t)
      PROVE  frame' \in [Threads -> Frames]
  <2>1. PICK s \in Seq(Ops) : frame' = [frame EXCEPT ![t].pending = s]
    BY <1>7, <1>4, <1>5, <1>6 DEF Adopt, Located, AddingLabels
  <2>2. QED
    BY <1>1, <2>1, FramesExcept
<1>8. ASSUME NEW t \in Threads, AppendBatch(t)
      PROVE  frame' \in [Threads -> Frames]
  <2>1. PICK s \in Seq(Ops) : frame' = [frame EXCEPT ![t].links = s]
    BY <1>8, <1>3 DEF AppendBatch, BarriersAhead
  <2>2. QED
    BY <1>1, <2>1, FramesExcept
<1>9. ASSUME NEW t \in Threads, Link(t)
      PROVE  frame' \in [Threads -> Frames]
  <2>1. PICK s \in Seq(Ops) : frame' = [frame EXCEPT ![t].links = s]
    BY <1>9, <1>4, <1>5 DEF Link
  <2>2. QED
    BY <1>1, <2>1, FramesExcept
<1>10. ASSUME NEW t \in Threads, Publish(t)
       PROVE  frame' \in [Threads -> Frames]
  <2>1. CASE frame' = [frame EXCEPT ![t] = NoFrame]
    BY <1>1, <1>3, <2>1 DEF NoFrame, Frames
  <2>2. CASE frame' # [frame EXCEPT ![t] = NoFrame]
    <3>1. PICK r, s \in Seq(Ops) : frame' = [frame EXCEPT ![t].pending = r, ![t].links = s]
      BY <1>10, <1>3, <1>4, <1>5, <1>6, <2>2 DEF Publish, Located, AddingLabels, BarriersAhead
    <3>2. QED
      BY <1>1, <3>1, FramesExcept
  <2>3. QED
    BY <2>1, <2>2
<1>11. ASSUME NEW t \in Threads, LockForBarrier(t)
       PROVE  frame' \in [Threads -> Frames]
  <2>1. CASE frame' = frame
    BY <1>1, <2>1
  <2>2. CASE frame' = [frame EXCEPT ![t].links = operations]
    BY <1>1, <2>2, FramesExcept
  <2>3. QED
    BY <1>11, <2>1, <2>2 DEF LockForBarrier
<1>12. ASSUME NEW t \in Threads, Schedule(t)
       PROVE  frame' \in [Threads -> Frames]
  <2>1. maxOps - numExec \in Int
    BY <1>1
  <2>2. QED
    BY <1>12, <1>1, <2>1, FramesExcept DEF Schedule
<1>13. ASSUME NEW t \in Threads, EnterLevel(t)
       PROVE  frame' \in [Threads -> Frames]
  <2>1. PICK k \in Levels : frame' = [frame EXCEPT ![t].level = k, ![t].walk = lists[k]]
    BY <1>13 DEF EnterLevel, LevelsLeft
  <2>2. QED
    BY <1>1, <1>3, <2>1, FramesExcept
<1>14. ASSUME NEW t \in Threads, LeaveLevel(t)
       PROVE  frame' \in [Threads -> Frames]
  <2>1. frame[t].level + 1 \in Nat
    BY <1>4
  <2>2. QED
    BY <1>14, <1>1, <1>3, <2>1, FramesExcept DEF LeaveLevel
<1>15. ASSUME NEW t \in Threads, Dispatch(t)
       PROVE  frame' \in [Threads -> Frames]
  <2>1. frame[t].slots - 1 \in Int /\ Tail(frame[t].walk) \in Seq(Ops)
    BY <1>15, <1>4, <1>5 DEF Dispatch
  <2>2. QED
    BY <1>15, <1>1, <2>1, FramesExcept DEF Dispatch
<1>16. ASSUME NEW t \in Threads, Probe(t)
       PROVE  frame' \in [Threads -> Frames]
  <2>1. Tail(frame[t].walk) \in Seq(Ops) /\ Head(frame[t].walk) \in Ops
    BY <1>16, <1>4, <1>5, <1>6 DEF Probe, Located
  <2>2. Append(frame[t].retest, Head(frame[t].walk)) \in Seq(Ops)
    BY <1>4, <2>1
  <2>3. PICK r \in Seq(Ops) :
          frame' = [frame EXCEPT ![t].walk = Tail(@), ![t].retest = r]
    BY <1>16, <1>4, <2>2 DEF Probe
  <2>4. QED
    BY <1>1, <2>1, <2>3, FramesExcept
<1>17. ASSUME NEW t \in Threads, ScheduleDone(t)
       PROVE  frame' \in [Threads -> Frames]
  BY <1>17, <1>1, <1>3, FramesExcept DEF ScheduleDone
<1>18. ASSUME NEW t \in Threads, Retest(t)
       PROVE  frame' \in [Threads -> Frames]
  <2>1. Tail(frame[t].retest) \in Seq(Ops)
    BY <1>18, <1>4, <1>5, <1>6 DEF Retest, Located
  <2>2. CASE frame' = frame
    BY <1>1, <2>2
  <2>3. CASE frame' = [frame EXCEPT ![t].retest = Tail(@)]
    BY <1>1, <2>1, <2>3, FramesExcept
  <2>4. QED
    BY <1>18, <2>2, <2>3 DEF Retest
<1>19. ASSUME NEW t \in Threads, RetestSet(t)
       PROVE  frame' \in [Threads -> Frames]
  <2>1. Tail(frame[t].retest) \in Seq(Ops)
    BY <1>19, <1>4, <1>5, <1>6 DEF RetestSet, Located
  <2>2. QED
    BY <1>19, <1>1, <2>1, FramesExcept DEF RetestSet
<1>20. ASSUME NEW t \in Threads, ChangePriority(t)
       PROVE  frame' \in [Threads -> Frames]
  BY <1>20, <1>1, <1>3, FramesExcept DEF ChangePriority
<1>21. ASSUME NEW t \in Threads, CancelNext(t)
       PROVE  frame' \in [Threads -> Frames]
  <2>1. Tail(frame[t].snapshot) \in Seq(Ops)
    BY <1>21, <1>4, <1>5 DEF CancelNext
  <2>2. QED
    BY <1>21, <1>1, <2>1, FramesExcept DEF CancelNext
<1>22. ASSUME NEW t \in Threads, SnapshotAll(t)
       PROVE  frame' \in [Threads -> Frames]
  BY <1>22, <1>1, FramesExcept DEF SnapshotAll
<1>23. ASSUME NEW t \in Threads, WaitNext(t)
       PROVE  frame' \in [Threads -> Frames]
  <2>1. CASE frame[t].snapshot = <<>>
    BY <1>23, <1>1, <2>1 DEF WaitNext
  <2>2. CASE frame[t].snapshot # <<>>
    <3>1. Tail(frame[t].snapshot) \in Seq(Ops)
      BY <1>4, <1>5, <2>2
    <3>2. frame' = [frame EXCEPT ![t].snapshot = Tail(@)]
      BY <1>23, <2>2 DEF WaitNext
    <3>3. QED
      BY <1>1, <3>1, <3>2, FramesExcept
  <2>3. QED
    BY <2>1, <2>2
<1>24. ASSUME NEW c \in Clients, NEW batch \in Batches, AddOperations(c, batch)
       PROVE  frame' \in [Threads -> Frames]
  <2>1. batch \in Seq(Ops)
    <3>1. batch \in Seq(Ops \ Barriers)
      BY QueueConstants
    <3>2. QED
      BY <3>1, SeqMonotonic
  <2>2. QED
    BY <1>24, <1>1, <1>2, <2>1, FramesExcept DEF AddOperations
<1>25. ASSUME NEW c \in Clients, NEW b \in Ops, AddBarrierBlock(c, b)
       PROVE  frame' \in [Threads -> Frames]
  <2>1. <<b>> \in Seq(Ops)
    OBVIOUS
  <2>2. QED
    BY <1>25, <1>1, <1>2, <2>1, FramesExcept DEF AddBarrierBlock
<1>26. ASSUME NEW c \in Clients, NEW o \in Ops, NEW k \in Levels, SetQueuePriority(c, o, k)
       PROVE  frame' \in [Threads -> Frames]
  <2>1. PICK j \in Nat : frame' = [frame EXCEPT ![c].level = j]
    BY <1>26, <1>3 DEF SetQueuePriority
  <2>2. QED
    BY <1>1, <1>2, <2>1, FramesExcept
<1>27. ASSUME NEW c \in Clients, CancelAllOperations(c)
       PROVE  frame' \in [Threads -> Frames]
  BY <1>27, <1>1, <1>2, FramesExcept DEF CancelAllOperations
<1>28. ASSUME NEW t \in Threads,
              \/ Prepare(t) \/ ReadReady(t) \/ WriteReady(t) \/ Linked(t)
              \/ SubmitBlock(t) \/ NotReady(t) \/ CancelledAll(t)
       PROVE  frame' = frame
  BY <1>28 DEF Prepare, ReadReady, WriteReady, Linked, SubmitBlock, NotReady,
               CancelledAll, queueVars
<1>29. ASSUME NEW o \in Ops,
              \/ BeginItem(o) \/ Starting(o) \/ Retire(o) \/ Invalidate(o)
              \/ EndItem(o)
       PROVE  frame' = frame
  BY <1>29 DEF BeginItem, Starting, Retire, Invalidate, EndItem, queueVars
<1>30. ASSUME NEW c \in Clients, NEW max \in 0..Unlimited, SetMaxConcurrent(c, max)
       PROVE  frame' = frame
  BY <1>30 DEF SetMaxConcurrent, queueVars
<1>31. ASSUME NEW c \in Clients, NEW newValue \in BOOLEAN, SetSuspended(c, newValue)
       PROVE  frame' = frame
  BY <1>31 DEF SetSuspended, queueVars
<1>32. ASSUME NEW c \in Clients, WaitUntilAllOperationsAreFinished(c)
       PROVE  frame' = frame
  BY <1>32 DEF WaitUntilAllOperationsAreFinished, queueVars
<1>33. QED
  BY <1>1, <1>7, <1>8, <1>9, <1>10, <1>11, <1>12, <1>13, <1>14, <1>15, <1>16, <1>17,
     <1>18, <1>19, <1>20, <1>21, <1>22, <1>23, <1>24, <1>25, <1>26, <1>27, <1>28,
     <1>29, <1>30, <1>31, <1>32
     DEF QueueNext, QueueStep, ItemStep, QueueCall

\* The steps of the queue keep the threads where they can be.
LEMMA QueueLabelsNext == QueueInv /\ QueueNext => pc' \in [Threads -> Labels]
<1> SUFFICES ASSUME QueueInv, QueueNext
             PROVE  pc' \in [Threads -> Labels]
  OBVIOUS
<1>1. pc \in [Threads -> Labels]
  BY DEF QueueInv, TypeOK, OpTypeOK
<1>2. \A t \in Threads : local[t].after \in Labels
  BY DEF QueueInv, TypeOK, OpTypeOK, Locals, Returns, Labels, CallLabels, RunLabels, QueueLabels
<1>3. \A l \in CallLabels \cup RunLabels \cup QueueLabels : l \in Labels
  BY DEF Labels
<1> USE <1>1, <1>2, <1>3 DEF CallLabels, RunLabels, QueueLabels, Goto, Enter
<1>4. ASSUME NEW t \in Threads, QueueStep(t)
      PROVE  pc' \in [Threads -> Labels]
  BY <1>4 DEF QueueStep, Prepare, ReadReady, WriteReady, Adopt, AppendBatch, Link,
     Linked, Publish, LockForBarrier, SubmitBlock, Schedule, EnterLevel, LeaveLevel,
     Dispatch, NotReady, Probe, ScheduleDone, Retest, RetestSet, ChangePriority,
     CancelNext, CancelledAll, SnapshotAll, WaitNext, RetestNext, Return
<1>5. ASSUME NEW o \in Ops, ItemStep(o)
      PROVE  pc' \in [Threads -> Labels]
  BY <1>5 DEF ItemStep, BeginItem, Starting, Retire, Invalidate, EndItem
<1>6. ASSUME NEW c \in Clients, QueueCall(c)
      PROVE  pc' \in [Threads -> Labels]
  BY <1>6 DEF QueueCall, AddOperations, AddBarrierBlock, SetQueuePriority,
     SetMaxConcurrent, SetSuspended, CancelAllOperations,
     WaitUntilAllOperationsAreFinished
<1>7. QED
  BY <1>4, <1>5, <1>6 DEF QueueNext

\* The steps of the queue keep the type of the locals.
LEMMA QueueLocalsNext == QueueInv /\ QueueNext => local' \in [Threads -> Locals]
<1> SUFFICES ASSUME QueueInv, QueueNext
             PROVE  local' \in [Threads -> Locals]
  OBVIOUS
<1>1. local \in [Threads -> Locals]
  BY DEF QueueInv, TypeOK, OpTypeOK
<1>2. Ops \subseteq Threads /\ Clients \subseteq Threads
  BY DEF Threads
<1>3. /\ "idle" \in Returns /\ "link" \in Returns /\ "cancelAll" \in Returns
      /\ "waitNext" \in Returns
  BY DEF Returns
<1>4. \A t \in Threads : /\ frame[t].pending \in Seq(Ops) /\ frame[t].links \in Seq(Ops)
                         /\ frame[t].snapshot \in Seq(Ops)
  BY DEF QueueInv, TypeOK, Frames
<1>5. \A s \in Seq(Ops) : s # <<>> => Head(s) \in Ops
  OBVIOUS
<1>6. \A t \in Threads : pc[t] \in AddingLabels => frame[t].pending # <<>>
  BY DEF QueueInv, Located
<1>7. ASSUME NEW t \in Threads, Prepare(t)
      PROVE  local' \in [Threads -> Locals]
  <2>1. Head(frame[t].pending) \in Ops \cup {None}
    BY <1>7, <1>4, <1>5, <1>6 DEF Prepare, AddingLabels
  <2>2. \A r \in Ops \cup {None} : [local[t] EXCEPT !.subject = r] \in Locals
    BY <1>1 DEF Locals
  <2>3. QED
    BY <1>7, <1>1, <2>1, <2>2 DEF Prepare
<1>8. ASSUME NEW t \in Threads, ReadReady(t)
      PROVE  local' \in [Threads -> Locals]
  <2>1. IsReady(local[t].subject) \in BOOLEAN
    BY DEF IsReady
  <2>2. QED
    BY <1>8, <1>1, <2>1, LocalsExcept DEF ReadReady
<1>9. ASSUME NEW t \in Threads, WriteReady(t)
      PROVE  local' \in [Threads -> Locals]
  BY <1>9, <1>1, LocalsExcept DEF WriteReady
<1>10. ASSUME NEW t \in Threads, Link(t)
       PROVE  local' \in [Threads -> Locals]
  <2>1. Head(frame[t].pending) \in Ops /\ Head(frame[t].links) \in Ops
    BY <1>10, <1>4, <1>5, <1>6 DEF Link, AddingLabels
  <2>2. QED
    BY <1>10, <1>1, <1>3, <2>1, EnterLocals DEF Link
<1>11. ASSUME NEW t \in Threads, Publish(t)
       PROVE  local' \in [Threads -> Locals]
  BY <1>11, <1>1, <1>3, LocalsExcept DEF Publish
<1>12. ASSUME NEW t \in Threads, CancelNext(t)
       PROVE  local' \in [Threads -> Locals]
  <2>1. Head(frame[t].snapshot) \in Ops
    BY <1>12, <1>4, <1>5 DEF CancelNext
  <2>2. QED
    BY <1>12, <1>1, <1>3, <2>1, EnterLocals DEF CancelNext
<1>13. ASSUME NEW t \in Threads, WaitNext(t)
       PROVE  local' \in [Threads -> Locals]
  <2>1. CASE frame[t].snapshot = <<>>
    BY <1>13, <1>1, <2>1 DEF WaitNext
  <2>2. CASE frame[t].snapshot # <<>>
    <3>1. Head(frame[t].snapshot) \in Ops
      BY <1>4, <1>5, <2>2
    <3>2. Enter(t, Head(frame[t].snapshot), None, "waitNext", "wait")
      BY <1>13, <2>2 DEF WaitNext
    <3>3. QED
      BY <1>1, <1>3, <3>1, <3>2, EnterLocals
  <2>3. QED
    BY <2>1, <2>2
<1>14. ASSUME NEW c \in Clients, NEW o \in Ops, NEW k \in Levels, SetQueuePriority(c, o, k)
       PROVE  local' \in [Threads -> Locals]
  <2>1. PICK label : Enter(c, o, None, "idle", label)
    BY <1>14 DEF SetQueuePriority
  <2>2. QED
    BY <1>1, <1>2, <1>3, <2>1, EnterLocals
<1>15. ASSUME NEW c \in Clients, NEW max \in 0..Unlimited, SetMaxConcurrent(c, max)
       PROVE  local' \in [Threads -> Locals]
  BY <1>15, <1>1, <1>2, <1>3, EnterLocals DEF SetMaxConcurrent
<1>16. ASSUME NEW c \in Clients, NEW newValue \in BOOLEAN, SetSuspended(c, newValue)
       PROVE  local' \in [Threads -> Locals]
  <2>1. PICK label : Enter(c, None, None, "idle", label)
    BY <1>16 DEF SetSuspended
  <2>2. QED
    BY <1>1, <1>2, <1>3, <2>1, EnterLocals
<1>17. ASSUME NEW t \in Threads,
              \/ Adopt(t) \/ AppendBatch(t) \/ Linked(t) \/ LockForBarrier(t)
              \/ SubmitBlock(t) \/ Schedule(t) \/ EnterLevel(t) \/ LeaveLevel(t)
              \/ Dispatch(t) \/ NotReady(t) \/ Probe(t) \/ ScheduleDone(t)
              \/ Retest(t) \/ RetestSet(t) \/ ChangePriority(t) \/ CancelledAll(t)
              \/ SnapshotAll(t)
       PROVE  local' = local
  BY <1>17 DEF Adopt, AppendBatch, Linked, LockForBarrier, SubmitBlock, Schedule,
               EnterLevel, LeaveLevel, Dispatch, NotReady, Probe, ScheduleDone,
               Retest, RetestSet, ChangePriority, CancelledAll, SnapshotAll, opVars
<1>18. ASSUME NEW o \in Ops,
              \/ BeginItem(o) \/ Starting(o) \/ Retire(o) \/ Invalidate(o)
              \/ EndItem(o)
       PROVE  local' = local
  BY <1>18 DEF BeginItem, Starting, Retire, Invalidate, EndItem, opVars
<1>19. ASSUME NEW c \in Clients, NEW batch \in Batches, AddOperations(c, batch)
       PROVE  local' = local
  BY <1>19 DEF AddOperations, opVars
<1>20. ASSUME NEW c \in Clients, NEW b \in Ops, AddBarrierBlock(c, b)
       PROVE  local' = local
  BY <1>20 DEF AddBarrierBlock, opVars
<1>21. ASSUME NEW c \in Clients, CancelAllOperations(c)
       PROVE  local' = local
  BY <1>21 DEF CancelAllOperations, opVars
<1>22. ASSUME NEW c \in Clients, WaitUntilAllOperationsAreFinished(c)
       PROVE  local' = local
  BY <1>22 DEF WaitUntilAllOperationsAreFinished, opVars
<1>23. QED
  BY <1>1, <1>7, <1>8, <1>9, <1>10, <1>11, <1>12, <1>13, <1>14, <1>15, <1>16, <1>17,
     <1>18, <1>19, <1>20, <1>21, <1>22
     DEF QueueNext, QueueStep, ItemStep, QueueCall

\* The steps of the queue keep the subjects.
LEMMA QueueSubjectsNext == QueueInv /\ QueueNext => Subjects'
<1> SUFFICES ASSUME QueueInv, QueueNext
             PROVE  Subjects'
  OBVIOUS
<1>1. pc \in [Threads -> Labels] /\ local \in [Threads -> Locals] /\ Subjects
  BY DEF QueueInv, TypeOK, OpTypeOK
<1>2. Ops \subseteq Threads /\ Clients \subseteq Threads
  BY DEF Threads
<1>3. \A t \in Threads : local[t].after \in Returns
  BY <1>1 DEF Locals
<1>4. \A t \in Threads : /\ frame[t].pending \in Seq(Ops) /\ frame[t].links \in Seq(Ops)
                         /\ frame[t].snapshot \in Seq(Ops)
  BY DEF QueueInv, TypeOK, Frames
<1>5. \A s \in Seq(Ops) : s # <<>> => Head(s) \in Ops
  OBVIOUS
<1>6. \A t \in Threads : pc[t] \in AddingLabels => frame[t].pending # <<>>
  BY DEF QueueInv, Located
<1> USE <1>1, <1>2, <1>3 DEF Subjects, Locals, Returns, Goto, Enter, opVars
<1>7. ASSUME NEW t \in Threads, Prepare(t)
      PROVE  Subjects'
  BY <1>7 DEF Prepare
<1>8. ASSUME NEW t \in Threads, ReadReady(t)
      PROVE  Subjects'
  BY <1>8 DEF ReadReady
<1>9. ASSUME NEW t \in Threads, WriteReady(t)
      PROVE  Subjects'
  BY <1>9 DEF WriteReady
<1>10. ASSUME NEW t \in Threads, Adopt(t)
       PROVE  Subjects'
  BY <1>10 DEF Adopt
<1>11. ASSUME NEW t \in Threads, AppendBatch(t)
       PROVE  Subjects'
  BY <1>11 DEF AppendBatch
<1>12. ASSUME NEW t \in Threads, Link(t)
       PROVE  Subjects'
  <2>1. Head(frame[t].pending) \in Ops /\ Head(frame[t].links) \in Ops
    BY <1>12, <1>4, <1>5, <1>6 DEF Link, AddingLabels
  <2>2. QED
    BY <1>12, <2>1 DEF Link
<1>13. ASSUME NEW t \in Threads, Linked(t)
       PROVE  Subjects'
  BY <1>13 DEF Linked
<1>14. ASSUME NEW t \in Threads, Publish(t)
       PROVE  Subjects'
  BY <1>14 DEF Publish
<1>15. ASSUME NEW t \in Threads, LockForBarrier(t)
       PROVE  Subjects'
  BY <1>15 DEF LockForBarrier
<1>16. ASSUME NEW t \in Threads, SubmitBlock(t)
       PROVE  Subjects'
  BY <1>16 DEF SubmitBlock
<1>17. ASSUME NEW t \in Threads, Schedule(t)
       PROVE  Subjects'
  BY <1>17 DEF Schedule
<1>18. ASSUME NEW t \in Threads, EnterLevel(t)
       PROVE  Subjects'
  BY <1>18 DEF EnterLevel
<1>19. ASSUME NEW t \in Threads, LeaveLevel(t)
       PROVE  Subjects'
  BY <1>19 DEF LeaveLevel
<1>20. ASSUME NEW t \in Threads, Dispatch(t)
       PROVE  Subjects'
  BY <1>20 DEF Dispatch
<1>21. ASSUME NEW t \in Threads, NotReady(t)
       PROVE  Subjects'
  BY <1>21 DEF NotReady
<1>22. ASSUME NEW t \in Threads, Probe(t)
       PROVE  Subjects'
  BY <1>22 DEF Probe
<1>23. ASSUME NEW t \in Threads, ScheduleDone(t)
       PROVE  Subjects'
  BY <1>23 DEF ScheduleDone, RetestNext, Return
<1>24. ASSUME NEW t \in Threads, Retest(t)
       PROVE  Subjects'
  BY <1>24 DEF Retest, RetestNext, Return
<1>25. ASSUME NEW t \in Threads, RetestSet(t)
       PROVE  Subjects'
  BY <1>25 DEF RetestSet, RetestNext, Return
<1>26. ASSUME NEW t \in Threads, ChangePriority(t)
       PROVE  Subjects'
  BY <1>26 DEF ChangePriority
<1>27. ASSUME NEW t \in Threads, CancelNext(t)
       PROVE  Subjects'
  BY <1>27 DEF CancelNext
<1>28. ASSUME NEW t \in Threads, CancelledAll(t)
       PROVE  Subjects'
  BY <1>28 DEF CancelledAll
<1>29. ASSUME NEW t \in Threads, SnapshotAll(t)
       PROVE  Subjects'
  BY <1>29 DEF SnapshotAll
<1>30. ASSUME NEW t \in Threads, WaitNext(t)
       PROVE  Subjects'
  <2>1. frame[t].snapshot # <<>> => Head(frame[t].snapshot) \in Ops
    BY <1>4, <1>5
  <2>2. QED
    BY <1>30, <2>1 DEF WaitNext
<1>31. ASSUME NEW o \in Ops, BeginItem(o)
       PROVE  Subjects'
  BY <1>31 DEF BeginItem
<1>32. ASSUME NEW o \in Ops, Starting(o)
       PROVE  Subjects'
  BY <1>32 DEF Starting
<1>33. ASSUME NEW o \in Ops, Retire(o)
       PROVE  Subjects'
  BY <1>33 DEF Retire
<1>34. ASSUME NEW o \in Ops, Invalidate(o)
       PROVE  Subjects'
  BY <1>34 DEF Invalidate
<1>35. ASSUME NEW o \in Ops, EndItem(o)
       PROVE  Subjects'
  BY <1>35 DEF EndItem
<1>36. ASSUME NEW c \in Clients, NEW batch \in Batches, AddOperations(c, batch)
       PROVE  Subjects'
  BY <1>36 DEF AddOperations
<1>37. ASSUME NEW c \in Clients, NEW b \in Ops, AddBarrierBlock(c, b)
       PROVE  Subjects'
  BY <1>37 DEF AddBarrierBlock
<1>38. ASSUME NEW c \in Clients, NEW o \in Ops, NEW k \in Levels, SetQueuePriority(c, o, k)
       PROVE  Subjects'
  BY <1>38 DEF SetQueuePriority
<1>39. ASSUME NEW c \in Clients, NEW max \in 0..Unlimited, SetMaxConcurrent(c, max)
       PROVE  Subjects'
  BY <1>39 DEF SetMaxConcurrent
<1>40. ASSUME NEW c \in Clients, NEW newValue \in BOOLEAN, SetSuspended(c, newValue)
       PROVE  Subjects'
  BY <1>40 DEF SetSuspended
<1>41. ASSUME NEW c \in Clients, CancelAllOperations(c)
       PROVE  Subjects'
  BY <1>41 DEF CancelAllOperations
<1>42. ASSUME NEW c \in Clients, WaitUntilAllOperationsAreFinished(c)
       PROVE  Subjects'
  BY <1>42 DEF WaitUntilAllOperationsAreFinished
<1>43. QED
  BY <1>7, <1>8, <1>9, <1>10, <1>11, <1>12, <1>13, <1>14, <1>15, <1>16, <1>17, <1>18,
     <1>19, <1>20, <1>21, <1>22, <1>23, <1>24, <1>25, <1>26, <1>27, <1>28, <1>29,
     <1>30, <1>31, <1>32, <1>33, <1>34, <1>35, <1>36, <1>37, <1>38, <1>39, <1>40,
     <1>41, <1>42
     DEF QueueNext, QueueStep, ItemStep, QueueCall

\* The steps of the queue keep the types of the fields of operations.
LEMMA QueueFieldsNext == QueueInv /\ QueueNext => FieldTypes' /\ unfinished' \in [Ops -> Int]
<1> SUFFICES ASSUME QueueInv, QueueNext
             PROVE  FieldTypes' /\ unfinished' \in [Ops -> Int]
  OBVIOUS
<1>1. FieldTypes /\ unfinished \in [Ops -> Int]
  BY DEF QueueInv, TypeOK, OpTypeOK, FieldTypes
<1>2. \A t \in Threads : local[t].flag \in BOOLEAN
  BY DEF QueueInv, TypeOK, OpTypeOK, Locals
<1>3. \A s \in {"enqueuing", "enqueued", "dispatching", "starting"} : s \in DOMAIN Rank
  BY DEF Rank
<1> USE <1>1 DEF FieldTypes, graph, status, opVars, Calls
<1>4. ASSUME NEW t \in Threads, Prepare(t)
      PROVE  FieldTypes' /\ unfinished' \in [Ops -> Int]
  <2>1. state' \in [Ops -> DOMAIN Rank]
    BY <1>4, <1>3 DEF Prepare
  <2>2. QED
    BY <1>4, <2>1 DEF Prepare
<1>5. ASSUME NEW t \in Threads, WriteReady(t)
      PROVE  FieldTypes' /\ unfinished' \in [Ops -> Int]
  BY <1>5, <1>2 DEF WriteReady
<1>6. ASSUME NEW t \in Threads, Publish(t)
      PROVE  FieldTypes' /\ unfinished' \in [Ops -> Int]
  <2>1. state' \in [Ops -> DOMAIN Rank]
    BY <1>6, <1>3 DEF Publish
  <2>2. QED
    BY <1>6, <2>1 DEF Publish
<1>7. ASSUME NEW t \in Threads, Dispatch(t)
      PROVE  FieldTypes' /\ unfinished' \in [Ops -> Int]
  <2>1. state' \in [Ops -> DOMAIN Rank]
    BY <1>7, <1>3 DEF Dispatch
  <2>2. QED
    BY <1>7, <2>1 DEF Dispatch
<1>8. ASSUME NEW o \in Ops, Starting(o)
      PROVE  FieldTypes' /\ unfinished' \in [Ops -> Int]
  <2>1. state' \in [Ops -> DOMAIN Rank]
    BY <1>8, <1>3 DEF Starting
  <2>2. QED
    BY <1>8, <2>1 DEF Starting
<1>9. ASSUME NEW t \in Threads,
             \/ ReadReady(t) \/ Adopt(t) \/ AppendBatch(t) \/ Link(t) \/ Linked(t)
             \/ LockForBarrier(t) \/ SubmitBlock(t) \/ Schedule(t)
             \/ EnterLevel(t) \/ LeaveLevel(t) \/ NotReady(t) \/ Probe(t)
             \/ ScheduleDone(t) \/ Retest(t) \/ RetestSet(t) \/ ChangePriority(t)
             \/ CancelNext(t) \/ CancelledAll(t) \/ SnapshotAll(t) \/ WaitNext(t)
      PROVE  FieldTypes' /\ unfinished' \in [Ops -> Int]
  BY <1>9 DEF ReadReady, Adopt, AppendBatch, Link, Linked, LockForBarrier,
              SubmitBlock, Schedule, EnterLevel, LeaveLevel, NotReady, Probe,
              ScheduleDone, Retest, RetestSet, ChangePriority, CancelNext,
              CancelledAll, SnapshotAll, WaitNext
<1>10. ASSUME NEW o \in Ops,
              \/ BeginItem(o) \/ Retire(o) \/ Invalidate(o) \/ EndItem(o)
       PROVE  FieldTypes' /\ unfinished' \in [Ops -> Int]
  BY <1>10 DEF BeginItem, Retire, Invalidate, EndItem
<1>11. ASSUME NEW c \in Clients, NEW batch \in Batches, AddOperations(c, batch)
       PROVE  FieldTypes' /\ unfinished' \in [Ops -> Int]
  BY <1>11 DEF AddOperations
<1>12. ASSUME NEW c \in Clients, NEW b \in Ops, AddBarrierBlock(c, b)
       PROVE  FieldTypes' /\ unfinished' \in [Ops -> Int]
  BY <1>12 DEF AddBarrierBlock
<1>13. ASSUME NEW c \in Clients, NEW o \in Ops, NEW k \in Levels, SetQueuePriority(c, o, k)
       PROVE  FieldTypes' /\ unfinished' \in [Ops -> Int]
  BY <1>13 DEF SetQueuePriority
<1>14. ASSUME NEW c \in Clients, NEW max \in 0..Unlimited, SetMaxConcurrent(c, max)
       PROVE  FieldTypes' /\ unfinished' \in [Ops -> Int]
  BY <1>14 DEF SetMaxConcurrent
<1>15. ASSUME NEW c \in Clients, NEW newValue \in BOOLEAN, SetSuspended(c, newValue)
       PROVE  FieldTypes' /\ unfinished' \in [Ops -> Int]
  BY <1>15 DEF SetSuspended
<1>16. ASSUME NEW c \in Clients, CancelAllOperations(c)
       PROVE  FieldTypes' /\ unfinished' \in [Ops -> Int]
  BY <1>16 DEF CancelAllOperations
<1>17. ASSUME NEW c \in Clients, WaitUntilAllOperationsAreFinished(c)
       PROVE  FieldTypes' /\ unfinished' \in [Ops -> Int]
  BY <1>17 DEF WaitUntilAllOperationsAreFinished
<1>18. QED
  BY <1>4, <1>5, <1>6, <1>7, <1>8, <1>9, <1>10, <1>11, <1>12, <1>13, <1>14, <1>15,
     <1>16, <1>17
     DEF QueueNext, QueueStep, ItemStep, QueueCall

\* The steps of the queue keep the types of the fields of the queue.
LEMMA QueueTypesNext == QueueInv /\ QueueNext => QueueTypes'
<1> SUFFICES ASSUME QueueInv, QueueNext
             PROVE  QueueTypes'
  OBVIOUS
<1>1. QueueTypes
  BY DEF QueueInv, TypeOK, QueueTypes
<1>2. /\ Ops \subseteq Threads /\ Clients \subseteq Threads
      /\ None \in Threads \cup {None}
  BY DEF Threads
<1>3. \A t \in Threads : /\ frame[t].batch \in Seq(Ops) /\ frame[t].pending \in Seq(Ops)
                         /\ frame[t].walk \in Seq(Ops)
  BY DEF QueueInv, TypeOK, Frames
<1>4. \A s \in Seq(Ops) : s # <<>> => Head(s) \in Ops
  OBVIOUS
<1>5. \A t \in Threads : Located(t)
  BY DEF QueueInv
<1>6. \A s \in Seq(Ops), o \in Ops : Append(s, o) \in Seq(Ops)
  OBVIOUS
<1>7. numExec + 1 \in Nat /\ SlotsAfterOne \in Nat
  BY <1>1 DEF QueueTypes, SlotsAfterOne
<1> USE <1>1, <1>2 DEF QueueTypes, queue, limits, queueVars, UnlockQueue
<1>8. ASSUME NEW t \in Threads, AppendBatch(t)
      PROVE  QueueTypes'
  <2>1. operations \o frame[t].batch \in Seq(Ops)
    BY <1>3, ConcatProperties
  <2>2. QED
    BY <1>8, <2>1 DEF AppendBatch
<1>9. ASSUME NEW t \in Threads, Publish(t)
      PROVE  QueueTypes'
  <2>1. Head(frame[t].pending) \in Ops
    BY <1>9, <1>3, <1>4, <1>5 DEF Publish, Located, AddingLabels
  <2>2. PICK k : lists' = [lists EXCEPT ![k] = Append(@, Head(frame[t].pending))]
    BY <1>9 DEF Publish
  <2>3. lists' \in [Levels -> Seq(Ops)]
    BY <1>6, <2>1, <2>2
  <2>4. QED
    BY <1>9, <2>3 DEF Publish
<1>10. ASSUME NEW t \in Threads, SubmitBlock(t)
       PROVE  QueueTypes'
  <2>1. Head(frame[t].pending) \in Ops
    BY <1>10, <1>3, <1>4, <1>5 DEF SubmitBlock, Located, AddingLabels
  <2>2. QED
    BY <1>10, <1>6, <2>1 DEF SubmitBlock
<1>11. ASSUME NEW t \in Threads, Dispatch(t)
       PROVE  QueueTypes'
  <2>1. Head(frame[t].walk) \in Ops
    BY <1>11, <1>3, <1>4 DEF Dispatch
  <2>2. lists' \in [Levels -> Seq(Ops)]
    <3>1. PICK k : lists' = [lists EXCEPT ![k] = Unlinked(@, Head(frame[t].walk))]
      BY <1>11 DEF Dispatch
    <3>2. QED
      BY <3>1, UnlinkedType
  <2>3. gcd' \in Seq(Ops) /\ numExec' \in Nat
    BY <1>11, <1>6, <1>7, <2>1 DEF Dispatch
  <2>4. QED
    BY <1>11, <2>2, <2>3 DEF Dispatch
<1>12. ASSUME NEW t \in Threads, ChangePriority(t)
       PROVE  QueueTypes'
  <2> DEFINE o == local[t].subject
             new == frame[t].level
             old == LevelOnChange(o)
  <2>1. new \in Levels /\ o \in Ops
    BY <1>12, <1>5 DEF ChangePriority, Located
  <2>2. priority' \in [Ops -> Levels \cup {None}]
    BY <1>12, <2>1 DEF ChangePriority
  <2>3. lists' \in [Levels -> Seq(Ops)]
    <3>1. CASE lists' = lists
      BY <3>1
    <3>2. CASE lists' # lists
      <4>1. lists' = Moved(o, old, new) /\ o \in ToSet(lists[old])
        BY <1>12, <3>2 DEF ChangePriority
      <4>2. CASE old \in Levels
        <5>1. Unlinked(lists[old], o) \in Seq(Ops)
          BY <4>2, UnlinkedType
        <5>2. [lists EXCEPT ![old] = Unlinked(@, o)] \in [Levels -> Seq(Ops)]
          BY <5>1
        <5>3. QED
          BY <1>6, <2>1, <4>1, <5>2 DEF Moved
      <4>3. old \in Levels
        <5>1. priority[o] \in Levels \cup {None} /\ qos[o] \in Levels \cup {None}
          BY <2>1, QueueConstants
        <5>2. QED
          BY QueueConstants, <5>1 DEF LevelOnChange
      <4>4. QED
        BY <4>2, <4>3
    <3>3. QED
      BY <3>1, <3>2
  <2>4. QED
    BY <1>12, <2>2, <2>3 DEF ChangePriority
<1>13. ASSUME NEW o \in Ops, Retire(o)
       PROVE  QueueTypes'
  BY <1>13, <1>7, UnlinkedType DEF Retire
<1>14. ASSUME NEW o \in Ops, EndItem(o)
       PROVE  QueueTypes'
  BY <1>14, UnlinkedType DEF EndItem
<1>15. ASSUME NEW c \in Clients, NEW o \in Ops, NEW k \in Levels, SetQueuePriority(c, o, k)
       PROVE  QueueTypes'
  <2>1. priority' \in [Ops -> Levels \cup {None}]
    BY <1>15 DEF SetQueuePriority
  <2>2. QED
    BY <1>15, <2>1 DEF SetQueuePriority
<1>16. ASSUME NEW t \in Threads,
              \/ Prepare(t) \/ ReadReady(t) \/ WriteReady(t) \/ Adopt(t) \/ Link(t)
              \/ Linked(t) \/ LockForBarrier(t) \/ Schedule(t) \/ EnterLevel(t)
              \/ LeaveLevel(t) \/ NotReady(t) \/ Probe(t) \/ ScheduleDone(t)
              \/ Retest(t) \/ RetestSet(t) \/ CancelNext(t) \/ CancelledAll(t)
              \/ SnapshotAll(t) \/ WaitNext(t)
       PROVE  QueueTypes'
  BY <1>16 DEF Prepare, ReadReady, WriteReady, Adopt, Link, Linked, LockForBarrier,
               Schedule, EnterLevel, LeaveLevel, NotReady, Probe, ScheduleDone,
               Retest, RetestSet, CancelNext, CancelledAll, SnapshotAll, WaitNext
<1>17. ASSUME NEW o \in Ops,
              \/ BeginItem(o) \/ Starting(o) \/ Invalidate(o)
       PROVE  QueueTypes'
  BY <1>17 DEF BeginItem, Starting, Invalidate
<1>18. ASSUME NEW c \in Clients, NEW batch \in Batches, AddOperations(c, batch)
       PROVE  QueueTypes'
  BY <1>18 DEF AddOperations
<1>19. ASSUME NEW c \in Clients, NEW b \in Ops, AddBarrierBlock(c, b)
       PROVE  QueueTypes'
  BY <1>19 DEF AddBarrierBlock
<1>20. ASSUME NEW c \in Clients, NEW max \in 0..Unlimited, SetMaxConcurrent(c, max)
       PROVE  QueueTypes'
  BY <1>20 DEF SetMaxConcurrent
<1>21. ASSUME NEW c \in Clients, NEW newValue \in BOOLEAN, SetSuspended(c, newValue)
       PROVE  QueueTypes'
  BY <1>21 DEF SetSuspended
<1>22. ASSUME NEW c \in Clients, CancelAllOperations(c)
       PROVE  QueueTypes'
  BY <1>22 DEF CancelAllOperations
<1>23. ASSUME NEW c \in Clients, WaitUntilAllOperationsAreFinished(c)
       PROVE  QueueTypes'
  BY <1>23 DEF WaitUntilAllOperationsAreFinished
<1>24. QED
  BY <1>8, <1>9, <1>10, <1>11, <1>12, <1>13, <1>14, <1>15, <1>16, <1>17, <1>18,
     <1>19, <1>20, <1>21, <1>22, <1>23
     DEF QueueNext, QueueStep, ItemStep, QueueCall

\* What is known of a thread that a step is not about stays known.
LEMMA LocatedOther ==
  ASSUME NEW u \in Threads, Located(u),
         pc'[u] \in {pc[u], "queued"}, local'[u] = local[u], frame'[u] = frame[u],
         queueLock = u => queueLock' = u /\ maxOps' = maxOps /\ numExec' = numExec
  PROVE  Located(u)'
  BY DEF Located, AddingLabels

\* The steps of the queue keep what is known of the threads.
LEMMA QueueLocatedNext == QueueInv /\ QueueNext => \A u \in Threads : Located(u)'
<1> SUFFICES ASSUME QueueInv, QueueNext, NEW u \in Threads
             PROVE  Located(u)'
  OBVIOUS
<1>1. /\ pc \in [Threads -> Labels] /\ local \in [Threads -> Locals]
      /\ frame \in [Threads -> Frames] /\ maxOps \in Int /\ numExec \in Int
  BY DEF QueueInv, TypeOK, OpTypeOK
<1>2. /\ Ops \subseteq Threads /\ Clients \subseteq Threads
      /\ None \notin Threads
  BY OperationConstants DEF Threads
<1>3. \A t \in Threads : local[t].after \in Returns
  BY <1>1 DEF Locals
<1>4. \A t \in Threads : Located(t)
  BY DEF QueueInv
<1>5. \A t \in Threads : pc'[t] \in {"idle", "wait"} /\ local'[t].after # "link" => Located(t)'
  BY DEF Located, AddingLabels
<1>6. \A s \in Seq(Ops) : Tail(s) # <<>> => s # <<>>
  OBVIOUS
<1> USE <1>1, <1>2, <1>3, <1>4 DEF Goto, Unlocked, UnlockQueue, queue, limits, queueVars, opVars
<1>7. ASSUME NEW t \in Threads, Prepare(t)
      PROVE  Located(u)'
  <2>1. CASE u # t
    BY <1>7, <2>1, LocatedOther DEF Prepare
  <2>2. PICK r : local' = [local EXCEPT ![t].subject = r]
    BY <1>7 DEF Prepare
  <2>3. local'[t].after = local[t].after
    BY <2>2 DEF Locals, Frames
  <2>4. CASE u = t
    BY <1>7, <2>2, <2>3, <2>4 DEF Prepare, Located, AddingLabels, Returns
  <2>5. QED
    BY <2>1, <2>4
<1>8. ASSUME NEW t \in Threads, ReadReady(t)
      PROVE  Located(u)'
  <2>1. CASE u # t
    BY <1>8, <2>1, LocatedOther DEF ReadReady
  <2>2. PICK r : local' = [local EXCEPT ![t].flag = r]
    BY <1>8 DEF ReadReady
  <2>3. local'[t].after = local[t].after
    BY <2>2 DEF Locals, Frames
  <2>4. CASE u = t
    BY <1>8, <2>2, <2>3, <2>4 DEF ReadReady, Located, AddingLabels, Returns
  <2>5. QED
    BY <2>1, <2>4
<1>9. ASSUME NEW t \in Threads, WriteReady(t)
      PROVE  Located(u)'
  <2>1. CASE u # t
    BY <1>9, <2>1, LocatedOther DEF WriteReady
  <2>2. PICK r : local' = [local EXCEPT ![t].flag = r]
    BY <1>9 DEF WriteReady
  <2>3. local'[t].after = local[t].after
    BY <2>2 DEF Locals, Frames
  <2>4. CASE u = t
    BY <1>9, <2>2, <2>3, <2>4 DEF WriteReady, Located, AddingLabels, Returns
  <2>5. QED
    BY <2>1, <2>4
<1>10. ASSUME NEW t \in Threads, Adopt(t)
       PROVE  Located(u)'
  <2>1. CASE u # t
    BY <1>10, <2>1, LocatedOther DEF Adopt, Located, AddingLabels
  <2>2. PICK s : s # <<>> /\ frame' = [frame EXCEPT ![t].pending = s]
    BY <1>10 DEF Adopt, Located, AddingLabels
  <2>3. frame'[t].pending # <<>> /\ frame'[t].batch = frame[t].batch
    BY <2>2 DEF Locals, Frames
  <2>4. CASE u = t
    BY <1>10, <2>2, <2>3, <2>4 DEF Adopt, Located, AddingLabels, Returns
  <2>5. QED
    BY <2>1, <2>4
<1>11. ASSUME NEW t \in Threads, AppendBatch(t)
       PROVE  Located(u)'
  <2>1. CASE u # t
    BY <1>11, <2>1, LocatedOther DEF AppendBatch
  <2>2. PICK s : frame' = [frame EXCEPT ![t].links = s]
    BY <1>11 DEF AppendBatch
  <2>3. frame'[t].pending = frame[t].pending /\ frame'[t].batch = frame[t].batch
    BY <2>2 DEF Locals, Frames
  <2>4. CASE u = t
    BY <1>11, <2>2, <2>3, <2>4 DEF AppendBatch, Located, AddingLabels, Returns
  <2>5. QED
    BY <2>1, <2>4
<1>12. ASSUME NEW t \in Threads, Link(t)
       PROVE  Located(u)'
  <2>1. CASE u # t
    BY <1>12, <2>1, LocatedOther DEF Link, Enter
  <2>2. PICK s : frame' = [frame EXCEPT ![t].links = s]
    BY <1>12 DEF Link, Enter
  <2>3. frame'[t].pending = frame[t].pending /\ frame'[t].batch = frame[t].batch
    BY <2>2 DEF Locals, Frames
  <2>4. CASE u = t
    BY <1>12, <2>2, <2>3, <2>4 DEF Link, Located, AddingLabels, Returns, Enter
  <2>5. QED
    BY <2>1, <2>4
<1>13. ASSUME NEW t \in Threads, Linked(t)
       PROVE  Located(u)'
  <2>1. CASE u # t
    BY <1>13, <2>1, LocatedOther DEF Linked
  <2>2. CASE u = t
    BY <1>13, <2>2 DEF Linked, Located, AddingLabels
  <2>3. QED
    BY <2>1, <2>2
<1>14. ASSUME NEW t \in Threads, Publish(t)
       PROVE  Located(u)'
  <2>1. queueLock = t /\ None # u
    BY <1>14 DEF Publish, Located
  <2>2. CASE u # t
    BY <1>14, <2>1, <2>2, LocatedOther DEF Publish
  <2>3. local' = [local EXCEPT ![t].after = "idle"]
    BY <1>14 DEF Publish
  <2>4. local'[t].after = "idle"
    BY <2>3 DEF Locals
  <2>5. CASE u = t /\ Tail(frame[t].pending) = <<>>
    BY <1>14, <2>4, <2>5 DEF Publish, Located, AddingLabels
  <2>6. CASE u = t /\ Tail(frame[t].pending) # <<>>
    <3>1. PICK r, s : r # <<>> /\ frame' = [frame EXCEPT ![t].pending = r, ![t].links = s]
      BY <1>14, <2>6 DEF Publish
    <3>2. frame'[t].pending # <<>> /\ frame'[t].batch = frame[t].batch
      BY <3>1 DEF Frames
    <3>3. pc'[t] = "link" /\ queueLock' = t
      BY <1>14, <2>1, <2>6 DEF Publish
    <3>4. QED
      BY <1>14, <2>4, <2>6, <3>2, <3>3 DEF Publish, Located, AddingLabels
  <2>7. QED
    BY <2>2, <2>5, <2>6
<1>15. ASSUME NEW t \in Threads, LockForBarrier(t)
       PROVE  Located(u)'
  <2>1. CASE u # t
    BY <1>15, <2>1, LocatedOther DEF LockForBarrier
  <2>2. CASE operations = <<>>
    BY <1>15, <2>1, <2>2 DEF LockForBarrier, Located, AddingLabels
  <2>3. CASE operations # <<>> /\ u = t
    <3>1. frame' = [frame EXCEPT ![t].links = operations] /\ pc' = [pc EXCEPT ![t] = "link"]
          /\ queueLock' = t
      BY <1>15, <2>3 DEF LockForBarrier
    <3>2. frame'[t].pending = frame[t].pending /\ frame'[t].batch = frame[t].batch
      BY <3>1 DEF Frames
    <3>3. QED
      BY <1>15, <2>3, <3>1, <3>2 DEF LockForBarrier, Located, AddingLabels
  <2>4. QED
    BY <2>1, <2>2, <2>3
<1>16. ASSUME NEW t \in Threads, SubmitBlock(t)
       PROVE  Located(u)'
  <2>1. CASE u # t
    BY <1>16, <2>1, LocatedOther DEF SubmitBlock
  <2>2. CASE u = t
    BY <1>16, <2>2 DEF SubmitBlock, Located, AddingLabels
  <2>3. QED
    BY <2>1, <2>2
<1>17. ASSUME NEW t \in Threads, Schedule(t)
       PROVE  Located(u)'
  <2>1. CASE u # t
    BY <1>17, <2>1, LocatedOther DEF Schedule
  <2>2. PICK n : n = maxOps - numExec /\ frame' = [frame EXCEPT ![t].slots = n]
    BY <1>17 DEF Schedule
  <2>3. frame'[t].slots = maxOps - numExec
    BY <2>2 DEF Locals, Frames
  <2>4. CASE u = t
    BY <1>17, <2>2, <2>3, <2>4 DEF Schedule, Located, AddingLabels, Returns
  <2>5. QED
    BY <2>1, <2>4
<1>18. ASSUME NEW t \in Threads, EnterLevel(t)
       PROVE  Located(u)'
  <2>1. CASE u # t
    BY <1>18, <2>1, LocatedOther DEF EnterLevel
  <2>2. PICK k, s : frame' = [frame EXCEPT ![t].level = k, ![t].walk = s]
    BY <1>18 DEF EnterLevel
  <2>3. frame'[t].slots = frame[t].slots
    BY <2>2 DEF Locals, Frames
  <2>4. CASE u = t
    BY <1>18, <2>2, <2>3, <2>4 DEF EnterLevel, Located, AddingLabels, Returns
  <2>5. QED
    BY <2>1, <2>4
<1>19. ASSUME NEW t \in Threads, LeaveLevel(t)
       PROVE  Located(u)'
  <2>1. CASE u # t
    BY <1>19, <2>1, LocatedOther DEF LeaveLevel
  <2>2. PICK k, s : frame' = [frame EXCEPT ![t].level = k, ![t].walk = s]
    BY <1>19 DEF LeaveLevel
  <2>3. frame'[t].slots = frame[t].slots
    BY <2>2 DEF Locals, Frames
  <2>4. CASE u = t
    BY <1>19, <2>2, <2>3, <2>4 DEF LeaveLevel, Located, AddingLabels, Returns
  <2>5. QED
    BY <2>1, <2>4
<1>20. ASSUME NEW t \in Threads, Dispatch(t)
       PROVE  Located(u)'
  <2>1. queueLock = t /\ queueLock' = queueLock
    BY <1>20 DEF Dispatch, Located
  <2>2. CASE u # t
    BY <1>20, <2>1, <2>2, LocatedOther DEF Dispatch
  <2>3. PICK s : frame' = [frame EXCEPT ![t].walk = s, ![t].slots = @ - 1]
    BY <1>20 DEF Dispatch
  <2>4. frame'[t].slots = maxOps' - numExec'
    <3>1. frame'[t].slots = frame[t].slots - 1
      BY <2>3 DEF Frames
    <3>2. frame[t].slots = maxOps - numExec /\ numExec' = numExec + 1 /\ maxOps' = maxOps
      BY <1>20 DEF Dispatch, Located
    <3>3. QED
      BY <3>1, <3>2
  <2>5. CASE u = t
    <3>1. pc'[t] \in {"visit", "queued"} /\ local' = local
      BY <1>20 DEF Dispatch
    <3>2. frame'[t].pending = frame[t].pending /\ frame'[t].batch = frame[t].batch
      BY <2>3 DEF Frames
    <3>3. local[t].after # "link"
      BY <1>20 DEF Dispatch, Located
    <3>4. QED
      BY <2>1, <2>4, <2>5, <3>1, <3>3 DEF Located, AddingLabels
  <2>6. QED
    BY <2>2, <2>5
<1>21. ASSUME NEW t \in Threads, NotReady(t)
       PROVE  Located(u)'
  <2>1. CASE u # t
    BY <1>21, <2>1, LocatedOther DEF NotReady
  <2>2. CASE u = t
    BY <1>21, <2>2 DEF NotReady, Located, AddingLabels
  <2>3. QED
    BY <2>1, <2>2
<1>22. ASSUME NEW t \in Threads, Probe(t)
       PROVE  Located(u)'
  <2>1. CASE u # t
    BY <1>22, <2>1, LocatedOther DEF Probe
  <2>2. PICK r, s : frame' = [frame EXCEPT ![t].walk = r, ![t].retest = s]
    BY <1>22 DEF Probe
  <2>3. frame'[t].slots = frame[t].slots
    BY <2>2 DEF Locals, Frames
  <2>4. CASE u = t
    BY <1>22, <2>2, <2>3, <2>4 DEF Probe, Located, AddingLabels, Returns
  <2>5. QED
    BY <2>1, <2>4
<1>23. ASSUME NEW t \in Threads, ScheduleDone(t)
       PROVE  Located(u)'
  <2>1. queueLock = t /\ local[t].after # "link" /\ queueLock' = None
    BY <1>23 DEF ScheduleDone, Located
  <2>2. CASE u # t
    BY <1>23, <2>1, <2>2, LocatedOther DEF ScheduleDone, RetestNext, Return
  <2>3. PICK k, n, s : frame' = [frame EXCEPT ![t].level = k, ![t].slots = n, ![t].walk = s]
    BY <1>23 DEF ScheduleDone
  <2>4. frame'[t].retest = frame[t].retest
    BY <2>3 DEF Frames
  <2>5. CASE u = t
    BY <1>23, <2>1, <2>4, <2>5
    DEF ScheduleDone, RetestNext, Return, Returns, Located, AddingLabels
  <2>6. QED
    BY <2>2, <2>5
<1>24. ASSUME NEW t \in Threads, Retest(t)
       PROVE  Located(u)'
  <2>1. CASE u # t
    BY <1>24, <2>1, LocatedOther DEF Retest, RetestNext, Return
  <2>2. CASE u = t /\ ~IsReady(Head(frame[t].retest))
    <3>1. PICK s : s = Tail(frame[t].retest) /\ frame' = [frame EXCEPT ![t].retest = s]
      BY <1>24, <2>2 DEF Retest
    <3>2. /\ frame'[t].retest = s
          /\ frame'[t].pending = frame[t].pending /\ frame'[t].batch = frame[t].batch
      BY <3>1 DEF Frames
    <3>3. pc'[t] = (IF s = <<>> THEN local[t].after ELSE "retest")
      BY <1>24, <2>2, <3>1 DEF Retest, RetestNext, Return
    <3>4. local' = local /\ queueLock' = queueLock
      BY <1>24 DEF Retest
    <3>5. QED
      BY <2>2, <3>2, <3>3, <3>4 DEF Located, AddingLabels, Returns
  <2>3. CASE u = t /\ IsReady(Head(frame[t].retest))
    BY <1>24, <2>3 DEF Retest, Located, AddingLabels
  <2>4. QED
    BY <2>1, <2>2, <2>3
<1>25. ASSUME NEW t \in Threads, RetestSet(t)
       PROVE  Located(u)'
  <2>1. CASE u # t
    BY <1>25, <2>1, LocatedOther DEF RetestSet, RetestNext, Return
  <2>2. CASE u = t /\ frame' = [frame EXCEPT ![t].retest = Tail(@)]
    <3>1. PICK s : s = Tail(frame[t].retest) /\ frame' = [frame EXCEPT ![t].retest = s]
      BY <2>2
    <3>2. /\ frame'[t].retest = s
          /\ frame'[t].pending = frame[t].pending /\ frame'[t].batch = frame[t].batch
      BY <3>1 DEF Frames
    <3>3. pc'[t] = (IF s = <<>> THEN local[t].after ELSE "retest")
      BY <1>25, <2>2, <3>1 DEF RetestSet, RetestNext, Return
    <3>4. local' = local /\ queueLock' = queueLock
      BY <1>25 DEF RetestSet
    <3>5. QED
      BY <2>2, <3>2, <3>3, <3>4 DEF Located, AddingLabels, Returns
  <2>3. QED
    BY <1>25, <2>1, <2>2 DEF RetestSet
<1>26. ASSUME NEW t \in Threads, ChangePriority(t)
       PROVE  Located(u)'
  <2>1. CASE u # t
    BY <1>26, <2>1, LocatedOther DEF ChangePriority
  <2>2. PICK k : frame' = [frame EXCEPT ![t].level = k]
    BY <1>26 DEF ChangePriority
  <2>3. frame'[t].pending = frame[t].pending /\ frame'[t].batch = frame[t].batch
    BY <2>2 DEF Frames
  <2>4. CASE u = t
    BY <1>26, <2>3, <2>4 DEF ChangePriority, Located, AddingLabels
  <2>5. QED
    BY <2>1, <2>4
<1>27. ASSUME NEW t \in Threads, CancelNext(t)
       PROVE  Located(u)'
  <2>1. CASE u # t
    BY <1>27, <2>1, LocatedOther DEF CancelNext, Enter
  <2>2. PICK o : local' = [local EXCEPT ![t].subject = o, ![t].other = None, ![t].after = "cancelAll"]
    BY <1>27 DEF CancelNext, Enter
  <2>3. local'[t].after = "cancelAll"
    BY <2>2 DEF Locals
  <2>4. CASE u = t
    BY <1>27, <2>3, <2>4 DEF CancelNext, Enter, Located, AddingLabels
  <2>5. QED
    BY <2>1, <2>4
<1>28. ASSUME NEW t \in Threads, CancelledAll(t)
       PROVE  Located(u)'
  <2>1. CASE u # t
    BY <1>28, <2>1, LocatedOther DEF CancelledAll
  <2>2. CASE u = t
    BY <1>28, <2>2 DEF CancelledAll, Located, AddingLabels
  <2>3. QED
    BY <2>1, <2>2
<1>29. ASSUME NEW t \in Threads, SnapshotAll(t)
       PROVE  Located(u)'
  <2>1. CASE u # t
    BY <1>29, <2>1, LocatedOther DEF SnapshotAll
  <2>2. PICK s : frame' = [frame EXCEPT ![t].snapshot = s]
    BY <1>29 DEF SnapshotAll
  <2>3. frame'[t].pending = frame[t].pending /\ frame'[t].batch = frame[t].batch
    BY <2>2 DEF Frames
  <2>4. CASE u = t
    BY <1>29, <2>3, <2>4 DEF SnapshotAll, Located, AddingLabels
  <2>5. QED
    BY <2>1, <2>4
<1>30. ASSUME NEW t \in Threads, WaitNext(t)
       PROVE  Located(u)'
  <2>1. CASE u # t
    BY <1>30, <2>1, LocatedOther DEF WaitNext, Enter
  <2>2. CASE u = t /\ frame[t].snapshot = <<>>
    BY <1>30, <2>2 DEF WaitNext, Located, AddingLabels
  <2>3. CASE u = t /\ frame[t].snapshot # <<>>
    <3>1. Enter(t, Head(frame[t].snapshot), None, "waitNext", "wait")
      BY <1>30, <2>3 DEF WaitNext
    <3>2. PICK o : local' = [local EXCEPT ![t].subject = o, ![t].other = None, ![t].after = "waitNext"]
      BY <3>1 DEF Enter
    <3>3. local'[t].after = "waitNext"
      BY <3>2 DEF Locals
    <3>4. pc'[t] = "wait"
      BY <3>1 DEF Enter
    <3>5. QED
      BY <1>5, <2>3, <3>3, <3>4
  <2>4. QED
    BY <2>1, <2>2, <2>3
<1>31. ASSUME NEW o \in Ops, BeginItem(o)
       PROVE  Located(u)'
  <2>1. CASE u # o
    BY <1>31, <2>1, LocatedOther DEF BeginItem
  <2>2. CASE u = o
    BY <1>31, <2>2 DEF BeginItem, Located, AddingLabels
  <2>3. QED
    BY <2>1, <2>2
<1>32. ASSUME NEW o \in Ops, Starting(o)
       PROVE  Located(u)'
  <2>1. CASE u # o
    BY <1>32, <2>1, LocatedOther DEF Starting
  <2>2. CASE u = o
    BY <1>32, <2>2 DEF Starting, Located, AddingLabels
  <2>3. QED
    BY <2>1, <2>2
<1>33. ASSUME NEW o \in Ops, Retire(o)
       PROVE  Located(u)'
  <2>1. CASE u # o
    BY <1>33, <2>1, LocatedOther DEF Retire
  <2>2. CASE u = o
    BY <1>33, <2>2 DEF Retire, Located, AddingLabels
  <2>3. QED
    BY <2>1, <2>2
<1>34. ASSUME NEW o \in Ops, Invalidate(o)
       PROVE  Located(u)'
  <2>1. CASE u # o
    BY <1>34, <2>1, LocatedOther DEF Invalidate, Located
  <2>2. CASE u = o
    BY <1>34, <2>2 DEF Invalidate, Located, AddingLabels
  <2>3. QED
    BY <2>1, <2>2
<1>35. ASSUME NEW o \in Ops, EndItem(o)
       PROVE  Located(u)'
  <2>1. CASE u # o
    BY <1>35, <2>1, LocatedOther DEF EndItem
  <2>2. CASE u = o
    BY <1>35, <2>2 DEF EndItem, Located, AddingLabels
  <2>3. QED
    BY <2>1, <2>2
<1>36. ASSUME NEW c \in Clients, NEW batch \in Batches, AddOperations(c, batch)
       PROVE  Located(u)'
  <2>1. CASE u # c
    BY <1>36, <2>1, LocatedOther DEF AddOperations
  <2>2. PICK s : s # <<>> /\ frame' = [frame EXCEPT ![c].batch = s, ![c].pending = s]
    BY <1>36 DEF AddOperations
  <2>3. frame'[c].batch # <<>> /\ frame'[c].pending # <<>>
    BY <2>2 DEF Frames
  <2>4. CASE u = c
    BY <1>36, <2>3, <2>4 DEF AddOperations, Located, AddingLabels
  <2>5. QED
    BY <2>1, <2>4
<1>37. ASSUME NEW c \in Clients, NEW b \in Ops, AddBarrierBlock(c, b)
       PROVE  Located(u)'
  <2>1. CASE u # c
    BY <1>37, <2>1, LocatedOther DEF AddBarrierBlock
  <2>2. PICK s : s # <<>> /\ frame' = [frame EXCEPT ![c].batch = s, ![c].pending = s]
    BY <1>37 DEF AddBarrierBlock
  <2>3. frame'[c].batch # <<>> /\ frame'[c].pending # <<>>
    BY <2>2 DEF Frames
  <2>4. CASE u = c
    BY <1>37, <2>3, <2>4 DEF AddBarrierBlock, Located, AddingLabels
  <2>5. QED
    BY <2>1, <2>4
<1>38. ASSUME NEW c \in Clients, NEW o \in Ops, NEW k \in Levels, SetQueuePriority(c, o, k)
       PROVE  Located(u)'
  <2>1. CASE u # c
    BY <1>38, <2>1, LocatedOther DEF SetQueuePriority, Enter
  <2>2. local' = [local EXCEPT ![c].subject = o, ![c].other = None, ![c].after = "idle"]
    BY <1>38 DEF SetQueuePriority, Enter
  <2>3. local'[c].after = "idle" /\ local'[c].subject = o
    BY <2>2 DEF Locals
  <2>4. pc'[c] \in {"idle", "changePriority"}
    BY <1>38 DEF SetQueuePriority, Enter
  <2>5. pc'[c] = "changePriority" => frame' = [frame EXCEPT ![c].level = k]
    BY <1>38 DEF SetQueuePriority, Enter
  <2>6. pc'[c] = "changePriority" => frame'[c].level \in Levels
    BY <2>5 DEF Frames
  <2>7. CASE u = c
    BY <2>3, <2>4, <2>6, <2>7 DEF Located, AddingLabels
  <2>8. QED
    BY <2>1, <2>7
<1>39. ASSUME NEW c \in Clients, NEW max \in 0..Unlimited, SetMaxConcurrent(c, max)
       PROVE  Located(u)'
  <2>1. CASE u # c
    BY <1>39, <2>1, LocatedOther DEF SetMaxConcurrent, Enter
  <2>2. local' = [local EXCEPT ![c].subject = None, ![c].other = None, ![c].after = "idle"]
    BY <1>39 DEF SetMaxConcurrent, Enter
  <2>3. local'[c].after = "idle" /\ local'[c].subject = None
    BY <2>2 DEF Locals
  <2>4. pc'[c] \in {"idle", "schedule"}
    BY <1>39 DEF SetMaxConcurrent, Enter
  <2>5. CASE u = c
    BY <2>3, <2>4, <2>5 DEF Located, AddingLabels
  <2>6. QED
    BY <2>1, <2>5
<1>40. ASSUME NEW c \in Clients, NEW newValue \in BOOLEAN, SetSuspended(c, newValue)
       PROVE  Located(u)'
  <2>1. CASE u # c
    BY <1>40, <2>1, LocatedOther DEF SetSuspended, Enter
  <2>2. local' = [local EXCEPT ![c].subject = None, ![c].other = None, ![c].after = "idle"]
    BY <1>40 DEF SetSuspended, Enter
  <2>3. local'[c].after = "idle" /\ local'[c].subject = None
    BY <2>2 DEF Locals
  <2>4. pc'[c] \in {"idle", "schedule"}
    BY <1>40 DEF SetSuspended, Enter
  <2>5. CASE u = c
    BY <2>3, <2>4, <2>5 DEF Located, AddingLabels
  <2>6. QED
    BY <2>1, <2>5
<1>41. ASSUME NEW c \in Clients, CancelAllOperations(c)
       PROVE  Located(u)'
  <2>1. CASE u # c
    BY <1>41, <2>1, LocatedOther DEF CancelAllOperations
  <2>2. PICK s : frame' = [frame EXCEPT ![c].snapshot = s]
    BY <1>41 DEF CancelAllOperations
  <2>3. frame'[c].pending = frame[c].pending /\ frame'[c].batch = frame[c].batch
    BY <2>2 DEF Frames
  <2>4. CASE u = c
    BY <1>41, <2>3, <2>4 DEF CancelAllOperations, Located, AddingLabels, Calls
  <2>5. QED
    BY <2>1, <2>4
<1>42. ASSUME NEW c \in Clients, WaitUntilAllOperationsAreFinished(c)
       PROVE  Located(u)'
  <2>1. CASE u # c
    BY <1>42, <2>1, LocatedOther DEF WaitUntilAllOperationsAreFinished
  <2>2. CASE u = c
    BY <1>42, <2>2 DEF WaitUntilAllOperationsAreFinished, Located, AddingLabels, Calls
  <2>3. QED
    BY <2>1, <2>2
<1>43. QED
  BY <1>7, <1>8, <1>9, <1>10, <1>11, <1>12, <1>13, <1>14, <1>15, <1>16, <1>17, <1>18,
     <1>19, <1>20, <1>21, <1>22, <1>23, <1>24, <1>25, <1>26, <1>27, <1>28, <1>29,
     <1>30, <1>31, <1>32, <1>33, <1>34, <1>35, <1>36, <1>37, <1>38, <1>39, <1>40,
     <1>41, <1>42
     DEF QueueNext, QueueStep, ItemStep, QueueCall

\* A step of an operation in the queue keeps what is known of the threads.
LEMMA OpLocatedNext ==
  QueueInv /\ OpNext /\ UNCHANGED queueVars => \A u \in Threads : Located(u)'
<1> SUFFICES ASSUME QueueInv, OpNext, UNCHANGED queueVars, NEW u \in Threads
             PROVE  Located(u)'
  OBVIOUS
<1>1. frame' = frame /\ queueLock' = queueLock /\ maxOps' = maxOps /\ numExec' = numExec
  BY DEF queueVars, queue, limits
<1>2. Located(u) /\ local[u].after \in Returns
  BY DEF QueueInv, TypeOK, OpTypeOK, Locals
<1>3. /\ pc'[u] \in CallLabels \cup RunLabels \cup {"schedule", "retire", pc[u], local[u].after}
      /\ local'[u].after \in {local[u].after, "idle", "ready", "exit"}
  BY OpNextMoves, OpNextAfter DEF QueueInv, TypeOK, OpMoves, AfterKept
<1>4. pc[u] = "changePriority" /\ pc'[u] = "changePriority" => local'[u].subject = local[u].subject
  BY OpNextSubject DEF QueueInv, TypeOK, SubjectKept
<1>5. QED
  BY <1>1, <1>2, <1>3, <1>4 DEF Located, AddingLabels, Returns, CallLabels, RunLabels

\* Every step keeps the inductive invariant.
LEMMA QueueInvNext == QueueInv /\ [Next]_vars => QueueInv'
<1> SUFFICES ASSUME QueueInv, [Next]_vars
             PROVE  QueueInv'
  OBVIOUS
<1>1. CASE OpNext /\ UNCHANGED queueVars
  <2>1. OpTypeOK' /\ Subjects'
    BY <1>1, OpInvNext DEF QueueInv, TypeOK, OpInv
  <2>2. \A u \in Threads : Located(u)'
    BY <1>1, OpLocatedNext
  <2>3. TypeOK'
    BY <1>1, <2>1 DEF QueueInv, TypeOK, queueVars, queue, limits
  <2>4. QED
    BY <2>1, <2>2, <2>3 DEF QueueInv
<1>2. CASE QueueNext
  <2>1. OpTypeOK'
    BY <1>2, QueueFieldsNext, QueueLabelsNext, QueueLocalsNext DEF OpTypeOK, FieldTypes
  <2>2. TypeOK'
    BY <1>2, <2>1, QueueTypesNext, FramesNext DEF TypeOK, QueueTypes
  <2>3. QED
    BY <1>2, <2>2, QueueSubjectsNext, QueueLocatedNext DEF QueueInv
<1>3. CASE UNCHANGED vars
  BY <1>3 DEF vars, opVars, graph, status, queueVars, queue, limits, QueueInv, TypeOK,
     OpTypeOK, Subjects, Located
<1>4. QED
  BY <1>1, <1>2, <1>3 DEF Next, QueueNext

\* The inductive invariant holds of every behaviour.
LEMMA QueueInvAlways == Spec => []QueueInv
  BY QueueInvInit, QueueInvNext, PTL DEF Spec

\* The fields of operations, queue and threads keep their types, whatever calls the
\* clients make.
THEOREM QueueTypeOK == Spec => []TypeOK
<1>1. QueueInv => TypeOK
  BY DEF QueueInv
<1>2. QED
  BY <1>1, QueueInvAlways, PTL

\* Only Dispatch takes a slot, and it has one: the limit of the moment is kept, for
\* any number of threads that fill, empty and change the queue.
LEMMA DispatchWithinLimit ==
  QueueInv /\ [Next]_vars => (numExec' > numExec => numExec' <= maxOps')
<1> SUFFICES ASSUME QueueInv, [Next]_vars, numExec' > numExec
             PROVE  numExec' <= maxOps'
  OBVIOUS
<1>1. numExec \in Nat /\ maxOps \in Int
  BY DEF QueueInv, TypeOK
<1>2. ASSUME NEW t \in Threads, Dispatch(t)
      PROVE  numExec' <= maxOps'
  <2>1. frame[t].slots = maxOps - numExec
    BY <1>2 DEF QueueInv, Located, Dispatch
  <2>2. frame[t].slots > 0
    <3>1. frame[t].slots \in Int
      BY DEF QueueInv, TypeOK, Frames
    <3>2. QED
      BY <1>2, <3>1 DEF Dispatch, Halted
  <2>3. numExec' = numExec + 1 /\ maxOps' = maxOps
    BY <1>2 DEF Dispatch, limits
  <2>4. QED
    BY <1>1, <2>1, <2>2, <2>3
<1>3. ASSUME NEW o \in Ops, Retire(o)
      PROVE  FALSE
  BY <1>1, <1>3 DEF Retire, SlotsAfterOne
<1>4. CASE numExec' = numExec
  BY <1>1, <1>4
<1>5. ASSUME NEW t \in Threads,
             \/ Prepare(t) \/ ReadReady(t) \/ WriteReady(t) \/ Adopt(t)
             \/ AppendBatch(t) \/ Link(t) \/ Linked(t) \/ Publish(t)
             \/ LockForBarrier(t) \/ SubmitBlock(t) \/ Schedule(t)
             \/ EnterLevel(t) \/ LeaveLevel(t) \/ NotReady(t) \/ Probe(t)
             \/ ScheduleDone(t) \/ Retest(t) \/ RetestSet(t) \/ ChangePriority(t)
             \/ CancelNext(t) \/ CancelledAll(t) \/ SnapshotAll(t) \/ WaitNext(t)
      PROVE  numExec' = numExec
  BY <1>5 DEF Prepare, ReadReady, WriteReady, Adopt, AppendBatch, Link, Linked,
              Publish, LockForBarrier, SubmitBlock, Schedule, EnterLevel, LeaveLevel,
              NotReady, Probe, ScheduleDone, Retest, RetestSet, ChangePriority,
              CancelNext, CancelledAll, SnapshotAll, WaitNext, queueVars, queue
<1>6. ASSUME NEW o \in Ops,
             \/ BeginItem(o) \/ Starting(o) \/ Invalidate(o) \/ EndItem(o)
      PROVE  numExec' = numExec
  BY <1>6 DEF BeginItem, Starting, Invalidate, EndItem, queueVars, queue
<1>7. ASSUME NEW c \in Clients, NEW batch \in Batches, AddOperations(c, batch)
      PROVE  numExec' = numExec
  BY <1>7 DEF AddOperations, queueVars, queue
<1>8. ASSUME NEW c \in Clients, NEW b \in Ops, AddBarrierBlock(c, b)
      PROVE  numExec' = numExec
  BY <1>8 DEF AddBarrierBlock, queueVars, queue
<1>9. ASSUME NEW c \in Clients, NEW o \in Ops, NEW k \in Levels, SetQueuePriority(c, o, k)
      PROVE  numExec' = numExec
  BY <1>9 DEF SetQueuePriority, queueVars, queue
<1>10. ASSUME NEW c \in Clients, NEW max \in 0..Unlimited, SetMaxConcurrent(c, max)
       PROVE  numExec' = numExec
  BY <1>10 DEF SetMaxConcurrent, queueVars, queue
<1>11. ASSUME NEW c \in Clients, NEW newValue \in BOOLEAN, SetSuspended(c, newValue)
       PROVE  numExec' = numExec
  BY <1>11 DEF SetSuspended, queueVars, queue
<1>12. ASSUME NEW c \in Clients, CancelAllOperations(c)
       PROVE  numExec' = numExec
  BY <1>12 DEF CancelAllOperations, queueVars, queue
<1>13. ASSUME NEW c \in Clients, WaitUntilAllOperationsAreFinished(c)
       PROVE  numExec' = numExec
  BY <1>13 DEF WaitUntilAllOperationsAreFinished, queueVars, queue
<1>14. CASE UNCHANGED queueVars
  BY <1>4, <1>14 DEF queueVars, queue
<1>15. CASE UNCHANGED vars
  BY <1>14, <1>15 DEF vars
<1>16. QED
  BY <1>2, <1>3, <1>4, <1>5, <1>6, <1>7, <1>8, <1>9, <1>10, <1>11, <1>12, <1>13,
     <1>14, <1>15
     DEF Next, QueueStep, ItemStep, QueueCall

\* No dispatch exceeds the limit that is in force when it is made, whichever
\* operations finish and whoever changes the limit while _schedule() runs.
THEOREM QueueNoOvercommit == Spec => NoOvercommit
<1>1. QueueInv /\ [Next]_vars => [numExec' > numExec => numExec' <= maxOps']_vars
  BY DispatchWithinLimit
<1>2. QED
  BY <1>1, QueueInvAlways, PTL DEF Spec, NoOvercommit
================================================================================
