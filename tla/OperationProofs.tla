----------------------------- MODULE OperationProofs -----------------------------
(***************************************************************************)
(* Theorems about Operation, for any number of operations and clients and   *)
(* any programs: the fields keep their types, and waitUntilFinished misses  *)
(* no broadcast.  OperationQueueProofs reuses the lemmas for the operations *)
(* of a queue.                                                              *)
(*                                                                         *)
(* Then the counts of unfinished dependencies, for any programs that link   *)
(* operations and do not remove links: the count of an operation is the     *)
(* number of dependencies that still owe it a notification, and the         *)
(* assertions of the code hold; its locks make no cycle; and an operation   *)
(* executes after its dependencies.                                         *)
(***************************************************************************)
EXTENDS Operation, ListTheorems, FiniteSetTheorems, TLAPS

\* The types of the fields of the operations, the locks and the clients' programs.
FieldTypes ==
  /\ state \in [Ops -> DOMAIN Rank]
  /\ deps \in [Ops -> SUBSET Ops]
  /\ downs \in [Ops -> SUBSET Ops]
  /\ cachedReady \in [Ops -> BOOLEAN]
  /\ cancelled \in [Ops -> BOOLEAN]
  /\ attached \in [Ops -> BOOLEAN]
  /\ opLock \in [Ops -> Threads \cup {None}]
  /\ turn \in [Clients -> Nat]

\* A thread that is about to link two operations, or that waits for one, has them.
Subjects ==
  \A t \in Threads :
    /\ pc[t] \in {"append", "linkUp", "linkSelf"} => local[t].other \in Ops
    /\ pc[t] \in {"append", "linkUp", "linkSelf", "wait", "asleep"} => local[t].subject \in Ops

\* The operation that u waits for has its broadcast still to make.
Awaited(u) ==
  LET o == local[u].subject IN
    pc[o] \in {"finish", "notify", "ready"} \/ local[o].after = "ready"

\* The inductive invariant.
OpInv ==
  /\ OpTypeOK
  /\ Subjects

\* A step of a thread leads to one of the labels of Operation, or of those two of
\* the queue, or back to where the thread was called from.
OpMoves ==
  /\ pc' = [t \in Threads |-> pc'[t]]
  /\ \A t \in Threads :
       pc'[t] \in CallLabels \cup RunLabels \cup {"schedule", "retire", pc[t], local[t].after}

\* A step of a thread keeps where it will return to, or sets it to a label of
\* Operation.
AfterKept ==
  \A t \in Threads : local'[t].after \in {local[t].after, "idle", "ready", "exit"}

\* A thread in a routine that Operation does not have keeps the operation it is about.
SubjectKept ==
  \A t \in Threads :
    pc[t] = "changePriority" /\ pc'[t] = "changePriority" => local'[t].subject = local[t].subject

\* The initial state satisfies the inductive invariant.
LEMMA OpInvInit == OpInit => OpInv
<1> SUFFICES ASSUME OpInit
             PROVE  OpInv
  OBVIOUS
<1>1. NoLocal \in Locals
  BY DEF NoLocal, Locals, Returns
<1>2. "idle" \in Labels
  BY DEF Labels, CallLabels
<1>3. state \in [Ops -> DOMAIN Rank]
  BY DEF OpInit, Rank
<1>4. OpTypeOK
  BY <1>1, <1>2, <1>3 DEF OpInit, OpTypeOK
<1>5. Subjects
  BY DEF OpInit, Subjects
<1>6. QED
  BY <1>4, <1>5 DEF OpInv

\* Where a step may lead a thread.
Reached(t) == CallLabels \cup RunLabels \cup {"schedule", "retire", local[t].after}

\* Where the steps of Operation lead to.
LEMMA OpNextMoves == OpTypeOK /\ OpNext => OpMoves
<1> SUFFICES ASSUME OpTypeOK, OpNext
             PROVE  OpMoves
  OBVIOUS
<1>1. pc = [t \in Threads |-> pc[t]]
  BY DEF OpTypeOK
<1>2. ASSUME NEW t \in Threads, NEW label \in Reached(t), Goto(t, label)
      PROVE  OpMoves
  BY <1>1, <1>2 DEF OpMoves, Goto, Reached
<1>3. ASSUME UNCHANGED pc
      PROVE  OpMoves
  BY <1>1, <1>3 DEF OpMoves
<1>4. ASSUME NEW t \in Threads, CallStep(t)
      PROVE  \E label \in Reached(t) : Goto(t, label)
  <2> USE DEF Reached, CallLabels, Return
  <2>1. CASE TestReady(t) \/ SetReady(t) \/ FetchQueue(t)
    BY <2>1 DEF TestReady, SetReady, FetchQueue
  <2>2. CASE AppendDependency(t) \/ LockUp(t) \/ LinkSelf(t)
    BY <2>2 DEF AppendDependency, LockUp, LinkSelf
  <2>3. CASE Find(t) \/ UnlinkSelf(t) \/ CancelUnlessFinished(t)
    BY <2>3 DEF Find, UnlinkSelf, CancelUnlessFinished
  <2>4. CASE MarkCancelled(t) \/ TestExecuting(t) \/ ClearCount(t) \/ Wait(t)
    BY <2>4 DEF MarkCancelled, TestExecuting, ClearCount, Wait
  <2> QED BY <1>4, <2>1, <2>2, <2>3, <2>4 DEF CallStep
<1>5. ASSUME NEW o \in Ops, RunStep(o), ~Broadcast(o), ~Notify(o)
      PROVE  \E label \in Reached(o) : Goto(o, label)
  <2> USE DEF Reached, CallLabels, RunLabels
  <2>1. CASE CheckReady(o) \/ Begin(o) \/ Execute(o) \/ Main(o)
    BY <2>1 DEF CheckReady, Begin, Execute, Main
  <2>2. CASE Detach(o) \/ DetachUp(o) \/ DetachSelf(o)
    BY <2>2 DEF Detach, DetachUp, DetachSelf
  <2>3. CASE Finishing(o) \/ Finish(o) \/ Finished(o) \/ Ready(o)
    BY <2>3 DEF Finishing, Finish, Finished, Ready
  <2> QED BY <1>5, <2>1, <2>2, <2>3 DEF RunStep
<1>6. ASSUME NEW o \in Ops, Broadcast(o)
      PROVE  OpMoves
  BY <1>1, <1>6 DEF Broadcast, OpMoves, RunLabels, CallLabels
<1>7. ASSUME NEW o \in Ops, Notify(o)
      PROVE  OpMoves
  BY <1>3, <1>7 DEF Notify
<1>8. ASSUME NEW c \in Clients, ClientCall(c)
      PROVE  \E t \in Threads : \E label \in Reached(t) : Goto(t, label)
  <2>1. \A t \in Threads : {"append", "find", "cancel", "wait", "checkReady"} \subseteq Reached(t)
    BY DEF Reached, CallLabels, RunLabels
  <2>2. Ops \subseteq Threads /\ c \in Threads
    BY DEF Threads
  <2>3. \A t, o, up, after, label : Enter(t, o, up, after, label) => Goto(t, label)
    BY DEF Enter
  <2>4. \/ \E label \in {"append", "find", "cancel", "wait"} : Goto(c, label)
        \/ \E o \in Ops : Goto(o, "checkReady")
    BY <1>8, <2>3 DEF ClientCall, AddDependency, RemoveDependency, Cancel, Start, WaitUntilFinished
  <2> QED BY <2>1, <2>2, <2>4
<1>9. ASSUME NEW t \in Threads, SpuriousWakeup(t)
      PROVE  \E label \in Reached(t) : Goto(t, label)
  BY <1>9 DEF SpuriousWakeup, Reached, CallLabels
<1>10. QED
  BY <1>2, <1>4, <1>5, <1>6, <1>7, <1>8, <1>9 DEF OpNext, Threads

\* The steps of Operation return to where they were called from.
LEMMA OpNextAfter == OpTypeOK /\ OpNext => AfterKept
<1> USE DEF OpTypeOK, AfterKept, Locals, Threads, Enter
<1> SUFFICES ASSUME OpTypeOK, OpNext
             PROVE  AfterKept
  OBVIOUS
<1>1. ASSUME NEW t \in Threads, TestReady(t)
      PROVE  AfterKept
  BY <1>1 DEF TestReady
<1>2. ASSUME NEW t \in Threads, SetReady(t)
      PROVE  AfterKept
  BY <1>2 DEF SetReady
<1>3. ASSUME NEW t \in Threads, FetchQueue(t)
      PROVE  AfterKept
  BY <1>3 DEF FetchQueue
<1>4. ASSUME NEW t \in Threads, AppendDependency(t)
      PROVE  AfterKept
  BY <1>4 DEF AppendDependency
<1>5. ASSUME NEW t \in Threads, LockUp(t)
      PROVE  AfterKept
  BY <1>5 DEF LockUp
<1>6. ASSUME NEW t \in Threads, LinkSelf(t)
      PROVE  AfterKept
  BY <1>6 DEF LinkSelf
<1>7. ASSUME NEW t \in Threads, Find(t)
      PROVE  AfterKept
  BY <1>7 DEF Find
<1>8. ASSUME NEW t \in Threads, UnlinkSelf(t)
      PROVE  AfterKept
  BY <1>8 DEF UnlinkSelf
<1>9. ASSUME NEW t \in Threads, CancelUnlessFinished(t)
      PROVE  AfterKept
  BY <1>9 DEF CancelUnlessFinished
<1>10. ASSUME NEW t \in Threads, MarkCancelled(t)
       PROVE  AfterKept
  BY <1>10 DEF MarkCancelled
<1>11. ASSUME NEW t \in Threads, TestExecuting(t)
       PROVE  AfterKept
  BY <1>11 DEF TestExecuting
<1>12. ASSUME NEW t \in Threads, ClearCount(t)
       PROVE  AfterKept
  BY <1>12 DEF ClearCount
<1>13. ASSUME NEW t \in Threads, Wait(t)
       PROVE  AfterKept
  BY <1>13 DEF Wait
<1>14. ASSUME NEW t \in Threads, SpuriousWakeup(t)
       PROVE  AfterKept
  BY <1>14 DEF SpuriousWakeup
<1>15. ASSUME NEW o \in Ops, CheckReady(o)
       PROVE  AfterKept
  BY <1>15 DEF CheckReady
<1>16. ASSUME NEW o \in Ops, Begin(o)
       PROVE  AfterKept
  BY <1>16 DEF Begin
<1>17. ASSUME NEW o \in Ops, Execute(o)
       PROVE  AfterKept
  BY <1>17 DEF Execute
<1>18. ASSUME NEW o \in Ops, Main(o)
       PROVE  AfterKept
  BY <1>18 DEF Main
<1>19. ASSUME NEW o \in Ops, Detach(o)
       PROVE  AfterKept
  BY <1>19 DEF Detach
<1>20. ASSUME NEW o \in Ops, DetachUp(o)
       PROVE  AfterKept
  BY <1>20 DEF DetachUp
<1>21. ASSUME NEW o \in Ops, DetachSelf(o)
       PROVE  AfterKept
  BY <1>21 DEF DetachSelf
<1>22. ASSUME NEW o \in Ops, Finishing(o)
       PROVE  AfterKept
  BY <1>22 DEF Finishing
<1>23. ASSUME NEW o \in Ops, Finish(o)
       PROVE  AfterKept
  BY <1>23 DEF Finish
<1>24. ASSUME NEW o \in Ops, Notify(o)
       PROVE  AfterKept
  BY <1>24 DEF Notify
<1>25. ASSUME NEW o \in Ops, Finished(o)
       PROVE  AfterKept
  BY <1>25 DEF Finished
<1>26. ASSUME NEW o \in Ops, Ready(o)
       PROVE  AfterKept
  BY <1>26 DEF Ready
<1>27. ASSUME NEW o \in Ops, Broadcast(o)
       PROVE  AfterKept
  BY <1>27 DEF Broadcast
<1>28. ASSUME NEW c \in Clients, NEW o \in Ops, NEW up \in Ops, AddDependency(c, o, up)
       PROVE  AfterKept
  BY <1>28 DEF AddDependency
<1>29. ASSUME NEW c \in Clients, NEW o \in Ops, NEW up \in Ops, RemoveDependency(c, o, up)
       PROVE  AfterKept
  BY <1>29 DEF RemoveDependency
<1>30. ASSUME NEW c \in Clients, NEW o \in Ops, Cancel(c, o)
       PROVE  AfterKept
  BY <1>30 DEF Cancel
<1>31. ASSUME NEW c \in Clients, NEW o \in Ops, Start(c, o)
       PROVE  AfterKept
  BY <1>31 DEF Start
<1>32. ASSUME NEW c \in Clients, NEW o \in Ops, WaitUntilFinished(c, o)
       PROVE  AfterKept
  BY <1>32 DEF WaitUntilFinished
<1>33. QED
  BY <1>1, <1>2, <1>3, <1>4, <1>5, <1>6, <1>7, <1>8, <1>9, <1>10, <1>11, <1>12,
     <1>13, <1>14, <1>15, <1>16, <1>17, <1>18, <1>19, <1>20, <1>21, <1>22, <1>23,
     <1>24, <1>25, <1>26, <1>27, <1>28, <1>29, <1>30, <1>31, <1>32
     DEF OpNext, CallStep, RunStep, ClientCall

\* The steps of Operation leave the threads of changePriority alone.
LEMMA OpNextSubject == OpTypeOK /\ OpNext => SubjectKept
<1> USE DEF OpTypeOK, SubjectKept, Locals, Threads, Goto, Enter
<1> SUFFICES ASSUME OpTypeOK, OpNext
             PROVE  SubjectKept
  OBVIOUS
<1>1. ASSUME NEW t \in Threads, TestReady(t)
      PROVE  SubjectKept
  BY <1>1 DEF TestReady
<1>2. ASSUME NEW t \in Threads, SetReady(t)
      PROVE  SubjectKept
  BY <1>2 DEF SetReady
<1>3. ASSUME NEW t \in Threads, FetchQueue(t)
      PROVE  SubjectKept
  BY <1>3 DEF FetchQueue
<1>4. ASSUME NEW t \in Threads, AppendDependency(t)
      PROVE  SubjectKept
  BY <1>4 DEF AppendDependency, graph, status
<1>5. ASSUME NEW t \in Threads, LockUp(t)
      PROVE  SubjectKept
  BY <1>5 DEF LockUp
<1>6. ASSUME NEW t \in Threads, LinkSelf(t)
      PROVE  SubjectKept
  BY <1>6 DEF LinkSelf
<1>7. ASSUME NEW t \in Threads, Find(t)
      PROVE  SubjectKept
  BY <1>7 DEF Find
<1>8. ASSUME NEW t \in Threads, UnlinkSelf(t)
      PROVE  SubjectKept
  BY <1>8 DEF UnlinkSelf
<1>9. ASSUME NEW t \in Threads, CancelUnlessFinished(t)
      PROVE  SubjectKept
  BY <1>9 DEF CancelUnlessFinished, Return
<1>10. ASSUME NEW t \in Threads, MarkCancelled(t)
       PROVE  SubjectKept
  BY <1>10 DEF MarkCancelled
<1>11. ASSUME NEW t \in Threads, TestExecuting(t)
       PROVE  SubjectKept
  BY <1>11 DEF TestExecuting, Return
<1>12. ASSUME NEW t \in Threads, ClearCount(t)
       PROVE  SubjectKept
  BY <1>12 DEF ClearCount
<1>13. ASSUME NEW t \in Threads, Wait(t)
       PROVE  SubjectKept
  BY <1>13 DEF Wait, Return
<1>14. ASSUME NEW t \in Threads, SpuriousWakeup(t)
       PROVE  SubjectKept
  BY <1>14 DEF SpuriousWakeup
<1>15. ASSUME NEW o \in Ops, CheckReady(o)
       PROVE  SubjectKept
  BY <1>15 DEF CheckReady
<1>16. ASSUME NEW o \in Ops, Begin(o)
       PROVE  SubjectKept
  BY <1>16 DEF Begin
<1>17. ASSUME NEW o \in Ops, Execute(o)
       PROVE  SubjectKept
  BY <1>17 DEF Execute
<1>18. ASSUME NEW o \in Ops, Main(o)
       PROVE  SubjectKept
  BY <1>18 DEF Main
<1>19. ASSUME NEW o \in Ops, Detach(o)
       PROVE  SubjectKept
  BY <1>19 DEF Detach
<1>20. ASSUME NEW o \in Ops, DetachUp(o)
       PROVE  SubjectKept
  BY <1>20 DEF DetachUp
<1>21. ASSUME NEW o \in Ops, DetachSelf(o)
       PROVE  SubjectKept
  BY <1>21 DEF DetachSelf
<1>22. ASSUME NEW o \in Ops, Finishing(o)
       PROVE  SubjectKept
  BY <1>22 DEF Finishing
<1>23. ASSUME NEW o \in Ops, Finish(o)
       PROVE  SubjectKept
  BY <1>23 DEF Finish
<1>24. ASSUME NEW o \in Ops, Notify(o)
       PROVE  SubjectKept
  BY <1>24 DEF Notify
<1>25. ASSUME NEW o \in Ops, Finished(o)
       PROVE  SubjectKept
  BY <1>25 DEF Finished
<1>26. ASSUME NEW o \in Ops, Ready(o)
       PROVE  SubjectKept
  BY <1>26 DEF Ready
<1>27. ASSUME NEW o \in Ops, Broadcast(o)
       PROVE  SubjectKept
  BY <1>27 DEF Broadcast
<1>28. ASSUME NEW c \in Clients, NEW o \in Ops, NEW up \in Ops, AddDependency(c, o, up)
       PROVE  SubjectKept
  BY <1>28 DEF AddDependency
<1>29. ASSUME NEW c \in Clients, NEW o \in Ops, NEW up \in Ops, RemoveDependency(c, o, up)
       PROVE  SubjectKept
  BY <1>29 DEF RemoveDependency
<1>30. ASSUME NEW c \in Clients, NEW o \in Ops, Cancel(c, o)
       PROVE  SubjectKept
  BY <1>30 DEF Cancel
<1>31. ASSUME NEW c \in Clients, NEW o \in Ops, Start(c, o)
       PROVE  SubjectKept
  BY <1>31 DEF Start
<1>32. ASSUME NEW c \in Clients, NEW o \in Ops, WaitUntilFinished(c, o)
       PROVE  SubjectKept
  BY <1>32 DEF WaitUntilFinished
<1>33. QED
  BY <1>1, <1>2, <1>3, <1>4, <1>5, <1>6, <1>7, <1>8, <1>9, <1>10, <1>11, <1>12,
     <1>13, <1>14, <1>15, <1>16, <1>17, <1>18, <1>19, <1>20, <1>21, <1>22, <1>23,
     <1>24, <1>25, <1>26, <1>27, <1>28, <1>29, <1>30, <1>31, <1>32
     DEF OpNext, CallStep, RunStep, ClientCall

\* The record of a thread with some of its fields changed.
LEMMA LocalsExcept ==
  ASSUME NEW l \in Locals
  PROVE  /\ \A f \in BOOLEAN : [l EXCEPT !.flag = f] \in Locals
         /\ \A q \in BOOLEAN : [l EXCEPT !.queued = q] \in Locals
         /\ \A a \in Returns : [l EXCEPT !.after = a] \in Locals
         /\ \A S \in SUBSET Ops : [l EXCEPT !.todo = S] \in Locals
         /\ \A S \in SUBSET Ops, r \in Seq(Ops) : [l EXCEPT !.todo = S, !.ready = r] \in Locals
         /\ \A o \in Ops, S \in SUBSET Ops : [l EXCEPT !.other = o, !.todo = S] \in Locals
         /\ \A r \in Seq(Ops), o \in Ops, a \in Returns :
              [l EXCEPT !.ready = r, !.subject = o, !.after = a] \in Locals
         /\ \A o, up \in Ops \cup {None}, a \in Returns :
              [l EXCEPT !.subject = o, !.other = up, !.after = a] \in Locals
<1> USE DEF Locals
<1>1. \A f \in BOOLEAN : [l EXCEPT !.flag = f] \in Locals
  OBVIOUS
<1>2. \A q \in BOOLEAN : [l EXCEPT !.queued = q] \in Locals
  OBVIOUS
<1>3. \A a \in Returns : [l EXCEPT !.after = a] \in Locals
  OBVIOUS
<1>4. \A S \in SUBSET Ops : [l EXCEPT !.todo = S] \in Locals
  OBVIOUS
<1>5. \A S \in SUBSET Ops, r \in Seq(Ops) : [l EXCEPT !.todo = S, !.ready = r] \in Locals
  OBVIOUS
<1>6. \A o \in Ops, S \in SUBSET Ops : [l EXCEPT !.other = o, !.todo = S] \in Locals
  OBVIOUS
<1>7. \A r \in Seq(Ops), o \in Ops, a \in Returns :
        [l EXCEPT !.ready = r, !.subject = o, !.after = a] \in Locals
  OBVIOUS
<1>8. \A o, up \in Ops \cup {None}, a \in Returns :
        [l EXCEPT !.subject = o, !.other = up, !.after = a] \in Locals
  OBVIOUS
<1>9. QED
  BY <1>1, <1>2, <1>3, <1>4, <1>5, <1>6, <1>7, <1>8

\* The record of a thread that enters a call.
LEMMA EnterLocals ==
  ASSUME local \in [Threads -> Locals], NEW t \in Threads,
         NEW o \in Ops \cup {None}, NEW up \in Ops \cup {None}, NEW a \in Returns, NEW label,
         Enter(t, o, up, a, label)
  PROVE  local' \in [Threads -> Locals]
<1>1. [local[t] EXCEPT !.subject = o, !.other = up, !.after = a] \in Locals
  BY LocalsExcept
<1>2. local' = [local EXCEPT ![t] = [local[t] EXCEPT !.subject = o, !.other = up, !.after = a]]
  BY DEF Enter
<1>3. QED
  BY <1>1, <1>2

\* The steps of Operation keep the type of the locals.
LEMMA LocalsNext == OpTypeOK /\ OpNext => local' \in [Threads -> Locals]
<1> SUFFICES ASSUME OpTypeOK, OpNext
             PROVE  local' \in [Threads -> Locals]
  OBVIOUS
<1>1. local \in [Threads -> Locals]
  BY DEF OpTypeOK
<1>2. Ops \subseteq Threads /\ Clients \subseteq Threads
  BY DEF Threads
<1>3. \A t \in Threads : /\ local[t].todo \in SUBSET Ops
                         /\ local[t].ready \in Seq(Ops)
  BY <1>1 DEF Locals
<1>4. "idle" \in Returns /\ "ready" \in Returns /\ "exit" \in Returns
  BY DEF Returns
<1>5. ASSUME NEW t \in Threads, TestReady(t)
      PROVE  local' \in [Threads -> Locals]
  <2>1. IsReady(local[t].subject) \in BOOLEAN
    BY DEF IsReady
  <2>2. QED
    BY <1>1, <1>5, <2>1, LocalsExcept DEF TestReady
<1>6. ASSUME NEW t \in Threads, FetchQueue(t)
      PROVE  local' \in [Threads -> Locals]
  BY <1>1, <1>6, LocalsExcept DEF FetchQueue
<1>7. ASSUME NEW o \in Ops, Detach(o)
      PROVE  local' \in [Threads -> Locals]
  <2>1. deps[o] \in SUBSET Ops
    BY DEF OpTypeOK
  <2>2. QED
    BY <1>1, <1>2, <1>7, <2>1, LocalsExcept DEF Detach
<1>8. ASSUME NEW o \in Ops, DetachUp(o)
      PROVE  local' \in [Threads -> Locals]
  <2>1. PICK up \in local[o].todo :
          local' = [local EXCEPT ![o].other = up, ![o].todo = @ \ {up}]
    BY <1>8 DEF DetachUp
  <2>2. up \in Ops /\ local[o].todo \ {up} \in SUBSET Ops
    BY <1>2, <1>3
  <2>3. QED
    BY <1>1, <1>2, <2>1, <2>2, LocalsExcept
<1>9. ASSUME NEW o \in Ops, Finish(o)
      PROVE  local' \in [Threads -> Locals]
  <2>1. downs[o] \in SUBSET Ops /\ <<>> \in Seq(Ops)
    BY DEF OpTypeOK
  <2>2. QED
    BY <1>1, <1>2, <1>9, <2>1, LocalsExcept DEF Finish
<1>10. ASSUME NEW o \in Ops, Notify(o)
       PROVE  local' \in [Threads -> Locals]
  <2>1. PICK d \in local[o].todo :
          local' = [local EXCEPT ![o].todo = @ \ {d},
                                 ![o].ready = IF unfinished[d] = 1 THEN Append(@, d) ELSE @]
    BY <1>10 DEF Notify
  <2>2. d \in Ops /\ local[o].todo \ {d} \in SUBSET Ops
    BY <1>2, <1>3
  <2>3. (IF unfinished[d] = 1 THEN Append(local[o].ready, d) ELSE local[o].ready) \in Seq(Ops)
    BY <1>2, <1>3, <2>2
  <2>4. QED
    BY <1>1, <1>2, <2>1, <2>2, <2>3, LocalsExcept
<1>11. ASSUME NEW o \in Ops, Finished(o)
       PROVE  local' \in [Threads -> Locals]
  <2>1. attached[o] \in BOOLEAN
    BY DEF OpTypeOK
  <2>2. QED
    BY <1>1, <1>2, <1>11, <2>1, LocalsExcept DEF Finished
<1>12. ASSUME NEW o \in Ops, Ready(o)
       PROVE  local' \in [Threads -> Locals]
  <2>1. Head(local[o].ready) \in Ops /\ Tail(local[o].ready) \in Seq(Ops)
    BY <1>2, <1>3, <1>12 DEF Ready
  <2>2. QED
    BY <1>1, <1>2, <1>4, <1>12, <2>1, LocalsExcept DEF Ready
<1>13. ASSUME NEW o \in Ops, Broadcast(o)
       PROVE  local' \in [Threads -> Locals]
  BY <1>1, <1>2, <1>4, <1>13, LocalsExcept DEF Broadcast
<1>14. ASSUME NEW c \in Clients, ClientCall(c)
       PROVE  local' \in [Threads -> Locals]
  <2> USE <1>1, <1>2, <1>4, EnterLocals
  <2>1. ASSUME NEW o \in Ops, NEW up \in Ops, AddDependency(c, o, up)
        PROVE  local' \in [Threads -> Locals]
    BY <2>1 DEF AddDependency
  <2>2. ASSUME NEW o \in Ops, NEW up \in Ops, RemoveDependency(c, o, up)
        PROVE  local' \in [Threads -> Locals]
    BY <2>2 DEF RemoveDependency
  <2>3. ASSUME NEW o \in Ops, Cancel(c, o)
        PROVE  local' \in [Threads -> Locals]
    BY <2>3 DEF Cancel
  <2>4. ASSUME NEW o \in Ops, Start(c, o)
        PROVE  local' \in [Threads -> Locals]
    BY <2>4 DEF Start
  <2>5. ASSUME NEW o \in Ops, WaitUntilFinished(c, o)
        PROVE  local' \in [Threads -> Locals]
    BY <2>5 DEF WaitUntilFinished
  <2>6. QED
    BY <1>14, <2>1, <2>2, <2>3, <2>4, <2>5 DEF ClientCall
<1>15. ASSUME NEW t \in Threads,
              \/ SetReady(t) \/ AppendDependency(t) \/ LockUp(t) \/ LinkSelf(t)
              \/ Find(t) \/ UnlinkSelf(t) \/ CancelUnlessFinished(t) \/ MarkCancelled(t)
              \/ TestExecuting(t) \/ ClearCount(t) \/ Wait(t) \/ SpuriousWakeup(t)
       PROVE  local' = local
  BY <1>15 DEF SetReady, AppendDependency, LockUp, LinkSelf, Find, UnlinkSelf,
     CancelUnlessFinished, MarkCancelled, TestExecuting, ClearCount, Wait, SpuriousWakeup
<1>16. ASSUME NEW o \in Ops,
              \/ CheckReady(o) \/ Begin(o) \/ Execute(o) \/ Main(o) \/ DetachSelf(o)
              \/ Finishing(o)
       PROVE  local' = local
  BY <1>16 DEF CheckReady, Begin, Execute, Main, DetachSelf, Finishing
<1>17. QED
  BY <1>1, <1>5, <1>6, <1>7, <1>8, <1>9, <1>10, <1>11, <1>12, <1>13, <1>14, <1>15, <1>16
  DEF OpNext, CallStep, RunStep

\* The steps of Operation keep the counts integers.
LEMMA UnfinishedNext == OpTypeOK /\ OpNext => unfinished' \in [Ops -> Int]
<1> SUFFICES ASSUME OpTypeOK, OpNext
             PROVE  unfinished' \in [Ops -> Int]
  OBVIOUS
<1>1. unfinished \in [Ops -> Int]
  BY DEF OpTypeOK
<1>2. \A n \in Int, b \in BOOLEAN : /\ (IF b THEN n + 1 ELSE n) \in Int
                                    /\ (IF b THEN n - 1 ELSE n) \in Int
  OBVIOUS
<1>3. ASSUME NEW t \in Threads, LinkSelf(t)
      PROVE  unfinished' \in [Ops -> Int]
  <2>1. PICK b \in BOOLEAN :
          unfinished' = [unfinished EXCEPT ![local[t].subject] = IF b THEN @ + 1 ELSE @]
    BY <1>3 DEF LinkSelf, Counts
  <2>2. QED
    BY <1>1, <1>2, <2>1
<1>4. ASSUME NEW t \in Threads, UnlinkSelf(t)
      PROVE  unfinished' \in [Ops -> Int]
  <2>1. PICK b \in BOOLEAN :
          unfinished' = [unfinished EXCEPT ![local[t].subject] = IF b THEN @ - 1 ELSE @]
    BY <1>4 DEF UnlinkSelf
  <2>2. QED
    BY <1>1, <1>2, <2>1
<1>5. ASSUME NEW t \in Threads, ClearCount(t)
      PROVE  unfinished' \in [Ops -> Int]
  <2>1. \A n \in Int : [unfinished EXCEPT ![local[t].subject] = n] \in [Ops -> Int]
    BY <1>1
  <2>2. 0 \in Int
    OBVIOUS
  <2>3. QED
    BY <1>5, <2>1, <2>2 DEF ClearCount
<1>6. ASSUME NEW o \in Ops, DetachSelf(o)
      PROVE  unfinished' \in [Ops -> Int]
  <2>1. PICK b \in BOOLEAN : unfinished' = [unfinished EXCEPT ![o] = IF b THEN @ - 1 ELSE @]
    BY <1>6 DEF DetachSelf, Counts
  <2>2. QED
    BY <1>1, <1>2, <2>1
<1>7. ASSUME NEW o \in Ops, Notify(o)
      PROVE  unfinished' \in [Ops -> Int]
  <2>1. PICK d : unfinished' = [unfinished EXCEPT ![d] = Lowered(@)]
    BY <1>7 DEF Notify
  <2>2. \A n \in Int : Lowered(n) \in Int
    BY DEF Lowered
  <2>3. QED
    BY <1>1, <2>1, <2>2
<1>8. ASSUME NEW o \in Ops, Ready(o)
      PROVE  unfinished' \in [Ops -> Int]
  <2>1. PICK d : unfinished' = [unfinished EXCEPT ![d] = IF @ >= 1 THEN @ - 1 ELSE @]
    BY <1>8 DEF Ready
  <2>2. \A n \in Int : (IF n >= 1 THEN n - 1 ELSE n) \in Int
    OBVIOUS
  <2>3. QED
    BY <1>1, <2>1, <2>2
<1>9. ASSUME NEW t \in Threads,
             \/ TestReady(t) \/ SetReady(t) \/ FetchQueue(t) \/ AppendDependency(t)
             \/ LockUp(t) \/ Find(t) \/ CancelUnlessFinished(t) \/ MarkCancelled(t)
             \/ TestExecuting(t) \/ Wait(t) \/ SpuriousWakeup(t)
      PROVE  unfinished' = unfinished
  BY <1>9 DEF TestReady, SetReady, FetchQueue, AppendDependency, LockUp, Find,
     CancelUnlessFinished, MarkCancelled, TestExecuting, Wait, SpuriousWakeup, graph
<1>10. ASSUME NEW o \in Ops,
              \/ CheckReady(o) \/ Begin(o) \/ Execute(o) \/ Main(o) \/ Detach(o)
              \/ DetachUp(o) \/ Finishing(o) \/ Finish(o) \/ Finished(o) \/ Broadcast(o)
       PROVE  unfinished' = unfinished
  BY <1>10 DEF CheckReady, Begin, Execute, Main, Detach, DetachUp, Finishing, Finish,
     Finished, Broadcast, graph
<1>11. ASSUME NEW c \in Clients, ClientCall(c)
       PROVE  unfinished' = unfinished
  BY <1>11 DEF ClientCall, AddDependency, RemoveDependency, Cancel, Start,
     WaitUntilFinished, graph
<1>12. QED
  BY <1>1, <1>3, <1>4, <1>5, <1>6, <1>7, <1>8, <1>9, <1>10, <1>11
  DEF OpNext, CallStep, RunStep

\* The steps of Operation keep the types of the fields.
LEMMA FieldTypesNext == OpInv /\ OpNext => FieldTypes'
<1> USE DEF OpInv, OpTypeOK, Subjects, FieldTypes, Threads, graph, status, Calls
<1> SUFFICES ASSUME OpInv, OpNext
             PROVE  FieldTypes'
  OBVIOUS
<1>1. ASSUME NEW t \in Threads, TestReady(t)
      PROVE  FieldTypes'
  BY <1>1 DEF TestReady
<1>2. ASSUME NEW t \in Threads, SetReady(t)
      PROVE  FieldTypes'
  BY <1>2 DEF SetReady, Locals
<1>3. ASSUME NEW t \in Threads, FetchQueue(t)
      PROVE  FieldTypes'
  BY <1>3 DEF FetchQueue
<1>4. ASSUME NEW t \in Threads, AppendDependency(t)
      PROVE  FieldTypes'
  BY <1>4 DEF AppendDependency
<1>5. ASSUME NEW t \in Threads, LockUp(t)
      PROVE  FieldTypes'
  BY <1>5 DEF LockUp
<1>6. ASSUME NEW t \in Threads, LinkSelf(t)
      PROVE  FieldTypes'
  BY <1>6 DEF LinkSelf, Unlock
<1>7. ASSUME NEW t \in Threads, Find(t)
      PROVE  FieldTypes'
  BY <1>7 DEF Find
<1>8. ASSUME NEW t \in Threads, UnlinkSelf(t)
      PROVE  FieldTypes'
  BY <1>8 DEF UnlinkSelf, Unlock
<1>9. ASSUME NEW t \in Threads, CancelUnlessFinished(t)
      PROVE  FieldTypes'
  BY <1>9 DEF CancelUnlessFinished
<1>10. ASSUME NEW t \in Threads, MarkCancelled(t)
       PROVE  FieldTypes'
  BY <1>10 DEF MarkCancelled
<1>11. ASSUME NEW t \in Threads, TestExecuting(t)
       PROVE  FieldTypes'
  BY <1>11 DEF TestExecuting
<1>12. ASSUME NEW t \in Threads, ClearCount(t)
       PROVE  FieldTypes'
  BY <1>12 DEF ClearCount
<1>13. ASSUME NEW t \in Threads, Wait(t)
       PROVE  FieldTypes'
  BY <1>13 DEF Wait
<1>14. ASSUME NEW t \in Threads, SpuriousWakeup(t)
       PROVE  FieldTypes'
  BY <1>14 DEF SpuriousWakeup
<1>15. ASSUME NEW o \in Ops, CheckReady(o)
       PROVE  FieldTypes'
  BY <1>15 DEF CheckReady
<1>16. ASSUME NEW o \in Ops, Begin(o)
       PROVE  FieldTypes'
  BY <1>16 DEF Begin
<1>17. ASSUME NEW o \in Ops, Execute(o)
       PROVE  FieldTypes'
  BY <1>17 DEF Execute, Rank
<1>18. ASSUME NEW o \in Ops, Main(o)
       PROVE  FieldTypes'
  BY <1>18 DEF Main
<1>19. ASSUME NEW o \in Ops, Detach(o)
       PROVE  FieldTypes'
  BY <1>19 DEF Detach
<1>20. ASSUME NEW o \in Ops, DetachUp(o)
       PROVE  FieldTypes'
  <2>1. opLock \in [Ops -> Threads \cup {None}]
    BY DEF OpTypeOK
  <2>2. opLock' \in [Ops -> Threads \cup {None}]
    BY <1>20, <2>1 DEF DetachUp
  <2>3. QED
    BY <1>20, <2>2 DEF OpInv, OpTypeOK, DetachUp
<1>21. ASSUME NEW o \in Ops, DetachSelf(o)
       PROVE  FieldTypes'
  BY <1>21 DEF DetachSelf, Unlock
<1>22. ASSUME NEW o \in Ops, Finishing(o)
       PROVE  FieldTypes'
  BY <1>22 DEF Finishing, Rank
<1>23. ASSUME NEW o \in Ops, Finish(o)
       PROVE  FieldTypes'
  BY <1>23 DEF Finish
<1>24. ASSUME NEW o \in Ops, Notify(o)
       PROVE  FieldTypes'
  BY <1>24 DEF Notify, Lowered
<1>25. ASSUME NEW o \in Ops, Finished(o)
       PROVE  FieldTypes'
  BY <1>25 DEF Finished, Unlock, Rank
<1>26. ASSUME NEW o \in Ops, Ready(o)
       PROVE  FieldTypes'
  BY <1>26 DEF Ready
<1>27. ASSUME NEW o \in Ops, Broadcast(o)
       PROVE  FieldTypes'
  BY <1>27 DEF Broadcast
<1>28. ASSUME NEW c \in Clients, NEW o \in Ops, NEW up \in Ops, AddDependency(c, o, up)
       PROVE  FieldTypes'
  BY <1>28 DEF AddDependency
<1>29. ASSUME NEW c \in Clients, NEW o \in Ops, NEW up \in Ops, RemoveDependency(c, o, up)
       PROVE  FieldTypes'
  BY <1>29 DEF RemoveDependency
<1>30. ASSUME NEW c \in Clients, NEW o \in Ops, Cancel(c, o)
       PROVE  FieldTypes'
  BY <1>30 DEF Cancel
<1>31. ASSUME NEW c \in Clients, NEW o \in Ops, Start(c, o)
       PROVE  FieldTypes'
  BY <1>31 DEF Start, Rank
<1>32. ASSUME NEW c \in Clients, NEW o \in Ops, WaitUntilFinished(c, o)
       PROVE  FieldTypes'
  BY <1>32 DEF WaitUntilFinished
<1>33. QED
  BY <1>1, <1>2, <1>3, <1>4, <1>5, <1>6, <1>7, <1>8, <1>9, <1>10, <1>11, <1>12,
     <1>13, <1>14, <1>15, <1>16, <1>17, <1>18, <1>19, <1>20, <1>21, <1>22, <1>23,
     <1>24, <1>25, <1>26, <1>27, <1>28, <1>29, <1>30, <1>31, <1>32
     DEF OpNext, CallStep, RunStep, ClientCall

\* The steps of Operation keep the subjects.
LEMMA SubjectsNext == OpInv /\ OpNext => Subjects'
<1> USE DEF OpInv, OpTypeOK, Subjects, Locals, Returns, Threads, Goto, Enter
<1> SUFFICES ASSUME OpInv, OpNext
             PROVE  Subjects'
  OBVIOUS
<1>1. ASSUME NEW t \in Threads, TestReady(t)
      PROVE  Subjects'
  BY <1>1 DEF TestReady
<1>2. ASSUME NEW t \in Threads, SetReady(t)
      PROVE  Subjects'
  BY <1>2 DEF SetReady
<1>3. ASSUME NEW t \in Threads, FetchQueue(t)
      PROVE  Subjects'
  BY <1>3 DEF FetchQueue
<1>4. ASSUME NEW t \in Threads, AppendDependency(t)
      PROVE  Subjects'
  BY <1>4 DEF AppendDependency
<1>5. ASSUME NEW t \in Threads, LockUp(t)
      PROVE  Subjects'
  BY <1>5 DEF LockUp
<1>6. ASSUME NEW t \in Threads, LinkSelf(t)
      PROVE  Subjects'
  BY <1>6 DEF LinkSelf
<1>7. ASSUME NEW t \in Threads, Find(t)
      PROVE  Subjects'
  BY <1>7 DEF Find
<1>8. ASSUME NEW t \in Threads, UnlinkSelf(t)
      PROVE  Subjects'
  BY <1>8 DEF UnlinkSelf
<1>9. ASSUME NEW t \in Threads, CancelUnlessFinished(t)
      PROVE  Subjects'
  BY <1>9 DEF CancelUnlessFinished, Return
<1>10. ASSUME NEW t \in Threads, MarkCancelled(t)
       PROVE  Subjects'
  BY <1>10 DEF MarkCancelled
<1>11. ASSUME NEW t \in Threads, TestExecuting(t)
       PROVE  Subjects'
  BY <1>11 DEF TestExecuting, Return
<1>12. ASSUME NEW t \in Threads, ClearCount(t)
       PROVE  Subjects'
  BY <1>12 DEF ClearCount
<1>13. ASSUME NEW t \in Threads, Wait(t)
       PROVE  Subjects'
  BY <1>13 DEF Wait, Return
<1>14. ASSUME NEW t \in Threads, SpuriousWakeup(t)
       PROVE  Subjects'
  BY <1>14 DEF SpuriousWakeup
<1>15. ASSUME NEW o \in Ops, CheckReady(o)
       PROVE  Subjects'
  BY <1>15 DEF CheckReady
<1>16. ASSUME NEW o \in Ops, Begin(o)
       PROVE  Subjects'
  BY <1>16 DEF Begin
<1>17. ASSUME NEW o \in Ops, Execute(o)
       PROVE  Subjects'
  BY <1>17 DEF Execute
<1>18. ASSUME NEW o \in Ops, Main(o)
       PROVE  Subjects'
  BY <1>18 DEF Main
<1>19. ASSUME NEW o \in Ops, Detach(o)
       PROVE  Subjects'
  BY <1>19 DEF Detach
<1>20. ASSUME NEW o \in Ops, DetachUp(o)
       PROVE  Subjects'
  BY <1>20 DEF DetachUp
<1>21. ASSUME NEW o \in Ops, DetachSelf(o)
       PROVE  Subjects'
  BY <1>21 DEF DetachSelf
<1>22. ASSUME NEW o \in Ops, Finishing(o)
       PROVE  Subjects'
  BY <1>22 DEF Finishing
<1>23. ASSUME NEW o \in Ops, Finish(o)
       PROVE  Subjects'
  BY <1>23 DEF Finish
<1>24. ASSUME NEW o \in Ops, Notify(o)
       PROVE  Subjects'
  BY <1>24 DEF Notify
<1>25. ASSUME NEW o \in Ops, Finished(o)
       PROVE  Subjects'
  BY <1>25 DEF Finished
<1>26. ASSUME NEW o \in Ops, Ready(o)
       PROVE  Subjects'
  BY <1>26 DEF Ready
<1>27. ASSUME NEW o \in Ops, Broadcast(o)
       PROVE  Subjects'
  BY <1>27 DEF Broadcast, Woken
<1>28. ASSUME NEW c \in Clients, NEW o \in Ops, NEW up \in Ops, AddDependency(c, o, up)
       PROVE  Subjects'
  BY <1>28 DEF AddDependency
<1>29. ASSUME NEW c \in Clients, NEW o \in Ops, NEW up \in Ops, RemoveDependency(c, o, up)
       PROVE  Subjects'
  BY <1>29 DEF RemoveDependency
<1>30. ASSUME NEW c \in Clients, NEW o \in Ops, Cancel(c, o)
       PROVE  Subjects'
  BY <1>30 DEF Cancel
<1>31. ASSUME NEW c \in Clients, NEW o \in Ops, Start(c, o)
       PROVE  Subjects'
  BY <1>31 DEF Start
<1>32. ASSUME NEW c \in Clients, NEW o \in Ops, WaitUntilFinished(c, o)
       PROVE  Subjects'
  BY <1>32 DEF WaitUntilFinished
<1>33. QED
  BY <1>1, <1>2, <1>3, <1>4, <1>5, <1>6, <1>7, <1>8, <1>9, <1>10, <1>11, <1>12,
     <1>13, <1>14, <1>15, <1>16, <1>17, <1>18, <1>19, <1>20, <1>21, <1>22, <1>23,
     <1>24, <1>25, <1>26, <1>27, <1>28, <1>29, <1>30, <1>31, <1>32
     DEF OpNext, CallStep, RunStep, ClientCall

\* Every step keeps the inductive invariant.
LEMMA OpInvNext == OpInv /\ [OpNext]_opVars => OpInv'
<1> SUFFICES ASSUME OpInv, [OpNext]_opVars
             PROVE  OpInv'
  OBVIOUS
<1>1. CASE OpNext
  <2>1. pc' \in [Threads -> Labels]
    <3>1. \A t \in Threads : pc[t] \in Labels /\ local[t].after \in Labels
      BY DEF OpInv, OpTypeOK, Locals, Returns, Labels, CallLabels, RunLabels, QueueLabels
    <3>2. OpMoves
      BY <1>1, OpNextMoves DEF OpInv
    <3>3. CallLabels \cup RunLabels \cup {"schedule", "retire"} \subseteq Labels
      BY DEF Labels, QueueLabels
    <3>4. \A t \in Threads : pc'[t] \in Labels
      BY <3>1, <3>2, <3>3 DEF OpMoves
    <3>5. QED
      BY <3>2, <3>4 DEF OpMoves
  <2>2. QED
    BY <1>1, <2>1, LocalsNext, FieldTypesNext, UnfinishedNext, SubjectsNext DEF OpInv, OpTypeOK, FieldTypes
<1>2. CASE UNCHANGED opVars
  BY <1>2 DEF opVars, graph, status, OpInv, OpTypeOK, Subjects
<1>3. QED
  BY <1>1, <1>2

\* Every step keeps a broadcast to come for those who sleep.
LEMMA NoSleeperForgottenNext ==
  OpInv /\ NoSleeperForgotten /\ [OpNext]_opVars => NoSleeperForgotten'
<1> SUFFICES ASSUME OpInv, NoSleeperForgotten, [OpNext]_opVars, NEW u \in Clients,
                    pc'[u] = "asleep", IsFinished(local[u].subject)'
             PROVE  Awaited(u)'
  BY DEF NoSleeperForgotten, Awaited
<1>1. pc \in [Threads -> Labels] /\ local \in [Threads -> Locals]
  BY DEF OpInv, OpTypeOK
<1>2. \A t \in Threads : local[t].after \in Returns
  BY <1>1 DEF Locals
<1>3. u \in Threads /\ Ops \subseteq Threads /\ Clients \subseteq Threads /\ Ops \cap Clients = {}
  BY OperationConstants DEF Threads
<1>4. pc[u] \in {"wait", "asleep"} => local[u].subject \in Ops
  BY <1>3 DEF OpInv, Subjects
<1>5. pc[u] = "asleep" /\ IsFinished(local[u].subject) => Awaited(u)
  BY DEF NoSleeperForgotten, Awaited
<1> USE <1>1, <1>2, <1>3, <1>4, <1>5
    DEF Awaited, IsFinished, Goto, Returns, graph, status
<1>6. ASSUME NEW t \in Threads, TestReady(t)
      PROVE  Awaited(u)'
  BY <1>6 DEF TestReady, Locals
<1>7. ASSUME NEW t \in Threads, SetReady(t)
      PROVE  Awaited(u)'
  BY <1>7 DEF SetReady
<1>8. ASSUME NEW t \in Threads, FetchQueue(t)
      PROVE  Awaited(u)'
  <2>1. \A v \in Threads : local'[v].subject = local[v].subject /\ local'[v].after = local[v].after
    BY <1>1, <1>8 DEF FetchQueue, Locals
  <2>2. pc'[t] # "asleep" /\ \A v \in Threads : v # t => pc'[v] = pc[v]
    BY <1>1, <1>2, <1>8 DEF FetchQueue
  <2>3. u # t /\ pc[u] = "asleep" /\ local[u].subject \in Ops
    BY <1>3, <1>4, <2>2
  <2>4. local'[u].subject = local[u].subject /\ IsFinished(local[u].subject)
    BY <1>3, <1>8, <2>1 DEF FetchQueue
  <2>5. Awaited(u)
    BY <1>5, <2>3, <2>4
  <2>6. local[u].subject \in Threads /\ pc[t] = "fetchQueue"
    BY <1>3, <1>8, <2>3 DEF FetchQueue
  <2>7. QED
    BY <2>1, <2>2, <2>4, <2>5, <2>6
<1>9. ASSUME NEW t \in Threads, AppendDependency(t)
      PROVE  Awaited(u)'
  BY <1>9 DEF AppendDependency
<1>10. ASSUME NEW t \in Threads, LockUp(t)
       PROVE  Awaited(u)'
  BY <1>10 DEF LockUp
<1>11. ASSUME NEW t \in Threads, LinkSelf(t)
       PROVE  Awaited(u)'
  BY <1>11 DEF LinkSelf
<1>12. ASSUME NEW t \in Threads, Find(t)
       PROVE  Awaited(u)'
  BY <1>12 DEF Find
<1>13. ASSUME NEW t \in Threads, UnlinkSelf(t)
       PROVE  Awaited(u)'
  BY <1>13 DEF UnlinkSelf
<1>14. ASSUME NEW t \in Threads, CancelUnlessFinished(t)
       PROVE  Awaited(u)'
  BY <1>14 DEF CancelUnlessFinished, Return
<1>15. ASSUME NEW t \in Threads, MarkCancelled(t)
       PROVE  Awaited(u)'
  BY <1>15 DEF MarkCancelled
<1>16. ASSUME NEW t \in Threads, TestExecuting(t)
       PROVE  Awaited(u)'
  BY <1>16 DEF TestExecuting, Return
<1>17. ASSUME NEW t \in Threads, ClearCount(t)
       PROVE  Awaited(u)'
  BY <1>17 DEF ClearCount
<1>18. ASSUME NEW t \in Threads, Wait(t)
       PROVE  Awaited(u)'
  BY <1>18 DEF Wait, Return
<1>19. ASSUME NEW t \in Threads, SpuriousWakeup(t)
       PROVE  Awaited(u)'
  BY <1>19 DEF SpuriousWakeup
<1>20. ASSUME NEW o \in Ops, CheckReady(o)
       PROVE  Awaited(u)'
  BY <1>20 DEF CheckReady
<1>21. ASSUME NEW o \in Ops, Begin(o)
       PROVE  Awaited(u)'
  BY <1>21 DEF Begin
<1>22. ASSUME NEW o \in Ops, Execute(o)
       PROVE  Awaited(u)'
  BY <1>22 DEF Execute, Rank
<1>23. ASSUME NEW o \in Ops, Main(o)
       PROVE  Awaited(u)'
  BY <1>23 DEF Main
<1>24. ASSUME NEW o \in Ops, Detach(o)
       PROVE  Awaited(u)'
  BY <1>24 DEF Detach, Locals
<1>25. ASSUME NEW o \in Ops, DetachUp(o)
       PROVE  Awaited(u)'
  BY <1>25 DEF DetachUp, Locals
<1>26. ASSUME NEW o \in Ops, DetachSelf(o)
       PROVE  Awaited(u)'
  BY <1>26 DEF DetachSelf
<1>27. ASSUME NEW o \in Ops, Finishing(o)
       PROVE  Awaited(u)'
  BY <1>27 DEF Finishing
<1>28. ASSUME NEW o \in Ops, Finish(o)
       PROVE  Awaited(u)'
  BY <1>28 DEF Finish, Locals
<1>29. ASSUME NEW o \in Ops, Notify(o)
       PROVE  Awaited(u)'
  BY <1>29 DEF Notify, Locals
<1>30. ASSUME NEW o \in Ops, Finished(o)
       PROVE  Awaited(u)'
  <2>1. PICK q : local' = [local EXCEPT ![o].queued = q]
    BY <1>30 DEF Finished
  <2>2. \A x \in Threads : /\ local'[x].subject = local[x].subject
                            /\ local'[x].after = local[x].after
    BY <2>1 DEF Locals
  <2>3. /\ pc' = [pc EXCEPT ![o] = "ready"]
       /\ state' = [state EXCEPT ![o] = "finished"]
    BY <1>30 DEF Finished
  <2>4. local[u].subject # o => state'[local[u].subject] = state[local[u].subject]
    BY <2>3 DEF OpInv, OpTypeOK
  <2>5. QED
    BY <2>2, <2>3, <2>4
<1>31. ASSUME NEW o \in Ops, Ready(o)
       PROVE  Awaited(u)'
  <2>1. PICK d, r : local' = [local EXCEPT ![o].ready = r, ![o].subject = d, ![o].after = "ready"]
    BY <1>31 DEF Ready
  <2>5. local'[o].after = "ready" /\ \A x \in Threads : x # o => local'[x] = local[x]
    BY <2>1 DEF Locals
  <2>2. pc' = [pc EXCEPT ![o] = "testReady"] /\ state' = state
    BY <1>31 DEF Ready
  <2>3. u # o
    OBVIOUS
  <2>4. QED
    BY <2>2, <2>3, <2>5
<1>32. ASSUME NEW o \in Ops, Broadcast(o)
       PROVE  Awaited(u)'
  BY <1>32 DEF Broadcast, Woken, Locals
<1>33. ASSUME NEW c \in Clients, NEW o \in Ops, NEW up \in Ops, AddDependency(c, o, up)
       PROVE  Awaited(u)'
  BY <1>33 DEF AddDependency, Enter, Locals
<1>34. ASSUME NEW c \in Clients, NEW o \in Ops, NEW up \in Ops, RemoveDependency(c, o, up)
       PROVE  Awaited(u)'
  BY <1>34 DEF RemoveDependency, Enter, Locals
<1>35. ASSUME NEW c \in Clients, NEW o \in Ops, Cancel(c, o)
       PROVE  Awaited(u)'
  BY <1>35 DEF Cancel, Enter, Locals
<1>36. ASSUME NEW c \in Clients, NEW o \in Ops, Start(c, o)
       PROVE  Awaited(u)'
  BY <1>36 DEF Start, Rank, Calls
<1>37. ASSUME NEW c \in Clients, NEW o \in Ops, WaitUntilFinished(c, o)
       PROVE  Awaited(u)'
  BY <1>37 DEF WaitUntilFinished, Enter, Locals
<1>38. CASE UNCHANGED opVars
  BY <1>38 DEF opVars
<1>39. QED
  BY <1>6, <1>7, <1>8, <1>9, <1>10, <1>11, <1>12, <1>13, <1>14, <1>15, <1>16,
     <1>17, <1>18, <1>19, <1>20, <1>21, <1>22, <1>23, <1>24, <1>25, <1>26, <1>27,
     <1>28, <1>29, <1>30, <1>31, <1>32, <1>33, <1>34, <1>35, <1>36, <1>37, <1>38
     DEF OpNext, CallStep, RunStep, ClientCall

\* The inductive invariant holds of every behaviour.
LEMMA OpInvAlways == OpSpec => []OpInv
  BY OpInvInit, OpInvNext, PTL DEF OpSpec

\* The fields of operations and threads keep their types, whatever calls the
\* clients make.
THEOREM OperationTypeOK == OpSpec => []OpTypeOK
<1>1. OpInv => OpTypeOK
  BY DEF OpInv
<1>2. QED
  BY <1>1, OpInvAlways, PTL

\* A thread in waitUntilFinished never sleeps through the one broadcast that the
\* operation makes, whatever calls the clients make and however often it is woken
\* before.
THEOREM OperationNoSleeperForgotten == OpSpec => []NoSleeperForgotten
<1>1. OpInit => NoSleeperForgotten
  BY DEF OpInit, NoSleeperForgotten, Threads
<1>2. QED
  BY <1>1, OpInvAlways, NoSleeperForgottenNext, PTL DEF OpSpec

-----------------------------------------------------------------------------
(* The counts of unfinished dependencies.                                   *)

\* The programs do not remove dependencies (section 5 of README.md says what that
\* does to the count), and only the queue adds some to its barriers.
LinksOnly ==
  \A c \in Clients : \A i \in DOMAIN Program[c] : \A o, up \in Ops :
    /\ <<"removeDependency", o, up>> \notin Program[c][i]
    /\ o \in Barriers => <<"addDependency", o, up>> \notin Program[c][i]

\* Where the thread of an operation may be once it has finished, and before.
OverLabels == {"ready", "testReady", "setReady", "fetchQueue", "schedule", "done", "retire"}
TodoLabels == {"idle", "checkReady", "begin", "execute", "main", "detach", "detachNext",
               "finishing", "finish", "notify", "fatal"}

\* The dependents o has found to be waiting for it alone.
Noted(o) == {local[o].ready[i] : i \in DOMAIN local[o].ready}

\* The thread of o, which keeps o locked while it notifies, and tells no dependent twice.
Phase(o) ==
  /\ pc[o] \in IF state[o] = "finished" THEN OverLabels ELSE TodoLabels
  /\ pc[o] \in {"testReady", "setReady", "fetchQueue"} => local[o].after = "ready"
  /\ pc[o] = "notify" => opLock[o] = o /\ downs[o] = {} /\ local[o].todo \cap Noted(o) = {}
  /\ state[o] # "finished" /\ pc[o] # "notify" => local[o].ready = <<>>
  /\ \A i, j \in DOMAIN local[o].ready : local[o].ready[i] = local[o].ready[j] => i = j
  /\ pc[o] = "detach" => o \in Barriers
  /\ pc[o] = "detachNext" => local[o].todo = {}

\* A thread in a call: it cuts no link, links no barrier, has cancelled what it clears
\* the count of, and holds the lock of the dependency it links.
Called(t) ==
  /\ pc[t] \notin {"find", "unlinkUp", "unlinkSelf", "detachSelf"}
  /\ pc[t] \in {"cancel", "markCancelled", "testExecuting", "clearCount"} => local[t].subject \in Ops
  /\ pc[t] \in {"testExecuting", "clearCount"} => cancelled[local[t].subject]
  /\ pc[t] \in {"append", "linkUp", "linkSelf"} => local[t].subject \notin Barriers
  /\ pc[t] = "linkSelf" => opLock[local[t].other] = t

\* A thread has listed a dependency, and is about to count it.
Links(t) == pc[t] \in {"linkUp", "linkSelf"}

\* Each dependency is counted by one thread, once.
Linkage ==
  /\ \A o \in Ops : Owing(o) \subseteq deps[o]
  /\ \A o \in Barriers : deps[o] = {}
  /\ \A t \in Threads : Links(t) => /\ local[t].other \in deps[local[t].subject]
                                    /\ local[t].other \notin Owing(local[t].subject)
  /\ \A t, u \in Threads : Links(t) /\ Links(u) /\ t # u =>
        local[t].subject # local[u].subject \/ local[t].other # local[u].other

Phases == \A o \in Ops : Phase(o)
Calling == \A t \in Threads : Called(t)
NoneNegative == \A o \in Ops : unfinished[o] >= 0

\* The invariants that the steps keep: of the links, and of the counts.
LinkInv ==
  /\ OpInv
  /\ Phases
  /\ Calling
  /\ Linkage

OwedInv ==
  /\ LinkInv
  /\ NoneNegative
  /\ CountIsOwed


\* The steps keep the places of threads in calls.
LEMMA CalledNext == LinksOnly /\ OpInv /\ Phases /\ Calling /\ OpNext => Calling'
<1> SUFFICES ASSUME LinksOnly, OpInv, Phases, Calling, OpNext, NEW x \in Threads
             PROVE  Called(x)'
  BY DEF Calling
<1>1. pc \in [Threads -> Labels] /\ local \in [Threads -> Locals]
  BY DEF OpInv, OpTypeOK
<1>2. opLock \in [Ops -> Threads \cup {None}] /\ cancelled \in [Ops -> BOOLEAN]
  BY DEF OpInv, OpTypeOK
<1>3. \A t \in Threads : local[t].after \in Returns
  BY <1>1 DEF Locals
<1>4. Ops \subseteq Threads /\ Clients \subseteq Threads /\ Ops \cap Clients = {} /\ None \notin Threads
  BY OperationConstants DEF Threads
<1>5. \A t \in Threads : Called(t)
  BY DEF Calling
<1>6. \A t \in Threads : pc[t] \in {"append", "linkUp", "linkSelf"} =>
                           local[t].subject \in Ops /\ local[t].other \in Ops
  BY DEF OpInv, Subjects
<1>7. \A o \in Ops : /\ pc[o] = "notify" => opLock[o] = o
                     /\ pc[o] = "detachNext" => local[o].todo = {}
  BY DEF Phases, Phase
<1> USE <1>1, <1>2, <1>3, <1>4, <1>5, <1>6, <1>7 DEF Called, Goto, Returns, graph, status
<1>8. ASSUME NEW t \in Threads, TestReady(t)
      PROVE  Called(x)'
  BY <1>8 DEF TestReady, Locals
<1>9. ASSUME NEW t \in Threads, SetReady(t)
      PROVE  Called(x)'
  BY <1>9 DEF SetReady
<1>10. ASSUME NEW t \in Threads, FetchQueue(t)
       PROVE  Called(x)'
  BY <1>10 DEF FetchQueue, Locals
<1>11. ASSUME NEW t \in Threads, AppendDependency(t)
       PROVE  Called(x)'
  BY <1>11 DEF AppendDependency
<1>12. ASSUME NEW t \in Threads, LockUp(t)
       PROVE  Called(x)'
  BY <1>12 DEF LockUp, Free
<1>13. ASSUME NEW t \in Threads, LinkSelf(t)
       PROVE  Called(x)'
  BY <1>13 DEF LinkSelf, Unlock, Free
<1>14. ASSUME NEW t \in Threads, Find(t)
       PROVE  Called(x)'
  BY <1>14 DEF Find
<1>15. ASSUME NEW t \in Threads, UnlinkSelf(t)
       PROVE  Called(x)'
  BY <1>15 DEF UnlinkSelf, Unlock, Free
<1>16. ASSUME NEW t \in Threads, CancelUnlessFinished(t)
       PROVE  Called(x)'
  BY <1>16 DEF CancelUnlessFinished, Return
<1>17. ASSUME NEW t \in Threads, MarkCancelled(t)
       PROVE  Called(x)'
  BY <1>17 DEF MarkCancelled
<1>18. ASSUME NEW t \in Threads, TestExecuting(t)
       PROVE  Called(x)'
  BY <1>18 DEF TestExecuting, Return
<1>19. ASSUME NEW t \in Threads, ClearCount(t)
       PROVE  Called(x)'
  BY <1>19 DEF ClearCount
<1>20. ASSUME NEW t \in Threads, Wait(t)
       PROVE  Called(x)'
  BY <1>20 DEF Wait, Return
<1>21. ASSUME NEW t \in Threads, SpuriousWakeup(t)
       PROVE  Called(x)'
  BY <1>21 DEF SpuriousWakeup
<1>22. ASSUME NEW o \in Ops, CheckReady(o)
       PROVE  Called(x)'
  BY <1>22 DEF CheckReady
<1>23. ASSUME NEW o \in Ops, Begin(o)
       PROVE  Called(x)'
  BY <1>23 DEF Begin
<1>24. ASSUME NEW o \in Ops, Execute(o)
       PROVE  Called(x)'
  BY <1>24 DEF Execute
<1>25. ASSUME NEW o \in Ops, Main(o)
       PROVE  Called(x)'
  BY <1>25 DEF Main
<1>26. ASSUME NEW o \in Ops, Detach(o)
       PROVE  Called(x)'
  BY <1>26 DEF Detach, Locals
<1>27. ASSUME NEW o \in Ops, DetachUp(o)
       PROVE  Called(x)'
  BY <1>27 DEF DetachUp, Locals, Free
<1>28. ASSUME NEW o \in Ops, DetachSelf(o)
       PROVE  Called(x)'
  BY <1>28 DEF DetachSelf, Unlock, Free
<1>29. ASSUME NEW o \in Ops, Finishing(o)
       PROVE  Called(x)'
  BY <1>29 DEF Finishing
<1>30. ASSUME NEW o \in Ops, Finish(o)
       PROVE  Called(x)'
  BY <1>30 DEF Finish, Locals, Free
<1>31. ASSUME NEW o \in Ops, Notify(o)
       PROVE  Called(x)'
  BY <1>31 DEF Notify, Locals
<1>32. ASSUME NEW o \in Ops, Finished(o)
       PROVE  Called(x)'
  BY <1>32 DEF Finished, Locals, Unlock, Free
<1>33. ASSUME NEW o \in Ops, Ready(o)
       PROVE  Called(x)'
  BY <1>33 DEF Ready, Locals
<1>34. ASSUME NEW o \in Ops, Broadcast(o)
       PROVE  Called(x)'
  BY <1>34 DEF Broadcast, Locals
<1>35. ASSUME NEW c \in Clients, NEW o \in Ops, NEW up \in Ops, AddDependency(c, o, up)
       PROVE  Called(x)'
  <2>1. o \notin Barriers
    BY <1>35 DEF AddDependency, Calls, LinksOnly
  <2>2. /\ local' = [local EXCEPT ![c].subject = o, ![c].other = up, ![c].after = "idle"]
        /\ pc' = [pc EXCEPT ![c] = "append"]
        /\ cancelled' = cancelled /\ opLock' = opLock
    BY <1>35 DEF AddDependency, Enter
  <2>3. local'[c].subject = o /\ \A t \in Threads : t # c => local'[t] = local[t]
    BY <2>2 DEF Locals
  <2>4. CASE x = c
    BY <2>1, <2>2, <2>3, <2>4
  <2>5. CASE x # c
    BY <2>2, <2>3, <2>5
  <2>6. QED
    BY <2>4, <2>5
<1>36. ASSUME NEW c \in Clients, NEW o \in Ops, NEW up \in Ops, RemoveDependency(c, o, up)
       PROVE  Called(x)'
  BY <1>36 DEF RemoveDependency, Enter, Locals, Calls, LinksOnly
<1>37. ASSUME NEW c \in Clients, NEW o \in Ops, Cancel(c, o)
       PROVE  Called(x)'
  BY <1>37 DEF Cancel, Enter, Locals
<1>38. ASSUME NEW c \in Clients, NEW o \in Ops, Start(c, o)
       PROVE  Called(x)'
  BY <1>38 DEF Start, Calls
<1>39. ASSUME NEW c \in Clients, NEW o \in Ops, WaitUntilFinished(c, o)
       PROVE  Called(x)'
  BY <1>39 DEF WaitUntilFinished, Enter, Locals
<1>40. QED
  BY <1>8, <1>9, <1>10, <1>11, <1>12, <1>13, <1>14, <1>15, <1>16, <1>17, <1>18, <1>19,
     <1>20, <1>21, <1>22, <1>23, <1>24, <1>25, <1>26, <1>27, <1>28, <1>29, <1>30,
     <1>31, <1>32, <1>33, <1>34, <1>35, <1>36, <1>37, <1>38, <1>39
     DEF OpNext, CallStep, RunStep, ClientCall

\* The steps keep the places of the threads of operations.
LEMMA PhaseNext == OpInv /\ Phases /\ Calling /\ Linkage /\ OpNext => Phases'
<1> SUFFICES ASSUME OpInv, Phases, Calling, Linkage, OpNext, NEW x \in Ops
             PROVE  Phase(x)'
  BY DEF Phases
<1>1. pc \in [Threads -> Labels] /\ local \in [Threads -> Locals]
  BY DEF OpInv, OpTypeOK
<1>2. /\ opLock \in [Ops -> Threads \cup {None}]
      /\ state \in [Ops -> DOMAIN Rank]
      /\ downs \in [Ops -> SUBSET Ops]
      /\ deps \in [Ops -> SUBSET Ops]
  BY DEF OpInv, OpTypeOK
<1>3. Ops \subseteq Threads /\ Clients \subseteq Threads /\ Ops \cap Clients = {} /\ None \notin Threads
  BY OperationConstants DEF Threads
<1>4. \A t \in Threads : Called(t)
  BY DEF Calling
<1>5. \A t \in Threads : pc[t] \in {"append", "linkUp", "linkSelf"} =>
                           local[t].subject \in Ops /\ local[t].other \in Ops
  BY DEF OpInv, Subjects
<1>6. \A o \in Ops : Phase(o)
  BY DEF Phases
<1>7. \A o \in Barriers : deps[o] = {}
  BY DEF Linkage
<1>8. ASSUME pc'[x] = pc[x], state'[x] = state[x],
             local'[x].after = local[x].after,
             local'[x].todo = local[x].todo,
             local'[x].ready = local[x].ready,
             pc[x] = "notify" => opLock'[x] = opLock[x] /\ downs'[x] = downs[x]
      PROVE  Phase(x)'
  BY <1>6, <1>8 DEF Phase, Noted, OverLabels, TodoLabels
<1> USE <1>1, <1>2, <1>3, <1>4, <1>5, <1>6, <1>7
    DEF Phase, Noted, OverLabels, TodoLabels, Goto, graph, status
<1>9. ASSUME NEW t \in Threads, TestReady(t)
      PROVE  Phase(x)'
  <2>1. \A y \in Threads : /\ local'[y].after = local[y].after
                            /\ local'[y].todo = local[y].todo
                            /\ local'[y].ready = local[y].ready
    <3>1. PICK f : local' = [local EXCEPT ![t].flag = f]
      BY <1>9 DEF TestReady
    <3>2. QED
      BY <3>1 DEF Locals
  <2>2. /\ pc[t] = "testReady" /\ pc' = [pc EXCEPT ![t] = "setReady"]
        /\ state' = state /\ opLock' = opLock /\ downs' = downs
    BY <1>9 DEF TestReady
  <2>3. CASE x = t
    <3>1. state[x] = "finished" /\ local[x].after = "ready"
      BY <1>6, <2>2, <2>3
    <3>2. \A i, j \in DOMAIN local[x].ready : local[x].ready[i] = local[x].ready[j] => i = j
      BY <1>6
    <3>3. pc'[x] \in {"setReady"}
      BY <3>1, <2>2, <2>3
    <3>4. local'[x].after = "ready" /\ local'[x].ready = local[x].ready /\ state'[x] = "finished"
      BY <3>1, <2>1, <2>2, <2>3
    <3>5. QED
      BY <3>2, <3>3, <3>4
  <2>4. CASE x # t
    BY <2>1, <2>2, <2>4, <1>8
  <2>5. QED
    BY <2>3, <2>4
<1>10. ASSUME NEW t \in Threads, SetReady(t)
       PROVE  Phase(x)'
  BY <1>10 DEF SetReady
<1>11. ASSUME NEW t \in Threads, FetchQueue(t)
       PROVE  Phase(x)'
  <2>1. \A y \in Threads : /\ local'[y].after = local[y].after
                            /\ local'[y].todo = local[y].todo
                            /\ local'[y].ready = local[y].ready
    BY <1>11 DEF FetchQueue, Locals
  <2>2. PICK l \in {"schedule", local[t].after} :
          /\ pc[t] = "fetchQueue" /\ pc' = [pc EXCEPT ![t] = l]
          /\ state' = state /\ opLock' = opLock /\ downs' = downs
    BY <1>11 DEF FetchQueue
  <2>3. CASE x = t
    <3>1. state[x] = "finished" /\ local[x].after = "ready"
      BY <1>6, <2>2, <2>3
    <3>2. \A i, j \in DOMAIN local[x].ready : local[x].ready[i] = local[x].ready[j] => i = j
      BY <1>6
    <3>3. pc'[x] \in {"schedule", "ready"}
      BY <3>1, <2>2, <2>3
    <3>4. local'[x].after = "ready" /\ local'[x].ready = local[x].ready /\ state'[x] = "finished"
      BY <3>1, <2>1, <2>2, <2>3
    <3>5. QED
      BY <3>2, <3>3, <3>4
  <2>4. CASE x # t
    BY <2>1, <2>2, <2>4, <1>8
  <2>5. QED
    BY <2>3, <2>4
<1>12. ASSUME NEW t \in Threads, AppendDependency(t)
       PROVE  Phase(x)'
  BY <1>12 DEF AppendDependency
<1>13. ASSUME NEW t \in Threads, LockUp(t)
       PROVE  Phase(x)'
  BY <1>13 DEF LockUp, Free
<1>14. ASSUME NEW t \in Threads, LinkSelf(t)
       PROVE  Phase(x)'
  <2>1. /\ pc[t] = "linkSelf" /\ pc' = [pc EXCEPT ![t] = "testReady"]
        /\ state' = state /\ local' = local
        /\ opLock' = [opLock EXCEPT ![local[t].other] = None]
        /\ \A y \in Ops : y # local[t].other => downs'[y] = downs[y]
    BY <1>14 DEF LinkSelf, Unlock
  <2>2. opLock[local[t].other] = t /\ local[t].other \in Ops
    BY <2>1 DEF Called
  <2>3. x # t
    BY <2>1
  <2>4. pc[x] = "notify" => x # local[t].other
    BY <2>2, <2>3
  <2>5. QED
    BY <2>1, <2>2, <2>3, <2>4
<1>15. ASSUME NEW t \in Threads, Find(t)
       PROVE  Phase(x)'
  BY <1>15 DEF Find, Called
<1>16. ASSUME NEW t \in Threads, UnlinkSelf(t)
       PROVE  Phase(x)'
  BY <1>16 DEF UnlinkSelf, Called
<1>17. ASSUME NEW t \in Threads, CancelUnlessFinished(t)
       PROVE  Phase(x)'
  BY <1>17 DEF CancelUnlessFinished, Return, Called
<1>18. ASSUME NEW t \in Threads, MarkCancelled(t)
       PROVE  Phase(x)'
  BY <1>18 DEF MarkCancelled
<1>19. ASSUME NEW t \in Threads, TestExecuting(t)
       PROVE  Phase(x)'
  BY <1>19 DEF TestExecuting, Return, Called
<1>20. ASSUME NEW t \in Threads, ClearCount(t)
       PROVE  Phase(x)'
  BY <1>20 DEF ClearCount
<1>21. ASSUME NEW t \in Threads, Wait(t)
       PROVE  Phase(x)'
  BY <1>21 DEF Wait, Return, Called
<1>22. ASSUME NEW t \in Threads, SpuriousWakeup(t)
       PROVE  Phase(x)'
  BY <1>22 DEF SpuriousWakeup
<1>23. ASSUME NEW o \in Ops, CheckReady(o)
       PROVE  Phase(x)'
  BY <1>23 DEF CheckReady
<1>24. ASSUME NEW o \in Ops, Begin(o)
       PROVE  Phase(x)'
  BY <1>24 DEF Begin
<1>25. ASSUME NEW o \in Ops, Execute(o)
       PROVE  Phase(x)'
  BY <1>25 DEF Execute
<1>26. ASSUME NEW o \in Ops, Main(o)
       PROVE  Phase(x)'
  BY <1>26 DEF Main
<1>27. ASSUME NEW o \in Ops, Detach(o)
       PROVE  Phase(x)'
  <2>1. /\ pc[o] = "detach" /\ pc' = [pc EXCEPT ![o] = "detachNext"]
        /\ state' = state /\ opLock' = opLock /\ downs' = downs
        /\ local' = [local EXCEPT ![o].todo = deps[o]]
    BY <1>27 DEF Detach
  <2>2. /\ local'[o].todo = {} /\ local'[o].ready = local[o].ready
        /\ \A y \in Threads : y # o => local'[y] = local[y]
    BY <2>1 DEF Locals
  <2>3. QED
    BY <2>1, <2>2
<1>28. ASSUME NEW o \in Ops, DetachUp(o)
       PROVE  Phase(x)'
  BY <1>28 DEF DetachUp, Locals, Free
<1>29. ASSUME NEW o \in Ops, DetachSelf(o)
       PROVE  Phase(x)'
  BY <1>29 DEF DetachSelf, Called
<1>30. ASSUME NEW o \in Ops, Finishing(o)
       PROVE  Phase(x)'
  BY <1>30 DEF Finishing
<1>31. ASSUME NEW o \in Ops, Finish(o)
       PROVE  Phase(x)'
  <2>1. /\ pc[o] = "finish" /\ pc' = [pc EXCEPT ![o] = "notify"]
        /\ state' = state
        /\ Free(o) /\ opLock' = [opLock EXCEPT ![o] = o]
        /\ downs' = [downs EXCEPT ![o] = {}]
        /\ local' = [local EXCEPT ![o].todo = downs[o], ![o].ready = <<>>]
    BY <1>31 DEF Finish
  <2>2. /\ local'[o].ready = <<>>
        /\ \A y \in Threads : y # o => local'[y] = local[y]
    BY <2>1 DEF Locals
  <2>3. CASE x = o
    <3>1. state[x] # "finished"
      BY <1>6, <2>1, <2>3
    <3>2. /\ pc'[x] = "notify" /\ state'[x] = state[x] /\ opLock'[x] = x
          /\ downs'[x] = {} /\ local'[x].ready = <<>>
      BY <2>1, <2>2, <2>3
    <3>3. Noted(x)' = {}
      BY <3>2
    <3>4. QED
      BY <3>1, <3>2, <3>3
  <2>4. CASE x # o
    BY <2>1, <2>2, <2>4, <1>8
  <2>5. QED
    BY <2>3, <2>4
<1>32. ASSUME NEW o \in Ops, Notify(o)
       PROVE  Phase(x)'
  BY <1>32 DEF Notify, Locals
<1>33. ASSUME NEW o \in Ops, Finished(o)
       PROVE  Phase(x)'
  BY <1>33 DEF Finished, Locals, Unlock, Free, Called
<1>34. ASSUME NEW o \in Ops, Ready(o)
       PROVE  Phase(x)'
  <2>1. PICK d : /\ pc[o] = "ready" /\ pc' = [pc EXCEPT ![o] = "testReady"]
                 /\ state' = state /\ opLock' = opLock /\ downs' = downs
                 /\ local[o].ready # <<>>
                 /\ local' = [local EXCEPT ![o].ready = Tail(@), ![o].subject = d,
                                           ![o].after = "ready"]
    BY <1>34 DEF Ready
  <2>2. /\ local'[o].ready = Tail(local[o].ready) /\ local'[o].after = "ready"
        /\ \A y \in Threads : y # o => local'[y] = local[y]
    BY <2>1 DEF Locals
  <2>3. local[o].ready \in Seq(Ops)
    BY DEF Locals
  <2>4. CASE x = o
    <3>1. /\ pc'[o] = "testReady" /\ state'[o] = "finished" /\ pc[o] = "ready"
          /\ local'[o].after = "ready"
      BY <2>1, <2>2, <2>4
    <3>2. \A i, j \in DOMAIN Tail(local[o].ready) :
            Tail(local[o].ready)[i] = Tail(local[o].ready)[j] => i = j
      <4>1. \A i \in DOMAIN Tail(local[o].ready) :
              /\ i \in Nat /\ i + 1 \in DOMAIN local[o].ready
              /\ Tail(local[o].ready)[i] = local[o].ready[i + 1]
        BY <2>1, <2>3
      <4>2. \A i, j \in DOMAIN local[o].ready : local[o].ready[i] = local[o].ready[j] => i = j
        BY <1>6
      <4>3. QED
        BY <4>1, <4>2
    <3>3. local'[x].ready = Tail(local[o].ready)
      BY <2>2, <2>4
    <3>4. \A i, j \in DOMAIN local'[x].ready : local'[x].ready[i] = local'[x].ready[j] => i = j
      BY <3>2, <3>3, Zenon
    <3>5. QED
      BY <2>4, <3>1, <3>4
  <2>5. CASE x # o
    BY <2>1, <2>2, <2>5, <1>8
  <2>6. QED
    BY <2>4, <2>5
<1>35. ASSUME NEW o \in Ops, Broadcast(o)
       PROVE  Phase(x)'
  <2>1. /\ pc[o] = "ready" /\ state' = state /\ opLock' = opLock /\ downs' = downs
        /\ pc'[o] \in {"retire", "done"}
        /\ x # o => pc'[x] = pc[x]
    BY <1>35 DEF Broadcast, Woken
  <2>2. local' = [local EXCEPT ![o].after = "exit"]
    BY <1>35 DEF Broadcast
  <2>3. /\ local'[o].ready = local[o].ready
        /\ \A y \in Threads : y # o => local'[y] = local[y]
    BY <2>2 DEF Locals
  <2>4. QED
    BY <2>1, <2>3
<1>36. ASSUME NEW c \in Clients, NEW o \in Ops, NEW up \in Ops, AddDependency(c, o, up)
       PROVE  Phase(x)'
  BY <1>36 DEF AddDependency, Enter, Locals, Calls, LinksOnly
<1>37. ASSUME NEW c \in Clients, NEW o \in Ops, NEW up \in Ops, RemoveDependency(c, o, up)
       PROVE  Phase(x)'
  BY <1>37 DEF RemoveDependency, Enter, Locals, Calls, LinksOnly
<1>38. ASSUME NEW c \in Clients, NEW o \in Ops, Cancel(c, o)
       PROVE  Phase(x)'
  BY <1>38 DEF Cancel, Enter, Locals
<1>39. ASSUME NEW c \in Clients, NEW o \in Ops, Start(c, o)
       PROVE  Phase(x)'
  BY <1>39 DEF Start, Calls
<1>40. ASSUME NEW c \in Clients, NEW o \in Ops, WaitUntilFinished(c, o)
       PROVE  Phase(x)'
  BY <1>40 DEF WaitUntilFinished, Enter, Locals
<1>41. QED
  BY <1>9, <1>10, <1>11, <1>12, <1>13, <1>14, <1>15, <1>16, <1>17, <1>18, <1>19,
     <1>20, <1>21, <1>22, <1>23, <1>24, <1>25, <1>26, <1>27, <1>28, <1>29, <1>30,
     <1>31, <1>32, <1>33, <1>34, <1>35, <1>36, <1>37, <1>38, <1>39, <1>40
     DEF OpNext, CallStep, RunStep, ClientCall

\* Dependency d owes o a notification.
Owes(d, o) == \/ o \in downs[d] /\ state[d] # "finished"
              \/ pc[d] = "notify" /\ o \in local[d].todo
              \/ o \in Noted(d)

\* A step after which everyone owes what it owed, and after which no count has changed but
\* one of a cancelled operation.
Quiet ==
  /\ downs' = downs
  /\ \A d \in Ops : /\ (state'[d] = "finished") <=> (state[d] = "finished")
                    /\ (pc'[d] = "notify") <=> (pc[d] = "notify")
                    /\ local'[d].ready = local[d].ready
                    /\ pc[d] = "notify" => local'[d].todo = local[d].todo
  /\ \A o \in Ops : /\ \/ unfinished'[o] = unfinished[o]
                       \/ unfinished'[o] = 0 /\ cancelled[o]
                    /\ cancelled[o] => cancelled'[o]
                    /\ deps[o] \subseteq deps'[o]
                    /\ o \in Barriers => deps'[o] = {}

\* A step after which no thread is about to count a dependency that was not before.
Steady ==
  \A t \in Threads : Links(t)' => /\ Links(t)
                                  /\ local'[t].subject = local[t].subject
                                  /\ local'[t].other = local[t].other

\* Only AppendDependency leads a thread to count a dependency.
LEMMA SteadyNext ==
  LinksOnly /\ OpInv /\ Phases /\ Calling /\ OpNext =>
    \/ Steady
    \/ \E t \in Threads : AppendDependency(t)
<1> SUFFICES ASSUME LinksOnly, OpInv, Phases, Calling, OpNext,
                    ~\E t \in Threads : AppendDependency(t)
             PROVE  Steady
  OBVIOUS
<1>1. pc \in [Threads -> Labels] /\ local \in [Threads -> Locals]
  BY DEF OpInv, OpTypeOK
<1>2. Ops \subseteq Threads /\ Clients \subseteq Threads /\ Ops \cap Clients = {} /\ None \notin Threads
  BY OperationConstants DEF Threads
<1>3. \A t \in Threads : Called(t) /\ local[t].after \in Returns
  BY <1>1 DEF Calling, Locals
<1> USE <1>1, <1>2, <1>3 DEF Steady, Links, Goto, Returns, graph, status
<1>4. ASSUME NEW t \in Threads, TestReady(t)
      PROVE  Steady
  BY <1>4 DEF TestReady, Locals
<1>5. ASSUME NEW t \in Threads, SetReady(t)
      PROVE  Steady
  BY <1>5 DEF SetReady
<1>6. ASSUME NEW t \in Threads, FetchQueue(t)
      PROVE  Steady
  BY <1>6 DEF FetchQueue, Locals
<1>7. ASSUME NEW t \in Threads, LockUp(t)
      PROVE  Steady
  BY <1>7 DEF LockUp, Called
<1>8. ASSUME NEW t \in Threads, LinkSelf(t)
      PROVE  Steady
  BY <1>8 DEF LinkSelf
<1>9. ASSUME NEW t \in Threads, Find(t)
      PROVE  Steady
  BY <1>9 DEF Find, Called
<1>10. ASSUME NEW t \in Threads, UnlinkSelf(t)
       PROVE  Steady
  BY <1>10 DEF UnlinkSelf, Called
<1>11. ASSUME NEW t \in Threads, CancelUnlessFinished(t)
       PROVE  Steady
  BY <1>11 DEF CancelUnlessFinished, Return
<1>12. ASSUME NEW t \in Threads, MarkCancelled(t)
       PROVE  Steady
  BY <1>12 DEF MarkCancelled
<1>13. ASSUME NEW t \in Threads, TestExecuting(t)
       PROVE  Steady
  BY <1>13 DEF TestExecuting, Return
<1>14. ASSUME NEW t \in Threads, ClearCount(t)
       PROVE  Steady
  BY <1>14 DEF ClearCount
<1>15. ASSUME NEW t \in Threads, Wait(t)
       PROVE  Steady
  BY <1>15 DEF Wait, Return
<1>16. ASSUME NEW t \in Threads, SpuriousWakeup(t)
       PROVE  Steady
  BY <1>16 DEF SpuriousWakeup
<1>17. ASSUME NEW o \in Ops, CheckReady(o)
       PROVE  Steady
  BY <1>17 DEF CheckReady
<1>18. ASSUME NEW o \in Ops, Begin(o)
       PROVE  Steady
  BY <1>18 DEF Begin
<1>19. ASSUME NEW o \in Ops, Execute(o)
       PROVE  Steady
  BY <1>19 DEF Execute
<1>20. ASSUME NEW o \in Ops, Main(o)
       PROVE  Steady
  BY <1>20 DEF Main
<1>21. ASSUME NEW o \in Ops, Detach(o)
       PROVE  Steady
  BY <1>21 DEF Detach, Locals
<1>22. ASSUME NEW o \in Ops, DetachUp(o)
       PROVE  Steady
  BY <1>22 DEF DetachUp, Locals
<1>23. ASSUME NEW o \in Ops, DetachSelf(o)
       PROVE  Steady
  BY <1>23 DEF DetachSelf, Called
<1>24. ASSUME NEW o \in Ops, Finishing(o)
       PROVE  Steady
  BY <1>24 DEF Finishing
<1>25. ASSUME NEW o \in Ops, Finish(o)
       PROVE  Steady
  BY <1>25 DEF Finish, Locals
<1>26. ASSUME NEW o \in Ops, Notify(o)
       PROVE  Steady
  BY <1>26 DEF Notify, Locals
<1>27. ASSUME NEW o \in Ops, Finished(o)
       PROVE  Steady
  BY <1>27 DEF Finished, Locals
<1>28. ASSUME NEW o \in Ops, Ready(o)
       PROVE  Steady
  BY <1>28 DEF Ready, Locals
<1>29. ASSUME NEW o \in Ops, Broadcast(o)
       PROVE  Steady
  BY <1>29 DEF Broadcast, Locals
<1>30. ASSUME NEW c \in Clients, NEW o \in Ops, NEW up \in Ops, AddDependency(c, o, up)
       PROVE  Steady
  BY <1>30 DEF AddDependency, Enter, Locals
<1>31. ASSUME NEW c \in Clients, NEW o \in Ops, NEW up \in Ops, RemoveDependency(c, o, up)
       PROVE  Steady
  BY <1>31 DEF RemoveDependency, Enter, Locals
<1>32. ASSUME NEW c \in Clients, NEW o \in Ops, Cancel(c, o)
       PROVE  Steady
  BY <1>32 DEF Cancel, Enter, Locals
<1>33. ASSUME NEW c \in Clients, NEW o \in Ops, Start(c, o)
       PROVE  Steady
  BY <1>33 DEF Start
<1>34. ASSUME NEW c \in Clients, NEW o \in Ops, WaitUntilFinished(c, o)
       PROVE  Steady
  BY <1>34 DEF WaitUntilFinished, Enter, Locals
<1>35. QED
  BY <1>4, <1>5, <1>6, <1>7, <1>8, <1>9, <1>10, <1>11, <1>12, <1>13, <1>14, <1>15,
     <1>16, <1>17, <1>18, <1>19, <1>20, <1>21, <1>22, <1>23, <1>24, <1>25, <1>26,
     <1>27, <1>28, <1>29, <1>30, <1>31, <1>32, <1>33, <1>34
     DEF OpNext, CallStep, RunStep, ClientCall

\* All other steps are those that change what is owed.
LEMMA QuietNext ==
  LinksOnly /\ OpInv /\ Phases /\ Calling /\ Linkage /\ OpNext =>
    \/ Quiet
    \/ \E t \in Threads : LinkSelf(t)
    \/ \E o \in Ops : Finish(o) \/ Notify(o) \/ Finished(o) \/ Ready(o)
<1> SUFFICES ASSUME LinksOnly, OpInv, Phases, Calling, Linkage, OpNext,
                    ~\E t \in Threads : LinkSelf(t),
                    ~\E o \in Ops : Finish(o) \/ Notify(o) \/ Finished(o) \/ Ready(o)
             PROVE  Quiet
  OBVIOUS
<1>1. pc \in [Threads -> Labels] /\ local \in [Threads -> Locals]
  BY DEF OpInv, OpTypeOK
<1>2. /\ state \in [Ops -> DOMAIN Rank]
      /\ deps \in [Ops -> SUBSET Ops]
      /\ unfinished \in [Ops -> Int]
      /\ cancelled \in [Ops -> BOOLEAN]
  BY DEF OpInv, OpTypeOK
<1>3. Ops \subseteq Threads /\ Clients \subseteq Threads /\ Ops \cap Clients = {} /\ None \notin Threads
  BY OperationConstants DEF Threads
<1>4. \A t \in Threads : Called(t) /\ local[t].after \in Returns
  BY <1>1 DEF Calling, Locals
<1>5. /\ \A o \in Ops : pc[o] \in IF state[o] = "finished" THEN OverLabels ELSE TodoLabels
      /\ \A o \in Ops : /\ pc[o] = "detach" => o \in Barriers
                        /\ pc[o] = "detachNext" => local[o].todo = {}
  BY DEF Phases, Phase
<1>6. \A o \in Barriers : deps[o] = {}
  BY DEF Linkage
<1>7. \A t \in Threads : pc[t] = "append" => local[t].subject \in Ops /\ local[t].other \in Ops
  BY DEF OpInv, Subjects
<1> USE <1>1, <1>2, <1>3, <1>4, <1>5, <1>6, <1>7 DEF Quiet, Goto, Returns, graph, status
<1>8. ASSUME NEW t \in Threads, TestReady(t)
      PROVE  Quiet
  BY <1>8 DEF TestReady, Locals
<1>9. ASSUME NEW t \in Threads, SetReady(t)
      PROVE  Quiet
  BY <1>9 DEF SetReady
<1>10. ASSUME NEW t \in Threads, FetchQueue(t)
       PROVE  Quiet
  <2>1. PICK l \in {"schedule", local[t].after} : pc[t] = "fetchQueue" /\ pc' = [pc EXCEPT ![t] = l]
    BY <1>10 DEF FetchQueue
  <2>2. \A d \in Ops : (pc'[d] = "notify") <=> (pc[d] = "notify")
    BY <2>1
  <2>3. /\ local' = [local EXCEPT ![t].flag = FALSE]
        /\ downs' = downs /\ deps' = deps /\ unfinished' = unfinished
        /\ state' = state /\ cancelled' = cancelled
    BY <1>10 DEF FetchQueue
  <2>4. \A d \in Ops : local'[d].ready = local[d].ready /\ local'[d].todo = local[d].todo
    BY <2>3 DEF Locals
  <2>5. QED
    BY <2>2, <2>3, <2>4
<1>11. ASSUME NEW t \in Threads, AppendDependency(t)
       PROVE  Quiet
  BY <1>11 DEF AppendDependency, Called
<1>12. ASSUME NEW t \in Threads, LockUp(t)
       PROVE  Quiet
  BY <1>12 DEF LockUp
<1>13. ASSUME NEW t \in Threads, Find(t)
       PROVE  Quiet
  BY <1>13 DEF Find, Called
<1>14. ASSUME NEW t \in Threads, UnlinkSelf(t)
       PROVE  Quiet
  BY <1>14 DEF UnlinkSelf, Called
<1>15. ASSUME NEW t \in Threads, CancelUnlessFinished(t)
       PROVE  Quiet
  BY <1>15 DEF CancelUnlessFinished, Return
<1>16. ASSUME NEW t \in Threads, MarkCancelled(t)
       PROVE  Quiet
  BY <1>16 DEF MarkCancelled
<1>17. ASSUME NEW t \in Threads, TestExecuting(t)
       PROVE  Quiet
  BY <1>17 DEF TestExecuting, Return
<1>18. ASSUME NEW t \in Threads, ClearCount(t)
       PROVE  Quiet
  BY <1>18 DEF ClearCount, Called
<1>19. ASSUME NEW t \in Threads, Wait(t)
       PROVE  Quiet
  BY <1>19 DEF Wait, Return
<1>20. ASSUME NEW t \in Threads, SpuriousWakeup(t)
       PROVE  Quiet
  BY <1>20 DEF SpuriousWakeup
<1>21. ASSUME NEW o \in Ops, CheckReady(o)
       PROVE  Quiet
  BY <1>21 DEF CheckReady
<1>22. ASSUME NEW o \in Ops, Begin(o)
       PROVE  Quiet
  BY <1>22 DEF Begin
<1>23. ASSUME NEW o \in Ops, Execute(o)
       PROVE  Quiet
  BY <1>23 DEF Execute, OverLabels, TodoLabels
<1>24. ASSUME NEW o \in Ops, Main(o)
       PROVE  Quiet
  BY <1>24 DEF Main
<1>25. ASSUME NEW o \in Ops, Detach(o)
       PROVE  Quiet
  BY <1>25 DEF Detach, Locals
<1>26. ASSUME NEW o \in Ops, DetachUp(o)
       PROVE  Quiet
  BY <1>26 DEF DetachUp, Locals
<1>27. ASSUME NEW o \in Ops, DetachSelf(o)
       PROVE  Quiet
  BY <1>27 DEF DetachSelf, Called
<1>28. ASSUME NEW o \in Ops, Finishing(o)
       PROVE  Quiet
  BY <1>28 DEF Finishing, OverLabels, TodoLabels
<1>29. ASSUME NEW o \in Ops, Broadcast(o)
       PROVE  Quiet
  BY <1>29 DEF Broadcast, Locals, Woken
<1>30. ASSUME NEW c \in Clients, NEW o \in Ops, NEW up \in Ops, AddDependency(c, o, up)
       PROVE  Quiet
  BY <1>30 DEF AddDependency, Enter, Locals
<1>31. ASSUME NEW c \in Clients, NEW o \in Ops, NEW up \in Ops, RemoveDependency(c, o, up)
       PROVE  Quiet
  BY <1>31 DEF RemoveDependency, Calls, LinksOnly
<1>32. ASSUME NEW c \in Clients, NEW o \in Ops, Cancel(c, o)
       PROVE  Quiet
  BY <1>32 DEF Cancel, Enter, Locals
<1>33. ASSUME NEW c \in Clients, NEW o \in Ops, Start(c, o)
       PROVE  Quiet
  BY <1>33 DEF Start
<1>34. ASSUME NEW c \in Clients, NEW o \in Ops, WaitUntilFinished(c, o)
       PROVE  Quiet
  BY <1>34 DEF WaitUntilFinished, Enter, Locals
<1>35. QED
  BY <1>8, <1>9, <1>10, <1>11, <1>12, <1>13, <1>14, <1>15, <1>16, <1>17, <1>18, <1>19,
     <1>20, <1>21, <1>22, <1>23, <1>24, <1>25, <1>26, <1>27, <1>28, <1>29, <1>30,
     <1>31, <1>32, <1>33, <1>34
     DEF OpNext, CallStep, RunStep, ClientCall

\* Who owes a notification, by dependency.
LEMMA OwingIsOwes == \A o : /\ Owing(o) = {d \in Ops : Owes(d, o)}
                            /\ Owing(o)' = {d \in Ops : Owes(d, o)'}
  BY DEF Owing, Owes, Noted

\* A quiet step leaves what is owed.
LEMMA QuietOwing == Quiet => \A x \in Ops : Owing(x)' = Owing(x)
<1> SUFFICES ASSUME Quiet, NEW x \in Ops
             PROVE  Owing(x)' = Owing(x)
  OBVIOUS
<1>1. \A d \in Ops : Noted(d)' = Noted(d)
  BY DEF Quiet, Noted
<1>2. \A d \in Ops : Owes(d, x)' <=> Owes(d, x)
  BY <1>1 DEF Quiet, Owes
<1>3. QED
  BY <1>2, OwingIsOwes

\* The dependency that a thread links owes one notification more, if it counts.
LEMMA LinkOwing ==
  ASSUME OpInv, Phases, Calling, Linkage, NEW t \in Threads, LinkSelf(t)
  PROVE  \E o, up \in Ops :
           /\ Links(t) /\ o = local[t].subject /\ up = local[t].other
           /\ up \in deps[o] /\ up \notin Owing(o)
           /\ \A x \in Ops : x # o => Owing(x)' = Owing(x)
           /\ \/ /\ ~cancelled[o]
                 /\ Owing(o)' = Owing(o) \cup {up}
                 /\ unfinished' = [unfinished EXCEPT ![o] = @ + 1]
              \/ /\ Owing(o)' = Owing(o)
                 /\ unfinished' = unfinished
<1>1. PICK o, up \in Ops : o = local[t].subject /\ up = local[t].other
  BY DEF LinkSelf, OpInv, Subjects
<1>2. /\ pc[t] = "linkSelf"
      /\ unfinished' = [unfinished EXCEPT ![o] = IF Counts(o, up) THEN @ + 1 ELSE @]
      /\ downs' = [downs EXCEPT ![up] = IF Counts(o, up) THEN @ \cup {o} ELSE @]
      /\ local' = local /\ state' = state /\ pc' = [pc EXCEPT ![t] = "testReady"]
  BY <1>1 DEF LinkSelf, Goto, status
<1>3. o \in Ops /\ up \in Ops /\ Links(t)
  BY <1>2 DEF Links
<1>4. up \in deps[o] /\ up \notin Owing(o)
  BY <1>3, <1>1 DEF Linkage
<1>5. downs \in [Ops -> SUBSET Ops] /\ unfinished \in [Ops -> Int] /\ pc \in [Threads -> Labels]
  BY DEF OpInv, OpTypeOK
<1>6. Ops \subseteq Threads
  BY DEF Threads
<1>7. \A d \in Ops : /\ Noted(d)' = Noted(d)
                     /\ (pc'[d] = "notify") <=> (pc[d] = "notify")
  BY <1>2, <1>5, <1>6 DEF Noted
<1>8. CASE Counts(o, up)
  <2>1. ~cancelled[o] /\ state[up] # "finished"
    BY <1>8 DEF Counts
  <2>2. \A d, x \in Ops : Owes(d, x)' <=> Owes(d, x) \/ (d = up /\ x = o)
    BY <1>2, <1>3, <1>5, <1>7, <1>8, <2>1 DEF Owes
  <2>3. \A x \in Ops : x # o => Owing(x)' = Owing(x)
    BY <2>2, OwingIsOwes
  <2>4. Owing(o)' = Owing(o) \cup {up}
    BY <1>3, <2>2, OwingIsOwes
  <2>5. unfinished' = [unfinished EXCEPT ![o] = @ + 1]
    BY <1>2, <1>8
  <2>6. QED
    BY <1>3, <1>4, <1>1, <2>1, <2>3, <2>4, <2>5
<1>9. CASE ~Counts(o, up)
  <2>1. downs' = downs /\ unfinished' = unfinished
    BY <1>2, <1>5, <1>9
  <2>2. \A d, x \in Ops : Owes(d, x)' <=> Owes(d, x)
    BY <1>2, <1>7, <2>1 DEF Owes
  <2>3. \A x \in Ops : Owing(x)' = Owing(x)
    BY <2>2, OwingIsOwes
  <2>4. QED
    BY <1>3, <1>4, <1>1, <2>1, <2>3
<1>10. QED
  BY <1>8, <1>9

\* In toFinished the operation goes on to owe what it owed as a dependency, when it has
\* emptied its list, and when all have been notified.
LEMMA FinishOwing ==
  ASSUME OpInv, Phases, NEW o \in Ops, Finish(o) \/ Finished(o)
  PROVE  \A x \in Ops : Owing(x)' = Owing(x)
<1> SUFFICES ASSUME NEW x \in Ops
             PROVE  Owing(x)' = Owing(x)
  OBVIOUS
<1>1. /\ pc \in [Threads -> Labels] /\ local \in [Threads -> Locals]
      /\ state \in [Ops -> DOMAIN Rank] /\ downs \in [Ops -> SUBSET Ops]
  BY DEF OpInv, OpTypeOK
<1>2. Ops \subseteq Threads
  BY DEF Threads
<1>3. Phase(o)
  BY DEF Phases
<1>4. CASE Finish(o)
  <2>1. /\ pc[o] = "finish" /\ pc' = [pc EXCEPT ![o] = "notify"]
        /\ local' = [local EXCEPT ![o].todo = downs[o], ![o].ready = <<>>]
        /\ downs' = [downs EXCEPT ![o] = {}]
        /\ state' = state
    BY <1>4 DEF Finish, Goto, status
  <2>2. /\ local'[o].todo = downs[o] /\ local'[o].ready = <<>>
        /\ \A d \in Ops : d # o => local'[d] = local[d]
    BY <1>1, <1>2, <2>1 DEF Locals
  <2>3. state[o] # "finished" /\ local[o].ready = <<>>
    BY <1>3, <2>1 DEF Phase, OverLabels
  <2>4. \A d \in Ops : Noted(d)' = Noted(d)
    BY <2>2, <2>3 DEF Noted
  <2>5. \A d \in Ops : Owes(d, x)' <=> Owes(d, x)
    BY <1>1, <1>2, <2>1, <2>2, <2>3, <2>4 DEF Owes
  <2>6. QED
    BY <2>5, OwingIsOwes
<1>5. CASE Finished(o)
  <2>1. /\ pc[o] = "notify" /\ pc' = [pc EXCEPT ![o] = "ready"]
        /\ local[o].todo = {}
        /\ local' = [local EXCEPT ![o].queued = attached[o]]
        /\ downs' = downs
        /\ state' = [state EXCEPT ![o] = "finished"]
    BY <1>5 DEF Finished, Goto, graph
  <2>2. /\ local'[o].todo = {}
        /\ \A d \in Ops : local'[d].ready = local[d].ready /\ local'[d].todo = local[d].todo
    BY <1>1, <1>2, <2>1 DEF Locals
  <2>3. downs[o] = {}
    BY <1>3, <2>1 DEF Phase
  <2>4. \A d \in Ops : Noted(d)' = Noted(d)
    BY <2>2 DEF Noted
  <2>5. \A d \in Ops : Owes(d, x)' <=> Owes(d, x)
    BY <1>1, <1>2, <2>1, <2>2, <2>3, <2>4 DEF Owes
  <2>6. QED
    BY <2>5, OwingIsOwes
<1>6. QED
  BY <1>4, <1>5

\* One dependent is notified: it is counted off, or put aside as the last one's.
LEMMA NotifyOwing ==
  ASSUME OpInv, Phases, NEW o \in Ops, Notify(o)
  PROVE  \E d \in Ops :
           /\ o \in Owing(d)
           /\ \A x \in Ops : x # d => Owing(x)' = Owing(x)
           /\ unfinished' = [unfinished EXCEPT ![d] = Lowered(@)]
           /\ Owing(d)' = IF unfinished[d] = 1 THEN Owing(d) ELSE Owing(d) \ {o}
<1>1. /\ pc \in [Threads -> Labels] /\ local \in [Threads -> Locals]
      /\ state \in [Ops -> DOMAIN Rank] /\ downs \in [Ops -> SUBSET Ops]
  BY DEF OpInv, OpTypeOK
<1>2. Ops \subseteq Threads
  BY DEF Threads
<1>3. /\ pc[o] = "notify" /\ pc' = pc /\ downs' = downs /\ state' = state
  BY DEF Notify, status
<1>4. PICK d \in local[o].todo :
        /\ unfinished' = [unfinished EXCEPT ![d] = Lowered(@)]
        /\ local' = [local EXCEPT ![o].todo = @ \ {d},
                                  ![o].ready = IF unfinished[d] = 1 THEN Append(@, d) ELSE @]
  BY DEF Notify
<1>5. local[o].todo \subseteq Ops /\ local[o].ready \in Seq(Ops) /\ d \in Ops
  BY <1>1, <1>2 DEF Locals
<1>6. /\ local'[o].todo = local[o].todo \ {d}
      /\ local'[o].ready = IF unfinished[d] = 1 THEN Append(local[o].ready, d) ELSE local[o].ready
      /\ \A y \in Ops : y # o => local'[y] = local[y]
  BY <1>1, <1>2, <1>4 DEF Locals
<1>7. state[o] # "finished" /\ downs[o] = {} /\ local[o].todo \cap Noted(o) = {}
  BY <1>3 DEF Phases, Phase, OverLabels
<1>8. Noted(o)' = IF unfinished[d] = 1 THEN Noted(o) \cup {d} ELSE Noted(o)
  <2>1. CASE unfinished[d] = 1
    <3>1. DOMAIN Append(local[o].ready, d) = DOMAIN local[o].ready \cup {Len(local[o].ready) + 1}
      BY <1>5
    <3>2. /\ \A i \in DOMAIN local[o].ready : Append(local[o].ready, d)[i] = local[o].ready[i]
          /\ Append(local[o].ready, d)[Len(local[o].ready) + 1] = d
      BY <1>5
    <3>3. Noted(o)' = {Append(local[o].ready, d)[i] : i \in DOMAIN Append(local[o].ready, d)}
      BY <1>6, <2>1 DEF Noted
    <3>4. QED
      BY <2>1, <3>1, <3>2, <3>3 DEF Noted
  <2>2. CASE unfinished[d] # 1
    BY <1>6, <2>2 DEF Noted
  <2>3. QED
    BY <2>1, <2>2
<1>9. \A y \in Ops : y # o => Noted(y)' = Noted(y)
  BY <1>6 DEF Noted
<1>10. \A y, x \in Ops : y # o \/ x # d => (Owes(y, x)' <=> Owes(y, x))
  BY <1>3, <1>6, <1>8, <1>9 DEF Owes
<1>11. Owes(o, d) /\ (Owes(o, d)' <=> unfinished[d] = 1)
  BY <1>3, <1>4, <1>6, <1>7, <1>8 DEF Owes
<1>12. \A x \in Ops : x # d => Owing(x)' = Owing(x)
  BY <1>10, OwingIsOwes
<1>13. Owing(d)' = IF unfinished[d] = 1 THEN Owing(d) ELSE Owing(d) \ {o}
  BY <1>5, <1>10, <1>11, OwingIsOwes
<1>14. o \in Owing(d)
  BY <1>11, OwingIsOwes
<1>15. QED
  BY <1>4, <1>5, <1>12, <1>13, <1>14

\* A dependent that was put aside is counted off.
LEMMA ReadyOwing ==
  ASSUME OpInv, Phases, NEW o \in Ops, Ready(o)
  PROVE  \E d \in Ops :
           /\ o \in Owing(d)
           /\ \A x \in Ops : x # d => Owing(x)' = Owing(x)
           /\ unfinished' = [unfinished EXCEPT ![d] = IF @ >= 1 THEN @ - 1 ELSE @]
           /\ Owing(d)' = Owing(d) \ {o}
<1>1. /\ pc \in [Threads -> Labels] /\ local \in [Threads -> Locals]
      /\ state \in [Ops -> DOMAIN Rank] /\ downs \in [Ops -> SUBSET Ops]
  BY DEF OpInv, OpTypeOK
<1>2. Ops \subseteq Threads
  BY DEF Threads
<1>3. PICK r \in Seq(Ops) : r = local[o].ready
  BY <1>1, <1>2 DEF Locals
<1>4. PICK d : d = Head(r)
  OBVIOUS
<1>5. /\ pc[o] = "ready" /\ pc' = [pc EXCEPT ![o] = "testReady"] /\ downs' = downs /\ state' = state
      /\ r # <<>>
      /\ unfinished' = [unfinished EXCEPT ![d] = IF @ >= 1 THEN @ - 1 ELSE @]
      /\ local' = [local EXCEPT ![o].ready = Tail(r), ![o].subject = d, ![o].after = "ready"]
  BY <1>3, <1>4 DEF Ready, Goto, status
<1>6. r \in Seq(Ops)
  OBVIOUS
<1>7. /\ local'[o].todo = local[o].todo /\ local'[o].ready = Tail(r)
      /\ \A y \in Ops : y # o => local'[y] = local[y]
  BY <1>1, <1>2, <1>5 DEF Locals
<1>8. /\ state[o] = "finished"
      /\ \A i, j \in DOMAIN r : r[i] = r[j] => i = j
  BY <1>5, <1>3 DEF Phases, Phase, TodoLabels
<1>9. /\ d \in Ops /\ d = r[1] /\ 1 \in DOMAIN r
      /\ DOMAIN r = 1 .. Len(r) /\ Len(r) \in Nat
      /\ DOMAIN Tail(r) = 1 .. (Len(r) - 1)
      /\ \A i \in DOMAIN Tail(r) : Tail(r)[i] = r[i + 1]
  BY <1>5, <1>6, <1>4
<1>10. {Tail(r)[i] : i \in DOMAIN Tail(r)} = {r[i] : i \in DOMAIN r} \ {d}
  <2>1. ASSUME NEW i \in DOMAIN Tail(r)
        PROVE  Tail(r)[i] \in {r[j] : j \in DOMAIN r} \ {d}
    <3>1. i + 1 \in DOMAIN r /\ i + 1 # 1 /\ Tail(r)[i] = r[i + 1]
      BY <1>9
    <3>2. r[i + 1] # d
      BY <1>8, <1>9, <3>1
    <3>3. QED
      BY <3>1, <3>2
  <2>2. ASSUME NEW i \in DOMAIN r, r[i] # d
        PROVE  r[i] \in {Tail(r)[j] : j \in DOMAIN Tail(r)}
    <3>1. i # 1
      BY <1>9, <2>2
    <3>2. i - 1 \in DOMAIN Tail(r) /\ (i - 1) + 1 = i
      BY <1>9, <3>1
    <3>3. Tail(r)[i - 1] = r[i]
      BY <1>9, <3>2
    <3>4. QED
      BY <3>2, <3>3
  <2>3. QED
    BY <2>1, <2>2
<1>11. Noted(o) = {r[i] : i \in DOMAIN r} /\ Noted(o)' = {Tail(r)[i] : i \in DOMAIN Tail(r)}
  BY <1>7, <1>3 DEF Noted
<1>12. d \in Noted(o) /\ Noted(o)' = Noted(o) \ {d}
  BY <1>9, <1>10, <1>11
<1>13. \A y \in Ops : y # o => Noted(y)' = Noted(y)
  BY <1>7 DEF Noted
<1>14. \A y, x \in Ops : y # o \/ x # d => (Owes(y, x)' <=> Owes(y, x))
  BY <1>1, <1>2, <1>5, <1>7, <1>8, <1>12, <1>13 DEF Owes
<1>15. Owes(o, d) /\ ~Owes(o, d)'
  BY <1>1, <1>2, <1>5, <1>8, <1>12 DEF Owes
<1>16. \A x \in Ops : x # d => Owing(x)' = Owing(x)
  BY <1>14, OwingIsOwes
<1>17. Owing(d)' = Owing(d) \ {o} /\ o \in Owing(d)
  BY <1>9, <1>14, <1>15, OwingIsOwes
<1>18. QED
  BY <1>5, <1>9, <1>16, <1>17

\* The steps that change what is owed leave the links and who is cancelled.
LEMMA OwingStepsKeep ==
  ASSUME \/ \E t \in Threads : LinkSelf(t)
         \/ \E o \in Ops : Finish(o) \/ Notify(o) \/ Finished(o) \/ Ready(o)
  PROVE  deps' = deps /\ cancelled' = cancelled
  BY DEF LinkSelf, Finish, Notify, Finished, Ready, graph, status

\* Only so many can owe a notification.
LEMMA OwingFinite ==
  ASSUME IsFiniteSet(Ops)
  PROVE  \A o : IsFiniteSet(Owing(o)) /\ Cardinality(Owing(o)) \in Nat
<1> SUFFICES ASSUME NEW o
             PROVE  IsFiniteSet(Owing(o)) /\ Cardinality(Owing(o)) \in Nat
  OBVIOUS
<1>1. Owing(o) \subseteq Ops
  BY DEF Owing
<1>2. QED
  BY <1>1, FS_Subset, FS_CardinalityType

\* One more owes, or one less.
LEMMA OwingCardinality ==
  ASSUME IsFiniteSet(Ops), NEW o, NEW d
  PROVE  /\ d \notin Owing(o) => Cardinality(Owing(o) \cup {d}) = Cardinality(Owing(o)) + 1
         /\ d \in Owing(o) => /\ Cardinality(Owing(o) \ {d}) = Cardinality(Owing(o)) - 1
                              /\ Cardinality(Owing(o)) >= 1
<1>1. IsFiniteSet(Owing(o)) /\ Cardinality(Owing(o)) \in Nat
  BY OwingFinite
<1>2. d \notin Owing(o) => Cardinality(Owing(o) \cup {d}) = Cardinality(Owing(o)) + 1
  BY <1>1, FS_AddElement
<1>3. ASSUME d \in Owing(o)
      PROVE  /\ Cardinality(Owing(o) \ {d}) = Cardinality(Owing(o)) - 1
             /\ Cardinality(Owing(o)) >= 1
  <2>1. Cardinality(Owing(o) \ {d}) = Cardinality(Owing(o)) - 1
    BY <1>1, <1>3, FS_RemoveElement
  <2>2. Cardinality(Owing(o)) # 0
    BY <1>1, <1>3, FS_EmptySet
  <2>3. QED
    BY <1>1, <2>1, <2>2
<1>4. QED
  BY <1>2, <1>3

\* The steps keep the counts.
LEMMA CountNext ==
  IsFiniteSet(Ops) /\ LinksOnly /\ OwedInv /\ OpNext => CountIsOwed' /\ NoneNegative'
<1> SUFFICES ASSUME IsFiniteSet(Ops), LinksOnly, OwedInv, OpNext
             PROVE  CountIsOwed' /\ NoneNegative'
  OBVIOUS
<1>1. OpInv /\ Phases /\ Calling /\ Linkage
  BY DEF OwedInv, LinkInv
<1>2. unfinished \in [Ops -> Int]
  BY <1>1 DEF OpInv, OpTypeOK
<1>3. \A o \in Ops : /\ unfinished[o] >= 0
                     /\ cancelled[o] \/ unfinished[o] = Cardinality(Owing(o))
  BY DEF OwedInv, NoneNegative, CountIsOwed
<1> SUFFICES ASSUME NEW x \in Ops
             PROVE  /\ unfinished'[x] >= 0
                    /\ cancelled'[x] \/ unfinished'[x] = Cardinality(Owing(x)')
  BY DEF NoneNegative, CountIsOwed
<1>4. CASE Quiet
  <2>1. Owing(x)' = Owing(x)
    BY <1>4, QuietOwing
  <2>2. /\ \/ unfinished'[x] = unfinished[x]
           \/ unfinished'[x] = 0 /\ cancelled[x]
        /\ cancelled[x] => cancelled'[x]
    BY <1>4 DEF Quiet
  <2>3. QED
    BY <1>3, <2>1, <2>2
<1>5. ASSUME NEW t \in Threads, LinkSelf(t)
      PROVE  /\ unfinished'[x] >= 0
             /\ cancelled'[x] \/ unfinished'[x] = Cardinality(Owing(x)')
  <2>1. cancelled' = cancelled
    BY <1>5, OwingStepsKeep
  <2>2. PICK o, up \in Ops :
           /\ up \notin Owing(o)
           /\ \A y \in Ops : y # o => Owing(y)' = Owing(y)
           /\ \/ /\ Owing(o)' = Owing(o) \cup {up}
                 /\ unfinished' = [unfinished EXCEPT ![o] = @ + 1]
              \/ /\ Owing(o)' = Owing(o)
                 /\ unfinished' = unfinished
    BY <1>1, <1>5, LinkOwing
  <2>3. CASE x = o /\ Owing(o)' = Owing(o) \cup {up} /\ unfinished' = [unfinished EXCEPT ![o] = @ + 1]
    <3>1. unfinished'[x] = unfinished[x] + 1
      BY <1>2, <2>3
    <3>2. Cardinality(Owing(x)') = Cardinality(Owing(x)) + 1
      BY <2>2, <2>3, OwingCardinality
    <3>3. QED
      BY <1>2, <1>3, <2>1, <3>1, <3>2
  <2>4. CASE Owing(x)' = Owing(x) /\ unfinished'[x] = unfinished[x]
    BY <1>3, <2>1, <2>4
  <2>5. QED
    BY <1>2, <2>2, <2>3, <2>4
<1>6. ASSUME NEW o \in Ops, Finish(o) \/ Finished(o)
      PROVE  /\ unfinished'[x] >= 0
             /\ cancelled'[x] \/ unfinished'[x] = Cardinality(Owing(x)')
  <2>1. cancelled' = cancelled
    BY <1>6, OwingStepsKeep
  <2>2. Owing(x)' = Owing(x)
    BY <1>1, <1>6, FinishOwing
  <2>3. unfinished' = unfinished
    BY <1>6 DEF Finish, Finished, graph
  <2>4. QED
    BY <1>3, <2>1, <2>2, <2>3
<1>7. ASSUME NEW o \in Ops, Notify(o)
      PROVE  /\ unfinished'[x] >= 0
             /\ cancelled'[x] \/ unfinished'[x] = Cardinality(Owing(x)')
  <2>1. cancelled' = cancelled
    BY <1>7, OwingStepsKeep
  <2>2. PICK d \in Ops :
           /\ o \in Owing(d)
           /\ \A y \in Ops : y # d => Owing(y)' = Owing(y)
           /\ unfinished' = [unfinished EXCEPT ![d] = Lowered(@)]
           /\ Owing(d)' = IF unfinished[d] = 1 THEN Owing(d) ELSE Owing(d) \ {o}
    BY <1>1, <1>7, NotifyOwing
  <2>3. CASE x = d
    <3>1. unfinished'[x] = IF unfinished[x] > 1 THEN unfinished[x] - 1 ELSE unfinished[x]
      BY <1>2, <2>2, <2>3 DEF Lowered
    <3>2. /\ Cardinality(Owing(x) \ {o}) = Cardinality(Owing(x)) - 1
          /\ Cardinality(Owing(x)) >= 1 /\ Cardinality(Owing(x)) \in Nat
      BY <2>2, <2>3, OwingCardinality, OwingFinite
    <3>3. Owing(x)' = IF unfinished[x] = 1 THEN Owing(x) ELSE Owing(x) \ {o}
      BY <2>2, <2>3
    <3>4. unfinished[x] \in Int
      BY <1>2
    <3>5. QED
      BY <1>3, <2>1, <3>1, <3>2, <3>3, <3>4
  <2>4. CASE x # d
    <3>1. unfinished'[x] = unfinished[x] /\ Owing(x)' = Owing(x)
      BY <1>2, <2>2, <2>4
    <3>2. QED
      BY <1>3, <2>1, <3>1
  <2>5. QED
    BY <2>3, <2>4
<1>8. ASSUME NEW o \in Ops, Ready(o)
      PROVE  /\ unfinished'[x] >= 0
             /\ cancelled'[x] \/ unfinished'[x] = Cardinality(Owing(x)')
  <2>1. cancelled' = cancelled
    BY <1>8, OwingStepsKeep
  <2>2. PICK d \in Ops :
           /\ o \in Owing(d)
           /\ \A y \in Ops : y # d => Owing(y)' = Owing(y)
           /\ unfinished' = [unfinished EXCEPT ![d] = IF @ >= 1 THEN @ - 1 ELSE @]
           /\ Owing(d)' = Owing(d) \ {o}
    BY <1>1, <1>8, ReadyOwing
  <2>3. CASE x = d
    <3>1. unfinished'[x] = IF unfinished[x] >= 1 THEN unfinished[x] - 1 ELSE unfinished[x]
      BY <1>2, <2>2, <2>3
    <3>2. /\ Cardinality(Owing(x) \ {o}) = Cardinality(Owing(x)) - 1
          /\ Cardinality(Owing(x)) >= 1 /\ Cardinality(Owing(x)) \in Nat
      BY <2>2, <2>3, OwingCardinality, OwingFinite
    <3>3. Owing(x)' = Owing(x) \ {o}
      BY <2>2, <2>3
    <3>4. unfinished[x] \in Int
      BY <1>2
    <3>5. QED
      BY <1>3, <2>1, <3>1, <3>2, <3>3, <3>4
  <2>4. CASE x # d
    <3>1. unfinished'[x] = unfinished[x] /\ Owing(x)' = Owing(x)
      BY <1>2, <2>2, <2>4
    <3>2. QED
      BY <1>3, <2>1, <3>1
  <2>5. QED
    BY <2>3, <2>4
<1>9. QED
  BY <1>1, <1>4, <1>5, <1>6, <1>7, <1>8, QuietNext

\* The steps keep the links: a thread about to count a dependency is the one that listed it.
LEMMA LinkageNext ==
  LinksOnly /\ OpInv /\ Phases /\ Calling /\ Linkage /\ OpNext => Linkage'
<1> SUFFICES ASSUME LinksOnly, OpInv, Phases, Calling, Linkage, OpNext
             PROVE  Linkage'
  OBVIOUS
<1>1. /\ deps \in [Ops -> SUBSET Ops] /\ pc \in [Threads -> Labels] /\ local \in [Threads -> Locals]
  BY DEF OpInv, OpTypeOK
<1>2. Barriers \subseteq Ops
  BY OperationConstants
<1>3. \A t \in Threads : Links(t) => local[t].subject \in Ops /\ local[t].other \in Ops
  BY DEF OpInv, Subjects, Links
<1>4. /\ \A o \in Ops : deps[o] \subseteq deps'[o]
      /\ \A o \in Barriers : deps'[o] = {}
  <2>1. CASE Quiet
    BY <1>2, <2>1 DEF Quiet
  <2>2. CASE deps' = deps
    BY <2>2 DEF Linkage
  <2>3. QED
    BY <2>1, <2>2, QuietNext, OwingStepsKeep
<1>5. \/ \A x \in Ops : Owing(x)' \subseteq Owing(x)
      \/ \E t \in Threads : LinkSelf(t)
  <2>1. CASE Quiet
    BY <2>1, QuietOwing
  <2>2. ASSUME NEW o \in Ops, Finish(o) \/ Finished(o)
        PROVE  \A x \in Ops : Owing(x)' \subseteq Owing(x)
    BY <2>2, FinishOwing
  <2>3. ASSUME NEW o \in Ops, Notify(o)
        PROVE  \A x \in Ops : Owing(x)' \subseteq Owing(x)
    <3>1. PICK d \in Ops :
             /\ \A y \in Ops : y # d => Owing(y)' = Owing(y)
             /\ Owing(d)' = IF unfinished[d] = 1 THEN Owing(d) ELSE Owing(d) \ {o}
      BY <2>3, NotifyOwing
    <3>2. QED
      BY <3>1
  <2>4. ASSUME NEW o \in Ops, Ready(o)
        PROVE  \A x \in Ops : Owing(x)' \subseteq Owing(x)
    <3>1. PICK d \in Ops :
             /\ \A y \in Ops : y # d => Owing(y)' = Owing(y)
             /\ Owing(d)' = Owing(d) \ {o}
      BY <2>4, ReadyOwing
    <3>2. QED
      BY <3>1
  <2>5. QED
    BY <2>1, <2>2, <2>3, <2>4, QuietNext
<1>6. \A o \in Ops : Owing(o)' \subseteq deps'[o]
  <2>1. CASE \A x \in Ops : Owing(x)' \subseteq Owing(x)
    BY <1>4, <2>1 DEF Linkage
  <2>2. ASSUME NEW t \in Threads, LinkSelf(t)
        PROVE  \A o \in Ops : Owing(o)' \subseteq deps'[o]
    <3>1. PICK o, up \in Ops :
             /\ up \in deps[o]
             /\ \A y \in Ops : y # o => Owing(y)' = Owing(y)
             /\ Owing(o)' = Owing(o) \cup {up} \/ Owing(o)' = Owing(o)
      BY <2>2, LinkOwing
    <3>2. QED
      BY <1>4, <3>1 DEF Linkage
  <2>3. QED
    BY <1>5, <2>1, <2>2
<1>7. CASE Steady
  <2>1. \A t \in Threads : Links(t)' =>
          /\ local'[t].other \in deps'[local'[t].subject]
          /\ local'[t].other \notin Owing(local'[t].subject)
    BY <1>3, <1>4, <1>7 DEF Steady, Linkage
  <2>2. \A t, u \in Threads : Links(t)' /\ Links(u)' /\ t # u =>
          local'[t].subject # local'[u].subject \/ local'[t].other # local'[u].other
    BY <1>7 DEF Steady, Linkage
  <2>3. ASSUME NEW t \in Threads, Links(t)'
        PROVE  \A x \in Ops : x = local'[t].subject => local'[t].other \notin Owing(x)'
    <3>1. CASE \A x \in Ops : Owing(x)' \subseteq Owing(x)
      BY <2>1, <2>3, <3>1
    <3>2. ASSUME NEW u \in Threads, LinkSelf(u)
          PROVE  \A x \in Ops : x = local'[t].subject => local'[t].other \notin Owing(x)'
      <4>1. PICK o, up \in Ops :
               /\ Links(u) /\ o = local[u].subject /\ up = local[u].other
               /\ \A y \in Ops : y # o => Owing(y)' = Owing(y)
               /\ Owing(o)' = Owing(o) \cup {up} \/ Owing(o)' = Owing(o)
        BY <3>2, LinkOwing
      <4>2. t # u
        <5>1. ~Links(u)'
          BY <1>1, <3>2 DEF LinkSelf, Goto, Links
        <5>2. QED
          BY <2>3, <5>1
      <4>3. /\ Links(t)
            /\ local'[t].subject = local[t].subject
            /\ local'[t].other = local[t].other
        BY <1>7, <2>3 DEF Steady
      <4>4. local[t].subject # o \/ local[t].other # up
        BY <4>1, <4>2, <4>3 DEF Linkage
      <4>5. QED
        BY <2>1, <2>3, <4>1, <4>3, <4>4
    <3>3. QED
      BY <1>5, <3>1, <3>2
  <2>4. \A t \in Threads : Links(t)' => local'[t].subject \in Ops
    BY <1>3, <1>7 DEF Steady
  <2>5. \A t \in Threads : Links(t)' => (local[t].other \notin Owing(local[t].subject))'
    BY <2>3, <2>4
  <2>6. QED
    BY <1>4, <1>6, <2>1, <2>2, <2>5 DEF Linkage
<1>8. ASSUME NEW t \in Threads, AppendDependency(t)
      PROVE  Linkage'
  <2>1. PICK o, up \in Ops :
          /\ o = local[t].subject /\ up = local[t].other
          /\ pc[t] = "append"
          /\ deps' = [deps EXCEPT ![o] = @ \cup {up}]
          /\ pc' = [pc EXCEPT ![t] = IF up \in deps[o] THEN "testReady" ELSE "linkUp"]
          /\ local' = local
    BY <1>8 DEF AppendDependency, Goto, OpInv, Subjects
  <2>2. /\ downs' = downs /\ state' = state
    BY <1>8 DEF AppendDependency, status
  <2>3. \A d \in Ops : /\ Noted(d)' = Noted(d)
                       /\ (pc'[d] = "notify") <=> (pc[d] = "notify")
    BY <1>1, <2>1 DEF Noted, Threads
  <2>4. \A d, x \in Ops : Owes(d, x)' <=> Owes(d, x)
    BY <2>1, <2>2, <2>3 DEF Owes
  <2>5. \A x \in Ops : Owing(x)' = Owing(x)
    BY <2>4, OwingIsOwes
  <2>6. \A u \in Threads : u # t => (Links(u)' <=> Links(u))
    BY <1>1, <2>1 DEF Links
  <2>7. Links(t)' => up \notin deps[o]
    BY <1>1, <2>1 DEF Links
  <2>8. up \in deps'[o]
    BY <1>1, <2>1
  <2>9. \A u \in Threads : Links(u)' =>
          /\ local'[u].subject \in Ops
          /\ local'[u].other \in deps'[local'[u].subject]
          /\ local'[u].other \notin Owing(local'[u].subject)
    BY <1>3, <1>4, <2>1, <2>6, <2>7, <2>8 DEF Linkage
  <2>10. \A u, v \in Threads : Links(u)' /\ Links(v)' /\ u # v =>
           local'[u].subject # local'[v].subject \/ local'[u].other # local'[v].other
    BY <2>1, <2>6, <2>7 DEF Linkage
  <2>11. \A u \in Threads, x \in Ops : Links(u)' /\ x = local'[u].subject =>
           local'[u].other \notin Owing(x)'
    BY <2>5, <2>9
  <2>12. \A u \in Threads : Links(u)' => (local[u].other \notin Owing(local[u].subject))'
    BY <2>9, <2>11
  <2>13. QED
    BY <1>4, <1>6, <2>9, <2>10, <2>12 DEF Linkage
<1>9. QED
  BY <1>7, <1>8, SteadyNext

\* Nothing is linked or owed to begin with.
LEMMA OwedInvInit ==
  OpInit => /\ LinkInv
            /\ IsFiniteSet(Ops) => OwedInv
<1> SUFFICES ASSUME OpInit
             PROVE  LinkInv /\ (IsFiniteSet(Ops) => OwedInv)
  OBVIOUS
<1>1. OpInv
  BY OpInvInit
<1>2. Ops \subseteq Threads
  BY DEF Threads
<1>3. Phases
  BY <1>2 DEF OpInit, Phases, Phase, TodoLabels, NoLocal, Rank
<1>4. Calling
  BY DEF OpInit, Calling, Called
<1>5. NoneNegative
  BY DEF OpInit, NoneNegative
<1>6. \A o \in Ops : Owing(o) = {}
  BY <1>2 DEF OpInit, Owing, NoLocal
<1>7. Linkage
  BY <1>6, OperationConstants DEF OpInit, Linkage, Links
<1>8. CountIsOwed
  BY <1>6, FS_EmptySet DEF OpInit, CountIsOwed
<1>9. QED
  BY <1>1, <1>3, <1>4, <1>5, <1>7, <1>8 DEF OwedInv, LinkInv

\* Every step keeps the invariant of the links.
LEMMA LinkInvNext == LinksOnly /\ LinkInv /\ [OpNext]_opVars => LinkInv'
<1> SUFFICES ASSUME LinksOnly, LinkInv, [OpNext]_opVars
             PROVE  LinkInv'
  OBVIOUS
<1>1. OpInv'
  BY OpInvNext DEF LinkInv
<1>2. CASE OpNext
  BY <1>1, <1>2, CalledNext, PhaseNext, LinkageNext DEF LinkInv
<1>3. CASE UNCHANGED opVars
  <2>1. UNCHANGED <<state, deps, downs, unfinished, cancelled, opLock, pc, local>>
    BY <1>3 DEF opVars, graph, status
  <2>2. \A o \in Ops : Owing(o)' = Owing(o) /\ Noted(o)' = Noted(o)
    BY <2>1 DEF Owing, Noted
  <2>3. Phases' /\ Calling'
    BY <2>1, <2>2 DEF LinkInv, Phases, Phase, Calling, Called
  <2>4. Linkage'
    BY <2>1 DEF LinkInv, Linkage, Links, Owing
  <2>5. QED
    BY <1>1, <2>3, <2>4 DEF LinkInv
<1>4. QED
  BY <1>2, <1>3

\* Every step keeps the invariant of the counts.
LEMMA OwedInvNext == IsFiniteSet(Ops) /\ LinksOnly /\ OwedInv /\ [OpNext]_opVars => OwedInv'
<1> SUFFICES ASSUME IsFiniteSet(Ops), LinksOnly, OwedInv, [OpNext]_opVars
             PROVE  OwedInv'
  OBVIOUS
<1>1. LinkInv'
  BY LinkInvNext DEF OwedInv
<1>2. CASE OpNext
  BY <1>1, <1>2, CountNext DEF OwedInv
<1>3. CASE UNCHANGED opVars
  <2>1. UNCHANGED <<state, downs, unfinished, cancelled, pc, local>>
    BY <1>3 DEF opVars, graph, status
  <2>2. \A o \in Ops : Owing(o)' = Owing(o)
    BY <2>1 DEF Owing
  <2>3. NoneNegative' /\ CountIsOwed'
    BY <2>1, <2>2 DEF OwedInv, NoneNegative, CountIsOwed
  <2>4. QED
    BY <1>1, <2>3 DEF OwedInv
<1>4. QED
  BY <1>2, <1>3

\* What the code asserts of a count follows from what the count counts.
LEMMA OwedInvAsserts == IsFiniteSet(Ops) /\ OwedInv => AssertionsHold
<1> SUFFICES ASSUME IsFiniteSet(Ops), OwedInv
             PROVE  AssertionsHold
  OBVIOUS
<1>1. unfinished \in [Ops -> Int] /\ local \in [Threads -> Locals] /\ Ops \subseteq Threads
  BY DEF OwedInv, LinkInv, OpInv, OpTypeOK, Threads
<1>2. ASSUME NEW o \in Ops, pc[o] = "notify", NEW d \in local[o].todo, unfinished[d] < 1
      PROVE  unfinished[d] = 0 /\ cancelled[d]
  <2>1. d \in Ops
    BY <1>1 DEF Locals
  <2>2. o \in Owing(d)
    BY <1>2 DEF Owing
  <2>3. Cardinality(Owing(d)) >= 1 /\ Cardinality(Owing(d)) \in Nat
    BY <2>2, OwingCardinality, OwingFinite
  <2>4. unfinished[d] >= 0 /\ unfinished[d] \in Int
    BY <1>1, <2>1 DEF OwedInv, NoneNegative
  <2>5. cancelled[d] \/ unfinished[d] = Cardinality(Owing(d))
    BY <2>1 DEF OwedInv, CountIsOwed
  <2>6. QED
    BY <1>2, <2>3, <2>4, <2>5
<1>3. ASSUME NEW t \in Threads, pc[t] = "linkSelf"
      PROVE  unfinished[local[t].subject] >= 0
  BY <1>3 DEF OwedInv, LinkInv, OpInv, Subjects, NoneNegative
<1>4. QED
  BY <1>2, <1>3 DEF AssertionsHold

\* The invariant holds of every behaviour of a program that only links.
LEMMA OwedInvAlways == IsFiniteSet(Ops) /\ LinksOnly /\ OpSpec => []OwedInv
<1> SUFFICES ASSUME IsFiniteSet(Ops), LinksOnly
             PROVE  OpSpec => []OwedInv
  OBVIOUS
<1>1. OpInit => OwedInv
  BY OwedInvInit
<1>2. OwedInv /\ [OpNext]_opVars => OwedInv'
  BY OwedInvNext
<1>3. QED
  BY <1>1, <1>2, PTL DEF OpSpec

\* The count of an operation that is not cancelled is the number of dependencies that will
\* still lower it, however many finish, are added and are cancelled at once: none is left out
\* that would start the operation before it, and none stays that would keep it for ever.
THEOREM OperationCountIsOwed == IsFiniteSet(Ops) /\ LinksOnly /\ OpSpec => []CountIsOwed
<1>1. OwedInv => CountIsOwed
  BY DEF OwedInv
<1>2. QED
  BY <1>1, OwedInvAlways, PTL

\* The assertions of toFinished and _addDependency, which the release build does not make,
\* hold of every program that only links.
THEOREM OperationAssertionsHold == IsFiniteSet(Ops) /\ LinksOnly /\ OpSpec => []AssertionsHold
<1>1. IsFiniteSet(Ops) /\ []OwedInv => []AssertionsHold
  <2> SUFFICES ASSUME IsFiniteSet(Ops)
               PROVE  []OwedInv => []AssertionsHold
    OBVIOUS
  <2>1. OwedInv => AssertionsHold
    BY OwedInvAsserts
  <2>2. QED
    BY <2>1, PTL
<1>2. QED
  BY <1>1, OwedInvAlways, PTL

-----------------------------------------------------------------------------
(* No cycle of locks.                                                        *)

\* The programs link each operation to deeper ones only, as they must for all of them
\* to run.
Deepens(depth) ==
  \A c \in Clients : \A i \in DOMAIN Program[c] : \A o, up \in Ops :
    <<"addDependency", o, up>> \in Program[c][i] => depth[o] < depth[up]
Acyclic == \E depth \in [Ops -> Nat] : Deepens(depth)

\* A lock that is held over a step is that of an operation that notifies its dependents, or of
\* a dependency that a thread links.
Holding(t, x) ==
  \/ t = x /\ pc[t] = "notify"
  \/ pc[t] = "linkSelf" /\ local[t].other = x
Held == \A x \in Ops : opLock[x] # None => Holding(opLock[x], x)

\* Every link that a thread follows leads upwards.
Rising(depth) ==
  /\ \A o, up \in Ops : o \in downs[up] => depth[o] < depth[up]
  /\ \A o, d \in Ops : pc[o] = "notify" /\ d \in local[o].todo => depth[d] < depth[o]
  /\ \A t \in Threads :
       pc[t] \in {"append", "linkUp", "linkSelf"} => depth[local[t].subject] < depth[local[t].other]

\* Which threads wait for the lock of what.
LockWaits ==
  /\ \A t \in Threads : pc[t] \in {"testReady", "setReady", "fetchQueue"} => local[t].subject \in Ops
  /\ \A c \in Clients : pc[c] \notin {"detach", "detachNext", "detachSelf", "finish", "notify"}

\* The steps keep who holds which lock.
LEMMA HeldNext == LinkInv /\ Held /\ OpNext => Held'
<1> SUFFICES ASSUME LinkInv, Held, OpNext, NEW x \in Ops, opLock'[x] # None
             PROVE  Holding(opLock[x], x)'
  BY DEF Held
<1>1. pc \in [Threads -> Labels] /\ local \in [Threads -> Locals]
  BY DEF LinkInv, OpInv, OpTypeOK
<1>2. opLock \in [Ops -> Threads \cup {None}]
  BY DEF LinkInv, OpInv, OpTypeOK
<1>3. Ops \subseteq Threads /\ Clients \subseteq Threads /\ Ops \cap Clients = {} /\ None \notin Threads
  BY OperationConstants DEF Threads
<1>4. \A t \in Threads : /\ pc[t] \notin {"find", "unlinkUp", "unlinkSelf", "detachSelf"}
                         /\ pc[t] = "linkSelf" => opLock[local[t].other] = t
  BY DEF LinkInv, Calling, Called
<1>5. \A o \in Ops : /\ pc[o] = "notify" => opLock[o] = o
                     /\ pc[o] = "detachNext" => local[o].todo = {}
                     /\ pc[o] # "linkSelf"
  BY DEF LinkInv, Phases, Phase, OverLabels, TodoLabels
<1>6. \A t \in Threads : pc[t] \in {"append", "linkUp", "linkSelf"} =>
                           local[t].subject \in Ops /\ local[t].other \in Ops
  BY DEF LinkInv, OpInv, Subjects
<1>7. opLock[x] # None => Holding(opLock[x], x)
  BY DEF Held
<1> USE <1>1, <1>2, <1>3, <1>4, <1>5, <1>6, <1>7 DEF Holding, Goto, graph, status
<1>8. ASSUME NEW t \in Threads, TestReady(t)
      PROVE  Holding(opLock[x], x)'
  BY <1>8 DEF TestReady, Locals
<1>9. ASSUME NEW t \in Threads, SetReady(t)
      PROVE  Holding(opLock[x], x)'
  BY <1>9 DEF SetReady
<1>10. ASSUME NEW t \in Threads, FetchQueue(t)
       PROVE  Holding(opLock[x], x)'
  BY <1>10 DEF FetchQueue, Locals
<1>11. ASSUME NEW t \in Threads, AppendDependency(t)
       PROVE  Holding(opLock[x], x)'
  BY <1>11 DEF AppendDependency
<1>12. ASSUME NEW t \in Threads, LockUp(t)
       PROVE  Holding(opLock[x], x)'
  BY <1>12 DEF LockUp, Free
<1>13. ASSUME NEW t \in Threads, LinkSelf(t)
       PROVE  Holding(opLock[x], x)'
  BY <1>13 DEF LinkSelf, Unlock
<1>14. ASSUME NEW t \in Threads, Find(t)
       PROVE  Holding(opLock[x], x)'
  BY <1>14 DEF Find
<1>15. ASSUME NEW t \in Threads, UnlinkSelf(t)
       PROVE  Holding(opLock[x], x)'
  BY <1>15 DEF UnlinkSelf
<1>16. ASSUME NEW t \in Threads, CancelUnlessFinished(t)
       PROVE  Holding(opLock[x], x)'
  BY <1>16 DEF CancelUnlessFinished, Return
<1>17. ASSUME NEW t \in Threads, MarkCancelled(t)
       PROVE  Holding(opLock[x], x)'
  BY <1>17 DEF MarkCancelled
<1>18. ASSUME NEW t \in Threads, TestExecuting(t)
       PROVE  Holding(opLock[x], x)'
  BY <1>18 DEF TestExecuting, Return
<1>19. ASSUME NEW t \in Threads, ClearCount(t)
       PROVE  Holding(opLock[x], x)'
  BY <1>19 DEF ClearCount
<1>20. ASSUME NEW t \in Threads, Wait(t)
       PROVE  Holding(opLock[x], x)'
  BY <1>20 DEF Wait, Return
<1>21. ASSUME NEW t \in Threads, SpuriousWakeup(t)
       PROVE  Holding(opLock[x], x)'
  BY <1>21 DEF SpuriousWakeup
<1>22. ASSUME NEW o \in Ops, CheckReady(o)
       PROVE  Holding(opLock[x], x)'
  BY <1>22 DEF CheckReady
<1>23. ASSUME NEW o \in Ops, Begin(o)
       PROVE  Holding(opLock[x], x)'
  BY <1>23 DEF Begin
<1>24. ASSUME NEW o \in Ops, Execute(o)
       PROVE  Holding(opLock[x], x)'
  BY <1>24 DEF Execute
<1>25. ASSUME NEW o \in Ops, Main(o)
       PROVE  Holding(opLock[x], x)'
  BY <1>25 DEF Main
<1>26. ASSUME NEW o \in Ops, Detach(o)
       PROVE  Holding(opLock[x], x)'
  BY <1>26 DEF Detach, Locals
<1>27. ASSUME NEW o \in Ops, DetachUp(o)
       PROVE  Holding(opLock[x], x)'
  BY <1>27 DEF DetachUp, Locals
<1>28. ASSUME NEW o \in Ops, DetachSelf(o)
       PROVE  Holding(opLock[x], x)'
  BY <1>28 DEF DetachSelf
<1>29. ASSUME NEW o \in Ops, Finishing(o)
       PROVE  Holding(opLock[x], x)'
  BY <1>29 DEF Finishing
<1>30. ASSUME NEW o \in Ops, Finish(o)
       PROVE  Holding(opLock[x], x)'
  BY <1>30 DEF Finish, Locals, Free
<1>31. ASSUME NEW o \in Ops, Notify(o)
       PROVE  Holding(opLock[x], x)'
  BY <1>31 DEF Notify, Locals
<1>32. ASSUME NEW o \in Ops, Finished(o)
       PROVE  Holding(opLock[x], x)'
  BY <1>32 DEF Finished, Locals, Unlock
<1>33. ASSUME NEW o \in Ops, Ready(o)
       PROVE  Holding(opLock[x], x)'
  BY <1>33 DEF Ready, Locals
<1>34. ASSUME NEW o \in Ops, Broadcast(o)
       PROVE  Holding(opLock[x], x)'
  BY <1>34 DEF Broadcast, Locals, Woken
<1>35. ASSUME NEW c \in Clients, NEW o \in Ops, NEW up \in Ops, AddDependency(c, o, up)
       PROVE  Holding(opLock[x], x)'
  BY <1>35 DEF AddDependency, Enter, Locals, Calls
<1>36. ASSUME NEW c \in Clients, NEW o \in Ops, NEW up \in Ops, RemoveDependency(c, o, up)
       PROVE  Holding(opLock[x], x)'
  BY <1>36 DEF RemoveDependency, Enter, Locals, Calls
<1>37. ASSUME NEW c \in Clients, NEW o \in Ops, Cancel(c, o)
       PROVE  Holding(opLock[x], x)'
  BY <1>37 DEF Cancel, Enter, Locals, Calls
<1>38. ASSUME NEW c \in Clients, NEW o \in Ops, Start(c, o)
       PROVE  Holding(opLock[x], x)'
  BY <1>38 DEF Start, Calls
<1>39. ASSUME NEW c \in Clients, NEW o \in Ops, WaitUntilFinished(c, o)
       PROVE  Holding(opLock[x], x)'
  BY <1>39 DEF WaitUntilFinished, Enter, Locals, Calls
<1>40. QED
  BY <1>8, <1>9, <1>10, <1>11, <1>12, <1>13, <1>14, <1>15, <1>16, <1>17, <1>18, <1>19,
     <1>20, <1>21, <1>22, <1>23, <1>24, <1>25, <1>26, <1>27, <1>28, <1>29, <1>30,
     <1>31, <1>32, <1>33, <1>34, <1>35, <1>36, <1>37, <1>38, <1>39
     DEF OpNext, CallStep, RunStep, ClientCall

\* The steps keep the links rising.
LEMMA RisingNext ==
  ASSUME LinksOnly, LinkInv, OpNext, NEW depth \in [Ops -> Nat], Deepens(depth), Rising(depth)
  PROVE  Rising(depth)'
<1>1. pc \in [Threads -> Labels] /\ local \in [Threads -> Locals] /\ downs \in [Ops -> SUBSET Ops]
  BY DEF LinkInv, OpInv, OpTypeOK
<1>2. Ops \subseteq Threads /\ Clients \subseteq Threads /\ Ops \cap Clients = {} /\ None \notin Threads
  BY OperationConstants DEF Threads
<1>3. \A t \in Threads : /\ pc[t] \notin {"find", "unlinkUp", "unlinkSelf", "detachSelf"}
                         /\ local[t].after \in Returns
  BY <1>1 DEF LinkInv, Calling, Called, Locals
<1>4. \A o \in Ops : pc[o] = "detachNext" => local[o].todo = {}
  BY DEF LinkInv, Phases, Phase
<1>5. \A t \in Threads : pc[t] \in {"append", "linkUp", "linkSelf"} =>
                           local[t].subject \in Ops /\ local[t].other \in Ops
  BY DEF LinkInv, OpInv, Subjects
<1> USE <1>1, <1>2, <1>3, <1>4, <1>5 DEF Rising, Goto, Returns, graph, status
<1>6. ASSUME NEW t \in Threads, TestReady(t)
      PROVE  Rising(depth)'
  BY <1>6 DEF TestReady, Locals
<1>7. ASSUME NEW t \in Threads, SetReady(t)
      PROVE  Rising(depth)'
  BY <1>7 DEF SetReady
<1>8. ASSUME NEW t \in Threads, FetchQueue(t)
      PROVE  Rising(depth)'
  BY <1>8 DEF FetchQueue, Locals
<1>9. ASSUME NEW t \in Threads, AppendDependency(t)
      PROVE  Rising(depth)'
  BY <1>9 DEF AppendDependency
<1>10. ASSUME NEW t \in Threads, LockUp(t)
       PROVE  Rising(depth)'
  BY <1>10 DEF LockUp
<1>11. ASSUME NEW t \in Threads, LinkSelf(t)
       PROVE  Rising(depth)'
  BY <1>11 DEF LinkSelf
<1>12. ASSUME NEW t \in Threads, Find(t)
       PROVE  Rising(depth)'
  BY <1>12 DEF Find
<1>13. ASSUME NEW t \in Threads, UnlinkSelf(t)
       PROVE  Rising(depth)'
  BY <1>13 DEF UnlinkSelf
<1>14. ASSUME NEW t \in Threads, CancelUnlessFinished(t)
       PROVE  Rising(depth)'
  BY <1>14 DEF CancelUnlessFinished, Return
<1>15. ASSUME NEW t \in Threads, MarkCancelled(t)
       PROVE  Rising(depth)'
  BY <1>15 DEF MarkCancelled
<1>16. ASSUME NEW t \in Threads, TestExecuting(t)
       PROVE  Rising(depth)'
  BY <1>16 DEF TestExecuting, Return
<1>17. ASSUME NEW t \in Threads, ClearCount(t)
       PROVE  Rising(depth)'
  BY <1>17 DEF ClearCount
<1>18. ASSUME NEW t \in Threads, Wait(t)
       PROVE  Rising(depth)'
  BY <1>18 DEF Wait, Return
<1>19. ASSUME NEW t \in Threads, SpuriousWakeup(t)
       PROVE  Rising(depth)'
  BY <1>19 DEF SpuriousWakeup
<1>20. ASSUME NEW o \in Ops, CheckReady(o)
       PROVE  Rising(depth)'
  BY <1>20 DEF CheckReady
<1>21. ASSUME NEW o \in Ops, Begin(o)
       PROVE  Rising(depth)'
  BY <1>21 DEF Begin
<1>22. ASSUME NEW o \in Ops, Execute(o)
       PROVE  Rising(depth)'
  BY <1>22 DEF Execute
<1>23. ASSUME NEW o \in Ops, Main(o)
       PROVE  Rising(depth)'
  BY <1>23 DEF Main
<1>24. ASSUME NEW o \in Ops, Detach(o)
       PROVE  Rising(depth)'
  BY <1>24 DEF Detach, Locals
<1>25. ASSUME NEW o \in Ops, DetachUp(o)
       PROVE  Rising(depth)'
  BY <1>25 DEF DetachUp, Locals
<1>26. ASSUME NEW o \in Ops, DetachSelf(o)
       PROVE  Rising(depth)'
  BY <1>26 DEF DetachSelf
<1>27. ASSUME NEW o \in Ops, Finishing(o)
       PROVE  Rising(depth)'
  BY <1>27 DEF Finishing
<1>28. ASSUME NEW o \in Ops, Finish(o)
       PROVE  Rising(depth)'
  BY <1>28 DEF Finish, Locals
<1>29. ASSUME NEW o \in Ops, Notify(o)
       PROVE  Rising(depth)'
  BY <1>29 DEF Notify, Locals
<1>30. ASSUME NEW o \in Ops, Finished(o)
       PROVE  Rising(depth)'
  BY <1>30 DEF Finished, Locals
<1>31. ASSUME NEW o \in Ops, Ready(o)
       PROVE  Rising(depth)'
  BY <1>31 DEF Ready, Locals
<1>32. ASSUME NEW o \in Ops, Broadcast(o)
       PROVE  Rising(depth)'
  BY <1>32 DEF Broadcast, Locals, Woken
<1>33. ASSUME NEW c \in Clients, NEW o \in Ops, NEW up \in Ops, AddDependency(c, o, up)
       PROVE  Rising(depth)'
  BY <1>33 DEF AddDependency, Enter, Locals, Calls, Deepens
<1>34. ASSUME NEW c \in Clients, NEW o \in Ops, NEW up \in Ops, RemoveDependency(c, o, up)
       PROVE  Rising(depth)'
  BY <1>34 DEF RemoveDependency, Enter, Locals, Calls
<1>35. ASSUME NEW c \in Clients, NEW o \in Ops, Cancel(c, o)
       PROVE  Rising(depth)'
  BY <1>35 DEF Cancel, Enter, Locals, Calls
<1>36. ASSUME NEW c \in Clients, NEW o \in Ops, Start(c, o)
       PROVE  Rising(depth)'
  BY <1>36 DEF Start, Calls
<1>37. ASSUME NEW c \in Clients, NEW o \in Ops, WaitUntilFinished(c, o)
       PROVE  Rising(depth)'
  BY <1>37 DEF WaitUntilFinished, Enter, Locals, Calls
<1>38. QED
  BY <1>6, <1>7, <1>8, <1>9, <1>10, <1>11, <1>12, <1>13, <1>14, <1>15, <1>16, <1>17,
     <1>18, <1>19, <1>20, <1>21, <1>22, <1>23, <1>24, <1>25, <1>26, <1>27, <1>28,
     <1>29, <1>30, <1>31, <1>32, <1>33, <1>34, <1>35, <1>36, <1>37
     DEF OpNext, CallStep, RunStep, ClientCall

\* The steps keep what threads wait for.
LEMMA WaitingNext == LinkInv /\ LockWaits /\ OpNext => LockWaits'
<1> SUFFICES ASSUME LinkInv, LockWaits, OpNext
             PROVE  LockWaits'
  OBVIOUS
<1>1. pc \in [Threads -> Labels] /\ local \in [Threads -> Locals] /\ downs \in [Ops -> SUBSET Ops]
  BY DEF LinkInv, OpInv, OpTypeOK
<1>2. Ops \subseteq Threads /\ Clients \subseteq Threads /\ Ops \cap Clients = {} /\ None \notin Threads
  BY OperationConstants DEF Threads
<1>3. \A t \in Threads : /\ pc[t] \notin {"find", "unlinkUp", "unlinkSelf", "detachSelf"}
                         /\ pc[t] \in {"cancel", "markCancelled", "testExecuting", "clearCount"} =>
                              local[t].subject \in Ops
                         /\ local[t].after \in Returns
  BY <1>1 DEF LinkInv, Calling, Called, Locals
<1>4. \A t \in Threads : pc[t] \in {"append", "linkUp", "linkSelf"} => local[t].subject \in Ops
  BY DEF LinkInv, OpInv, Subjects
<1>5. \A o \in Ops : local[o].ready \in Seq(Ops)
  BY <1>1, <1>2 DEF Locals
<1> USE <1>1, <1>2, <1>3, <1>4, <1>5 DEF LockWaits, Goto, Returns, graph, status
<1>6. ASSUME NEW t \in Threads, TestReady(t)
      PROVE  LockWaits'
  BY <1>6 DEF TestReady, Locals
<1>7. ASSUME NEW t \in Threads, SetReady(t)
      PROVE  LockWaits'
  BY <1>7 DEF SetReady
<1>8. ASSUME NEW t \in Threads, FetchQueue(t)
      PROVE  LockWaits'
  BY <1>8 DEF FetchQueue, Locals
<1>9. ASSUME NEW t \in Threads, AppendDependency(t)
      PROVE  LockWaits'
  BY <1>9 DEF AppendDependency
<1>10. ASSUME NEW t \in Threads, LockUp(t)
       PROVE  LockWaits'
  BY <1>10 DEF LockUp
<1>11. ASSUME NEW t \in Threads, LinkSelf(t)
       PROVE  LockWaits'
  BY <1>11 DEF LinkSelf
<1>12. ASSUME NEW t \in Threads, Find(t)
       PROVE  LockWaits'
  BY <1>12 DEF Find
<1>13. ASSUME NEW t \in Threads, UnlinkSelf(t)
       PROVE  LockWaits'
  BY <1>13 DEF UnlinkSelf
<1>14. ASSUME NEW t \in Threads, CancelUnlessFinished(t)
       PROVE  LockWaits'
  BY <1>14 DEF CancelUnlessFinished, Return
<1>15. ASSUME NEW t \in Threads, MarkCancelled(t)
       PROVE  LockWaits'
  BY <1>15 DEF MarkCancelled
<1>16. ASSUME NEW t \in Threads, TestExecuting(t)
       PROVE  LockWaits'
  BY <1>16 DEF TestExecuting, Return
<1>17. ASSUME NEW t \in Threads, ClearCount(t)
       PROVE  LockWaits'
  BY <1>17 DEF ClearCount
<1>18. ASSUME NEW t \in Threads, Wait(t)
       PROVE  LockWaits'
  BY <1>18 DEF Wait, Return
<1>19. ASSUME NEW t \in Threads, SpuriousWakeup(t)
       PROVE  LockWaits'
  BY <1>19 DEF SpuriousWakeup
<1>20. ASSUME NEW o \in Ops, CheckReady(o)
       PROVE  LockWaits'
  BY <1>20 DEF CheckReady
<1>21. ASSUME NEW o \in Ops, Begin(o)
       PROVE  LockWaits'
  BY <1>21 DEF Begin
<1>22. ASSUME NEW o \in Ops, Execute(o)
       PROVE  LockWaits'
  BY <1>22 DEF Execute
<1>23. ASSUME NEW o \in Ops, Main(o)
       PROVE  LockWaits'
  BY <1>23 DEF Main
<1>24. ASSUME NEW o \in Ops, Detach(o)
       PROVE  LockWaits'
  BY <1>24 DEF Detach, Locals
<1>25. ASSUME NEW o \in Ops, DetachUp(o)
       PROVE  LockWaits'
  BY <1>25 DEF DetachUp, Locals
<1>26. ASSUME NEW o \in Ops, DetachSelf(o)
       PROVE  LockWaits'
  BY <1>26 DEF DetachSelf
<1>27. ASSUME NEW o \in Ops, Finishing(o)
       PROVE  LockWaits'
  BY <1>27 DEF Finishing
<1>28. ASSUME NEW o \in Ops, Finish(o)
       PROVE  LockWaits'
  BY <1>28 DEF Finish, Locals
<1>29. ASSUME NEW o \in Ops, Notify(o)
       PROVE  LockWaits'
  BY <1>29 DEF Notify, Locals
<1>30. ASSUME NEW o \in Ops, Finished(o)
       PROVE  LockWaits'
  BY <1>30 DEF Finished, Locals
<1>31. ASSUME NEW o \in Ops, Ready(o)
       PROVE  LockWaits'
  BY <1>31 DEF Ready, Locals
<1>32. ASSUME NEW o \in Ops, Broadcast(o)
       PROVE  LockWaits'
  BY <1>32 DEF Broadcast, Locals, Woken
<1>33. ASSUME NEW c \in Clients, NEW o \in Ops, NEW up \in Ops, AddDependency(c, o, up)
       PROVE  LockWaits'
  BY <1>33 DEF AddDependency, Enter, Locals
<1>34. ASSUME NEW c \in Clients, NEW o \in Ops, NEW up \in Ops, RemoveDependency(c, o, up)
       PROVE  LockWaits'
  BY <1>34 DEF RemoveDependency, Enter, Locals
<1>35. ASSUME NEW c \in Clients, NEW o \in Ops, Cancel(c, o)
       PROVE  LockWaits'
  BY <1>35 DEF Cancel, Enter, Locals
<1>36. ASSUME NEW c \in Clients, NEW o \in Ops, Start(c, o)
       PROVE  LockWaits'
  BY <1>36 DEF Start, Calls
<1>37. ASSUME NEW c \in Clients, NEW o \in Ops, WaitUntilFinished(c, o)
       PROVE  LockWaits'
  BY <1>37 DEF WaitUntilFinished, Enter, Locals
<1>38. QED
  BY <1>6, <1>7, <1>8, <1>9, <1>10, <1>11, <1>12, <1>13, <1>14, <1>15, <1>16, <1>17,
     <1>18, <1>19, <1>20, <1>21, <1>22, <1>23, <1>24, <1>25, <1>26, <1>27, <1>28,
     <1>29, <1>30, <1>31, <1>32, <1>33, <1>34, <1>35, <1>36, <1>37
     DEF OpNext, CallStep, RunStep, ClientCall

\* The invariant of the locks.
LockInv(depth) ==
  /\ LinkInv
  /\ Held
  /\ Rising(depth)
  /\ LockWaits

\* Whoever holds a lock waits, if at all, for one of less depth: of the locks that a set of
\* waiting threads holds, the holder of the least deep waits for none of them.
LEMMA LockInvNoCycle ==
  ASSUME NEW depth \in [Ops -> Nat], LockInv(depth)
  PROVE  NoLockCycle
<1> SUFFICES ASSUME NEW S \in SUBSET Threads, S # {},
                    \A t \in S : Wanted(t) # {} /\ \A o \in Wanted(t) : opLock[o] \in S
             PROVE  FALSE
  BY DEF NoLockCycle
<1>1. /\ pc \in [Threads -> Labels] /\ local \in [Threads -> Locals]
      /\ opLock \in [Ops -> Threads \cup {None}]
  BY DEF LockInv, LinkInv, OpInv, OpTypeOK
<1>2. Ops \cap Clients = {} /\ None \notin Threads /\ Threads = Ops \cup Clients
  BY OperationConstants DEF Threads
<1>3. \A t \in Threads : Wanted(t) \subseteq Ops
  <2> SUFFICES ASSUME NEW t \in Threads
               PROVE  Wanted(t) \subseteq Ops
    OBVIOUS
  <2>1. pc[t] \in {"testReady", "fetchQueue", "append", "linkSelf", "clearCount"} => local[t].subject \in Ops
    BY DEF LockInv, LinkInv, OpInv, Subjects, LockWaits, Calling, Called
  <2>2. pc[t] \notin {"find", "unlinkUp", "unlinkSelf", "detachSelf"}
    BY DEF LockInv, LinkInv, Calling, Called
  <2>3. pc[t] = "linkUp" => local[t].other \in Ops
    BY DEF LockInv, LinkInv, OpInv, Subjects
  <2>4. pc[t] \in {"detach", "finish"} => t \in Ops
    BY <1>2 DEF LockInv, LockWaits
  <2>5. local[t].todo \subseteq Ops
    BY <1>1 DEF Locals
  <2>6. QED
    BY <2>1, <2>2, <2>3, <2>4, <2>5 DEF Wanted
<1> DEFINE taken == {x \in Ops : opLock[x] \in S}
<1>4. taken # {}
  BY <1>3
<1>5. PICK x \in taken : \A y \in taken : depth[x] <= depth[y]
  <2> DEFINE T == {depth[y] : y \in taken}
  <2>1. T \in SUBSET Nat /\ T # {}
    BY <1>4
  <2> HIDE DEF T
  <2>2. PICK n \in T : \A k \in T : n <= k
    BY <2>1, LeastElement
  <2>3. QED
    BY <2>2 DEF T
<1>6. PICK t \in S : t = opLock[x]
  OBVIOUS
<1>7. \/ t = x /\ pc[x] = "notify"
      \/ pc[t] = "linkSelf" /\ local[t].other = x
  BY <1>2, <1>6 DEF LockInv, Held, Holding
<1>8. \E o \in Wanted(t) : depth[o] < depth[x]
  <2>1. CASE t = x /\ pc[x] = "notify"
    <3>1. Wanted(t) = local[x].todo
      BY <2>1 DEF Wanted
    <3>2. PICK o : o \in Wanted(t)
      BY <3>1
    <3>3. o \in Ops /\ x \in Ops
      BY <1>3, <3>2
    <3>4. QED
      BY <2>1, <3>1, <3>2, <3>3 DEF LockInv, Rising
  <2>2. CASE pc[t] = "linkSelf" /\ local[t].other = x
    <3>1. Wanted(t) = {local[t].subject}
      BY <2>2 DEF Wanted
    <3>2. QED
      BY <2>2, <3>1 DEF LockInv, Rising
  <2>3. QED
    BY <1>7, <2>1, <2>2
<1>9. PICK o \in Wanted(t) : depth[o] < depth[x]
  BY <1>8
<1>10. o \in taken
  BY <1>3
<1>11. depth[o] \in Nat /\ depth[x] \in Nat /\ depth[x] <= depth[o]
  BY <1>5, <1>10
<1>12. QED
  BY <1>9, <1>11

\* Every step keeps the invariant of the locks.
LEMMA LockInvAlways ==
  ASSUME LinksOnly, NEW depth \in [Ops -> Nat], Deepens(depth)
  PROVE  OpSpec => []LockInv(depth)
<1>1. OpInit => LockInv(depth)
  <2> SUFFICES ASSUME OpInit
               PROVE  LockInv(depth)
    OBVIOUS
  <2>1. Ops \subseteq Threads /\ Clients \subseteq Threads
    BY DEF Threads
  <2>2. Held /\ Rising(depth) /\ LockWaits
    BY <2>1 DEF OpInit, Held, Rising, LockWaits
  <2>3. QED
    BY <2>2, OwedInvInit DEF LockInv
<1>2. LockInv(depth) /\ [OpNext]_opVars => LockInv(depth)'
  <2> SUFFICES ASSUME LockInv(depth), [OpNext]_opVars
               PROVE  LockInv(depth)'
    OBVIOUS
  <2>1. LinkInv'
    BY LinkInvNext DEF LockInv
  <2>2. CASE OpNext
    BY <2>1, <2>2, HeldNext, RisingNext, WaitingNext DEF LockInv
  <2>3. CASE UNCHANGED opVars
    <3>1. UNCHANGED <<downs, opLock, pc, local>>
      BY <2>3 DEF opVars, graph, status
    <3>2. Held' /\ Rising(depth)' /\ LockWaits'
      BY <3>1 DEF LockInv, Held, Holding, Rising, LockWaits
    <3>3. QED
      BY <2>1, <3>2 DEF LockInv
  <2>4. QED
    BY <2>2, <2>3
<1>3. QED
  BY <1>1, <1>2, PTL DEF OpSpec

\* No threads wait for locks of operations that they hold between them, whichever operations
\* finish, are linked and are cancelled at once, as long as the dependencies have no cycle.
THEOREM OperationNoLockCycle == LinksOnly /\ Acyclic /\ OpSpec => []NoLockCycle
<1> SUFFICES ASSUME LinksOnly, Acyclic
             PROVE  OpSpec => []NoLockCycle
  OBVIOUS
<1>1. PICK depth \in [Ops -> Nat] : Deepens(depth)
  BY DEF Acyclic
<1>2. OpSpec => []LockInv(depth)
  BY <1>1, LockInvAlways
<1>3. LockInv(depth) => NoLockCycle
  BY LockInvNoCycle
<1>4. QED
  BY <1>2, <1>3, PTL
-----------------------------------------------------------------------------
(* Dependencies first.                                                      *)

\* Each operation is linked by the client that starts it, and before it does.
LinksFirst ==
  \A c, d \in Clients : \A i \in DOMAIN Program[c], j \in DOMAIN Program[d] : \A o, up \in Ops :
    <<"addDependency", o, up>> \in Program[c][i] /\ <<"start", o>> \in Program[d][j] => c = d /\ i < j

EndLabels == OverLabels \cup {"finish", "notify"}
InLink(t) == pc[t] \in {"append", "linkUp", "linkSelf"}

\* An operation that nobody has started is idle, and its thread notifies once it has ended.
Stages ==
  \A o \in Ops : /\ state[o] = "initialized" => pc[o] = "idle"
                 /\ IsFinished(o) <=> pc[o] \in EndLabels

\* What a step does to links: they are listed by AppendDependency and counted by LinkSelf.
Kept ==
  /\ \A o \in Ops : (IsFinished(o) => IsFinished(o)') /\ (cancelled[o] => cancelled'[o])
  /\ \A t \in Threads : Links(t) =>
        LinkSelf(t) \/ (Links(t)' /\ local'[t].subject = local[t].subject /\ local'[t].other = local[t].other)
  /\ (\A o \in Ops : deps'[o] \subseteq deps[o]) \/ \E t \in Threads : AppendDependency(t)

LEMMA EndedStates ==
  ASSUME OpTypeOK, OpTypeOK'
  PROVE  \A o \in Ops : /\ IsFinished(o) <=> state[o] \in {"finishing", "finished"}
                        /\ IsFinished(o)' <=> state'[o] \in {"finishing", "finished"}
<1>1. \A s \in DOMAIN Rank : Rank[s] >= Rank["finishing"] <=> s \in {"finishing", "finished"}
  BY DEF Rank
<1>2. \A o \in Ops : state[o] \in DOMAIN Rank /\ state'[o] \in DOMAIN Rank
  BY DEF OpTypeOK
<1> QED BY <1>1, <1>2 DEF IsFinished

\* The steps keep the stages.
LEMMA StagesNext ==
  ASSUME OpInv, OpInv', Phases, Calling, Stages, OpNext
  PROVE  Stages' /\ Kept
<1> DEFINE S(o) == /\ state[o] = "initialized" => pc[o] = "idle"
                   /\ state[o] \in {"finishing", "finished"} <=> pc[o] \in EndLabels
           G == /\ \A o \in Ops : S(o)'
                /\ \A o \in Ops : /\ state[o] \in {"finishing", "finished"} => state'[o] \in {"finishing", "finished"}
                                  /\ cancelled[o] => cancelled'[o]
                /\ \A t \in Threads : Links(t) =>
                      LinkSelf(t) \/ (Links(t)' /\ local'[t].subject = local[t].subject /\ local'[t].other = local[t].other)
                /\ (\A o \in Ops : deps'[o] \subseteq deps[o]) \/ \E t \in Threads : AppendDependency(t)
<1>1. pc \in [Threads -> Labels] /\ local \in [Threads -> Locals]
  BY DEF OpInv, OpTypeOK
<1>2. /\ state \in [Ops -> DOMAIN Rank]
      /\ deps \in [Ops -> SUBSET Ops]
      /\ cancelled \in [Ops -> BOOLEAN]
      /\ turn \in [Clients -> Nat]
  BY DEF OpInv, OpTypeOK
<1>3. Ops \subseteq Threads /\ Clients \subseteq Threads /\ Ops \cap Clients = {} /\ None \notin Threads
  BY OperationConstants DEF Threads
<1>4. \A t \in Threads : Called(t) /\ local[t].after \in Returns
  BY <1>1 DEF Calling, Locals
<1>5. \A o \in Ops : /\ pc[o] \in IF state[o] = "finished" THEN OverLabels ELSE TodoLabels
                     /\ pc[o] \in {"testReady", "setReady", "fetchQueue"} => local[o].after = "ready"
                     /\ pc[o] = "detachNext" => local[o].todo = {}
  BY DEF Phases, Phase
<1>6. \A o \in Ops : S(o)
  BY EndedStates DEF Stages, OpInv
<1>7. SUFFICES G
  BY EndedStates DEF Stages, Kept, OpInv
<1> USE <1>1, <1>2, <1>3, <1>4, <1>5, <1>6 DEF G, S, Goto, Links, Called, EndLabels, OverLabels, TodoLabels, Returns, graph, status
<1>8. ASSUME NEW t \in Threads, TestReady(t)
      PROVE  G
  BY <1>8 DEF TestReady, Locals
<1>9. ASSUME NEW t \in Threads, SetReady(t)
      PROVE  G
  BY <1>9 DEF SetReady
<1>10. ASSUME NEW t \in Threads, FetchQueue(t)
      PROVE  G
  BY <1>10 DEF FetchQueue, Return, Locals
<1>11. ASSUME NEW t \in Threads, AppendDependency(t)
      PROVE  G
  BY <1>11 DEF AppendDependency
<1>12. ASSUME NEW t \in Threads, LockUp(t)
      PROVE  G
  BY <1>12 DEF LockUp
<1>13. ASSUME NEW t \in Threads, LinkSelf(t)
      PROVE  G
  BY <1>13 DEF LinkSelf, Unlock
<1>14. ASSUME NEW t \in Threads, Find(t)
      PROVE  G
  BY <1>14 DEF Find
<1>15. ASSUME NEW t \in Threads, UnlinkSelf(t)
      PROVE  G
  BY <1>15 DEF UnlinkSelf, Unlock
<1>16. ASSUME NEW t \in Threads, CancelUnlessFinished(t)
      PROVE  G
  BY <1>16 DEF CancelUnlessFinished, Return
<1>17. ASSUME NEW t \in Threads, MarkCancelled(t)
      PROVE  G
  BY <1>17 DEF MarkCancelled
<1>18. ASSUME NEW t \in Threads, TestExecuting(t)
      PROVE  G
  BY <1>18 DEF TestExecuting, Return
<1>19. ASSUME NEW t \in Threads, ClearCount(t)
      PROVE  G
  BY <1>19 DEF ClearCount
<1>20. ASSUME NEW t \in Threads, Wait(t)
      PROVE  G
  BY <1>20 DEF Wait, Return
<1>21. ASSUME NEW t \in Threads, SpuriousWakeup(t)
      PROVE  G
  BY <1>21 DEF SpuriousWakeup
<1>22. ASSUME NEW o \in Ops, CheckReady(o)
      PROVE  G
  BY <1>22 DEF CheckReady
<1>23. ASSUME NEW o \in Ops, Begin(o)
      PROVE  G
  BY <1>23 DEF Begin
<1>24. ASSUME NEW o \in Ops, Execute(o)
      PROVE  G
  BY <1>24 DEF Execute
<1>25. ASSUME NEW o \in Ops, Main(o)
      PROVE  G
  BY <1>25 DEF Main
<1>26. ASSUME NEW o \in Ops, Detach(o)
      PROVE  G
  BY <1>26 DEF Detach, Locals
<1>27. ASSUME NEW o \in Ops, DetachUp(o)
      PROVE  G
  BY <1>27 DEF DetachUp, Locals
<1>28. ASSUME NEW o \in Ops, DetachSelf(o)
      PROVE  G
  BY <1>28 DEF DetachSelf, Unlock
<1>29. ASSUME NEW o \in Ops, Finishing(o)
      PROVE  G
  BY <1>29 DEF Finishing
<1>30. ASSUME NEW o \in Ops, Finish(o)
      PROVE  G
  BY <1>30 DEF Finish, Locals
<1>31. ASSUME NEW o \in Ops, Notify(o)
      PROVE  G
  BY <1>31 DEF Notify, Locals
<1>32. ASSUME NEW o \in Ops, Finished(o)
      PROVE  G
  BY <1>32 DEF Finished, Unlock, Locals
<1>33. ASSUME NEW o \in Ops, Ready(o)
      PROVE  G
  BY <1>33 DEF Ready, Locals
<1>34. ASSUME NEW o \in Ops, Broadcast(o)
      PROVE  G
  BY <1>34 DEF Broadcast, Locals, Woken
<1>35. ASSUME NEW c \in Clients, NEW o \in Ops, NEW up \in Ops, AddDependency(c, o, up)
      PROVE  G
  BY <1>35 DEF AddDependency, Calls, Enter, Locals
<1>36. ASSUME NEW c \in Clients, NEW o \in Ops, NEW up \in Ops, RemoveDependency(c, o, up)
      PROVE  G
  BY <1>36 DEF RemoveDependency, Calls, Enter, Locals
<1>37. ASSUME NEW c \in Clients, NEW o \in Ops, Cancel(c, o)
      PROVE  G
  BY <1>37 DEF Cancel, Calls, Enter, Locals
<1>38. ASSUME NEW c \in Clients, NEW o \in Ops, Start(c, o)
      PROVE  G
  BY <1>38 DEF Start, Calls
<1>39. ASSUME NEW c \in Clients, NEW o \in Ops, WaitUntilFinished(c, o)
      PROVE  G
  BY <1>39 DEF WaitUntilFinished, Calls, Enter, Locals
<1>40. QED
  BY <1>8, <1>9, <1>10, <1>11, <1>12, <1>13, <1>14, <1>15, <1>16, <1>17, <1>18, <1>19, <1>20, <1>21, <1>22, <1>23, <1>24, <1>25, <1>26, <1>27, <1>28, <1>29, <1>30, <1>31, <1>32, <1>33, <1>34, <1>35, <1>36, <1>37, <1>38, <1>39
     DEF OpNext, CallStep, RunStep, ClientCall

\* The call that a client made last, if it is in one.
Made(c, call) == \E i \in DOMAIN Program[c] : i = turn[c] - 1 /\ call \in Program[c][i]

\* A client that links an operation makes that call, and an operation that is not idle was
\* started by a call.
Placed ==
  /\ \A t \in Threads : InLink(t) => t \in Clients /\ Made(t, <<"addDependency", local[t].subject, local[t].other>>)
  /\ \A o \in Ops : state[o] # "initialized" =>
        \E c \in Clients : \E j \in DOMAIN Program[c] : j \in Int /\ j < turn[c] /\ <<"start", o>> \in Program[c][j]

\* Where the steps leave the clients in their programs.
Turned ==
  /\ \A c \in Clients : turn'[c] \in {turn[c], turn[c] + 1} /\ (turn'[c] # turn[c] => pc[c] = "idle")
  /\ \A t \in Threads : InLink(t)' =>
       \/ InLink(t) /\ local'[t].subject = local[t].subject /\ local'[t].other = local[t].other
       \/ \E o, up \in Ops : /\ t \in Clients /\ AddDependency(t, o, up)
                            /\ local'[t].subject = o /\ local'[t].other = up
  /\ \A o \in Ops : state'[o] # "initialized" => state[o] # "initialized" \/ \E c \in Clients : Start(c, o)

LEMMA TurnedNext ==
  ASSUME OpInv, Phases, Calling, Stages, OpNext
  PROVE  Turned
<1>1. pc \in [Threads -> Labels] /\ local \in [Threads -> Locals]
  BY DEF OpInv, OpTypeOK
<1>2. /\ state \in [Ops -> DOMAIN Rank]
      /\ deps \in [Ops -> SUBSET Ops]
      /\ cancelled \in [Ops -> BOOLEAN]
      /\ turn \in [Clients -> Nat]
  BY DEF OpInv, OpTypeOK
<1>3. Ops \subseteq Threads /\ Clients \subseteq Threads /\ Ops \cap Clients = {} /\ None \notin Threads
  BY OperationConstants DEF Threads
<1>4. \A t \in Threads : Called(t) /\ local[t].after \in Returns
  BY <1>1 DEF Calling, Locals
<1>5. \A o \in Ops : /\ pc[o] \in IF state[o] = "finished" THEN OverLabels ELSE TodoLabels
                     /\ pc[o] \in {"testReady", "setReady", "fetchQueue"} => local[o].after = "ready"
                     /\ pc[o] = "detachNext" => local[o].todo = {}
  BY DEF Phases, Phase
<1>6. \A o \in Ops : state[o] = "initialized" => pc[o] = "idle"
  BY DEF Stages
<1> USE <1>1, <1>2, <1>3, <1>4, <1>5, <1>6 DEF Turned, Goto, InLink, Called, OverLabels, TodoLabels, Returns, graph, status
<1>7. ASSUME NEW t \in Threads, TestReady(t)
      PROVE  Turned
  BY <1>7 DEF TestReady, Locals
<1>8. ASSUME NEW t \in Threads, SetReady(t)
      PROVE  Turned
  BY <1>8 DEF SetReady
<1>9. ASSUME NEW t \in Threads, FetchQueue(t)
      PROVE  Turned
  <2>1. PICK l \in {"schedule", local[t].after} : pc[t] = "fetchQueue" /\ pc' = [pc EXCEPT ![t] = l]
    BY <1>9 DEF FetchQueue
  <2>2. \A u \in Threads : InLink(u)' => InLink(u) /\ u # t
    BY <2>1
  <2>3. /\ local' = [local EXCEPT ![t].flag = FALSE]
        /\ turn' = turn /\ state' = state
    BY <1>9 DEF FetchQueue
  <2>4. \A u \in Threads : u # t => local'[u] = local[u]
    BY <2>3
  <2> QED BY <2>2, <2>3, <2>4
<1>10. ASSUME NEW t \in Threads, AppendDependency(t)
      PROVE  Turned
  BY <1>10 DEF AppendDependency
<1>11. ASSUME NEW t \in Threads, LockUp(t)
      PROVE  Turned
  BY <1>11 DEF LockUp
<1>12. ASSUME NEW t \in Threads, LinkSelf(t)
      PROVE  Turned
  BY <1>12 DEF LinkSelf, Unlock
<1>13. ASSUME NEW t \in Threads, Find(t)
      PROVE  Turned
  BY <1>13 DEF Find
<1>14. ASSUME NEW t \in Threads, UnlinkSelf(t)
      PROVE  Turned
  BY <1>14 DEF UnlinkSelf, Unlock
<1>15. ASSUME NEW t \in Threads, CancelUnlessFinished(t)
      PROVE  Turned
  BY <1>15 DEF CancelUnlessFinished, Return
<1>16. ASSUME NEW t \in Threads, MarkCancelled(t)
      PROVE  Turned
  BY <1>16 DEF MarkCancelled
<1>17. ASSUME NEW t \in Threads, TestExecuting(t)
      PROVE  Turned
  BY <1>17 DEF TestExecuting, Return
<1>18. ASSUME NEW t \in Threads, ClearCount(t)
      PROVE  Turned
  BY <1>18 DEF ClearCount
<1>19. ASSUME NEW t \in Threads, Wait(t)
      PROVE  Turned
  BY <1>19 DEF Wait, Return
<1>20. ASSUME NEW t \in Threads, SpuriousWakeup(t)
      PROVE  Turned
  BY <1>20 DEF SpuriousWakeup
<1>21. ASSUME NEW o \in Ops, CheckReady(o)
      PROVE  Turned
  BY <1>21 DEF CheckReady
<1>22. ASSUME NEW o \in Ops, Begin(o)
      PROVE  Turned
  BY <1>22 DEF Begin
<1>23. ASSUME NEW o \in Ops, Execute(o)
      PROVE  Turned
  BY <1>23 DEF Execute
<1>24. ASSUME NEW o \in Ops, Main(o)
      PROVE  Turned
  BY <1>24 DEF Main
<1>25. ASSUME NEW o \in Ops, Detach(o)
      PROVE  Turned
  BY <1>25 DEF Detach, Locals
<1>26. ASSUME NEW o \in Ops, DetachUp(o)
      PROVE  Turned
  BY <1>26 DEF DetachUp, Locals
<1>27. ASSUME NEW o \in Ops, DetachSelf(o)
      PROVE  Turned
  BY <1>27 DEF DetachSelf, Unlock
<1>28. ASSUME NEW o \in Ops, Finishing(o)
      PROVE  Turned
  BY <1>28 DEF Finishing
<1>29. ASSUME NEW o \in Ops, Finish(o)
      PROVE  Turned
  BY <1>29 DEF Finish, Locals
<1>30. ASSUME NEW o \in Ops, Notify(o)
      PROVE  Turned
  BY <1>30 DEF Notify, Locals
<1>31. ASSUME NEW o \in Ops, Finished(o)
      PROVE  Turned
  BY <1>31 DEF Finished, Unlock, Locals
<1>32. ASSUME NEW o \in Ops, Ready(o)
      PROVE  Turned
  BY <1>32 DEF Ready, Locals
<1>33. ASSUME NEW o \in Ops, Broadcast(o)
      PROVE  Turned
  BY <1>33 DEF Broadcast, Locals, Woken
<1>34. ASSUME NEW c \in Clients, NEW o \in Ops, NEW up \in Ops, AddDependency(c, o, up)
      PROVE  Turned
  <2>1. /\ pc[c] = "idle" /\ pc' = [pc EXCEPT ![c] = "append"]
        /\ turn' = [turn EXCEPT ![c] = @ + 1] /\ state' = state
        /\ local' = [local EXCEPT ![c].subject = o, ![c].other = up, ![c].after = "idle"]
    BY <1>34 DEF AddDependency, Calls, Enter
  <2>2. /\ local'[c].subject = o /\ local'[c].other = up
        /\ \A u \in Threads : u # c => local'[u] = local[u] /\ pc'[u] = pc[u]
    BY <2>1 DEF Locals
  <2>3. \A d \in Clients : turn'[d] \in {turn[d], turn[d] + 1} /\ (turn'[d] # turn[d] => pc[d] = "idle")
    BY <2>1
  <2> QED BY <1>34, <2>1, <2>2, <2>3
<1>35. ASSUME NEW c \in Clients, NEW o \in Ops, NEW up \in Ops, RemoveDependency(c, o, up)
      PROVE  Turned
  BY <1>35 DEF RemoveDependency, Calls, Enter, Locals
<1>36. ASSUME NEW c \in Clients, NEW o \in Ops, Cancel(c, o)
      PROVE  Turned
  BY <1>36 DEF Cancel, Calls, Enter, Locals
<1>37. ASSUME NEW c \in Clients, NEW o \in Ops, Start(c, o)
      PROVE  Turned
  <2>1. /\ pc' = [pc EXCEPT ![o] = "checkReady"] /\ local' = local
        /\ pc[c] = "idle" /\ turn' = [turn EXCEPT ![c] = @ + 1]
    BY <1>37 DEF Start, Calls
  <2>2. \A u \in Threads : InLink(u)' => InLink(u)
    BY <2>1
  <2>3. \A x \in Ops : state'[x] # state[x] => x = o
    BY <1>37 DEF Start
  <2>4. \A d \in Clients : turn'[d] \in {turn[d], turn[d] + 1} /\ (turn'[d] # turn[d] => pc[d] = "idle")
    BY <2>1
  <2> QED BY <1>37, <2>1, <2>2, <2>3, <2>4
<1>38. ASSUME NEW c \in Clients, NEW o \in Ops, WaitUntilFinished(c, o)
      PROVE  Turned
  BY <1>38 DEF WaitUntilFinished, Calls, Enter, Locals
<1>39. QED
  BY <1>7, <1>8, <1>9, <1>10, <1>11, <1>12, <1>13, <1>14, <1>15, <1>16, <1>17, <1>18, <1>19, <1>20, <1>21, <1>22, <1>23, <1>24, <1>25, <1>26, <1>27, <1>28, <1>29, <1>30, <1>31, <1>32, <1>33, <1>34, <1>35, <1>36, <1>37, <1>38
     DEF OpNext, CallStep, RunStep, ClientCall

\* The steps keep what the calls of clients were for.
LEMMA PlacedNext ==
  ASSUME OpInv, Turned, Placed
  PROVE  Placed'
<1>1. turn \in [Clients -> Nat] /\ Clients \subseteq Threads
  BY DEF OpInv, OpTypeOK, Threads
<1>2. ASSUME NEW t \in Threads, InLink(t)'
      PROVE  t \in Clients /\ Made(t, <<"addDependency", local[t].subject, local[t].other>>)'
  <2>1. CASE InLink(t) /\ local'[t].subject = local[t].subject /\ local'[t].other = local[t].other
    <3>1. t \in Clients /\ Made(t, <<"addDependency", local[t].subject, local[t].other>>)
      BY <2>1 DEF Placed
    <3>2. turn'[t] = turn[t]
      BY <2>1, <3>1 DEF Turned, InLink
    <3> QED BY <2>1, <3>1, <3>2 DEF Made
  <2>2. ASSUME NEW o \in Ops, NEW up \in Ops, t \in Clients, AddDependency(t, o, up),
               local'[t].subject = o, local'[t].other = up
        PROVE  t \in Clients /\ Made(t, <<"addDependency", local[t].subject, local[t].other>>)'
    <3>1. turn[t] \in DOMAIN Program[t] /\ <<"addDependency", o, up>> \in Program[t][turn[t]] /\ turn'[t] = turn[t] + 1
      BY <1>1, <2>2 DEF AddDependency, Calls
    <3>2. turn[t] = turn'[t] - 1
      BY <1>1, <3>1, <2>2
    <3> QED BY <2>2, <3>1, <3>2 DEF Made
  <2> QED BY <1>2, <2>1, <2>2 DEF Turned
<1>3. ASSUME NEW o \in Ops, state'[o] # "initialized"
      PROVE  \E c \in Clients : \E j \in DOMAIN Program[c] : j \in Int /\ j < turn'[c] /\ <<"start", o>> \in Program[c][j]
  <2>1. CASE state[o] # "initialized"
    <3>1. PICK c \in Clients : \E j \in DOMAIN Program[c] : j \in Int /\ j < turn[c] /\ <<"start", o>> \in Program[c][j]
      BY <2>1 DEF Placed
    <3>2. turn[c] \in Int /\ turn'[c] \in {turn[c], turn[c] + 1}
      BY <1>1 DEF Turned
    <3> QED BY <3>1, <3>2
  <2>2. ASSUME NEW c \in Clients, Start(c, o)
        PROVE  \E j \in DOMAIN Program[c] : j \in Int /\ j < turn'[c] /\ <<"start", o>> \in Program[c][j]
    <3>1. turn[c] \in DOMAIN Program[c] /\ <<"start", o>> \in Program[c][turn[c]] /\ turn'[c] = turn[c] + 1
      BY <1>1, <2>2 DEF Start, Calls
    <3>2. turn[c] \in Int /\ turn[c] < turn'[c]
      BY <1>1, <3>1
    <3> QED BY <3>1, <3>2
  <2> QED BY <1>3, <2>1, <2>2 DEF Turned
<1> QED BY <1>2, <1>3 DEF Placed

\* So nobody links an operation that has been started.
LEMMA StartedLinked ==
  ASSUME LinksFirst, OpInv, Placed, NEW t \in Threads, InLink(t), NEW o \in Ops, o = local[t].subject
  PROVE  state[o] = "initialized"
<1>1. local[t].other \in Ops /\ turn \in [Clients -> Nat]
  BY DEF OpInv, OpTypeOK, Subjects, InLink
<1>2. SUFFICES ASSUME state[o] # "initialized"
               PROVE  FALSE
  OBVIOUS
<1>3. t \in Clients /\ Made(t, <<"addDependency", o, local[t].other>>)
  BY DEF Placed
<1>4. PICK c \in Clients : \E j \in DOMAIN Program[c] : j \in Int /\ j < turn[c] /\ <<"start", o>> \in Program[c][j]
  BY <1>2 DEF Placed
<1>5. PICK j \in DOMAIN Program[c] : j \in Int /\ j < turn[c] /\ <<"start", o>> \in Program[c][j]
  BY <1>4
<1>6. PICK i \in DOMAIN Program[t] : i = turn[t] - 1 /\ <<"addDependency", o, local[t].other>> \in Program[t][i]
  BY <1>3 DEF Made
<1>7. c = t /\ i < j
  BY <1>1, <1>3, <1>5, <1>6 DEF LinksFirst
<1>8. turn[t] \in Int /\ i = turn[t] - 1 /\ j < turn[t] /\ i < j /\ j \in Int
  BY <1>1, <1>3, <1>5, <1>6, <1>7
<1> QED BY <1>8

\* Every dependency of an operation that is not cancelled has finished, owes it a
\* notification, or is about to be counted.
Counting(o, up) == \E t \in Threads : Links(t) /\ local[t].subject = o /\ local[t].other = up
Met ==
  \A o \in Ops : \A up \in deps[o] : cancelled[o] \/ IsFinished(up) \/ up \in Owing(o) \/ Counting(o, up)

\* What owes a notification goes on to owe it or has finished.
LEMMA OwingNext ==
  ASSUME LinksOnly, OpInv, OpInv', Phases, Calling, Linkage, Stages, Kept, OpNext, NEW o \in Ops, NEW up \in Owing(o)
  PROVE  IsFinished(up)' \/ up \in Owing(o)'
<1>1. up \in Ops /\ (IsFinished(up) => IsFinished(up)')
  BY DEF Owing, Kept
<1>2. CASE Quiet
  BY <1>2, QuietOwing
<1>3. ASSUME NEW t \in Threads, LinkSelf(t)
      PROVE  up \in Owing(o)'
  BY <1>3, LinkOwing
<1>4. ASSUME NEW x \in Ops, Finish(x) \/ Finished(x)
      PROVE  up \in Owing(o)'
  BY <1>4, FinishOwing
<1>5. ASSUME NEW x \in Ops, Notify(x) \/ Ready(x)
      PROVE  IsFinished(up) \/ up \in Owing(o)'
  <2>1. pc[x] \in EndLabels
    BY <1>5 DEF Notify, Ready, EndLabels, OverLabels
  <2>2. IsFinished(x)
    BY <2>1 DEF Stages
  <2>3. \A y \in Ops : Owing(y) \ {x} \subseteq Owing(y)'
    <3>1. CASE Notify(x)
      <4>1. PICK d \in Ops :
               /\ \A y \in Ops : y # d => Owing(y)' = Owing(y)
               /\ Owing(d)' = IF unfinished[d] = 1 THEN Owing(d) ELSE Owing(d) \ {x}
        BY <3>1, NotifyOwing
      <4> QED BY <4>1
    <3>2. CASE Ready(x)
      <4>1. PICK d \in Ops :
               /\ \A y \in Ops : y # d => Owing(y)' = Owing(y)
               /\ Owing(d)' = Owing(d) \ {x}
        BY <3>2, ReadyOwing
      <4> QED BY <4>1
    <3> QED BY <1>5, <3>1, <3>2
  <2> QED BY <2>2, <2>3
<1> QED BY <1>1, <1>2, <1>3, <1>4, <1>5, QuietNext

LEMMA MetNext ==
  ASSUME LinksOnly, OpInv, OpInv', Phases, Calling, Linkage, Stages, Kept, Met, OpNext
  PROVE  Met'
<1> SUFFICES ASSUME NEW o \in Ops, NEW up \in deps'[o], ~cancelled'[o]
             PROVE  IsFinished(up)' \/ up \in Owing(o)' \/ Counting(o, up)'
  BY DEF Met
<1>1. ~cancelled[o] /\ up \in Ops /\ (IsFinished(up) => IsFinished(up)')
  BY DEF Kept, OpInv, OpTypeOK
<1>2. /\ pc \in [Threads -> Labels] /\ deps \in [Ops -> SUBSET Ops] /\ downs \in [Ops -> SUBSET Ops]
      /\ state \in [Ops -> DOMAIN Rank] /\ Ops \subseteq Threads
  BY DEF OpInv, OpTypeOK, Threads
<1>3. CASE up \notin deps[o]
  <2>1. PICK t \in Threads : AppendDependency(t)
    BY <1>3 DEF Kept
  <2>2. /\ pc[t] = "append" /\ local' = local
        /\ deps' = [deps EXCEPT ![local[t].subject] = @ \cup {local[t].other}]
        /\ pc' = [pc EXCEPT ![t] = IF local[t].other \in deps[local[t].subject] THEN "testReady" ELSE "linkUp"]
    BY <2>1 DEF AppendDependency, Goto
  <2>3. local[t].subject = o /\ local[t].other = up
    BY <1>2, <1>3, <2>2
  <2>4. pc'[t] = "linkUp"
    BY <1>2, <1>3, <2>2, <2>3
  <2> QED BY <2>2, <2>3, <2>4 DEF Counting, Links
<1>4. ASSUME NEW t \in Threads, Links(t), local[t].subject = o, local[t].other = up
      PROVE  IsFinished(up)' \/ up \in Owing(o)' \/ Counting(o, up)'
  <2>1. CASE LinkSelf(t)
    <3>1. state' = state /\ downs' = [downs EXCEPT ![up] = IF Counts(o, up) THEN @ \cup {o} ELSE @]
      BY <1>4, <2>1 DEF LinkSelf, status
    <3>2. CASE Counts(o, up)
      <4>1. o \in downs'[up] /\ state'[up] # "finished"
        BY <1>1, <1>2, <3>1, <3>2 DEF Counts
      <4> QED BY <1>1, <4>1 DEF Owing
    <3>3. CASE ~Counts(o, up)
      <4>1. state[up] = "finished"
        BY <1>1, <3>3 DEF Counts
      <4>2. IsFinished(up)
        BY <4>1 DEF IsFinished, Rank
      <4> QED BY <1>1, <4>2
    <3> QED BY <3>2, <3>3
  <2>2. CASE Links(t)' /\ local'[t].subject = local[t].subject /\ local'[t].other = local[t].other
    BY <1>4, <2>2 DEF Counting
  <2> QED BY <1>4, <2>1, <2>2 DEF Kept
<1>5. CASE up \in Owing(o)
  BY <1>5, OwingNext
<1>6. CASE IsFinished(up)
  BY <1>1, <1>6
<1> QED BY <1>1, <1>3, <1>4, <1>5, <1>6 DEF Met, Counting

\* The dependencies of an operation that goes ahead have finished.
Cleared == \A o \in Ops : pc[o] \in {"begin", "execute", "main"} /\ ~cancelled[o] => \A up \in deps[o] : IsFinished(up)

\* Only CheckReady lets an operation go ahead.
LEMMA ProceedsNext ==
  ASSUME OpInv, Phases, Calling, OpNext, NEW o \in Ops, pc'[o] \in {"begin", "execute", "main"}
  PROVE  pc[o] \in {"begin", "execute", "main"} \/ (CheckReady(o) /\ IsReady(o))
<1> DEFINE G == pc[o] \in {"begin", "execute", "main"} \/ (CheckReady(o) /\ IsReady(o))
<1>1. pc \in [Threads -> Labels] /\ local \in [Threads -> Locals]
  BY DEF OpInv, OpTypeOK
<1>2. /\ state \in [Ops -> DOMAIN Rank]
      /\ deps \in [Ops -> SUBSET Ops]
      /\ cancelled \in [Ops -> BOOLEAN]
      /\ turn \in [Clients -> Nat]
  BY DEF OpInv, OpTypeOK
<1>3. Ops \subseteq Threads /\ Clients \subseteq Threads /\ Ops \cap Clients = {} /\ None \notin Threads
  BY OperationConstants DEF Threads
<1>4. \A t \in Threads : Called(t) /\ local[t].after \in Returns
  BY <1>1 DEF Calling, Locals
<1>5. \A y \in Ops : /\ pc[y] \in IF state[y] = "finished" THEN OverLabels ELSE TodoLabels
                     /\ pc[y] \in {"testReady", "setReady", "fetchQueue"} => local[y].after = "ready"
                     /\ pc[y] = "detachNext" => local[y].todo = {}
  BY DEF Phases, Phase
<1> USE <1>1, <1>2, <1>3, <1>4, <1>5 DEF Goto, Called, OverLabels, TodoLabels, Returns, Return, Enter, graph, status
<1>6. ASSUME NEW t \in Threads, TestReady(t)
      PROVE  G
  BY <1>6 DEF TestReady
<1>7. ASSUME NEW t \in Threads, SetReady(t)
      PROVE  G
  BY <1>7 DEF SetReady
<1>8. ASSUME NEW t \in Threads, FetchQueue(t)
      PROVE  G
  BY <1>8 DEF FetchQueue, Return
<1>9. ASSUME NEW t \in Threads, AppendDependency(t)
      PROVE  G
  BY <1>9 DEF AppendDependency
<1>10. ASSUME NEW t \in Threads, LockUp(t)
      PROVE  G
  BY <1>10 DEF LockUp
<1>11. ASSUME NEW t \in Threads, LinkSelf(t)
      PROVE  G
  BY <1>11 DEF LinkSelf, Unlock
<1>12. ASSUME NEW t \in Threads, Find(t)
      PROVE  G
  BY <1>12 DEF Find
<1>13. ASSUME NEW t \in Threads, UnlinkSelf(t)
      PROVE  G
  BY <1>13 DEF UnlinkSelf, Unlock
<1>14. ASSUME NEW t \in Threads, CancelUnlessFinished(t)
      PROVE  G
  BY <1>14 DEF CancelUnlessFinished, Return
<1>15. ASSUME NEW t \in Threads, MarkCancelled(t)
      PROVE  G
  BY <1>15 DEF MarkCancelled
<1>16. ASSUME NEW t \in Threads, TestExecuting(t)
      PROVE  G
  BY <1>16 DEF TestExecuting, Return
<1>17. ASSUME NEW t \in Threads, ClearCount(t)
      PROVE  G
  BY <1>17 DEF ClearCount
<1>18. ASSUME NEW t \in Threads, Wait(t)
      PROVE  G
  BY <1>18 DEF Wait, Return
<1>19. ASSUME NEW t \in Threads, SpuriousWakeup(t)
      PROVE  G
  BY <1>19 DEF SpuriousWakeup
<1>20. ASSUME NEW x \in Ops, CheckReady(x)
      PROVE  G
  BY <1>20 DEF CheckReady
<1>21. ASSUME NEW x \in Ops, Begin(x)
      PROVE  G
  BY <1>21 DEF Begin
<1>22. ASSUME NEW x \in Ops, Execute(x)
      PROVE  G
  BY <1>22 DEF Execute
<1>23. ASSUME NEW x \in Ops, Main(x)
      PROVE  G
  BY <1>23 DEF Main
<1>24. ASSUME NEW x \in Ops, Detach(x)
      PROVE  G
  BY <1>24 DEF Detach
<1>25. ASSUME NEW x \in Ops, DetachUp(x)
      PROVE  G
  BY <1>25 DEF DetachUp
<1>26. ASSUME NEW x \in Ops, DetachSelf(x)
      PROVE  G
  BY <1>26 DEF DetachSelf, Unlock
<1>27. ASSUME NEW x \in Ops, Finishing(x)
      PROVE  G
  BY <1>27 DEF Finishing
<1>28. ASSUME NEW x \in Ops, Finish(x)
      PROVE  G
  BY <1>28 DEF Finish
<1>29. ASSUME NEW x \in Ops, Notify(x)
      PROVE  G
  BY <1>29 DEF Notify
<1>30. ASSUME NEW x \in Ops, Finished(x)
      PROVE  G
  BY <1>30 DEF Finished, Unlock
<1>31. ASSUME NEW x \in Ops, Ready(x)
      PROVE  G
  BY <1>31 DEF Ready
<1>32. ASSUME NEW x \in Ops, Broadcast(x)
      PROVE  G
  BY <1>32 DEF Broadcast, Woken
<1>33. ASSUME NEW c \in Clients, NEW x \in Ops, NEW up \in Ops, AddDependency(c, x, up)
      PROVE  G
  BY <1>33 DEF AddDependency, Calls, Enter
<1>34. ASSUME NEW c \in Clients, NEW x \in Ops, NEW up \in Ops, RemoveDependency(c, x, up)
      PROVE  G
  BY <1>34 DEF RemoveDependency, Calls, Enter
<1>35. ASSUME NEW c \in Clients, NEW x \in Ops, Cancel(c, x)
      PROVE  G
  BY <1>35 DEF Cancel, Calls, Enter
<1>36. ASSUME NEW c \in Clients, NEW x \in Ops, Start(c, x)
      PROVE  G
  BY <1>36 DEF Start, Calls
<1>37. ASSUME NEW c \in Clients, NEW x \in Ops, WaitUntilFinished(c, x)
      PROVE  G
  BY <1>37 DEF WaitUntilFinished, Calls, Enter
<1>38. QED
  BY <1>6, <1>7, <1>8, <1>9, <1>10, <1>11, <1>12, <1>13, <1>14, <1>15, <1>16, <1>17, <1>18, <1>19, <1>20, <1>21, <1>22, <1>23, <1>24, <1>25, <1>26, <1>27, <1>28, <1>29, <1>30, <1>31, <1>32, <1>33, <1>34, <1>35, <1>36, <1>37
     DEF OpNext, CallStep, RunStep, ClientCall

LEMMA ClearedNext ==
  ASSUME IsFiniteSet(Ops), LinksFirst, OpInv, OwedInv, Stages, Kept, Placed, Met, Cleared, OpNext
  PROVE  Cleared'
<1> SUFFICES ASSUME NEW o \in Ops, pc'[o] \in {"begin", "execute", "main"}, ~cancelled'[o],
                    NEW up \in deps'[o]
             PROVE  IsFinished(up)'
  BY DEF Cleared
<1>1. /\ Phases /\ Calling /\ ~cancelled[o] /\ Ops \subseteq Threads
      /\ deps \in [Ops -> SUBSET Ops]
  BY DEF OwedInv, LinkInv, Kept, OpInv, OpTypeOK, Threads
<1>2. pc[o] \in {"begin", "execute", "main"} \/ (CheckReady(o) /\ IsReady(o))
  BY <1>1, ProceedsNext
<1>3. state[o] # "initialized"
  BY <1>2 DEF Stages, CheckReady
<1>4. up \in deps[o]
  <2>1. CASE deps'[o] \subseteq deps[o]
    BY <2>1
  <2>2. ASSUME NEW t \in Threads, AppendDependency(t)
        PROVE  deps'[o] \subseteq deps[o]
    <3>1. pc[t] = "append" /\ deps' = [deps EXCEPT ![local[t].subject] = @ \cup {local[t].other}]
      BY <2>2 DEF AppendDependency
    <3>2. local[t].subject # o
      BY <1>3, <3>1, StartedLinked DEF InLink
    <3> QED BY <1>1, <3>1, <3>2
  <2> QED BY <2>1, <2>2 DEF Kept
<1>5. IsFinished(up)
  <2>1. CASE pc[o] \in {"begin", "execute", "main"}
    BY <1>1, <1>4, <2>1 DEF Cleared
  <2>2. CASE CheckReady(o) /\ IsReady(o)
    <3>1. unfinished[o] = 0 /\ unfinished[o] = Cardinality(Owing(o))
      BY <1>1, <2>2 DEF IsReady, OwedInv, CountIsOwed
    <3>2. up \notin Owing(o)
      <4>1. up \in Owing(o) => Cardinality(Owing(o)) >= 1
        BY OwingCardinality
      <4> QED BY <3>1, <4>1
    <3>3. ~Counting(o, up)
      BY <1>3, StartedLinked DEF Counting, Links, InLink
    <3> QED BY <1>1, <1>4, <3>2, <3>3 DEF Met
  <2> QED BY <1>2, <2>1, <2>2
<1> QED BY <1>1, <1>4, <1>5 DEF Kept, OpInv, OpTypeOK

\* An operation that is not cancelled does not execute before all its dependencies have
\* finished, in whatever order they finish on their threads while others are still being
\* linked, are waited for or cancelled.  Its client has to link it before it starts it.
THEOREM OperationDependenciesFirst ==
  ASSUME IsFiniteSet(Ops), LinksOnly, LinksFirst
  PROVE  OpSpec => []DependenciesFirst
<1> DEFINE Inv == OwedInv /\ Stages /\ Placed /\ Met /\ Cleared
<1>1. OpInit => Inv
  <2> SUFFICES ASSUME OpInit
               PROVE  Inv
    OBVIOUS
  <2>1. OwedInv
    BY OwedInvInit
  <2>2. \A o \in Ops : state[o] = "initialized" /\ pc[o] = "idle" /\ deps[o] = {}
    BY DEF OpInit, Threads
  <2>3. \A t \in Threads : pc[t] = "idle"
    BY DEF OpInit
  <2>4. \A o \in Ops : ~IsFinished(o)
    BY <2>2 DEF IsFinished, Rank
  <2>5. Stages
    BY <2>2, <2>4 DEF Stages, EndLabels, OverLabels
  <2>6. Placed
    BY <2>2, <2>3 DEF Placed, InLink
  <2>7. Met /\ Cleared
    BY <2>2 DEF Met, Cleared
  <2> QED BY <2>1, <2>5, <2>6, <2>7
<1>2. Inv /\ [OpNext]_opVars => Inv'
  <2> SUFFICES ASSUME OwedInv, Stages, Placed, Met, Cleared, [OpNext]_opVars
               PROVE  Inv'
    OBVIOUS
  <2>1. OwedInv'
    BY OwedInvNext
  <2>2. OpInv /\ OpInv' /\ Phases /\ Calling /\ Linkage
    BY <2>1 DEF OwedInv, LinkInv
  <2>3. CASE OpNext
    <3>1. Stages' /\ Kept /\ Turned
      BY <2>2, <2>3, StagesNext, TurnedNext
    <3>2. Placed'
      BY <2>2, <3>1, PlacedNext
    <3>3. Met'
      BY <2>2, <2>3, <3>1, MetNext
    <3>4. Cleared'
      BY <2>2, <2>3, <3>1, ClearedNext
    <3> QED BY <2>1, <3>1, <3>2, <3>3, <3>4
  <2>4. CASE UNCHANGED opVars
    <3>1. UNCHANGED <<state, deps, downs, cancelled, pc, local, turn>>
      BY <2>4 DEF opVars, graph, status
    <3>2. \A o : IsFinished(o)' = IsFinished(o)
      BY <3>1 DEF IsFinished
    <3>3. Stages' /\ Placed'
      BY <3>1, <3>2 DEF Stages, Placed, InLink, Made
    <3>4. \A o : Owing(o)' = Owing(o) /\ \A up : Counting(o, up)' = Counting(o, up)
      BY <3>1 DEF Owing, Counting, Links
    <3>5. Met' /\ Cleared'
      BY <3>1, <3>2, <3>4 DEF Met, Cleared
    <3> QED BY <2>1, <3>3, <3>5
  <2> QED BY <2>3, <2>4
<1>3. Inv => DependenciesFirst
  BY DEF Cleared, DependenciesFirst
<1> QED BY <1>1, <1>2, <1>3, PTL DEF OpSpec
================================================================================
