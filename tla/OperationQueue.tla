----------------------------- MODULE OperationQueue -----------------------------
(***************************************************************************)
(* OperationQueue (src/Sources/Foundation/Operation.swift): operations are   *)
(* added, singly, in batches or behind a barrier; _schedule() hands those    *)
(* that are ready to Dispatch, most urgent first and at most                 *)
(* maxConcurrentOperationCount at a time; a finished one leaves the queue    *)
(* and makes room for the next.  The operations themselves are the module    *)
(* Operation, whose routines "schedule" and "retire" are found here.         *)
(*                                                                         *)
(* The lists linked through __nextOperation and __nextPriorityOperation are  *)
(* sequences.  They change only under __queueLock, so _schedule() walks over *)
(* what it found when it entered a list.  __operationCount is written and    *)
(* never read, and is left out, as is progress reporting.                    *)
(***************************************************************************)
EXTENDS Operation, SequencesExt

CONSTANTS
  Levels,  \* QueuePriority: 0 is the barriers', 1 veryHigh and so on
  Normal,  \* QueuePriority.normal
  Batches, \* the arguments of addOperation and addOperations
  qos      \* the priority an operation's qualityOfService stands for, or None

ASSUME QueueConstants ==
  /\ Levels \subseteq Nat /\ 0 \in Levels
  /\ Normal \in Levels
  /\ Batches \subseteq Seq(Ops \ Barriers)
  /\ IsFiniteSet(Ops)
  /\ qos \in [Ops -> Levels \cup {None}]
  \* addBarrierBlock makes its operations itself: no client has one to start
  /\ \A c \in Clients : \A i \in DOMAIN Program[c] : \A b \in Barriers :
       <<"start", b>> \notin Program[c][i]

\* No operation has the priority of the barriers by default, or by the quality of service
\* it was given, and none at all is not a priority.
ASSUME PriorityConstants ==
  /\ None \notin Levels
  /\ Normal # 0
  /\ \A o \in Ops : qos[o] # 0

VARIABLES
  queueLock,   \* the owner of __queueLock
  operations,  \* __firstOperation ... __lastOperation
  lists,       \* __firstPriorityOperation ... __lastPriorityOperation, by level
  priority,    \* __priorityValue
  numExec,     \* __numExecOps
  maxOps,      \* __actualMaxNumOps
  suspended,   \* __suspended
  gcd,         \* external: the items of the dispatch queue that have not ended
  frame        \* the local variables of each thread in the queue's routines

queue == <<operations, lists, priority, numExec>>
limits == <<maxOps, suspended>>
queueVars == <<queueLock, queue, limits, gcd, frame>>
vars == <<opVars, queueVars>>

\* batch: the operations being added, pending: those the current loop has not
\* reached; links: what the first of them has still to be linked to; level, walk,
\* slots, retest: prio, the operations from op on, slotsAvail and retestOps of
\* _schedule(); snapshot: the operations a loop over _operations() has to visit.
Frames == [batch : Seq(Ops), pending : Seq(Ops), links : Seq(Ops), level : Nat,
           walk : Seq(Ops), slots : Int, retest : Seq(Ops), snapshot : Seq(Ops)]
NoFrame == [batch |-> <<>>, pending |-> <<>>, links |-> <<>>, level |-> 0,
            walk |-> <<>>, slots |-> 0, retest |-> <<>>, snapshot |-> <<>>]

\* Int32.max, for defaultMaxConcurrentOperationCount: more than all operations.
Unlimited == Cardinality(Ops) + 1

QueueInit ==
  /\ queueLock = None
  /\ operations = <<>>
  /\ lists = [k \in Levels |-> <<>>]
  /\ priority = [o \in Ops |-> IF o \in Barriers THEN 0 ELSE None]
  /\ numExec = 0
  /\ maxOps = Unlimited
  /\ suspended = FALSE
  /\ gcd = <<>>
  /\ frame = [t \in Threads |-> NoFrame]

Init == OpInit /\ QueueInit

Unlocked == queueLock = None

\* A linked list without its element o.
Unlinked(s, o) ==
  IF o \in ToSet(s) THEN RemoveAt(s, CHOOSE i \in DOMAIN s : s[i] = o) ELSE s

\* _lock() without _unlock().
UnlockQueueMissing == UNCHANGED queueLock

\* _unlock(), where the queue's lock was held over several actions.
UnlockQueue == queueLock' = None

\* The new operations are not held back.
NoBarriersAhead == <<>>

\* The barriers that wait in the queue, from _firstPriorityOperation(barrier) on.
BarriersAhead == lists[0]

\* The slot is not given back.
SlotsKept == numExec

\* _decrementExecutingOperations()
SlotsAfterOne == IF numExec > 0 THEN numExec - 1 ELSE numExec

\* The operation stays in the old list too.
Copied(o, old, new) == [lists EXCEPT ![new] = Append(@, o)]

\* The priority lists once an operation has changed from one to another.
Moved(o, old, new) == [lists EXCEPT ![old] = Unlinked(@, o), ![new] = Append(@, o)]

\* What _addOperations and changePriority take for the priority of an operation that
\* has none of its own: they test __actualMaxNumOps for different values.
LevelOnAdd(o) ==
  CASE priority[o] # None -> priority[o]
    [] priority[o] = None /\ maxOps # 1 /\ qos[o] # None -> qos[o]
    [] OTHER -> Normal

LevelOnChange(o) ==
  CASE priority[o] # None -> priority[o]
    [] priority[o] = None /\ maxOps # 0 /\ qos[o] # None -> qos[o]
    [] OTHER -> Normal

-----------------------------------------------------------------------------
(* _addOperations(ops), up to the queue lock; for a barrier, all of it runs    *)
(* under the lock that addBarrierBlock took.                                   *)

AddOperations(c, batch) ==
  /\ Calls(c, <<"addOperations", batch>>)
  /\ batch # <<>>  \* if ops.isEmpty { return }
  /\ frame' = [frame EXCEPT ![c].batch = batch, ![c].pending = batch]
  /\ Goto(c, "prepare")
  /\ UNCHANGED <<graph, status, opLock, local, queueLock, queue, limits, gcd>>

\* The compare-and-swap from initialized to enqueuing, for the first of the pending
\* operations; fatalError if it is already in a queue, running or finished.
Prepare(t) ==
  LET o == Head(frame[t].pending) IN
  /\ pc[t] = "prepare"
  /\ IF state[o] = "initialized"
     THEN /\ state' = [state EXCEPT ![o] = "enqueuing"]
          /\ Goto(t, "readReady")
     ELSE /\ Goto(t, "fatal")
          /\ UNCHANGED state
  /\ local' = [local EXCEPT ![t].subject = o]
  /\ UNCHANGED <<graph, cachedReady, cancelled, attached, opLock, turn, queueVars>>

\* op._cachedIsReady = op.isReady: a read under one lock, a write under another.
ReadReady(t) ==
  LET o == local[t].subject IN
  /\ pc[t] = "readReady"
  /\ Free(o)
  /\ local' = [local EXCEPT ![t].flag = IsReady(o)]
  /\ Goto(t, "writeReady")
  /\ UNCHANGED <<graph, status, opLock, turn, queueVars>>

WriteReady(t) ==
  /\ pc[t] = "writeReady"
  /\ cachedReady' = [cachedReady EXCEPT ![local[t].subject] = local[t].flag]
  /\ local' = [local EXCEPT ![t].flag = FALSE]
  /\ Goto(t, "adopt")
  /\ UNCHANGED <<graph, state, cancelled, attached, opLock, turn, queueVars>>

\* op._adopt(queue: self, schedule:), and on to the next operation of the batch.
Adopt(t) ==
  LET o == local[t].subject
      rest == Tail(frame[t].pending) IN
  /\ pc[t] = "adopt"
  /\ Free(o)
  /\ attached' = [attached EXCEPT ![o] = TRUE]
  /\ frame' = [frame EXCEPT ![t].pending = IF rest = <<>> THEN frame[t].batch ELSE rest]
  /\ Goto(t, IF rest # <<>> THEN "prepare"
             ELSE IF o \in Barriers THEN "appendBarrier" ELSE "appendBatch")
  /\ UNCHANGED <<graph, state, cachedReady, cancelled, opLock, local, turn,
                 queueLock, queue, limits, gcd>>

\* The whole batch goes to the end of the main list.  Its first operation is to be
\* linked to the barriers that wait in the queue.
AppendBatch(t) ==
  /\ \/ pc[t] = "appendBatch" /\ Unlocked
     \/ pc[t] = "appendBarrier" /\ queueLock = t
  /\ queueLock' = t
  /\ operations' = operations \o frame[t].batch
  /\ frame' = [frame EXCEPT ![t].links = IF pc[t] = "appendBarrier" THEN <<>> ELSE BarriersAhead]
  /\ Goto(t, "link")
  /\ UNCHANGED <<graph, status, opLock, local, turn, lists, priority, numExec, limits, gcd>>

\* One call of _addDependency: for an operation, on a barrier; for a barrier that
\* addBarrierBlock makes, on an operation of the queue.
Link(t) ==
  /\ pc[t] = "link"
  /\ frame[t].links # <<>>
  /\ frame' = [frame EXCEPT ![t].links = Tail(@)]
  /\ Enter(t, Head(frame[t].pending), Head(frame[t].links), "link", "append")
  /\ UNCHANGED <<graph, status, opLock, turn, queueLock, queue, limits, gcd>>

\* Once linked, a barrier is added as any operation is.
Linked(t) ==
  LET o == Head(frame[t].pending) IN
  /\ pc[t] = "link"
  /\ frame[t].links = <<>>
  /\ Goto(t, IF o \in Barriers /\ state[o] = "initialized" THEN "prepare" ELSE "publish")
  /\ UNCHANGED <<graph, status, opLock, local, turn, queueVars>>

\* The compare-and-swap to enqueued, and the end of the list of the priority.
Publish(t) ==
  LET o == Head(frame[t].pending)
      k == LevelOnAdd(o)
      rest == Tail(frame[t].pending) IN
  /\ pc[t] = "publish"
  /\ state' = [state EXCEPT ![o] = IF @ = "enqueuing" THEN "enqueued" ELSE @]
  /\ lists' = [lists EXCEPT ![k] = Append(@, o)]
  /\ frame' = IF rest = <<>> THEN [frame EXCEPT ![t] = NoFrame]
              ELSE [frame EXCEPT ![t].pending = rest, ![t].links = BarriersAhead]
  /\ local' = [local EXCEPT ![t].after = "idle"]
  /\ IF rest = <<>> THEN UnlockQueue ELSE UNCHANGED queueLock
  /\ Goto(t, IF rest = <<>> THEN "schedule" ELSE "link")
  /\ UNCHANGED <<graph, cachedReady, cancelled, attached, opLock, turn,
                 operations, priority, numExec, limits, gcd>>

-----------------------------------------------------------------------------
(* addBarrierBlock(_:)                                                         *)

AddBarrierBlock(c, b) ==
  /\ b \in Barriers
  /\ state[b] = "initialized" /\ pc[b] = "idle"  \* a new operation each time
  /\ \A t \in Clients : frame[t].batch # <<b>>
  /\ Calls(c, <<"addBarrierBlock", b>>)
  /\ frame' = [frame EXCEPT ![c].batch = <<b>>, ![c].pending = <<b>>]
  /\ Goto(c, "addBarrier")
  /\ UNCHANGED <<graph, status, opLock, local, queueLock, queue, limits, gcd>>

\* if let op = __firstOperation
LockForBarrier(t) ==
  /\ pc[t] = "addBarrier"
  /\ Unlocked
  /\ IF operations = <<>>
     THEN Goto(t, "submitBlock") /\ UNCHANGED <<queueLock, frame>>
     ELSE /\ Goto(t, "link")
          /\ queueLock' = t
          /\ frame' = [frame EXCEPT ![t].links = operations]
  /\ UNCHANGED <<graph, status, opLock, local, turn, queue, limits, gcd>>

\* q.async(flags: .barrier, execute: barrier): the block goes to Dispatch alone.
SubmitBlock(t) ==
  LET block == Head(frame[t].pending) IN
  /\ pc[t] = "submitBlock"
  /\ gcd' = Append(gcd, block)
  /\ pc' = [pc EXCEPT ![t] = "idle", ![block] = "queued"]
  /\ UNCHANGED <<graph, status, opLock, local, turn, queueLock, queue, limits, frame>>

-----------------------------------------------------------------------------
(* _schedule()                                                                 *)

\* _lock(); slotsAvail = __actualMaxNumOps - __numExecOps
Schedule(t) ==
  /\ pc[t] = "schedule"
  /\ Unlocked
  /\ queueLock' = t
  /\ frame' = [frame EXCEPT ![t].slots = maxOps - numExec]
  /\ Goto(t, "level")
  /\ UNCHANGED <<graph, status, opLock, local, turn, queue, limits, gcd>>

\* One slot too many.
HaltedLate(t) == frame[t].slots < 0 \/ suspended

\* 0 >= slotsAvail || _suspended
Halted(t) == frame[t].slots <= 0 \/ suspended

\* The levels still to walk; an empty list is passed over without a step.
LevelsLeft(t) == {k \in Levels : k >= frame[t].level /\ lists[k] # <<>>}

\* The next list, if the queue is not full or suspended.
EnterLevel(t) ==
  /\ pc[t] = "level"
  /\ ~Halted(t)
  /\ \E k \in LevelsLeft(t) :
       /\ \A j \in LevelsLeft(t) : k <= j
       /\ frame' = [frame EXCEPT ![t].level = k, ![t].walk = lists[k]]
  /\ Goto(t, "visit")
  /\ UNCHANGED <<graph, status, opLock, local, turn, queueLock, queue, limits, gcd>>

\* The inner loop ends or breaks; _suspended is read again before the next list.
LeaveLevel(t) ==
  /\ pc[t] = "visit"
  /\ frame[t].walk = <<>> \/ Halted(t)
  /\ frame' = [frame EXCEPT ![t].level = @ + 1, ![t].walk = <<>>]
  /\ Goto(t, "level")
  /\ UNCHANGED <<graph, status, opLock, local, turn, queueLock, queue, limits, gcd>>

\* A ready operation leaves its list and is submitted to Dispatch.
Dispatch(t) ==
  LET o == Head(frame[t].walk) IN
  /\ pc[t] = "visit"
  /\ frame[t].walk # <<>>
  /\ ~Halted(t)
  /\ state[o] = "enqueued" /\ cachedReady[o]
  /\ lists' = [lists EXCEPT ![frame[t].level] = Unlinked(@, o)]
  /\ state' = [state EXCEPT ![o] = "dispatching"]
  /\ numExec' = numExec + 1
  /\ frame' = [frame EXCEPT ![t].walk = Tail(@), ![t].slots = @ - 1]
  /\ gcd' = Append(gcd, o)
  /\ pc' = [pc EXCEPT ![o] = "queued"]
  /\ UNCHANGED <<graph, cachedReady, cancelled, attached, opLock, local, turn,
                 queueLock, operations, priority, limits>>

\* _fetchCachedIsReady: the cached value is read first ...
NotReady(t) ==
  /\ pc[t] = "visit"
  /\ frame[t].walk # <<>>
  /\ ~Halted(t)
  /\ ~cachedReady[Head(frame[t].walk)]
  /\ Goto(t, "probe")
  /\ UNCHANGED <<graph, status, opLock, local, turn, queueVars>>

\* ... and if it is false the count, under the operation's lock.
Probe(t) ==
  LET o == Head(frame[t].walk) IN
  /\ pc[t] = "probe"
  /\ Free(o)
  /\ frame' = [frame EXCEPT ![t].walk = Tail(@),
                            ![t].retest = IF IsReady(o) THEN Append(@, o) ELSE @]
  /\ Goto(t, "visit")
  /\ UNCHANGED <<graph, status, opLock, local, turn, queueLock, queue, limits, gcd>>

RetestNext(t, rest) == IF rest = <<>> THEN Return(t) ELSE Goto(t, "retest")

\* The outer loop ends or breaks.
ScheduleDone(t) ==
  /\ pc[t] = "level"
  /\ Halted(t) \/ LevelsLeft(t) = {}
  /\ UnlockQueue
  /\ frame' = [frame EXCEPT ![t].level = 0, ![t].slots = 0, ![t].walk = <<>>]
  /\ RetestNext(t, frame[t].retest)
  /\ UNCHANGED <<graph, status, opLock, local, turn, queue, limits, gcd>>

\* for op in retestOps { if op.isReady { op._cachedIsReady = true } }
Retest(t) ==
  LET o == Head(frame[t].retest) IN
  /\ pc[t] = "retest"
  /\ Free(o)
  /\ IF IsReady(o)
     THEN Goto(t, "retestSet") /\ UNCHANGED frame
     ELSE /\ RetestNext(t, Tail(frame[t].retest))
          /\ frame' = [frame EXCEPT ![t].retest = Tail(@)]
  /\ UNCHANGED <<graph, status, opLock, local, turn, queueLock, queue, limits, gcd>>

RetestSet(t) ==
  /\ pc[t] = "retestSet"
  /\ cachedReady' = [cachedReady EXCEPT ![Head(frame[t].retest)] = TRUE]
  /\ frame' = [frame EXCEPT ![t].retest = Tail(@)]
  /\ RetestNext(t, Tail(frame[t].retest))
  /\ UNCHANGED <<graph, state, cancelled, attached, opLock, local, turn,
                 queueLock, queue, limits, gcd>>

-----------------------------------------------------------------------------
(* The dispatch queue (external), and what its items do before and after       *)
(* start().                                                                    *)

\* A concurrent queue starts an item once every barrier before it has ended, and a
\* barrier once everything before it has.
BeginItem(o) ==
  /\ pc[o] = "queued"
  /\ \E i \in DOMAIN gcd :
       /\ gcd[i] = o
       /\ \A j \in 1..(i - 1) : o \notin Barriers /\ gcd[j] \notin Barriers
  /\ Goto(o, IF state[o] = "dispatching" THEN "starting" ELSE "block")
  /\ UNCHANGED <<graph, status, opLock, local, turn, queueVars>>

\* _schedule(op): op._state = .starting, then op.start(), whose compare-and-swap
\* fails and which goes on because the operation is starting and has a queue.
Starting(o) ==
  /\ pc[o] = "starting"
  /\ state' = [state EXCEPT ![o] = "starting"]
  /\ Goto(o, "begin")
  /\ UNCHANGED <<graph, cachedReady, cancelled, attached, opLock, local, turn, queueVars>>

\* _operationFinished: the operation leaves the main list ...
Retire(o) ==
  /\ pc[o] = "retire"
  /\ Unlocked
  /\ queueLock' = o
  /\ operations' = Unlinked(operations, o)
  /\ numExec' = SlotsAfterOne
  /\ Goto(o, "invalidate")
  /\ UNCHANGED <<graph, status, opLock, local, turn, lists, priority, limits, gcd, frame>>

\* ... op._invalidateQueue() takes its lock under that of the queue, and the queue
\* looks for work.
Invalidate(o) ==
  /\ pc[o] = "invalidate"
  /\ Free(o)
  /\ attached' = [attached EXCEPT ![o] = FALSE]
  /\ UnlockQueue
  /\ Goto(o, "schedule")
  /\ UNCHANGED <<graph, state, cachedReady, cancelled, opLock, local, turn, queue,
                 limits, gcd, frame>>

EndItem(o) ==
  /\ pc[o] \in {"exit", "block"}
  /\ gcd' = Unlinked(gcd, o)
  /\ Goto(o, "done")
  /\ UNCHANGED <<graph, status, opLock, local, turn, queueLock, queue, limits, frame>>

-----------------------------------------------------------------------------
(* The other calls.                                                            *)

\* maxConcurrentOperationCount
SetMaxConcurrent(c, max) ==
  /\ Calls(c, <<"maxConcurrentOperationCount", max>>)
  /\ Unlocked
  /\ maxOps' = max
  /\ Enter(c, None, None, "idle", "schedule")
  /\ UNCHANGED <<graph, status, opLock, queueLock, queue, suspended, gcd, frame>>

\* isSuspended, written without the queue lock.
SetSuspended(c, newValue) ==
  /\ Calls(c, <<"isSuspended", newValue>>)
  /\ suspended' = newValue
  /\ Enter(c, None, None, "idle", IF newValue THEN "idle" ELSE "schedule")
  /\ UNCHANGED <<graph, status, opLock, queueLock, queue, maxOps, gcd, frame>>

\* queuePriority, and changePriority up to the queue lock.
SetQueuePriority(c, o, k) ==
  /\ o \notin Barriers
  /\ k # 0
  /\ Calls(c, <<"queuePriority", o, k>>)
  /\ Free(o)
  /\ frame' = [frame EXCEPT ![c].level = IF attached[o] THEN k ELSE 0]
  /\ priority' = [priority EXCEPT ![o] = IF attached[o] THEN @ ELSE k]
  /\ Enter(c, o, None, "idle", IF attached[o] THEN "changePriority" ELSE "idle")
  /\ UNCHANGED <<graph, status, opLock, queueLock, operations, lists, numExec, limits, gcd>>

\* An operation that waits in the list of its old priority moves to the end of that
\* of the new one.
ChangePriority(t) ==
  LET o == local[t].subject
      new == frame[t].level
      old == LevelOnChange(o)
      moves == old # new /\ o \in ToSet(lists[old]) IN
  /\ pc[t] = "changePriority"
  /\ Unlocked
  /\ priority' = [priority EXCEPT ![o] = IF old # new THEN new ELSE @]
  /\ lists' = IF moves THEN Moved(o, old, new) ELSE lists
  /\ frame' = [frame EXCEPT ![t].level = 0]
  /\ Goto(t, "idle")
  /\ UNCHANGED <<graph, status, opLock, local, turn, queueLock, operations, numExec,
                 limits, gcd>>

\* cancelAllOperations: cancel() on each operation of _operations().
CancelAllOperations(c) ==
  /\ Calls(c, <<"cancelAllOperations">>)
  /\ Unlocked
  /\ frame' = [frame EXCEPT ![c].snapshot = operations]
  /\ Goto(c, "cancelAll")
  /\ UNCHANGED <<graph, status, opLock, local, queueLock, queue, limits, gcd>>

CancelNext(t) ==
  /\ pc[t] = "cancelAll"
  /\ frame[t].snapshot # <<>>
  /\ frame' = [frame EXCEPT ![t].snapshot = Tail(@)]
  /\ Enter(t, Head(frame[t].snapshot), None, "cancelAll", "cancel")
  /\ UNCHANGED <<graph, status, opLock, turn, queueLock, queue, limits, gcd>>

CancelledAll(t) ==
  /\ pc[t] = "cancelAll"
  /\ frame[t].snapshot = <<>>
  /\ Goto(t, "idle")
  /\ UNCHANGED <<graph, status, opLock, local, turn, queueVars>>

\* waitUntilAllOperationsAreFinished: waits for each operation of _operations(), and
\* again until there is none.
WaitUntilAllOperationsAreFinished(c) ==
  /\ Calls(c, <<"waitUntilAllOperationsAreFinished">>)
  /\ Goto(c, "waitAll")
  /\ UNCHANGED <<graph, status, opLock, local, queueVars>>

SnapshotAll(t) ==
  /\ pc[t] = "waitAll"
  /\ Unlocked
  /\ frame' = [frame EXCEPT ![t].snapshot = operations]
  /\ Goto(t, IF operations = <<>> THEN "idle" ELSE "waitNext")
  /\ UNCHANGED <<graph, status, opLock, local, turn, queueLock, queue, limits, gcd>>

WaitNext(t) ==
  /\ pc[t] = "waitNext"
  /\ IF frame[t].snapshot = <<>>
     THEN Goto(t, "waitAll") /\ UNCHANGED <<local, frame>>
     ELSE /\ frame' = [frame EXCEPT ![t].snapshot = Tail(@)]
          /\ Enter(t, Head(frame[t].snapshot), None, "waitNext", "wait")
  /\ UNCHANGED <<graph, status, opLock, turn, queueLock, queue, limits, gcd>>

-----------------------------------------------------------------------------

\* The steps of a thread inside a call of the queue, and those of the thread that
\* runs an operation.
QueueStep(t) ==
  \/ Prepare(t)
  \/ ReadReady(t)
  \/ WriteReady(t)
  \/ Adopt(t)
  \/ AppendBatch(t)
  \/ Link(t)
  \/ Linked(t)
  \/ Publish(t)
  \/ LockForBarrier(t)
  \/ SubmitBlock(t)
  \/ Schedule(t)
  \/ EnterLevel(t)
  \/ LeaveLevel(t)
  \/ Dispatch(t)
  \/ NotReady(t)
  \/ Probe(t)
  \/ ScheduleDone(t)
  \/ Retest(t)
  \/ RetestSet(t)
  \/ ChangePriority(t)
  \/ CancelNext(t)
  \/ CancelledAll(t)
  \/ SnapshotAll(t)
  \/ WaitNext(t)

ItemStep(o) ==
  \/ BeginItem(o)
  \/ Starting(o)
  \/ Retire(o)
  \/ Invalidate(o)
  \/ EndItem(o)

QueueCall(c) ==
  \/ \E batch \in Batches : AddOperations(c, batch)
  \/ \E o \in Ops : AddBarrierBlock(c, o) \/ \E k \in Levels : SetQueuePriority(c, o, k)
  \/ \E max \in 0..Unlimited : SetMaxConcurrent(c, max)
  \/ \E newValue \in BOOLEAN : SetSuspended(c, newValue)
  \/ CancelAllOperations(c)
  \/ WaitUntilAllOperationsAreFinished(c)

Next ==
  \/ OpNext /\ UNCHANGED queueVars
  \/ Running /\ \/ \E t \in Threads : QueueStep(t)
                \/ \E o \in Ops : ItemStep(o)
                \/ \E c \in Clients : QueueCall(c)

Spec == Init /\ [][Next]_vars

\* Threads are scheduled, Dispatch starts what it may start, main() returns, and
\* clients go on with their programs.
Fairness ==
  /\ \A o \in Ops :
       WF_vars(((CallStep(o) \/ RunStep(o)) /\ UNCHANGED queueVars) \/ QueueStep(o) \/ ItemStep(o))
  /\ \A c \in Clients :
       WF_vars(((CallStep(c) \/ ClientCall(c)) /\ UNCHANGED queueVars) \/ QueueStep(c) \/ QueueCall(c))

FairSpec == Spec /\ Fairness

-----------------------------------------------------------------------------

TypeOK ==
  /\ OpTypeOK
  /\ queueLock \in Threads \cup {None}
  /\ operations \in Seq(Ops)
  /\ lists \in [Levels -> Seq(Ops)]
  /\ priority \in [Ops -> Levels \cup {None}]
  /\ numExec \in Nat
  /\ maxOps \in 0..Unlimited
  /\ suspended \in BOOLEAN
  /\ gcd \in Seq(Ops)
  /\ frame \in [Threads -> Frames]

\* The places of an operation in the priority lists.
Places(o) ==
  {p \in UNION {{k} \X DOMAIN lists[k] : k \in Levels} : lists[p[1]][p[2]] = o}

\* An operation is in one priority list, once, while it is enqueued, and in none
\* before or after: neither a dispatch nor a change of priority that meets it on the
\* way loses it (it would never run) or leaves it behind (it would run twice).
EnqueuedIsListed ==
  \A o \in Ops : Cardinality(Places(o)) = IF state[o] = "enqueued" THEN 1 ELSE 0

\* The operations that the queue has dispatched and that have not left it.
InFlight == {o \in ToSet(operations) : Rank[state[o]] >= Rank["dispatching"]}

\* __numExecOps counts exactly those, so that every slot that is taken is given back:
\* once, whether the operation was executed or cancelled, and not by the block of a
\* barrier that the queue never counted.
SlotsAreCounted == numExec = Cardinality(InFlight)

\* A dispatch stays within the limit of the moment: the slots that _schedule()
\* computed under the queue lock are still right when it hands them out, whatever
\* operations finish and whoever changes the limit meanwhile.
NoOvercommit == [][numExec' > numExec => numExec' <= maxOps']_vars

\* What a queue promises of concurrency: it implements the pool of workers.
Pool == INSTANCE WorkPool WITH
  Jobs <- Ops,
  MaxLimit <- Unlimited,
  waiting <- {o \in ToSet(operations) : Rank[state[o]] < Rank["dispatching"]},
  running <- InFlight,
  limit <- maxOps

ImplementsPool == Pool!Spec

\* A barrier runs after everything that was in the queue before it, and before
\* everything that came after.
BarrierOrder ==
  \A i, j \in DOMAIN operations :
    LET o == operations[i]
        p == operations[j] IN
    i < j /\ {o, p} \cap Barriers # {} /\ pc[p] = "main" /\ ~cancelled[p] => IsFinished(o)

\* The locks that the queue's routines wait for, besides those of Wanted.
WantsQueue(t) ==
  pc[t] \in {"appendBatch", "addBarrier", "schedule", "retire", "changePriority", "waitAll"}

WantsOp(t) ==
  CASE pc[t] \in {"readReady", "adopt"} -> {local[t].subject}
    [] pc[t] = "probe"      -> {Head(frame[t].walk)}
    [] pc[t] = "retest"     -> {Head(frame[t].retest)}
    [] pc[t] = "invalidate" -> {t}
    [] OTHER                -> Wanted(t)

\* No threads wait for locks, of operations or of the queue, that they hold between
\* them; in particular no thread waits for one it holds itself.
NoDeadlock ==
  \A S \in (SUBSET Threads) \ {{}} :
    \E t \in S :
      /\ WantsQueue(t) => queueLock \notin S
      /\ WantsOp(t) # {} => \E o \in WantsOp(t) : opLock[o] \notin S

\* Every client has made all its calls but those that wait.
Settled ==
  \A c \in Clients : \/ pc[c] \in {"asleep", "wait", "waitNext", "waitAll"}
                     \/ pc[c] = "idle" /\ turn[c] \notin DOMAIN Program[c]

\* An operation that is enqueued gets to run and finishes, once the queue is left to
\* itself, not suspended and with slots: no wakeup is lost between a dependency that
\* finishes and the queue that looks for ready operations.
QueueDrains ==
  \A o \in Ops :
    state[o] = "enqueued" /\ Settled /\ ~suspended /\ maxOps > 0 ~> state[o] = "finished"
================================================================================
