------------------------------- MODULE Operation -------------------------------
(***************************************************************************)
(* Operation (src/Sources/Foundation/Operation.swift): the life of an       *)
(* operation, the dependencies between operations, cancellation and         *)
(* waitUntilFinished.  The queue is the module OperationQueue, which        *)
(* extends this one.                                                        *)
(*                                                                         *)
(* Threads are the clients of the API and, for each operation o, the one    *)
(* thread that runs o.start(); that thread is called o too.  An action is   *)
(* one critical section of __lock or one access under __atomicLoad; where   *)
(* the code holds one lock and takes another, taking the first is an action *)
(* of its own.  NSLock is not recursive: a thread that takes a lock it holds *)
(* waits for ever.  The build modelled is the release build, in which       *)
(* assert() does nothing: the assertions are stated as AssertionsHold.      *)
(***************************************************************************)
EXTENDS Integers, Sequences, FiniteSets

CONSTANTS
  Ops,       \* the operations, those that addBarrierBlock creates included
  Barriers,  \* the latter: instances of _BarrierOperation
  Clients,   \* the threads that call the API
  Program,   \* Program[c][i]: the calls of which client c makes one, as its i-th
  None       \* nil: no owner, no operation

Threads == Ops \cup Clients

ASSUME OperationConstants ==
  /\ Barriers \subseteq Ops
  /\ Ops \cap Clients = {}
  /\ None \notin Threads

VARIABLES
  state,        \* __state
  deps,         \* __dependencies; the order of the array is left out
  downs,        \* __downDependencies
  unfinished,   \* __unfinishedDependencyCount
  cachedReady,  \* __cachedIsReady
  cancelled,    \* __isCancelled
  attached,     \* __queue != nil
  opLock,       \* the owner of __lock
  pc,           \* where each thread is
  local,        \* the local variables of each thread
  turn          \* how far each client is in its program

graph  == <<deps, downs, unfinished>>
status == <<state, cachedReady, cancelled, attached>>
opVars == <<graph, status, opLock, pc, local, turn>>

\* __NSOperationState, by raw value.
Rank == [initialized |-> 0, enqueuing |-> 1, enqueued |-> 2, dispatching |-> 3,
         starting |-> 4, executing |-> 5, finishing |-> 6, finished |-> 7]

\* isFinished
IsFinished(o) == Rank[state[o]] >= Rank["finishing"]

\* Where a thread may be in a call, on the thread of an operation, and in a call of
\* the queue.
CallLabels ==
  {"idle", "testReady", "setReady", "fetchQueue", "append", "linkUp", "linkSelf", "find",
   "unlinkUp", "unlinkSelf", "cancel", "markCancelled", "testExecuting", "clearCount",
   "wait", "asleep", "fatal"}
RunLabels ==
  {"checkReady", "begin", "execute", "main", "detach", "detachNext", "detachSelf",
   "finishing", "finish", "notify", "ready", "done"}
QueueLabels ==
  {"prepare", "readReady", "writeReady", "adopt", "appendBatch", "appendBarrier", "link",
   "publish", "addBarrier", "submitBlock", "schedule", "level", "visit", "probe", "retest",
   "retestSet", "queued", "block", "starting", "retire", "invalidate", "exit",
   "changePriority", "cancelAll", "waitAll", "waitNext"}
Labels == CallLabels \cup RunLabels \cup QueueLabels

\* subject: the operation the call is about; other: its dependency; after: where
\* the call returns to; flag: what isReady returned; todo, ready: down_deps and
\* ready_deps of the thread that finishes an operation, and todo the dependencies
\* _removeAllDependencies has still to visit; queued: oq != nil, in toFinished.
Returns == {"idle", "ready", "exit", "link", "cancelAll", "waitNext"}
Locals == [subject : Ops \cup {None}, other : Ops \cup {None}, after : Returns,
           flag : BOOLEAN, todo : SUBSET Ops, ready : Seq(Ops), queued : BOOLEAN]
NoLocal == [subject |-> None, other |-> None, after |-> "idle", flag |-> FALSE,
            todo |-> {}, ready |-> <<>>, queued |-> FALSE]

OpInit ==
  /\ state = [o \in Ops |-> "initialized"]
  /\ deps = [o \in Ops |-> {}]
  /\ downs = [o \in Ops |-> {}]
  /\ unfinished = [o \in Ops |-> 0]
  /\ cachedReady = [o \in Ops |-> TRUE]
  /\ cancelled = [o \in Ops |-> FALSE]
  /\ attached = [o \in Ops |-> FALSE]
  /\ opLock = [o \in Ops |-> None]
  /\ pc = [t \in Threads |-> "idle"]
  /\ local = [t \in Threads |-> NoLocal]
  /\ turn = [c \in Clients |-> 1]

Free(o) == opLock[o] = None

\* _lock() without _unlock().
UnlockMissing(o) == UNCHANGED opLock

\* _unlock(), where a lock was held over several actions.
Unlock(o) == opLock' = [opLock EXCEPT ![o] = None]

\* isReady
IsReady(o) == unfinished[o] = 0

\* Neither state looked at.
CountsAlways(o, up) == TRUE

\* Only a dependency that is in a queue counts.
CountsInQueue(o, up) == attached[up] /\ ~cancelled[o]

\* A dependency counts if it has not finished and the operation is not cancelled.
Counts(o, up) == state[up] # "finished" /\ ~cancelled[o]

\* What toFinished leaves of the count of a dependent: the last dependency is not
\* counted off yet.
Lowered(count) == IF count > 1 THEN count - 1 ELSE count

\* No broadcast.
WokenNone(o) == {}

\* __waitCondition.broadcast()
Woken(o) == {t \in Threads : pc[t] = "asleep" /\ local[t].subject = o}

Goto(t, label) == pc' = [pc EXCEPT ![t] = label]

Return(t) == Goto(t, local[t].after)

\* Client c makes one of the calls its program lists next.
Calls(c, call) ==
  /\ pc[c] = "idle"
  /\ turn[c] \in DOMAIN Program[c]
  /\ call \in Program[c][turn[c]]
  /\ turn' = [turn EXCEPT ![c] = @ + 1]

\* The routine returns to its own beginning.
EnterAgain(t, o, up, after, label) ==
  /\ local' = [local EXCEPT ![t].subject = o, ![t].other = up, ![t].after = label]
  /\ Goto(t, label)

\* Thread t enters a routine about o (and its dependency up).
Enter(t, o, up, after, label) ==
  /\ local' = [local EXCEPT ![t].subject = o, ![t].other = up, ![t].after = after]
  /\ Goto(t, label)

-----------------------------------------------------------------------------
(* observeValue, case toReady: recompute the cached readiness, then have the *)
(* queue look for work.                                                      *)

\* let r = op.isReady
TestReady(t) ==
  LET o == local[t].subject IN
  /\ pc[t] = "testReady"
  /\ Free(o)
  /\ local' = [local EXCEPT ![t].flag = IsReady(o)]
  /\ Goto(t, "setReady")
  /\ UNCHANGED <<graph, status, opLock, turn>>

\* op._cachedIsReady = r
SetReady(t) ==
  /\ pc[t] = "setReady"
  /\ cachedReady' = [cachedReady EXCEPT ![local[t].subject] = local[t].flag]
  /\ Goto(t, "fetchQueue")
  /\ UNCHANGED <<graph, state, cancelled, attached, opLock, local, turn>>

\* let q = op._queue; if r { q?._schedule() }
FetchQueue(t) ==
  LET o == local[t].subject IN
  /\ pc[t] = "fetchQueue"
  /\ Free(o)
  /\ local' = [local EXCEPT ![t].flag = FALSE]
  /\ Goto(t, IF local[t].flag /\ attached[o] THEN "schedule" ELSE local[t].after)
  /\ UNCHANGED <<graph, status, opLock, turn>>

-----------------------------------------------------------------------------
(* addDependency and removeDependency.                                       *)

AddDependency(c, o, up) ==
  /\ o # up
  /\ Calls(c, <<"addDependency", o, up>>)
  /\ Enter(c, o, up, "idle", "append")
  /\ UNCHANGED <<graph, status, opLock>>

\* if __dependencies has no op yet { append it; up = op }
AppendDependency(t) ==
  LET o == local[t].subject
      up == local[t].other IN
  /\ pc[t] = "append"
  /\ Free(o)
  /\ deps' = [deps EXCEPT ![o] = @ \cup {up}]
  /\ Goto(t, IF up \in deps[o] THEN "testReady" ELSE "linkUp")
  /\ UNCHANGED <<downs, unfinished, status, opLock, local, turn>>

\* upwards._lock(), with its own lock still to take, to link or to unlink.
LockUp(t) ==
  /\ pc[t] \in {"linkUp", "unlinkUp"}
  /\ Free(local[t].other)
  /\ opLock' = [opLock EXCEPT ![local[t].other] = t]
  /\ Goto(t, IF pc[t] = "linkUp" THEN "linkSelf" ELSE "unlinkSelf")
  /\ UNCHANGED <<graph, status, local, turn>>

\* A dependency that counts will notify the operation.
LinkSelf(t) ==
  LET o == local[t].subject
      up == local[t].other IN
  /\ pc[t] = "linkSelf"
  /\ Free(o)
  /\ unfinished' = [unfinished EXCEPT ![o] = IF Counts(o, up) THEN @ + 1 ELSE @]
  /\ downs' = [downs EXCEPT ![up] = IF Counts(o, up) THEN @ \cup {o} ELSE @]
  /\ Unlock(up)
  /\ Goto(t, "testReady")
  /\ UNCHANGED <<deps, status, local, turn>>

RemoveDependency(c, o, up) ==
  /\ o # up
  /\ Calls(c, <<"removeDependency", o, up>>)
  /\ Enter(c, o, up, "idle", "find")
  /\ UNCHANGED <<graph, status, opLock>>

\* if __dependencies has op
Find(t) ==
  LET o == local[t].subject IN
  /\ pc[t] = "find"
  /\ Free(o)
  /\ Goto(t, IF local[t].other \in deps[o] THEN "unlinkUp" ELSE "testReady")
  /\ UNCHANGED <<graph, status, opLock, local, turn>>

\* Only the count of a cancelled operation whose dependency has finished goes down.
UnlinkSelf(t) ==
  LET o == local[t].subject
      up == local[t].other
      discounts == up \in deps[o] /\ state[up] = "finished" /\ cancelled[o] IN
  /\ pc[t] = "unlinkSelf"
  /\ Free(o)
  /\ unfinished' = [unfinished EXCEPT ![o] = IF discounts THEN @ - 1 ELSE @]
  /\ downs' = [downs EXCEPT ![up] = IF up \in deps[o] THEN @ \ {o} ELSE @]
  /\ deps' = [deps EXCEPT ![o] = @ \ {up}]
  /\ Unlock(up)
  /\ Goto(t, "testReady")
  /\ UNCHANGED <<status, local, turn>>

-----------------------------------------------------------------------------
(* cancel()                                                                  *)

Cancel(c, o) ==
  /\ Calls(c, <<"cancel", o>>)
  /\ Enter(c, o, None, "idle", "cancel")
  /\ UNCHANGED <<graph, status, opLock>>

\* The flag is never set.
CancelUnmarked(t) ==
  /\ pc[t] = "cancel"
  /\ IF IsFinished(local[t].subject) THEN Return(t) ELSE Goto(t, "testExecuting")
  /\ UNCHANGED <<graph, status, opLock, local, turn>>

\* if isFinished { return }
CancelUnlessFinished(t) ==
  /\ pc[t] = "cancel"
  /\ IF IsFinished(local[t].subject) THEN Return(t) ELSE Goto(t, "markCancelled")
  /\ UNCHANGED <<graph, status, opLock, local, turn>>

\* __isCancelled = true
MarkCancelled(t) ==
  /\ pc[t] = "markCancelled"
  /\ cancelled' = [cancelled EXCEPT ![local[t].subject] = TRUE]
  /\ Goto(t, "testExecuting")
  /\ UNCHANGED <<graph, state, cachedReady, attached, opLock, local, turn>>

\* if executing <= _state { return }
TestExecuting(t) ==
  /\ pc[t] = "testExecuting"
  /\ IF Rank[state[local[t].subject]] >= Rank["executing"]
     THEN Return(t)
     ELSE Goto(t, "clearCount")
  /\ UNCHANGED <<graph, status, opLock, local, turn>>

\* __unfinishedDependencyCount = 0
ClearCount(t) ==
  LET o == local[t].subject IN
  /\ pc[t] = "clearCount"
  /\ Free(o)
  /\ unfinished' = [unfinished EXCEPT ![o] = 0]
  /\ Goto(t, "testReady")
  /\ UNCHANGED <<deps, downs, status, opLock, local, turn>>

-----------------------------------------------------------------------------
(* start(), on the thread of the operation.                                  *)

\* A client has a thread of its own start an operation that no queue has, and
\* that it has seen to be ready.
Start(c, o) ==
  /\ Calls(c, <<"start", o>>)
  /\ pc[o] = "idle"
  /\ state[o] = "initialized"
  /\ IsReady(o)
  /\ state' = [state EXCEPT ![o] = "starting"]
  /\ Goto(o, "checkReady")
  /\ UNCHANGED <<graph, cachedReady, cancelled, attached, opLock, local>>

\* fatalError("receiver is not yet ready to execute")
CheckReady(o) ==
  /\ pc[o] = "checkReady"
  /\ Free(o)
  /\ Goto(o, IF IsReady(o) THEN "begin" ELSE "fatal")
  /\ UNCHANGED <<graph, status, opLock, local, turn>>

\* let isCanc = _isCancelled
Begin(o) ==
  /\ pc[o] = "begin"
  /\ Goto(o, IF cancelled[o] THEN "finishing" ELSE "execute")
  /\ UNCHANGED <<graph, status, opLock, local, turn>>

Execute(o) ==
  /\ pc[o] = "execute"
  /\ state' = [state EXCEPT ![o] = "executing"]
  /\ Goto(o, "main")
  /\ UNCHANGED <<graph, cachedReady, cancelled, attached, opLock, local, turn>>

\* main() returns; that of a barrier still has _removeAllDependencies to do.
Main(o) ==
  /\ pc[o] = "main"
  /\ Goto(o, IF o \in Barriers THEN "detach" ELSE "finishing")
  /\ UNCHANGED <<graph, status, opLock, local, turn>>

Detach(o) ==
  /\ pc[o] = "detach"
  /\ Free(o)
  /\ local' = [local EXCEPT ![o].todo = deps[o]]
  /\ deps' = [deps EXCEPT ![o] = {}]
  /\ Goto(o, "detachNext")
  /\ UNCHANGED <<downs, unfinished, status, opLock, turn>>

DetachUp(o) ==
  /\ pc[o] = "detachNext"
  /\ \E up \in local[o].todo :
       /\ Free(up)
       /\ opLock' = [opLock EXCEPT ![up] = o]
       /\ local' = [local EXCEPT ![o].other = up, ![o].todo = @ \ {up}]
  /\ Goto(o, "detachSelf")
  /\ UNCHANGED <<graph, status, turn>>

DetachSelf(o) ==
  LET up == local[o].other IN
  /\ pc[o] = "detachSelf"
  /\ Free(o)
  /\ unfinished' = [unfinished EXCEPT ![o] = IF Counts(o, up) THEN @ - 1 ELSE @]
  /\ downs' = [downs EXCEPT ![up] = @ \ {o}]
  /\ Unlock(up)
  /\ Goto(o, "detachNext")
  /\ UNCHANGED <<deps, status, local, turn>>

Finishing(o) ==
  /\ \/ pc[o] = "finishing"
     \/ pc[o] = "detachNext" /\ local[o].todo = {}
  /\ state' = [state EXCEPT ![o] = "finishing"]
  /\ Goto(o, "finish")
  /\ UNCHANGED <<graph, cachedReady, cancelled, attached, opLock, local, turn>>

-----------------------------------------------------------------------------
(* observeValue, case toFinished, on the thread of the operation.            *)

\* op._lock(); down_deps = op.__downDependencies, emptied
Finish(o) ==
  /\ pc[o] = "finish"
  /\ Free(o)
  /\ opLock' = [opLock EXCEPT ![o] = o]
  /\ local' = [local EXCEPT ![o].todo = downs[o], ![o].ready = <<>>]
  /\ downs' = [downs EXCEPT ![o] = {}]
  /\ Goto(o, "notify")
  /\ UNCHANGED <<deps, unfinished, status, turn>>

\* One dependent, under the locks of both: its count goes down, unless this is
\* the last it waits for.
Notify(o) ==
  /\ pc[o] = "notify"
  /\ \E d \in local[o].todo :
       /\ Free(d)
       /\ unfinished' = [unfinished EXCEPT ![d] = Lowered(@)]
       /\ local' = [local EXCEPT ![o].todo = @ \ {d},
                                 ![o].ready = IF unfinished[d] = 1 THEN Append(@, d) ELSE @]
  /\ UNCHANGED <<deps, downs, status, opLock, pc, turn>>

\* op._state = .finished; oq = op.__queue, cleared; op._unlock()
Finished(o) ==
  /\ pc[o] = "notify"
  /\ local[o].todo = {}
  /\ state' = [state EXCEPT ![o] = "finished"]
  /\ local' = [local EXCEPT ![o].queued = attached[o]]
  /\ attached' = [attached EXCEPT ![o] = FALSE]
  /\ Unlock(o)
  /\ Goto(o, "ready")
  /\ UNCHANGED <<graph, cachedReady, cancelled, turn>>

\* One of ready_deps: its count reaches zero, and it is told that it is ready.
Ready(o) ==
  /\ pc[o] = "ready"
  /\ local[o].ready # <<>>
  /\ LET d == Head(local[o].ready) IN
       /\ Free(d)
       /\ unfinished' = [unfinished EXCEPT ![d] = IF @ >= 1 THEN @ - 1 ELSE @]
       /\ local' = [local EXCEPT ![o].ready = Tail(@), ![o].subject = d, ![o].after = "ready"]
  /\ Goto(o, "testReady")
  /\ UNCHANGED <<deps, downs, status, opLock, turn>>

\* op.__waitCondition.broadcast(); then _operationFinished, if there was a queue.
Broadcast(o) ==
  /\ pc[o] = "ready"
  /\ local[o].ready = <<>>
  /\ pc' = [t \in Threads |->
              IF t = o THEN (IF local[o].queued THEN "retire" ELSE "done")
              ELSE IF t \in Woken(o) THEN "wait" ELSE pc[t]]
  /\ local' = [local EXCEPT ![o].after = "exit"]
  /\ UNCHANGED <<graph, status, opLock, turn>>

-----------------------------------------------------------------------------
(* waitUntilFinished()                                                       *)

WaitUntilFinished(c, o) ==
  /\ Calls(c, <<"waitUntilFinished", o>>)
  /\ Enter(c, o, None, "idle", "wait")
  /\ UNCHANGED <<graph, status, opLock>>

\* while !isFinished { __waitCondition.wait() }, which a wakeup leads back to.
Wait(t) ==
  /\ pc[t] = "wait"
  /\ IF IsFinished(local[t].subject) THEN Return(t) ELSE Goto(t, "asleep")
  /\ UNCHANGED <<graph, status, opLock, local, turn>>

SpuriousWakeup(t) ==
  /\ pc[t] = "asleep"
  /\ Goto(t, "wait")
  /\ UNCHANGED <<graph, status, opLock, local, turn>>

-----------------------------------------------------------------------------

\* The steps a thread takes inside a call, whichever thread it is.
CallStep(t) ==
  \/ TestReady(t)
  \/ SetReady(t)
  \/ FetchQueue(t)
  \/ AppendDependency(t)
  \/ LockUp(t)
  \/ LinkSelf(t)
  \/ Find(t)
  \/ UnlinkSelf(t)
  \/ CancelUnlessFinished(t)
  \/ MarkCancelled(t)
  \/ TestExecuting(t)
  \/ ClearCount(t)
  \/ Wait(t)

\* The steps of start() on the thread of an operation.
RunStep(o) ==
  \/ CheckReady(o)
  \/ Begin(o)
  \/ Execute(o)
  \/ Main(o)
  \/ Detach(o)
  \/ DetachUp(o)
  \/ DetachSelf(o)
  \/ Finishing(o)
  \/ Finish(o)
  \/ Notify(o)
  \/ Finished(o)
  \/ Ready(o)
  \/ Broadcast(o)

ClientCall(c) ==
  \E o \in Ops :
    \/ \E up \in Ops : AddDependency(c, o, up) \/ RemoveDependency(c, o, up)
    \/ Cancel(c, o)
    \/ Start(c, o)
    \/ WaitUntilFinished(c, o)

\* fatalError ends the program.
Running == \A t \in Threads : pc[t] # "fatal"

OpNext ==
  /\ Running
  /\ \/ \E t \in Threads : CallStep(t) \/ SpuriousWakeup(t)
     \/ \E o \in Ops : RunStep(o)
     \/ \E c \in Clients : ClientCall(c)

OpSpec == OpInit /\ [][OpNext]_opVars

\* Threads are scheduled, main() returns, and clients go on with their programs.
OpFairness ==
  /\ \A o \in Ops : WF_opVars(CallStep(o) \/ RunStep(o))
  /\ \A c \in Clients : WF_opVars(CallStep(c) \/ ClientCall(c))

OpFairSpec == OpSpec /\ OpFairness

-----------------------------------------------------------------------------

OpTypeOK ==
  /\ state \in [Ops -> DOMAIN Rank]
  /\ deps \in [Ops -> SUBSET Ops]
  /\ downs \in [Ops -> SUBSET Ops]
  /\ unfinished \in [Ops -> Int]
  /\ cachedReady \in [Ops -> BOOLEAN]
  /\ cancelled \in [Ops -> BOOLEAN]
  /\ attached \in [Ops -> BOOLEAN]
  /\ opLock \in [Ops -> Threads \cup {None}]
  /\ pc \in [Threads -> Labels]
  /\ local \in [Threads -> Locals]
  /\ turn \in [Clients -> Nat]

\* The dependencies that still owe o a notification: those that list it and have not
\* finished, and those whose thread, in toFinished, has o left to notify or to make
\* ready.
Owing(o) ==
  {d \in Ops : \/ o \in downs[d] /\ state[d] # "finished"
               \/ pc[d] = "notify" /\ o \in local[d].todo
               \/ o \in {local[d].ready[i] : i \in DOMAIN local[d].ready}}

\* The count of an operation that is not cancelled is the number of dependencies
\* that will still lower it: none is counted that has finished without telling it
\* (the operation would never run), and none will tell it that is not counted (it
\* would run before another dependency), in whatever order several dependencies
\* finish while others are being added.
CountIsOwed == \A o \in Ops : cancelled[o] \/ unfinished[o] = Cardinality(Owing(o))

\* The assertions of the code, where it makes them: toFinished finds a count below
\* one only on a cancelled operation, and then it is zero; _addDependency never
\* counts a dependency on top of a negative count.
AssertionsHold ==
  /\ \A o \in Ops : pc[o] = "notify" =>
       \A d \in local[o].todo : unfinished[d] < 1 => unfinished[d] = 0 /\ cancelled[d]
  /\ \A t \in Threads :
       pc[t] = "linkSelf" /\ ~cancelled[local[t].subject] => unfinished[local[t].subject] >= 0

\* The locks a thread needs for its next step, and holds others meanwhile.
Wanted(t) ==
  CASE pc[t] \in {"testReady", "fetchQueue", "append", "linkSelf", "find",
                  "unlinkSelf", "clearCount"} -> {local[t].subject}
    [] pc[t] \in {"linkUp", "unlinkUp"} -> {local[t].other}
    [] pc[t] \in {"detach", "detachSelf", "finish"} -> {t}
    [] pc[t] \in {"detachNext", "notify"} -> local[t].todo
    [] OTHER -> {}

\* No threads wait for the locks of operations that they hold between them.
NoLockCycle ==
  \A S \in (SUBSET Threads) \ {{}} :
    \E t \in S : \/ Wanted(t) = {}
                 \/ \E o \in Wanted(t) : opLock[o] \notin S

\* No operation runs while a dependency of it is still to finish, unless it was
\* cancelled: main() comes after isFinished of all of them, however their last
\* notifications overlap (a client links operations before they are started).
DependenciesFirst ==
  \A o \in Ops : pc[o] = "main" /\ ~cancelled[o] => \A up \in deps[o] : IsFinished(up)

\* waitUntilFinished does not sleep through the broadcast: the thread of an
\* operation that has finished still has its broadcast to make while anyone sleeps.
NoSleeperForgotten ==
  \A c \in Clients : pc[c] = "asleep" /\ IsFinished(local[c].subject) =>
    LET o == local[c].subject IN
      pc[o] \in {"finish", "notify", "ready"} \/ local[o].after = "ready"

\* Every operation that was started finishes, and everyone who waits for it
\* returns.
StartedFinishes ==
  /\ \A o \in Ops : pc[o] = "begin" ~> pc[o] = "done"
  /\ \A c \in Clients :
       pc[c] = "asleep" /\ pc[local[c].subject] = "begin" ~> pc[c] = "idle"
================================================================================
