# A TLA+ model of swift-corelibs-foundation

This directory holds a TLA+ specification of the concurrent core of
swift-corelibs-foundation, the configurations that model-check it with TLC, and
theorems about it proved with TLAPS. `PROJECT.json` relates every definition to
the lines of the source it models and lists the runs, the hazards and the
theorems. Paths below are relative to the repository (`src/`).

Foundation is a large library, most of which is data: strings, dates, formats,
files. What is hard to get right and hard to test is the part in which several
threads meet, and that is what is modelled: operations and operation queues,
whose 1400 lines of `Operation.swift` use fine-grained locks, cached flags, linked
lists and two-step notifications; the condition lock; the run loop of
CoreFoundation with its sources, observers, blocks and timers; and the task of a
URL session, whose state is shared by a work queue, a delegate queue, a timer and
the thread of a cache.

## 1. Inventory

| Component | State | Operations | Meets | What is hard | What makes it correct |
|---|---|---|---|---|---|
| **Operation** (`Sources/Foundation/Operation.swift`, 1-730) | `__state` (8 values), `__dependencies`, `__downDependencies`, `__unfinishedDependencyCount`, `__cachedIsReady`, `__isCancelled`, `__queue`, a lock, a condition variable | `addDependency`, `removeDependency`, `cancel`, `start`, `waitUntilFinished`, `queuePriority`, `changePriority` | other operations, through notifications under two locks; its queue, when it is ready or finished | any number of threads call all of these while the operation runs and its dependencies finish | dependencies first; everything ready runs, once; who waits is woken; no cycle of locks |
| **OperationQueue** (the same file, 730-1410) | main list, one list per priority, `__numExecOps`, `__actualMaxNumOps`, `__suspended`, a lock | `addOperation(s)`, `addBarrierBlock`, `_schedule`, `_operationFinished`, `maxConcurrentOperationCount`, `isSuspended`, `cancelAllOperations`, `waitUntilAllOperationsAreFinished` | Dispatch, which runs the items; operations, whose locks it takes under its own | `_schedule` runs on every thread that makes something ready; its caches may be stale | the limit; slots given back once; order of barriers; the queue drains; no deadlock |
| **NSConditionLock, NSCondition** (`Sources/Foundation/NSLock.swift`, 127-430) | owner, condition, a mutex and a condition variable | `lock`, `try`, `lock(before:)`, `lock(whenCondition:before:)`, `unlock(withCondition:)`, `wait(until:)` | pthreads | several threads sleep for different conditions, deadlines pass, wakeups are spurious | mutual exclusion; no lost wakeup; a call with a deadline returns |
| **NSLock, NSRecursiveLock** (`NSLock.swift`, 29-125, 235-340, 435-510) | a mutex, and a second mutex and condition variable for time-outs | `lock`, `try`, `unlock`, `lock(before:)` | pthreads; used by everything else | `timedLock` emulates `pthread_mutex_timedlock` where it is missing | an unlock is seen by a thread that waits with a deadline |
| **NotificationCenter, NotificationQueue** (`NSNotification.swift`, `NotificationQueue.swift`) | a table of observers under a lock; two lists of pending notifications per thread | `addObserver`, `removeObserver`, `post`; `enqueue`, `dequeueNotifications` | observers, called on the posting thread or on an operation queue; run loop observers | observers come and go during a post; callbacks enqueue and dequeue | each observer of the post's snapshot is called once; coalesced notifications are posted once |
| **NSCache** (`NSCache.swift`) | a dictionary and a list ordered by cost, a total cost, two limits, a lock | `setObject`, `object`, `removeObject`, `removeAllObjects` | a delegate called with the lock held | evictions by two limits in one pass | list, table and total agree; limits are met after each insertion |
| **Progress** (`Progress.swift`, `ProgressFraction.swift`) | a tree, fractions with overflow | `becomeCurrent`, `addChild`, `completedUnitCount`, `cancel`, `pause` | operation queues and URL tasks | updates of the tree from several threads; overflow | the fraction of the root is that of its tree |
| **URLSessionTask and protocols** (`Sources/FoundationNetworking/URLSession/*`) | `state`, `suspendCount`, `error`, `_protocolStorage`, the `internalState` and timer of each protocol object, the registry and delegate of the session | `resume`, `suspend`, `cancel`, `finishTasksAndInvalidate`, `invalidateAndCancel`, completion, cache lookup, redirects, authentication, timeout | a work queue, the delegate's operation queue, libcurl, the thread of the cache | the same state is tested and set on different queues; replies come late | a task completes exactly once and says nothing after that; suspended tasks make no progress; what is cancelled completes |
| **libcurl bindings** (`URLSession/libcurl/*`) | easy handles, a timer, sockets | add, remove, time-outs, socket events | libcurl, the work queue | callbacks during callbacks | a removed handle is not used again |
| **URLCache, cookies, credentials** | tables and files | store, look up, remove | tasks | eviction by memory size | the limit is kept, the newest entry wins |
| **Process** (`Process.swift`) | launch state, termination status, a run loop source | `run`, `waitUntilExit`, `terminate` | a manager thread that reaps children | the exit of the child against the waiter | `waitUntilExit` returns; the handler runs once |
| **CFRunLoop, Timer, RunLoop** (`CoreFoundation/RunLoop.subproj`) | modes with sources, observers, a sorted list of timers and a timerfd; a list of blocks; per run: stopped, ignoring wakeups, deadline; a wakeup port | run, stop, wake up, perform block, add, remove, signal, invalidate, set the next date | every callback of the library, on its own thread; any thread that signals, wakes or stops | runs inside callouts, items that change under a pass, stop and wakeup in flight | a signalled source is performed; a stop ends the run; blocks in order; timers on time, once per period |
| **CFSocket, CFStream** | descriptors, callback flags | schedule, enable, disable | the manager thread, run loops | re-enabling callbacks against events | an enabled event is delivered once |
| **Collections, index sets** (`Collections.subproj`, `NSIndexSet.swift`) | tables, heaps, trees, sorted ranges | insert, remove, find | none | resizing, merging of ranges | algorithms against definitions |
| **Thread**, **UserDefaults**, **FileManager/FileHandle**, **strings**, **dates and formatters**, **serialization**, **URL and Bundle**, **CF runtime**, **tools** | | | | formats, I/O, calls of ICU, reference counts | not modelled; `PROJECT.json` gives the reason for each |

How they meet: an operation that becomes ready or finishes calls its queue, which
takes its own lock and then those of operations; the queue hands operations to
Dispatch, which calls `start()` on a thread of its own, which notifies the
dependents. Notifications to observers with a queue, and the delegate calls of
URL sessions, are operations of an `OperationQueue`; so the guarantees of the
queue carry over to them.

## 2. Plan

1. *Done.* `NSConditionLock`; `Operation`; `OperationQueue` over `Operation`;
   `WorkPool`, the abstract specification of a queue's concurrency. Proofs of type
   correctness, of mutual exclusion and of no lost wakeup for the lock, of
   `NoSleeperForgotten` for operations and of `NoOvercommit` for queues.
2. *Done.* `CFRunLoop` and `CFRunLoopTimer`: runs and nested runs against other threads.
   `URLSessionTask`: the task, its session and its protocols over one serial work queue
   and the delegate's queue.
3. *Done.* Proofs: every invariant of `NSConditionLock`, of `CFRunLoop`, of `CFRunLoopTimer` and of the run `operation`, and `DependenciesFirst` of operations without a queue; for
   queues `EnqueuedIsListed`, `SlotsAreCounted`, `NoOvercommit`, `NoSleeperForgotten`, the refinement `ImplementsPool` and, without barriers, `NoDeadlock`.
   For a task `TypeOK`, `OneTransfer`, `CancelIsFinal`, `CompletionIsReported`, `SuspendedIsIdle` and `CompletionIsLastWord`, the last four from
   assumptions on `Scenarios` that rule out what section 5 describes. *Left.* The other invariants of the session need more such
   assumptions each; and so it is with `BarrierOrder`, `DependenciesFirst` and, where there are barriers, `NoDeadlock` for the programs of a queue.
4. If the project grows: `CFSocket`, which delivers events through sources of run
   loops; `NotificationCenter` and `NotificationQueue`; `NSCache`, whose list and table refine a
   bounded map; `ProgressFraction` at a small width and the tree of `Progress`; `Process`.

Abstract specifications worth stating: the pool of workers (done), an atomic lock
with time-outs for `NSConditionLock`, a bounded map for caches.

## 3. The modules

### `NSConditionLock`

One thread per element of `Threads`. `thread` and `value` are `_thread` and `_value`;
`mutex` and `sleeping` are the mutex and the waiters of `_cond`; `want`, `limit` and `pc` are
the arguments and the position of each thread's call. All lock calls reduce to
`lock(whenCondition:before:)` as they do in the code: `AnyValue` stands for a call without
condition; a deadline is `"past"` (`try`), `"soon"` (a date) or `"never"`
(`Date.distantFuture`, which `lock()` and `lock(whenCondition:)` pass). `Sleep`, `Expire`,
`SpuriousWakeup`, `Reacquire` and `ReturnFalse` are the phases of
`pthread_cond_timedwait`, so that a deadline may pass before or after the broadcast, before
or after the mutex is free. `Trap` is `timeSpecFrom`, which converts the date to
nanoseconds in an `Int64`.

### `Operation`

The threads are the clients and, per operation, the thread that runs it. Each
action is one critical section of `__lock` or one access under `__atomicLoad`; where the code
holds one lock and takes a second, taking the first is an action of its own
(`LockUp`, `Finish`, `DetachUp`). The correspondence:

| Code | Actions |
|---|---|
| `observeValue`, `toReady` (313-321) | `TestReady`, `SetReady`, `FetchQueue` |
| `observeValue`, `toFinished` (242-306) | `Finish`, `Notify`, `Finished`, `Ready` (and a `toReady` notification of each ready dependent), `Broadcast` |
| `addDependency`, `_addDependency` | `AddDependency`, `AppendDependency`, `LockUp`, `LinkSelf` |
| `removeDependency` | `RemoveDependency`, `Find`, `LockUp`, `UnlinkSelf` |
| `cancel` | `Cancel`, `CancelUnlessFinished`, `MarkCancelled`, `TestExecuting`, `ClearCount` |
| `start`, `main` | `Start` or, in the queue, `Starting`; `CheckReady`, `Begin`, `Execute`, `Main`, `Finishing` |
| `_removeAllDependencies` (barriers) | `Detach`, `DetachUp`, `DetachSelf` |
| `waitUntilFinished` | `WaitUntilFinished`, `Wait`, `SpuriousWakeup`, `Broadcast` |

A client's calls come from `Program`, a sequence of sets: client `c` makes one call of
`Program[c][i]` as its `i`-th. This bounds the runs and says in one place what is tried; the
theorems hold for every `Program`. Left out: names, threads' priorities, completion
blocks, and notifications that change no modelled state (`toExecuting`). The assertions
of the code do nothing in the release build that is modelled; they are stated as
`AssertionsHold`.

### `OperationQueue`

Extends `Operation` with one queue. The lists that the code links through
`__nextOperation` and `__nextPriorityOperation` are sequences; `gcd` is the dispatch queue
(external: a concurrent queue, with barrier items); `frame` holds the local variables of
the queue's routines per thread. `AddOperations`...`Publish` are `_addOperations` up to its call of
`_schedule()`; `AddBarrierBlock`, `LockForBarrier`, `Link`... are `addBarrierBlock`; `Schedule`...
`RetestSet` are `_schedule()`, which may run on several threads; `Retire`, `Invalidate` are
`_operationFinished`; the setters and waiters have an action per critical section. The
interface between the two modules is the pair of labels `"schedule"` and `"retire"`, which
`Operation` leads to only for an operation that has a queue. Left out: the main queue and
`underlyingQueue`, `progress`, names; `__operationCount`, which is written and never read.

### `WorkPool`

What clients rely on: jobs wait, get one of `limit` workers, and go; a job gets a
worker only while fewer than `limit` run, though a lower limit may be set at any time.
`OperationQueue` implements it with `waiting` and `running` read off the main list and the
states of operations (`ImplementsPool`).

### `CFRunLoop`

The loop of one secondary thread in the Linux build, and the threads that use it. `runs` is the
stack of activations (`_perRunData`, `_currentMode` and the locals of `__CFRunLoopRun`): a callout may
run the loop again. The lock of the loop is held by its thread from one callout or wait to
the next, so an action of the loop is what lies between two points without the lock:

| Code | Actions |
|---|---|
| `CFRunLoopRunSpecific`, `__CFRunLoopRun` (2593-2949) | `Run`, `StartRun`, the phases in the order of `AfterActivity`, `AfterBlocks`, `AfterSources`; `Decide` |
| `__CFRunLoopDoObservers` | `DoObservers` (collects), `CallObserver`, `Return`, `ObserversDone` |
| `__CFRunLoopDoBlocks` | `DoBlocks` (detaches the list), `RunBlock`, `PutBack` |
| `__CFRunLoopDoSources0`, `CollectSources0`, `DoSource0` | `ScanSource` per source, `DoSources0` (sorts), `PerformSource`, `SourcesDone` |
| `__CFRunLoopServiceFileDescriptors` and what follows it | `Wait`, `Awaken`, `Handle`, `DoSource1` |
| `CFRunLoopWakeUp`, `CFRunLoopStop`, `_CFRunLoopStopMode` | `WakeUp`, which is ignored if the run says so; `Stop`, `StopMode` with the wakeup as a second step (`Rest`) |
| `CFRunLoopSourceSignal`, `Invalidate`, `AddSource`, `RemoveSource` | `Signal`, `Invalidate` and `RemoveFromModes`, `AddSource`, `RemoveSource` |
| `CFRunLoopPerformBlock`, `AddObserver`, `ObserverInvalidate` | `PerformBlock`, `AddObserver`, `InvalidateObserver` and `RemoveObserver` |
| the timeout of a run | `Elapse` (time passes), `Timeout` (stores 0), `TimeoutWake` |

`announced`, `owed`, `fired` and `robbed` are history variables that only properties read. `Program`
bounds the calls as in `Operation`; a callout makes the calls of the loop's own
program. `Lists` has what the loop does to its arrays: `Among` keeps the elements that are in a set and `Without` drops one. Left
out: common modes (they expand to calls for several modes), the port of the
main queue, Windows and Darwin.

### `CFRunLoopTimer`

The timers of such a loop. Each mode keeps `timers` sorted by `date`, the `deadline` on
record and the time its timerfd is `armed` for; `InsertionIndex` is the binary search of
`__CFRunLoopInsertionIndexInTimerArray`, with its powers of two; `Arm` is
`__CFArmNextTimerInMode`; `DoTimers`, `DoTimer`, `Return` and `FinishTimer` are the parts of a pass
between locks. `FirstHalf` and `SecondHalf` split the calls that take the timer's lock
first and the loop's later. Times are small integers and `Tick` is the clock. The loop's
other work is reduced to passes that serve timers. In `Search` the steps and the indices of the
binary search are functions of the number of the step, since a theorem is about them. Timers that have the same date at the
start are in any order.

A program decides what may be expected of it. `OneModeIfSet` says that a timer whose date is set can be in one mode only, and
`AddsAndSetsApart` that no thread adds a timer whose date another thread sets. Section 5 has what happens without
the first; without the second, a timer is added to a mode between the two halves of `SetNextFireDate`, which
moves it only in the modes it had when it took the timer's lock, and keeps a wrong place in the new one (`CFRunLoop.c:4156`).

### `URLSessionTask`

The queue of the task, that of the multi handle and that of the session target one serial
queue, so everything that runs on them is one list of blocks, `workQueue`; `workQueue.sync` is
a block whose caller waits. Beside it run the application, the serial delegate
queue and the thread of the cache; these interleave with the work queue, and a block of
`suspend` or `resume` is split between its test of the state and its writes (`CheckState`).

| Code | Actions |
|---|---|
| `suspend`, `resume`, `cancel` and their queued blocks | `CheckState`, `Suspend`, `Resume`, `Cancel`; `StopLoading`, `StartLoading`, `CancelLoading` |
| `_getProtocol`, `_satisfyProtocolRequest` | `GetProtocol`, `CacheReplies`, `DeliverProtocol` |
| `_NativeProtocol`: `resume`, `suspend`, `startNewTransfer`, `stopLoading`, `completeTask` | `Resumed`, `Suspended`, `StartNewTransfer`, `Stopped`, `TaskCompleted` on a protocol's `at` |
| `transferCompleted`, `redirectFor`, `didReceive(data:)`, the timer | `TransferCompleted`, `ReceiveData`, `TimedOut` |
| `urlProtocolDidFinishLoading`, `didFailWithError` | `Conclude`; on the delegate queue `BeginCallback`, `EndCompletion` |
| redirects | `AnswerRedirect` (callback), `FollowRedirect`, `DeclineRedirect` (block) |
| challenges | `AnswerChallenge`, `ReplaceProtocol`, `EndChallenge` |
| a redirect or a challenge nobody answers | `LeaveUnanswered` |
| the registry, invalidation | `AddTask`, `RemoveTask`, `FinishTasks`; `CloseSession`, `CancelTasks`, `LeaveInvalidation`, `InvalidateSession`, `EndInvalidation` |

A `fatalError` of the code sets `crash` and ends the behaviour. Three pairs of states that differ only in
data are one: `transferCompleted` and `transferFailed` are left in the same action that enters them. The
completion handlers of tasks follow the same path as a delegate (the same guard, the same
assignments) and are not told apart. `Scenarios` is a set of records that fix what one behaviour meets: delegate or not,
what the cache has, the answers of the server, the calls of the application and of the
callbacks, the answers the delegate may give (`dispositions`), and whether the timer may fire. The answer `none` is that of a
delegate that does not call the completion handler, or asks for the default handling of a challenge that has no
proposed credential, which is what a delegate does that does not implement the method
(`URLSessionDelegate.swift:140-141`): nothing follows (`LeaveUnanswered`). `StartsOnce`, `StaysWhileCached`, `StartsCachedOnce` and `EndsReplay` are what four theorems ask of a scenario; no action depends on them.
`TypeOK` has a part for each group of variables, which proofs name.

## 4. Runs

| Run | Instance | Properties |
|---|---|---|
| `condition_lock` | 3 threads, 2 conditions, all deadlines | `TypeOK`, `HeldAlone`, `NoSleeperMissed` |
| `condition_lock_live` | 2 threads, finite deadlines, fairness | `EveryCallReturns`, no deadlock |
| `operation` | 3 operations, 2 clients, fairness | `OpTypeOK`, `CountIsOwed`, `AssertionsHold`, `NoLockCycle`, `NoSleeperForgotten`, `StartedFinishes` |
| `queue` | 2 operations, 2 clients, 3 levels of priority | `TypeOK`, `EnqueuedIsListed`, `SlotsAreCounted`, `NoDeadlock`, `NoSleeperForgotten`, `NoOvercommit`, `ImplementsPool` |
| `queue_barrier` | 3 operations and a barrier, 1 client, fairness | `BarrierOrder`, `DependenciesFirst`, `QueueDrains` |
| `queue_lost_wakeup` | 3 operations, 2 of them added, 1 client, fairness | `QueueDrains`, violated |
| `run_loop` | 2 modes, 2 + 1 sources, 2 blocks, 2 observers, 1 other thread, runs inside observers and sources | `TypeOK`, `NoWakeupForgotten`, `ObserversOnce`, `BlocksInOrder` |
| `run_loop_live` | the same without runs inside callouts, fairness | `StopEndsRun`, `SignalIsPerformed` |
| `run_loop_nested` | a source runs the loop again | `WakeupIsNotLost`, violated |
| `timers` | 3 timers (periods 2 and 3, and one that does not repeat), 2 modes, time up to 5, 1 other thread | `TypeOK`, `TimersSorted`, `ArmedInTime`, `OnSchedule` |
| `session_task` | 54 scenarios of one task, in 22 of them a redirect or a challenge may remain unanswered, 2 calls by callbacks, 2 pieces of data, fairness | `TypeOK`, `AssertionsHold`, `CompletionIsLastWord`, `CompletionIsReported`, `InvalidationIsLast`, `SuspendedIsIdle`, `OneTransfer`, `CancelIsFinal`, `CancelCompletes`, `RunningEnds` |
| `session_suspend` | a task is suspended during its transfer | `AssertionsHold`, violated |

**Bounds.** The lock needs a holder and two sleepers that wait for different conditions
for a broadcast to differ from a signal: three threads and two values. An operation with
two dependencies that finish together, each of which may have dependents of its own, is
the smallest case in which the "last dependency" of `toFinished` is undecided: three
operations. Two clients are enough for every pair of calls to race with the threads of
the operations themselves (five threads in all). In `queue`, a limit of one against two
operations makes every slot count; the levels 0, 1 and 2 stand for barriers, a raised and the
normal priority. For the loop, a wakeup can be misdirected
when two sources are ready in one pass and the first runs the loop again, which takes
two sources, two modes and a stack of two; a block list can be put back in the wrong
order with two blocks of different modes. For timers, five instants let a timer of
period 2 fire, miss a date and fire again, and three timers in a mode give the binary
search a middle. For a session, two redirects or a challenge and a redirect in a
row make every protocol state occur twice; `MaxCalls` and `MaxData` bound what callbacks do
and what the server sends. `Program`, `Scenarios`, `MaxTime`, `MaxCalls` and `MaxData` bound the
instances; nothing else is bounded, and TLC explores the
state spaces completely. `CHECK_DEADLOCK FALSE` is set where programs end; in
`condition_lock_live` clients call for ever and deadlock is checked.

**Split of the programs.** Some calls break a property by themselves, and a run that
makes them says nothing about the rest. Removing dependencies spoils the counts
(section 5), so `operation` does not do it and `queue`, which checks locks, lists and
slots, does. An operation that is linked after it has been started may of course run
before its dependency, so `DependenciesFirst` is checked where operations are linked first.
In `queue_barrier` the queue is suspended while it is filled, which rules out the races of
`queue_lost_wakeup`; what runs concurrently is the operations that
have been let go, with `_schedule` on all their threads. In `run_loop` sources may run the loop
again, which loses wakeups as `run_loop_nested` shows; so `NoWakeupForgotten` excepts the runs
that lost one that way (`robbed`), and nothing else, and `run_loop_live` does without such runs. In
`timers` the date that is set is that of a timer with one mode, and no other thread adds that timer (section 5 says what happens
with two modes): `MCPromises`, which TLC evaluates, is `OneModeIfSet` and `AddsAndSetsApart`. In `session_task` a task is suspended only before it starts, in its redirect and completion callbacks, and
by a challenge: `session_suspend` and section 5 show what it does elsewhere. Redirects that a delegate answers,
and cancellations and timers are in different scenarios for the same reason (a redirect that is left unanswered meets all of them), and the cache with cancellations only
before the first resume or in a callback. `MCPrograms`, which TLC evaluates, is `StartsOnce`, `StaysWhileCached`, `StartsCachedOnce` and `EndsReplay` for all scenarios of the
run.

**Fairness.** Every thread inside a call or inside `start()` is scheduled (weak fairness per
thread): they are threads of the system and of Dispatch, and none of the locks is held
while waiting for anything but another lock. `main()` returns and clients make their next
calls, which is what the liveness properties assume of the program that uses the library. For the
run loop, its own thread runs and callouts return, the handler of a timeout runs, and a
thread finishes the call it is in; no thread has to make another call, so a stop or a
signal is the only thing that wakes the loop. For the session: Dispatch runs the
blocks of the work queue and the operations of the delegate queue, the cache answers (it is a
block on a global queue), a callback returns, and a transfer ends, because the server answers
or the timer of the request fires. That a callback returns is no answer: `LeaveUnanswered` is a way to end it. None of this is assumed of data or of calls by the
program. For the condition lock, a mutex that is free again and again is eventually acquired by each thread
that wants it (strong fairness, as with the schedulers the library runs on), and the deadline of
a thread that keeps waiting passes. No fairness is assumed of `unlock`, of `Lock`
or of spurious wakeups.

## 5. What the violated runs show

1. `queue_lost_wakeup`: `_cachedIsReady = isReady` (`Operation.swift:1155`) is two steps; a dependency that
   finishes between them has its `true` overwritten by `false`. `_schedule` repairs the cache (1032-1036)
   but does not look at the queue again, so the operation waits for the next event, if there is one.
2. `run_loop_nested`: `__CFRunLoopDoSources0` returns what the *last* source did (`CFRunLoop.c:1938`). The
   first source runs the loop, in a mode that has the second source too: the second is performed
   there, and the nested run also reads the one wakeup of a `CFRunLoopStop` of the outer run. Back
   outside, the second source has nothing to do, "no source was handled", and the
   outer run sleeps without polling, stopped.
3. `session_suspend`: the block of `suspend()` runs after the transfer has ended and its completion has been
   reported. `stopLoading` takes a state other than `suspended` for a cancellation and asks for
   the task's error; there is none, and `NativeProtocol.swift:70` aborts the process.

Seen in instances of the same models that are not kept as runs:

- `lock()` and `lock(whenCondition:)` pass `Date.distantFuture`, whose nanoseconds since 1970 (6.4e19) do not fit in
  `Int64`: a thread that finds the lock taken aborts the process (`NSLock.swift:425`, the action `Trap`).
- `removeDependency` lowers the count only when the dependency has finished and
  the operation is cancelled, when nothing is counted: the count becomes -1 and the assertion at
  `Operation.swift:270` fails. In the other case the link is cut but the count kept, and the operation never becomes ready.
- In the notification `toReady` (315-316) the readiness is computed, then cached; a value from before a further dependency was
  added is cached after it, and a barrier added while an operation runs can run before one it was added behind.
- An operation cancelled before `_addOperations` links it to a barrier is ready, so
  `_addDependency` notifies, and the notification calls `_schedule` with the queue lock held (line 1219).
- A timer with two modes that is given a later date in its callout is armed again in the mode of that run only
  (`CFRunLoop.c:2222`): the other mode, if its timerfd had expired, is not armed again until something else arms it.
- A challenge with the default handling and no proposed credential ends nothing and starts nothing (`URLSessionTask.swift:927-948`):
  the transfer is over, its timer is off, and the task stays `running` for ever, its completion handler uncalled. So does
  a task without a delegate, and one whose delegate does not answer a redirect, even when the timer of the request fires:
  `HTTPURLProtocol.swift:408-409` says "then terminate the task", but the task is not told. `RunningEnds` allows
  for this and nothing else: without `Abandoned` TLC finds it violated. A cancel still completes such a task (`CancelCompletes`).
- Tasks of a session: a cancel, or the timer, while a redirect waits for its answer makes the answer
  abort the process (`HTTPURLProtocol.swift:593`); so does a cancel while a challenge is being answered
  (`NativeProtocol.swift:70`), and a resume, suspend and resume before the cache has answered. With a resume and a suspend
  before it has, the suspended task loads, as `resume()` moves `transferReady` along whatever the count (`NativeProtocol.swift:414`). A cancel
  while a cached response is replayed leaves a notification behind the completion. A resume that races
  the completion makes a completed task run again (`URLSessionTask.swift:535`), and the registry aborts
  the process (`TaskRegistry.swift:115`). So it does after a resume and a cancel with a cache, when the transfer fails
  fast: the test of that, at `TestURLSession.swift:1871-1872`, is disabled as one that "crashes nondeterministically". An invalidation while the cache has not answered drops the
  delegate before the completion. A suspended task times out, though `URLSessionTask.swift:416` says
  its timer is disabled.

Observed while reading, without a run: `_addOperations` takes an operation's priority from its
quality of service unless the limit is 1 (line 1227), `changePriority` unless it is 0 (line 486), so on a serial queue the old
list is mistaken and the change is lost, which is harmless for the list itself (`EnqueuedIsListed`); the
assertion at line 862 fails for such operations and for barriers; two
operations that depend on each other and are both cancelled can wait for each other's locks in
`toFinished`, so `NoLockCycle` is checked for acyclic dependencies; `waitUntilFinished` returns at `finishing`, before the
dependents' counts are lowered; the block of a barrier on an empty queue is not held back by suspension.

## 6. What is proved

For every set of operations, clients, threads, modes, sources, blocks and timers, every program, every scenario of a task, every limit and
every length of time:

| Theorem (module) | Statement |
|---|---|
| `LockTypeOK`, `LockHeldAlone`, `LockNoSleeperMissed` (`NSConditionLockProofs`) | `Spec => []TypeOK`, `[]HeldAlone`, `[]NoSleeperMissed` |
| `OperationTypeOK`, `OperationNoSleeperForgotten` (`OperationProofs`) | `OpSpec => []OpTypeOK`, `[]NoSleeperForgotten` |
| `OperationCountIsOwed`, `OperationAssertionsHold` (`OperationProofs`) | `IsFiniteSet(Ops) /\ LinksOnly /\ OpSpec => []CountIsOwed`, `[]AssertionsHold` |
| `OperationDependenciesFirst` (`OperationProofs`) | `IsFiniteSet(Ops)`, `LinksOnly` and `LinksFirst` imply `OpSpec => []DependenciesFirst` |
| `OperationNoLockCycle` (`OperationProofs`) | `LinksOnly /\ Acyclic /\ OpSpec => []NoLockCycle` |
| `QueueTypeOK`, `QueueNoOvercommit` (`OperationQueueProofs`) | `Spec => []TypeOK`, `NoOvercommit` |
| `QueueEnqueuedIsListed`, `QueueSlotsAreCounted`, `QueueImplementsPool`, `QueueNoSleeperForgotten` (`OperationQueuePoolProofs`) | `Spec => []EnqueuedIsListed`, `[]SlotsAreCounted`, `ImplementsPool`, `[]NoSleeperForgotten` |
| `QueueNoDeadlock` (`OperationQueuePoolProofs`) | `Barriers = {}` and `Acyclic` imply `Spec => []NoDeadlock` |
| `RunLoopTypeOK`, `RunLoopShape`, `RunsAreStacked`, `RunLoopObserversOnce` (`CFRunLoopProofs`) | `Spec => []TypeOK`, `[]Shape`, `[]Stacked`, `[]ObserversOnce` |
| `RunLoopBlocksInOrder`, `RunLoopForgetsNoWakeup` (`CFRunLoopProofs`) | `"block" \notin Nesting /\ Spec => BlocksInOrder`, `[]NoWakeupForgotten` |
| `TimerTypeOK`, `TimersOnSchedule` (`CFRunLoopTimerProofs`) | `Spec => []TypeOK`, `[]OnSchedule` |
| `TimersStaySorted` (`CFRunLoopTimerProofs`) | `AddsAndSetsApart` implies `Spec => []TimersSorted` |
| `TimersArmedInTime` (`CFRunLoopTimerProofs`) | `OneModeIfSet` implies `Spec => []ArmedInTime` |
| `URLSessionTaskTypes`, `OneTransferAtATime` (`URLSessionTaskProofs`) | `Spec => []TypeOK`, `[]OneTransfer` |
| `CancelStaysFinal` (`URLSessionTaskProofs`) | `StartsOnce(s)` for all scenarios implies `Spec => CancelIsFinal` |
| `CompletionStaysReported` (`URLSessionTaskProofs`) | `StartsOnce(s)` and `StaysWhileCached(s)` for all scenarios imply `Spec => []CompletionIsReported` |
| `SuspendedStaysIdle` (`URLSessionTaskProofs`) | `StartsOnce(s)` and `StartsCachedOnce(s)` for all scenarios imply `Spec => []SuspendedIsIdle` |
| `CompletionStaysLast` (`URLSessionTaskProofs`) | `StartsOnce(s)`, `StaysWhileCached(s)` and `EndsReplay(s)` for all scenarios imply `Spec => []CompletionIsLastWord` |
| `InsertionIndexCounts` (`CFRunLoopTimerProofs`) | in a sorted list the binary search returns the number of timers that are not later |
| `AmongProperties`, `AmongKeepsOrder`, `WithoutProperties` (`ListTheorems`) | what the list operators of the run loop return |

**The lock.** `LockInv` adds to the properties the places of threads (`PlaceInv`): the thread at `test` owns the mutex,
the sleepers are those at `asleep`, and `_thread` is the holder. `HeldAlone` alone
is not inductive: it needs that `_thread` is set as long as someone holds. `NoSleeperMissed`
is kept by `Release` because it empties `sleeping`, and by `Sleep` because the mutex keeps the test valid.

**Operations.** `OpInv` is `OpTypeOK` and `Subjects`: a thread that links two operations, or waits for one,
has them as its local variables. Types alone are not inductive, since a step indexes functions with these.
`NoSleeperForgotten` is inductive on top of `OpInv`: a thread goes to sleep only after it saw a state below
`finishing`; the step to `finishing` is made by the thread of the operation, which from there to the
broadcast is at one of the labels the property names (or in the notification of a dependent, from which it returns);
and the broadcast wakes everyone.

*Counts.* `CountIsOwed` says that `__unfinishedDependencyCount` is the size of `Owing(o)`, the dependencies that
will still lower it. It is not inductive: nothing in it says that a dependency that lowers
the count did owe it. `OwedInv` adds where threads may be (`Phases`: an operation that
notifies keeps its lock, and tells no dependent twice; `Calling`) and `Linkage`: what owes is a dependency, one that has
been listed and not yet counted does not owe, and no two threads count the same link. Each step then
either leaves every `Owing(o)` alone (`Quiet`), or is one of
`LinkSelf`, `Finish`, `Notify`, `Finished` and `Ready`, for each of which a lemma says which set
gains or loses which element, and the count follows by the cardinality of a set with one element more or less.
`LinksOnly` is the hypothesis that no program removes a dependency, which
spoils the count (section 5), and that no client adds one to a barrier, which only its queue has. The
instance of the run `operation` satisfies it.

*Dependencies first.* An operation that `start()` finds ready, and not cancelled, has the count 0, so by `CountIsOwed` nothing is owed to it. `Met`
says that a dependency of it has then finished or is being linked at this moment: what owes a notification stops to owe it only in the thread of an
operation that has ended (`Stages`), and a link that does not count is to one that has finished. `LinksFirst` is the hypothesis that each operation is
linked by the client that starts it, before it does; so a started operation is not being linked any more (`Placed`, `StartedLinked`), and goes
ahead with the dependencies it was found ready with. A link that comes later is of course not waited for. The dependencies may be
started, finished and cancelled by any thread at any time. In a queue the readiness is cached, and the cached value may be from before a link (section 5), so this
argument ends there: for queues the property is checked in `queue_barrier`.

*Locks.* `Acyclic` says that the operations have depths that every link a program may make increases: without it the property is
false (section 5). `LockInv(depth)` has two further parts: a lock that is held over a step is that of an operation that is notifying its
dependents, or of a dependency that a thread is linking (`Held`), and every link that has been made or is being made leads upwards
(`Rising`). So a thread that holds the lock of an operation waits only for that of an operation of
smaller depth, or for none; and of the threads that would wait for each other, the one
that holds the lock with the least depth waits for a lock that none of them holds. That there is a
least one, in a set that need not be finite, is `LeastElement`.

**Queues.** `QueueInv` is `TypeOK`, `Subjects` and `Located(t)` for every thread: which of its local sequences are
non-empty at which label, and who holds the queue lock where. `NoOvercommit` needs the
last part: `slots = maxOps - numExec` is computed under the lock, and stays a lower bound of the room
while the thread that computed it walks, because only it dispatches, only it and finishing operations
change `numExec`, and a setter of the limit needs the lock.

*The pool.* `PoolInv` says where an operation is, from the thread that adds it to the one that retires it. `Stage` relates its
state to the label of its own thread and to Dispatch's list, `Member` says when it is in the main list,
`Claim` that only one thread at a time has it among its local variables as one to add, `Enqueuing` what holds between the steps that link it,
`Listed` that the operations that are `enqueued` are those of the priority lists, each once, and
`Walking` what a thread in `_schedule()` knows of the list it walks without an owner. `EnqueuedIsListed` is then a
matter of counting one element, and `SlotsAreCounted` follows as in the case of counts. For the refinement, four
lemmas say that every step of the queue makes one of four moves: it submits operations, begins one, ends one, or leaves
`waiting` and `running` as they are, perhaps with a new limit; and each move is a step of `WorkPool`, or stutters.
That a step which begins one has room for it is `NoOvercommit`'s lemma. `NoSleeperForgotten` for queues uses the theorem about
operations for the steps of `Operation`, and that the steps of the queue keep the labels the property names.

*No deadlock.* The locks have an order: that of the queue comes before those of the operations, and these by depth, as above. `WaitInv(depth)` says so
with `PoolInv` beside it: `Posted` tells where a thread that holds the queue lock can be (at no label that wants it again), `Gripped` who holds the lock of an
operation (one that notifies its dependents, or a thread that links or unlinks it), and `Upwards` that links lead upwards, among them those that are being
made or cut. A holder of locks of operations thus never waits for the queue. The hypothesis `Barriers = {}` (kept up by `NoBarrierWaits`, which needs that no quality of service has the level of barriers) excludes
`addBarrierBlock`, which takes locks of operations in the order of the list while it holds that of the queue, and the unlinking of a barrier, which goes by no
depth; with barriers the property is false for programs that cancel an operation while it is being added (section 5).

**The run loop.** `Shape` is `TypeOK` with what a run has in its list in each phase: observers of the mode in a pass over observers, and so
on; types alone do not keep the callouts apart. `Stacked` says that every run but the innermost is in a callout, of a kind that may run the
loop. `ObserverInv` relates the set `firing` to the stack: an observer is in it just when it is the one
being called by exactly one run, so a second run that has collected the same observer skips it, and one that does
not repeat is invalid by the time it is no more `firing`. For `BlocksInOrder`, `OwedListed` says that the blocks
not yet run are, in the order of their arrival, those that the innermost run has detached followed by those in the loop's list: `PutBack` puts
the rest in front. For `NoWakeupForgotten`, `Wakeful` gives each run of the stack what it has
coming, and the innermost run reads the port before it sleeps on work that was announced; a run that lost its
wakeup to a nested one is in `robbed`. Both need that no block runs the loop: a
run inside the callout of a block would take the list while the outer run has a detached part of it, and blocks would run out of order. In
every instance of section 4 only sources and observers do.

**Timers.** `Shape` is `TypeOK` with what a run that serves timers may hold: those it has yet to serve are
timers, the date it remembers of the one it is calling has passed, so that the next date is at most an
interval past the end of time, and a timer that does not repeat is not valid once its callout has returned. For `OnSchedule`, `Callouts` says that no two runs are in the
callout of the same timer, which is marked as `firing`, and `OnGrid` counts: after `q` periods a timer has fired `q` times at
most, and once more while it is in its callout. The mark keeps a nested run away from a timer that the outer run is
calling, and the new date keeps the outer run away from one that the nested run has served. `NextDate` is where the grid is kept; it is
the one place with products of variables.

`TimersSorted` is nearly inductive by itself, once the binary search is known to find its place. `InsertionIndexCounts` says so; its invariant is that
the timer at the index is not later, unless the index is 0, and that all timers from there plus the width of the last step on are later, and it rests on `Indices`, the
recursive functions written out, which exist by induction (`ChainExists`). What is not inductive is the second half of
`SetNextFireDate`: `ModesKnown` says that the modes it looked at are still all that the timer has, which no removal disturbs and
which an addition keeps by `AddsKnown`, the consequence of `AddsAndSetsApart`.

`ArmedInTime` follows from `Deadlines`: the deadline on record of a mode is no later than any timer that is not
firing (`Early`), and the timerfd is armed for it if it is a date, or has expired and is about to be looked at (`Sound`). `NextDeadlineIsFirst` shows that the choice
`__CFArmNextTimerInMode` makes is the first date of the idle timers, which is where `TimersSorted` is needed. The record is what makes this
delicate: arming does nothing when the deadline is the one on record, so an expired timerfd stays unarmed unless the record was
cleared before the next timer is chosen (`Forget`). `InReach` and `Tidy` follow the modes of a timer through the calls and the runs: the end
of a callout arms the mode of its run only, and `OneModeIfSet` makes this the only mode in which a timer can have got a
later date meanwhile.

**Tasks.** `Shape` is `TypeOK` with what connects the queues with their callers: who waits for a block has it in the work queue or
is at the label that follows it (`Callers`, `Waits`), and a protocol is told what waited for the cache only after the cache has answered (`Unserved`). For `OneTransfer`, `Turn` says that
only the newest protocol acts, and by one thing at a time: at most one redirect, challenge or answer to one is open, and it is the
newest protocol's; every other protocol is `Quiet`, that is, done for good, with its timer off. A challenge
gives the task a new protocol, and this is where it matters that the old one has ended before it is replaced.

`CancelIsFinal` is about a test on one queue and an assignment on another: between `CheckState` and the writes of
`suspend` or `resume`, the delegate's queue may complete the task. `Guarded` says that this does not happen: while a block is between its test and its
writes the task has not ended. With no delegate the task is completed on the work queue itself. With one, the
callbacks that complete it run one after the other, so the callback that waits for a suspend or a resume is not that of
the completion; there remains the application. `Beginning` follows its count of suspensions (`Suspensions`, whose existence is
`StartsOnce`) and says that until it has started the task nothing has been loaded, so that nothing completes it, and afterwards it
neither suspends nor resumes. Section 5 tells what a resume does that comes at the time of the completion: the hypothesis excludes this
and nothing else. `Program` and `Orderly` are the auxiliary facts on which call each waiting block belongs to.

`CompletionIsReported` adds an order between two queues. A task that is being cancelled by `invalidateAndCancel()` is told so by a
block on the work queue, which must be run before the block that invalidates the session (`CancelsFirst`); it queues the operation that completes
the task, which must come before the operation that lets go of the delegate (`CompletesFirst`). In between, `Cancelled` says
that a cancelled task has its completion queued or a block that will find a protocol to stop, and `EndsReported` that a protocol is given up only for the
completion. `StaysWhileCached` is needed since a protocol that
is not there yet hears of the cancellation from the thread of the cache, and `didBecomeInvalidWithError` may come before (section 5). `TellsOnce` says that the
completion has been reported at most once, by the callback which sets the state to completed, and this also gives the first half of
`CompletionIsLastWord`. `Completed` joins these; what it says of a completed task is more than the property, that the report is out also while the
task is still registered.

`SuspendedIsIdle` speaks of a settled task, so its invariant has to say what is still on its way. `StopsFollow` does: while the task is
suspended, a transfer in progress has a stop in the work queue, and behind every start of a protocol that is not done comes a stop of the same
protocol. A suspension that finds the task running queues such a stop behind everything else (`SuspendStops`), if it stops the right protocol:
`Current` says that the protocol that is stored is the newest one, and that all have ended when it is dropped. A redirect that
is followed looks at the count of suspensions, and the answer to a challenge resumes the task. `Counted` makes the
count of suspensions and the state agree, which they do only until the task ends; `Untouched` says that a task whose
protocol was not asked for is suspended. While the cache is asked, `Fresh` says that the task is running and that its start is all
that waits; this is what `StartsCachedOnce` is for. Of two calls that meet the answer of the cache, the first waits in a bag, and the
second goes straight to the protocol and may be there before it: the suspended task then loads (section 5). Without a cache and a delegate
no hypothesis is left.

`CompletionIsLastWord` is about what is still under way when the completion is queued. `Over` says that from then on
(`Completing`) no block that replays a response waits, and every protocol is `Dead`: done, or made for the answer to a challenge after the
task was cancelled, and never started. Such protocols have nothing to tell (`Speaking`, `QuietWords`), so every operation queued
behind the completion is another end of the task, which reports nothing, or the end of the session (`NextWords`, `LastOp`). To get there the block that completes the task
has to find the right protocol: what is stored is the newest one (`StoredIsNewest`), a cancelled block meets it or a
dead one (`CancelsNewest`), nothing is completed before the task has a protocol (`NotYet`), and a
block that starts one and finds none comes after the completion (`LateStarts`). `Replaying` and `Miss` say that a replay is the only thing going on while
it lasts; this is where `EndsReplay` is needed, since the block that replays a response does not ask whether the task was cancelled meanwhile
(section 5).

**Lists.** `Among` and `Without` are functions on `0..Len(list)`, and their properties are proved by induction over the
naturals, in the form of a least counterexample.

Assumptions used: `LockConstants`; `OperationConstants` and `QueueConstants`, which say that operations and clients are different
threads, that barriers are operations, that batches are sequences of other operations, that operations are finitely many in the
case of a queue, and that no client starts the operation of a barrier, which `addBarrierBlock` makes itself and hands to no one; `PriorityConstants`, that
no priority or quality of service an operation can have is the level of barriers;
`RunLoopConstants`, which gives constants their types, keeps
ports and items apart, and has finitely many sources; `TimerConstants`, which does the same for timers, finitely many too, and
says that `Never` is no date; `ScenariosAssumption` and `BoundsAssumption`, which give the scenarios of a task and the bounds their
types. Besides them only the hypotheses in the table.

**Model-checked only.** Liveness (`EveryCallReturns`, `StartedFinishes`, `QueueDrains`, `StopEndsRun`, `SignalIsPerformed`, `CancelCompletes`, `RunningEnds`), which is out of reach of the prover.
For queues `BarrierOrder` and `DependenciesFirst`, which hold for programs that link before they start, do not cancel in the
middle of an addition, and so on: section 5 shows what other programs do, and a theorem has to exclude just these. Of a
task `AssertionsHold` and `InvalidationIsLast`: each is false for some scenario (section 5 has
one for each), and the hypotheses above do not exclude all of these.

## 7. Not modelled

The components marked `not_modelled` in `PROJECT.json`, each with its reason. Of the modelled files: Windows
and Darwin branches of `NSLock.swift`, the recursive lock, the main queue, `progress` of queues, key-value observing of
subclasses that keep their own state, and memory management. Of the run loop: common modes, the main
queue's port, the Windows and Darwin branches, tolerances of timers (they are 0 in the Linux build). Of the session:
request bodies and their streams, data and FTP protocols, download and upload bookkeeping, several tasks at once (they
meet only in the registry), progress, and the credentials of a session without a delegate, which `proceed` uses
on the work queue itself (`URLSessionTask.swift:908` waits there for its own queue).

Most of the library's C code (strings, URLs, property lists, calendars, ICU headers) is data and formats: a model
of it would be its transliteration, so the share of lines that is mapped stays small by intention.
