--------------------------- MODULE URLSessionTask ---------------------------
(***************************************************************************)
(* One URLSessionTask of FoundationNetworking, with the parts of its       *)
(* session it shares: the work queue, the delegate queue, the registry and *)
(* the protocol object that runs its transfer.                             *)
(*                                                                         *)
(* The queue of the task, the queue of the libcurl multi handle and the    *)
(* work queue of the session all target one serial queue, so everything    *)
(* that runs on them is one list of blocks here, run one at a time and in  *)
(* the order of arrival.  `workQueue.sync` is a block whose caller waits.  *)
(* Three other threads run beside it: the application, the (serial)        *)
(* delegate queue, and the global queue on which the URLCache answers.     *)
(*                                                                         *)
(* Not represented: request bodies, the content of requests, responses and *)
(* errors, progress, the tasks of the session other than this one, and the *)
(* credentials a session without a delegate answers a challenge with.      *)
(***************************************************************************)
EXTENDS Naturals, Sequences

CONSTANTS
    Scenarios,      \* what a task may meet: a set of Scenario records
    MaxCalls,       \* bound: how many calls the callbacks make on the task
    MaxData         \* bound: how many pieces of data the server sends

Calls == {"resume", "suspend", "cancel"}
SessionCalls == {"finishTasksAndInvalidate", "invalidateAndCancel"}
Replies == {"ok", "redirect", "unauthorized", "fail"}
OpKinds == {"notify", "redirect", "challenge", "complete", "invalid"}
Dispositions == {"follow", "decline", "refuse", "propose", "none"}

\* delegate: the session has a URLSessionTaskDelegate, called on the delegate
\*           queue; FALSE: it has no delegate.
\* cache:    the configuration has no URLCache, or one that has no response
\*           for the request ("miss"), or has one that may be used ("hit").
\* replies:  what the server answers, one transfer after the other.
\* app:      the calls of the application's thread, one after the other.
\* calls:    the calls a callback of each kind may make on the task.
\* dispositions: the answers the delegate may give, to a redirect "follow" or
\*           "decline", to a challenge "refuse" (cancel) or "propose" (a
\*           credential), and to both "none".
\* timeouts: whether the timer of the request may fire.
Scenario == [delegate : BOOLEAN, cache : {"none", "miss", "hit"}, replies : Seq(Replies),
             app : Seq(Calls \cup SessionCalls),
             calls : [OpKinds -> SUBSET Calls], dispositions : SUBSET Dispositions, timeouts : BOOLEAN]

ASSUME ScenariosAssumption == Scenarios \subseteq Scenario
ASSUME BoundsAssumption == MaxCalls \in Nat /\ MaxData \in Nat

VARIABLES
    scenario,       \* the scenario of this behaviour
    app,            \* the calls the application has still to make
    replies,        \* the answers the server has still to give
    state,          \* URLSessionTask.state
    suspendCount,   \* URLSessionTask.suspendCount
    error,          \* URLSessionTask.error is set
    storage,        \* URLSessionTask._protocolStorage
    protocols,      \* the URLProtocol objects made for the task, in order
    delivering,     \* the callbacks of the bag the cache's thread has to call
    workQueue,      \* the blocks of the work queue, the running one first
    checked,        \* the running suspend or resume has passed its guard
    delegateQueue,  \* the operations of the delegate queue, the running first
    pc,             \* what the application and the delegate queue are doing
    registered,     \* the task is in the registry of the session
    delegate,       \* the session still has its delegate
    finishing,      \* the registry has a callback for when it becomes empty
    crash,          \* the fatalError the program has died of, or "none"
    completions,    \* how often the completion was reported
    calls, pieces   \* calls made by callbacks, pieces of data received

sessionVars == <<registered, delegate, finishing>>
taskVars == <<state, suspendCount, error, storage, protocols, delivering>>
queueVars == <<workQueue, checked, delegateQueue, sessionVars, crash>>
clientVars == <<scenario, app, replies, pc, completions, calls, pieces>>
vars == <<taskVars, queueVars, clientVars>>

-----------------------------------------------------------------------------
(* Blocks, operations, protocol objects                                    *)

NoProtocol == 0

\* An asynchronous block for protocol p; a synchronous one names its caller.
Block(kind, p) == [kind |-> kind, p |-> p, by |-> "queue"]
SyncBlock(call, by) == [kind |-> call, p |-> NoProtocol, by |-> by]
Op(kind, p) == [kind |-> kind, p |-> p]

NewProtocol == [at |-> "initial", timer |-> FALSE]

\* Only the first protocol is made with the response the cache found.
HasCachedResponse(p) == p = 1 /\ scenario.cache = "hit"

Loading(p) == protocols[p].at = "transferInProgress"

Stored(kind, p, bag) == [kind |-> kind, p |-> p, bag |-> bag]

\* The protocol stays in storage when the task is done.
InvalidatedNever == storage
Invalidated == Stored("invalidated", NoProtocol, <<>>)

Init ==
    /\ scenario \in Scenarios
    /\ app = scenario.app
    /\ replies = scenario.replies
    /\ state = "suspended"
    /\ suspendCount = 1
    /\ error = FALSE
    /\ storage = Stored("toBeCreated", NoProtocol, <<>>)
    /\ protocols = <<>>
    /\ delivering = <<>>
    /\ workQueue = <<Block("add", NoProtocol)>>
    /\ checked = FALSE
    /\ delegateQueue = <<>>
    /\ pc = [client \in {"app", "delegate"} |-> "idle"]
    /\ registered = FALSE
    /\ delegate = scenario.delegate
    /\ finishing = FALSE
    /\ crash = "none"
    /\ completions = 0
    /\ calls = 0
    /\ pieces = 0

-----------------------------------------------------------------------------
(* The state machine of the protocol object, NativeProtocol.swift          *)

\* A transfer of a suspended task starts all the same.
StartNewTransferAnyway == [at |-> "transferInProgress", timer |-> TRUE]

\* The timer of the request is not started.
StartNewTransferUntimed ==
    [at |-> IF suspendCount < 1 THEN "transferInProgress" ELSE "transferReady", timer |-> FALSE]

\* startNewTransfer: the handle is configured, and added unless the task is
\* suspended.  The timer of the request runs from here, suspended or not.
StartNewTransfer ==
    [at |-> IF suspendCount < 1 THEN "transferInProgress" ELSE "transferReady", timer |-> TRUE]

\* A protocol that is done starts again.
ResumedAgain(protocol) ==
    IF protocol.at \in {"initial", "taskCompleted", "transferReady"}
    THEN [at |-> "transferInProgress", timer |-> TRUE]
    ELSE protocol

\* resume() without a cached response.  A first start ends up in progress
\* whatever the suspendCount: resume goes on to move transferReady along.
Resumed(protocol) ==
    LET started == IF protocol.at = "initial" THEN StartNewTransfer ELSE protocol
    IN  IF started.at = "transferReady"
        THEN [started EXCEPT !.at = "transferInProgress"]
        ELSE started

Suspended(protocol) ==
    IF protocol.at = "transferInProgress" THEN [protocol EXCEPT !.at = "transferReady"] ELSE protocol

\* completeTask() and completeTask(withError:): no timeout after this.
TaskCompleted == [at |-> "taskCompleted", timer |-> FALSE]

\* stopLoading decides by the state the task has when the block runs: it
\* suspends the transfer, or else ends it with the error of the task.
Stopped(protocol) == IF state = "suspended" THEN Suspended(protocol) ELSE TaskCompleted
StopAsserts == state = "suspended" \/ error

-----------------------------------------------------------------------------
(* What the protocol's client tells, URLSessionTask.swift                  *)

\* urlProtocolDidFinishLoading and didFailWithError: the behaviour of the task
\* is looked up, the callbacks are queued (without a delegate the task is
\* completed on the spot), and the protocol is dropped.
Conclude(ops, queue) ==
    /\ crash' = IF registered THEN crash ELSE "no behaviour"
    /\ storage' = Invalidated
    /\ IF delegate
       THEN /\ delegateQueue' = delegateQueue \o ops
            /\ workQueue' = queue
            /\ UNCHANGED state
       ELSE /\ state' = "completed"
            /\ workQueue' = IF state = "completed" THEN queue
                            ELSE Append(queue, Block("remove", NoProtocol))
            /\ UNCHANGED delegateQueue

\* A callback that does not end the task.
Tell(op, queue) ==
    /\ crash' = IF registered THEN crash ELSE "no behaviour"
    /\ delegateQueue' = Append(delegateQueue, op)
    /\ workQueue' = queue
    /\ UNCHANGED <<state, storage>>

\* _getProtocol: the callback gets the protocol now, or waits in the bag for
\* the answer of the cache.  Each callback adds a block to the work queue.
GetProtocol(callback, queue) ==
    LET p == Len(protocols) + 1
    IN  CASE storage.kind = "toBeCreated" /\ scenario.cache # "none" ->
                /\ storage' = Stored("awaitingCacheReply", NoProtocol, <<callback>>)
                /\ workQueue' = queue
                /\ UNCHANGED protocols
          [] storage.kind = "toBeCreated" /\ scenario.cache = "none" ->
                /\ storage' = Stored("existing", p, <<>>)
                /\ protocols' = Append(protocols, NewProtocol)
                /\ workQueue' = Append(queue, Block(callback, p))
          [] storage.kind = "awaitingCacheReply" ->
                /\ storage' = [storage EXCEPT !.bag = Append(@, callback)]
                /\ workQueue' = queue
                /\ UNCHANGED protocols
          [] OTHER ->
                /\ workQueue' = Append(queue, Block(callback, storage.p))
                /\ UNCHANGED <<storage, protocols>>

-----------------------------------------------------------------------------
(* The synchronous blocks: suspend, resume, cancel                         *)

Running(kind) == workQueue # <<>> /\ Head(workQueue).kind = kind
Rest == Tail(workQueue)

\* What the caller of a synchronous block does next.
AfterCall == [waiting |-> "idle", calling |-> "callback", proposing |-> "replacing",
              retrying |-> "done", refusing |-> "done",
              closing |-> "listing", cancelling |-> "invalidating"]

Return == /\ pc' = [pc EXCEPT ![Head(workQueue).by] = AfterCall[@]]
          /\ checked' = FALSE
          /\ UNCHANGED <<scenario, app, replies, completions, calls, pieces>>

\* Only a completed task ignores suspend() and resume().
EndedWhenCompleted == state = "completed"

Ended == state \in {"canceling", "completed"}

\* The guard of suspend() and resume(); the state may change after it, for
\* the delegate queue completes the task beside the work queue.
CheckState ==
    /\ Running("suspend") \/ Running("resume")
    /\ ~checked
    /\ IF Ended
       THEN Return /\ workQueue' = Rest
       ELSE checked' = TRUE /\ UNCHANGED <<clientVars, workQueue>>
    /\ UNCHANGED <<taskVars, delegateQueue, sessionVars, crash>>

Suspend ==
    /\ Running("suspend")
    /\ checked
    /\ suspendCount' = suspendCount + 1
    /\ state' = "suspended"
    /\ IF suspendCount = 0
       THEN GetProtocol("stop", Rest)
       ELSE workQueue' = Rest /\ UNCHANGED <<storage, protocols>>
    /\ Return
    /\ UNCHANGED <<error, delivering, delegateQueue, sessionVars, crash>>

\* A resume of a running task counts below zero.
OneLessAlways == suspendCount - 1

OneLess == IF suspendCount > 0 THEN suspendCount - 1 ELSE 0

Resume ==
    /\ Running("resume")
    /\ checked
    /\ suspendCount' = OneLess
    /\ state' = IF OneLess = 0 THEN "running" ELSE "suspended"
    /\ IF OneLess = 0
       THEN GetProtocol("start", Rest)
       ELSE workQueue' = Rest /\ UNCHANGED <<storage, protocols>>
    /\ Return
    /\ UNCHANGED <<error, delivering, delegateQueue, sessionVars, crash>>

\* cancel() tests and sets the state in one step of syncQ.
Cancel ==
    /\ Running("cancel")
    /\ IF Ended
       THEN workQueue' = Rest /\ UNCHANGED <<state, storage, protocols>>
       ELSE state' = "canceling" /\ GetProtocol("cancelled", Rest)
    /\ Return
    /\ UNCHANGED <<suspendCount, error, delivering, delegateQueue, sessionVars, crash>>

-----------------------------------------------------------------------------
(* The asynchronous blocks                                                 *)

\* The registry of the session.
AddTask ==
    /\ Running("add")
    /\ registered' = TRUE
    /\ workQueue' = Rest
    /\ UNCHANGED <<taskVars, clientVars, checked, delegateQueue, delegate, finishing, crash>>

\* The delegate is told that the session is invalid, if it still has one.
Invalidation == IF delegate THEN <<Op("invalid", NoProtocol)>> ELSE <<>>

RemoveTask ==
    /\ Running("remove")
    /\ crash' = IF registered THEN crash ELSE "not registered"
    /\ registered' = FALSE
    /\ delegateQueue' = IF finishing THEN delegateQueue \o Invalidation ELSE delegateQueue
    /\ workQueue' = Rest
    /\ UNCHANGED <<taskVars, clientVars, checked, delegate, finishing>>

\* The session becomes invalid at once.
FinishTasksAtOnce ==
    /\ Running("finish")
    /\ delegateQueue' = delegateQueue \o Invalidation
    /\ workQueue' = Rest
    /\ UNCHANGED <<taskVars, clientVars, checked, sessionVars, crash>>

\* finishTasksAndInvalidate waits until the registry is empty.
FinishTasks ==
    /\ Running("finish")
    /\ IF registered
       THEN finishing' = TRUE /\ UNCHANGED delegateQueue
       ELSE delegateQueue' = delegateQueue \o Invalidation /\ UNCHANGED finishing
    /\ workQueue' = Rest
    /\ UNCHANGED <<taskVars, clientVars, checked, registered, delegate, crash>>

\* invalidateAndCancel: a first block closes the session to new tasks, and a
\* last one, after the tasks were cancelled, queues the invalidation.
CloseSession ==
    /\ Running("close")
    /\ workQueue' = Rest
    /\ Return
    /\ UNCHANGED <<taskVars, delegateQueue, sessionVars, crash>>

InvalidateSession ==
    /\ Running("invalidate")
    /\ delegateQueue' = delegateQueue \o Invalidation
    /\ workQueue' = Rest
    /\ UNCHANGED <<taskVars, clientVars, checked, sessionVars, crash>>

\* startLoading on a protocol; without one the task fails, once.
StartLoading ==
    /\ Running("start")
    /\ LET p == Head(workQueue).p
       IN  IF p = NoProtocol
           THEN /\ error' = TRUE
                /\ IF error
                   THEN workQueue' = Rest /\ UNCHANGED <<state, storage, delegateQueue, crash>>
                   ELSE Conclude(<<Op("complete", p)>>, Rest)
                /\ UNCHANGED protocols
           ELSE /\ IF protocols[p].at = "initial" /\ HasCachedResponse(p)
                   THEN /\ protocols' = [protocols EXCEPT ![p].at = "fulfillingFromCache"]
                        /\ workQueue' = Append(Rest, Block("fulfil", p))
                   ELSE /\ protocols' = [protocols EXCEPT ![p] = Resumed(@)]
                        /\ workQueue' = Rest
                /\ UNCHANGED <<state, storage, error, delegateQueue, crash>>
    /\ UNCHANGED <<suspendCount, delivering, checked, sessionVars, clientVars>>

\* The block of suspend().
StopLoading ==
    /\ Running("stop")
    /\ LET p == Head(workQueue).p
       IN  IF p = NoProtocol
           THEN UNCHANGED <<protocols, crash>>
           ELSE /\ protocols' = [protocols EXCEPT ![p] = Stopped(@)]
                /\ crash' = IF StopAsserts THEN crash ELSE "stopped without an error"
    /\ workQueue' = Rest
    /\ UNCHANGED <<state, suspendCount, error, storage, delivering, checked, delegateQueue,
                   sessionVars, clientVars>>

\* The transfer is stopped and nobody is told.
CancelLoadingQuietly ==
    /\ Running("cancelled")
    /\ error' = TRUE
    /\ LET p == Head(workQueue).p
       IN  IF p = NoProtocol
           THEN UNCHANGED protocols
           ELSE protocols' = [protocols EXCEPT ![p] = Stopped(@)]
    /\ workQueue' = Rest
    /\ UNCHANGED <<state, suspendCount, storage, delivering, checked, delegateQueue, sessionVars,
                   crash, clientVars>>

\* The block of cancel(): the error is set before the protocol is stopped.
CancelLoading ==
    /\ Running("cancelled")
    /\ error' = TRUE
    /\ LET p == Head(workQueue).p
       IN  IF p = NoProtocol
           THEN workQueue' = Rest /\ UNCHANGED <<state, storage, protocols, delegateQueue, crash>>
           ELSE /\ protocols' = [protocols EXCEPT ![p] = Stopped(@)]
                /\ Conclude(<<Op("complete", p)>>, Rest)
    /\ UNCHANGED <<suspendCount, delivering, checked, sessionVars, clientVars>>

\* The block that replays a cached response.
FulfilFromCache ==
    /\ Running("fulfil")
    /\ LET p == Head(workQueue).p
       IN  /\ Conclude(<<Op("notify", p), Op("complete", p)>>, Rest)
           /\ protocols' = [protocols EXCEPT ![p].at = "taskCompleted"]
    /\ UNCHANGED <<suspendCount, error, delivering, checked, sessionVars, clientVars>>

\* didCompleteRedirectCallback, with a request to follow or without one.
FollowRedirect ==
    /\ Running("follow")
    /\ LET p == Head(workQueue).p
       IN  /\ crash' = IF protocols[p].at = "waitingForRedirectCompletionHandler"
                       THEN crash ELSE "not waiting for a redirect"
           /\ protocols' = [protocols EXCEPT ![p] = StartNewTransfer]
    /\ workQueue' = Rest
    /\ UNCHANGED <<state, suspendCount, error, storage, delivering, checked, delegateQueue,
                   sessionVars, clientVars>>

DeclineRedirect ==
    /\ Running("decline")
    /\ LET p == Head(workQueue).p
       IN  IF protocols[p].at = "waitingForRedirectCompletionHandler"
           THEN /\ protocols' = [protocols EXCEPT ![p] = TaskCompleted]
                /\ Conclude(<<Op("notify", p), Op("complete", p)>>, Rest)
           ELSE /\ crash' = "not waiting for a redirect"
                /\ UNCHANGED <<state, storage, protocols, workQueue, delegateQueue>>
    /\ UNCHANGED <<suspendCount, error, delivering, checked, sessionVars, clientVars>>

RunWork ==
    \/ CheckState \/ Suspend \/ Resume \/ Cancel
    \/ AddTask \/ RemoveTask \/ FinishTasks \/ CloseSession \/ InvalidateSession
    \/ StartLoading \/ StopLoading \/ CancelLoading
    \/ FulfilFromCache \/ FollowRedirect \/ DeclineRedirect

-----------------------------------------------------------------------------
(* libcurl and the timer call the protocol between two blocks              *)

\* didReceive(data:), and the response before it.
ReceiveData(p) ==
    /\ ~checked
    /\ Loading(p)
    /\ delegate
    /\ pieces < MaxData
    /\ pieces' = pieces + 1
    /\ Tell(Op("notify", p), workQueue)
    /\ UNCHANGED <<suspendCount, error, protocols, delivering, checked, sessionVars,
                   scenario, app, replies, pc, completions, calls>>

\* transferCompleted(withError:) for each kind of answer.  Without a delegate
\* or a credential a challenge is left as it is, and the task with it.
TransferCompleted(p) ==
    /\ ~checked
    /\ Loading(p)
    /\ replies # <<>>
    /\ replies' = Tail(replies)
    /\ error' = (error \/ Head(replies) = "fail")
    /\ CASE Head(replies) \in {"ok", "fail"} ->
                /\ protocols' = [protocols EXCEPT ![p] = TaskCompleted]
                /\ Conclude(<<Op("complete", p)>>, workQueue)
         [] Head(replies) = "unauthorized" ->
                /\ protocols' = [protocols EXCEPT ![p] = TaskCompleted]
                /\ IF delegate
                   THEN Tell(Op("challenge", p), workQueue)
                   ELSE UNCHANGED <<state, storage, workQueue, delegateQueue, crash>>
         [] Head(replies) = "redirect" /\ delegate ->
                /\ protocols' = [protocols EXCEPT ![p].at = "waitingForRedirectCompletionHandler"]
                /\ Tell(Op("redirect", p), workQueue)
         [] Head(replies) = "redirect" /\ ~delegate ->
                /\ protocols' = [protocols EXCEPT ![p] = StartNewTransfer]
                /\ UNCHANGED <<state, storage, workQueue, delegateQueue, crash>>
    /\ UNCHANGED <<suspendCount, delivering, checked, sessionVars,
                   scenario, app, pc, completions, calls, pieces>>

\* The handler of the request's timer.  Nobody is told of a timeout that ends
\* the wait for the answer to a redirect.
TimedOut(p) ==
    /\ ~checked
    /\ scenario.timeouts
    /\ protocols[p].timer
    /\ protocols' = [protocols EXCEPT ![p] = TaskCompleted]
    /\ IF protocols[p].at = "waitingForRedirectCompletionHandler"
       THEN UNCHANGED <<state, storage, error, workQueue, delegateQueue, crash>>
       ELSE error' = TRUE /\ Conclude(<<Op("complete", p)>>, workQueue)
    /\ UNCHANGED <<suspendCount, delivering, checked, sessionVars, clientVars>>

TransferEnds == \E p \in 1 .. Len(protocols) : TransferCompleted(p) \/ TimedOut(p)

-----------------------------------------------------------------------------
(* The thread of the cache: _satisfyProtocolRequest                        *)

CacheReplies ==
    /\ storage.kind = "awaitingCacheReply"
    /\ protocols' = Append(protocols, NewProtocol)
    /\ storage' = Stored("existing", Len(protocols) + 1, <<>>)
    /\ delivering' = storage.bag
    /\ UNCHANGED <<state, suspendCount, error, queueVars, clientVars>>

DeliverProtocol ==
    /\ delivering # <<>>
    /\ workQueue' = Append(workQueue, Block(Head(delivering), 1))
    /\ delivering' = Tail(delivering)
    /\ UNCHANGED <<state, suspendCount, error, storage, protocols, checked, delegateQueue,
                   sessionVars, crash, clientVars>>

-----------------------------------------------------------------------------
(* The application's thread and the delegate queue                         *)

\* A client enters a synchronous block and waits for it at `place`.
Enter(client, call, place) ==
    /\ workQueue' = Append(workQueue, SyncBlock(call, client))
    /\ pc' = [pc EXCEPT ![client] = place]

AppCalls ==
    /\ pc["app"] = "idle"
    /\ app # <<>>
    /\ app' = Tail(app)
    /\ CASE Head(app) \in Calls -> Enter("app", Head(app), "waiting")
         [] Head(app) = "invalidateAndCancel" -> Enter("app", "close", "closing")
         [] Head(app) = "finishTasksAndInvalidate" ->
                workQueue' = Append(workQueue, Block("finish", NoProtocol)) /\ UNCHANGED pc
    /\ UNCHANGED <<taskVars, checked, delegateQueue, sessionVars, crash,
                   scenario, replies, completions, calls, pieces>>

\* The tasks are left running.
CancelTasksNot ==
    /\ pc["app"] = "listing"
    /\ pc' = [pc EXCEPT !["app"] = "invalidating"]
    /\ UNCHANGED <<taskVars, queueVars, scenario, app, replies, completions, calls, pieces>>

\* invalidateAndCancel goes on: it cancels the tasks it finds in the registry
\* and then leaves the invalidation to the work queue.
CancelTasks ==
    /\ pc["app"] = "listing"
    /\ IF registered
       THEN Enter("app", "cancel", "cancelling")
       ELSE pc' = [pc EXCEPT !["app"] = "invalidating"] /\ UNCHANGED workQueue
    /\ UNCHANGED <<taskVars, checked, delegateQueue, sessionVars, crash,
                   scenario, app, replies, completions, calls, pieces>>

LeaveInvalidation ==
    /\ pc["app"] = "invalidating"
    /\ pc' = [pc EXCEPT !["app"] = "idle"]
    /\ workQueue' = Append(workQueue, Block("invalidate", NoProtocol))
    /\ UNCHANGED <<taskVars, checked, delegateQueue, sessionVars, crash,
                   scenario, app, replies, completions, calls, pieces>>

Operation == Head(delegateQueue)

\* Every operation that wants to report the completion does.
ReportedNever == FALSE

\* An operation that reports the completion first makes sure that no other has.
Reported == Operation.kind = "complete" /\ state = "completed"

BeginCallback ==
    /\ pc["delegate"] = "idle"
    /\ delegateQueue # <<>>
    /\ IF Reported
       THEN delegateQueue' = Tail(delegateQueue) /\ UNCHANGED <<pc, completions>>
       ELSE /\ pc' = [pc EXCEPT !["delegate"] = "callback"]
            /\ completions' = completions + IF Operation.kind = "complete" THEN 1 ELSE 0
            /\ UNCHANGED delegateQueue
    /\ UNCHANGED <<taskVars, workQueue, checked, sessionVars, crash,
                   scenario, app, replies, calls, pieces>>

\* The callback calls the task.
CallbackCalls ==
    /\ pc["delegate"] = "callback"
    /\ calls < MaxCalls
    /\ calls' = calls + 1
    /\ \E call \in scenario.calls[Operation.kind] : Enter("delegate", call, "calling")
    /\ UNCHANGED <<taskVars, checked, delegateQueue, sessionVars, crash,
                   scenario, app, replies, completions, pieces>>

EndCallback(kind) ==
    /\ pc["delegate"] = "callback"
    /\ Operation.kind = kind
    /\ pc' = [pc EXCEPT !["delegate"] = "idle"]
    /\ delegateQueue' = Tail(delegateQueue)
    /\ UNCHANGED <<suspendCount, error, storage, protocols, delivering, checked, registered, finishing, crash,
                   scenario, app, replies, completions, calls, pieces>>

EndNotification == EndCallback("notify") /\ UNCHANGED <<state, workQueue, delegate>>

\* After didBecomeInvalidWithError the session drops its delegate.
EndInvalidation ==
    /\ EndCallback("invalid")
    /\ delegate' = FALSE
    /\ UNCHANGED <<state, workQueue>>

\* The delegate answers in its callback; the answer is a block of the queue.
AnswerRedirect ==
    /\ EndCallback("redirect")
    /\ \E answer \in {"follow", "decline"} \cap scenario.dispositions :
         workQueue' = Append(workQueue, Block(answer, Operation.p))
    /\ UNCHANGED <<state, delegate>>

\* After the callback the task is completed, beside the work queue.
EndCompletion ==
    /\ EndCallback("complete")
    /\ state' = "completed"
    /\ workQueue' = Append(workQueue, Block("remove", NoProtocol))
    /\ UNCHANGED delegate

\* A challenge is answered with cancel(), or with a credential: the task is
\* suspended, gets a new protocol, and is resumed.  The default handling of a
\* proposed credential is the one or the other.
AnswerChallenge ==
    /\ pc["delegate"] = "callback"
    /\ Operation.kind = "challenge"
    /\ \/ "refuse" \in scenario.dispositions /\ Enter("delegate", "cancel", "refusing")
       \/ "propose" \in scenario.dispositions /\ Enter("delegate", "suspend", "proposing")
    /\ UNCHANGED <<taskVars, checked, delegateQueue, sessionVars, crash,
                   scenario, app, replies, completions, calls, pieces>>

\* Nothing follows a callback whose completion handler is not called, nor the
\* default handling of a challenge for which no credential is proposed.
LeaveUnanswered ==
    /\ "none" \in scenario.dispositions
    /\ EndCallback("redirect") \/ EndCallback("challenge")
    /\ UNCHANGED <<state, workQueue, delegate>>

ReplaceProtocol ==
    /\ pc["delegate"] = "replacing"
    /\ protocols' = Append(protocols, NewProtocol)
    /\ storage' = Stored("existing", Len(protocols) + 1, <<>>)
    /\ Enter("delegate", "resume", "retrying")
    /\ UNCHANGED <<state, suspendCount, error, delivering, checked, delegateQueue, sessionVars, crash,
                   scenario, app, replies, completions, calls, pieces>>

EndChallenge ==
    /\ pc["delegate"] = "done"
    /\ pc' = [pc EXCEPT !["delegate"] = "idle"]
    /\ delegateQueue' = Tail(delegateQueue)
    /\ UNCHANGED <<taskVars, workQueue, checked, sessionVars, crash,
                   scenario, app, replies, completions, calls, pieces>>

RunDelegate == \/ BeginCallback \/ EndNotification \/ EndInvalidation \/ AnswerRedirect \/ EndCompletion
               \/ AnswerChallenge \/ LeaveUnanswered \/ ReplaceProtocol \/ EndChallenge

Next ==
    /\ crash = "none"
    /\ \/ RunWork
       \/ \E p \in 1 .. Len(protocols) : ReceiveData(p)
       \/ TransferEnds
       \/ CacheReplies
       \/ DeliverProtocol
       \/ AppCalls \/ CancelTasks \/ LeaveInvalidation
       \/ RunDelegate
       \/ CallbackCalls

\* Dispatch runs what is queued, the cache answers, a callback returns, and a
\* transfer ends: the server's answer or the timer of the request sees to it.
Fairness ==
    /\ WF_vars(crash = "none" /\ RunWork)
    /\ WF_vars(crash = "none" /\ RunDelegate)
    /\ WF_vars(crash = "none" /\ CacheReplies)
    /\ WF_vars(crash = "none" /\ DeliverProtocol)
    /\ WF_vars(crash = "none" /\ TransferEnds)

Spec == Init /\ [][Next]_vars
FairSpec == Spec /\ Fairness

-----------------------------------------------------------------------------
(* What some theorems ask of a scenario.                                    *)

\* How often the application has suspended a task that it has not started yet,
\* call by call: it starts the task once, and calls neither suspend nor resume
\* on it afterwards.
Shifts == {"suspend", "resume"}
Suspensions(s) ==
  {count \in [0 .. Len(s.app) -> 0 .. Len(s.app) + 1] :
     /\ count[0] = 1
     /\ \A i \in 1 .. Len(s.app) :
          /\ s.app[i] \in Shifts => count[i - 1] > 0
          /\ count[i] = CASE s.app[i] = "suspend" -> count[i - 1] + 1
                          [] s.app[i] = "resume" -> count[i - 1] - 1
                          [] OTHER -> count[i - 1]}

\* With a delegate, whose callbacks suspend and resume the task themselves,
\* the application leaves that to them once it has started the task.
StartsOnce(s) == s.delegate => Suspensions(s) # {}

\* A task that waits for the cache has nothing to cancel yet when
\* invalidateAndCancel() cancels it.
StaysWhileCached(s) ==
  s.delegate /\ s.cache # "none" => \A i \in 1 .. Len(s.app) : s.app[i] # "invalidateAndCancel"

\* A task that may wait for the cache is left alone once it is started: what
\* waits for the answer of the cache and what is called meanwhile reach the
\* protocol in any order.
StartsCachedOnce(s) == s.cache # "none" => Suspensions(s) # {}

\* The application does not cancel a task whose response may be replayed from
\* the cache: the block that replays it asks nobody whether it is still wanted.
EndsReplay(s) ==
  s.delegate /\ s.cache = "hit" => \A i \in 1 .. Len(s.app) : s.app[i] # "cancel"

-----------------------------------------------------------------------------
(* Properties                                                              *)

ProtocolStates == {"initial", "fulfillingFromCache", "transferReady", "transferInProgress",
                   "waitingForRedirectCompletionHandler", "taskCompleted"}
ProtocolNumbers == 0 .. Len(protocols)
Callbacks == {"start", "stop", "cancelled"}
BlockKinds == Callbacks \cup Calls \cup {"add", "remove", "finish", "close", "invalidate",
                                         "fulfil", "follow", "decline"}
Clients == {"app", "delegate"}
Places == DOMAIN AfterCall \cup {"idle", "callback", "replacing", "done", "listing", "invalidating"}

TaskTypes ==
    /\ state \in {"running", "suspended", "canceling", "completed"}
    /\ suspendCount \in Nat
    /\ error \in BOOLEAN
    /\ storage \in [kind : {"toBeCreated", "awaitingCacheReply", "existing", "invalidated"},
                    p : ProtocolNumbers, bag : Seq(Callbacks)]
    /\ (storage.kind = "existing") <=> (storage.p # NoProtocol)
    /\ protocols \in Seq([at : ProtocolStates, timer : BOOLEAN])
    /\ delivering \in Seq(Callbacks)

WorkTypes ==
    /\ workQueue \in Seq([kind : BlockKinds, p : ProtocolNumbers, by : Clients \cup {"queue"}])
    /\ \A i \in 1 .. Len(workQueue) :
          workQueue[i].kind \in {"fulfil", "follow", "decline"} => workQueue[i].p # NoProtocol
    /\ checked \in BOOLEAN
    /\ checked => Running("suspend") \/ Running("resume")

DelegateTypes ==
    /\ delegateQueue \in Seq([kind : OpKinds, p : ProtocolNumbers])
    /\ \A i \in 1 .. Len(delegateQueue) :
          delegateQueue[i].kind = "redirect" => delegateQueue[i].p # NoProtocol
    /\ pc \in [Clients -> Places]
    /\ pc["delegate"] # "idle" => delegateQueue # <<>>

OtherTypes ==
    /\ scenario \in Scenarios
    /\ app \in Seq(Calls \cup SessionCalls) /\ replies \in Seq(Replies)
    /\ registered \in BOOLEAN /\ delegate \in BOOLEAN /\ finishing \in BOOLEAN
    /\ completions \in Nat /\ calls \in Nat /\ pieces \in Nat

\* The types of all variables; blocks that need a protocol have one, a block is
\* checked only while it runs, and a callback is that of an operation.
TypeOK == TaskTypes /\ WorkTypes /\ DelegateTypes /\ OtherTypes

\* No fatalError is reached: the registry and the protocol find what they
\* assert (TaskRegistry.swift:82,115, NativeProtocol.swift:70,
\* HTTPURLProtocol.swift:593).
AssertionsHold == crash = "none"

\* The completion is reported once, though a cancel, a timeout and the end of
\* the transfer may all be on their way to report it, and it is the last word:
\* no other callback waits behind it (URLSessionTask.swift:516 "The task has
\* completed and the session will receive no more delegate notifications").
CompletionIsLastWord ==
    /\ completions <= 1
    /\ completions = 1 => \A i \in 1 .. Len(delegateQueue) : delegateQueue[i].kind \in {"complete", "invalid"}

\* No task leaves a session that has a delegate without having reported its
\* completion, whoever invalidates the session meanwhile (URLSession.swift:283
\* "The session will continue to make delegate callbacks until
\* URLSession:didBecomeInvalidWithError: has been issued").
CompletionIsReported ==
    scenario.delegate /\ state = "completed" /\ ~registered
        => completions = 1

\* didBecomeInvalidWithError is the last callback of the session.
InvalidationIsLast ==
    /\ \A i \in 1 .. Len(delegateQueue) : delegateQueue[i].kind = "invalid" => i = Len(delegateQueue)
    /\ scenario.delegate /\ ~delegate => delegateQueue = <<>>

\* Once the blocks and the callbacks that were on their way have run, no
\* transfer of a suspended task is in progress, also after a redirect was
\* followed or a challenge was answered meanwhile (URLSessionTask.swift:412).
Settled == workQueue = <<>> /\ delivering = <<>> /\ storage.kind # "awaitingCacheReply"
SuspendedIsIdle ==
    state = "suspended" /\ Settled => \A p \in 1 .. Len(protocols) : ~Loading(p)

\* A task never has two transfers in progress, though the answer to a
\* challenge gives it a second protocol (URLSessionTask.swift:921).
OneTransfer ==
    \A p, q \in 1 .. Len(protocols) : Loading(p) /\ Loading(q) => p = q

\* A cancelled task can only complete and a completed one stays so: no suspend
\* or resume on its way brings it back (URLSessionTask.swift:436,455,859).
CancelIsFinal ==
    [][/\ state = "completed" => state' = "completed"
       /\ state = "canceling" => state' \in {"canceling", "completed"}]_vars

\* A cancelled task completes, whatever it was doing: waiting for the cache,
\* loading, being challenged, or about to complete (URLSessionTask.swift:365).
CancelCompletes == (state = "canceling") ~> (state = "completed")

\* The transfer of a task has ended, or waits, for want of an answer: nothing
\* is queued, and nobody but a caller of the task will do anything for it.
MayLackAnswer ==
    IF scenario.delegate THEN "none" \in scenario.dispositions
    ELSE \E i \in 1 .. Len(scenario.replies) : scenario.replies[i] = "unauthorized"
Abandoned ==
    /\ MayLackAnswer
    /\ workQueue = <<>> /\ delegateQueue = <<>> /\ storage.kind = "existing"
    /\ protocols[storage.p].at \in {"taskCompleted", "waitingForRedirectCompletionHandler"}

\* A running task does not stay so: it completes, or is suspended or cancelled,
\* unless a redirect or a challenge is left without an answer.  Then it stays
\* running for ever, whatever its timer does (URLSessionTask.swift:927,
\* HTTPURLProtocol.swift:411), and only in such a scenario.
RunningEnds == (state = "running") ~> (state # "running" \/ Abandoned)
=============================================================================
