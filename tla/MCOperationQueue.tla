---------------------------- MODULE MCOperationQueue ----------------------------
(* Model-checking instances of OperationQueue. *)
EXTENDS OperationQueue

CONSTANTS a, b, c, barrier, m, n

MCOps == {a, b, c}
MCTwoOps == {a, b}
MCWithBarrier == {a, b, c, barrier}
MCClients == {m, n}
MCOne == {m}
MCBarriers == {barrier}
MCLevels == {0, 1, 2}
MCBatches == {<<a>>, <<b>>, <<c>>, <<a, b>>, <<b, a>>, <<b, c>>, <<c, b>>}
MCTwoBatches == {<<a, b>>, <<b, a>>}
MCQoS == [o \in Ops |-> IF o = a THEN 1 ELSE None]
MCNoQoS == [o \in Ops |-> None]

Linking(o, up) == <<"addDependency", o, up>>
Unlinking(o, up) == <<"removeDependency", o, up>>
Cancelling(o) == <<"cancel", o>>
Waiting(o) == <<"waitUntilFinished", o>>
Adding(batch) == <<"addOperations", batch>>
AddingBarrier == <<"addBarrierBlock", barrier>>
Limiting(max) == <<"maxConcurrentOperationCount", max>>
Suspending == <<"isSuspended", TRUE>>
Resuming == <<"isSuspended", FALSE>>
Prioritising(o, k) == <<"queuePriority", o, k>>
CancellingAll == <<"cancelAllOperations">>
WaitingForAll == <<"waitUntilAllOperationsAreFinished">>

\* m links two operations or makes the queue serial, and adds them; n interferes.
MCProgram ==
  (m :> << {Linking(b, a), Limiting(1)}, {Adding(<<a, b>>), Adding(<<b, a>>)} >>) @@
  (n :> << {Cancelling(b), Prioritising(b, 1), Suspending},
           {Resuming, Limiting(1), WaitingForAll, Unlinking(b, a)} >>)

\* A suspended queue is filled, with a barrier between the operations or before
\* them, and let go.
MCBarrierProgram ==
  m :> << {Suspending}, {Linking(b, a), Limiting(1)}, {Adding(<<a, b>>), Suspending},
          {AddingBarrier, CancellingAll}, {Cancelling(b), Prioritising(c, 1)}, {Adding(<<c>>)},
          {Resuming} >>

\* A dependency may finish while the operation that waits for it is being added.
MCRacingProgram ==
  m :> << {Linking(b, a)}, {Adding(<<a>>)}, {Adding(<<b>>)} >>
=================================================================================
