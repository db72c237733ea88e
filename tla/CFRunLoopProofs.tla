--------------------------- MODULE CFRunLoopProofs ---------------------------
(***************************************************************************)
(* Theorems about CFRunLoop, for all modes, sources, blocks, observers,    *)
(* clients and programs.                                                   *)
(***************************************************************************)
EXTENDS CFRunLoop, ListTheorems, FiniteSetTheorems, TLAPS

-----------------------------------------------------------------------------
(* The shape of a run: where it can be in each phase, what its list holds   *)
(* there, and when it ignores wakeups.                                      *)

BlockPhases == {"blocks1", "blocks2", "blocks3"}

PlaceOK(run) ==
  /\ run.at = "callout" => run.phase \in Activities \cup BlockPhases \cup {"sources", "source1"}
  /\ run.at = "list" => run.phase \in Activities \cup BlockPhases
                                        \cup {"sources", "asleep", "waking"}
  /\ run.phase \in {"asleep", "waking"} => run.at = "list"

ListOK(run) ==
  /\ run.phase \in Activities /\ run.at # "begin" => run.todo \in Seq(Observers)
  /\ run.phase = "sources" /\ run.at # "begin" => run.todo \in Seq(Manual)
  /\ run.phase \in BlockPhases /\ run.at # "begin" =>
       /\ run.todo \in Seq(Blocks)
       /\ \A i \in DOMAIN run.kept : run.mode \notin InMode[run.kept[i]]
  /\ run.at = "callout" /\ run.phase # "source1" => run.todo # <<>>

FlagsOK(run) ==
  /\ run.ignoring => run.phase \in {"AfterWaiting", "handle", "source1", "blocks3",
                                    "decide", "Exit"}
  /\ run.phase = "blocks2" => run.handled
  /\ run.phase = "sources" /\ run.at = "callout" => run.handled

RunOK(run) == PlaceOK(run) /\ ListOK(run) /\ FlagsOK(run)

Shape == TypeOK /\ \A d \in DOMAIN runs : RunOK(runs[d])

-----------------------------------------------------------------------------
(* Lemmas about the stack and the lists.                                    *)

(* The phases in which blocks are run.                                      *)
LEMMA AfterBlocksDomain == DOMAIN AfterBlocks = BlockPhases
BY DEF AfterBlocks, BlockPhases

(* The places below the last one.                                           *)
LEMMA BelowTop ==
  ASSUME NEW n \in Nat \ {0}
  PROVE  \A d \in 1..(n - 1) : d \in 1..n /\ d # n
OBVIOUS

(* A place is the last one or below it.                                     *)
LEMMA TopOrBelow ==
  ASSUME NEW n \in Nat, NEW d \in 1..n
  PROVE  n # 0 /\ (d \in 1..(n - 1) \/ d = n)
OBVIOUS

(* SetTop replaces the last run and leaves the others.                      *)
LEMMA TopReplaced ==
  ASSUME runs \in Seq(RunType), Running, NEW run \in RunType, SetTop(run)
  PROVE  /\ runs' \in Seq(RunType)
         /\ Len(runs') = Len(runs)
         /\ runs'[Len(runs)] = run
         /\ \A d \in 1..(Len(runs) - 1) : runs'[d] = runs[d]
         /\ runs' # <<>>
<1>1. Len(runs) \in Nat \ {0} /\ DOMAIN runs = 1..Len(runs)
  BY EmptySeq, LenProperties DEF Running
<1>2. runs' = [runs EXCEPT ![Len(runs)] = run]
  BY DEF SetTop
<1>3. Len(runs) \in 1..Len(runs) /\ Len(runs) - 1 < Len(runs)
  BY <1>1
<1>4. /\ runs' \in Seq(RunType)
      /\ Len(runs') = Len(runs)
      /\ \A d \in 1..Len(runs) : runs'[d] = IF d = Len(runs) THEN run ELSE runs[d]
  BY <1>2, <1>3, ExceptSeq
<1>5. runs' # <<>>
  BY <1>1, <1>4
<1>6. \A d \in 1..(Len(runs) - 1) : d \in 1..Len(runs) /\ d # Len(runs)
  BY <1>1, BelowTop
<1> QED BY <1>3, <1>4, <1>5, <1>6

(* The innermost run.                                                       *)
LEMMA TopIsRun ==
  ASSUME Shape, Running
  PROVE  /\ Len(runs) \in Nat \ {0}
         /\ DOMAIN runs = 1..Len(runs)
         /\ Len(runs) \in DOMAIN runs
         /\ Top \in RunType
         /\ RunOK(Top)
<1>1. runs \in Seq(RunType)
  BY DEF Shape, TypeOK
<1>2. Len(runs) \in Nat \ {0} /\ DOMAIN runs = 1..Len(runs)
  BY <1>1, EmptySeq, LenProperties DEF Running
<1>3. Len(runs) \in 1..Len(runs)
  BY <1>2
<1> QED BY <1>1, <1>2, <1>3, ElementOfSeq DEF Shape, Top

(* A step that gives the innermost run a good shape keeps that of the stack. *)
LEMMA StackKeepsShape ==
  ASSUME Shape, Running, NEW run \in RunType, RunOK(run), SetTop(run)
  PROVE  /\ runs' \in Seq(RunType)
         /\ \A d \in DOMAIN runs' : RunOK(runs'[d])
<1>1. runs \in Seq(RunType)
  BY DEF Shape, TypeOK
<1>2. /\ runs' \in Seq(RunType)
      /\ Len(runs') = Len(runs)
      /\ runs'[Len(runs)] = run
      /\ \A d \in 1..(Len(runs) - 1) : runs'[d] = runs[d]
  BY <1>1, TopReplaced
<1>3. DOMAIN runs' = 1..Len(runs) /\ Len(runs) \in Nat /\ DOMAIN runs = 1..Len(runs)
  BY <1>1, <1>2, LenProperties
<1>4. ASSUME NEW d \in DOMAIN runs'
      PROVE  RunOK(runs'[d])
  <2>1. CASE d = Len(runs)
    BY <1>2, <2>1
  <2>2. CASE d # Len(runs)
    <3>1. d \in 1..(Len(runs) - 1) /\ d \in DOMAIN runs
      BY <1>3, <2>2
    <3> QED BY <1>2, <3>1 DEF Shape
  <2> QED BY <2>1, <2>2
<1> QED BY <1>2, <1>4

(* Returning from a run.                                                    *)
LEMMA PopKeepsShape ==
  ASSUME Shape, Running, runs' = SubSeq(runs, 1, Len(runs) - 1)
  PROVE  /\ runs' \in Seq(RunType)
         /\ \A d \in DOMAIN runs' : RunOK(runs'[d])
         /\ Len(runs') = Len(runs) - 1
         /\ DOMAIN runs' = 1..(Len(runs) - 1)
         /\ \A d \in DOMAIN runs' : d \in DOMAIN runs /\ runs'[d] = runs[d]
<1>1. runs \in Seq(RunType) /\ Len(runs) \in Nat \ {0} /\ DOMAIN runs = 1..Len(runs)
  BY TopIsRun DEF Shape, TypeOK
<1>2. \A d \in 1..(Len(runs) - 1) : runs[d] \in RunType
  BY <1>1, ElementOfSeq
<1>3. /\ runs' \in Seq(RunType)
      /\ Len(runs') = Len(runs) - 1
  BY <1>1, <1>2, SubSeqProperties
<1>4. DOMAIN runs' = 1..(Len(runs) - 1)
  BY <1>3, LenProperties
<1>5. \A d \in DOMAIN runs' : d \in DOMAIN runs /\ runs'[d] = runs[d]
  BY <1>1, <1>3, <1>4, SubSeqProperties
<1> QED BY <1>3, <1>4, <1>5 DEF Shape

(* Entering a phase.                                                        *)
LEMMA EnteredOK ==
  ASSUME TypeOK, NEW run \in RunType,
         NEW phase \in Phases \ {"asleep", "waking"},
         run.ignoring => phase \in {"AfterWaiting", "handle", "source1", "blocks3",
                                    "decide", "Exit"},
         phase = "blocks2" => run.handled
  PROVE  /\ Entered(run, phase) \in RunType
         /\ RunOK(Entered(run, phase))
         /\ Entered(run, phase).phase = phase
         /\ Entered(run, phase).at = "begin"
<1>1. Entered(run, phase) \in RunType
  BY DEF TypeOK, RunType, Entered, Places
<1>2. /\ Entered(run, phase).phase = phase
      /\ Entered(run, phase).at = "begin"
      /\ Entered(run, phase).ignoring = run.ignoring
      /\ Entered(run, phase).handled = run.handled
  BY DEF RunType, Entered
<1> QED BY <1>1, <1>2 DEF RunOK, PlaceOK, ListOK, FlagsOK

-----------------------------------------------------------------------------
(* Every step of the loop's thread keeps the shape.                         *)

(* The phase that follows an activity, for the run to go on.                *)
LEMMA EnterAfterKeepsShape ==
  ASSUME Shape, Running, NEW a \in Activities \ {"Exit"}, Top.phase = a, EnterAfter(a)
  PROVE  /\ runs' \in Seq(RunType)
         /\ \A d \in DOMAIN runs' : RunOK(runs'[d])
<1>1. Top \in RunType /\ RunOK(Top) /\ TypeOK
  BY TopIsRun DEF Shape
<1>2. CASE a = "BeforeWaiting"
  <2> DEFINE run == [Top EXCEPT !.phase = "asleep", !.at = "list"]
  <2>1. /\ run \in RunType
        /\ run.phase = "asleep"
        /\ run.at = "list"
        /\ run.ignoring = Top.ignoring
    BY <1>1 DEF RunType, Phases, Places
  <2>2. RunOK(run)
    BY <1>1, <1>2, <2>1 DEF RunOK, PlaceOK, ListOK, FlagsOK, Activities, BlockPhases
  <2>3. SetTop(run)
    BY <1>2 DEF EnterAfter
  <2> HIDE DEF run
  <2> QED BY <2>1, <2>2, <2>3, StackKeepsShape
<1>3. CASE a # "BeforeWaiting"
  <2> DEFINE phase == AfterActivity(a)
  <2>1. phase \in Phases \ {"asleep", "waking", "blocks2"}
    BY <1>3 DEF AfterActivity, Activities, Phases
  <2>2. Top.ignoring => phase = "handle"
    BY <1>1 DEF RunOK, FlagsOK, AfterActivity, Activities
  <2>3. SetTop(Entered(Top, phase))
    BY <1>3 DEF EnterAfter, Enter
  <2> HIDE DEF phase
  <2>4. Entered(Top, phase) \in RunType /\ RunOK(Entered(Top, phase))
    BY <1>1, <2>1, <2>2, EnteredOK
  <2> QED BY <2>3, <2>4, StackKeepsShape
<1> QED BY <1>2, <1>3

(* What an observer's activity collects.                                    *)
LEMMA CollectedType ==
  ASSUME Shape, Running, NEW a
  PROVE  /\ Collected(a) \in Seq(Observers)
         /\ \A o \in ToSet(Collected(a)) : o \notin firing
<1>1. observers[Top.mode] \in Seq(Observers)
  BY TopIsRun DEF Shape, TypeOK, RunType
<1>2. <<>> \in Seq(Observers) /\ ToSet(<<>>) = {}
  BY EmptySeq DEF ToSet
<1> DEFINE set == {o \in (valid \cap Observers) \ firing : a \in Watches[o]}
           list == observers[Top.mode]
<1>3. Collected(a) = IF Called(a) THEN Among(list, set) ELSE <<>>
  BY DEF Collected
<1>4. \A o \in set : o \notin firing
  OBVIOUS
<1> HIDE DEF list, set
<1>5. Among(list, set) \in Seq(Observers) /\ ToSet(Among(list, set)) \subseteq set
  BY <1>1, AmongProperties DEF list
<1> QED BY <1>2, <1>3, <1>4, <1>5

(* Collecting the observers of an activity.                                 *)
LEMMA DoObserversShape ==
  ASSUME Shape, NEW a \in Activities, DoObservers(a), UNCHANGED done
  PROVE  Shape'
<1>1. Running /\ Top \in RunType /\ RunOK(Top) /\ Top.phase = a /\ Top.at = "begin"
  BY TopIsRun DEF DoObservers, Serving
<1>2. CASE a = "Exit" /\ Collected(a) = <<>>
  <2>1. runs' = SubSeq(runs, 1, Len(runs) - 1)
    BY <1>2 DEF DoObservers
  <2> QED BY <1>1, <2>1, PopKeepsShape DEF DoObservers, Shape, TypeOK, itemVars, history
<1>3. CASE a # "Exit" /\ Collected(a) = <<>>
  <2>1. EnterAfter(a)
    BY <1>3 DEF DoObservers
  <2>2. a \in Activities \ {"Exit"}
    BY <1>3
  <2> QED BY <1>1, <2>1, <2>2, EnterAfterKeepsShape DEF DoObservers, Shape, TypeOK, itemVars, history
<1>4. CASE Collected(a) # <<>>
  <2> DEFINE list == Collected(a)
             run == [Top EXCEPT !.at = "list", !.todo = list]
  <2>1. list \in Seq(Observers) /\ list \in Seq(Manual \cup Observers \cup Blocks)
    BY <1>1, CollectedType, SeqMonotonic
  <2>2. SetTop(run)
    BY <1>4 DEF DoObservers
  <2> HIDE DEF list
  <2>3. /\ run \in RunType
        /\ run.phase = a
        /\ run.at = "list"
        /\ run.todo = list
        /\ run.ignoring = Top.ignoring
    BY <1>1, <2>1 DEF RunType, Places
  <2>4. RunOK(run)
    BY <1>1, <2>1, <2>3 DEF RunOK, PlaceOK, ListOK, FlagsOK, Activities, BlockPhases
  <2> HIDE DEF run
  <2> QED BY <1>1, <2>2, <2>3, <2>4, StackKeepsShape
          DEF DoObservers, Shape, TypeOK, itemVars, history
<1> QED BY <1>2, <1>3, <1>4

(* Calling an observer, or passing over it.                                 *)
LEMMA CallObserverShape ==
  ASSUME Shape, NEW a \in Activities, CallObserver(a), UNCHANGED done
  PROVE  Shape'
<1>1. Running /\ Top \in RunType /\ RunOK(Top) /\ Top.phase = a /\ Top.at = "list"
  BY TopIsRun DEF CallObserver, Serving
<1>2. Top.todo \in Seq(Observers) /\ Top.todo # <<>>
  BY <1>1 DEF CallObserver, RunOK, ListOK
<1>3. Head(Top.todo) \in Observers /\ Tail(Top.todo) \in Seq(Observers)
  BY <1>2, HeadTailProperties
<1>4. Tail(Top.todo) \in Seq(Manual \cup Observers \cup Blocks)
  BY <1>3, SeqMonotonic
<1>5. CASE Head(Top.todo) \in valid
  <2> DEFINE run == [Top EXCEPT !.at = "callout"]
  <2>1. /\ run \in RunType
        /\ run.phase = a
        /\ run.at = "callout"
        /\ run.todo = Top.todo
        /\ run.ignoring = Top.ignoring
    BY <1>1 DEF RunType, Places
  <2>2. RunOK(run)
    BY <1>1, <1>2, <2>1 DEF RunOK, PlaceOK, ListOK, FlagsOK, Activities, BlockPhases
  <2>3. SetTop(run)
    BY <1>5 DEF CallObserver
  <2> HIDE DEF run
  <2>4. firing' \subseteq Observers
    BY <1>3, <1>5 DEF CallObserver, Shape, TypeOK
  <2>5. fired' \in [Observers -> 0..2]
    BY <1>3, <1>5 DEF CallObserver, Shape, TypeOK
  <2> QED BY <1>1, <2>1, <2>2, <2>3, <2>4, <2>5, StackKeepsShape
          DEF CallObserver, Shape, TypeOK
<1>6. CASE Head(Top.todo) \notin valid
  <2> DEFINE run == [Top EXCEPT !.todo = Tail(@)]
  <2>1. /\ run \in RunType
        /\ run.phase = a
        /\ run.at = "list"
        /\ run.todo = Tail(Top.todo)
        /\ run.ignoring = Top.ignoring
    BY <1>1, <1>4 DEF RunType, Places
  <2>2. RunOK(run)
    BY <1>1, <1>3, <2>1 DEF RunOK, PlaceOK, ListOK, FlagsOK, Activities, BlockPhases
  <2>3. SetTop(run)
    BY <1>6 DEF CallObserver
  <2> HIDE DEF run
  <2> QED BY <1>1, <1>6, <2>1, <2>2, <2>3, StackKeepsShape
          DEF CallObserver, Shape, TypeOK
<1> QED BY <1>5, <1>6

(* The last observer was called.                                            *)
LEMMA ObserversDoneShape ==
  ASSUME Shape, NEW a \in Activities, ObserversDone(a), UNCHANGED done
  PROVE  Shape'
<1>1. Running /\ Top.phase = a
  BY DEF ObserversDone, Serving
<1>2. CASE a = "Exit"
  <2>1. runs' = SubSeq(runs, 1, Len(runs) - 1)
    BY <1>2 DEF ObserversDone
  <2> QED BY <1>1, <2>1, PopKeepsShape DEF ObserversDone, Shape, TypeOK, itemVars, history
<1>3. CASE a # "Exit"
  <2>1. EnterAfter(a) /\ a \in Activities \ {"Exit"}
    BY <1>3 DEF ObserversDone
  <2> QED BY <1>1, <2>1, EnterAfterKeepsShape DEF ObserversDone, Shape, TypeOK, itemVars, history
<1> QED BY <1>2, <1>3

(* Entering a phase gives the stack a good shape.                           *)
LEMMA EnterKeepsShape ==
  ASSUME Shape, Running, NEW run \in RunType,
         NEW phase \in Phases \ {"asleep", "waking"},
         run.ignoring => phase \in {"AfterWaiting", "handle", "source1", "blocks3",
                                    "decide", "Exit"},
         phase = "blocks2" => run.handled,
         Enter(run, phase)
  PROVE  /\ runs' \in Seq(RunType)
         /\ \A d \in DOMAIN runs' : RunOK(runs'[d])
<1>1. Entered(run, phase) \in RunType /\ RunOK(Entered(run, phase))
  BY EnteredOK DEF Shape
<1>2. SetTop(Entered(run, phase))
  BY DEF Enter
<1> QED BY <1>1, <1>2, StackKeepsShape

(* A run begins, or is stopped before it has begun.                         *)
LEMMA StartRunShape ==
  ASSUME Shape, StartRun, UNCHANGED done
  PROVE  Shape'
<1>1. Running /\ Top \in RunType /\ RunOK(Top) /\ Top.phase = "start"
  BY TopIsRun DEF StartRun, Serving
<1>2. ~Top.ignoring
  BY <1>1 DEF RunOK, FlagsOK, RunType
<1>3. modeStopped' \subseteq Modes
  BY DEF StartRun, Shape, TypeOK
<1> DEFINE run == [Top EXCEPT !.result = "Stopped", !.stopped = FALSE]
<1>4. run \in RunType /\ run.ignoring = Top.ignoring
  BY <1>1 DEF RunType, Results
<1>5. Enter(run, "Exit") \/ Enter(Top, "BeforeTimers")
  BY DEF StartRun
<1> HIDE DEF run
<1>6. "Exit" \in Phases \ {"asleep", "waking"} /\ "BeforeTimers" \in Phases \ {"asleep", "waking"}
  BY DEF Phases, Activities
<1>7. runs' \in Seq(RunType) /\ \A d \in DOMAIN runs' : RunOK(runs'[d])
  <2>1. CASE Enter(run, "Exit")
    BY <1>1, <1>2, <1>4, <1>6, <2>1, EnterKeepsShape
  <2>2. CASE Enter(Top, "BeforeTimers")
    BY <1>1, <1>2, <1>4, <1>6, <2>2, EnterKeepsShape
  <2> QED BY <1>5, <2>1, <2>2
<1> QED BY <1>3, <1>7 DEF StartRun, Shape, TypeOK, itemVars, history

(* The phase after the blocks.                                              *)
LEMMA AfterBlocksPhase ==
  ASSUME NEW p \in BlockPhases
  PROVE  /\ AfterBlocks[p] \in {"sources", "BeforeWaiting", "decide"}
         /\ AfterBlocks[p] \in Phases \ {"asleep", "waking"}
         /\ AfterBlocks[p] = "decide" <=> p = "blocks3"
BY DEF AfterBlocks, BlockPhases, Phases, Activities

(* Taking the list of blocks.                                               *)
LEMMA DoBlocksShape ==
  ASSUME Shape, NEW p \in BlockPhases, DoBlocks(p), UNCHANGED done
  PROVE  Shape'
<1>1. Running /\ Top \in RunType /\ RunOK(Top) /\ Top.phase = p
  BY TopIsRun DEF DoBlocks, Serving
<1>2. Top.ignoring => p = "blocks3"
  BY <1>1 DEF RunOK, FlagsOK, BlockPhases
<1>3. blocks \in Seq(Blocks) /\ blocks' = <<>> /\ blocks' \in Seq(Blocks)
  BY EmptySeq DEF DoBlocks, Shape, TypeOK
<1>4. runs' \in Seq(RunType) /\ \A d \in DOMAIN runs' : RunOK(runs'[d])
  <2>1. CASE blocks = <<>>
    <3>1. Enter(Top, AfterBlocks[p])
      BY <2>1 DEF DoBlocks
    <3>2. /\ AfterBlocks[p] \in Phases \ {"asleep", "waking"}
          /\ AfterBlocks[p] # "blocks2"
          /\ Top.ignoring => AfterBlocks[p] \in {"AfterWaiting", "handle", "source1", "blocks3",
                                                 "decide", "Exit"}
      BY <1>2, AfterBlocksPhase
    <3> QED BY <1>1, <3>1, <3>2, EnterKeepsShape
  <2>2. CASE blocks # <<>>
    <3> DEFINE run == [Top EXCEPT !.at = "list", !.todo = blocks, !.kept = <<>>]
    <3>1. SetTop(run)
      BY <2>2 DEF DoBlocks
    <3>2. blocks \in Seq(Manual \cup Observers \cup Blocks) /\ <<>> \in Seq(Blocks)
      BY <1>3, SeqMonotonic
    <3>3. /\ run \in RunType
          /\ run.phase = p
          /\ run.at = "list"
          /\ run.todo = blocks
          /\ run.kept = <<>>
          /\ run.ignoring = Top.ignoring
          /\ run.handled = Top.handled
      BY <1>1, <3>2 DEF RunType, Places
    <3>4. RunOK(run)
      BY <1>1, <1>3, <3>3 DEF RunOK, PlaceOK, ListOK, FlagsOK, Activities, BlockPhases
    <3> HIDE DEF run
    <3> QED BY <1>1, <3>1, <3>3, <3>4, StackKeepsShape
  <2> QED BY <2>1, <2>2
<1> QED BY <1>3, <1>4 DEF DoBlocks, Shape, TypeOK, itemVars, history

(* The list of a run that is running blocks.                                *)
LEMMA BlockList ==
  ASSUME Shape, Running, Top.phase \in BlockPhases, Top.at # "begin"
  PROVE  /\ Top.todo \in Seq(Blocks)
         /\ Top.kept \in Seq(Blocks)
         /\ \A i \in DOMAIN Top.kept : Top.mode \notin InMode[Top.kept[i]]
         /\ Top.todo # <<>> =>
              /\ Head(Top.todo) \in Blocks
              /\ Tail(Top.todo) \in Seq(Blocks)
              /\ Tail(Top.todo) \in Seq(Manual \cup Observers \cup Blocks)
<1>1. Top \in RunType /\ RunOK(Top)
  BY TopIsRun
<1>2. /\ Top.todo \in Seq(Blocks)
      /\ Top.kept \in Seq(Blocks)
      /\ \A i \in DOMAIN Top.kept : Top.mode \notin InMode[Top.kept[i]]
  BY <1>1 DEF RunOK, ListOK, RunType
<1>3. Top.todo # <<>> => Head(Top.todo) \in Blocks /\ Tail(Top.todo) \in Seq(Blocks)
  BY <1>2, HeadTailProperties
<1> QED BY <1>2, <1>3, SeqMonotonic

(* Running a block, or keeping it for another mode.                         *)
LEMMA RunBlockShape ==
  ASSUME Shape, NEW p \in BlockPhases, RunBlock(p), UNCHANGED done
  PROVE  Shape'
<1>1. Running /\ Top \in RunType /\ RunOK(Top) /\ Top.phase = p /\ Top.at = "list"
  BY TopIsRun DEF RunBlock, Serving
<1>2. Top.todo # <<>>
  BY DEF RunBlock
<1> DEFINE b == Head(Top.todo)
<1>3. /\ b \in Blocks /\ Top.todo \in Seq(Blocks) /\ Top.kept \in Seq(Blocks)
      /\ Tail(Top.todo) \in Seq(Blocks)
      /\ Tail(Top.todo) \in Seq(Manual \cup Observers \cup Blocks)
      /\ \A i \in DOMAIN Top.kept : Top.mode \notin InMode[Top.kept[i]]
  BY <1>1, <1>2, BlockList
<1>4. owed' \in Seq(Blocks)
  BY RemoveFirstProperties DEF RunBlock, Shape, TypeOK
<1>5. CASE Top.mode \in InMode[b]
  <2> DEFINE run == [Top EXCEPT !.at = "callout"]
  <2>1. /\ run \in RunType
        /\ run.phase = p
        /\ run.mode = Top.mode
        /\ run.kept = Top.kept
        /\ run.at = "callout"
        /\ run.todo = Top.todo
        /\ run.ignoring = Top.ignoring
        /\ run.handled = Top.handled
    BY <1>1 DEF RunType, Places
  <2>2. RunOK(run)
    BY <1>1, <1>2, <1>3, <2>1 DEF RunOK, PlaceOK, ListOK, FlagsOK, Activities, BlockPhases
  <2>3. SetTop(run)
    BY <1>5 DEF RunBlock
  <2> HIDE DEF run
  <2> QED BY <1>1, <1>4, <2>1, <2>2, <2>3, StackKeepsShape
          DEF RunBlock, Shape, TypeOK, itemVars
<1>6. CASE Top.mode \notin InMode[b]
  <2> DEFINE kept == Append(Top.kept, b)
             run == [Top EXCEPT !.todo = Tail(@), !.kept = Append(@, b)]
  <2>1. /\ kept \in Seq(Blocks)
        /\ \A i \in DOMAIN kept : Top.mode \notin InMode[kept[i]]
    BY <1>3, <1>6, AppendProperties, LenProperties
  <2>2. /\ run \in RunType
        /\ run.phase = p
        /\ run.mode = Top.mode
        /\ run.kept = kept
        /\ run.at = "list"
        /\ run.todo = Tail(Top.todo)
        /\ run.ignoring = Top.ignoring
        /\ run.handled = Top.handled
    BY <1>1, <1>3, <2>1 DEF RunType, Places
  <2>3. SetTop(run)
    BY <1>6 DEF RunBlock
  <2> HIDE DEF run, kept
  <2>4. RunOK(run)
    BY <1>1, <1>3, <2>1, <2>2 DEF RunOK, PlaceOK, ListOK, FlagsOK, Activities, BlockPhases
  <2> QED BY <1>1, <1>4, <2>2, <2>3, <2>4, StackKeepsShape
          DEF RunBlock, Shape, TypeOK, itemVars
<1> QED BY <1>5, <1>6

(* Putting the kept blocks back.                                            *)
LEMMA PutBackShape ==
  ASSUME Shape, NEW p \in BlockPhases, PutBack(p), UNCHANGED done
  PROVE  Shape'
<1>1. Running /\ Top \in RunType /\ RunOK(Top) /\ Top.phase = p /\ Top.at = "list"
  BY TopIsRun DEF PutBack, Serving
<1>2. Top.ignoring => p = "blocks3"
  BY <1>1 DEF RunOK, FlagsOK, BlockPhases
<1>3. blocks' \in Seq(Blocks)
  BY <1>1, BlockList, ConcatProperties DEF PutBack, Shape, TypeOK
<1> DEFINE run == [Top EXCEPT !.kept = <<>>]
<1>4. run \in RunType /\ run.ignoring = Top.ignoring
  BY <1>1, EmptySeq DEF RunType
<1>5. Enter(run, AfterBlocks[p])
  BY DEF PutBack
<1> HIDE DEF run
<1>6. /\ AfterBlocks[p] \in Phases \ {"asleep", "waking"}
      /\ AfterBlocks[p] # "blocks2"
      /\ Top.ignoring => AfterBlocks[p] \in {"AfterWaiting", "handle", "source1", "blocks3",
                                             "decide", "Exit"}
  BY <1>2, AfterBlocksPhase
<1> QED BY <1>1, <1>3, <1>4, <1>5, <1>6, EnterKeepsShape DEF PutBack, Shape, TypeOK, itemVars, history

(* Looking at one source.                                                   *)
LEMMA ScanSourceShape ==
  ASSUME Shape, ScanSource, UNCHANGED done
  PROVE  Shape'
<1>1. Running /\ Top \in RunType /\ RunOK(Top) /\ Top.phase = "sources" /\ Top.at = "begin"
  BY TopIsRun DEF ScanSource, Serving
<1>2. PICK s \in Top.scan :
        SetTop([Top EXCEPT !.scan = @ \ {s},
                           !.found = IF s \in Signaled \cap valid THEN @ \cup {s} ELSE @])
  BY DEF ScanSource
<1> DEFINE run == [Top EXCEPT !.scan = @ \ {s},
                              !.found = IF s \in Signaled \cap valid THEN @ \cup {s} ELSE @]
<1>3. Top.scan \subseteq Manual /\ Top.found \subseteq Manual
  BY <1>1 DEF RunType
<1>4. /\ run \in RunType
      /\ run.phase = "sources"
      /\ run.at = "begin"
      /\ run.ignoring = Top.ignoring
  BY <1>1, <1>3 DEF RunType
<1>5. RunOK(run)
  BY <1>1, <1>4 DEF RunOK, PlaceOK, ListOK, FlagsOK, Activities, BlockPhases
<1>6. SetTop(run)
  BY <1>2
<1> HIDE DEF run
<1> QED BY <1>1, <1>4, <1>5, <1>6, StackKeepsShape
        DEF ScanSource, Shape, TypeOK, itemVars, history

(* The sorted list of the sources found has these sources.                  *)
LEMMA SortingsType ==
  ASSUME NEW set \in SUBSET Manual, NEW list \in Sortings(set)
  PROVE  list \in Seq(Manual)
<1>1. IsFiniteSet(set)
  BY FS_Subset, RunLoopConstants DEF Sources
<1>2. Cardinality(set) \in Nat
  BY <1>1, FS_CardinalityType
<1>3. list \in [1..Cardinality(set) -> set]
  BY DEF Sortings, SetToSeqs
<1>4. list \in [1..Cardinality(set) -> Manual]
  BY <1>3
<1> QED BY <1>2, <1>4, IsASeq

(* The phase after the sources.                                             *)
LEMMA AfterSourcesShape ==
  ASSUME Shape, Running, NEW run \in RunType, ~run.ignoring, AfterSources(run)
  PROVE  /\ runs' \in Seq(RunType)
         /\ \A d \in DOMAIN runs' : RunOK(runs'[d])
<1> DEFINE phase == IF run.handled THEN "blocks2" ELSE "BeforeWaiting"
<1>1. phase \in Phases \ {"asleep", "waking"} /\ (phase = "blocks2" => run.handled)
  BY DEF Phases, Activities
<1>2. Enter(run, phase)
  BY DEF AfterSources
<1> HIDE DEF phase
<1> QED BY <1>1, <1>2, EnterKeepsShape

(* Sorting the sources found, or going on if there are none.                *)
LEMMA DoSources0Shape ==
  ASSUME Shape, DoSources0, UNCHANGED done
  PROVE  Shape'
<1>1. Running /\ Top \in RunType /\ RunOK(Top) /\ Top.phase = "sources" /\ Top.at = "begin"
  BY TopIsRun DEF DoSources0, Serving
<1> DEFINE run == [Top EXCEPT !.found = {}, !.handled = FALSE]
<1>2. run \in RunType /\ ~run.ignoring /\ Top.found \in SUBSET Manual
  BY <1>1 DEF RunType, RunOK, FlagsOK
<1>3. runs' \in Seq(RunType) /\ \A d \in DOMAIN runs' : RunOK(runs'[d])
  <2>1. CASE Top.found = {}
    <3>1. AfterSources(run)
      BY <2>1 DEF DoSources0
    <3> HIDE DEF run
    <3> QED BY <1>1, <1>2, <3>1, AfterSourcesShape
  <2>2. CASE Top.found # {}
    <3>1. PICK list \in Sortings(Top.found) : SetTop([run EXCEPT !.at = "list", !.todo = list])
      BY <2>2 DEF DoSources0
    <3> DEFINE next == [run EXCEPT !.at = "list", !.todo = list]
    <3>2. list \in Seq(Manual) /\ list \in Seq(Manual \cup Observers \cup Blocks)
      BY <1>2, SortingsType, SeqMonotonic
    <3>3. /\ next \in RunType
          /\ next.phase = "sources"
          /\ next.at = "list"
          /\ next.todo = list
          /\ next.ignoring = Top.ignoring
      BY <1>1, <1>2, <3>2 DEF RunType, Places
    <3>4. RunOK(next)
      BY <1>1, <3>2, <3>3 DEF RunOK, PlaceOK, ListOK, FlagsOK, Activities, BlockPhases
    <3>5. SetTop(next)
      BY <3>1
    <3> HIDE DEF next
    <3> QED BY <1>1, <3>3, <3>4, <3>5, StackKeepsShape
  <2> QED BY <2>1, <2>2
<1> QED BY <1>3 DEF DoSources0, Shape, TypeOK, itemVars, history

(* The signals without one of them.                                         *)
LEMMA WithoutSignalType ==
  ASSUME Shape, NEW s
  PROVE  WithoutSignal(s) \in Seq(Sources) /\ ToSet(WithoutSignal(s)) = Signaled \ {s}
BY WithoutProperties DEF WithoutSignal, Signaled, Shape, TypeOK

(* Performing a source.                                                     *)
LEMMA PerformSourceShape ==
  ASSUME Shape, PerformSource, UNCHANGED done
  PROVE  Shape'
<1>1. /\ Running /\ Top \in RunType /\ RunOK(Top)
      /\ Top.phase = "sources" /\ Top.at = "list" /\ Top.todo # <<>>
  BY TopIsRun DEF PerformSource, Serving
<1>2. Top.todo \in Seq(Manual)
  BY <1>1 DEF RunOK, ListOK
<1>3. Head(Top.todo) \in Manual /\ Tail(Top.todo) \in Seq(Manual)
  BY <1>1, <1>2, HeadTailProperties
<1>4. Tail(Top.todo) \in Seq(Manual \cup Observers \cup Blocks)
  BY <1>3, SeqMonotonic
<1> DEFINE s == Head(Top.todo)
           perform == s \in Signaled /\ s \in valid
           run == [Top EXCEPT !.handled = perform,
                              !.at = IF perform THEN "callout" ELSE "list",
                              !.todo = IF perform THEN @ ELSE Tail(@)]
<1>5. SetTop(run)
  BY DEF PerformSource
<1>6. run \in RunType
  BY <1>1, <1>4 DEF RunType, Places
<1>7. /\ run.phase = "sources"
      /\ run.handled = perform
      /\ run.at = IF perform THEN "callout" ELSE "list"
      /\ run.todo = IF perform THEN Top.todo ELSE Tail(Top.todo)
      /\ run.ignoring = Top.ignoring
  BY <1>1 DEF RunType
<1> HIDE DEF run
<1>8. RunOK(run)
  BY <1>1, <1>2, <1>3, <1>7 DEF RunOK, PlaceOK, ListOK, FlagsOK, Activities, BlockPhases
<1>9. signals' \in Seq(Sources)
  BY WithoutSignalType DEF PerformSource
<1>10. announced' \subseteq Sources \cup Blocks
  BY DEF PerformSource, Shape, TypeOK
<1> QED BY <1>1, <1>5, <1>6, <1>8, <1>9, <1>10, StackKeepsShape
        DEF PerformSource, Shape, TypeOK

(* The last source was performed.                                           *)
LEMMA SourcesDoneShape ==
  ASSUME Shape, SourcesDone, UNCHANGED done
  PROVE  Shape'
<1>1. Running /\ Top \in RunType /\ ~Top.ignoring
  BY TopIsRun DEF SourcesDone, Serving, RunOK, FlagsOK, RunType
<1>2. runs' \in Seq(RunType) /\ \A d \in DOMAIN runs' : RunOK(runs'[d])
  BY <1>1, AfterSourcesShape DEF SourcesDone
<1> QED BY <1>2 DEF SourcesDone, Shape, TypeOK, itemVars, history

(* The runs that may lose a wakeup.                                         *)
LEMMA RobbedType ==
  ASSUME Shape
  PROVE  Robbed \subseteq Nat
BY LenProperties DEF Robbed, Shape, TypeOK

(* The wait is over.                                                        *)
LEMMA WaitShape ==
  ASSUME Shape, Wait, UNCHANGED done
  PROVE  Shape'
<1>1. /\ Running /\ Top \in RunType /\ RunOK(Top)
      /\ Top.phase = "asleep" /\ Top.at = "list" /\ ~Top.ignoring
  BY TopIsRun DEF Wait, Serving, RunOK, FlagsOK
<1>2. PICK port \in {NoPort, WakePort} \cup Ports :
        SetTop([Top EXCEPT !.phase = "waking", !.port = port])
  BY DEF Wait, PortsOf
<1> DEFINE run == [Top EXCEPT !.phase = "waking", !.port = port]
<1>3. /\ run \in RunType
      /\ run.phase = "waking"
      /\ run.at = "list"
      /\ run.ignoring = Top.ignoring
  BY <1>1 DEF RunType, Phases
<1>4. RunOK(run)
  BY <1>1, <1>3 DEF RunOK, PlaceOK, ListOK, FlagsOK, Activities, BlockPhases
<1>5. SetTop(run)
  BY <1>2
<1> HIDE DEF run
<1>6. readable' \subseteq {WakePort} \cup Ports
  BY DEF Wait, Shape, TypeOK
<1>7. robbed' \subseteq Nat
  BY RobbedType DEF Wait, Shape, TypeOK
<1> QED BY <1>1, <1>3, <1>4, <1>5, <1>6, <1>7, StackKeepsShape
        DEF Wait, Shape, TypeOK, itemVars

(* The loop locks again and ignores wakeups.                                *)
LEMMA AwakenShape ==
  ASSUME Shape, Awaken, UNCHANGED done
  PROVE  Shape'
<1>1. Running /\ Top \in RunType
  BY TopIsRun DEF Awaken, Serving
<1> DEFINE run == [Top EXCEPT !.ignoring = TRUE]
<1>2. run \in RunType /\ "AfterWaiting" \in Phases \ {"asleep", "waking"}
  BY <1>1 DEF RunType, Phases, Activities
<1>3. Enter(run, "AfterWaiting")
  BY DEF Awaken
<1> HIDE DEF run
<1>4. runs' \in Seq(RunType) /\ \A d \in DOMAIN runs' : RunOK(runs'[d])
  BY <1>1, <1>2, <1>3, EnterKeepsShape
<1>5. robbed' \subseteq Nat
  BY DEF Awaken, Shape, TypeOK
<1> QED BY <1>4, <1>5 DEF Awaken, Shape, TypeOK, itemVars

(* What woke the loop.                                                      *)
LEMMA HandleShape ==
  ASSUME Shape, Handle, UNCHANGED done
  PROVE  Shape'
<1>1. Running /\ Top \in RunType
  BY TopIsRun DEF Handle, Serving
<1> DEFINE run == [Top EXCEPT !.ignoring = TRUE]
           phase == IF Top.port \in sources[Top.mode] THEN "source1" ELSE "blocks3"
<1>2. run \in RunType
  BY <1>1 DEF RunType
<1>3. phase \in {"source1", "blocks3"} /\ {"source1", "blocks3"} \subseteq Phases \ {"asleep", "waking"}
  BY DEF Phases, Activities
<1>4. Enter(run, phase)
  BY DEF Handle
<1> HIDE DEF run, phase
<1>5. runs' \in Seq(RunType) /\ \A d \in DOMAIN runs' : RunOK(runs'[d])
  BY <1>1, <1>2, <1>3, <1>4, EnterKeepsShape
<1> QED BY <1>5 DEF Handle, Shape, TypeOK, itemVars, history

(* The source whose port was written.                                       *)
LEMMA DoSource1Shape ==
  ASSUME Shape, DoSource1, UNCHANGED done
  PROVE  Shape'
<1>1. Running /\ Top \in RunType /\ RunOK(Top) /\ Top.phase = "source1" /\ Top.at = "begin"
  BY TopIsRun DEF DoSource1, Serving
<1>2. signals' \in Seq(Sources)
  BY WithoutSignalType DEF DoSource1, Shape, TypeOK
<1>3. CASE Top.port \in valid
  <2> DEFINE run == [Top EXCEPT !.at = "callout", !.handled = TRUE]
  <2>1. /\ run \in RunType
        /\ run.phase = "source1"
        /\ run.at = "callout"
        /\ run.ignoring = Top.ignoring
    BY <1>1 DEF RunType, Places
  <2>2. RunOK(run)
    BY <1>1, <2>1 DEF RunOK, PlaceOK, ListOK, FlagsOK, Activities, BlockPhases
  <2>3. SetTop(run)
    BY <1>3 DEF DoSource1
  <2> HIDE DEF run
  <2> QED BY <1>1, <1>2, <2>1, <2>2, <2>3, StackKeepsShape DEF DoSource1, Shape, TypeOK, history
<1>4. CASE Top.port \notin valid
  <2>1. Enter(Top, "blocks3") /\ "blocks3" \in Phases \ {"asleep", "waking"}
    BY <1>4 DEF DoSource1, Phases, Activities
  <2>2. runs' \in Seq(RunType) /\ \A d \in DOMAIN runs' : RunOK(runs'[d])
    BY <1>1, <2>1, EnterKeepsShape
  <2> QED BY <1>2, <2>2 DEF DoSource1, Shape, TypeOK, history
<1> QED BY <1>3, <1>4

(* The end of an iteration.                                                 *)
LEMMA DecideShape ==
  ASSUME Shape, Decide, UNCHANGED done
  PROVE  Shape'
<1>1. Running /\ Top \in RunType
  BY TopIsRun DEF Decide, Serving
<1>2. modeStopped' \subseteq Modes
  BY DEF Decide, Shape, TypeOK
<1>3. {"BeforeTimers", "Exit"} \subseteq Phases \ {"asleep", "waking"}
  BY DEF Phases, Activities
<1> DEFINE next == [Top EXCEPT !.ignoring = FALSE]
           last(result) == [Top EXCEPT !.result = result,
                                       !.stopped = @ /\ result # "Stopped"]
<1>4. \/ Enter(next, "BeforeTimers")
      \/ \E result \in Results : Enter(last(result), "Exit")
  <2> DEFINE m == Top.mode
             result == CASE Top.handled /\ Top.single -> "HandledSource"
                         [] Top.term \in {"due", "zero"} -> "TimedOut"
                         [] Top.stopped \/ m \in modeStopped -> "Stopped"
                         [] ModeIsEmpty(m) -> "Finished"
                         [] OTHER -> "none"
  <2>1. result \in Results
    BY DEF Results
  <2>2. IF result = "none" THEN Enter(next, "BeforeTimers")
        ELSE Enter(last(result), "Exit")
    BY DEF Decide
  <2> HIDE DEF result, next, last
  <2> QED BY <2>1, <2>2
<1>5. next \in RunType /\ ~next.ignoring
  BY <1>1 DEF RunType
<1>6. \A result \in Results : last(result) \in RunType
  BY <1>1 DEF RunType
<1> HIDE DEF next, last
<1>7. runs' \in Seq(RunType) /\ \A d \in DOMAIN runs' : RunOK(runs'[d])
  <2>1. CASE Enter(next, "BeforeTimers")
    BY <1>1, <1>3, <1>5, <2>1, EnterKeepsShape
  <2>2. ASSUME NEW result \in Results, Enter(last(result), "Exit")
        PROVE  runs' \in Seq(RunType) /\ \A d \in DOMAIN runs' : RunOK(runs'[d])
    BY <1>1, <1>3, <1>6, <2>2, EnterKeepsShape
  <2> QED BY <1>4, <2>1, <2>2
<1> QED BY <1>2, <1>7 DEF Decide, Shape, TypeOK, itemVars, history

(* The observers without one of them.                                       *)
LEMMA WithoutObserverType ==
  ASSUME Shape, NEW o
  PROVE  /\ WithoutObserver(o) \in [Modes -> Seq(Observers)]
         /\ \A m \in Modes : ToSet(WithoutObserver(o)[m]) = ToSet(observers[m]) \ {o}
BY WithoutProperties DEF WithoutObserver, Shape, TypeOK

(* A callout returns.                                                       *)
LEMMA ReturnShape ==
  ASSUME Shape, Return, UNCHANGED done
  PROVE  Shape'
<1>1. Running /\ Top \in RunType /\ RunOK(Top) /\ Top.at = "callout"
  BY TopIsRun DEF Return
<1>2. firing' \subseteq Observers /\ valid' \subseteq Sources \cup Observers
  BY DEF Return, ReturnFromObserver, Shape, TypeOK
<1>3. observers' \in [Modes -> Seq(Observers)]
  BY WithoutObserverType DEF Return, ReturnFromObserver, Shape, TypeOK
<1>4. runs' \in Seq(RunType) /\ \A d \in DOMAIN runs' : RunOK(runs'[d])
  <2>1. CASE Top.phase = "source1"
    <3>1. Enter(Top, "blocks3") /\ "blocks3" \in Phases \ {"asleep", "waking"}
      BY <2>1 DEF Return, Phases, Activities
    <3> QED BY <1>1, <3>1, EnterKeepsShape
  <2>2. CASE Top.phase = "sources" /\ Top.single
    <3> DEFINE run == [Top EXCEPT !.at = "list", !.todo = <<>>]
    <3>1. /\ run \in RunType
          /\ run.phase = "sources"
          /\ run.at = "list"
          /\ run.todo = <<>>
          /\ run.ignoring = Top.ignoring
      BY <1>1, <2>2, EmptySeq DEF RunType, Places
    <3>2. RunOK(run)
      BY <1>1, <2>2, <3>1, EmptySeq DEF RunOK, PlaceOK, ListOK, FlagsOK, Activities, BlockPhases
    <3>3. SetTop(run)
      BY <2>2 DEF Return
    <3> HIDE DEF run
    <3> QED BY <1>1, <3>1, <3>2, <3>3, StackKeepsShape
  <2>3. CASE Top.phase # "source1" /\ ~(Top.phase = "sources" /\ Top.single)
    <3> DEFINE run == [Top EXCEPT !.at = "list", !.todo = Tail(@)]
    <3>1. Top.todo # <<>>
      BY <1>1, <2>3 DEF RunOK, ListOK
    <3>2. Tail(Top.todo) \in Seq(Manual \cup Observers \cup Blocks)
      BY <1>1, <3>1, HeadTailProperties DEF RunType
    <3>3. /\ run \in RunType
          /\ run.phase = Top.phase
          /\ run.mode = Top.mode
          /\ run.kept = Top.kept
          /\ run.at = "list"
          /\ run.todo = Tail(Top.todo)
          /\ run.ignoring = Top.ignoring
          /\ run.handled = Top.handled
      BY <1>1, <3>2 DEF RunType, Places
    <3>4. \A S : Top.todo \in Seq(S) => Tail(Top.todo) \in Seq(S)
      BY <3>1, HeadTailProperties
    <3>5. RunOK(run)
      BY <1>1, <2>3, <3>3, <3>4 DEF RunOK, PlaceOK, ListOK, FlagsOK, Activities, BlockPhases
    <3>6. SetTop(run)
      BY <2>3 DEF Return
    <3> HIDE DEF run
    <3> QED BY <1>1, <3>3, <3>5, <3>6, StackKeepsShape
  <2> QED BY <2>1, <2>2, <2>3
<1> QED BY <1>2, <1>3, <1>4 DEF Return, Shape, TypeOK, history

-----------------------------------------------------------------------------
(* Time-outs and calls.                                                     *)

(* Moving a run's end keeps the shape.                                      *)
LEMMA TermKeepsShape ==
  ASSUME Shape, NEW i \in DOMAIN runs, NEW term \in Terms,
         runs' = [runs EXCEPT ![i].term = term]
  PROVE  /\ runs' \in Seq(RunType)
         /\ \A d \in DOMAIN runs' : RunOK(runs'[d])
<1>1. runs \in Seq(RunType)
  BY DEF Shape, TypeOK
<1> DEFINE run == [runs[i] EXCEPT !.term = term]
<1>2. runs[i] \in RunType /\ RunOK(runs[i])
  BY <1>1, ElementOfSeq, LenProperties DEF Shape
<1>3. /\ run \in RunType
      /\ run.phase = runs[i].phase
      /\ run.at = runs[i].at
      /\ run.mode = runs[i].mode
      /\ run.todo = runs[i].todo
      /\ run.kept = runs[i].kept
      /\ run.ignoring = runs[i].ignoring
      /\ run.handled = runs[i].handled
  BY <1>2 DEF RunType
<1>4. RunOK(run)
  BY <1>2, <1>3 DEF RunOK, PlaceOK, ListOK, FlagsOK
<1>5. runs' = [runs EXCEPT ![i] = run]
  OBVIOUS
<1> HIDE DEF run
<1>6. i \in 1..Len(runs) /\ DOMAIN runs = 1..Len(runs)
  BY <1>1, LenProperties
<1>7. /\ runs' \in Seq(RunType)
      /\ Len(runs') = Len(runs)
      /\ \A d \in 1..Len(runs) : runs'[d] = IF d = i THEN run ELSE runs[d]
  BY <1>1, <1>3, <1>5, <1>6, ExceptSeq
<1>8. DOMAIN runs' = DOMAIN runs
  BY <1>6, <1>7, LenProperties
<1> QED BY <1>4, <1>6, <1>7, <1>8 DEF Shape

(* Time passes, and a run is to end.                                        *)
LEMMA ElapseShape ==
  ASSUME Shape, Elapse, UNCHANGED done
  PROVE  Shape'
<1>1. PICK i \in DOMAIN runs : runs' = [runs EXCEPT ![i].term = "due"]
  BY DEF Elapse
<1>2. "due" \in Terms
  BY DEF Terms
<1> QED BY <1>1, <1>2, TermKeepsShape DEF Elapse, Shape, TypeOK, itemVars, history

(* A time-out's handler stores 0.                                           *)
LEMMA TimeoutShape ==
  ASSUME Shape, Timeout, UNCHANGED done
  PROVE  Shape'
<1>1. PICK i \in DOMAIN runs : runs' = [runs EXCEPT ![i].term = "zero"]
  BY DEF Timeout
<1>2. "zero" \in Terms
  BY DEF Terms
<1>3. lateWakes' \in Nat
  BY DEF Timeout, Shape, TypeOK
<1>4. runs' \in Seq(RunType) /\ \A d \in DOMAIN runs' : RunOK(runs'[d])
  BY <1>1, <1>2, TermKeepsShape
<1> QED BY <1>3, <1>4 DEF Timeout, Shape, TypeOK, itemVars, history

(* What a wakeup changes.                                                   *)
LEMMA WakeUpType ==
  ASSUME Shape, WakeUp
  PROVE  /\ readable' \subseteq {WakePort} \cup Ports
         /\ robbed' \subseteq Nat
         /\ announced' \subseteq Sources \cup Blocks
<1>1. Signaled \subseteq Sources /\ ToSet(blocks) \subseteq Blocks
  BY LenProperties, ElementOfSeq DEF Signaled, ToSet, Shape, TypeOK
<1> QED BY <1>1, RobbedType DEF WakeUp, Shape, TypeOK

(* A time-out's handler wakes the loop.                                     *)
LEMMA TimeoutWakeShape ==
  ASSUME Shape, TimeoutWake, UNCHANGED done
  PROVE  Shape'
<1>1. lateWakes' \in Nat
  BY DEF TimeoutWake, Shape, TypeOK
<1>2. runs' = runs /\ WakeUp
  BY DEF TimeoutWake
<1>3. /\ readable' \subseteq {WakePort} \cup Ports
      /\ robbed' \subseteq Nat
      /\ announced' \subseteq Sources \cup Blocks
  BY <1>2, WakeUpType
<1> QED BY <1>1, <1>2, <1>3 DEF TimeoutWake, Shape, TypeOK, itemVars

(* A call has the arguments of its operation.                               *)
LEMMA CallArguments ==
  ASSUME NEW c \in Calls
  PROVE  /\ c.op \in {"signal", "invalidate", "wakeLoops", "add", "remove"} => c.source \in Sources
         /\ c.op = "post" => c.source \in Ports
         /\ c.op \in {"add", "remove", "stopMode", "observe", "run"} => c.mode \in Modes
         /\ c.op = "block" => c.block \in Blocks
         /\ c.op \in {"observe", "unobserve"} => c.observer \in Observers
         /\ c.op = "run" => c.term \in Terms \ {"due"} /\ c.single \in BOOLEAN
BY DEF Calls

(* A thread's program has calls.                                            *)
LEMMA CallOfProgram ==
  ASSUME TypeOK, NEW t \in Threads, done[t] < Len(Program[t]),
         NEW c \in Program[t][done[t] + 1]
  PROVE  c \in Calls
<1>1. Program[t] \in Seq(SUBSET Calls) /\ done[t] \in Nat
  BY RunLoopConstants DEF TypeOK
<1>2. done[t] + 1 \in 1..Len(Program[t])
  BY <1>1, LenProperties
<1> QED BY <1>1, <1>2, ElementOfSeq

(* What is left of a call is a call.                                        *)
LEMMA RestIsCall ==
  ASSUME NEW c \in Calls
  PROVE  Rest(c) \in Calls \cup {NoCall}
<1>1. [op |-> "wake"] \in Calls
  BY DEF Calls
<1> QED BY <1>1 DEF Rest

(* A run that starts has a good shape.                                      *)
LEMMA NewRunOK ==
  ASSUME NEW m \in Modes, NEW term \in Terms, NEW single \in BOOLEAN
  PROVE  NewRun(m, term, single) \in RunType /\ RunOK(NewRun(m, term, single))
<1> DEFINE run == NewRun(m, term, single)
<1>1. run \in RunType
  BY EmptySeq DEF NewRun, RunType, Phases, Activities, Places, Results
<1>2. run.phase = "Entry" /\ run.at = "begin" /\ ~run.ignoring
  BY DEF NewRun
<1> HIDE DEF run
<1> QED BY <1>1, <1>2 DEF run, RunOK, PlaceOK, ListOK, FlagsOK, BlockPhases

(* Running the loop, from outside or from a callout.                        *)
LEMMA RunShape ==
  ASSUME Shape, NEW m \in Modes, NEW term \in Terms, NEW single \in BOOLEAN, Run(m, term, single)
  PROVE  /\ runs' \in Seq(RunType)
         /\ \A d \in DOMAIN runs' : RunOK(runs'[d])
         /\ robbed' \subseteq Nat
<1> DEFINE run == NewRun(m, term, single)
<1>1. run \in RunType /\ RunOK(run)
  BY NewRunOK
<1> HIDE DEF run
<1>2. runs \in Seq(RunType) /\ Len(runs) \in Nat /\ DOMAIN runs = 1..Len(runs)
  BY LenProperties DEF Shape, TypeOK
<1>3. robbed' \subseteq Nat
  BY DEF Run, Shape, TypeOK
<1>4. CASE runs' = runs
  BY <1>3, <1>4 DEF Shape, TypeOK
<1>5. CASE runs' = Append(runs, run)
  <2>1. /\ runs' \in Seq(RunType)
        /\ DOMAIN runs' = 1..(Len(runs) + 1)
        /\ \A d \in 1..Len(runs) : runs'[d] = runs[d]
        /\ runs'[Len(runs) + 1] = run
    BY <1>1, <1>2, <1>5, AppendProperties
  <2>2. \A d \in DOMAIN runs' : d \in 1..Len(runs) \/ d = Len(runs) + 1
    BY <1>2, <2>1
  <2> QED BY <1>1, <1>2, <1>3, <2>1, <2>2 DEF Shape
<1> QED BY <1>4, <1>5 DEF Run, run

(* The first half of a call, and what is left of it.                        *)
LEMMA FirstHalfShape ==
  ASSUME Shape, NEW t \in Threads, NEW c \in Calls, FirstHalf(c), Continue(t, Rest(c)),
         done' \in [Threads -> Nat]
  PROVE  Shape'
<1>1. call' \in [Threads -> Calls \cup {NoCall}]
  BY RestIsCall DEF Continue, Shape, TypeOK
<1>2. CASE c.op = "signal" /\ Signal(c.source)
  <2>1. c.source \in Sources /\ signals \in Seq(Sources)
    BY <1>2, CallArguments DEF Shape, TypeOK
  <2>2. signals' \in Seq(Sources)
    BY <1>2, <2>1, AppendProperties DEF Signal
  <2> QED BY <1>1, <1>2, <2>2 DEF Signal, Shape, TypeOK, loopVars, history
<1>3. CASE c.op = "post" /\ Post(c.source)
  <2>1. c.source \in Ports
    BY <1>3, CallArguments
  <2> QED BY <1>1, <1>3, <2>1 DEF Post, Shape, TypeOK, itemVars, history
<1>4. CASE c.op = "wake" /\ WakeUp
             /\ UNCHANGED <<runs, blocks, itemVars, modeStopped, lateWakes, owed, fired>>
  <2>1. /\ readable' \subseteq {WakePort} \cup Ports
        /\ robbed' \subseteq Nat
        /\ announced' \subseteq Sources \cup Blocks
    BY <1>4, WakeUpType
  <2> QED BY <1>1, <1>4, <2>1 DEF Shape, TypeOK, itemVars
<1>5. CASE c.op = "stop" /\ Stop
  <2>1. runs' \in Seq(RunType) /\ \A d \in DOMAIN runs' : RunOK(runs'[d])
    <3>1. CASE ~Running
      BY <1>5, <3>1 DEF Stop, Shape, TypeOK
    <3>2. CASE Running
      <4> DEFINE run == [Top EXCEPT !.stopped = TRUE]
      <4>1. Top \in RunType /\ RunOK(Top)
        BY <3>2, TopIsRun
      <4>2. /\ run \in RunType
            /\ run.phase = Top.phase
            /\ run.at = Top.at
            /\ run.mode = Top.mode
            /\ run.todo = Top.todo
            /\ run.kept = Top.kept
            /\ run.ignoring = Top.ignoring
            /\ run.handled = Top.handled
        BY <4>1 DEF RunType
      <4>3. RunOK(run)
        BY <4>1, <4>2 DEF RunOK, PlaceOK, ListOK, FlagsOK
      <4>4. SetTop(run)
        BY <1>5, <3>2 DEF Stop
      <4> HIDE DEF run
      <4> QED BY <3>2, <4>2, <4>3, <4>4, StackKeepsShape
    <3> QED BY <3>1, <3>2
  <2> QED BY <1>1, <1>5, <2>1 DEF Stop, Shape, TypeOK, itemVars, history
<1>6. CASE c.op = "stopMode" /\ StopMode(c.mode)
  <2>1. c.mode \in Modes
    BY <1>6, CallArguments
  <2> QED BY <1>1, <1>6, <2>1 DEF StopMode, Shape, TypeOK, loopVars, itemVars, history
<1>7. CASE c.op = "block" /\ PerformBlock(c.block)
  <2>1. c.block \in Blocks
    BY <1>7, CallArguments
  <2>2. blocks' \in Seq(Blocks) /\ owed' \in Seq(Blocks)
    BY <1>7, <2>1, AppendProperties DEF PerformBlock, Shape, TypeOK
  <2>3. announced' \subseteq Sources \cup Blocks
    BY <1>7 DEF PerformBlock, Shape, TypeOK
  <2> QED BY <1>1, <1>7, <2>2, <2>3 DEF PerformBlock, Shape, TypeOK, itemVars
<1>8. CASE c.op = "remove" /\ RemoveSource(c.source, c.mode)
  <2>1. sources' \in [Modes -> SUBSET Sources]
    BY <1>8 DEF RemoveSource, Shape, TypeOK
  <2> QED BY <1>1, <1>8, <2>1 DEF RemoveSource, Shape, TypeOK, loopVars, history
<1>9. CASE c.op = "invalidate" /\ Invalidate(c.source)
  <2>1. signals' \in Seq(Sources)
    BY <1>9, WithoutSignalType DEF Invalidate, Shape, TypeOK
  <2> QED BY <1>1, <1>9, <2>1 DEF Invalidate, Shape, TypeOK, loopVars, history
<1>10. CASE c.op = "unobserve" /\ InvalidateObserver(c.observer)
  BY <1>1, <1>10 DEF InvalidateObserver, Shape, TypeOK, loopVars, history
<1>11. CASE c.op = "run" /\ Run(c.mode, c.term, c.single)
  <2>1. c.mode \in Modes /\ c.term \in Terms /\ c.single \in BOOLEAN
    BY <1>11, CallArguments
  <2>2. /\ runs' \in Seq(RunType)
        /\ \A d \in DOMAIN runs' : RunOK(runs'[d])
        /\ robbed' \subseteq Nat
    BY <1>11, <2>1, RunShape
  <2> QED BY <1>1, <1>11, <2>2 DEF Run, Shape, TypeOK, itemVars
<1>12. CASE c.op \in {"add", "observe", "wakeLoops"}
              /\ UNCHANGED <<loopVars, itemVars, modeStopped, lateWakes, history>>
  BY <1>1, <1>12 DEF Shape, TypeOK, loopVars, itemVars, history
<1> QED BY <1>2, <1>3, <1>4, <1>5, <1>6, <1>7, <1>8, <1>9, <1>10, <1>11, <1>12 DEF FirstHalf

(* The second half.                                                         *)
LEMMA SecondHalfShape ==
  ASSUME Shape, NEW t \in Threads, NEW c \in Calls, SecondHalf(c), Continue(t, NoCall),
         UNCHANGED done
  PROVE  Shape'
<1>1. call' \in [Threads -> Calls \cup {NoCall}]
  BY DEF Continue, Shape, TypeOK
<1>2. CASE c.op = "wake" /\ WakeUp
             /\ UNCHANGED <<runs, blocks, itemVars, modeStopped, lateWakes, owed, fired>>
  <2>1. /\ readable' \subseteq {WakePort} \cup Ports
        /\ robbed' \subseteq Nat
        /\ announced' \subseteq Sources \cup Blocks
    BY <1>2, WakeUpType
  <2> QED BY <1>1, <1>2, <2>1 DEF Shape, TypeOK, itemVars
<1>3. CASE c.op = "add" /\ AddSource(c.source, c.mode)
  <2>1. c.source \in Sources
    BY <1>3, CallArguments
  <2>2. sources' \in [Modes -> SUBSET Sources] /\ announced' \subseteq Sources \cup Blocks
    BY <1>3, <2>1 DEF AddSource, Shape, TypeOK
  <2> QED BY <1>1, <1>3, <2>2 DEF AddSource, Shape, TypeOK, loopVars
<1>4. CASE c.op = "observe" /\ AddObserver(c.observer, c.mode)
  <2> DEFINE list == observers[c.mode]
  <2>1. c.observer \in Observers /\ c.mode \in Modes
    BY <1>4, CallArguments
  <2>2. observers \in [Modes -> Seq(Observers)] /\ list \in Seq(Observers)
    BY <2>1 DEF Shape, TypeOK
  <2>3. \A S, T : Among(list, S) \o <<c.observer>> \o Among(list, T) \in Seq(Observers)
    <3>1. \A S : Among(list, S) \in Seq(Observers)
      BY <2>2, AmongProperties
    <3>2. <<c.observer>> \in Seq(Observers)
      BY <2>1
    <3> HIDE DEF list
    <3> QED BY <3>1, <3>2, ConcatProperties
  <2>4. observers' \in [Modes -> Seq(Observers)]
    BY <1>4, <2>1, <2>2, <2>3 DEF AddObserver
  <2> QED BY <1>1, <1>4, <2>4 DEF AddObserver, Shape, TypeOK, loopVars, history
<1>5. CASE c.op = "invalidate" /\ RemoveFromModes(c.source)
  <2>1. sources' \in [Modes -> SUBSET Sources]
    BY <1>5 DEF RemoveFromModes, Shape, TypeOK
  <2> QED BY <1>1, <1>5, <2>1 DEF RemoveFromModes, Shape, TypeOK, loopVars, history
<1>6. CASE c.op = "unobserve" /\ RemoveObserver(c.observer)
  <2>1. observers' \in [Modes -> Seq(Observers)]
    BY <1>6, WithoutObserverType DEF RemoveObserver
  <2> QED BY <1>1, <1>6, <2>1 DEF RemoveObserver, Shape, TypeOK, loopVars, history
<1> QED BY <1>2, <1>3, <1>4, <1>5, <1>6 DEF SecondHalf

(* A thread begins a call of its program.                                   *)
LEMMA BeginCallShape ==
  ASSUME Shape, NEW t \in Threads, BeginCall(t)
  PROVE  Shape'
<1>1. PICK c \in Program[t][done[t] + 1] : FirstHalf(c) /\ Continue(t, Rest(c))
  BY DEF BeginCall
<1>2. c \in Calls
  BY CallOfProgram DEF BeginCall, Shape
<1>3. done' \in [Threads -> Nat]
  BY DEF BeginCall, Shape, TypeOK
<1> QED BY <1>1, <1>2, <1>3, FirstHalfShape

(* A thread finishes a call.                                                *)
LEMMA FinishCallShape ==
  ASSUME Shape, NEW t \in Threads, FinishCall(t)
  PROVE  Shape'
<1>1. call[t] \in Calls
  BY DEF FinishCall, Shape, TypeOK
<1> QED BY <1>1, SecondHalfShape DEF FinishCall

-----------------------------------------------------------------------------
(* The shape at the beginning.                                              *)
LEMMA InitShape == Init => Shape
<1> SUFFICES ASSUME Init PROVE Shape
  OBVIOUS
<1>1. runs \in Seq(RunType) /\ DOMAIN runs = {}
  BY EmptySeq, LenProperties DEF Init
<1>2. TypeOK
  BY <1>1, RunLoopConstants DEF Init, TypeOK, Sources
<1> QED BY <1>1, <1>2 DEF Shape

(* A step of the loop's thread, by its kinds.                               *)
LEMMA LoopStepShape ==
  ASSUME Shape, LoopStep, UNCHANGED done
  PROVE  Shape'
<1>1. ASSUME NEW a \in Activities, DoObservers(a) \/ CallObserver(a) \/ ObserversDone(a)
      PROVE  Shape'
  BY <1>1, DoObserversShape, CallObserverShape, ObserversDoneShape
<1>2. ASSUME NEW p \in BlockPhases, DoBlocks(p) \/ RunBlock(p) \/ PutBack(p)
      PROVE  Shape'
  BY <1>2, DoBlocksShape, RunBlockShape, PutBackShape
<1>3. CASE StartRun \/ ScanSource \/ DoSources0 \/ PerformSource \/ SourcesDone
  BY <1>3, StartRunShape, ScanSourceShape, DoSources0Shape, PerformSourceShape, SourcesDoneShape
<1>4. CASE Wait \/ Awaken \/ Handle \/ DoSource1 \/ Decide \/ Return
  BY <1>4, WaitShape, AwakenShape, HandleShape, DoSource1Shape, DecideShape, ReturnShape
<1> QED BY <1>1, <1>2, <1>3, <1>4, AfterBlocksDomain DEF LoopStep

(* Every step keeps the shape.                                              *)
LEMMA NextShape == Shape /\ [Next]_vars => Shape'
<1> SUFFICES ASSUME Shape, [Next]_vars PROVE Shape'
  OBVIOUS
<1>1. CASE \E t \in Threads : BeginCall(t) \/ FinishCall(t)
  BY <1>1, BeginCallShape, FinishCallShape
<1>2. CASE LoopStep /\ UNCHANGED done
  BY <1>2, LoopStepShape
<1>3. CASE (Elapse \/ Timeout \/ TimeoutWake) /\ UNCHANGED done
  BY <1>3, ElapseShape, TimeoutShape, TimeoutWakeShape
<1>4. CASE UNCHANGED vars
  BY <1>4 DEF vars, loopVars, itemVars, threadVars, history, Shape, TypeOK
<1> QED BY <1>1, <1>2, <1>3, <1>4 DEF Next

(* Every run keeps the shape of its phase: what it walks is a list of that  *)
(* phase's items, and it ignores wakeups only after the wait.               *)
THEOREM RunLoopShape == Spec => []Shape
BY InitShape, NextShape, PTL DEF Spec

(* Type correctness, for every program of the threads.                      *)
THEOREM RunLoopTypeOK == Spec => []TypeOK
<1>1. Shape => TypeOK
  BY DEF Shape
<1> QED BY <1>1, RunLoopShape, PTL

-----------------------------------------------------------------------------
(* What a step does to the stack: it replaces the innermost run, returns    *)
(* from it, puts a new one on it, or changes when runs end.                 *)

TopStep == /\ Running
           /\ Len(runs') = Len(runs)
           /\ \A d \in 1..(Len(runs) - 1) : runs'[d] = runs[d]

Pops == Running /\ Top.phase = "Exit" /\ Top.at # "callout"
                /\ runs' = SubSeq(runs, 1, Len(runs) - 1)

Pushes == \E m \in Modes, term \in Terms, single \in BOOLEAN :
            /\ Running => Top.at = "callout" /\ Kind(Top) \in Nesting
            /\ runs' = Append(runs, NewRun(m, term, single))

(* Two activations of a run that differ only in when they end.              *)
SameWork(run, old) ==
  /\ run.mode = old.mode /\ run.single = old.single /\ run.ignoring = old.ignoring
  /\ run.phase = old.phase /\ run.at = old.at /\ run.scan = old.scan
  /\ run.found = old.found /\ run.todo = old.todo /\ run.kept = old.kept
  /\ run.handled = old.handled /\ run.poll = old.poll /\ run.port = old.port

KeepsWork == /\ Len(runs') = Len(runs)
             /\ \A d \in DOMAIN runs : SameWork(runs'[d], runs[d])

(* Replacing the innermost run.                                             *)
LEMMA SetTopStep ==
  ASSUME Shape, Running, NEW run, SetTop(run)
  PROVE  TopStep /\ Running' /\ Top' = run
<1> DEFINE S == RunType \cup {run}
<1>1. runs \in Seq(S) /\ Len(runs) \in Nat \ {0} /\ Len(runs) \in 1..Len(runs)
  BY TopIsRun, SeqMonotonic DEF Shape, TypeOK
<1>2. run \in S
  OBVIOUS
<1> HIDE DEF S
<1>3. runs' = [runs EXCEPT ![Len(runs)] = run]
  BY DEF SetTop
<1>4. /\ runs' \in Seq(S)
      /\ Len(runs') = Len(runs)
      /\ \A d \in 1..Len(runs) : runs'[d] = IF d = Len(runs) THEN run ELSE runs[d]
  BY <1>1, <1>2, <1>3, ExceptSeq
<1>5. \A d \in 1..(Len(runs) - 1) : d \in 1..Len(runs) /\ d # Len(runs)
  BY <1>1, BelowTop
<1>6. runs' # <<>>
  BY <1>1, <1>4
<1> QED BY <1>1, <1>4, <1>5, <1>6 DEF TopStep, Running, Top

(* Entering a phase.                                                        *)
LEMMA EnterTop ==
  ASSUME Shape, Running, NEW run \in RunType, NEW phase, Enter(run, phase)
  PROVE  TopStep /\ Top' = Entered(run, phase) /\ Top'.at = "begin" /\ Top'.phase = phase
<1>1. TopStep /\ Top' = Entered(run, phase)
  BY SetTopStep DEF Enter
<1> QED BY <1>1 DEF Entered, RunType

(* Where a step of the loop's thread leaves the innermost run.              *)
PhaseAfter(old, run) ==
  \/ run.at = "begin"
  \/ run.phase = old.phase
  \/ run.phase = "asleep" /\ old.phase = "BeforeWaiting"
  \/ run.phase = "waking" /\ old.phase = "asleep"

(* A step enters a phase, stays in it, or goes to sleep or wakes.           *)
LEMMA PhaseOfTop ==
  ASSUME Shape, LoopStep, ~Pops
  PROVE  TopStep /\ PhaseAfter(Top, Top')
<1>0. ASSUME Running, NEW run \in RunType, NEW phase, Enter(run, phase)
      PROVE  TopStep /\ PhaseAfter(Top, Top')
  BY <1>0, EnterTop DEF PhaseAfter
<1>1. ASSUME Running, NEW run, SetTop(run), PhaseAfter(Top, run)
      PROVE  TopStep /\ PhaseAfter(Top, Top')
  BY <1>1, SetTopStep
<1>2. Running => Top \in RunType
  BY TopIsRun
<1>3. ASSUME NEW p \in BlockPhases, DoBlocks(p) \/ RunBlock(p) \/ PutBack(p)
      PROVE  TopStep /\ PhaseAfter(Top, Top')
  <2>1. Running /\ Top \in RunType
    BY <1>2, <1>3 DEF DoBlocks, RunBlock, PutBack, Serving
  <2>2. CASE DoBlocks(p)
    <3>1. PhaseAfter(Top, [Top EXCEPT !.at = "list", !.todo = blocks, !.kept = <<>>])
      BY <2>1 DEF RunType, PhaseAfter
    <3> QED BY <1>0, <1>1, <2>1, <2>2, <3>1 DEF DoBlocks
  <2>3. CASE RunBlock(p)
    <3>1. /\ PhaseAfter(Top, [Top EXCEPT !.at = "callout"])
          /\ PhaseAfter(Top, [Top EXCEPT !.todo = Tail(@), !.kept = Append(@, Head(Top.todo))])
      BY <2>1 DEF RunType, PhaseAfter
    <3> QED BY <1>1, <2>1, <2>3, <3>1 DEF RunBlock
  <2>4. CASE PutBack(p)
    <3>1. [Top EXCEPT !.kept = <<>>] \in RunType
      BY <2>1, EmptySeq DEF RunType
    <3> QED BY <1>0, <2>1, <2>4, <3>1 DEF PutBack
  <2> QED BY <1>3, <2>2, <2>3, <2>4
<1>4. CASE StartRun
  <2>1. Running /\ Top \in RunType
    BY <1>2, <1>4 DEF StartRun, Serving
  <2>2. [Top EXCEPT !.result = "Stopped", !.stopped = FALSE] \in RunType
    BY <2>1 DEF RunType, Results
  <2> QED BY <1>0, <1>4, <2>1, <2>2 DEF StartRun
<1>5. CASE ScanSource
  <2>1. Running /\ Top \in RunType
    BY <1>2, <1>5 DEF ScanSource, Serving
  <2>2. PICK s \in Top.scan :
          SetTop([Top EXCEPT !.scan = @ \ {s},
                             !.found = IF s \in Signaled \cap valid THEN @ \cup {s} ELSE @])
    BY <1>5 DEF ScanSource
  <2>3. PhaseAfter(Top, [Top EXCEPT !.scan = @ \ {s},
                                    !.found = IF s \in Signaled \cap valid THEN @ \cup {s} ELSE @])
    BY <2>1 DEF RunType, PhaseAfter
  <2> QED BY <1>1, <2>1, <2>2, <2>3
<1>6. CASE DoSources0
  <2>1. Running /\ Top \in RunType
    BY <1>2, <1>6 DEF DoSources0, Serving
  <2> DEFINE run == [Top EXCEPT !.found = {}, !.handled = FALSE]
  <2>2. run \in RunType /\ run.phase = Top.phase
    BY <2>1 DEF RunType
  <2>3. AfterSources(run) \/ \E list : SetTop([run EXCEPT !.at = "list", !.todo = list])
    BY <1>6 DEF DoSources0
  <2> HIDE DEF run
  <2>4. \A list : PhaseAfter(Top, [run EXCEPT !.at = "list", !.todo = list])
    BY <2>2 DEF RunType, PhaseAfter
  <2> QED BY <1>0, <1>1, <2>1, <2>2, <2>3, <2>4 DEF AfterSources
<1>7. CASE PerformSource
  <2>1. Running /\ Top \in RunType
    BY <1>2, <1>7 DEF PerformSource, Serving
  <2> DEFINE s == Head(Top.todo)
             perform == s \in Signaled /\ s \in valid
             run == [Top EXCEPT !.handled = perform,
                                !.at = IF perform THEN "callout" ELSE "list",
                                !.todo = IF perform THEN @ ELSE Tail(@)]
  <2>2. SetTop(run)
    BY <1>7 DEF PerformSource
  <2>3. PhaseAfter(Top, run)
    BY <2>1 DEF RunType, PhaseAfter
  <2> HIDE DEF run
  <2> QED BY <1>1, <2>1, <2>2, <2>3
<1>8. CASE SourcesDone
  BY <1>0, <1>2, <1>8 DEF SourcesDone, Serving, AfterSources
<1>9. CASE Wait
  <2>1. Running /\ Top \in RunType /\ Top.phase = "asleep"
    BY <1>2, <1>9 DEF Wait, Serving
  <2>2. PICK port : SetTop([Top EXCEPT !.phase = "waking", !.port = port])
    BY <1>9 DEF Wait
  <2>3. PhaseAfter(Top, [Top EXCEPT !.phase = "waking", !.port = port])
    BY <2>1 DEF RunType, PhaseAfter
  <2> QED BY <1>1, <2>1, <2>2, <2>3
<1>10. CASE Awaken \/ Handle
  <2>1. Running /\ Top \in RunType
    BY <1>2, <1>10 DEF Awaken, Handle, Serving
  <2>2. [Top EXCEPT !.ignoring = TRUE] \in RunType
    BY <2>1 DEF RunType
  <2> QED BY <1>0, <1>10, <2>1, <2>2 DEF Awaken, Handle
<1>11. CASE DoSource1
  <2>1. Running /\ Top \in RunType
    BY <1>2, <1>11 DEF DoSource1, Serving
  <2>2. PhaseAfter(Top, [Top EXCEPT !.at = "callout", !.handled = TRUE])
    BY <2>1 DEF RunType, PhaseAfter
  <2> QED BY <1>0, <1>1, <1>11, <2>1, <2>2 DEF DoSource1
<1>12. CASE Decide
  <2>1. Running /\ Top \in RunType
    BY <1>2, <1>12 DEF Decide, Serving
  <2> DEFINE m == Top.mode
             result == CASE Top.handled /\ Top.single -> "HandledSource"
                         [] Top.term \in {"due", "zero"} -> "TimedOut"
                         [] Top.stopped \/ m \in modeStopped -> "Stopped"
                         [] ModeIsEmpty(m) -> "Finished"
                         [] OTHER -> "none"
             last == [Top EXCEPT !.result = result, !.stopped = @ /\ result # "Stopped"]
  <2>2. result \in Results
    BY DEF Results
  <2>3. [Top EXCEPT !.ignoring = FALSE] \in RunType
    BY <2>1 DEF RunType
  <2>4. Enter([Top EXCEPT !.ignoring = FALSE], "BeforeTimers") \/ Enter(last, "Exit")
    BY <1>12 DEF Decide
  <2> HIDE DEF result
  <2>5. last \in RunType
    BY <2>1, <2>2 DEF RunType
  <2> QED BY <1>0, <2>1, <2>3, <2>4, <2>5
<1>13. CASE Return
  <2>1. Running /\ Top \in RunType
    BY <1>2, <1>13 DEF Return
  <2>2. /\ PhaseAfter(Top, [Top EXCEPT !.at = "list", !.todo = <<>>])
        /\ PhaseAfter(Top, [Top EXCEPT !.at = "list", !.todo = Tail(@)])
    BY <2>1 DEF RunType, PhaseAfter
  <2>3. \/ Enter(Top, "blocks3")
        \/ SetTop([Top EXCEPT !.at = "list", !.todo = <<>>])
        \/ SetTop([Top EXCEPT !.at = "list", !.todo = Tail(@)])
    BY <1>13 DEF Return
  <2> QED BY <1>0, <1>1, <2>1, <2>2, <2>3
<1>14. ASSUME NEW a \in Activities, DoObservers(a) \/ ObserversDone(a)
       PROVE  TopStep /\ PhaseAfter(Top, Top')
  <2>1. Running /\ Top \in RunType /\ Top.phase = a /\ Top.at # "callout"
    BY <1>2, <1>14 DEF DoObservers, ObserversDone, Serving
  <2>2. \/ a = "Exit" /\ runs' = SubSeq(runs, 1, Len(runs) - 1)
        \/ EnterAfter(a)
        \/ SetTop([Top EXCEPT !.at = "list", !.todo = Collected(a)])
    BY <1>14 DEF DoObservers, ObserversDone
  <2>3. PhaseAfter(Top, [Top EXCEPT !.at = "list", !.todo = Collected(a)])
    BY <2>1 DEF RunType, PhaseAfter
  <2>4. a = "BeforeWaiting" => PhaseAfter(Top, [Top EXCEPT !.phase = "asleep", !.at = "list"])
    BY <2>1 DEF RunType, PhaseAfter
  <2> QED BY <1>0, <1>1, <2>1, <2>2, <2>3, <2>4 DEF EnterAfter, Pops
<1>15. ASSUME NEW a \in Activities, CallObserver(a)
       PROVE  TopStep /\ PhaseAfter(Top, Top')
  <2>1. Running /\ Top \in RunType
    BY <1>2, <1>15 DEF CallObserver, Serving
  <2>2. /\ PhaseAfter(Top, [Top EXCEPT !.at = "callout"])
        /\ PhaseAfter(Top, [Top EXCEPT !.todo = Tail(@)])
    BY <2>1 DEF RunType, PhaseAfter
  <2> QED BY <1>1, <1>15, <2>1, <2>2 DEF CallObserver
<1> QED BY <1>3, <1>4, <1>5, <1>6, <1>7, <1>8, <1>9, <1>10, <1>11, <1>12, <1>13, <1>14, <1>15,
           AfterBlocksDomain DEF LoopStep

(* A time-out changes nothing but when a run ends.                          *)
LEMMA TermKeepsWork ==
  ASSUME Shape, NEW i \in DOMAIN runs, NEW term \in Terms,
         runs' = [runs EXCEPT ![i].term = term]
  PROVE  KeepsWork
<1>1. runs \in Seq(RunType) /\ DOMAIN runs = 1..Len(runs)
  BY LenProperties DEF Shape, TypeOK
<1> DEFINE run == [runs[i] EXCEPT !.term = term]
<1>2. runs[i] \in RunType
  BY <1>1, ElementOfSeq
<1>3. run \in RunType /\ SameWork(run, runs[i])
  BY <1>2 DEF RunType, SameWork
<1>4. runs' = [runs EXCEPT ![i] = run]
  OBVIOUS
<1> HIDE DEF run
<1>5. /\ runs' \in Seq(RunType)
      /\ Len(runs') = Len(runs)
      /\ \A d \in 1..Len(runs) : runs'[d] = IF d = i THEN run ELSE runs[d]
  BY <1>1, <1>3, <1>4, ExceptSeq
<1> QED BY <1>1, <1>3, <1>5 DEF KeepsWork, SameWork

(* The first half of a call puts a run on the stack or keeps their work.    *)
LEMMA FirstHalfStack ==
  ASSUME Shape, NEW t \in Threads, NEW c \in Calls, MayCall(t, c), FirstHalf(c)
  PROVE  (c.op = "run" /\ Pushes) \/ KeepsWork
<1>1. CASE UNCHANGED runs
  BY <1>1 DEF KeepsWork, SameWork
<1>2. CASE c.op = "stop" /\ Stop
  <2>1. CASE ~Running
    BY <1>1, <1>2, <2>1 DEF Stop
  <2>2. CASE Running
    <3> DEFINE run == [Top EXCEPT !.stopped = TRUE]
    <3>1. Top \in RunType /\ DOMAIN runs = 1..Len(runs) /\ Len(runs) \in Nat \ {0}
      BY <2>2, TopIsRun
    <3>2. SetTop(run) /\ SameWork(run, Top)
      BY <1>2, <2>2, <3>1 DEF Stop, SameWork, RunType
    <3> HIDE DEF run
    <3>3. TopStep /\ Running' /\ Top' = run
      BY <2>2, <3>2, SetTopStep
    <3>4. \A d \in DOMAIN runs : d \in 1..(Len(runs) - 1) \/ d = Len(runs)
      BY <3>1
    <3> QED BY <3>2, <3>3, <3>4 DEF TopStep, KeepsWork, SameWork, Top
  <2> QED BY <2>1, <2>2
<1>3. CASE c.op = "run" /\ Run(c.mode, c.term, c.single)
  <2>1. c.mode \in Modes /\ c.term \in Terms /\ c.single \in BOOLEAN
    BY <1>3, CallArguments
  <2>2. Running => Top.at = "callout" /\ Kind(Top) \in Nesting
    BY <1>3 DEF MayCall
  <2>3. CASE runs' = runs
    BY <1>1, <2>3
  <2>4. CASE runs' = Append(runs, NewRun(c.mode, c.term, c.single))
    BY <1>3, <2>1, <2>2, <2>4 DEF Pushes
  <2> QED BY <1>3, <2>3, <2>4 DEF Run
<1>4. UNCHANGED runs \/ (c.op = "stop" /\ Stop)
        \/ (c.op = "run" /\ Run(c.mode, c.term, c.single))
  BY DEF FirstHalf, Signal, Post, StopMode, PerformBlock, RemoveSource, Invalidate,
         InvalidateObserver, loopVars
<1> QED BY <1>1, <1>2, <1>3, <1>4

(* The second half leaves the stack alone.                                  *)
LEMMA SecondHalfStack ==
  ASSUME NEW c, SecondHalf(c)
  PROVE  UNCHANGED runs
BY DEF SecondHalf, AddSource, AddObserver, RemoveFromModes, RemoveObserver, loopVars

(* Every step is of one of the four kinds.                                  *)
LEMMA StackSteps ==
  ASSUME Shape, [Next]_vars
  PROVE  TopStep \/ Pops \/ Pushes \/ KeepsWork
<1>1. ASSUME NEW t \in Threads, BeginCall(t)
      PROVE  Pushes \/ KeepsWork
  <2>1. PICK c \in Program[t][done[t] + 1] : MayCall(t, c) /\ FirstHalf(c)
    BY <1>1 DEF BeginCall
  <2>2. c \in Calls
    BY <1>1, CallOfProgram DEF BeginCall, Shape
  <2> QED BY <2>1, <2>2, FirstHalfStack
<1>2. ASSUME NEW t \in Threads, FinishCall(t)
      PROVE  KeepsWork
  BY <1>2, SecondHalfStack DEF FinishCall, KeepsWork, SameWork
<1>3. CASE LoopStep
  BY <1>3, PhaseOfTop
<1>4. CASE Elapse \/ Timeout
  <2>1. PICK i \in DOMAIN runs, term \in Terms : runs' = [runs EXCEPT ![i].term = term]
    BY <1>4 DEF Elapse, Timeout, Terms
  <2> QED BY <2>1, TermKeepsWork
<1>5. CASE TimeoutWake
  BY <1>5 DEF TimeoutWake, KeepsWork, SameWork
<1>6. CASE UNCHANGED vars
  BY <1>6 DEF vars, loopVars, KeepsWork, SameWork
<1> QED BY <1>1, <1>2, <1>3, <1>4, <1>5, <1>6 DEF Next

(* The runs around the innermost one are in callouts that may run the loop. *)
Stacked == \A d \in 1..(Len(runs) - 1) : runs[d].at = "callout" /\ Kind(runs[d]) \in Nesting

(* The length of the stack after a step of each kind.                       *)
LEMMA StackLengths ==
  ASSUME Shape
  PROVE  /\ Len(runs) \in Nat /\ DOMAIN runs = 1..Len(runs)
         /\ Running <=> Len(runs) # 0
         /\ Pops => /\ Len(runs') = Len(runs) - 1
                    /\ \A d \in 1..(Len(runs) - 1) : runs'[d] = runs[d]
         /\ \A run : runs' = Append(runs, run) =>
              /\ Len(runs') = Len(runs) + 1
              /\ \A d \in 1..Len(runs) : runs'[d] = runs[d]
              /\ runs'[Len(runs) + 1] = run
<1>1. runs \in Seq(RunType) /\ Len(runs) \in Nat /\ DOMAIN runs = 1..Len(runs)
  BY LenProperties DEF Shape, TypeOK
<1>2. Running <=> Len(runs) # 0
  BY <1>1, EmptySeq DEF Running
<1>3. Pops => /\ Len(runs') = Len(runs) - 1
              /\ \A d \in 1..(Len(runs) - 1) : runs'[d] = runs[d]
  <2> SUFFICES ASSUME Pops PROVE /\ Len(runs') = Len(runs) - 1
                                 /\ \A d \in 1..(Len(runs) - 1) : runs'[d] = runs[d]
    OBVIOUS
  <2>1. Len(runs') = Len(runs) - 1 /\ DOMAIN runs' = 1..(Len(runs) - 1)
        /\ \A d \in DOMAIN runs' : runs'[d] = runs[d]
    BY PopKeepsShape DEF Pops
  <2> QED BY <2>1
<1>4. ASSUME NEW run, runs' = Append(runs, run)
      PROVE  /\ Len(runs') = Len(runs) + 1
             /\ \A d \in 1..Len(runs) : runs'[d] = runs[d]
             /\ runs'[Len(runs) + 1] = run
  <2> DEFINE S == RunType \cup {run}
  <2>1. runs \in Seq(S) /\ run \in S
    BY <1>1, SeqMonotonic
  <2> HIDE DEF S
  <2> QED BY <1>1, <1>4, <2>1, AppendProperties
<1> QED BY <1>1, <1>2, <1>3, <1>4

(* Every step keeps the runs stacked.                                       *)
LEMMA NextStacked ==
  ASSUME Shape, Stacked, [Next]_vars
  PROVE  Stacked'
<1>1. Len(runs) \in Nat /\ DOMAIN runs = 1..Len(runs)
  BY StackLengths
<1>2. CASE TopStep
  BY <1>2 DEF TopStep, Stacked
<1>3. CASE Pops
  <2>1. Len(runs') = Len(runs) - 1 /\ \A d \in 1..(Len(runs) - 1) : runs'[d] = runs[d]
    BY <1>3, StackLengths
  <2>2. \A d \in 1..(Len(runs') - 1) : d \in 1..(Len(runs) - 1)
    BY <1>1, <2>1
  <2> QED BY <2>1, <2>2 DEF Stacked
<1>4. CASE Pushes
  <2>1. PICK run : runs' = Append(runs, run) /\ (Running => Top.at = "callout" /\ Kind(Top) \in Nesting)
    BY <1>4 DEF Pushes
  <2>2. Len(runs') = Len(runs) + 1 /\ \A d \in 1..Len(runs) : runs'[d] = runs[d]
    BY <2>1, StackLengths
  <2>3. \A d \in 1..(Len(runs') - 1) : d \in 1..Len(runs) /\ (d \in 1..(Len(runs) - 1) \/ d = Len(runs))
    <3>1. Len(runs') - 1 = Len(runs)
      BY <1>1, <2>2
    <3> QED BY <1>1, <3>1, TopOrBelow
  <2>4. \A d \in 1..Len(runs) : Running
    BY <1>1, StackLengths, TopOrBelow
  <2> QED BY <2>1, <2>2, <2>3, <2>4 DEF Stacked, Top
<1>5. CASE KeepsWork
  <2>1. \A d \in 1..(Len(runs) - 1) : d \in DOMAIN runs
    BY <1>1
  <2> QED BY <1>5, <2>1 DEF KeepsWork, SameWork, Stacked, Kind
<1> QED BY <1>2, <1>3, <1>4, <1>5, StackSteps

(* The runs around the innermost one are in callouts of the kinds that may  *)
(* run the loop again.                                                      *)
THEOREM RunsAreStacked == Spec => []Stacked
<1>1. Init => Stacked
  BY LenProperties, EmptySeq DEF Init, Stacked
<1>2. Shape /\ Stacked /\ [Next]_vars => Stacked'
  BY NextStacked
<1> QED BY <1>1, <1>2, RunLoopShape, PTL DEF Spec

-----------------------------------------------------------------------------
(* Observers: each that is being called is at the head of the list of a run *)
(* in its callout, and in no list that a run inside that callout walks.     *)

Observing(run) == run.phase \in Activities /\ run.at # "begin"
Calling(run)   == run.phase \in Activities /\ run.at = "callout"
Fires(run, o)  == Calling(run) /\ Head(run.todo) = o

FiringIsCalled == \A o \in firing : \E d \in DOMAIN runs : Fires(runs[d], o)

CalledIsFiring ==
  \A d \in DOMAIN runs : \A o \in Observers : Fires(runs[d], o) =>
    /\ o \in firing
    /\ \A e \in DOMAIN runs : d < e /\ Observing(runs[e]) => o \notin ToSet(runs[e].todo)

OneShotCalls ==
  \A o \in OneShot : fired[o] = 0 \/ (fired[o] = 1 /\ (o \notin valid \/ o \in firing))

ObserverInv == FiringIsCalled /\ CalledIsFiring /\ OneShotCalls

(* A step keeps the invariant that lets no observer be called or return:    *)
(* the lists of the runs lose elements, or are new and without those called. *)
LEMMA ObserversKept ==
  ASSUME Shape, ObserverInv, UNCHANGED <<firing, fired>>, valid' \subseteq valid,
         \A d \in DOMAIN runs : Calling(runs[d]) =>
           d \in DOMAIN runs' /\ Calling(runs'[d]) /\ runs'[d].todo = runs[d].todo,
         \A d \in DOMAIN runs' : Observing(runs'[d]) =>
           \/ /\ d \in DOMAIN runs /\ Observing(runs[d])
              /\ ToSet(runs'[d].todo) \subseteq ToSet(runs[d].todo)
              /\ Calling(runs'[d]) => Calling(runs[d])
           \/ ~Calling(runs'[d]) /\ ToSet(runs'[d].todo) \cap firing = {}
  PROVE  ObserverInv'
<1>1. FiringIsCalled'
  BY DEF ObserverInv, FiringIsCalled, Fires
<1>2. ASSUME NEW d \in DOMAIN runs', NEW o \in Observers, Fires(runs'[d], o)
      PROVE  /\ o \in firing
             /\ \A e \in DOMAIN runs' : d < e /\ Observing(runs'[e]) => o \notin ToSet(runs'[e].todo)
  <2>1. d \in DOMAIN runs /\ Fires(runs[d], o)
    BY <1>2 DEF Fires, Calling, Observing
  <2>2. /\ o \in firing
        /\ \A e \in DOMAIN runs : d < e /\ Observing(runs[e]) => o \notin ToSet(runs[e].todo)
    BY <2>1 DEF ObserverInv, CalledIsFiring
  <2> QED BY <2>2
<1>3. CalledIsFiring'
  BY <1>2 DEF CalledIsFiring
<1>4. OneShotCalls'
  BY DEF ObserverInv, OneShotCalls
<1> QED BY <1>1, <1>3, <1>4 DEF ObserverInv

(* A step that leaves the innermost run outside of an observer's callout.   *)
LEMMA ObserversKeptByTop ==
  ASSUME Shape, ObserverInv, UNCHANGED <<firing, fired>>, valid' \subseteq valid,
         TopStep, ~Calling(Top), ~Calling(Top'),
         Observing(Top') =>
           \/ Observing(Top) /\ ToSet(Top'.todo) \subseteq ToSet(Top.todo)
           \/ ToSet(Top'.todo) \cap firing = {},
         Shape'
  PROVE  ObserverInv'
<1>1. Len(runs) \in Nat \ {0} /\ DOMAIN runs = 1..Len(runs) /\ Len(runs) \in DOMAIN runs
  BY TopIsRun DEF TopStep
<1>2. DOMAIN runs' = 1..Len(runs) /\ Top' = runs'[Len(runs)]
  BY LenProperties DEF Shape, TypeOK, TopStep, Top
<1>3. \A d \in DOMAIN runs : runs'[d] = runs[d] \/ d = Len(runs)
  BY <1>1, TopOrBelow DEF TopStep
<1>4. \A d \in DOMAIN runs : Calling(runs[d]) =>
        d \in DOMAIN runs' /\ Calling(runs'[d]) /\ runs'[d].todo = runs[d].todo
  BY <1>1, <1>2, <1>3 DEF Top
<1>5. \A d \in DOMAIN runs' : Observing(runs'[d]) =>
        \/ /\ d \in DOMAIN runs /\ Observing(runs[d])
           /\ ToSet(runs'[d].todo) \subseteq ToSet(runs[d].todo)
           /\ Calling(runs'[d]) => Calling(runs[d])
        \/ ~Calling(runs'[d]) /\ ToSet(runs'[d].todo) \cap firing = {}
  <2> SUFFICES ASSUME NEW d \in DOMAIN runs', Observing(runs'[d])
               PROVE  \/ /\ d \in DOMAIN runs /\ Observing(runs[d])
                         /\ ToSet(runs'[d].todo) \subseteq ToSet(runs[d].todo)
                         /\ Calling(runs'[d]) => Calling(runs[d])
                      \/ ~Calling(runs'[d]) /\ ToSet(runs'[d].todo) \cap firing = {}
    OBVIOUS
  <2>1. CASE d = Len(runs)
    BY <1>1, <1>2, <2>1 DEF Top
  <2>2. CASE runs'[d] = runs[d]
    BY <1>1, <1>2, <2>2
  <2> QED BY <1>1, <1>2, <1>3, <2>1, <2>2
<1> QED BY <1>4, <1>5, ObserversKept

(* The other steps that call no observer.                                   *)
LEMMA ObserversKeptByStack ==
  ASSUME Shape, Shape', ObserverInv, UNCHANGED <<firing, fired>>, valid' \subseteq valid,
         Pops \/ Pushes \/ KeepsWork
  PROVE  ObserverInv'
<1>1. /\ Len(runs) \in Nat /\ DOMAIN runs = 1..Len(runs)
      /\ Running <=> Len(runs) # 0
      /\ Len(runs') \in Nat /\ DOMAIN runs' = 1..Len(runs')
  BY StackLengths, LenProperties DEF Shape, TypeOK
<1>2. CASE Pops
  <2>1. /\ Len(runs') = Len(runs) - 1
        /\ \A d \in 1..(Len(runs) - 1) : runs'[d] = runs[d]
        /\ ~Calling(runs[Len(runs)])
    BY <1>2, StackLengths DEF Pops, Top, Calling
  <2>2. DOMAIN runs' \subseteq DOMAIN runs /\ \A d \in DOMAIN runs' : runs'[d] = runs[d]
    BY <1>1, <2>1
  <2>3. \A d \in DOMAIN runs : Calling(runs[d]) => d \in DOMAIN runs'
    BY <1>1, <2>1, TopOrBelow
  <2> QED BY <2>2, <2>3, ObserversKept
<1>3. CASE Pushes
  <2>1. PICK m \in Modes, term \in Terms, single \in BOOLEAN :
          runs' = Append(runs, NewRun(m, term, single))
    BY <1>3 DEF Pushes
  <2>2. /\ Len(runs') = Len(runs) + 1
        /\ \A d \in 1..Len(runs) : runs'[d] = runs[d]
        /\ runs'[Len(runs) + 1] = NewRun(m, term, single)
    BY <2>1, StackLengths
  <2>3. ~Observing(NewRun(m, term, single))
    BY DEF Observing, NewRun
  <2>4. /\ DOMAIN runs \subseteq DOMAIN runs'
        /\ \A d \in DOMAIN runs' : Observing(runs'[d]) => d \in DOMAIN runs
    BY <1>1, <2>2, <2>3
  <2> QED BY <1>1, <2>2, <2>4, ObserversKept
<1>4. CASE KeepsWork
  <2>1. /\ DOMAIN runs' = DOMAIN runs
        /\ \A d \in DOMAIN runs : /\ Calling(runs'[d]) <=> Calling(runs[d])
                                  /\ Observing(runs'[d]) <=> Observing(runs[d])
                                  /\ runs'[d].todo = runs[d].todo
    BY <1>1, <1>4 DEF KeepsWork, SameWork, Calling, Observing
  <2> QED BY <2>1, ObserversKept
<1> QED BY <1>2, <1>3, <1>4

(* The callouts by their phases.                                            *)
LEMMA KindOf ==
  ASSUME NEW run
  PROVE  /\ Kind(run) = "observer" <=> run.phase \in Activities
         /\ Kind(run) = "source" <=> run.phase \in {"sources", "source1"}
         /\ Kind(run) \in {"observer", "source", "block"}
BY DEF Kind, Activities

(* The steps of the loop's thread that have to do with no observer.         *)
LEMMA OtherLoopSteps ==
  ASSUME Shape, LoopStep,
         \A a \in Activities : ~DoObservers(a) /\ ~CallObserver(a) /\ ~ObserversDone(a),
         ~(Return /\ Kind(Top) = "observer")
  PROVE  /\ TopStep /\ ~Calling(Top) /\ ~Observing(Top')
         /\ UNCHANGED <<firing, fired, valid>>
<1>1. Top.phase \notin Activities
  <2>1. CASE Return
    BY <2>1, KindOf
  <2>2. CASE ~Return
    BY <2>2 DEF LoopStep, DoBlocks, RunBlock, PutBack, StartRun, ScanSource, DoSources0,
                PerformSource, SourcesDone, Wait, Awaken, Handle, DoSource1, Decide, Serving,
                AfterBlocks, Activities
  <2> QED BY <2>1, <2>2
<1>2. UNCHANGED <<firing, fired, valid>>
  BY DEF LoopStep, DoBlocks, RunBlock, PutBack, StartRun, ScanSource, DoSources0, PerformSource,
         SourcesDone, Wait, Awaken, Handle, DoSource1, Decide, Return, itemVars, history
<1>3. ~Pops
  BY <1>1 DEF Pops, Activities
<1>4. TopStep /\ PhaseAfter(Top, Top')
  BY <1>3, PhaseOfTop
<1> QED BY <1>1, <1>2, <1>4 DEF PhaseAfter, Calling, Observing, Activities

(* Going on after the observers of an activity.                             *)
LEMMA EnterAfterKeepsObservers ==
  ASSUME Shape, Shape', ObserverInv, UNCHANGED <<firing, fired, valid>>,
         Running, ~Calling(Top), NEW a, EnterAfter(a)
  PROVE  ObserverInv'
<1>1. Top \in RunType
  BY TopIsRun
<1>2. CASE a = "BeforeWaiting"
  <2>1. [Top EXCEPT !.phase = "asleep", !.at = "list"].phase = "asleep"
    BY <1>1 DEF RunType
  <2>2. SetTop([Top EXCEPT !.phase = "asleep", !.at = "list"])
    BY <1>2 DEF EnterAfter
  <2>3. TopStep /\ ~Observing(Top')
    BY <2>1, <2>2, SetTopStep DEF Observing, Activities
  <2> QED BY <2>3, ObserversKeptByTop DEF Observing, Calling
<1>3. CASE a # "BeforeWaiting"
  <2>1. Enter(Top, AfterActivity(a))
    BY <1>3 DEF EnterAfter
  <2>2. TopStep /\ ~Observing(Top')
    BY <1>1, <2>1, EnterTop DEF Observing
  <2> QED BY <2>2, ObserversKeptByTop DEF Observing, Calling
<1> QED BY <1>2, <1>3

(* Collecting observers: none that is being called is among them.           *)
LEMMA DoObserversKeeps ==
  ASSUME Shape, Shape', ObserverInv, NEW a \in Activities, DoObservers(a)
  PROVE  ObserverInv'
<1>1. Running /\ Top \in RunType /\ Top.phase = a /\ Top.at = "begin" /\ ~Calling(Top)
  BY TopIsRun DEF DoObservers, Serving, Calling
<1>2. UNCHANGED <<firing, fired, valid>>
  BY DEF DoObservers, itemVars, history
<1>3. CASE a = "Exit" /\ Collected(a) = <<>>
  BY <1>1, <1>2, <1>3, ObserversKeptByStack DEF DoObservers, Pops
<1>4. CASE a # "Exit" /\ Collected(a) = <<>>
  <2>1. EnterAfter(a)
    BY <1>4 DEF DoObservers
  <2> QED BY <1>1, <1>2, <2>1, EnterAfterKeepsObservers
<1>5. CASE Collected(a) # <<>>
  <2> DEFINE list == Collected(a)
             run == [Top EXCEPT !.at = "list", !.todo = list]
  <2>1. SetTop(run)
    BY <1>5 DEF DoObservers
  <2>2. \A o \in ToSet(list) : o \notin firing
    BY <1>1, CollectedType
  <2> HIDE DEF list
  <2>3. run.todo = list /\ run.at = "list"
    BY <1>1 DEF RunType
  <2> HIDE DEF run
  <2>4. TopStep /\ Top' = run
    BY <1>1, <2>1, SetTopStep
  <2>5. ~Calling(Top') /\ ToSet(Top'.todo) \cap firing = {}
    BY <2>2, <2>3, <2>4 DEF Calling
  <2> QED BY <1>1, <1>2, <2>4, <2>5, ObserversKeptByTop
<1> QED BY <1>3, <1>4, <1>5

(* Calling an observer: no run around this one is calling it.               *)
LEMMA CallObserverKeeps ==
  ASSUME Shape, Shape', ObserverInv, NEW a \in Activities, CallObserver(a)
  PROVE  ObserverInv'
<1>1. /\ Running /\ Top \in RunType /\ RunOK(Top) /\ Top.phase = a /\ Top.at = "list"
      /\ Top.todo # <<>> /\ Observing(Top) /\ ~Calling(Top)
  BY TopIsRun DEF CallObserver, Serving, Observing, Calling
<1>2. Top.todo \in Seq(Observers)
  BY <1>1 DEF RunOK, ListOK
<1> DEFINE o == Head(Top.todo)
           top == Len(runs)
<1>3. o \in Observers /\ o \in ToSet(Top.todo)
  BY <1>1, <1>2, HeadTailProperties, EmptySeq DEF ToSet
<1>4. CASE o \notin valid
  <2> DEFINE run == [Top EXCEPT !.todo = Tail(@)]
  <2>1. SetTop(run) /\ UNCHANGED <<firing, fired, valid>>
    BY <1>4 DEF CallObserver
  <2>2. run.todo = Tail(Top.todo) /\ run.at = "list"
    BY <1>1 DEF RunType
  <2> HIDE DEF run
  <2>3. TopStep /\ Top' = run
    BY <1>1, <2>1, SetTopStep
  <2>4. ToSet(Tail(Top.todo)) \subseteq ToSet(Top.todo)
    BY <1>1, <1>2, TailElements
  <2> QED BY <1>1, <2>1, <2>2, <2>3, <2>4, ObserversKeptByTop DEF Calling
<1>5. CASE o \in valid
  <2> DEFINE run == [Top EXCEPT !.at = "callout"]
  <2>1. /\ SetTop(run)
        /\ firing' = firing \cup {o}
        /\ fired' = [fired EXCEPT ![o] = IF @ < 2 THEN @ + 1 ELSE @]
        /\ valid' = valid
    BY <1>5 DEF CallObserver
  <2>2. run.todo = Top.todo /\ run.at = "callout" /\ run.phase = a
    BY <1>1 DEF RunType
  <2> HIDE DEF run
  <2>3. TopStep /\ Top' = run
    BY <1>1, <2>1, SetTopStep
  <2>4. /\ top \in Nat \ {0} /\ DOMAIN runs = 1..top /\ DOMAIN runs' = 1..top
        /\ top \in DOMAIN runs /\ runs[top] = Top /\ runs'[top] = run
        /\ \A d \in DOMAIN runs : runs'[d] = runs[d] \/ d = top
    BY <1>1, <2>3, TopIsRun, TopOrBelow, LenProperties DEF TopStep, Top, Shape, TypeOK
  <2> HIDE DEF top
  <2>5. Fires(run, o) /\ \A p : Fires(run, p) => p = o
    BY <1>1, <2>2 DEF Fires, Calling
  <2>6. FiringIsCalled'
    <3> SUFFICES ASSUME NEW p \in firing' PROVE \E d \in DOMAIN runs' : Fires(runs'[d], p)
      BY DEF FiringIsCalled
    <3>1. CASE p = o
      BY <2>4, <2>5, <3>1
    <3>2. CASE p \in firing
      <4>1. PICK d \in DOMAIN runs : Fires(runs[d], p)
        BY <3>2 DEF ObserverInv, FiringIsCalled
      <4>2. d # top
        BY <1>1, <2>4, <4>1 DEF Fires
      <4> QED BY <2>4, <4>1, <4>2
    <3> QED BY <2>1, <3>1, <3>2
  <2>7. CalledIsFiring'
    <3> SUFFICES ASSUME NEW d \in DOMAIN runs', NEW p \in Observers, Fires(runs'[d], p)
                 PROVE  /\ p \in firing'
                        /\ \A e \in DOMAIN runs' : d < e /\ Observing(runs'[e])
                             => p \notin ToSet(runs'[e].todo)
      BY DEF CalledIsFiring
    <3>1. CASE d = top
      <4>1. \A e \in DOMAIN runs' : ~(d < e)
        BY <2>4, <3>1
      <4> QED BY <2>1, <2>4, <2>5, <3>1, <4>1
    <3>2. CASE d # top
      <4>1. /\ p \in firing
            /\ \A e \in DOMAIN runs : d < e /\ Observing(runs[e]) => p \notin ToSet(runs[e].todo)
        BY <2>4, <3>2 DEF ObserverInv, CalledIsFiring
      <4>2. ASSUME NEW e \in DOMAIN runs', d < e, Observing(runs'[e])
            PROVE  p \notin ToSet(runs'[e].todo)
        <5>1. CASE e = top
          BY <1>1, <2>2, <2>4, <4>1, <4>2, <5>1
        <5>2. CASE e # top
          BY <2>4, <4>1, <4>2, <5>2
        <5> QED BY <5>1, <5>2
      <4> QED BY <2>1, <4>1, <4>2
    <3> QED BY <3>1, <3>2
  <2>8. o \notin firing
    <3> SUFFICES ASSUME o \in firing PROVE FALSE
      OBVIOUS
    <3>1. PICK d \in DOMAIN runs : Fires(runs[d], o)
      BY DEF ObserverInv, FiringIsCalled
    <3>2. d # top /\ d < top
      BY <1>1, <2>4, <3>1 DEF Fires
    <3>3. o \notin ToSet(runs[top].todo)
      BY <1>1, <1>3, <2>4, <3>1, <3>2 DEF ObserverInv, CalledIsFiring
    <3> QED BY <1>3, <2>4, <3>3
  <2>9. OneShotCalls'
    <3>1. ASSUME NEW p \in OneShot
          PROVE  fired'[p] = 0 \/ (fired'[p] = 1 /\ (p \notin valid' \/ p \in firing'))
      <4>1. fired[p] = 0 \/ (fired[p] = 1 /\ (p \notin valid \/ p \in firing))
        BY DEF ObserverInv, OneShotCalls
      <4>2. CASE p = o
        <5>1. fired[o] = 0
          BY <1>5, <2>8, <4>1, <4>2
        <5>2. fired'[o] = 1
          BY <1>3, <2>1, <5>1 DEF Shape, TypeOK
        <5> QED BY <2>1, <4>2, <5>2
      <4>3. CASE p # o
        BY <2>1, <4>1, <4>3, RunLoopConstants DEF Shape, TypeOK
      <4> QED BY <4>2, <4>3
    <3> QED BY <3>1 DEF OneShotCalls
  <2> QED BY <2>6, <2>7, <2>9 DEF ObserverInv
<1> QED BY <1>4, <1>5

(* The last observer was called.                                            *)
LEMMA ObserversDoneKeeps ==
  ASSUME Shape, Shape', ObserverInv, NEW a \in Activities, ObserversDone(a)
  PROVE  ObserverInv'
<1>1. Running /\ Top \in RunType /\ Top.phase = a /\ Top.at = "list" /\ ~Calling(Top)
  BY TopIsRun DEF ObserversDone, Serving, Calling
<1>2. UNCHANGED <<firing, fired, valid>>
  BY DEF ObserversDone, itemVars, history
<1>3. CASE a = "Exit"
  BY <1>1, <1>2, <1>3, ObserversKeptByStack DEF ObserversDone, Pops
<1>4. CASE a # "Exit"
  BY <1>1, <1>2, <1>4, EnterAfterKeepsObservers DEF ObserversDone
<1> QED BY <1>3, <1>4

(* The callout of an observer returns: no other run is calling it.          *)
LEMMA ReturnKeeps ==
  ASSUME Shape, Shape', ObserverInv, Return, Kind(Top) = "observer"
  PROVE  ObserverInv'
<1>1. /\ Running /\ Top \in RunType /\ RunOK(Top) /\ Top.phase \in Activities
      /\ Top.at = "callout" /\ Observing(Top) /\ Calling(Top)
  BY TopIsRun, KindOf DEF Return, Observing, Calling
<1>2. Top.todo \in Seq(Observers) /\ Top.todo # <<>>
  BY <1>1 DEF RunOK, ListOK, Activities
<1> DEFINE o == Head(Top.todo)
           top == Len(runs)
           run == [Top EXCEPT !.at = "list", !.todo = Tail(@)]
<1>3. o \in Observers /\ o \in ToSet(Top.todo) /\ Fires(Top, o)
  BY <1>1, <1>2, HeadTailProperties, EmptySeq DEF ToSet, Fires
<1>4. /\ SetTop(run)
      /\ ReturnFromObserver(o)
      /\ UNCHANGED fired
  <2>1. Top.phase # "source1" /\ Top.phase # "sources"
    BY <1>1 DEF Activities
  <2> QED BY <2>1 DEF Return, history
<1>5. run.todo = Tail(Top.todo) /\ run.at = "list" /\ run.phase = Top.phase
  BY <1>1 DEF RunType
<1> HIDE DEF run
<1>6. TopStep /\ Top' = run
  BY <1>1, <1>4, SetTopStep
<1>7. /\ top \in Nat \ {0} /\ DOMAIN runs = 1..top /\ DOMAIN runs' = 1..top
      /\ top \in DOMAIN runs /\ runs[top] = Top /\ runs'[top] = run
      /\ \A d \in DOMAIN runs : runs'[d] = runs[d] \/ d = top
  BY <1>1, <1>6, TopIsRun, TopOrBelow, LenProperties DEF TopStep, Top, Shape, TypeOK
<1>8. ToSet(run.todo) \subseteq ToSet(Top.todo)
  BY <1>2, <1>5, TailElements
<1>9. ~Calling(run)
  BY <1>5 DEF Calling
<1> HIDE DEF top
<1>10. \A d \in DOMAIN runs : d # top => ~Fires(runs[d], o)
  <2>1. \A d \in DOMAIN runs : d # top => d < top
    BY <1>7
  <2> QED BY <1>1, <1>3, <1>7, <2>1 DEF ObserverInv, CalledIsFiring
<1>11. firing' = firing \ {o} /\ valid' \subseteq valid
       /\ (o \in OneShot => o \notin valid')
  BY <1>4 DEF ReturnFromObserver
<1>12. FiringIsCalled'
  <2> SUFFICES ASSUME NEW p \in firing' PROVE \E d \in DOMAIN runs' : Fires(runs'[d], p)
    BY DEF FiringIsCalled
  <2>1. PICK d \in DOMAIN runs : Fires(runs[d], p)
    BY <1>11 DEF ObserverInv, FiringIsCalled
  <2>2. d # top
    BY <1>7, <1>11, <2>1 DEF Fires
  <2> QED BY <1>7, <2>1, <2>2
<1>13. CalledIsFiring'
  <2> SUFFICES ASSUME NEW d \in DOMAIN runs', NEW p \in Observers, Fires(runs'[d], p)
               PROVE  /\ p \in firing'
                      /\ \A e \in DOMAIN runs' : d < e /\ Observing(runs'[e])
                           => p \notin ToSet(runs'[e].todo)
    BY DEF CalledIsFiring
  <2>1. d # top /\ Fires(runs[d], p)
    BY <1>7, <1>9 DEF Fires
  <2>2. /\ p \in firing
        /\ \A e \in DOMAIN runs : d < e /\ Observing(runs[e]) => p \notin ToSet(runs[e].todo)
    BY <1>7, <2>1 DEF ObserverInv, CalledIsFiring
  <2>3. p # o
    BY <1>7, <1>10, <2>1
  <2>4. ASSUME NEW e \in DOMAIN runs', d < e, Observing(runs'[e])
        PROVE  p \notin ToSet(runs'[e].todo)
    <3>1. CASE e = top
      BY <1>1, <1>7, <1>8, <2>2, <2>4, <3>1
    <3>2. CASE e # top
      BY <1>7, <2>2, <2>4, <3>2
    <3> QED BY <3>1, <3>2
  <2> QED BY <1>11, <2>2, <2>3, <2>4
<1>14. OneShotCalls'
  BY <1>4, <1>11 DEF ObserverInv, OneShotCalls
<1> QED BY <1>12, <1>13, <1>14 DEF ObserverInv

(* Every step keeps the invariant.                                          *)
LEMMA NextObservers ==
  ASSUME Shape, ObserverInv, [Next]_vars
  PROVE  ObserverInv'
<1>0. Shape'
  BY NextShape
<1>1. ASSUME NEW t \in Threads, BeginCall(t)
      PROVE  ObserverInv'
  <2>1. PICK c \in Program[t][done[t] + 1] : MayCall(t, c) /\ FirstHalf(c)
    BY <1>1 DEF BeginCall
  <2>2. c \in Calls
    BY <1>1, CallOfProgram DEF BeginCall, Shape
  <2>3. Pushes \/ KeepsWork
    BY <2>1, <2>2, FirstHalfStack
  <2>4. UNCHANGED <<firing, fired>> /\ valid' \subseteq valid
    BY <2>1 DEF FirstHalf, Signal, Post, Stop, StopMode, PerformBlock, RemoveSource, Invalidate,
                InvalidateObserver, Run, itemVars, history
  <2> QED BY <1>0, <2>3, <2>4, ObserversKeptByStack
<1>2. ASSUME NEW t \in Threads, FinishCall(t)
      PROVE  ObserverInv'
  <2>1. KeepsWork
    BY <1>2, SecondHalfStack DEF FinishCall, KeepsWork, SameWork
  <2>2. UNCHANGED <<firing, fired, valid>>
    BY <1>2 DEF FinishCall, SecondHalf, AddSource, AddObserver, RemoveFromModes, RemoveObserver,
                itemVars, history
  <2> QED BY <1>0, <2>1, <2>2, ObserversKeptByStack
<1>3. CASE LoopStep
  <2>1. CASE \E a \in Activities : DoObservers(a) \/ CallObserver(a) \/ ObserversDone(a)
    BY <1>0, <2>1, DoObserversKeeps, CallObserverKeeps, ObserversDoneKeeps
  <2>2. CASE Return /\ Kind(Top) = "observer"
    BY <1>0, <2>2, ReturnKeeps
  <2>3. CASE /\ \A a \in Activities : ~DoObservers(a) /\ ~CallObserver(a) /\ ~ObserversDone(a)
             /\ ~(Return /\ Kind(Top) = "observer")
    <3>1. /\ TopStep /\ ~Calling(Top) /\ ~Observing(Top')
          /\ UNCHANGED <<firing, fired, valid>>
      BY <1>3, <2>3, OtherLoopSteps
    <3> QED BY <1>0, <3>1, ObserversKeptByTop DEF Calling, Observing
  <2> QED BY <2>1, <2>2, <2>3
<1>4. CASE Elapse \/ Timeout
  <2>1. PICK i \in DOMAIN runs, term \in Terms : runs' = [runs EXCEPT ![i].term = term]
    BY <1>4 DEF Elapse, Timeout, Terms
  <2>2. UNCHANGED <<firing, fired, valid>>
    BY <1>4 DEF Elapse, Timeout, itemVars, history
  <2> QED BY <1>0, <2>1, <2>2, TermKeepsWork, ObserversKeptByStack
<1>5. CASE TimeoutWake
  <2>1. KeepsWork /\ UNCHANGED <<firing, fired, valid>>
    BY <1>5 DEF TimeoutWake, KeepsWork, SameWork, itemVars
  <2> QED BY <1>0, <2>1, ObserversKeptByStack
<1>6. CASE UNCHANGED vars
  <2>1. KeepsWork /\ UNCHANGED <<firing, fired, valid>>
    BY <1>6 DEF vars, loopVars, itemVars, history, KeepsWork, SameWork
  <2> QED BY <1>0, <2>1, ObserversKeptByStack
<1> QED BY <1>1, <1>2, <1>3, <1>4, <1>5, <1>6 DEF Next

(* An observer that does not repeat is called at most once, however deep    *)
(* runs are nested in the callouts of observers.                            *)
THEOREM RunLoopObserversOnce == Spec => []ObserversOnce
<1>1. Init => ObserverInv
  <2> SUFFICES ASSUME Init PROVE ObserverInv
    OBVIOUS
  <2>1. DOMAIN runs = {} /\ firing = {}
    BY LenProperties, EmptySeq DEF Init
  <2>2. FiringIsCalled /\ CalledIsFiring
    BY <2>1 DEF FiringIsCalled, CalledIsFiring
  <2>3. OneShotCalls
    BY RunLoopConstants DEF Init, OneShotCalls
  <2> QED BY <2>2, <2>3 DEF ObserverInv
<1>2. Shape /\ ObserverInv /\ [Next]_vars => ObserverInv'
  BY NextObservers
<1>3. ObserverInv => ObserversOnce
  BY DEF ObserverInv, OneShotCalls, ObserversOnce
<1> QED BY <1>1, <1>2, <1>3, RunLoopShape, PTL DEF Spec

-----------------------------------------------------------------------------
(* Blocks: those not yet run are, in the order of their calls, the ones the *)
(* innermost run keeps for other modes, the ones it still walks, and the    *)
(* ones of the run loop's list.  A run inside a block's callout would take  *)
(* the list a second time; then blocks that wait around it are out of this  *)
(* order, and the theorem is about loops that are not run again by blocks.  *)

Pending(run) ==
  IF run.phase \in BlockPhases /\ run.at # "begin"
    THEN run.kept \o (IF run.at = "callout" THEN Tail(run.todo) ELSE run.todo)
    ELSE <<>>

Held == IF Running THEN Pending(Top) ELSE <<>>

OwedListed == owed = Held \o blocks

(* Lists of blocks, one behind the other.                                   *)
LEMMA BlockLists ==
  /\ \A k, t, r \in Seq(Blocks) : (k \o t) \o r = k \o (t \o r)
  /\ \A k, t \in Seq(Blocks) : \A b \in Blocks : Append(k \o t, b) = k \o Append(t, b)
<1>1. ASSUME NEW k \in Seq(Blocks), NEW t \in Seq(Blocks), NEW r \in Seq(Blocks)
      PROVE  (k \o t) \o r = k \o (t \o r)
  BY ConcatAssociative
<1>2. ASSUME NEW k \in Seq(Blocks), NEW t \in Seq(Blocks), NEW b \in Blocks
      PROVE  Append(k \o t, b) = k \o Append(t, b)
  <2>1. <<b>> \in Seq(Blocks) /\ k \o t \in Seq(Blocks)
    BY ConcatProperties
  <2>2. Append(t, b) = t \o <<b>>
    BY AppendIsConcat
  <2>3. Append(k \o t, b) = (k \o t) \o <<b>>
    BY <2>1, AppendIsConcat
  <2>4. (k \o t) \o <<b>> = k \o (t \o <<b>>)
    BY <1>1, <2>1
  <2> QED BY <2>2, <2>3, <2>4
<1> QED BY <1>1, <1>2

(* What the innermost run holds is a list of blocks.                        *)
LEMMA HeldType ==
  ASSUME Shape
  PROVE  /\ Held \in Seq(Blocks)
         /\ blocks \in Seq(Blocks)
         /\ blocks = <<>> \o blocks
         /\ blocks \o <<>> = blocks
<1>1. blocks \in Seq(Blocks) /\ <<>> \in Seq(Blocks)
  BY EmptySeq DEF Shape, TypeOK
<1>2. CASE Running /\ Top.phase \in BlockPhases /\ Top.at # "begin"
  <2>1. Top.todo \in Seq(Blocks) /\ Top.kept \in Seq(Blocks)
        /\ (Top.todo # <<>> => Tail(Top.todo) \in Seq(Blocks))
    BY <1>2, BlockList
  <2>2. Top.at = "callout" => Top.todo # <<>>
    BY <1>2, TopIsRun DEF RunOK, ListOK, BlockPhases
  <2>3. Held \in Seq(Blocks)
    BY <1>2, <2>1, <2>2, ConcatProperties DEF Held, Pending
  <2> QED BY <1>1, <2>3, ConcatEmptySeq
<1>3. CASE ~(Running /\ Top.phase \in BlockPhases /\ Top.at # "begin")
  <2>1. Held = <<>>
    BY <1>3 DEF Held, Pending
  <2> QED BY <1>1, <2>1, ConcatEmptySeq
<1> QED BY <1>2, <1>3

(* A run whose callout may run the loop holds no blocks.                    *)
LEMMA NoneHeldInCallout ==
  ASSUME "block" \notin Nesting, NEW run, Kind(run) \in Nesting
  PROVE  Pending(run) = <<>>
<1>1. run.phase \notin BlockPhases
  BY KindOf DEF BlockPhases, Activities
<1> QED BY <1>1 DEF Pending

(* Calls of runs and returns from them hold no blocks.                      *)
LEMMA HeldKept ==
  ASSUME Shape, Shape', Stacked, "block" \notin Nesting, Pops \/ Pushes \/ KeepsWork
  PROVE  Held' = Held
<1>1. /\ Len(runs) \in Nat /\ DOMAIN runs = 1..Len(runs)
      /\ Running <=> Len(runs) # 0
  BY StackLengths
<1>2. runs' \in Seq(RunType) /\ Len(runs') \in Nat /\ (Running' <=> Len(runs') # 0)
  BY LenProperties, EmptySeq DEF Shape, TypeOK, Running
<1>3. CASE Pops
  <2>1. Held = <<>>
    BY <1>3 DEF Pops, Held, Pending, BlockPhases
  <2>2. Len(runs') = Len(runs) - 1 /\ \A d \in 1..(Len(runs) - 1) : runs'[d] = runs[d]
    BY <1>3, StackLengths
  <2>3. CASE ~Running'
    BY <2>1, <2>3 DEF Held
  <2>4. CASE Running'
    <3>1. Len(runs') \in 1..(Len(runs) - 1)
      BY <1>1, <1>2, <2>2, <2>4
    <3>2. Top' = runs[Len(runs')] /\ Kind(runs[Len(runs')]) \in Nesting
      BY <2>2, <3>1 DEF Top, Stacked
    <3> QED BY <2>1, <2>4, <3>2, NoneHeldInCallout DEF Held
  <2> QED BY <2>3, <2>4
<1>4. CASE Pushes
  <2>1. PICK m \in Modes, term \in Terms, single \in BOOLEAN :
          /\ Running => Top.at = "callout" /\ Kind(Top) \in Nesting
          /\ runs' = Append(runs, NewRun(m, term, single))
    BY <1>4 DEF Pushes
  <2>2. Held = <<>>
    BY <2>1, NoneHeldInCallout DEF Held
  <2>3. Running' /\ Top' = NewRun(m, term, single)
    <3>1. Len(runs') = Len(runs) + 1 /\ runs'[Len(runs) + 1] = NewRun(m, term, single)
      BY <2>1, StackLengths
    <3>2. Len(runs') # 0
      BY <1>1, <3>1
    <3> QED BY <1>2, <3>1, <3>2 DEF Top
  <2>4. Pending(NewRun(m, term, single)) = <<>>
    BY DEF Pending, NewRun
  <2> QED BY <2>2, <2>3, <2>4 DEF Held
<1>5. CASE KeepsWork
  <2>1. CASE ~Running
    BY <1>1, <1>2, <1>5, <2>1 DEF KeepsWork, Held
  <2>2. CASE Running
    <3>1. Running' /\ Len(runs) \in DOMAIN runs /\ Len(runs') = Len(runs)
      BY <1>1, <1>2, <1>5, <2>2, TopIsRun DEF KeepsWork
    <3>2. SameWork(Top', Top)
      BY <1>5, <3>1 DEF KeepsWork, Top
    <3> QED BY <2>2, <3>1, <3>2 DEF SameWork, Held, Pending
  <2> QED BY <2>1, <2>2
<1> QED BY <1>3, <1>4, <1>5

(* The other steps of the loop's thread neither hold blocks nor run any.    *)
LEMMA HeldByLoopStep ==
  ASSUME Shape, Shape', Stacked, "block" \notin Nesting, LoopStep,
         \A p \in BlockPhases : ~DoBlocks(p) /\ ~RunBlock(p) /\ ~PutBack(p)
  PROVE  Held' = Held /\ UNCHANGED <<blocks, owed>>
<1>1. UNCHANGED <<blocks, owed>>
  BY AfterBlocksDomain
     DEF LoopStep, DoObservers, CallObserver, ObserversDone, StartRun, ScanSource, DoSources0,
         PerformSource, SourcesDone, Wait, Awaken, Handle, DoSource1, Decide, Return, history
<1>2. CASE Pops
  BY <1>1, <1>2, HeldKept
<1>3. CASE ~Pops
  <2>1. TopStep /\ PhaseAfter(Top, Top') /\ Running
    BY <1>3, PhaseOfTop DEF TopStep
  <2>2. Running'
    BY <2>1, LenProperties, EmptySeq DEF TopStep, Running, Shape, TypeOK
  <2>3. CASE Top.phase \notin BlockPhases
    BY <1>1, <2>1, <2>2, <2>3 DEF PhaseAfter, Held, Pending, BlockPhases
  <2>4. CASE Top.phase \in BlockPhases
    <3>1. Return /\ Top.at = "callout" /\ Top \in RunType
      BY <2>1, <2>4, TopIsRun, AfterBlocksDomain
         DEF LoopStep, DoObservers, CallObserver, ObserversDone, StartRun, ScanSource, DoSources0,
             PerformSource, SourcesDone, Wait, Awaken, Handle, DoSource1, Decide, Return, Serving,
             Activities, BlockPhases
    <3>2. SetTop([Top EXCEPT !.at = "list", !.todo = Tail(@)])
      BY <2>4, <3>1 DEF Return, BlockPhases
    <3>3. Top' = [Top EXCEPT !.at = "list", !.todo = Tail(@)]
      BY <2>1, <3>2, SetTopStep
    <3>4. Top'.phase = Top.phase /\ Top'.at = "list" /\ Top'.todo = Tail(Top.todo)
          /\ Top'.kept = Top.kept
      BY <3>1, <3>3 DEF RunType
    <3> QED BY <1>1, <2>1, <2>2, <2>4, <3>1, <3>4 DEF Held, Pending
  <2> QED BY <1>1, <2>3, <2>4
<1> QED BY <1>2, <1>3

(* Handling the lists of blocks.                                            *)
LEMMA DoBlocksOwed ==
  ASSUME Shape, OwedListed, NEW p \in BlockPhases, DoBlocks(p)
  PROVE  OwedListed'
<1>1. /\ Running /\ Top \in RunType /\ Top.phase = p /\ Top.at = "begin"
      /\ owed' = owed /\ blocks' = <<>>
  BY TopIsRun DEF DoBlocks, Serving, history
<1>2. owed = blocks
  BY <1>1, HeldType DEF OwedListed, Held, Pending
<1>3. CASE blocks = <<>>
  <2>1. Enter(Top, AfterBlocks[p])
    BY <1>3 DEF DoBlocks
  <2>2. Held' = <<>>
    BY <1>1, <2>1, EnterTop, SetTopStep DEF Held, Pending, Enter
  <2> QED BY <1>1, <1>2, <1>3, <2>2, HeldType DEF OwedListed
<1>4. CASE blocks # <<>>
  <2> DEFINE run == [Top EXCEPT !.at = "list", !.todo = blocks, !.kept = <<>>]
  <2>1. SetTop(run)
    BY <1>4 DEF DoBlocks
  <2>2. run.phase = p /\ run.at = "list" /\ run.todo = blocks /\ run.kept = <<>>
    BY <1>1 DEF RunType
  <2> HIDE DEF run
  <2>3. Running' /\ Top' = run
    BY <1>1, <2>1, SetTopStep
  <2>4. Held' = blocks
    BY <2>2, <2>3, HeldType DEF Held, Pending
  <2> QED BY <1>1, <1>2, <2>4, HeldType DEF OwedListed
<1> QED BY <1>3, <1>4

(* The owed blocks while a run walks its list.                              *)
LEMMA OwedInList ==
  ASSUME Shape, OwedListed, Running, Top.phase \in BlockPhases, Top.at = "list"
  PROVE  /\ Top.kept \in Seq(Blocks) /\ Top.todo \in Seq(Blocks) /\ blocks \in Seq(Blocks)
         /\ Held = Top.kept \o Top.todo
         /\ owed = (Top.kept \o Top.todo) \o blocks
         /\ owed = Top.kept \o (Top.todo \o blocks)
<1>1. Top.kept \in Seq(Blocks) /\ Top.todo \in Seq(Blocks) /\ blocks \in Seq(Blocks)
  BY BlockList, HeldType
<1>2. Held = Top.kept \o Top.todo
  BY DEF Held, Pending
<1>3. (Top.kept \o Top.todo) \o blocks = Top.kept \o (Top.todo \o blocks)
  BY <1>1, BlockLists
<1> QED BY <1>1, <1>2, <1>3 DEF OwedListed

(* The block that is run: the kept ones are before it, the rest behind.     *)
LEMMA BlockIsFirst ==
  ASSUME Shape, OwedListed, NEW p \in BlockPhases, RunBlock(p),
         Top.mode \in InMode[Head(Top.todo)]
  PROVE  /\ owed' = RemoveFirst(owed, Head(Top.todo))
         /\ RemoveFirst(owed, Head(Top.todo)) = (Top.kept \o Tail(Top.todo)) \o blocks
         /\ Len(Top.kept) + 1 \in 1..Len(owed)
         /\ owed[Len(Top.kept) + 1] = Head(Top.todo)
         /\ \A i \in 1..Len(Top.kept) : Top.mode \notin InMode[owed[i]]
<1> DEFINE b == Head(Top.todo)
           rest == Top.todo \o blocks
           kept == Top.kept
<1>1. Running /\ Top.phase = p /\ Top.at = "list" /\ Top.todo # <<>>
  BY DEF RunBlock, Serving
<1>2. /\ kept \in Seq(Blocks) /\ Top.todo \in Seq(Blocks) /\ blocks \in Seq(Blocks)
      /\ owed = kept \o rest
  BY <1>1, OwedInList
<1>3. rest \in Seq(Blocks) /\ rest # <<>> /\ Head(rest) = b /\ Tail(rest) = Tail(Top.todo) \o blocks
  BY <1>1, <1>2, HeadTailConcat, ConcatProperties
<1>4. Tail(Top.todo) \in Seq(Blocks)
  BY <1>1, <1>2, HeadTailProperties
<1>5. \A i \in 1..Len(kept) : Top.mode \notin InMode[kept[i]]
  BY <1>1, <1>2, BlockList, LenProperties
<1>6. \A i \in 1..Len(kept) : kept[i] # b
  BY <1>5
<1>7. owed' = RemoveFirst(owed, b)
  BY DEF RunBlock
<1>8. kept \o (Tail(Top.todo) \o blocks) = (kept \o Tail(Top.todo)) \o blocks
  BY <1>2, <1>4, BlockLists
<1> HIDE DEF rest, kept
<1>9. /\ RemoveFirst(kept \o rest, Head(rest)) = kept \o Tail(rest)
      /\ Len(kept) + 1 \in 1..Len(kept \o rest)
      /\ (kept \o rest)[Len(kept) + 1] = Head(rest)
      /\ \A i \in 1..Len(kept) : (kept \o rest)[i] = kept[i]
  BY <1>2, <1>3, <1>6, RemoveHead
<1> QED BY <1>2, <1>3, <1>5, <1>7, <1>8, <1>9 DEF kept

(* Running a block, or keeping it.                                          *)
LEMMA RunBlockOwed ==
  ASSUME Shape, OwedListed, NEW p \in BlockPhases, RunBlock(p)
  PROVE  OwedListed'
<1>1. /\ Running /\ Top \in RunType /\ Top.phase = p /\ Top.at = "list" /\ Top.todo # <<>>
      /\ blocks' = blocks
  BY TopIsRun DEF RunBlock, Serving
<1>2. CASE Top.mode \in InMode[Head(Top.todo)]
  <2>1. SetTop([Top EXCEPT !.at = "callout"])
    BY <1>2 DEF RunBlock
  <2>2. Running' /\ Top' = [Top EXCEPT !.at = "callout"]
    BY <1>1, <2>1, SetTopStep
  <2>3. Top'.phase = p /\ Top'.at = "callout" /\ Top'.todo = Top.todo /\ Top'.kept = Top.kept
    BY <1>1, <2>2 DEF RunType
  <2>4. Held' = Top.kept \o Tail(Top.todo)
    BY <2>2, <2>3 DEF Held, Pending
  <2> QED BY <1>1, <1>2, <2>4, BlockIsFirst DEF OwedListed
<1>3. CASE Top.mode \notin InMode[Head(Top.todo)]
  <2> DEFINE run == [Top EXCEPT !.todo = Tail(@), !.kept = Append(@, Head(Top.todo))]
  <2>1. SetTop(run) /\ owed' = owed
    BY <1>3 DEF RunBlock
  <2>2. run.phase = p /\ run.at = "list" /\ run.todo = Tail(Top.todo)
        /\ run.kept = Append(Top.kept, Head(Top.todo))
    BY <1>1 DEF RunType
  <2> HIDE DEF run
  <2>3. Running' /\ Top' = run
    BY <1>1, <2>1, SetTopStep
  <2>4. Held' = Append(Top.kept, Head(Top.todo)) \o Tail(Top.todo)
    BY <2>2, <2>3 DEF Held, Pending
  <2>5. Held' = Top.kept \o Top.todo
    BY <1>1, <2>4, OwedInList, MoveHead
  <2> QED BY <1>1, <2>1, <2>5, OwedInList DEF OwedListed
<1> QED BY <1>2, <1>3

(* Putting the kept blocks back.                                            *)
LEMMA PutBackOwed ==
  ASSUME Shape, OwedListed, NEW p \in BlockPhases, PutBack(p)
  PROVE  OwedListed'
<1>1. /\ Running /\ Top \in RunType /\ Top.phase = p /\ Top.at = "list" /\ Top.todo = <<>>
      /\ owed' = owed /\ blocks' = Top.kept \o blocks
  BY TopIsRun DEF PutBack, Serving, history
<1>2. owed = Top.kept \o blocks
  BY <1>1, OwedInList, ConcatEmptySeq
<1>3. [Top EXCEPT !.kept = <<>>] \in RunType
  BY <1>1, EmptySeq DEF RunType
<1>4. Enter([Top EXCEPT !.kept = <<>>], AfterBlocks[p])
  BY DEF PutBack
<1>5. Top'.at = "begin"
  BY <1>1, <1>3, <1>4, EnterTop
<1>6. Held' = <<>>
  BY <1>5 DEF Held, Pending
<1>7. Top.kept \o blocks \in Seq(Blocks)
  BY <1>1, OwedInList, ConcatProperties
<1> QED BY <1>1, <1>2, <1>6, <1>7, ConcatEmptySeq DEF OwedListed

(* Every step keeps the owed blocks listed.                                 *)
LEMMA NextOwed ==
  ASSUME Shape, Stacked, OwedListed, "block" \notin Nesting, [Next]_vars
  PROVE  OwedListed'
<1>0. Shape'
  BY NextShape
<1>1. ASSUME Held' = Held, UNCHANGED <<blocks, owed>>
      PROVE  OwedListed'
  BY <1>1 DEF OwedListed
<1>2. ASSUME NEW t \in Threads, BeginCall(t)
      PROVE  OwedListed'
  <2>1. PICK c \in Program[t][done[t] + 1] : MayCall(t, c) /\ FirstHalf(c)
    BY <1>2 DEF BeginCall
  <2>2. c \in Calls
    BY <1>2, CallOfProgram DEF BeginCall, Shape
  <2>3. Held' = Held
    BY <1>0, <2>1, <2>2, FirstHalfStack, HeldKept
  <2>4. CASE c.op = "block" /\ PerformBlock(c.block)
    <3>1. c.block \in Blocks
      BY <2>2, <2>4, CallArguments
    <3>2. Append(Held \o blocks, c.block) = Held \o Append(blocks, c.block)
      BY <3>1, HeldType, BlockLists
    <3> QED BY <2>3, <2>4, <3>2 DEF PerformBlock, OwedListed
  <2>5. CASE ~(c.op = "block" /\ PerformBlock(c.block))
    <3>1. UNCHANGED <<blocks, owed>>
      BY <2>1, <2>5 DEF FirstHalf, Signal, Post, Stop, StopMode, RemoveSource, Invalidate,
                        InvalidateObserver, Run, loopVars, history
    <3> QED BY <1>1, <2>3, <3>1
  <2> QED BY <2>4, <2>5
<1>3. ASSUME NEW t \in Threads, FinishCall(t)
      PROVE  OwedListed'
  <2>1. KeepsWork
    BY <1>3, SecondHalfStack DEF FinishCall, KeepsWork, SameWork
  <2>2. UNCHANGED <<blocks, owed>>
    BY <1>3 DEF FinishCall, SecondHalf, AddSource, AddObserver, RemoveFromModes, RemoveObserver,
                loopVars, history
  <2> QED BY <1>0, <1>1, <2>1, <2>2, HeldKept
<1>4. CASE LoopStep
  <2>1. ASSUME NEW p \in BlockPhases, DoBlocks(p) \/ RunBlock(p) \/ PutBack(p)
        PROVE  OwedListed'
    BY <2>1, DoBlocksOwed, RunBlockOwed, PutBackOwed
  <2>2. CASE \A p \in BlockPhases : ~DoBlocks(p) /\ ~RunBlock(p) /\ ~PutBack(p)
    BY <1>0, <1>1, <1>4, <2>2, HeldByLoopStep
  <2> QED BY <2>1, <2>2
<1>5. CASE Elapse \/ Timeout
  <2>1. PICK i \in DOMAIN runs, term \in Terms : runs' = [runs EXCEPT ![i].term = term]
    BY <1>5 DEF Elapse, Timeout, Terms
  <2>2. UNCHANGED <<blocks, owed>>
    BY <1>5 DEF Elapse, Timeout, history
  <2> QED BY <1>0, <1>1, <2>1, <2>2, TermKeepsWork, HeldKept
<1>6. CASE TimeoutWake
  <2>1. KeepsWork /\ UNCHANGED <<blocks, owed>>
    BY <1>6 DEF TimeoutWake, KeepsWork, SameWork
  <2> QED BY <1>0, <1>1, <2>1, HeldKept
<1>7. CASE UNCHANGED vars
  <2>1. KeepsWork /\ UNCHANGED <<blocks, owed>>
    BY <1>7 DEF vars, loopVars, history, KeepsWork, SameWork
  <2> QED BY <1>0, <1>1, <2>1, HeldKept
<1> QED BY <1>2, <1>3, <1>4, <1>5, <1>6, <1>7 DEF Next

(* The owed blocks are listed in the order of their calls, if blocks do not *)
(* run the loop.                                                            *)
LEMMA OwedIsListed == "block" \notin Nesting /\ Spec => []OwedListed
<1> SUFFICES ASSUME "block" \notin Nesting PROVE Spec => []OwedListed
  OBVIOUS
<1>1. Init => OwedListed
  <2> SUFFICES ASSUME Init PROVE OwedListed
    OBVIOUS
  <2>1. runs = <<>> /\ owed = <<>> /\ blocks = <<>>
    BY DEF Init
  <2>2. <<>> \o <<>> = <<>>
    BY EmptySeq, ConcatEmptySeq
  <2> QED BY <2>1, <2>2 DEF OwedListed, Held, Running
<1>2. Shape /\ Stacked /\ OwedListed /\ [Next]_vars => OwedListed'
  BY NextOwed
<1> QED BY <1>1, <1>2, RunLoopShape, RunsAreStacked, PTL DEF Spec

(* Only the running of a block takes one from those owed.                   *)
LEMMA OnlyRunBlockTakes ==
  ASSUME Shape, [Next]_vars, ~(ToSet(owed) \subseteq ToSet(owed'))
  PROVE  \E p \in BlockPhases : RunBlock(p) /\ Top.mode \in InMode[Head(Top.todo)]
<1>1. CASE UNCHANGED owed
  BY <1>1
<1>2. ASSUME NEW t \in Threads, BeginCall(t)
      PROVE  FALSE
  <2>1. PICK c \in Program[t][done[t] + 1] : FirstHalf(c)
    BY <1>2 DEF BeginCall
  <2>2. c \in Calls
    BY <1>2, CallOfProgram DEF BeginCall, Shape
  <2>3. c.op = "block" /\ PerformBlock(c.block)
    BY <1>1, <2>1 DEF FirstHalf, Signal, Post, Stop, StopMode, RemoveSource, Invalidate,
                      InvalidateObserver, Run, history
  <2>4. owed \in Seq(Blocks) /\ c.block \in Blocks /\ owed' = Append(owed, c.block)
    BY <2>2, <2>3, CallArguments DEF PerformBlock, Shape, TypeOK
  <2>5. ToSet(owed) \subseteq ToSet(owed')
    BY <2>4, AppendProperties, LenProperties DEF ToSet
  <2> QED BY <2>5
<1>3. CASE LoopStep
  <2>1. ASSUME \A p \in BlockPhases : ~RunBlock(p)
        PROVE  UNCHANGED owed
    BY <1>3, <2>1, AfterBlocksDomain
       DEF LoopStep, DoObservers, CallObserver, ObserversDone, DoBlocks, PutBack, StartRun,
           ScanSource, DoSources0, PerformSource, SourcesDone, Wait, Awaken, Handle, DoSource1,
           Decide, Return, history
  <2>2. PICK p \in BlockPhases : RunBlock(p)
    BY <1>1, <2>1
  <2> QED BY <1>1, <2>2 DEF RunBlock
<1>4. CASE ~LoopStep /\ ~(\E t \in Threads : BeginCall(t))
  BY <1>1, <1>4 DEF Next, FinishCall, SecondHalf, AddSource, AddObserver, RemoveFromModes,
                    RemoveObserver, Elapse, Timeout, TimeoutWake, vars, history
<1> QED BY <1>2, <1>3, <1>4

(* A block is run after those handed to the loop before it for this mode.   *)
LEMMA BlockIsInOrder ==
  ASSUME Shape, Shape', OwedListed, [Next]_vars, NEW b \in ToSet(owed) \ ToSet(owed')
  PROVE  LET i == CHOOSE i \in DOMAIN owed : owed[i] = b IN
           \A j \in 1..(i - 1) : Top.mode \notin InMode[owed[j]]
<1>1. PICK p \in BlockPhases : RunBlock(p) /\ Top.mode \in InMode[Head(Top.todo)]
  BY OnlyRunBlockTakes
<1> DEFINE k == Len(Top.kept)
           x == Head(Top.todo)
<1>2. /\ owed' = RemoveFirst(owed, x)
      /\ k + 1 \in 1..Len(owed) /\ owed[k + 1] = x
      /\ \A i \in 1..k : Top.mode \notin InMode[owed[i]]
  BY <1>1, BlockIsFirst
<1>3. owed \in Seq(Blocks) /\ Len(owed) \in Nat /\ DOMAIN owed = 1..Len(owed)
      /\ k \in Nat
  BY <1>1, BlockList, LenProperties DEF RunBlock, Serving, Shape, TypeOK
<1> HIDE DEF k, x
<1>4. \A i \in 1..Len(owed) : i # k + 1 => owed[i] \in ToSet(owed')
  <2>1. \A j \in 1..((k + 1) - 1) : owed[j] # x
    BY <1>1, <1>2, <1>3 DEF x
  <2>2. owed' = SubSeq(owed, 1, (k + 1) - 1) \o SubSeq(owed, (k + 1) + 1, Len(owed))
    BY <1>2, <1>3, <2>1, RemoveFirstProperties
  <2> QED BY <1>2, <1>3, <2>2, RemovedElements
<1>5. \A i \in DOMAIN owed : owed[i] = b => i = k + 1
  BY <1>3, <1>4
<1>6. \E i \in DOMAIN owed : owed[i] = b
  BY DEF ToSet
<1>7. (CHOOSE i \in DOMAIN owed : owed[i] = b) = k + 1
  BY <1>5, <1>6
<1>8. (k + 1) - 1 = k
  BY <1>3
<1> QED BY <1>2, <1>7, <1>8

(* A block is run once, and after all blocks for this mode that were handed *)
(* to the loop before it, whatever modes ran in between.                    *)
THEOREM RunLoopBlocksInOrder == "block" \notin Nesting /\ Spec => BlocksInOrder
<1>1. Shape /\ Shape' /\ OwedListed /\ [Next]_vars =>
        [\A b \in ToSet(owed) \ ToSet(owed') :
           LET i == CHOOSE i \in DOMAIN owed : owed[i] = b IN
             \A j \in 1..(i - 1) : Top.mode \notin InMode[owed[j]]]_vars
  BY BlockIsInOrder
<1> QED BY <1>1, RunLoopShape, OwedIsListed, PTL DEF Spec, BlocksInOrder

-----------------------------------------------------------------------------
(* Wakeups.  A run that is not robbed of one is alert: the wakeup port can  *)
(* be read, or the run looks at everything again before it may block, or it *)
(* has yet to look at the sources and blocks it was woken for, and a stop   *)
(* and a time-out have their wakeups to come.                               *)

(* On its way to the end of an iteration, or to a poll.                     *)
LooksAgain(run) ==
  \/ run.phase \in {"Entry", "start", "waking", "AfterWaiting", "handle", "source1",
                    "blocks2", "blocks3", "decide", "Exit"}
  \/ run.phase \in {"BeforeWaiting", "asleep"} /\ run.poll
  \/ /\ run.phase = "sources" /\ run.handled
     /\ \/ run.at = "callout" /\ (run.single \/ Len(run.todo) = 1)
        \/ run.at = "list" /\ run.todo = <<>>

(* The run is yet to perform the source, if it is signalled.                *)
SourceSeen(run, s) ==
  \/ run.phase \in {"BeforeTimers", "BeforeSources", "blocks1"}
  \/ /\ run.phase = "sources"
     /\ \/ run.at = "begin" /\ s \in run.scan \cup run.found
        \/ run.at = "list" /\ s \in ToSet(run.todo)
        \/ run.at = "callout" /\ s \in ToSet(Tail(run.todo))

(* The run is yet to take the list of blocks.                               *)
LooksForBlocks(run) ==
  \/ run.phase \in {"BeforeTimers", "BeforeSources"}
  \/ run.phase = "blocks1" /\ run.at = "begin"

Alert(run, from, ready, given, stops, wakes, late) ==
  \/ LooksAgain(run)
  \/ /\ \A s \in ready : s \in from[run.mode] => SourceSeen(run, s)
     /\ LooksForBlocks(run) \/ \A b \in given : run.mode \notin InMode[b]
     /\ run.stopped \/ run.mode \in stops => wakes # {}
     /\ run.phase \in {"BeforeWaiting", "asleep"} /\ run.term = "zero" => late > 0

(* The sources and blocks of which CFRunLoopWakeUp told, and the threads    *)
(* that are about to call it after a stop.                                  *)
Ready       == Manual \cap valid \cap Signaled \cap announced
Given       == announced \cap ToSet(blocks)
GivenAround == announced \cap ToSet(owed)
WakesToCome == {t \in Threads : call[t].op = "wake"}

Wakeful ==
  \/ WakePort \in readable
  \/ \A d \in DOMAIN runs \ robbed :
       Alert(runs[d], sources, Ready, IF d = Len(runs) THEN Given ELSE GivenAround,
             modeStopped, WakesToCome, lateWakes)

(* Sources that were signalled stay so until they are performed.            *)
AnnouncedSignaled == announced \cap Manual \cap valid \subseteq Signaled

(* A run stays alert in a world where there is not more to see.             *)
LEMMA AlertKept ==
  ASSUME NEW run, NEW next, NEW from, NEW from2, NEW ready, NEW ready2, NEW given, NEW given2,
         NEW stops, NEW stops2, NEW wakes, NEW wakes2, NEW late, NEW late2,
         Alert(run, from, ready, given, stops, wakes, late),
         SameWork(next, run),
         next.stopped => run.stopped \/ wakes2 # {},
         next.term = "zero" => run.term = "zero" \/ late2 > 0,
         \A s \in ready2 : s \in from2[run.mode] => s \in ready /\ s \in from[run.mode],
         given2 \subseteq given,
         run.mode \in stops2 => run.mode \in stops \/ wakes2 # {},
         wakes # {} => wakes2 # {},
         late > 0 => late2 > 0
  PROVE  Alert(next, from2, ready2, given2, stops2, wakes2, late2)
<1>1. CASE LooksAgain(run)
  BY <1>1 DEF Alert, LooksAgain, SameWork
<1>2. CASE ~LooksAgain(run)
  <2>1. \A s : SourceSeen(run, s) <=> SourceSeen(next, s)
    BY DEF SourceSeen, SameWork
  <2>2. LooksForBlocks(run) <=> LooksForBlocks(next)
    BY DEF LooksForBlocks, SameWork
  <2>3. next.mode = run.mode /\ next.phase = run.phase
    BY DEF SameWork
  <2> QED BY <1>2, <2>1, <2>2, <2>3 DEF Alert
<1> QED BY <1>1, <1>2

(* The places below the last one are places.                                *)
LEMMA PlaceBelow ==
  ASSUME NEW n \in Nat, NEW d \in 1..(n - 1)
  PROVE  d \in 1..n /\ d # n /\ n # 0
OBVIOUS

(* A run around the innermost one is not robbed only if it looks again.     *)
LEMMA NotRobbedLooksAgain ==
  ASSUME Shape, Stacked, "block" \notin Nesting, NEW d \in 1..(Len(runs) - 1), d \notin Robbed
  PROVE  LooksAgain(runs[d])
<1>0. Len(runs) \in Nat /\ DOMAIN runs = 1..Len(runs)
  BY StackLengths
<1>1. d \in DOMAIN runs
  BY <1>0, PlaceBelow
<1>2. /\ runs[d].at = "callout" /\ Kind(runs[d]) \in Nesting /\ RunOK(runs[d])
      /\ ~MaySleepNext(runs[d]) /\ runs[d] \in RunType
  BY <1>0, <1>1, ElementOfSeq DEF Stacked, Shape, TypeOK, Robbed
<1>3. Kind(runs[d]) = "source"
  BY <1>2, KindOf DEF MaySleepNext
<1>4. runs[d].phase \in {"sources", "source1"}
  BY <1>3, KindOf
<1>5. CASE runs[d].phase = "sources"
  <2>1. runs[d].handled /\ runs[d].todo # <<>> /\ runs[d].todo \in Seq(Manual)
    BY <1>2, <1>5 DEF RunOK, FlagsOK, ListOK
  <2>2. Len(runs[d].todo) \in Nat /\ Len(runs[d].todo) # 0
    BY <2>1, EmptySeq, LenProperties
  <2>3. \A n \in Nat : n # 0 /\ ~(n > 1) => n = 1
    OBVIOUS
  <2>4. runs[d].single \/ Len(runs[d].todo) = 1
    BY <1>2, <1>5, <2>2, <2>3, Zenon DEF MaySleepNext
  <2> QED BY <1>2, <1>5, <2>1, <2>4 DEF LooksAgain
<1> QED BY <1>4, <1>5 DEF LooksAgain

(* The innermost run looks again while it ignores wakeups.                  *)
LEMMA IgnoringLooksAgain ==
  ASSUME Shape, Running, Top.ignoring
  PROVE  LooksAgain(Top)
BY TopIsRun DEF RunOK, FlagsOK, LooksAgain

(* A wakeup leaves the loop alert: its port can be read, or the innermost   *)
(* run ignores it because it looks again, and the others are robbed of it.  *)
LEMMA WakeUpKeepsAlert ==
  ASSUME Shape, Stacked, "block" \notin Nesting, WakeUp, UNCHANGED runs
  PROVE  Wakeful'
<1>1. CASE ~IgnoresWakeUps
  BY <1>1 DEF WakeUp, Wakeful
<1>2. CASE ~Running
  <2>1. DOMAIN runs = {}
    BY <1>2, LenProperties, EmptySeq DEF Running
  <2> QED BY <2>1 DEF Wakeful
<1>3. CASE Running /\ Top.ignoring
  <2>1. /\ Len(runs) \in Nat \ {0} /\ DOMAIN runs = 1..Len(runs)
        /\ robbed' = robbed \cup Robbed
    BY <1>3, TopIsRun DEF WakeUp
  <2>2. \A d \in DOMAIN runs \ robbed' : LooksAgain(runs[d])
    BY <1>3, <2>1, TopOrBelow, NotRobbedLooksAgain, IgnoringLooksAgain DEF Top
  <2> QED BY <2>2 DEF Wakeful, Alert
<1> QED BY <1>1, <1>2, <1>3 DEF IgnoresWakeUps

(* Steps that give the runs nothing more to see.                            *)
Calmer ==
  /\ \A m \in Modes : Ready' \cap sources'[m] \subseteq Ready \cap sources[m]
  /\ GivenAround' \subseteq GivenAround
  /\ modeStopped' \subseteq modeStopped \/ WakesToCome' # {}
  /\ WakesToCome # {} => WakesToCome' # {}
  /\ lateWakes > 0 => lateWakes' > 0
  /\ WakePort \in readable => WakePort \in readable'

(* Such a step keeps the loop alert if it leaves their work to the runs.    *)
LEMMA AlertByKeepsWork ==
  ASSUME Shape, Shape', Wakeful, Calmer, KeepsWork, Given' \subseteq Given,
         \A d \in DOMAIN runs :
           /\ d \notin robbed' => d \notin robbed
           /\ runs'[d].stopped => runs[d].stopped \/ WakesToCome' # {}
           /\ runs'[d].term = "zero" => runs[d].term = "zero" \/ lateWakes' > 0
  PROVE  Wakeful'
<1>1. CASE WakePort \in readable
  BY <1>1 DEF Calmer, Wakeful
<1>2. CASE WakePort \notin readable
  <2>1. Len(runs') = Len(runs) /\ DOMAIN runs' = DOMAIN runs
    BY LenProperties DEF Shape, TypeOK, KeepsWork
  <2>2. ASSUME NEW d \in DOMAIN runs' \ robbed'
        PROVE  Alert(runs'[d], sources', Ready', IF d = Len(runs') THEN Given' ELSE GivenAround',
                     modeStopped', WakesToCome', lateWakes')
    <3>1. Alert(runs[d], sources, Ready, IF d = Len(runs) THEN Given ELSE GivenAround,
                modeStopped, WakesToCome, lateWakes)
      BY <1>2, <2>1, <2>2 DEF Wakeful
    <3>2. SameWork(runs'[d], runs[d])
      BY <2>1, <2>2 DEF KeepsWork
    <3>3. runs[d].mode \in Modes
      <4>1. runs \in Seq(RunType) /\ d \in 1..Len(runs)
        BY <2>1, <2>2, StackLengths DEF Shape, TypeOK
      <4>2. runs[d] \in RunType
        BY <4>1, ElementOfSeq
      <4> QED BY <4>2 DEF RunType
    <3>4. (IF d = Len(runs') THEN Given' ELSE GivenAround')
            \subseteq (IF d = Len(runs) THEN Given ELSE GivenAround)
      BY <2>1 DEF Calmer
    <3>5. \A s \in Ready' : s \in sources'[runs[d].mode] => s \in Ready /\ s \in sources[runs[d].mode]
      BY <3>3 DEF Calmer
    <3>6. /\ runs'[d].stopped => runs[d].stopped \/ WakesToCome' # {}
          /\ runs'[d].term = "zero" => runs[d].term = "zero" \/ lateWakes' > 0
          /\ runs[d].mode \in modeStopped' => runs[d].mode \in modeStopped \/ WakesToCome' # {}
          /\ WakesToCome # {} => WakesToCome' # {}
          /\ lateWakes > 0 => lateWakes' > 0
      BY <2>1, <2>2 DEF Calmer
    <3> HIDE DEF Ready, Given, GivenAround, WakesToCome
    <3> QED BY <3>1, <3>2, <3>4, <3>5, <3>6, AlertKept
  <2> QED BY <2>2 DEF Wakeful
<1> QED BY <1>1, <1>2


(* Steps of the loop's thread give the runs nothing more to see, except     *)
(* that it reads the wakeup port when it wakes up.                          *)
LEMMA LoopStepQuiet ==
  ASSUME Shape, LoopStep
  PROVE  /\ UNCHANGED <<sources, call, lateWakes>>
         /\ Ready' \subseteq Ready
         /\ GivenAround' \subseteq GivenAround
         /\ modeStopped' \subseteq modeStopped
         /\ Wait \/ UNCHANGED readable
         /\ Wait \/ Awaken \/ UNCHANGED robbed
<1>1. UNCHANGED <<sources, call, lateWakes>>
  BY AfterBlocksDomain
     DEF LoopStep, DoObservers, CallObserver, ObserversDone, DoBlocks, RunBlock, PutBack, StartRun,
         ScanSource, DoSources0, PerformSource, SourcesDone, Wait, Awaken, Handle, DoSource1,
         Decide, Return, itemVars
<1>2. valid' \subseteq valid
  BY AfterBlocksDomain
     DEF LoopStep, DoObservers, CallObserver, ObserversDone, DoBlocks, RunBlock, PutBack, StartRun,
         ScanSource, DoSources0, PerformSource, SourcesDone, Wait, Awaken, Handle, DoSource1,
         Decide, Return, ReturnFromObserver, itemVars
<1>3. UNCHANGED signals \/ \E s : signals' = WithoutSignal(s)
  BY AfterBlocksDomain
     DEF LoopStep, DoObservers, CallObserver, ObserversDone, DoBlocks, RunBlock, PutBack, StartRun,
         ScanSource, DoSources0, PerformSource, SourcesDone, Wait, Awaken, Handle, DoSource1,
         Decide, Return, itemVars
<1>4. Signaled' \subseteq Signaled
  BY <1>3, WithoutSignalType DEF Signaled
<1>5. announced' \subseteq announced
  BY AfterBlocksDomain
     DEF LoopStep, DoObservers, CallObserver, ObserversDone, DoBlocks, RunBlock, PutBack, StartRun,
         ScanSource, DoSources0, PerformSource, SourcesDone, Wait, Awaken, Handle, DoSource1,
         Decide, Return, history
<1>6. UNCHANGED owed \/ \E b : owed' = RemoveFirst(owed, b)
  BY AfterBlocksDomain
     DEF LoopStep, DoObservers, CallObserver, ObserversDone, DoBlocks, RunBlock, PutBack, StartRun,
         ScanSource, DoSources0, PerformSource, SourcesDone, Wait, Awaken, Handle, DoSource1,
         Decide, Return, history
<1>7. ToSet(owed') \subseteq ToSet(owed)
  BY <1>6, RemoveFirstElements DEF Shape, TypeOK
<1>8. modeStopped' \subseteq modeStopped
  BY AfterBlocksDomain
     DEF LoopStep, DoObservers, CallObserver, ObserversDone, DoBlocks, RunBlock, PutBack, StartRun,
         ScanSource, DoSources0, PerformSource, SourcesDone, Wait, Awaken, Handle, DoSource1,
         Decide, Return
<1>9. Wait \/ UNCHANGED readable
  BY AfterBlocksDomain
     DEF LoopStep, DoObservers, CallObserver, ObserversDone, DoBlocks, RunBlock, PutBack, StartRun,
         ScanSource, DoSources0, PerformSource, SourcesDone, Awaken, Handle, DoSource1,
         Decide, Return
<1>10. Wait \/ Awaken \/ UNCHANGED robbed
  BY AfterBlocksDomain
     DEF LoopStep, DoObservers, CallObserver, ObserversDone, DoBlocks, RunBlock, PutBack, StartRun,
         ScanSource, DoSources0, PerformSource, SourcesDone, Handle, DoSource1,
         Decide, Return, history
<1> QED BY <1>1, <1>2, <1>4, <1>5, <1>7, <1>8, <1>9, <1>10 DEF Ready, GivenAround

(* It keeps the loop alert if it keeps its innermost run alert.             *)
LEMMA AlertByTopStep ==
  ASSUME Shape, Shape', Wakeful, LoopStep, TopStep,
         \A d \in 1..(Len(runs) - 1) : d \notin robbed' => d \notin robbed,
         WakePort \in readable => WakePort \in readable',
         Len(runs) \notin robbed' /\ WakePort \notin readable =>
           Alert(Top', sources', Ready', Given', modeStopped', WakesToCome', lateWakes')
  PROVE  Wakeful'
<1>1. CASE WakePort \in readable
  BY <1>1 DEF Wakeful
<1>2. CASE WakePort \notin readable
  <2>1. /\ Len(runs) \in Nat /\ DOMAIN runs = 1..Len(runs) /\ DOMAIN runs' = 1..Len(runs)
        /\ Len(runs') = Len(runs) /\ runs \in Seq(RunType)
    BY LenProperties DEF Shape, TypeOK, TopStep
  <2>2. /\ sources' = sources /\ lateWakes' = lateWakes /\ WakesToCome' = WakesToCome
        /\ Ready' \subseteq Ready /\ GivenAround' \subseteq GivenAround
        /\ modeStopped' \subseteq modeStopped
    BY LoopStepQuiet DEF WakesToCome
  <2>3. ASSUME NEW d \in 1..(Len(runs) - 1), d \notin robbed'
        PROVE  Alert(runs'[d], sources', Ready', GivenAround', modeStopped', WakesToCome', lateWakes')
    <3>1. runs'[d] = runs[d] /\ d \in DOMAIN runs \ robbed /\ d # Len(runs)
      BY <2>1, <2>3, PlaceBelow DEF TopStep
    <3>2. Alert(runs[d], sources, Ready, GivenAround, modeStopped, WakesToCome, lateWakes)
      BY <1>2, <3>1 DEF Wakeful
    <3>3. SameWork(runs[d], runs[d])
      BY DEF SameWork
    <3> HIDE DEF Ready, GivenAround, WakesToCome
    <3> QED BY <2>2, <3>1, <3>2, <3>3, AlertKept
  <2>4. ASSUME NEW d \in DOMAIN runs' \ robbed'
        PROVE  Alert(runs'[d], sources', Ready', IF d = Len(runs') THEN Given' ELSE GivenAround',
                     modeStopped', WakesToCome', lateWakes')
    <3>1. CASE d = Len(runs)
      BY <1>2, <2>1, <2>4, <3>1 DEF Top
    <3>2. CASE d \in 1..(Len(runs) - 1)
      BY <2>1, <2>3, <2>4, <3>2, PlaceBelow
    <3> QED BY <2>1, <2>4, <3>1, <3>2, TopOrBelow
  <2> QED BY <2>4 DEF Wakeful
<1> QED BY <1>1, <1>2

(* What the innermost run has to see, while the port cannot be read.        *)
LEMMA TopIsAlert ==
  ASSUME Shape, Wakeful, Running, Len(runs) \notin robbed, WakePort \notin readable
  PROVE  Alert(Top, sources, Ready, Given, modeStopped, WakesToCome, lateWakes)
BY TopIsRun DEF Wakeful, Top

(* The run after entering a phase.                                          *)
LEMMA EnteredRun ==
  ASSUME NEW run \in RunType, NEW phase
  PROVE  /\ Entered(run, phase).mode = run.mode
         /\ Entered(run, phase).term = run.term
         /\ Entered(run, phase).stopped = run.stopped
         /\ Entered(run, phase).handled = run.handled
         /\ Entered(run, phase).found = run.found
         /\ Entered(run, phase).phase = phase
         /\ Entered(run, phase).at = "begin"
         /\ phase = "sources" => Entered(run, phase).scan = sources[run.mode] \cap Manual
         /\ phase = "BeforeWaiting" => Entered(run, phase).poll = (run.handled \/ run.term = "zero")
BY DEF Entered, RunType


TopAlert == Alert(Top, sources, Ready, Given, modeStopped, WakesToCome, lateWakes)

(* A run that goes on and sees as much as before stays alert.               *)
LEMMA AlertGoesOn ==
  ASSUME NEW run, NEW next, NEW from, NEW ready, NEW ready2, NEW given, NEW given2,
         NEW stops, NEW stops2, NEW wakes, NEW late,
         Alert(run, from, ready, given, stops, wakes, late),
         next.mode = run.mode, next.stopped => run.stopped, next.term = run.term,
         LooksAgain(run) => LooksAgain(next),
         \A s \in ready2 : SourceSeen(run, s) => SourceSeen(next, s),
         LooksForBlocks(run) => LooksForBlocks(next) \/ given2 = {},
         next.phase \in {"BeforeWaiting", "asleep"} => run.phase \in {"BeforeWaiting", "asleep"},
         ready2 \subseteq ready, given2 \subseteq given, stops2 \subseteq stops
  PROVE  Alert(next, from, ready2, given2, stops2, wakes, late)
BY DEF Alert

(* The same for a step of the loop's thread.                                *)
LEMMA TopGoesOn ==
  ASSUME Shape, LoopStep, TopAlert, Given' \subseteq Given,
         Top'.mode = Top.mode, Top'.stopped => Top.stopped, Top'.term = Top.term,
         LooksAgain(Top) => LooksAgain(Top'),
         \A s \in Ready' : SourceSeen(Top, s) => SourceSeen(Top', s),
         LooksForBlocks(Top) => LooksForBlocks(Top') \/ Given' = {},
         Top'.phase \in {"BeforeWaiting", "asleep"} => Top.phase \in {"BeforeWaiting", "asleep"}
  PROVE  TopAlert'
<1>1. /\ sources' = sources /\ lateWakes' = lateWakes /\ WakesToCome' = WakesToCome
      /\ Ready' \subseteq Ready /\ modeStopped' \subseteq modeStopped
  BY LoopStepQuiet DEF WakesToCome
<1> HIDE DEF Ready, Given, WakesToCome
<1> QED BY <1>1, AlertGoesOn DEF TopAlert

(* Steps that add no blocks and tell of none.                               *)
LEMMA GivenKept ==
  ASSUME Shape, LoopStep, \A p \in BlockPhases : ~PutBack(p)
  PROVE  Given' \subseteq Given
<1>1. UNCHANGED blocks \/ blocks' = <<>>
  BY AfterBlocksDomain
     DEF LoopStep, DoObservers, CallObserver, ObserversDone, DoBlocks, RunBlock, StartRun,
         ScanSource, DoSources0, PerformSource, SourcesDone, Wait, Awaken, Handle, DoSource1,
         Decide, Return
<1>2. announced' \subseteq announced
  BY AfterBlocksDomain
     DEF LoopStep, DoObservers, CallObserver, ObserversDone, DoBlocks, RunBlock, PutBack, StartRun,
         ScanSource, DoSources0, PerformSource, SourcesDone, Wait, Awaken, Handle, DoSource1,
         Decide, Return, history
<1>3. ToSet(<<>>) = {}
  BY EmptySeq, LenProperties DEF ToSet
<1> QED BY <1>1, <1>2, <1>3 DEF Given

(* A run within an activity sees what it saw before.                        *)
LEMMA ActivityGoesOn ==
  ASSUME Shape, LoopStep, TopAlert, \A p \in BlockPhases : ~PutBack(p),
         Top.phase \in Activities, Top'.phase = Top.phase,
         Top'.mode = Top.mode, Top'.stopped = Top.stopped, Top'.term = Top.term,
         Top'.poll = Top.poll
  PROVE  TopAlert'
<1>1. LooksAgain(Top) => LooksAgain(Top')
  BY DEF LooksAgain, Activities
<1>2. \A s : SourceSeen(Top, s) => SourceSeen(Top', s)
  BY DEF SourceSeen, Activities
<1>3. LooksForBlocks(Top) => LooksForBlocks(Top')
  BY DEF LooksForBlocks, Activities
<1> QED BY <1>1, <1>2, <1>3, GivenKept, TopGoesOn

(* The next phase after an activity.                                        *)
LEMMA EnterAfterAlert ==
  ASSUME Shape, LoopStep, TopAlert, \A p \in BlockPhases : ~PutBack(p), Running,
         NEW a \in Activities \ {"Exit"}, Top.phase = a, EnterAfter(a)
  PROVE  TopAlert'
<1>1. Top \in RunType
  BY TopIsRun
<1>2. CASE a = "BeforeWaiting"
  <2> DEFINE run == [Top EXCEPT !.phase = "asleep", !.at = "list"]
  <2>1. SetTop(run)
    BY <1>2 DEF EnterAfter
  <2>2. run.phase = "asleep" /\ run.mode = Top.mode /\ run.stopped = Top.stopped
        /\ run.term = Top.term /\ run.poll = Top.poll
    BY <1>1 DEF RunType
  <2> HIDE DEF run
  <2>3. Top' = run
    BY <2>1, SetTopStep
  <2>4. LooksAgain(Top) => LooksAgain(Top')
    BY <1>2, <2>2, <2>3 DEF LooksAgain
  <2>5. ~LooksForBlocks(Top) /\ \A s : ~SourceSeen(Top, s)
    BY <1>2 DEF LooksForBlocks, SourceSeen
  <2> QED BY <1>2, <2>2, <2>3, <2>4, <2>5, GivenKept, TopGoesOn
<1>3. CASE a # "BeforeWaiting"
  <2> DEFINE next == AfterActivity(a)
  <2>1. Enter(Top, next)
    BY <1>3 DEF EnterAfter
  <2>2. Top' = Entered(Top, next)
    BY <1>1, <2>1, EnterTop
  <2>3. Top'.mode = Top.mode /\ Top'.stopped = Top.stopped /\ Top'.term = Top.term
        /\ Top'.phase = next /\ Top'.at = "begin"
    BY <1>1, <2>2, EnteredRun
  <2>4. CASE a \in {"Entry", "AfterWaiting"}
    <3>1. LooksAgain(Top')
      BY <2>3, <2>4 DEF AfterActivity, LooksAgain
    <3> QED BY <3>1 DEF TopAlert, Alert
  <2>5. CASE a \in {"BeforeTimers", "BeforeSources"}
    <3>1. ~LooksAgain(Top)
      BY <2>5 DEF LooksAgain
    <3>2. next \in {"BeforeSources", "blocks1"}
      BY <2>5 DEF AfterActivity
    <3>3. LooksForBlocks(Top') /\ \A s : SourceSeen(Top', s)
      BY <2>3, <3>2 DEF LooksForBlocks, SourceSeen
    <3> QED BY <2>3, <3>1, <3>2, <3>3, GivenKept, TopGoesOn
  <2> QED BY <1>3, <2>4, <2>5 DEF Activities
<1> QED BY <1>2, <1>3

(* Calling the observers of an activity.                                    *)
LEMMA ObserversAlert ==
  ASSUME Shape, LoopStep, TopAlert, ~Pops, NEW a \in Activities,
         DoObservers(a) \/ CallObserver(a) \/ ObserversDone(a)
  PROVE  TopAlert'
<1>1. Running /\ Top \in RunType /\ Top.phase = a /\ Top.at # "callout"
  BY TopIsRun DEF DoObservers, CallObserver, ObserversDone, Serving
<1>2. \A p \in BlockPhases : ~PutBack(p)
  BY <1>1 DEF PutBack, Serving, BlockPhases, Activities
<1>3. ASSUME NEW run, SetTop(run), run.phase = a, run.mode = Top.mode, run.stopped = Top.stopped,
             run.term = Top.term, run.poll = Top.poll
      PROVE  TopAlert'
  BY <1>1, <1>2, <1>3, SetTopStep, ActivityGoesOn
<1>4. ASSUME EnterAfter(a), a # "Exit"
      PROVE  TopAlert'
  BY <1>1, <1>2, <1>4, EnterAfterAlert
<1>5. CASE DoObservers(a)
  <2> DEFINE run == [Top EXCEPT !.at = "list", !.todo = Collected(a)]
  <2>1. SetTop(run) \/ (EnterAfter(a) /\ a # "Exit")
    BY <1>1, <1>5 DEF DoObservers, Pops
  <2>2. run.phase = a /\ run.mode = Top.mode /\ run.stopped = Top.stopped
        /\ run.term = Top.term /\ run.poll = Top.poll
    BY <1>1 DEF RunType
  <2> HIDE DEF run
  <2> QED BY <1>3, <1>4, <2>1, <2>2
<1>6. CASE CallObserver(a)
  <2> DEFINE run1 == [Top EXCEPT !.at = "callout"]
             run2 == [Top EXCEPT !.todo = Tail(@)]
  <2>1. SetTop(run1) \/ SetTop(run2)
    BY <1>6 DEF CallObserver
  <2>2. run1.phase = a /\ run1.mode = Top.mode /\ run1.stopped = Top.stopped
        /\ run1.term = Top.term /\ run1.poll = Top.poll
    BY <1>1 DEF RunType
  <2>3. run2.phase = a /\ run2.mode = Top.mode /\ run2.stopped = Top.stopped
        /\ run2.term = Top.term /\ run2.poll = Top.poll
    BY <1>1 DEF RunType
  <2> HIDE DEF run1, run2
  <2> QED BY <1>3, <2>1, <2>2, <2>3
<1>7. CASE ObserversDone(a)
  <2>1. EnterAfter(a) /\ a # "Exit"
    BY <1>1, <1>7 DEF ObserversDone, Pops
  <2> QED BY <1>4, <2>1
<1> QED BY <1>5, <1>6, <1>7


(* Entering a phase from which the run looks at everything again.           *)
LEMMA EnterLooksAgain ==
  ASSUME Shape, Running, NEW run \in RunType,
         NEW phase \in {"Entry", "start", "waking", "AfterWaiting", "handle", "source1",
                        "blocks2", "blocks3", "decide", "Exit"},
         Enter(run, phase)
  PROVE  TopAlert'
<1>1. Top'.phase = phase
  BY EnterTop
<1> QED BY <1>1 DEF TopAlert, Alert, LooksAgain

(* At the top of the loop a run that is not to end sees everything.         *)
LEMMA TopOfLoopAlert ==
  ASSUME Shape, Running, NEW run \in RunType, Enter(run, "BeforeTimers"),
         ~run.stopped, run.mode \notin modeStopped'
  PROVE  TopAlert'
<1>1. Top' = Entered(run, "BeforeTimers")
  BY EnterTop
<1>2. Top'.phase = "BeforeTimers" /\ Top'.stopped = run.stopped /\ Top'.mode = run.mode
  BY <1>1, EnteredRun
<1>3. LooksForBlocks(Top') /\ \A s : SourceSeen(Top', s)
  BY <1>2 DEF LooksForBlocks, SourceSeen
<1> QED BY <1>2, <1>3 DEF TopAlert, Alert

(* A run starts unless it is to end at once.                                *)
LEMMA StartRunAlert ==
  ASSUME Shape, StartRun
  PROVE  TopAlert'
<1>1. Running /\ Top \in RunType
  BY TopIsRun DEF StartRun, Serving
<1>2. CASE Top.stopped \/ Top.mode \in modeStopped
  <2>1. [Top EXCEPT !.result = "Stopped", !.stopped = FALSE] \in RunType
    BY <1>1 DEF RunType, Results
  <2> QED BY <1>1, <1>2, <2>1, EnterLooksAgain DEF StartRun
<1>3. CASE ~(Top.stopped \/ Top.mode \in modeStopped)
  <2>1. Enter(Top, "BeforeTimers") /\ Top.mode \notin modeStopped'
    BY <1>3 DEF StartRun
  <2> QED BY <1>1, <1>3, <2>1, TopOfLoopAlert
<1> QED BY <1>2, <1>3

(* Going on from the blocks to the sources, no block for the mode left.     *)
LEMMA SourcesAlert ==
  ASSUME Shape, LoopStep, TopAlert, Running, Top.phase = "blocks1",
         NEW run \in RunType, run.mode = Top.mode, run.stopped = Top.stopped,
         Enter(run, "sources"),
         \A b \in Given' : run.mode \notin InMode[b]
  PROVE  TopAlert'
<1>1. Top' = Entered(run, "sources")
  BY EnterTop
<1>2. Top'.phase = "sources" /\ Top'.at = "begin" /\ Top'.stopped = Top.stopped
      /\ Top'.mode = Top.mode /\ Top'.scan = sources[Top.mode] \cap Manual
  BY <1>1, EnteredRun
<1>3. \A s \in Ready' : s \in sources'[Top'.mode] => SourceSeen(Top', s)
  <2>1. sources' = sources
    BY LoopStepQuiet
  <2>2. \A s \in Ready' : s \in Manual
    BY DEF Ready
  <2> QED BY <1>2, <2>1, <2>2 DEF SourceSeen
<1>4. Top.stopped \/ Top.mode \in modeStopped => WakesToCome # {}
  BY DEF TopAlert, Alert, LooksAgain
<1>5. modeStopped' \subseteq modeStopped /\ WakesToCome' = WakesToCome
  BY LoopStepQuiet DEF WakesToCome
<1> HIDE DEF Ready, Given, WakesToCome
<1> QED BY <1>2, <1>3, <1>4, <1>5 DEF TopAlert, Alert

(* A run that walks its list of blocks sees what it saw before.             *)
LEMMA BlocksGoOn ==
  ASSUME Shape, LoopStep, TopAlert, Given' \subseteq Given, Top.phase \in BlockPhases,
         Top'.phase = Top.phase, Top'.at # "begin",
         Top'.mode = Top.mode, Top'.stopped = Top.stopped, Top'.term = Top.term,
         Top.at # "begin" \/ Given' = {}
  PROVE  TopAlert'
<1>1. LooksAgain(Top) => LooksAgain(Top')
  BY DEF LooksAgain, BlockPhases
<1>2. \A s : SourceSeen(Top, s) => SourceSeen(Top', s)
  BY DEF SourceSeen, BlockPhases
<1>3. LooksForBlocks(Top) => Given' = {}
  BY DEF LooksForBlocks, BlockPhases
<1>4. Top'.phase \notin {"BeforeWaiting", "asleep"}
  BY DEF BlockPhases
<1> QED BY <1>1, <1>2, <1>3, <1>4, TopGoesOn

(* The lists of blocks.                                                     *)
LEMMA BlocksAlert ==
  ASSUME Shape, LoopStep, TopAlert, NEW p \in BlockPhases,
         DoBlocks(p) \/ RunBlock(p) \/ PutBack(p)
  PROVE  TopAlert'
<1>1. Running /\ Top \in RunType /\ Top.phase = p /\ RunOK(Top)
  BY TopIsRun DEF DoBlocks, RunBlock, PutBack, Serving
<1>2. ASSUME NEW run \in RunType, run.mode = Top.mode, run.stopped = Top.stopped,
             run.handled = Top.handled, Enter(run, AfterBlocks[p]),
             p = "blocks1" => \A b \in Given' : run.mode \notin InMode[b]
      PROVE  TopAlert'
  <2>1. CASE p = "blocks1"
    <3>1. AfterBlocks[p] = "sources"
      BY <2>1 DEF AfterBlocks
    <3> QED BY <1>1, <1>2, <2>1, <3>1, SourcesAlert
  <2>2. CASE p = "blocks2"
    <3>1. AfterBlocks[p] = "BeforeWaiting"
      BY <2>2 DEF AfterBlocks
    <3>2. Top' = Entered(run, "BeforeWaiting")
      BY <1>1, <1>2, <3>1, EnterTop
    <3>3. Top.handled
      BY <1>1, <2>2 DEF RunOK, FlagsOK
    <3>4. Top'.phase = "BeforeWaiting" /\ Top'.poll = (run.handled \/ run.term = "zero")
      BY <1>2, <3>2, EnteredRun
    <3>5. Top'.poll
      BY <1>2, <3>3, <3>4, Zenon
    <3> QED BY <3>4, <3>5 DEF TopAlert, Alert, LooksAgain
  <2>3. CASE p = "blocks3"
    <3>1. AfterBlocks[p] = "decide"
      BY <2>3 DEF AfterBlocks
    <3> QED BY <1>1, <1>2, <3>1, EnterLooksAgain
  <2> QED BY <2>1, <2>2, <2>3 DEF BlockPhases
<1>3. CASE DoBlocks(p)
  <2>1. Top.at = "begin" /\ blocks' = <<>>
    BY <1>3 DEF DoBlocks, Serving
  <2>2. Given' = {}
    <3>1. ToSet(<<>>) = {}
      BY EmptySeq, LenProperties DEF ToSet
    <3> QED BY <2>1, <3>1 DEF Given
  <2>3. CASE blocks = <<>>
    BY <1>1, <1>2, <1>3, <2>2, <2>3 DEF DoBlocks
  <2>4. CASE blocks # <<>>
    <3> DEFINE run == [Top EXCEPT !.at = "list", !.todo = blocks, !.kept = <<>>]
    <3>1. SetTop(run)
      BY <1>3, <2>4 DEF DoBlocks
    <3>2. run.phase = p /\ run.at # "begin" /\ run.mode = Top.mode
          /\ run.stopped = Top.stopped /\ run.term = Top.term
      BY <1>1 DEF RunType
    <3> HIDE DEF run
    <3>3. Top' = run
      BY <1>1, <3>1, SetTopStep
    <3> QED BY <1>1, <2>2, <3>2, <3>3, BlocksGoOn
  <2> QED BY <2>3, <2>4
<1>4. CASE RunBlock(p)
  <2> DEFINE run1 == [Top EXCEPT !.at = "callout"]
             run2 == [Top EXCEPT !.todo = Tail(@), !.kept = Append(@, Head(Top.todo))]
  <2>1. (SetTop(run1) \/ SetTop(run2)) /\ Top.at = "list" /\ UNCHANGED <<blocks, announced>>
    BY <1>4 DEF RunBlock, Serving
  <2>2. run1.phase = p /\ run1.at # "begin" /\ run1.mode = Top.mode
        /\ run1.stopped = Top.stopped /\ run1.term = Top.term
    BY <1>1 DEF RunType
  <2>3. run2.phase = p /\ run2.at # "begin" /\ run2.mode = Top.mode
        /\ run2.stopped = Top.stopped /\ run2.term = Top.term
    BY <1>1, <2>1 DEF RunType
  <2> HIDE DEF run1, run2
  <2>4. Top' = run1 \/ Top' = run2
    BY <1>1, <2>1, SetTopStep
  <2>5. Given' \subseteq Given
    BY <2>1 DEF Given
  <2> QED BY <1>1, <2>1, <2>2, <2>3, <2>4, <2>5, BlocksGoOn
<1>5. CASE PutBack(p)
  <2> DEFINE run == [Top EXCEPT !.kept = <<>>]
  <2>1. Enter(run, AfterBlocks[p]) /\ Top.at = "list" /\ blocks' = Top.kept \o blocks
        /\ announced' = announced
    BY <1>5 DEF PutBack, Serving, history
  <2>2. run \in RunType /\ run.mode = Top.mode /\ run.stopped = Top.stopped
        /\ run.handled = Top.handled
    BY <1>1, EmptySeq DEF RunType
  <2> HIDE DEF run
  <2>3. ASSUME p = "blocks1", NEW b \in Given'
        PROVE  run.mode \notin InMode[b]
    <3>1. Top.kept \in Seq(Blocks) /\ blocks \in Seq(Blocks)
      BY <1>1, <2>1, BlockList, HeldType
    <3>2. b \in ToSet(Top.kept) \cup ToSet(blocks)
      BY <2>1, <2>3, <3>1, ConcatElements DEF Given
    <3>3. \A c \in ToSet(Top.kept) : Top.mode \notin InMode[c]
      BY <1>1, <2>1 DEF RunOK, ListOK, ToSet
    <3>4. \A c \in Given : Top.mode \notin InMode[c]
      BY <1>1, <2>1, <2>3 DEF TopAlert, Alert, LooksAgain, LooksForBlocks
    <3> QED BY <2>1, <2>2, <2>3, <3>2, <3>3, <3>4 DEF Given
  <2> QED BY <1>2, <2>1, <2>2, <2>3
<1> QED BY <1>3, <1>4, <1>5


(* The sorted list of the sources found has all of them.                    *)
LEMMA SortingsElements ==
  ASSUME NEW set \in SUBSET Manual, NEW list \in Sortings(set)
  PROVE  set \subseteq ToSet(list)
<1> DEFINE n == Cardinality(set)
           D == 1..n
<1>1. IsFiniteSet(set)
  BY FS_Subset, RunLoopConstants DEF Sources
<1>2. n \in Nat
  BY <1>1, FS_CardinalityType
<1>3. IsFiniteSet(D) /\ Cardinality(D) = n
  <2>1. 1 \in Int /\ n \in Int /\ (IF 1 > n THEN 0 ELSE n - 1 + 1) = n
    BY <1>2
  <2> QED BY <2>1, FS_Interval
<1>4. list \in [D -> set] /\ \A i, j \in D : i # j => list[i] # list[j]
  BY DEF Sortings, SetToSeqs
<1> HIDE DEF n, D
<1>5. list \in Injection(D, set)
  BY <1>4 DEF Injection, IsInjective
<1>6. list \in Surjection(D, set)
  BY <1>1, <1>3, <1>5, FS_Injection DEF n
<1>7. \A s \in set : \E i \in D : list[i] = s
  BY <1>6 DEF Surjection
<1> QED BY <1>4, <1>7 DEF ToSet

(* Looking at a source, it is found if it is signalled.                     *)
LEMMA ScanSourceAlert ==
  ASSUME Shape, LoopStep, TopAlert, ScanSource
  PROVE  TopAlert'
<1>1. Running /\ Top \in RunType /\ Top.phase = "sources" /\ Top.at = "begin"
  BY TopIsRun DEF ScanSource, Serving
<1>2. PICK s \in Top.scan :
        SetTop([Top EXCEPT !.scan = @ \ {s},
                           !.found = IF s \in Signaled \cap valid THEN @ \cup {s} ELSE @])
  BY DEF ScanSource
<1> DEFINE found == IF s \in Signaled \cap valid THEN Top.found \cup {s} ELSE Top.found
           run == [Top EXCEPT !.scan = Top.scan \ {s}, !.found = found]
<1>3. run.phase = "sources" /\ run.at = "begin" /\ run.mode = Top.mode /\ run.stopped = Top.stopped
      /\ run.term = Top.term /\ run.scan = Top.scan \ {s} /\ run.found = found
  BY <1>1 DEF RunType
<1>4. SetTop(run)
  BY <1>2
<1> HIDE DEF run
<1>5. Top' = run
  BY <1>1, <1>4, SetTopStep
<1>6. ~LooksAgain(Top) /\ ~LooksForBlocks(Top)
  BY <1>1 DEF LooksAgain, LooksForBlocks
<1>7. ASSUME NEW r \in Ready', SourceSeen(Top, r)
      PROVE  SourceSeen(Top', r)
  <2>1. r \in Top.scan \cup Top.found
    BY <1>1, <1>7 DEF SourceSeen
  <2>2. r \in Signaled /\ r \in valid
    BY <1>7, LoopStepQuiet DEF Ready
  <2>3. r \in Top'.scan \cup Top'.found
    BY <1>3, <1>5, <2>1, <2>2
  <2> QED BY <1>3, <1>5, <2>3 DEF SourceSeen
<1>8. \A p \in BlockPhases : ~PutBack(p)
  BY <1>1 DEF PutBack, Serving, BlockPhases
<1> QED BY <1>1, <1>3, <1>5, <1>6, <1>7, <1>8, GivenKept, TopGoesOn

(* After the sources none is left, and a run that was told to end polls.    *)
LEMMA AfterSourcesAlert ==
  ASSUME Shape, LoopStep, TopAlert, Running, Top.phase = "sources",
         \/ Top.at = "begin" /\ Top.scan = {} /\ Top.found = {}
         \/ Top.at = "list" /\ Top.todo = <<>>,
         NEW run \in RunType, AfterSources(run), run.mode = Top.mode, run.stopped = Top.stopped,
         Top.at = "list" => run.handled = Top.handled
  PROVE  TopAlert'
<1>1. CASE run.handled
  BY <1>1, EnterLooksAgain DEF AfterSources
<1>2. CASE ~run.handled
  <2>1. Top' = Entered(run, "BeforeWaiting")
    BY <1>2, EnterTop DEF AfterSources
  <2>2. Top'.phase = "BeforeWaiting" /\ Top'.mode = Top.mode /\ Top'.stopped = Top.stopped
        /\ Top'.term = run.term
    BY <2>1, EnteredRun
  <2>3. CASE run.term = "zero"
    <3>1. Top'.poll
      BY <2>1, <2>3, EnteredRun, Zenon
    <3> QED BY <2>2, <3>1 DEF TopAlert, Alert, LooksAgain
  <2>4. CASE run.term # "zero"
    <3>1. ~LooksAgain(Top) /\ ~LooksForBlocks(Top)
      BY <1>2 DEF LooksAgain, LooksForBlocks
    <3>2. \A s : ~SourceSeen(Top, s)
      <4>1. ToSet(<<>>) = {}
        BY EmptySeq, LenProperties DEF ToSet
      <4> QED BY <4>1 DEF SourceSeen
    <3>3. \A p \in BlockPhases : ~PutBack(p)
      BY DEF PutBack, Serving, BlockPhases
    <3>4. /\ sources' = sources /\ WakesToCome' = WakesToCome
          /\ Ready' \subseteq Ready /\ modeStopped' \subseteq modeStopped
      BY LoopStepQuiet DEF WakesToCome
    <3>5. Given' \subseteq Given
      BY <3>3, GivenKept
    <3> HIDE DEF Ready, Given, WakesToCome
    <3>6. /\ \A s \in Ready : s \notin sources[Top.mode]
          /\ \A b \in Given : Top.mode \notin InMode[b]
          /\ Top.stopped \/ Top.mode \in modeStopped => WakesToCome # {}
      BY <3>1, <3>2 DEF TopAlert, Alert
    <3> QED BY <2>2, <2>4, <3>4, <3>5, <3>6 DEF TopAlert, Alert
  <2> QED BY <2>3, <2>4
<1> QED BY <1>1, <1>2

(* Collecting the sources found.                                            *)
LEMMA DoSources0Alert ==
  ASSUME Shape, LoopStep, TopAlert, DoSources0
  PROVE  TopAlert'
<1>1. Running /\ Top \in RunType /\ Top.phase = "sources" /\ Top.at = "begin" /\ Top.scan = {}
  BY TopIsRun DEF DoSources0, Serving
<1> DEFINE run == [Top EXCEPT !.found = {}, !.handled = FALSE]
<1>2. run \in RunType /\ run.mode = Top.mode /\ run.stopped = Top.stopped /\ run.phase = "sources"
      /\ run.term = Top.term
  BY <1>1 DEF RunType
<1>3. IF Top.found = {} THEN AfterSources(run)
      ELSE \E list \in Sortings(Top.found) : SetTop([run EXCEPT !.at = "list", !.todo = list])
  BY DEF DoSources0
<1> HIDE DEF run
<1>4. CASE Top.found = {}
  BY <1>1, <1>2, <1>3, <1>4, AfterSourcesAlert
<1>5. CASE Top.found # {}
  <2>1. PICK list \in Sortings(Top.found) : SetTop([run EXCEPT !.at = "list", !.todo = list])
    BY <1>3, <1>5
  <2> DEFINE next == [run EXCEPT !.at = "list", !.todo = list]
  <2>2. next.phase = "sources" /\ next.at = "list" /\ next.todo = list /\ next.mode = Top.mode
        /\ next.stopped = Top.stopped /\ next.term = Top.term
    BY <1>2 DEF RunType
  <2>3. SetTop(next)
    BY <2>1
  <2> HIDE DEF next
  <2>4. Top' = next
    BY <1>1, <2>3, SetTopStep
  <2>5. ~LooksAgain(Top) /\ ~LooksForBlocks(Top)
    BY <1>1 DEF LooksAgain, LooksForBlocks
  <2>6. Top.found \subseteq ToSet(list)
    BY <1>1, SortingsElements DEF RunType
  <2>7. \A s : SourceSeen(Top, s) => SourceSeen(Top', s)
    BY <1>1, <2>2, <2>4, <2>6 DEF SourceSeen
  <2>8. \A p \in BlockPhases : ~PutBack(p)
    BY <1>1 DEF PutBack, Serving, BlockPhases
  <2> QED BY <1>1, <2>2, <2>4, <2>5, <2>7, <2>8, GivenKept, TopGoesOn
<1> QED BY <1>4, <1>5


(* A source that is performed is no longer ready; the others are to come.   *)
LEMMA PerformSourceAlert ==
  ASSUME Shape, LoopStep, TopAlert, PerformSource
  PROVE  TopAlert'
<1> DEFINE s == Head(Top.todo)
           perform == s \in Signaled /\ s \in valid
           run == [Top EXCEPT !.handled = perform,
                              !.at = IF perform THEN "callout" ELSE "list",
                              !.todo = IF perform THEN @ ELSE Tail(@)]
<1>1. Running /\ Top \in RunType /\ Top.phase = "sources" /\ Top.at = "list" /\ Top.todo # <<>>
      /\ RunOK(Top)
  BY TopIsRun DEF PerformSource, Serving
<1>2. SetTop(run) /\ announced' = announced \ {s}
  BY DEF PerformSource
<1>3. run.phase = "sources" /\ run.mode = Top.mode /\ run.stopped = Top.stopped
      /\ run.term = Top.term
      /\ \/ run.at = "callout" /\ run.todo = Top.todo
         \/ run.at = "list" /\ run.todo = Tail(Top.todo)
  BY <1>1 DEF RunType
<1>4. Top.todo \in Seq(Manual)
  BY <1>1 DEF RunOK, ListOK
<1> HIDE DEF run
<1>5. Top' = run
  BY <1>1, <1>2, SetTopStep
<1>6. ~LooksAgain(Top) /\ ~LooksForBlocks(Top)
  BY <1>1 DEF LooksAgain, LooksForBlocks
<1>7. ASSUME NEW r \in Ready', SourceSeen(Top, r)
      PROVE  SourceSeen(Top', r)
  <2>1. r \in ToSet(Top.todo)
    BY <1>1, <1>7 DEF SourceSeen
  <2>2. r # s
    BY <1>2, <1>7 DEF Ready
  <2>3. r \in ToSet(Tail(Top.todo))
    BY <1>1, <1>4, <2>1, <2>2, HeadOrTail
  <2> QED BY <1>3, <1>5, <2>3 DEF SourceSeen
<1>8. \A p \in BlockPhases : ~PutBack(p)
  BY <1>1 DEF PutBack, Serving, BlockPhases
<1> QED BY <1>1, <1>3, <1>5, <1>6, <1>7, <1>8, GivenKept, TopGoesOn

(* The end of the list of sources.                                          *)
LEMMA SourcesDoneAlert ==
  ASSUME Shape, LoopStep, TopAlert, SourcesDone
  PROVE  TopAlert'
<1>1. Running /\ Top \in RunType /\ Top.phase = "sources" /\ Top.at = "list" /\ Top.todo = <<>>
      /\ AfterSources(Top)
  BY TopIsRun DEF SourcesDone, Serving
<1> QED BY <1>1, AfterSourcesAlert

(* A callout returns.                                                       *)
LEMMA ReturnAlert ==
  ASSUME Shape, LoopStep, TopAlert, Return
  PROVE  TopAlert'
<1>1. Running /\ Top \in RunType /\ Top.at = "callout" /\ RunOK(Top)
  BY TopIsRun DEF Return
<1>2. Top.phase \in Activities \cup BlockPhases \cup {"sources", "source1"}
  BY <1>1 DEF RunOK, PlaceOK
<1>3. \A p \in BlockPhases : ~PutBack(p)
  BY <1>1 DEF PutBack, Serving
<1> DEFINE none == [Top EXCEPT !.at = "list", !.todo = <<>>]
           rest == [Top EXCEPT !.at = "list", !.todo = Tail(@)]
<1>4. (CASE Top.phase = "source1" -> Enter(Top, "blocks3")
         [] Top.phase = "sources" /\ Top.single -> SetTop(none)
         [] OTHER -> SetTop(rest))
  BY DEF Return
<1>5. /\ none.phase = Top.phase /\ none.at = "list" /\ none.todo = <<>>
      /\ none.handled = Top.handled
  BY <1>1 DEF RunType
<1>6. /\ rest.phase = Top.phase /\ rest.at = "list" /\ rest.todo = Tail(Top.todo)
      /\ rest.handled = Top.handled /\ rest.poll = Top.poll /\ rest.mode = Top.mode
      /\ rest.stopped = Top.stopped /\ rest.term = Top.term
  BY <1>1 DEF RunType
<1> HIDE DEF none, rest
<1>7. CASE Top.phase = "source1"
  BY <1>1, <1>4, <1>7, EnterLooksAgain
<1>8. CASE Top.phase = "sources" /\ Top.single
  <2>1. SetTop(none)
    BY <1>4, <1>8
  <2>2. Top' = none
    BY <1>1, <2>1, SetTopStep
  <2>3. Top.handled
    BY <1>1, <1>8 DEF RunOK, FlagsOK
  <2>4. LooksAgain(Top')
    BY <1>5, <1>8, <2>2, <2>3 DEF LooksAgain
  <2> QED BY <2>4 DEF TopAlert, Alert
<1>9. CASE Top.phase = "sources" /\ ~Top.single
  <2>1. SetTop(rest)
    BY <1>4, <1>9
  <2>2. Top' = rest
    BY <1>1, <2>1, SetTopStep
  <2>3. Top.handled /\ Top.todo # <<>> /\ Top.todo \in Seq(Manual)
    BY <1>1, <1>9 DEF RunOK, FlagsOK, ListOK
  <2>4. CASE LooksAgain(Top)
    <3>1. Len(Top.todo) = 1
      BY <1>1, <1>9, <2>4 DEF LooksAgain
    <3>2. Tail(Top.todo) = <<>>
      BY <2>3, <3>1, TailOfOne
    <3>3. LooksAgain(Top')
      BY <1>6, <1>9, <2>2, <2>3, <3>2 DEF LooksAgain
    <3> QED BY <3>3 DEF TopAlert, Alert
  <2>5. CASE ~LooksAgain(Top)
    <3>1. \A s : SourceSeen(Top, s) => SourceSeen(Top', s)
      BY <1>1, <1>6, <1>9, <2>2 DEF SourceSeen
    <3>2. ~LooksForBlocks(Top)
      BY <1>9 DEF LooksForBlocks
    <3>3. Top'.phase = "sources" /\ Top'.mode = Top.mode /\ Top'.stopped = Top.stopped
          /\ Top'.term = Top.term
      BY <1>6, <1>9, <2>2
    <3> QED BY <1>3, <2>5, <3>1, <3>2, <3>3, GivenKept, TopGoesOn
  <2> QED BY <2>4, <2>5
<1>10. CASE Top.phase \in Activities \cup BlockPhases
  <2>1. SetTop(rest)
    BY <1>4, <1>10 DEF Activities, BlockPhases
  <2>2. Top' = rest
    BY <1>1, <2>1, SetTopStep
  <2>3. CASE Top.phase \in Activities
    BY <1>3, <1>6, <2>2, <2>3, ActivityGoesOn
  <2>4. CASE Top.phase \in BlockPhases
    <3>1. Given' \subseteq Given
      BY <1>3, GivenKept
    <3> QED BY <1>1, <1>6, <2>2, <2>4, <3>1, BlocksGoOn
  <2> QED BY <1>10, <2>3, <2>4
<1> QED BY <1>2, <1>7, <1>8, <1>9, <1>10

(* From the wait to the end of an iteration the run looks again.            *)
LEMMA AwakeAlert ==
  ASSUME Shape, Wait \/ Awaken \/ Handle \/ DoSource1
  PROVE  TopAlert'
<1>1. Running /\ Top \in RunType
  BY TopIsRun DEF Wait, Awaken, Handle, DoSource1, Serving
<1>2. [Top EXCEPT !.ignoring = TRUE] \in RunType
  BY <1>1 DEF RunType
<1>3. CASE Wait
  <2>1. PICK port : SetTop([Top EXCEPT !.phase = "waking", !.port = port])
    BY <1>3 DEF Wait
  <2> DEFINE run == [Top EXCEPT !.phase = "waking", !.port = port]
  <2>2. run.phase = "waking" /\ SetTop(run)
    BY <1>1, <2>1 DEF RunType
  <2> HIDE DEF run
  <2>3. Top' = run
    BY <1>1, <2>2, SetTopStep
  <2> QED BY <2>2, <2>3 DEF TopAlert, Alert, LooksAgain
<1>4. CASE Awaken
  BY <1>1, <1>2, <1>4, EnterLooksAgain DEF Awaken
<1>5. CASE Handle
  <2>1. \E phase \in {"source1", "blocks3"} : Enter([Top EXCEPT !.ignoring = TRUE], phase)
    BY <1>5 DEF Handle
  <2> QED BY <1>1, <1>2, <2>1, EnterLooksAgain
<1>6. CASE DoSource1
  <2> DEFINE run == [Top EXCEPT !.at = "callout", !.handled = TRUE]
  <2>1. run.phase = "source1"
    BY <1>1, <1>6 DEF RunType, DoSource1, Serving
  <2>2. SetTop(run) \/ Enter(Top, "blocks3")
    BY <1>6 DEF DoSource1
  <2> HIDE DEF run
  <2>3. CASE SetTop(run)
    <3>1. Top' = run
      BY <1>1, <2>3, SetTopStep
    <3> QED BY <2>1, <3>1 DEF TopAlert, Alert, LooksAgain
  <2>4. CASE Enter(Top, "blocks3")
    BY <1>1, <2>4, EnterLooksAgain
  <2> QED BY <2>2, <2>3, <2>4
<1> QED BY <1>3, <1>4, <1>5, <1>6

(* The end of an iteration.                                                 *)
LEMMA DecideAlert ==
  ASSUME Shape, Decide
  PROVE  TopAlert'
<1>1. Running /\ Top \in RunType
  BY TopIsRun DEF Decide, Serving
<1> DEFINE m == Top.mode
           result == CASE Top.handled /\ Top.single -> "HandledSource"
                       [] Top.term \in {"due", "zero"} -> "TimedOut"
                       [] Top.stopped \/ m \in modeStopped -> "Stopped"
                       [] ModeIsEmpty(m) -> "Finished"
                       [] OTHER -> "none"
           last == [Top EXCEPT !.result = result, !.stopped = @ /\ result # "Stopped"]
           next == [Top EXCEPT !.ignoring = FALSE]
<1>2. /\ IF result = "none" THEN Enter(next, "BeforeTimers") ELSE Enter(last, "Exit")
      /\ modeStopped' \subseteq modeStopped
  BY DEF Decide
<1>3. result \in Results
  BY DEF Results
<1>4. result = "none" => ~Top.stopped /\ m \notin modeStopped
  OBVIOUS
<1>5. next \in RunType /\ next.stopped = Top.stopped /\ next.mode = m
  BY <1>1 DEF RunType
<1> HIDE DEF result, next
<1>6. last \in RunType
  BY <1>1, <1>3 DEF RunType
<1> HIDE DEF last
<1>7. CASE result = "none"
  BY <1>1, <1>2, <1>4, <1>5, <1>7, TopOfLoopAlert
<1>8. CASE result # "none"
  BY <1>1, <1>2, <1>6, <1>8, EnterLooksAgain
<1> QED BY <1>7, <1>8


(* A run that returns leaves the run around it alert.                       *)
LEMMA AlertByPop ==
  ASSUME Shape, Shape', Wakeful, OwedListed, LoopStep, Pops
  PROVE  Wakeful'
<1>1. /\ Running /\ Top.phase = "Exit" /\ Len(runs) \in Nat \ {0} /\ DOMAIN runs = 1..Len(runs)
  BY TopIsRun DEF Pops
<1>2. UNCHANGED <<readable, robbed>>
  BY <1>1, LoopStepQuiet DEF Wait, Awaken, Serving
<1>3. CASE WakePort \in readable
  BY <1>2, <1>3 DEF Wakeful
<1>4. CASE WakePort \notin readable
  <2>1. /\ sources' = sources /\ lateWakes' = lateWakes /\ WakesToCome' = WakesToCome
        /\ Ready' \subseteq Ready /\ GivenAround' \subseteq GivenAround
        /\ modeStopped' \subseteq modeStopped
    BY LoopStepQuiet DEF WakesToCome
  <2>2. Given' \subseteq GivenAround
    <3>1. \A p \in BlockPhases : ~PutBack(p)
      BY <1>1 DEF PutBack, Serving, BlockPhases
    <3>2. ToSet(blocks) \subseteq ToSet(owed)
      BY HeldType, ConcatElements DEF OwedListed
    <3> QED BY <3>1, <3>2, GivenKept DEF Given, GivenAround
  <2>3. /\ Len(runs') = Len(runs) - 1 /\ DOMAIN runs' = 1..(Len(runs) - 1)
        /\ \A d \in 1..(Len(runs) - 1) : runs'[d] = runs[d]
    BY StackLengths, LenProperties DEF Shape, TypeOK
  <2>4. ASSUME NEW d \in DOMAIN runs' \ robbed'
        PROVE  Alert(runs'[d], sources', Ready', IF d = Len(runs') THEN Given' ELSE GivenAround',
                     modeStopped', WakesToCome', lateWakes')
    <3>1. d \in DOMAIN runs \ robbed /\ d # Len(runs) /\ runs'[d] = runs[d]
      BY <1>1, <1>2, <2>3, <2>4, PlaceBelow
    <3>2. Alert(runs[d], sources, Ready, GivenAround, modeStopped, WakesToCome, lateWakes)
      BY <1>4, <3>1 DEF Wakeful
    <3>3. SameWork(runs'[d], runs[d])
      BY <3>1 DEF SameWork
    <3>4. (IF d = Len(runs') THEN Given' ELSE GivenAround') \subseteq GivenAround
      BY <2>1, <2>2
    <3> HIDE DEF Ready, Given, GivenAround, WakesToCome
    <3> QED BY <2>1, <3>1, <3>2, <3>3, <3>4, AlertKept
  <2> QED BY <2>4 DEF Wakeful
<1> QED BY <1>3, <1>4

(* A run that starts looks at everything; the one around it holds no block. *)
LEMMA AlertByPush ==
  ASSUME Shape, Shape', Wakeful, OwedListed, "block" \notin Nesting, Pushes,
         robbed' = robbed \ {Len(runs) + 1},
         UNCHANGED <<readable, signals, valid, sources, blocks, modeStopped, lateWakes,
                     announced, owed>>,
         WakesToCome # {} => WakesToCome' # {}
  PROVE  Wakeful'
<1>1. CASE WakePort \in readable
  BY <1>1 DEF Wakeful
<1>2. CASE WakePort \notin readable
  <2>1. PICK m \in Modes, term \in Terms, single \in BOOLEAN :
          /\ Running => Top.at = "callout" /\ Kind(Top) \in Nesting
          /\ runs' = Append(runs, NewRun(m, term, single))
    BY DEF Pushes
  <2>2. /\ Len(runs) \in Nat /\ DOMAIN runs = 1..Len(runs)
        /\ Len(runs') = Len(runs) + 1
        /\ \A d \in 1..Len(runs) : runs'[d] = runs[d]
        /\ runs'[Len(runs) + 1] = NewRun(m, term, single)
    BY <2>1, StackLengths
  <2>3. DOMAIN runs' = 1..(Len(runs) + 1)
    BY <2>2, LenProperties DEF Shape, TypeOK
  <2>4. owed = blocks
    <3>1. Held = <<>>
      BY <2>1, NoneHeldInCallout DEF Held
    <3> QED BY <3>1, HeldType DEF OwedListed
  <2>5. Ready' = Ready /\ Given' = Given /\ GivenAround' = GivenAround /\ Given = GivenAround
    BY <2>4 DEF Ready, Given, GivenAround, Signaled
  <2>6. LooksAgain(runs'[Len(runs) + 1])
    BY <2>2 DEF NewRun, LooksAgain
  <2>7. ASSUME NEW d \in 1..Len(runs), d \notin robbed'
        PROVE  Alert(runs'[d], sources', Ready', GivenAround', modeStopped', WakesToCome', lateWakes')
    <3>1. d \in DOMAIN runs \ robbed /\ runs'[d] = runs[d]
      BY <2>2, <2>7
    <3>2. Alert(runs[d], sources, Ready, GivenAround, modeStopped, WakesToCome, lateWakes)
      BY <1>2, <2>5, <3>1 DEF Wakeful
    <3>3. SameWork(runs[d], runs[d])
      BY DEF SameWork
    <3> HIDE DEF Ready, Given, GivenAround, WakesToCome
    <3> QED BY <2>5, <3>1, <3>2, <3>3, AlertKept
  <2>8. ASSUME NEW d \in DOMAIN runs' \ robbed'
        PROVE  Alert(runs'[d], sources', Ready', IF d = Len(runs') THEN Given' ELSE GivenAround',
                     modeStopped', WakesToCome', lateWakes')
    <3>1. CASE d = Len(runs) + 1
      BY <2>6, <3>1 DEF Alert
    <3>2. CASE d \in 1..Len(runs)
      BY <2>5, <2>7, <2>8, <3>2
    <3> QED BY <2>2, <2>3, <2>8, <3>1, <3>2
  <2> QED BY <2>8 DEF Wakeful
<1> QED BY <1>1, <1>2

(* Every step of the loop's thread keeps the loop alert.                    *)
LEMMA LoopStepAlert ==
  ASSUME Shape, Shape', Stacked, Wakeful, OwedListed, "block" \notin Nesting, LoopStep
  PROVE  Wakeful'
<1>1. CASE Pops
  BY <1>1, AlertByPop
<1>2. CASE ~Pops
  <2>1. TopStep /\ Running
    BY <1>2, PhaseOfTop DEF TopStep
  <2>2. CASE Wait \/ Awaken \/ Handle \/ DoSource1
    <3>1. TopAlert'
      BY <2>2, AwakeAlert
    <3>2. \/ UNCHANGED robbed
          \/ robbed' = robbed \cup Robbed
          \/ robbed' = robbed \ {Len(runs)}
      BY <2>2 DEF Wait, Awaken, Handle, DoSource1, history
    <3>3. \A d \in 1..(Len(runs) - 1) : d \notin robbed' => d \notin robbed
      BY <2>1, <3>2, TopIsRun, PlaceBelow
    <3>4. CASE WakePort \in readable => WakePort \in readable'
      BY <2>1, <3>1, <3>3, <3>4, AlertByTopStep DEF TopAlert
    <3>5. CASE WakePort \in readable /\ WakePort \notin readable'
      <4>1. robbed' = robbed \cup Robbed
        BY <2>2, <3>5 DEF Wait, Awaken, Handle, DoSource1
      <4>2. \A d \in 1..(Len(runs) - 1) : d \notin robbed' => LooksAgain(runs'[d])
        BY <2>1, <4>1, NotRobbedLooksAgain DEF TopStep
      <4>3. /\ Len(runs) \in Nat /\ DOMAIN runs' = 1..Len(runs) /\ Len(runs') = Len(runs)
        BY <2>1, StackLengths, LenProperties DEF Shape, TypeOK, TopStep
      <4>4. ASSUME NEW d \in DOMAIN runs' \ robbed'
            PROVE  Alert(runs'[d], sources', Ready', IF d = Len(runs') THEN Given' ELSE GivenAround',
                         modeStopped', WakesToCome', lateWakes')
        <5>1. CASE d = Len(runs)
          BY <3>1, <4>3, <5>1 DEF TopAlert, Top
        <5>2. CASE d \in 1..(Len(runs) - 1)
          BY <4>2, <4>4, <5>2 DEF Alert
        <5> QED BY <4>3, <4>4, <5>1, <5>2, TopOrBelow
      <4> QED BY <4>4 DEF Wakeful
    <3> QED BY <3>4, <3>5
  <2>3. CASE ~(Wait \/ Awaken \/ Handle \/ DoSource1)
    <3>1. UNCHANGED <<readable, robbed>>
      BY <2>3, LoopStepQuiet
    <3>2. ASSUME TopAlert PROVE TopAlert'
      BY <1>2, <2>3, <3>2, AfterBlocksDomain, ObserversAlert, BlocksAlert, StartRunAlert,
         ScanSourceAlert, DoSources0Alert, PerformSourceAlert, SourcesDoneAlert, ReturnAlert,
         DecideAlert
         DEF LoopStep
    <3>3. Len(runs) \notin robbed' /\ WakePort \notin readable => TopAlert'
      BY <2>1, <3>1, <3>2, TopIsAlert DEF TopAlert
    <3> QED BY <2>1, <3>1, <3>3, AlertByTopStep DEF TopAlert
  <2> QED BY <2>2, <2>3
<1> QED BY <1>1, <1>2


(* A call that is to wake the loop has its wakeup to come; the calls of the *)
(* other threads go on.                                                     *)
LEMMA WakesAfter ==
  ASSUME Shape, NEW t \in Threads, NEW c, Continue(t, c)
  PROVE  /\ c.op = "wake" => WakesToCome' # {}
         /\ call[t].op # "wake" /\ WakesToCome # {} => WakesToCome' # {}
<1>1. \A u \in Threads : call'[u] = IF u = t THEN c ELSE call[u]
  BY DEF Continue, Shape, TypeOK
<1> QED BY <1>1 DEF WakesToCome

(* The halves of calls that neither wake nor stop the loop nor run it give  *)
(* the runs nothing more to see: what is new was not told of.               *)
QuietCall ==
  /\ UNCHANGED <<runs, robbed, modeStopped, lateWakes>>
  /\ \A m \in Modes : Ready' \cap sources'[m] \subseteq Ready \cap sources[m]
  /\ Given' \subseteq Given /\ GivenAround' \subseteq GivenAround
  /\ WakePort \in readable => WakePort \in readable'
  /\ AnnouncedSignaled'

(* The first halves.                                                        *)
LEMMA FirstHalfQuiet ==
  ASSUME Shape, AnnouncedSignaled, NEW c \in Calls, FirstHalf(c),
         c.op \notin {"wake", "stop", "stopMode", "run"}
  PROVE  QuietCall
<1>1. CASE c.op = "signal" /\ Signal(c.source)
  <2>1. Signaled \subseteq Signaled'
    <3>1. c.source \in Sources /\ signals \in Seq(Sources)
      BY <1>1, CallArguments DEF Shape, TypeOK
    <3> QED BY <1>1, <3>1, AppendElements DEF Signal, Signaled
  <2>2. UNCHANGED <<runs, readable, blocks, valid, sources, modeStopped, lateWakes, announced,
                    owed, robbed>>
    BY <1>1 DEF Signal, loopVars, history
  <2>3. Ready' \subseteq Ready
    BY <2>2 DEF AnnouncedSignaled, Ready
  <2> QED BY <2>1, <2>2, <2>3 DEF QuietCall, Given, GivenAround, AnnouncedSignaled
<1>2. CASE c.op = "block" /\ PerformBlock(c.block)
  <2>1. c.block \in Blocks /\ blocks \in Seq(Blocks) /\ owed \in Seq(Blocks)
    BY <1>2, CallArguments DEF Shape, TypeOK
  <2>2. ToSet(blocks') = ToSet(blocks) \cup {c.block} /\ ToSet(owed') = ToSet(owed) \cup {c.block}
    BY <1>2, <2>1, AppendElements DEF PerformBlock
  <2>3. /\ UNCHANGED <<runs, readable, signals, valid, sources, modeStopped, lateWakes, robbed>>
        /\ announced' = announced \ {c.block}
    BY <1>2 DEF PerformBlock, itemVars
  <2> QED BY <2>2, <2>3 DEF QuietCall, Ready, Given, GivenAround, AnnouncedSignaled, Signaled
<1>3. CASE c.op = "invalidate" /\ Invalidate(c.source)
  <2>1. /\ UNCHANGED <<runs, readable, blocks, sources, modeStopped, lateWakes, announced,
                       owed, robbed>>
        /\ valid' = valid \ {c.source}
        /\ signals' = IF c.source \in valid THEN WithoutSignal(c.source) ELSE signals
    BY <1>3 DEF Invalidate, loopVars, history
  <2>2. Signaled' \subseteq Signaled /\ Signaled \ {c.source} \subseteq Signaled'
    BY <2>1, WithoutSignalType DEF Signaled
  <2> QED BY <2>1, <2>2 DEF QuietCall, Ready, Given, GivenAround, AnnouncedSignaled
<1>4. CASE c.op = "remove" /\ RemoveSource(c.source, c.mode)
  <2>1. /\ UNCHANGED <<runs, readable, blocks, signals, valid, modeStopped, lateWakes, announced,
                       owed, robbed>>
        /\ sources' = [sources EXCEPT ![c.mode] = @ \ {c.source}]
    BY <1>4 DEF RemoveSource, loopVars, history
  <2>2. \A m \in Modes : sources'[m] \subseteq sources[m]
    BY <2>1 DEF Shape, TypeOK
  <2> QED BY <2>1, <2>2 DEF QuietCall, Ready, Given, GivenAround, AnnouncedSignaled, Signaled
<1>5. CASE \/ c.op = "unobserve" /\ InvalidateObserver(c.observer)
           \/ c.op = "post" /\ Post(c.source)
           \/ /\ c.op \in {"add", "observe", "wakeLoops"}
              /\ UNCHANGED <<loopVars, itemVars, modeStopped, lateWakes, history>>
  <2>1. /\ UNCHANGED <<runs, blocks, signals, sources, modeStopped, lateWakes, announced,
                       owed, robbed>>
        /\ valid' \subseteq valid
        /\ readable \subseteq readable'
    BY <1>5 DEF InvalidateObserver, Post, loopVars, itemVars, history
  <2> QED BY <2>1 DEF QuietCall, Ready, Given, GivenAround, AnnouncedSignaled, Signaled
<1> QED BY <1>1, <1>2, <1>3, <1>4, <1>5 DEF FirstHalf

(* The second halves.                                                       *)
LEMMA SecondHalfQuiet ==
  ASSUME Shape, AnnouncedSignaled, NEW c \in Calls, SecondHalf(c), c.op # "wake"
  PROVE  QuietCall
<1>1. CASE c.op = "add" /\ AddSource(c.source, c.mode)
  <2>1. /\ UNCHANGED <<runs, readable, blocks, signals, valid, modeStopped, lateWakes, owed, robbed>>
        /\ sources' = [sources EXCEPT ![c.mode] = @ \cup {c.source}]
        /\ announced' = announced \ {c.source}
    BY <1>1 DEF AddSource, loopVars
  <2>2. \A m \in Modes : sources'[m] \subseteq sources[m] \cup {c.source}
    BY <2>1 DEF Shape, TypeOK
  <2> QED BY <2>1, <2>2 DEF QuietCall, Ready, Given, GivenAround, AnnouncedSignaled, Signaled
<1>2. CASE ~(c.op = "add" /\ AddSource(c.source, c.mode))
  <2>1. /\ UNCHANGED <<runs, readable, blocks, signals, valid, modeStopped, lateWakes, announced,
                       owed, robbed>>
        /\ UNCHANGED sources \/ sources' = [m \in Modes |-> sources[m] \ {c.source}]
    BY <1>2 DEF SecondHalf, AddObserver, RemoveFromModes, RemoveObserver, loopVars, history
  <2>2. \A m \in Modes : sources'[m] \subseteq sources[m]
    BY <2>1
  <2> QED BY <2>1, <2>2 DEF QuietCall, Ready, Given, GivenAround, AnnouncedSignaled, Signaled
<1> QED BY <1>1, <1>2

(* CFRunLoopWakeUp tells of what is signalled then.                         *)
LEMMA WakeUpAnnounces ==
  ASSUME Shape, WakeUp, UNCHANGED <<signals, valid>>
  PROVE  AnnouncedSignaled'
<1>1. ToSet(blocks) \cap Manual = {}
  <2>1. ToSet(blocks) \subseteq Blocks
    BY ElementsOfList DEF Shape, TypeOK
  <2> QED BY <2>1, RunLoopConstants DEF Sources
<1> QED BY <1>1 DEF WakeUp, AnnouncedSignaled, Signaled

(* The loop's thread takes only signals it answers.                         *)
LEMMA LoopStepAnnounced ==
  ASSUME Shape, AnnouncedSignaled, LoopStep
  PROVE  AnnouncedSignaled'
<1>1. valid' \subseteq valid
  BY AfterBlocksDomain
     DEF LoopStep, DoObservers, CallObserver, ObserversDone, DoBlocks, RunBlock, PutBack, StartRun,
         ScanSource, DoSources0, PerformSource, SourcesDone, Wait, Awaken, Handle, DoSource1,
         Decide, Return, ReturnFromObserver, itemVars
<1>2. CASE PerformSource
  <2>1. \E s : announced' = announced \ {s} /\ signals' = WithoutSignal(s)
    BY <1>2 DEF PerformSource
  <2>2. \E s : announced' = announced \ {s} /\ Signaled' = Signaled \ {s}
    BY <2>1, WithoutSignalType DEF Signaled
  <2> QED BY <1>1, <2>2 DEF AnnouncedSignaled
<1>3. CASE DoSource1
  <2>1. UNCHANGED signals \/ signals' = WithoutSignal(Top.port)
    BY <1>3 DEF DoSource1
  <2>2. Top.port \notin Manual
    BY <1>3, TopIsRun, RunLoopConstants DEF DoSource1, Serving, RunType, Sources
  <2>3. Signaled \cap Manual \subseteq Signaled'
    BY <2>1, <2>2, WithoutSignalType DEF Signaled
  <2>4. UNCHANGED announced
    BY <1>3 DEF DoSource1, history
  <2> QED BY <1>1, <2>3, <2>4 DEF AnnouncedSignaled
<1>4. CASE ~PerformSource /\ ~DoSource1
  <2>1. UNCHANGED <<signals, announced>>
    BY <1>4, AfterBlocksDomain
       DEF LoopStep, DoObservers, CallObserver, ObserversDone, DoBlocks, RunBlock, PutBack, StartRun,
           ScanSource, DoSources0, SourcesDone, Wait, Awaken, Handle, Decide, Return, itemVars,
           history
  <2> QED BY <1>1, <2>1 DEF AnnouncedSignaled, Signaled
<1> QED BY <1>2, <1>3, <1>4


(* A call begins.                                                           *)
LEMMA BeginCallAlert ==
  ASSUME Shape, Shape', Stacked, Wakeful, AnnouncedSignaled, OwedListed, "block" \notin Nesting,
         NEW t \in Threads, BeginCall(t)
  PROVE  Wakeful' /\ AnnouncedSignaled'
<1>1. PICK c \in Program[t][done[t] + 1] : MayCall(t, c) /\ FirstHalf(c) /\ Continue(t, Rest(c))
  BY DEF BeginCall
<1>2. c \in Calls
  BY <1>1, CallOfProgram DEF BeginCall, Shape
<1>3. call[t].op # "wake"
  BY <1>1 DEF MayCall, NoCall
<1>4. WakesToCome # {} => WakesToCome' # {}
  BY <1>1, <1>3, WakesAfter
<1>5. CASE c.op = "wake"
  <2>1. WakeUp /\ UNCHANGED <<runs, signals, valid>>
    BY <1>1, <1>5 DEF FirstHalf, itemVars
  <2> QED BY <2>1, WakeUpKeepsAlert, WakeUpAnnounces
<1>6. CASE c.op = "run"
  <2>1. Run(c.mode, c.term, c.single)
    BY <1>1, <1>6 DEF FirstHalf
  <2>2. /\ robbed' = robbed \ {Len(runs) + 1}
        /\ UNCHANGED <<readable, signals, valid, sources, blocks, modeStopped, lateWakes,
                       announced, owed>>
    BY <2>1 DEF Run, itemVars
  <2>3. AnnouncedSignaled'
    BY <2>2 DEF AnnouncedSignaled, Signaled
  <2>4. CASE runs' = runs
    <3>1. KeepsWork /\ Calmer /\ Given' \subseteq Given
      BY <1>4, <2>2, <2>4 DEF KeepsWork, SameWork, Calmer, Ready, Given, GivenAround, Signaled
    <3>2. \A d \in DOMAIN runs : d \notin robbed' => d \notin robbed
      <4>1. Len(runs) \in Nat /\ DOMAIN runs = 1..Len(runs)
        BY StackLengths
      <4>2. \A d \in 1..Len(runs) : d # Len(runs) + 1
        BY <4>1
      <4> QED BY <2>2, <4>1, <4>2
    <3> QED BY <2>3, <2>4, <3>1, <3>2, AlertByKeepsWork
  <2>5. CASE runs' # runs
    <3>1. Pushes
      BY <1>1, <1>2, <1>6, <2>1, <2>5, CallArguments DEF Run, MayCall, Pushes
    <3> QED BY <1>4, <2>2, <2>3, <3>1, AlertByPush
  <2> QED BY <2>4, <2>5
<1>7. CASE c.op = "stop"
  <2>1. Stop
    BY <1>1, <1>7 DEF FirstHalf
  <2>2. UNCHANGED <<readable, signals, valid, sources, blocks, modeStopped, lateWakes,
                    announced, owed, robbed>>
    BY <2>1 DEF Stop, itemVars, history
  <2>3. AnnouncedSignaled'
    BY <2>2 DEF AnnouncedSignaled, Signaled
  <2>4. CASE ~Running
    <3>1. runs' = <<>>
      BY <2>1, <2>4 DEF Stop, Running
    <3>2. DOMAIN runs' = {}
      BY <3>1, EmptySeq, LenProperties
    <3> QED BY <2>3, <3>2 DEF Wakeful
  <2>5. CASE Running
    <3>1. WakesToCome' # {}
      BY <1>1, <1>7, <2>5, WakesAfter DEF Rest
    <3>2. Calmer /\ Given' \subseteq Given
      BY <2>2, <3>1 DEF Calmer, Ready, Given, GivenAround, Signaled
    <3>3. KeepsWork
      BY <1>1, <1>2, <1>7, FirstHalfStack
    <3>4. \A d \in DOMAIN runs : runs'[d].term = runs[d].term
      <4> DEFINE run == [Top EXCEPT !.stopped = TRUE]
      <4>1. SetTop(run)
        BY <2>1, <2>5 DEF Stop
      <4>2. run.term = Top.term
        BY <2>5, TopIsRun DEF RunType
      <4> HIDE DEF run
      <4>3. TopStep /\ Top' = run
        BY <2>5, <4>1, SetTopStep
      <4>4. \A d \in DOMAIN runs : d \in 1..(Len(runs) - 1) \/ d = Len(runs)
        BY StackLengths, TopOrBelow
      <4> QED BY <4>2, <4>3, <4>4 DEF TopStep, Top
    <3> HIDE DEF WakesToCome
    <3> QED BY <2>2, <2>3, <3>1, <3>2, <3>3, <3>4, AlertByKeepsWork
  <2> QED BY <2>4, <2>5
<1>8. CASE c.op = "stopMode"
  <2>1. UNCHANGED <<runs, readable, signals, valid, sources, blocks, lateWakes, announced,
                    owed, robbed>>
    BY <1>1, <1>8 DEF FirstHalf, StopMode, loopVars, itemVars, history
  <2>2. WakesToCome' # {}
    BY <1>1, <1>8, WakesAfter DEF Rest
  <2>3. Calmer /\ Given' \subseteq Given /\ KeepsWork /\ AnnouncedSignaled'
    BY <2>1, <2>2
       DEF Calmer, Ready, Given, GivenAround, Signaled, KeepsWork, SameWork, AnnouncedSignaled
  <2> QED BY <2>1, <2>3, AlertByKeepsWork
<1>9. CASE c.op \notin {"wake", "stop", "stopMode", "run"}
  <2>1. QuietCall
    BY <1>1, <1>2, <1>9, FirstHalfQuiet
  <2>2. Calmer /\ KeepsWork
    BY <1>4, <2>1 DEF QuietCall, Calmer, KeepsWork, SameWork
  <2> QED BY <2>1, <2>2, AlertByKeepsWork DEF QuietCall
<1> QED BY <1>5, <1>6, <1>7, <1>8, <1>9

(* A call ends.                                                             *)
LEMMA FinishCallAlert ==
  ASSUME Shape, Shape', Stacked, Wakeful, AnnouncedSignaled, "block" \notin Nesting,
         NEW t \in Threads, FinishCall(t)
  PROVE  Wakeful' /\ AnnouncedSignaled'
<1>1. SecondHalf(call[t]) /\ Continue(t, NoCall) /\ call[t] \in Calls
  BY DEF FinishCall, Shape, TypeOK
<1>2. CASE call[t].op = "wake"
  <2>1. WakeUp /\ UNCHANGED <<runs, signals, valid>>
    BY <1>1, <1>2 DEF SecondHalf, itemVars
  <2> QED BY <2>1, WakeUpKeepsAlert, WakeUpAnnounces
<1>3. CASE call[t].op # "wake"
  <2>1. QuietCall
    BY <1>1, <1>3, SecondHalfQuiet
  <2>2. WakesToCome # {} => WakesToCome' # {}
    BY <1>1, <1>3, WakesAfter
  <2>3. Calmer /\ KeepsWork
    BY <2>1, <2>2 DEF QuietCall, Calmer, KeepsWork, SameWork
  <2> QED BY <2>1, <2>3, AlertByKeepsWork DEF QuietCall
<1> QED BY <1>2, <1>3

(* When a run is to end its wakeup is to come.                              *)
LEMMA TimeAlert ==
  ASSUME Shape, Shape', Wakeful, AnnouncedSignaled, Elapse \/ Timeout
  PROVE  Wakeful' /\ AnnouncedSignaled'
<1>1. PICK i \in DOMAIN runs, term \in Terms :
        runs' = [runs EXCEPT ![i].term = term] /\ (Timeout \/ term = "due")
  BY DEF Elapse, Timeout, Terms
<1>2. UNCHANGED <<readable, signals, valid, sources, blocks, modeStopped, call, announced,
                  owed, robbed>>
  BY DEF Elapse, Timeout, itemVars, history
<1>3. lateWakes \in Nat /\ (lateWakes' = lateWakes \/ lateWakes' = lateWakes + 1)
      /\ (Timeout => lateWakes' = lateWakes + 1)
  BY DEF Elapse, Timeout, Shape, TypeOK
<1>4. (lateWakes > 0 => lateWakes' > 0) /\ (Timeout => lateWakes' > 0)
  BY <1>3
<1>5. Calmer /\ Given' \subseteq Given /\ AnnouncedSignaled'
  BY <1>2, <1>4
     DEF Calmer, Ready, Given, GivenAround, Signaled, WakesToCome, AnnouncedSignaled
<1>6. KeepsWork
  BY <1>1, TermKeepsWork
<1>7. ASSUME NEW d \in DOMAIN runs
      PROVE  /\ runs'[d].stopped = runs[d].stopped
             /\ runs'[d].term = "zero" => runs[d].term = "zero" \/ Timeout
  <2>1. runs \in Seq(RunType) /\ DOMAIN runs = 1..Len(runs)
    BY LenProperties DEF Shape, TypeOK
  <2>2. runs[d] \in RunType
    BY <1>7, <2>1, ElementOfSeq
  <2>3. runs'[d] = IF d = i THEN [runs[d] EXCEPT !.term = term] ELSE runs[d]
    BY <1>1
  <2> QED BY <1>1, <2>2, <2>3 DEF RunType
<1> QED BY <1>2, <1>4, <1>5, <1>6, <1>7, AlertByKeepsWork

(* Every step keeps the loop alert.                                         *)
LEMMA NextWakeful ==
  ASSUME Shape, Shape', Stacked, OwedListed, Wakeful, AnnouncedSignaled, "block" \notin Nesting,
         [Next]_vars
  PROVE  Wakeful' /\ AnnouncedSignaled'
<1>1. CASE \E t \in Threads : BeginCall(t) \/ FinishCall(t)
  BY <1>1, BeginCallAlert, FinishCallAlert
<1>2. CASE LoopStep
  BY <1>2, LoopStepAlert, LoopStepAnnounced
<1>3. CASE Elapse \/ Timeout
  BY <1>3, TimeAlert
<1>4. CASE TimeoutWake
  <2>1. WakeUp /\ UNCHANGED <<runs, signals, valid>>
    BY <1>4 DEF TimeoutWake, itemVars
  <2> QED BY <2>1, WakeUpKeepsAlert, WakeUpAnnounces
<1>5. CASE UNCHANGED vars
  BY <1>5 DEF vars, loopVars, itemVars, threadVars, history, Wakeful, AnnouncedSignaled, Ready,
              Given, GivenAround, WakesToCome, Signaled
<1> QED BY <1>1, <1>2, <1>3, <1>4, <1>5 DEF Next

(* An alert run that may block has nothing left to see.                     *)
LEMMA AlertForgetsNothing ==
  ASSUME Shape, Wakeful, OwedListed
  PROVE  NoWakeupForgotten
<1> SUFFICES ASSUME Asleep, Len(runs) \notin robbed PROVE ~SleepsOnSignal /\ ~SleepsOnStop
  BY DEF NoWakeupForgotten
<1>1. Running /\ Top.phase = "asleep" /\ ~Top.poll /\ WakePort \notin readable
  BY DEF Asleep, PortsOf
<1>2. Alert(Top, sources, Ready, Given, modeStopped, WakesToCome, lateWakes)
  BY <1>1, TopIsAlert
<1>3. ~LooksAgain(Top) /\ ~LooksForBlocks(Top) /\ \A s : ~SourceSeen(Top, s)
  BY <1>1 DEF LooksAgain, LooksForBlocks, SourceSeen
<1>4. owed = blocks
  <2>1. Held = <<>>
    BY <1>1 DEF Held, Pending, BlockPhases
  <2> QED BY <2>1, HeldType DEF OwedListed
<1>5. ~SleepsOnSignal
  <2>1. \A s \in Ready : s \notin sources[Top.mode]
    BY <1>2, <1>3 DEF Alert
  <2>2. \A b \in Given : Top.mode \notin InMode[b]
    BY <1>2, <1>3 DEF Alert
  <2>3. \A i \in DOMAIN owed : owed[i] \in announced => owed[i] \in Given
    BY <1>4 DEF Given, ToSet
  <2> QED BY <2>1, <2>2, <2>3 DEF SleepsOnSignal, Ready
<1>6. ~SleepsOnStop
  <2>1. Top.stopped \/ Top.mode \in modeStopped => WakesToCome # {}
    BY <1>2, <1>3 DEF Alert
  <2>2. Top.term = "zero" => lateWakes > 0
    BY <1>1, <1>2, <1>3 DEF Alert
  <2>3. Top.term = "zero" => lateWakes # 0
    BY <2>2 DEF Shape, TypeOK
  <2> QED BY <2>1, <2>3 DEF SleepsOnStop, WakesToCome
<1> QED BY <1>5, <1>6

(* The loop does not sleep on work it has been woken for, nor when it is to *)
(* end, unless a run in one of its callouts had that wakeup.                *)
THEOREM RunLoopForgetsNoWakeup == "block" \notin Nesting /\ Spec => []NoWakeupForgotten
<1> SUFFICES ASSUME "block" \notin Nesting PROVE Spec => []NoWakeupForgotten
  OBVIOUS
<1>1. Init => Wakeful /\ AnnouncedSignaled
  <2> SUFFICES ASSUME Init PROVE Wakeful /\ AnnouncedSignaled
    OBVIOUS
  <2>1. runs = <<>> /\ announced = {}
    BY DEF Init
  <2>2. DOMAIN runs = {}
    BY <2>1, EmptySeq, LenProperties
  <2> QED BY <2>1, <2>2 DEF Wakeful, AnnouncedSignaled
<1>2. Shape /\ Shape' /\ Stacked /\ OwedListed /\ (Wakeful /\ AnnouncedSignaled) /\ [Next]_vars
        => (Wakeful /\ AnnouncedSignaled)'
  BY NextWakeful
<1>3. Spec => []OwedListed
  BY OwedIsListed
<1>4. Shape /\ Wakeful /\ OwedListed => NoWakeupForgotten
  BY AlertForgetsNothing
<1> QED BY <1>1, <1>2, <1>3, <1>4, RunLoopShape, RunsAreStacked, PTL DEF Spec

=============================================================================
