------------------------------ MODULE CFRunLoop ------------------------------
(***************************************************************************)
(* The run loop of one (not the main) thread, and the threads that use it: *)
(* src/CoreFoundation/RunLoop.subproj/CFRunLoop.c as it is built for       *)
(* Linux.  The loop's own thread runs the loop, again from a callout if it *)
(* likes, so that there is a stack of runs; other threads signal sources,  *)
(* wake and stop the loop, hand it blocks, add, remove and invalidate.     *)
(* Timers are in CFRunLoopTimer.                                           *)
(***************************************************************************)
EXTENDS Naturals, Sequences, FiniteSets, SequencesExt, Lists

CONSTANTS Loop,       \* the thread of the run loop
          Clients,    \* the other threads
          Modes,
          Manual,     \* version 0 sources, which are signalled
          Ports,      \* version 1 sources, each with its file descriptor
          Blocks,     \* the blocks handed to the loop, each once
          Observers,
          WakePort,   \* the eventfd _wakeUpPort
          Order,      \* [Manual \cup Ports \cup Observers -> Nat]
          InMode,     \* [Blocks -> SUBSET Modes]
          Watches,    \* [Observers -> SUBSET Activities]
          OneShot,    \* the observers that do not repeat
          Members,    \* the initial sources, [Modes -> SUBSET (Manual \cup Ports)]
          Watching,   \* the initial observers, [Modes -> Seq(Observers)]
          Nesting,    \* the callouts that may run the loop again
          Program     \* [Threads -> Seq(SUBSET Calls)]: one call of each set

Threads == Clients \cup {Loop}
Sources == Manual \cup Ports
NoPort  == "none"

Activities == {"Entry", "BeforeTimers", "BeforeSources", "BeforeWaiting",
               "AfterWaiting", "Exit"}

(* The phases of __CFRunLoopRun in their order.                            *)
Phases == Activities \cup {"start", "blocks1", "sources", "blocks2", "asleep",
                           "waking", "handle", "source1", "blocks3", "decide"}

(* Within a phase the loop's thread is at "begin" with the run loop's lock, *)
(* at "list" without it, walking the items it collected, or in a callout.   *)
Places == {"begin", "list", "callout"}

(* When the run is to end: termTSR is in the future, has passed, or was set *)
(* to 0 by the timeout's handler; the time-out is infinite at "never".      *)
Terms == {"never", "later", "due", "zero"}

Results == {"none", "Finished", "Stopped", "TimedOut", "HandledSource"}

Calls ==
  [op : {"signal", "invalidate", "wakeLoops"}, source : Sources]
    \cup [op : {"post"}, source : Ports]
    \cup [op : {"add", "remove"}, source : Sources, mode : Modes]
    \cup [op : {"wake", "stop"}]
    \cup [op : {"stopMode"}, mode : Modes]
    \cup [op : {"block"}, block : Blocks]
    \cup [op : {"observe"}, observer : Observers, mode : Modes]
    \cup [op : {"unobserve"}, observer : Observers]
    \cup [op : {"run"}, mode : Modes, term : Terms \ {"due"}, single : BOOLEAN]

NoCall == [op |-> "return"]

(* A source is of one version, and the wakeup port is nobody's descriptor.  *)
ASSUME RunLoopConstants ==
  /\ IsFiniteSet(Sources)
  /\ Manual \cap Ports = {}
  /\ (Sources \cup {WakePort}) \cap {NoPort} = {}
  /\ WakePort \notin Sources
  /\ Blocks \cap Sources = {}
  /\ OneShot \subseteq Observers
  /\ Members \in [Modes -> SUBSET Sources]
  /\ Watching \in [Modes -> Seq(Observers)]
  /\ Program \in [Threads -> Seq(SUBSET Calls)]

VARIABLES
  runs,       \* the stack of runs; the last is _currentMode and _perRunData
  signals,    \* the signalled sources in the order of _signaledTime
  valid,      \* the valid sources and observers
  sources,    \* _sources0 and _sources1 of each mode
  observers,  \* _observers of each mode
  firing,     \* the observers that are being called
  blocks,     \* the list from _blocks_head to _blocks_tail
  modeStopped,\* the modes with _stopped
  readable,   \* the ports that have been written
  lateWakes,  \* handlers of timeouts between storing 0 and CFRunLoopWakeUp
  call,       \* per thread, the rest of a call in progress
  done,       \* per thread, how many calls of its program it began
  announced,  \* history: signalled sources and blocks that a wakeup followed
  owed,       \* history: the blocks not yet run, in the order of their calls
  fired,      \* history: per observer, how often it was called (at most 2)
  robbed      \* history: the runs that lost a wakeup to a run inside a callout

loopVars   == <<runs, blocks, readable>>
itemVars   == <<signals, valid, sources, observers, firing>>
threadVars == <<call, done>>
history    == <<announced, owed, fired, robbed>>
vars == <<loopVars, itemVars, modeStopped, lateWakes, threadVars, history>>

-----------------------------------------------------------------------------
Running == runs # <<>>
Top     == runs[Len(runs)]

(* The lock of the run loop is held by its thread from one callout or wait  *)
(* to the next; other threads take it for one action at a time.             *)
Unlocked == Running => Top.at # "begin"

Signaled == ToSet(signals)
WithoutSignal(s) == Without(signals, s)

(* A loop that does not run ignores wakeups, as __CFRunLoopCreate set it up. *)
IgnoresWakeUps == ~Running \/ Top.ignoring

ModeIsEmpty(m) ==
  sources[m] = {} /\ \A i \in DOMAIN blocks : m \notin InMode[blocks[i]]

(* A fresh activation: __CFRunLoopPushPerRunData, and the locals of the run. *)
NewRun(m, term, single) ==
  [mode |-> m, term |-> term, single |-> single, stopped |-> FALSE,
   ignoring |-> FALSE, phase |-> "Entry", at |-> "begin", scan |-> {}, found |-> {},
   todo |-> <<>>, kept |-> <<>>, handled |-> FALSE, poll |-> FALSE,
   port |-> NoPort, result |-> "none"]

Init ==
  /\ runs = <<>>
  /\ signals = <<>>
  /\ valid = Sources \cup Observers
  /\ sources = Members
  /\ observers = Watching
  /\ firing = {}
  /\ blocks = <<>>
  /\ modeStopped = {}
  /\ readable = {}
  /\ lateWakes = 0
  /\ call = [t \in Threads |-> NoCall]
  /\ done = [t \in Threads |-> 0]
  /\ announced = {}
  /\ owed = <<>>
  /\ fired = [o \in Observers |-> 0]
  /\ robbed = {}

-----------------------------------------------------------------------------
(* What any thread may call.                                                *)

SetTop(run) == runs' = [runs EXCEPT ![Len(runs)] = run]

(* What a run that is in a callout calls.                                   *)
Kind(run) == CASE run.phase \in Activities -> "observer"
               [] run.phase \in {"sources", "source1"} -> "source"
               [] OTHER -> "block"

(* A run in a callout may go to sleep without another look around if this is *)
(* an observer, or a source that another one follows: what that one returns *)
(* replaces what this one does.                                             *)
MaySleepNext(run) ==
  \/ Kind(run) = "observer"
  \/ run.phase = "sources" /\ ~run.single /\ Len(run.todo) > 1

(* The runs that miss a wakeup read or ignored by the run in their callout. *)
Robbed == {d \in 1..(Len(runs) - 1) : MaySleepNext(runs[d])}

(* __CFRunLoopWakeUp with the lock taken.                                   *)
WakeUp ==
  /\ Unlocked
  /\ readable' = IF IgnoresWakeUps THEN readable ELSE readable \cup {WakePort}
  /\ robbed' = IF Running /\ Top.ignoring THEN robbed \cup Robbed ELSE robbed
  /\ announced' = Signaled \cup ToSet(blocks)

(* CFRunLoopSourceSignal: the time of the first signal stays.               *)
Signal(s) ==
  /\ signals' = IF s \in valid \ Signaled THEN Append(signals, s) ELSE signals
  /\ UNCHANGED <<loopVars, valid, sources, observers, firing, modeStopped,
                 lateWakes, history>>

(* The owner of a version 1 source writes to its descriptor.                *)
Post(p) ==
  /\ readable' = readable \cup {p}
  /\ UNCHANGED <<runs, blocks, itemVars, modeStopped, lateWakes, history>>

(* The first half of CFRunLoopStop: only the innermost run is stopped.      *)
Stop ==
  /\ Unlocked
  /\ IF Running THEN SetTop([Top EXCEPT !.stopped = TRUE]) ELSE UNCHANGED runs
  /\ UNCHANGED <<blocks, readable, itemVars, modeStopped, lateWakes, history>>

(* The first half of _CFRunLoopStopMode.                                    *)
StopMode(m) ==
  /\ Unlocked
  /\ modeStopped' = modeStopped \cup {m}
  /\ UNCHANGED <<loopVars, itemVars, lateWakes, history>>

(* CFRunLoopPerformBlock, which wakes nobody.                               *)
PerformBlock(b) ==
  /\ Unlocked
  /\ blocks' = Append(blocks, b)
  /\ owed' = Append(owed, b)
  /\ announced' = announced \ {b}
  /\ UNCHANGED <<runs, readable, itemVars, modeStopped, lateWakes, fired, robbed>>

(* CFRunLoopAddSource from the lock on; the validity was tested before it.  *)
AddSource(s, m) ==
  /\ Unlocked
  /\ sources' = [sources EXCEPT ![m] = @ \cup {s}]
  /\ announced' = announced \ {s}
  /\ UNCHANGED <<loopVars, signals, valid, observers, firing, modeStopped,
                 lateWakes, owed, fired, robbed>>

RemoveSource(s, m) ==
  /\ Unlocked
  /\ sources' = [sources EXCEPT ![m] = @ \ {s}]
  /\ UNCHANGED <<loopVars, signals, valid, observers, firing, modeStopped,
                 lateWakes, history>>

(* CFRunLoopSourceInvalidate, under the source's lock ...                   *)
Invalidate(s) ==
  /\ valid' = valid \ {s}
  /\ signals' = IF s \in valid THEN WithoutSignal(s) ELSE signals
  /\ UNCHANGED <<loopVars, sources, observers, firing, modeStopped, lateWakes,
                 history>>

(* ... and under the run loop's, taken after the source was unlocked.       *)
RemoveFromModes(s) ==
  /\ Unlocked
  /\ sources' = [m \in Modes |-> sources[m] \ {s}]
  /\ UNCHANGED <<loopVars, signals, valid, observers, firing, modeStopped,
                 lateWakes, history>>

(* CFRunLoopAddObserver puts the observer behind those of its order.        *)
AddObserver(o, m) ==
  /\ Unlocked
  /\ observers' =
       IF o \in ToSet(observers[m]) THEN observers
       ELSE [observers EXCEPT ![m] =
              Among(@, {p \in Observers : Order[p] <= Order[o]}) \o <<o>>
                \o Among(@, {p \in Observers : Order[p] > Order[o]})]
  /\ UNCHANGED <<loopVars, signals, valid, sources, firing, modeStopped,
                 lateWakes, history>>

WithoutObserver(o) ==
  [m \in Modes |-> Without(observers[m], o)]

(* CFRunLoopObserverInvalidate by another thread, in the same two halves.   *)
InvalidateObserver(o) ==
  /\ valid' = valid \ {o}
  /\ UNCHANGED <<loopVars, signals, sources, observers, firing, modeStopped,
                 lateWakes, history>>

RemoveObserver(o) ==
  /\ Unlocked
  /\ observers' = WithoutObserver(o)
  /\ UNCHANGED <<loopVars, signals, valid, sources, firing, modeStopped,
                 lateWakes, history>>

(* CFRunLoopRunSpecific up to __CFRunLoopRun; the mode must not be empty.   *)
Run(m, term, single) ==
  /\ Unlocked
  /\ runs' = IF ModeIsEmpty(m) THEN runs ELSE Append(runs, NewRun(m, term, single))
  /\ robbed' = robbed \ {Len(runs) + 1}
  /\ UNCHANGED <<blocks, readable, itemVars, modeStopped, lateWakes, announced, owed, fired>>

-----------------------------------------------------------------------------
(* Calls.  call[t] is what is left of a call that takes a lock twice.       *)

(* The loop's thread makes its calls between runs and in callouts.          *)
MayCall(t, c) ==
  /\ call[t] = NoCall
  /\ t = Loop /\ Running => Top.at = "callout"
  /\ c.op = "run" => t = Loop /\ (Running => Kind(Top) \in Nesting)

Continue(t, rest) == call' = [call EXCEPT ![t] = rest]

FirstHalf(c) ==
  \/ c.op = "signal" /\ Signal(c.source)
  \/ c.op = "post" /\ Post(c.source)
  \/ c.op = "wake" /\ WakeUp
     /\ UNCHANGED <<runs, blocks, itemVars, modeStopped, lateWakes, owed, fired>>
  \/ c.op = "stop" /\ Stop
  \/ c.op = "stopMode" /\ StopMode(c.mode)
  \/ c.op = "block" /\ PerformBlock(c.block)
  \/ c.op = "remove" /\ RemoveSource(c.source, c.mode)
  \/ c.op = "invalidate" /\ Invalidate(c.source)
  \/ c.op = "unobserve" /\ InvalidateObserver(c.observer)
  \/ c.op = "run" /\ Run(c.mode, c.term, c.single)
  \/ c.op \in {"add", "observe", "wakeLoops"}
     /\ UNCHANGED <<loopVars, itemVars, modeStopped, lateWakes, history>>

(* A stop that does not wake the loop.                                      *)
RestQuiet(c) == NoCall

(* What the first half leaves to do.                                        *)
Rest(c) ==
  CASE c.op = "stop" -> IF Running THEN [op |-> "wake"] ELSE NoCall
    [] c.op = "stopMode" -> [op |-> "wake"]
    [] c.op = "wakeLoops" ->
         IF c.source \in valid /\ \E m \in Modes : c.source \in sources[m]
           THEN [op |-> "wake"] ELSE NoCall
    [] c.op = "add" -> IF c.source \in valid THEN c ELSE NoCall
    [] c.op = "observe" -> IF c.observer \in valid THEN c ELSE NoCall
    [] c.op = "invalidate" -> IF c.source \in valid THEN c ELSE NoCall
    [] c.op = "unobserve" -> IF c.observer \in valid THEN c ELSE NoCall
    [] OTHER -> NoCall

SecondHalf(c) ==
  \/ c.op = "wake" /\ WakeUp
     /\ UNCHANGED <<runs, blocks, itemVars, modeStopped, lateWakes, owed, fired>>
  \/ c.op = "add" /\ AddSource(c.source, c.mode)
  \/ c.op = "observe" /\ AddObserver(c.observer, c.mode)
  \/ c.op = "invalidate" /\ RemoveFromModes(c.source)
  \/ c.op = "unobserve" /\ RemoveObserver(c.observer)

BeginCall(t) ==
  /\ done[t] < Len(Program[t])
  /\ \E c \in Program[t][done[t] + 1] :
       MayCall(t, c) /\ FirstHalf(c) /\ Continue(t, Rest(c))
  /\ done' = [done EXCEPT ![t] = @ + 1]

FinishCall(t) ==
  /\ call[t] # NoCall
  /\ SecondHalf(call[t])
  /\ Continue(t, NoCall)
  /\ UNCHANGED done

-----------------------------------------------------------------------------
(* The loop's thread, outside callouts.                                     *)

Serving(phase, at) ==
  Running /\ call[Loop] = NoCall /\ Top.phase = phase /\ Top.at = at

(* Going on with a phase; poll is computed on the way to the wait.          *)
Entered(run, phase) ==
  [run EXCEPT !.phase = phase, !.at = "begin",
              !.scan = IF phase = "sources" THEN sources[run.mode] \cap Manual ELSE {},
              !.poll = IF phase = "BeforeWaiting" THEN run.handled \/ run.term = "zero"
                                                  ELSE run.poll]

Enter(run, phase) == SetTop(Entered(run, phase))

(* The phase after an activity; waiting is not announced when polling.      *)
AfterActivity(a) == CASE a = "Entry" -> "start"
                      [] a = "BeforeTimers" -> "BeforeSources"
                      [] a = "BeforeSources" -> "blocks1"
                      [] a = "BeforeWaiting" -> "asleep"
                      [] a = "AfterWaiting" -> "handle"
                      [] a = "Exit" -> "return"

(* Collecting an observer again while it is being called.                   *)
CollectedAgain(a) ==
  Among(observers[Top.mode], {o \in valid \cap Observers : a \in Watches[o]})

Called(a) == a \in {"BeforeWaiting", "AfterWaiting"} => ~Top.poll

Collected(a) ==
  IF Called(a)
    THEN Among(observers[Top.mode], {o \in (valid \cap Observers) \ firing : a \in Watches[o]})
    ELSE <<>>

(* __CFRunLoopSetSleeping and unlock; elsewhere the lock is kept.           *)
EnterAfter(a) ==
  IF a = "BeforeWaiting"
    THEN SetTop([Top EXCEPT !.phase = "asleep", !.at = "list"])
    ELSE Enter(Top, AfterActivity(a))

(* __CFRunLoopDoObservers: collect and unlock ...                           *)
DoObservers(a) ==
  /\ Serving(a, "begin")
  /\ IF a = "Exit" /\ Collected(a) = <<>>
       THEN runs' = SubSeq(runs, 1, Len(runs) - 1)
       ELSE IF Collected(a) = <<>> THEN EnterAfter(a)
       ELSE SetTop([Top EXCEPT !.at = "list", !.todo = Collected(a)])
  /\ UNCHANGED <<blocks, readable, itemVars, modeStopped, lateWakes, call, history>>

(* ... call those still valid ...                                           *)
CallObserver(a) ==
  /\ Serving(a, "list") /\ Top.todo # <<>>
  /\ LET o == Head(Top.todo) IN
       IF o \in valid
         THEN /\ firing' = firing \cup {o}
              /\ fired' = [fired EXCEPT ![o] = IF @ < 2 THEN @ + 1 ELSE @]
              /\ SetTop([Top EXCEPT !.at = "callout"])
         ELSE /\ UNCHANGED <<firing, fired>>
              /\ SetTop([Top EXCEPT !.todo = Tail(@)])
  /\ UNCHANGED <<blocks, readable, signals, valid, sources, observers,
                 modeStopped, lateWakes, call, announced, owed, robbed>>

(* ... and lock again, to go on or, after "Exit", to return from the run.   *)
ObserversDone(a) ==
  /\ Serving(a, "list") /\ Top.todo = <<>>
  /\ IF a = "Exit" THEN runs' = SubSeq(runs, 1, Len(runs) - 1) ELSE EnterAfter(a)
  /\ UNCHANGED <<blocks, readable, itemVars, modeStopped, lateWakes, call, history>>

(* A run that finds itself or its mode stopped does not start.              *)
StartRun ==
  /\ Serving("start", "begin")
  /\ LET stop == Top.stopped \/ Top.mode \in modeStopped IN
       /\ IF stop THEN Enter([Top EXCEPT !.result = "Stopped", !.stopped = FALSE], "Exit")
                  ELSE Enter(Top, "BeforeTimers")
       /\ modeStopped' = IF Top.stopped THEN modeStopped ELSE modeStopped \ {Top.mode}
  /\ UNCHANGED <<blocks, readable, itemVars, lateWakes, call, history>>

(* __CFRunLoopDoBlocks: take the whole list and unlock ...                  *)
AfterBlocks == [blocks1 |-> "sources", blocks2 |-> "BeforeWaiting", blocks3 |-> "decide"]

DoBlocks(p) ==
  /\ Serving(p, "begin")
  /\ IF blocks = <<>> THEN Enter(Top, AfterBlocks[p])
     ELSE SetTop([Top EXCEPT !.at = "list", !.todo = blocks, !.kept = <<>>])
  /\ blocks' = <<>>
  /\ UNCHANGED <<readable, itemVars, modeStopped, lateWakes, call, history>>

(* ... run those for this mode ...                                          *)
RunBlock(p) ==
  /\ Serving(p, "list") /\ Top.todo # <<>>
  /\ LET b == Head(Top.todo) IN
       IF Top.mode \in InMode[b]
         THEN /\ SetTop([Top EXCEPT !.at = "callout"])
              /\ owed' = RemoveFirst(owed, b)
         ELSE /\ SetTop([Top EXCEPT !.todo = Tail(@), !.kept = Append(@, b)])
              /\ UNCHANGED owed
  /\ UNCHANGED <<blocks, readable, itemVars, modeStopped, lateWakes, call,
                 announced, fired, robbed>>

(* Putting the blocks back behind those that came in.                       *)
PutBackLast(p) ==
  /\ Serving(p, "list") /\ Top.todo = <<>>
  /\ Enter([Top EXCEPT !.kept = <<>>], AfterBlocks[p])
  /\ blocks' = blocks \o Top.kept
  /\ UNCHANGED <<readable, itemVars, modeStopped, lateWakes, call, history>>

(* ... and put the others back before what came in meanwhile.               *)
PutBack(p) ==
  /\ Serving(p, "list") /\ Top.todo = <<>>
  /\ Enter([Top EXCEPT !.kept = <<>>], AfterBlocks[p])
  /\ blocks' = Top.kept \o blocks
  /\ UNCHANGED <<readable, itemVars, modeStopped, lateWakes, call, history>>

(* __CFRunLoopDoSources0: look at one source after the other; one that is   *)
(* signalled meanwhile may be seen or not.                                  *)
ScanSource ==
  /\ Serving("sources", "begin")
  /\ \E s \in Top.scan :
       SetTop([Top EXCEPT !.scan = @ \ {s},
                          !.found = IF s \in Signaled \cap valid THEN @ \cup {s} ELSE @])
  /\ UNCHANGED <<blocks, readable, itemVars, modeStopped, lateWakes, call, history>>

(* __CFRunLoopSourceComparator; a source that lost its signal has time 0.   *)
SignaledTime(s) == IF s \in Signaled THEN CHOOSE i \in DOMAIN signals : signals[i] = s ELSE 0
Before(r, s) == \/ Order[r] < Order[s]
                \/ Order[r] = Order[s] /\ SignaledTime(r) < SignaledTime(s)

(* The sort says nothing of the order of sources that compare equal.        *)
Sortings(set) ==
  {list \in SetToSeqs(set) : \A i, j \in DOMAIN list : i < j => ~Before(list[j], list[i])}

AfterSources(run) == Enter(run, IF run.handled THEN "blocks2" ELSE "BeforeWaiting")

DoSources0 ==
  /\ Serving("sources", "begin") /\ Top.scan = {}
  /\ LET run == [Top EXCEPT !.found = {}, !.handled = FALSE] IN
       IF Top.found = {} THEN AfterSources(run)
       ELSE \E list \in Sortings(Top.found) : SetTop([run EXCEPT !.at = "list", !.todo = list])
  /\ UNCHANGED <<blocks, readable, itemVars, modeStopped, lateWakes, call, history>>

(* __CFRunLoopDoSource0, under the source's lock.  What it returns replaces *)
(* what the sources before it returned.                                     *)
PerformSource ==
  /\ Serving("sources", "list") /\ Top.todo # <<>>
  /\ LET s == Head(Top.todo)
         perform == s \in Signaled /\ s \in valid IN
       /\ SetTop([Top EXCEPT !.handled = perform,
                             !.at = IF perform THEN "callout" ELSE "list",
                             !.todo = IF perform THEN @ ELSE Tail(@)])
       /\ signals' = WithoutSignal(s)
       /\ announced' = announced \ {s}
  /\ UNCHANGED <<blocks, readable, valid, sources, observers, firing, modeStopped,
                 lateWakes, call, owed, fired, robbed>>

SourcesDone ==
  /\ Serving("sources", "list") /\ Top.todo = <<>>
  /\ AfterSources(Top)
  /\ UNCHANGED <<blocks, readable, itemVars, modeStopped, lateWakes, call, history>>

-----------------------------------------------------------------------------
(* The wait, and what follows it.                                           *)

PortsOf(m) == {WakePort} \cup (sources[m] \cap Ports)

(* __CFRunLoopServiceFileDescriptors: one of the readable ports is read; a  *)
(* poll returns at once.  The lock is not yet held.                         *)
Wait ==
  /\ Serving("asleep", "list")
  /\ \/ \E p \in readable \cap PortsOf(Top.mode) :
          /\ SetTop([Top EXCEPT !.phase = "waking", !.port = p])
          /\ readable' = readable \ {p}
          /\ robbed' = IF p = WakePort
                         THEN robbed \cup Robbed ELSE robbed
     \/ /\ Top.poll /\ readable \cap PortsOf(Top.mode) = {}
        /\ SetTop([Top EXCEPT !.phase = "waking", !.port = NoPort])
        /\ UNCHANGED <<readable, robbed>>
  /\ UNCHANGED <<blocks, itemVars, modeStopped, lateWakes, call, announced, owed, fired>>

(* From here to the top of the loop a wakeup would be superfluous.          *)
Awaken ==
  /\ Serving("waking", "list")
  /\ Enter([Top EXCEPT !.ignoring = TRUE], "AfterWaiting")
  /\ robbed' = robbed \ {Len(runs)}
  /\ UNCHANGED <<blocks, readable, itemVars, modeStopped, lateWakes, call, announced,
                 owed, fired>>

(* A wakeup, or nothing, leads on; a source's port leads to the source, if  *)
(* the mode still has it.                                                   *)
Handle ==
  /\ Serving("handle", "begin")
  /\ Enter([Top EXCEPT !.ignoring = TRUE],
           IF Top.port \in sources[Top.mode] THEN "source1" ELSE "blocks3")
  /\ UNCHANGED <<blocks, readable, itemVars, modeStopped, lateWakes, call, history>>

(* __CFRunLoopDoSource1, from its unlocking to the callout.                 *)
DoSource1 ==
  /\ Serving("source1", "begin")
  /\ IF Top.port \in valid
       THEN /\ SetTop([Top EXCEPT !.at = "callout", !.handled = TRUE])
            /\ signals' = WithoutSignal(Top.port)
       ELSE Enter(Top, "blocks3") /\ UNCHANGED signals
  /\ UNCHANGED <<blocks, readable, valid, sources, observers, firing, modeStopped,
                 lateWakes, call, history>>

(* A next iteration that still ignores wakeups.                             *)
DecideDeaf ==
  /\ Serving("decide", "begin")
  /\ Enter(Top, "BeforeTimers")
  /\ UNCHANGED <<blocks, readable, itemVars, modeStopped, lateWakes, call, history>>

(* The end of an iteration: the first reason to return, in this order, and  *)
(* else the top of the loop, where wakeups count again.                     *)
Decide ==
  /\ Serving("decide", "begin")
  /\ LET m == Top.mode
         result == CASE Top.handled /\ Top.single -> "HandledSource"
                     [] Top.term \in {"due", "zero"} -> "TimedOut"
                     [] Top.stopped \/ m \in modeStopped -> "Stopped"
                     [] ModeIsEmpty(m) -> "Finished"
                     [] OTHER -> "none" IN
       /\ IF result = "none" THEN Enter([Top EXCEPT !.ignoring = FALSE], "BeforeTimers")
          ELSE Enter([Top EXCEPT !.result = result,
                                 !.stopped = @ /\ result # "Stopped"], "Exit")
       /\ modeStopped' = IF result = "Stopped" /\ ~Top.stopped
                           THEN modeStopped \ {m} ELSE modeStopped
  /\ UNCHANGED <<blocks, readable, itemVars, lateWakes, call, history>>

-----------------------------------------------------------------------------
(* A callout returns.  An observer that does not repeat is then invalidated *)
(* and removed; a run that is to return after one source drops the others.  *)

ReturnFromObserver(o) ==
  /\ firing' = firing \ {o}
  /\ IF o \in OneShot
       THEN valid' = valid \ {o} /\ observers' = WithoutObserver(o)
       ELSE UNCHANGED <<valid, observers>>

Return ==
  /\ Running /\ call[Loop] = NoCall /\ Top.at = "callout"
  /\ CASE Top.phase = "source1" -> Enter(Top, "blocks3")
       [] Top.phase = "sources" /\ Top.single ->
            SetTop([Top EXCEPT !.at = "list", !.todo = <<>>])
       [] OTHER -> SetTop([Top EXCEPT !.at = "list", !.todo = Tail(@)])
  /\ IF Kind(Top) = "observer" THEN ReturnFromObserver(Head(Top.todo))
     ELSE UNCHANGED <<firing, valid, observers>>
  /\ UNCHANGED <<blocks, readable, signals, sources, modeStopped, lateWakes, call,
                 history>>

-----------------------------------------------------------------------------
(* Time-outs.  A dispatch timer belongs to each run that is to end later;   *)
(* it fires after the time has passed and stores 0 without any lock.        *)

Timed(run) == run.phase \notin {"Entry", "start", "Exit"}

Elapse ==
  /\ \E i \in DOMAIN runs : /\ runs[i].term = "later" /\ Timed(runs[i])
                            /\ runs' = [runs EXCEPT ![i].term = "due"]
  /\ UNCHANGED <<blocks, readable, itemVars, modeStopped, lateWakes, call, history>>

(* A handler that wakes the loop again and again.                           *)
TimeoutWakeAgain ==
  /\ WakeUp
  /\ lateWakes' = lateWakes - 1
  /\ UNCHANGED <<runs, blocks, itemVars, modeStopped, call, owed, fired>>

Timeout ==
  /\ \E i \in DOMAIN runs : /\ runs[i].term = "due" /\ Timed(runs[i])
                            /\ runs' = [runs EXCEPT ![i].term = "zero"]
  /\ lateWakes' = lateWakes + 1
  /\ UNCHANGED <<blocks, readable, itemVars, modeStopped, call, history>>

TimeoutWake ==
  /\ lateWakes > 0
  /\ WakeUp
  /\ lateWakes' = lateWakes - 1
  /\ UNCHANGED <<runs, blocks, itemVars, modeStopped, call, owed, fired>>

LoopStep ==
  \/ \E a \in Activities : DoObservers(a) \/ CallObserver(a) \/ ObserversDone(a)
  \/ \E p \in DOMAIN AfterBlocks : DoBlocks(p) \/ RunBlock(p) \/ PutBack(p)
  \/ StartRun \/ ScanSource \/ DoSources0 \/ PerformSource \/ SourcesDone
  \/ Wait \/ Awaken \/ Handle \/ DoSource1 \/ Decide \/ Return

Next ==
  \/ \E t \in Threads : BeginCall(t) \/ FinishCall(t)
  \/ LoopStep /\ UNCHANGED done
  \/ (Elapse \/ Timeout \/ TimeoutWake) /\ UNCHANGED done

Spec == Init /\ [][Next]_vars

(* The threads run and callouts return; the handlers of time-outs run.  No  *)
(* client has to make another call.                                         *)
Fairness ==
  /\ WF_vars(LoopStep /\ UNCHANGED done)
  /\ WF_vars((Timeout \/ TimeoutWake) /\ UNCHANGED done)
  /\ \A t \in Threads : WF_vars(FinishCall(t))

FairSpec == Spec /\ Fairness

-----------------------------------------------------------------------------
(* The types of all variables.                                              *)
RunType ==
  [mode : Modes, term : Terms, single : BOOLEAN, stopped : BOOLEAN,
   ignoring : BOOLEAN, phase : Phases, at : Places, scan : SUBSET Manual,
   found : SUBSET Manual, todo : Seq(Manual \cup Observers \cup Blocks),
   kept : Seq(Blocks), handled : BOOLEAN, poll : BOOLEAN,
   port : {NoPort, WakePort} \cup Ports, result : Results]

TypeOK ==
  /\ runs \in Seq(RunType)
  /\ signals \in Seq(Sources)
  /\ valid \subseteq Sources \cup Observers
  /\ sources \in [Modes -> SUBSET Sources]
  /\ observers \in [Modes -> Seq(Observers)]
  /\ firing \subseteq Observers
  /\ blocks \in Seq(Blocks)
  /\ modeStopped \subseteq Modes
  /\ readable \subseteq {WakePort} \cup Ports
  /\ lateWakes \in Nat
  /\ call \in [Threads -> Calls \cup {NoCall}]
  /\ done \in [Threads -> Nat]
  /\ announced \subseteq Sources \cup Blocks
  /\ owed \in Seq(Blocks)
  /\ fired \in [Observers -> 0..2]
  /\ robbed \subseteq Nat

(* The innermost run blocks until some port is written.                     *)
Asleep ==
  Running /\ Top.phase = "asleep" /\ ~Top.poll
          /\ readable \cap PortsOf(Top.mode) = {}

SleepsOnSignal ==
  \/ Manual \cap sources[Top.mode] \cap valid \cap Signaled \cap announced # {}
  \/ \E i \in DOMAIN owed : Top.mode \in InMode[owed[i]] /\ owed[i] \in announced

SleepsOnStop ==
  \/ /\ Top.stopped \/ Top.mode \in modeStopped
     /\ \A t \in Threads : call[t].op # "wake"
  \/ Top.term = "zero" /\ lateWakes = 0

(* The loop does not sleep on work it has been woken for, nor when it is to *)
(* end: no signalled source of its mode, and no block for it, was there     *)
(* when CFRunLoopWakeUp was last called, though that call may have been     *)
(* ignored, and a stop or a time-out still has its wakeup to come; unless a *)
(* run in one of its callouts had that wakeup (see WakeupIsNotLost).        *)
NoWakeupForgotten ==
  Asleep /\ Len(runs) \notin robbed => ~SleepsOnSignal /\ ~SleepsOnStop

(* What __CFRunLoopWakeUp wants: "we don't want to lose a wakeup".  A run   *)
(* inside a callout may read, or ignore, the one for the run around it.     *)
WakeupIsNotLost == Asleep => ~SleepsOnSignal /\ ~SleepsOnStop

(* A block is run once, and after all blocks for this mode that were handed *)
(* to the loop before it, whatever lists it was taken from and put back to. *)
BlocksInOrder ==
  [][\A b \in ToSet(owed) \ ToSet(owed') :
       LET i == CHOOSE i \in DOMAIN owed : owed[i] = b IN
         \A j \in 1..(i - 1) : Top.mode \notin InMode[owed[j]]]_vars

(* An observer that does not repeat is called at most once, also when the   *)
(* loop runs again inside its callout or that of an observer before it.     *)
ObserversOnce == \A o \in OneShot : fired[o] <= 1

(* Whoever stops a run ends it, unless it ends for another reason.          *)
StopEndsRun ==
  \A d \in 1..2 :
    (Len(runs) >= d /\ runs[d].stopped) ~> ~(Len(runs) >= d /\ runs[d].stopped)

(* A source that was signalled, and the loop woken for, is performed while  *)
(* the loop runs in a mode of the source.                                   *)
Awaited(s) == Running /\ s \in sources[Top.mode] \cap valid \cap Signaled
SignalIsPerformed ==
  \A s \in Manual : (Awaited(s) /\ s \in announced) ~> ~Awaited(s)

=============================================================================
