--------------------------- MODULE CFRunLoopTimer ---------------------------
(***************************************************************************)
(* The timers of a run loop, src/CoreFoundation/RunLoop.subproj/CFRunLoop.c *)
(* as it is built for Linux: every mode keeps its timers sorted by date    *)
(* and one timerfd, armed for the first of them.  Tolerances are 0 there,  *)
(* so that a timer has one deadline and the dispatch source is not used.   *)
(* Of the loop itself (CFRunLoop) only the passes that serve timers are    *)
(* here; callouts other than those of timers make the calls of a client.   *)
(***************************************************************************)
EXTENDS Naturals, Sequences, FiniteSets, SequencesExt, Lists

CONSTANTS Loop,      \* the thread of the run loop
          Clients,   \* the other threads
          Timers,
          Modes,
          MaxTime,   \* the bound of the clock
          Never,     \* no deadline, UINT64_MAX
          Interval,  \* [Timers -> Nat], 0 for a timer that does not repeat
          First,     \* [Timers -> 1..MaxTime], the dates they are created with
          Scheduled, \* [Timers -> SUBSET Modes], where they are at first
          Program    \* [Threads -> Seq(SUBSET Calls)]: one call of each set

Threads == Clients \cup {Loop}
Instants == 1..MaxTime
Repeating == {t \in Timers : Interval[t] > 0}

(* A run of the loop is asleep without the lock, has read a port, walks     *)
(* over the timers it collected, is in the callout of the first of them, or *)
(* back from it.  The lock is held at "timers" only.                        *)
Places == {"asleep", "awake", "timers", "callout", "served"}

Calls ==
  [op : {"setDate"}, timer : Timers, date : Instants]
    \cup [op : {"add", "remove"}, timer : Timers, mode : Modes]
    \cup [op : {"invalidate"}, timer : Timers]
    \cup [op : {"run"}, mode : Modes, poll : BOOLEAN]

(* What is left of a call after its first critical section: the modes are   *)
(* those of _rlModes when the timer's lock was held.                        *)
Rests ==
  [op : {"setDate"}, timer : Timers, date : Instants, modes : SUBSET Modes]
    \cup [op : {"add"}, timer : Timers, mode : Modes]
    \cup [op : {"invalidate"}, timer : Timers, modes : SUBSET Modes]
    \cup [op : {"wake"}]

NoCall == [op |-> "return"]

ASSUME TimerConstants ==
  /\ IsFiniteSet(Timers)
  /\ MaxTime \in Nat \ {0}
  /\ Never \notin Nat
  /\ Interval \in [Timers -> Nat]
  /\ First \in [Timers -> Instants]
  /\ Scheduled \in [Timers -> SUBSET Modes]
  /\ Program \in [Threads -> Seq(SUBSET Calls)]

VARIABLES
  now,      \* mach_absolute_time()
  date,     \* _fireTSR of each timer
  rlModes,  \* _rlModes of each timer; _runLoop is NULL when there are none
  valid,    \* the valid timers
  firing,   \* the timers in a callout
  timers,   \* _timers of each mode
  deadline, \* _timerSoftDeadline and _timerHardDeadline of each mode
  armed,    \* the time each mode's timerfd is armed for
  woken,    \* the wakeup port is readable
  runs,     \* the stack of runs
  call,     \* per thread, the rest of a call in progress
  done,     \* per thread, how many calls of its program it began
  fires,    \* history: how often each timer fired
  moved     \* history: the timers whose date was set

timerVars  == <<date, rlModes, valid, firing>>
modeVars   == <<timers, deadline, armed>>
threadVars == <<call, done>>
history    == <<fires, moved>>
vars == <<now, timerVars, modeVars, woken, runs, threadVars, history>>

Top == runs[Len(runs)]
Running == runs # <<>>
Unlocked == Running => Top.at # "timers"
SetTop(run) == runs' = [runs EXCEPT ![Len(runs)] = run]

-----------------------------------------------------------------------------
(* __CFRunLoopInsertionIndexInTimerArray: a binary search whose steps are    *)
(* the powers of two from the least above the length down, and then 0.  The *)
(* shortcuts for more than 256 timers give the same index.                  *)

(* Whether there is a timer at index i, and it is not later than d.         *)
NotLater(list, dates, d, i) == i < Len(list) /\ dates[list[i + 1]] <= d

(* Where the search is before the step of length 0.                         *)
Search(list, dates, d) ==
  LET power[k \in 0..Len(list)] == IF k = 0 THEN 1 ELSE 2 * power[k - 1]
      top == CHOOSE k \in 0..Len(list) :
               power[k] > Len(list) /\ (k > 0 => power[k - 1] <= Len(list))
      index[n \in 0..(top + 1)] ==
        IF n = 0 THEN 0
        ELSE LET next == index[n - 1] + power[top + 1 - n]
             IN IF NotLater(list, dates, d, next) THEN next ELSE index[n - 1]
  IN index[top + 1]

(* A search that stops there.                                               *)
InsertionIndexShort(list, dates, d) == Search(list, dates, d)

(* The number of timers, from the first on, that are not later than d.      *)
InsertionIndex(list, dates, d) ==
  LET last == Search(list, dates, d)
  IN IF NotLater(list, dates, d, last) THEN last + 1 ELSE last

Inserted(list, t, dates) ==
  InsertAt(list, InsertionIndex(list, dates, dates[t]) + 1, t)

(* The deadline __CFArmNextTimerInMode chooses: it looks at the timers that *)
(* are not firing until one is later than the least so far.                 *)
NextDeadline(list, dates, busy) ==
  LET idle == Among(list, Timers \ busy)
      falls(k) == \A i \in 1..(k - 1) : dates[idle[i + 1]] <= dates[idle[i]]
  IN IF idle = <<>> THEN Never
     ELSE dates[idle[Max({k \in DOMAIN idle : falls(k)})]]

(* ... and sets the timerfd to it, unless this is the deadline on record.  A *)
(* timerfd is never disarmed: _mkTimerArmed is set for dispatch timers only. *)
Armed(next, recorded, old) == IF next \in {Never, recorded} THEN old ELSE next

(* The modes of ms have new timers, dates or busy timers, and are armed.    *)
Arm(ms, lists, dates, busy, recorded) ==
  LET next(m) == NextDeadline(lists[m], dates, busy) IN
    /\ timers' = lists
    /\ deadline' = [m \in Modes |-> IF m \in ms THEN next(m) ELSE recorded[m]]
    /\ armed' = [m \in Modes |->
                   IF m \in ms THEN Armed(next(m), recorded[m], armed[m]) ELSE armed[m]]

(* __CFRepositionTimerInMode in those modes of ms that have the timer.      *)
Reposition(t, ms, dates) ==
  LET here == {m \in ms : t \in ToSet(timers[m])} IN
    Arm(here,
        [m \in Modes |-> IF m \in here THEN Inserted(Without(timers[m], t), t, dates)
                                       ELSE timers[m]],
        dates, firing, deadline)

(* CFRunLoopRemoveTimer from several modes, one after the other.            *)
RemoveTimer(t, ms) ==
  LET here == {m \in ms : t \in ToSet(timers[m])} IN
    /\ rlModes' = [rlModes EXCEPT ![t] = @ \ here]
    /\ Arm(here, [m \in Modes |-> IF m \in here THEN Without(timers[m], t) ELSE timers[m]],
           date, firing, deadline)

(* The orders of all timers by their dates; those of one date are in any.   *)
ByFirst ==
  {list \in SetToSeqs(Timers) : \A i, j \in DOMAIN list : i < j => First[list[i]] <= First[list[j]]}

Init ==
  /\ now = 1
  /\ date = First
  /\ rlModes = Scheduled
  /\ valid = Timers
  /\ firing = {}
  /\ \E order \in [Modes -> ByFirst] :
       timers = [m \in Modes |-> Among(order[m], {t \in Timers : m \in Scheduled[t]})]
  /\ deadline = [m \in Modes |-> NextDeadline(timers[m], First, {})]
  /\ armed = deadline
  /\ woken = FALSE
  /\ runs = <<>>
  /\ call = [t \in Threads |-> NoCall]
  /\ done = [t \in Threads |-> 0]
  /\ fires = [t \in Timers |-> 0]
  /\ moved = {}

Tick ==
  /\ now < MaxTime
  /\ now' = now + 1
  /\ UNCHANGED <<timerVars, modeVars, woken, runs, threadVars, history>>

-----------------------------------------------------------------------------
(* Calls of any thread, in the critical sections of the timer's lock and of *)
(* the run loop's.  A call is refused, or goes on with what Rest leaves.    *)

MayCall(t, c) ==
  /\ call[t] = NoCall
  /\ t = Loop /\ Running => Top.at = "callout"
  /\ c.op = "run" => t = Loop

Continue(t, rest) == call' = [call EXCEPT ![t] = rest]

(* CFRunLoopTimerSetNextFireDate: a date that has passed becomes now.  A    *)
(* timer that is in no run loop gets the date at once.                      *)
SetNextFireDate(th, t, d) ==
  LET next == IF d < now THEN now ELSE d IN
    /\ IF t \in valid /\ rlModes[t] # {}
         THEN /\ Continue(th, [op |-> "setDate", timer |-> t, date |-> next,
                               modes |-> rlModes[t]])
              /\ UNCHANGED <<date, moved>>
         ELSE /\ date' = IF t \in valid THEN [date EXCEPT ![t] = next] ELSE date
              /\ moved' = moved \cup {t}
              /\ UNCHANGED call
    /\ UNCHANGED <<rlModes, valid, firing, modeVars, woken, runs, fires>>

SetDate(t, d, ms) ==
  /\ Unlocked
  /\ date' = [date EXCEPT ![t] = d]
  /\ Reposition(t, ms, date')
  /\ moved' = moved \cup {t}
  /\ UNCHANGED <<rlModes, valid, firing, woken, runs, fires>>

(* CFRunLoopAddTimer: the validity is tested before the lock is taken.      *)
AddTimer(t, m) ==
  /\ Unlocked
  /\ IF m \in rlModes[t] THEN UNCHANGED <<rlModes, modeVars>>
     ELSE /\ rlModes' = [rlModes EXCEPT ![t] = @ \cup {m}]
          /\ Arm({m}, [timers EXCEPT ![m] = Inserted(@, t, date)], date, firing, deadline)
  /\ UNCHANGED <<date, valid, firing, woken, runs, history>>

(* CFRunLoopTimerInvalidate, and removing the timer from the modes it had.  *)
Invalidate(th, t) ==
  /\ valid' = valid \ {t}
  /\ IF t \in valid /\ rlModes[t] # {}
       THEN Continue(th, [op |-> "invalidate", timer |-> t, modes |-> rlModes[t]])
       ELSE UNCHANGED call

RemoveFromModes(t, ms) ==
  /\ Unlocked
  /\ RemoveTimer(t, ms)
  /\ UNCHANGED <<date, valid, firing, woken, runs, history>>

(* A wakeup is ignored between runs, and from reading a port to the top of  *)
(* the loop.                                                                *)
WakeUp ==
  /\ Unlocked
  /\ woken' = (woken \/ (Running /\ Top.at = "asleep"))
  /\ UNCHANGED <<timerVars, modeVars, runs, history>>

NewRun(m, poll) ==
  [mode |-> m, poll |-> poll, at |-> "asleep", onTimer |-> FALSE, todo |-> <<>>,
   old |-> 0, handled |-> FALSE]

Run(m, poll) ==
  /\ Unlocked
  /\ runs' = IF timers[m] = <<>> THEN runs ELSE Append(runs, NewRun(m, poll))
  /\ UNCHANGED <<timerVars, modeVars, woken, history>>

FirstHalf(th, c) ==
  \/ c.op = "setDate" /\ SetNextFireDate(th, c.timer, c.date)
  \/ c.op = "add" /\ Continue(th, IF c.timer \in valid THEN c ELSE NoCall)
     /\ UNCHANGED <<timerVars, modeVars, woken, runs, history>>
  \/ c.op = "remove" /\ RemoveFromModes(c.timer, {c.mode}) /\ UNCHANGED call
  \/ c.op = "invalidate" /\ Invalidate(th, c.timer)
     /\ UNCHANGED <<date, rlModes, firing, modeVars, woken, runs, history>>
  \/ c.op = "run" /\ Run(c.mode, c.poll) /\ UNCHANGED call

SecondHalf(c) ==
  \/ c.op = "setDate" /\ SetDate(c.timer, c.date, c.modes)
  \/ c.op = "add" /\ AddTimer(c.timer, c.mode)
  \/ c.op = "invalidate" /\ RemoveFromModes(c.timer, c.modes)
  \/ c.op = "wake" /\ WakeUp

BeginCall(th) ==
  /\ done[th] < Len(Program[th])
  /\ \E c \in Program[th][done[th] + 1] : MayCall(th, c) /\ FirstHalf(th, c)
  /\ done' = [done EXCEPT ![th] = @ + 1]
  /\ UNCHANGED now

FinishCall(th) ==
  /\ call[th] # NoCall
  /\ SecondHalf(call[th])
  /\ Continue(th, IF call[th].op = "setDate" /\ th # Loop THEN [op |-> "wake"] ELSE NoCall)
  /\ UNCHANGED <<now, done>>

-----------------------------------------------------------------------------
(* The loop's thread.                                                       *)

Serving(at) == Running /\ call[Loop] = NoCall /\ Top.at = at

Expired(m) == armed[m] \in Nat /\ armed[m] <= now

(* One of the readable ports is read.                                       *)
Wait ==
  /\ Serving("asleep")
  /\ \/ /\ Expired(Top.mode)
        /\ SetTop([Top EXCEPT !.at = "awake", !.onTimer = TRUE])
        /\ armed' = [armed EXCEPT ![Top.mode] = Never]
        /\ UNCHANGED woken
     \/ /\ woken
        /\ SetTop([Top EXCEPT !.at = "awake"])
        /\ woken' = FALSE
        /\ UNCHANGED armed
     \/ /\ Top.poll /\ ~woken /\ ~Expired(Top.mode)
        /\ SetTop([Top EXCEPT !.at = "awake"])
        /\ UNCHANGED <<armed, woken>>
  /\ UNCHANGED <<now, timerVars, timers, deadline, threadVars, history>>

(* __CFRunLoopDoTimers: the timers whose date has come, in their order.     *)
DoTimers ==
  /\ Serving("awake")
  /\ SetTop([Top EXCEPT !.at = "timers", !.handled = FALSE, !.todo =
       IF Top.onTimer
         THEN Among(timers[Top.mode], {t \in valid \ firing : date[t] <= now})
         ELSE <<>>])
  /\ UNCHANGED <<now, timerVars, modeVars, woken, threadVars, history>>

(* A timer that was invalidated after it was collected fires all the same.  *)
MayFireAnyway(t) == t \notin firing /\ rlModes[t] # {} /\ date[t] <= now

(* What __CFRunLoopDoTimer asks of a timer that was collected.              *)
MayFire(t) == t \in valid \ firing /\ rlModes[t] # {} /\ date[t] <= now

(* The deadline on record is kept when a timer fires.                       *)
ForgetNothing(m) == deadline

(* It is forgotten, since the next timer may have the same.                 *)
Forget(m) == [deadline EXCEPT ![m] = Never]

DoTimer ==
  /\ Serving("timers") /\ Top.todo # <<>>
  /\ LET t == Head(Top.todo)
         m == Top.mode IN
       IF MayFire(t)
         THEN /\ SetTop([Top EXCEPT !.at = "callout", !.handled = TRUE, !.old = date[t]])
              /\ firing' = firing \cup {t}
              /\ Arm({m}, timers, date, firing', Forget(m))
              /\ fires' = [fires EXCEPT ![t] = @ + 1]
         ELSE /\ SetTop([Top EXCEPT !.todo = Tail(@)])
              /\ UNCHANGED <<firing, modeVars, fires>>
  /\ UNCHANGED <<now, date, rlModes, valid, woken, threadVars, moved>>

(* The callout returns.  A timer that does not repeat is invalidated.       *)
Return ==
  /\ Serving("callout")
  /\ LET t == Head(Top.todo) IN
       IF Interval[t] = 0 THEN Invalidate(Loop, t) ELSE UNCHANGED <<valid, call>>
  /\ SetTop([Top EXCEPT !.at = "served"])
  /\ UNCHANGED <<now, date, rlModes, firing, modeVars, woken, done, history>>

(* One period too many.                                                     *)
NextDateSkips(old, i) == old + i * ((now - old) \div i + 2)

(* The first date of the timer's grid that has not passed.                  *)
NextDate(old, i) ==
  IF old > now THEN old ELSE old + i * ((now - old) \div i + 1)

(* Locked again, the timer is given its next date in all its modes, unless  *)
(* it was given a later one during the callout: then this mode, which       *)
(* skipped it as it was firing, is armed again.                             *)
FinishTimer ==
  /\ Serving("served")
  /\ LET t == Head(Top.todo) IN
       /\ firing' = firing \ {t}
       /\ IF t \notin valid THEN UNCHANGED <<date, modeVars>>
          ELSE IF Top.old < date[t]
            THEN /\ Arm({Top.mode}, timers, date, firing', deadline)
                 /\ UNCHANGED date
          ELSE LET next == [date EXCEPT ![t] = NextDate(Top.old, Interval[t])]
                   here == {m \in rlModes[t] : t \in ToSet(timers[m])}
                   lists == [m \in Modes |->
                     IF m \in here THEN Inserted(Without(timers[m], t), t, next)
                                   ELSE timers[m]] IN
                 date' = next /\ Arm(here, lists, next, firing', deadline)
  /\ SetTop([Top EXCEPT !.at = "timers", !.todo = Tail(@)])
  /\ UNCHANGED <<now, rlModes, valid, woken, threadVars, history>>

(* The end of the pass.  When no timer was handled, the timer is armed anew. *)
(* A run that polls returns, and one whose mode has become empty.           *)
EndPass ==
  /\ Serving("timers") /\ Top.todo = <<>>
  /\ IF Top.onTimer /\ ~Top.handled
       THEN Arm({Top.mode}, timers, date, firing, Forget(Top.mode))
       ELSE UNCHANGED modeVars
  /\ runs' = IF Top.poll \/ timers[Top.mode] = <<>>
               THEN SubSeq(runs, 1, Len(runs) - 1)
               ELSE [runs EXCEPT ![Len(runs)] = NewRun(Top.mode, FALSE)]
  /\ UNCHANGED <<now, timerVars, woken, threadVars, history>>

LoopStep == Wait \/ DoTimers \/ DoTimer \/ Return \/ FinishTimer \/ EndPass

Next ==
  \/ Tick
  \/ LoopStep
  \/ \E th \in Threads : BeginCall(th) \/ FinishCall(th)

Spec == Init /\ [][Next]_vars

-----------------------------------------------------------------------------
RunType ==
  [mode : Modes, poll : BOOLEAN, at : Places, onTimer : BOOLEAN,
   todo : Seq(Timers), old : Nat, handled : BOOLEAN]

(* The types of all variables; the last date of a timer is one interval     *)
(* after the end of time.                                                   *)
TypeOK ==
  /\ now \in Instants
  /\ date \in [Timers -> Nat]
  /\ \A t \in Timers : date[t] <= MaxTime + Interval[t]
  /\ rlModes \in [Timers -> SUBSET Modes]
  /\ valid \subseteq Timers
  /\ firing \subseteq Timers
  /\ timers \in [Modes -> Seq(Timers)]
  /\ deadline \in [Modes -> Nat \cup {Never}]
  /\ armed \in [Modes -> Nat \cup {Never}]
  /\ woken \in BOOLEAN
  /\ runs \in Seq(RunType)
  /\ call \in [Threads -> Rests \cup {NoCall}]
  /\ done \in [Threads -> Nat]
  /\ fires \in [Timers -> Nat]
  /\ moved \subseteq Timers

(* The calls of all programs, and the modes that a timer may be in.         *)
AllCalls == UNION {UNION {Program[th][i] : i \in DOMAIN Program[th]} : th \in Threads}
Reach(t) == Scheduled[t] \cup {m \in Modes : \E c \in AllCalls : c.op = "add" /\ c.timer = t /\ c.mode = m}

(* A timer whose date is set has one mode.                                  *)
OneModeIfSet == \A c \in AllCalls : c.op = "setDate" => \A m, n \in Reach(c.timer) : m = n

(* No thread adds a timer whose date another one sets: it could add it to a *)
(* mode that the other does not know of, where it would keep its old place. *)
AddsAndSetsApart ==
  \A th, u \in Threads :
    \A i \in DOMAIN Program[th], j \in DOMAIN Program[u] :
      \A c \in Program[th][i], d \in Program[u][j] :
        th # u /\ c.op = "setDate" /\ d.op = "add" => c.timer # d.timer

(* A mode lists the timers that are scheduled in it, each once and in the   *)
(* order of their dates, whoever moves them: arming looks at the first.     *)
TimersSorted ==
  \A m \in Modes :
    /\ ToSet(timers[m]) = {t \in Timers : m \in rlModes[t]}
    /\ \A i, j \in DOMAIN timers[m] :
         i < j => /\ timers[m][i] # timers[m][j]
                  /\ date[timers[m][i]] <= date[timers[m][j]]

(* The timerfd of a mode that no pass is serving expires no later than the  *)
(* first of its timers that is not in a callout.                            *)
ArmedInTime ==
  \A m \in Modes : \A t \in ToSet(timers[m]) \cap valid :
    \/ t \in firing
    \/ armed[m] \in Nat /\ armed[m] <= date[t]
    \/ Running /\ Top.mode = m /\ Top.onTimer /\ Top.at \in {"awake", "timers"}

(* A repeating timer that nobody moves keeps to its grid and fires at most  *)
(* once in a period, and one that does not repeat fires at most once,       *)
(* though several runs may have collected it.                               *)
OnSchedule ==
  /\ \A t \in Repeating \ moved :
       /\ (date[t] - First[t]) % Interval[t] = 0
       /\ fires[t] > 0 => First[t] + (fires[t] - 1) * Interval[t] <= now
  /\ \A t \in Timers \ Repeating : fires[t] <= 1

=============================================================================
