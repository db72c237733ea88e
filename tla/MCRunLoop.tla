------------------------------ MODULE MCRunLoop ------------------------------
(* Instances of CFRunLoop for TLC.                                          *)
EXTENDS CFRunLoop

CONSTANTS loop, c1, modeA, modeB, s1, s2, p1, b1, b2, o1, o2

Rec(run_mode, run_term, run_single) ==
  [op |-> "run", mode |-> run_mode, term |-> run_term, single |-> run_single]
Wake == [op |-> "wake"]

MCModes     == {modeA, modeB}
MCOrder     == (s1 :> 0 @@ s2 :> 1 @@ p1 :> 0 @@ o1 :> 0 @@ o2 :> 0)
MCInMode    == (b1 :> {modeA} @@ b2 :> {modeA, modeB})
MCMembers   == (modeA :> {s1, s2, p1} @@ modeB :> {s2})
MCWatches   == (o1 :> {"BeforeTimers", "AfterWaiting"} @@ o2 :> {"BeforeTimers"})
MCWatching  == (modeA :> <<o1, o2>> @@ modeB :> <<o2>>)

On(name, src) == [op |-> name, source |-> src]
Hand(blk) == [op |-> "block", block |-> blk]
Stop1 == [op |-> "stop"]

MCProgram ==
  loop :> << {Rec(modeA, "later", FALSE), Rec(modeA, "never", TRUE)},
             {Rec(modeB, "never", FALSE), Hand(b1)},
             {On("invalidate", s2), Rec(modeB, "zero", FALSE)} >>
  @@ c1 :> << {On("signal", s1), On("add", s1) @@ ("mode" :> modeB)},
              {Wake, Hand(b2), [op |-> "observe", observer |-> o1, mode |-> modeB]},
              {On("signal", s2), On("post", p1), [op |-> "stopMode", mode |-> modeA],
               On("remove", s1) @@ ("mode" :> modeA)},
              {Wake, Stop1} >>

(* Without runs inside callouts, and with a stop of the mode.               *)
LiveProgram ==
  loop :> << {Rec(modeA, "later", FALSE), Rec(modeA, "never", TRUE)} >>
  @@ c1 :> << {On("signal", s1), On("post", p1), [op |-> "unobserve", observer |-> o1]},
              {Wake, On("wakeLoops", s1)},
              {Stop1, [op |-> "stopMode", mode |-> modeA], On("signal", s2)}, {Wake} >>

(* A source runs the loop again while another one is to follow it.          *)
NestedProgram ==
  loop :> << {Rec(modeA, "never", FALSE)}, {Rec(modeB, "zero", FALSE)} >>
  @@ c1 :> << {On("signal", s1)}, {On("signal", s2)}, {Wake}, {Stop1} >>
=============================================================================
