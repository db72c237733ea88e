------------------------------- MODULE MCTimer -------------------------------
(* Instances of CFRunLoopTimer for TLC.                                     *)
EXTENDS CFRunLoopTimer

CONSTANTS loop, c1, modeA, modeB, t1, t2, t3

MCModes     == {modeA, modeB}
MCInterval  == (t1 :> 2 @@ t2 :> 0 @@ t3 :> 3)
MCFirst     == (t1 :> 2 @@ t2 :> 3 @@ t3 :> 2)
MCScheduled == (t1 :> {modeA, modeB} @@ t2 :> {modeA} @@ t3 :> {modeA})

SetTo(tm, d) == [op |-> "setDate", timer |-> tm, date |-> d]
In(name, tm, md) == [op |-> name, timer |-> tm, mode |-> md]
End(tm) == [op |-> "invalidate", timer |-> tm]
Go(md, once) == [op |-> "run", mode |-> md, poll |-> once]

MCProgram ==
  loop :> << {Go(modeA, FALSE)},
             {Go(modeB, TRUE), Go(modeA, TRUE), SetTo(t3, 5), In("remove", t1, modeB)},
             {Go(modeB, FALSE), SetTo(t3, 1), End(t1)} >>
  @@ c1 :> << {SetTo(t3, 1), SetTo(t3, 4), In("add", t2, modeB)},
              {In("remove", t3, modeA), End(t2), SetTo(t3, 3)} >>

(* The timer whose date is set has one mode, and no other thread adds it to *)
(* a second one meanwhile: the theorems about lists and deadlines ask this  *)
(* of a program.                                                            *)
ASSUME MCPromises == OneModeIfSet /\ AddsAndSetsApart
=============================================================================
