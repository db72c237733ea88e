------------------------------ MODULE MCOperation ------------------------------
(* Model-checking instances of Operation, without a queue. *)
EXTENDS Operation, TLC

CONSTANTS a, b, c, m, n

MCOps == {a, b, c}
MCClients == {m, n}

Link(o, up) == <<"addDependency", o, up>>
Cancelling(o) == <<"cancel", o>>
Starting(o) == <<"start", o>>
Waiting(o) == <<"waitUntilFinished", o>>

\* Three operations are linked in a chain or a diamond, some of them after others
\* have been started, finished or been cancelled; some are waited for.
MCProgram ==
  (m :> << {Link(c, a)}, {Link(c, b), Starting(a)}, {Starting(b), Starting(a)} >>) @@
  (n :> << {Cancelling(b), Cancelling(c), Link(c, b), Waiting(a)}, {Link(b, a), Starting(c)} >>)
================================================================================
