-------------------------- MODULE MCURLSessionTask --------------------------
EXTENDS URLSessionTask

\* The calls that callbacks make: none, except where `more` says so.
CallsOf(more) == [kind \in OpKinds |-> IF kind \in DOMAIN more THEN more[kind] ELSE {}]

WithDelegate(cache, answers, program, more, expires) ==
    [delegate |-> TRUE, cache |-> cache, replies |-> answers, app |-> program,
     calls |-> CallsOf(more), dispositions |-> Dispositions \ {"none"}, timeouts |-> expires]

\* The scenarios of the passing run.  A suspension is asked for only where no
\* transfer is in progress: see SuspendScenarios for what it does elsewhere.
MCScenarios ==
    \* Redirects whose callbacks suspend and resume the task, and challenges.
    { WithDelegate(cache, answers, <<"resume">>,
                   [redirect |-> {"suspend", "resume"}, notify |-> {"resume"},
                    complete |-> {"suspend", "resume"}], FALSE) :
        cache \in {"none", "miss"},
        answers \in {<<"redirect", "ok">>, <<"redirect", "redirect", "fail">>,
                     <<"unauthorized", "redirect", "ok">>, <<"redirect", "unauthorized", "ok">>} }
    \cup
    \* Challenges whose callback may also cancel the task, and timeouts.
    { WithDelegate(cache, answers, <<"suspend", "resume", "resume">>,
                   [challenge |-> {"cancel"}, notify |-> {"resume", "cancel"}], TRUE) :
        cache \in {"none", "miss"},
        answers \in {<<"unauthorized", "ok">>, <<"unauthorized", "unauthorized", "fail">>} }
    \cup
    \* A cancellation by the application at any time of a transfer.
    { WithDelegate("none", answers, program,
                   [notify |-> {"cancel", "resume"}, complete |-> {"suspend", "resume", "cancel"}], TRUE) :
        answers \in {<<>>, <<"ok">>, <<"fail">>},
        program \in {<<"resume", "cancel">>, <<"suspend", "resume", "resume", "cancel">>,
                     <<"resume", "invalidateAndCancel">>,
                     <<"finishTasksAndInvalidate", "resume", "cancel">>} }
    \cup
    \* A cancellation while the cache has still to answer, and a cached response.
    { WithDelegate("miss", <<>>, <<"cancel", "resume">>, <<>>, FALSE),
      WithDelegate("hit", <<>>, <<"resume">>,
                   [notify |-> {"cancel", "resume"}, complete |-> {"cancel", "resume"}], FALSE) }
    \cup
    \* Redirects and challenges that may, or do, remain without an answer, before
    \* and after which the application or a callback may cancel the task.
    { [WithDelegate(cache, answers, program, [challenge |-> {"cancel"}, complete |-> {"resume"}], TRUE)
         EXCEPT !.dispositions = {"none", "propose", "refuse"}] :
        cache \in {"none", "miss"}, program \in {<<"resume">>},
        answers \in {<<"redirect">>, <<"unauthorized", "ok">>, <<"unauthorized", "redirect">>} }
    \cup
    { [WithDelegate("none", answers, program, <<>>, expires) EXCEPT !.dispositions = {"none"}] :
        answers \in {<<"redirect">>, <<"unauthorized">>}, expires \in BOOLEAN,
        program \in {<<"resume", "cancel">>, <<"resume", "invalidateAndCancel">>,
                     <<"finishTasksAndInvalidate", "resume", "cancel">>} }
    \cup
    \* No delegate: the task is completed on the work queue.
    { [delegate |-> FALSE, cache |-> "none", replies |-> answers, app |-> program,
       calls |-> CallsOf(<<>>), dispositions |-> {}, timeouts |-> TRUE] :
        answers \in {<<"ok">>, <<"redirect", "ok">>, <<"redirect", "redirect", "fail">>,
                     <<"unauthorized">>, <<"redirect", "unauthorized">>},
        program \in {<<"resume", "resume", "cancel">>, <<"suspend", "resume", "resume", "invalidateAndCancel", "resume">>} }

\* A suspension while the transfer is in progress.
SuspendScenarios ==
    { WithDelegate("none", <<"ok">>, <<"resume", "suspend">>, <<>>, FALSE) }

(* In the scenarios of the passing run the application starts its task once, *)
(* with a delegate or a cache, does not invalidate a session with            *)
(* cancellation while a task waits for the cache, and does not cancel a task *)
(* whose response is replayed: the theorems about cancelling, completion and *)
(* suspension ask this of a scenario.                                        *)
ASSUME MCPrograms ==
  \A s \in MCScenarios : StartsOnce(s) /\ StaysWhileCached(s) /\ StartsCachedOnce(s) /\ EndsReplay(s)
=============================================================================
