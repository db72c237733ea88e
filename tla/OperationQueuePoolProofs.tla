------------------------ MODULE OperationQueuePoolProofs ------------------------
(***************************************************************************)
(* More theorems about OperationQueue, for any operations, barriers,         *)
(* clients, programs, priorities and limits: an enqueued operation is in one *)
(* priority list, once; the slots are counted exactly; and the queue         *)
(* implements the pool of workers of WorkPool.                               *)
(*                                                                         *)
(* They rest on where every operation is.  Its own thread is where its state *)
(* says (Stage); whether it is in the main list follows from its state and   *)
(* that thread (Member); and between the compare-and-swap that makes it      *)
(* enqueuing and the one that makes it enqueued it is in the hands of one    *)
(* client, which has claimed it alone (Claim, Enqueuing).                    *)
(*                                                                         *)
(* In a queue without barriers there is no deadlock: the locks have an order, *)
(* which is that of the queue before those of the operations, and these by    *)
(* how deep an operation is in the dependencies (WaitInv).                    *)
(***************************************************************************)
EXTENDS OperationQueueProofs, ListTheorems

\* The states of an operation that has been dispatched.
FlyingStates == {"dispatching", "starting", "executing", "finishing", "finished"}

\* No element occurs twice.
Once(s) == \A i, j \in DOMAIN s : s[i] = s[j] => i = j

\* Where the thread of an operation is, by the state of the operation.
Stage(o) ==
  /\ state[o] = "initialized" =>
       \/ pc[o] = "idle"
       \/ o \in Barriers /\ pc[o] \in {"queued", "block", "done"}
  /\ state[o] \in {"enqueuing", "enqueued"} => pc[o] = "idle"
  /\ state[o] = "dispatching" => pc[o] \in {"queued", "starting"}
  /\ state[o] = "starting" => pc[o] \in {"checkReady", "begin", "execute", "finishing", "fatal"}
  /\ state[o] = "executing" => pc[o] \in {"main", "detach", "detachNext", "detachSelf", "finishing"}
  /\ state[o] = "finishing" => pc[o] \in {"finish", "notify"}
  /\ state[o] # "finished" => local[o].after = "idle"
  /\ state[o] = "finished" =>
       \/ pc[o] = "ready" /\ local[o].after \in {"idle", "ready"}
       \/ /\ pc[o] \in {"testReady", "setReady", "fetchQueue", "schedule", "level", "visit",
                        "probe", "retest", "retestSet"}
          /\ local[o].after \in {"ready", "exit"}
       \/ pc[o] = "retire" /\ local[o].after = "exit" /\ local[o].queued
       \/ pc[o] \in {"invalidate", "exit", "done"} /\ local[o].after = "exit"

\* Which operations are in the main list.
Member(o) ==
  /\ state[o] = "initialized" => o \notin ToSet(operations) /\ ~attached[o]
  /\ state[o] = "enqueued" => o \in ToSet(operations) /\ attached[o]
  /\ state[o] \in {"dispatching", "starting", "executing", "finishing"} =>
       (attached[o] <=> o \in ToSet(operations))
  /\ state[o] = "finished" =>
       (o \in ToSet(operations) <=>
          local[o].queued /\ (pc[o] \in {"ready", "retire"} \/ local[o].after = "ready"))

PreparingLabels ==
  {"prepare", "readReady", "writeReady", "adopt", "appendBatch", "appendBarrier"}

\* How many operations of its batch client c has behind it, how many of them it has
\* made enqueuing, and how many it has given the queue.
Behind(c) == Len(frame[c].batch) - Len(frame[c].pending)

Prepared(c) ==
  IF pc[c] = "prepare" THEN Behind(c)
  ELSE IF pc[c] \in {"readReady", "writeReady", "adopt"} THEN Behind(c) + 1
  ELSE IF pc[c] \in {"appendBatch", "appendBarrier"} THEN Len(frame[c].batch)
  ELSE 0

Adopted(c) ==
  IF pc[c] \in {"appendBatch", "appendBarrier"} THEN Len(frame[c].batch) ELSE Behind(c)

\* A client that prepares a batch has the rest of it pending.
Batched(c) ==
  /\ pc[c] \in PreparingLabels =>
       /\ Behind(c) >= 0
       /\ \A i \in 1..Len(frame[c].pending) : frame[c].pending[i] = frame[c].batch[Behind(c) + i]
  /\ pc[c] \in {"appendBatch", "appendBarrier"} => frame[c].pending = frame[c].batch
  /\ pc[c] \in {"readReady", "writeReady", "adopt"} => local[c].subject = Head(frame[c].pending)

\* What it has prepared is enqueuing, in no list yet, and there once.
Claim(c) ==
  \A i \in 1..Prepared(c) :
    /\ state[frame[c].batch[i]] = "enqueuing"
    /\ frame[c].batch[i] \notin ToSet(operations)
    /\ i <= Adopted(c) => attached[frame[c].batch[i]]
    /\ \A j \in 1..Prepared(c) : frame[c].batch[i] = frame[c].batch[j] => i = j

\* No two clients have prepared the same operation.
Disjoint ==
  \A c, d \in Clients : c # d =>
    \A i \in 1..Prepared(c), j \in 1..Prepared(d) : frame[c].batch[i] # frame[d].batch[j]

\* addBarrierBlock has made an operation that nobody else has seen.
Fresh(c) ==
  \E b \in Barriers : /\ frame[c].batch = <<b>> /\ frame[c].pending = <<b>>
                      /\ state[b] = "initialized" /\ pc[b] = "idle"

\* The operations that client c still has to publish are in the main list, once each.
Added(c) ==
  /\ Once(frame[c].pending)
  /\ \A o \in ToSet(frame[c].pending) :
       state[o] = "enqueuing" /\ o \in ToSet(operations) /\ attached[o]

Linking(c) ==
  \/ pc[c] \in {"link", "publish"}
  \/ local[c].after = "link" /\ pc[c] \notin PreparingLabels \cup {"fatal"}

Enqueuing(c) ==
  /\ pc[c] \in {"addBarrier", "submitBlock"} => Fresh(c)
  /\ pc[c] = "submitBlock" => local[c].after # "link"
  /\ pc[c] = "prepare" => Fresh(c) \/ ToSet(frame[c].batch) \cap Barriers = {}
  /\ pc[c] = "publish" => Added(c)
  /\ Linking(c) => Fresh(c) \/ Added(c)

\* The operation of a barrier is a batch of its own, of one client.
BarrierAlone ==
  /\ \A c \in Clients : \A b \in Barriers : b \in ToSet(frame[c].batch) => frame[c].batch = <<b>>
  /\ \A c, d \in Clients : \A b \in Barriers :
       frame[c].batch = <<b>> /\ frame[d].batch = <<b>> => c = d

\* The priority lists hold the enqueued operations, each in one place.
Listed ==
  /\ \A k \in Levels : Once(lists[k])
  /\ \A k, l \in Levels : \A o \in Ops : o \in ToSet(lists[k]) /\ o \in ToSet(lists[l]) => k = l
  /\ \A o \in Ops : state[o] = "enqueued" <=> \E k \in Levels : o \in ToSet(lists[k])

\* What a thread has still to visit of a list is in it.
Walking(t) ==
  pc[t] \in {"visit", "probe"} =>
    /\ frame[t].level \in Levels
    /\ Once(frame[t].walk)
    /\ ToSet(frame[t].walk) \subseteq ToSet(lists[frame[t].level])

-----------------------------------------------------------------------------
(* Lists without repetitions.                                                  *)

\* The element at a place is an element.
LEMMA PlaceElement ==
  ASSUME NEW S, NEW s \in Seq(S), NEW i \in 1..Len(s)
  PROVE  s[i] \in ToSet(s) /\ s[i] \in S
BY LenProperties, ElementOfSeq DEF ToSet

\* Behind the head of a list without repetitions is all the rest of it, once.
LEMMA TailOnce ==
  ASSUME NEW S, NEW s \in Seq(S), s # <<>>, Once(s)
  PROVE  /\ Tail(s) \in Seq(S) /\ Head(s) \in ToSet(s)
         /\ Once(Tail(s))
         /\ ToSet(Tail(s)) = ToSet(s) \ {Head(s)}
<1>1. /\ Tail(s) \in Seq(S) /\ Len(Tail(s)) = Len(s) - 1 /\ Head(s) = s[1]
      /\ \A i \in 1..Len(Tail(s)) : Tail(s)[i] = s[i + 1]
  BY HeadTailProperties
<1>2. /\ Len(s) \in Nat /\ Len(s) # 0 /\ DOMAIN s = 1..Len(s)
      /\ DOMAIN Tail(s) = 1..Len(Tail(s)) /\ Len(Tail(s)) \in Nat
  BY <1>1, LenProperties, EmptySeq
<1> DEFINE u == Tail(s)
           n == Len(s)
<1> HIDE DEF u, n
<1>3. \A i \in 1..Len(u) : u[i] = s[i + 1] /\ i + 1 \in 1..n /\ i + 1 # 1
  BY <1>1, <1>2 DEF u, n
<1>4. \A i, j \in 1..n : s[i] = s[j] => i = j
  BY <1>2 DEF Once, n
<1>5. \A i, j \in 1..Len(u) : u[i] = u[j] => i = j
  <2> SUFFICES ASSUME NEW i \in 1..Len(u), NEW j \in 1..Len(u), u[i] = u[j]
               PROVE  i = j
    OBVIOUS
  <2>1. i + 1 = j + 1
    BY <1>3, <1>4
  <2> QED BY <2>1, <1>2 DEF u
<1>6. Once(u)
  BY <1>2, <1>5 DEF Once, u
<1>7. ToSet(u) \subseteq ToSet(s) \ {Head(s)}
  <2> SUFFICES ASSUME NEW i \in 1..Len(u)
               PROVE  u[i] \in ToSet(s) /\ u[i] # Head(s)
    BY <1>2 DEF ToSet, u
  <2>1. 1 \in 1..n
    BY <1>2 DEF n
  <2>2. u[i] # s[1]
    BY <1>3, <1>4, <2>1
  <2>3. u[i] \in ToSet(s)
    BY <1>2, <1>3 DEF ToSet, n
  <2> QED BY <2>2, <2>3, <1>1
<1>8. \A e \in ToSet(s) \ {Head(s)} : e \in ToSet(u)
  BY HeadOrTail DEF u
<1>9. Head(s) \in ToSet(s)
  BY <1>1, <1>2 DEF ToSet
<1> QED BY <1>1, <1>6, <1>7, <1>8, <1>9 DEF u

\* Two lists without repetitions that have no element in common, one behind the other.
LEMMA ConcatOnce ==
  ASSUME NEW S, NEW s \in Seq(S), NEW u \in Seq(S), Once(s), Once(u),
         \A e \in ToSet(u) : e \notin ToSet(s)
  PROVE  /\ s \o u \in Seq(S)
         /\ Once(s \o u)
         /\ ToSet(s \o u) = ToSet(s) \cup ToSet(u)
<1> DEFINE l == s \o u
           n == Len(s)
           m == Len(u)
<1>1. /\ l \in Seq(S) /\ DOMAIN l = 1..(n + m) /\ n \in Nat /\ m \in Nat
      /\ \A i \in 1..(n + m) : l[i] = IF i <= n THEN s[i] ELSE u[i - n]
  BY ConcatProperties, LenProperties
<1>2. /\ \A i, j \in 1..n : s[i] = s[j] => i = j
      /\ \A i, j \in 1..m : u[i] = u[j] => i = j
      /\ \A i \in 1..n, j \in 1..m : s[i] # u[j]
  <2>1. DOMAIN s = 1..n /\ DOMAIN u = 1..m
    BY LenProperties
  <2>2. (\A i, j \in 1..n : s[i] = s[j] => i = j) /\ (\A i, j \in 1..m : u[i] = u[j] => i = j)
    BY <2>1 DEF Once
  <2>3. \A i \in 1..n, j \in 1..m : s[i] # u[j]
    BY <2>1 DEF ToSet
  <2> QED BY <2>2, <2>3
<1> HIDE DEF l, n, m
<1>3. \A i \in 1..(n + m) : (i <= n /\ i \in 1..n) \/ (~(i <= n) /\ i - n \in 1..m)
  BY <1>1
<1>4. \A i, j \in 1..(n + m) : l[i] = l[j] => i = j
  <2> SUFFICES ASSUME NEW i \in 1..(n + m), NEW j \in 1..(n + m), l[i] = l[j]
               PROVE  i = j
    OBVIOUS
  <2>1. CASE i <= n /\ j <= n
    <3>1. i \in 1..n /\ j \in 1..n /\ l[i] = s[i] /\ l[j] = s[j]
      BY <1>1, <1>3, <2>1
    <3> QED BY <3>1, <1>2
  <2>2. CASE ~(i <= n) /\ ~(j <= n)
    <3>1. i - n \in 1..m /\ j - n \in 1..m /\ l[i] = u[i - n] /\ l[j] = u[j - n]
      BY <1>1, <1>3, <2>2
    <3>2. i - n = j - n
      BY <3>1, <1>2
    <3> QED BY <3>2, <1>1
  <2>3. CASE i <= n /\ ~(j <= n)
    <3>1. i \in 1..n /\ j - n \in 1..m /\ l[i] = s[i] /\ l[j] = u[j - n]
      BY <1>1, <1>3, <2>3
    <3> QED BY <3>1, <1>2
  <2>4. CASE ~(i <= n) /\ j <= n
    <3>1. j \in 1..n /\ i - n \in 1..m /\ l[j] = s[j] /\ l[i] = u[i - n]
      BY <1>1, <1>3, <2>4
    <3> QED BY <3>1, <1>2
  <2> QED BY <2>1, <2>2, <2>3, <2>4
<1>5. Once(l)
  BY <1>1, <1>4 DEF Once
<1> QED BY <1>1, <1>5, ConcatElements DEF l

\* A list without repetitions and one more element.
LEMMA AppendOnce ==
  ASSUME NEW S, NEW s \in Seq(S), NEW e \in S, Once(s), e \notin ToSet(s)
  PROVE  Append(s, e) \in Seq(S) /\ Once(Append(s, e)) /\ ToSet(Append(s, e)) = ToSet(s) \cup {e}
<1>1. <<e>> \in Seq(S) /\ Append(s, e) = s \o <<e>>
  BY AppendIsConcat
<1>2. ToSet(<<e>>) = {e} /\ Once(<<e>>)
  BY DEF ToSet, Once
<1>3. \A x \in ToSet(<<e>>) : x \notin ToSet(s)
  BY <1>2
<1>4. /\ s \o <<e>> \in Seq(S) /\ Once(s \o <<e>>)
      /\ ToSet(s \o <<e>>) = ToSet(s) \cup ToSet(<<e>>)
  BY <1>1, <1>2, <1>3, ConcatOnce
<1> QED BY <1>1, <1>2, <1>4, Zenon

\* Unlinked takes out the element, and nothing else, of a list without repetitions.
LEMMA UnlinkedOnce ==
  ASSUME NEW S, NEW s \in Seq(S), NEW e, Once(s)
  PROVE  /\ Unlinked(s, e) \in Seq(S)
         /\ Once(Unlinked(s, e))
         /\ ToSet(Unlinked(s, e)) = ToSet(s) \ {e}
<1>1. CASE e \notin ToSet(s)
  BY <1>1 DEF Unlinked
<1>2. CASE e \in ToSet(s)
  <2> DEFINE p == CHOOSE i \in DOMAIN s : s[i] = e
             n == Len(s)
             a == SubSeq(s, 1, p - 1)
             b == SubSeq(s, p + 1, n)
  <2>1. n \in Nat /\ DOMAIN s = 1..n
    BY LenProperties
  <2>2. p \in 1..n /\ s[p] = e
    BY <1>2, <2>1 DEF ToSet
  <2>3. Unlinked(s, e) = a \o b
    BY <1>2 DEF Unlinked, RemoveAt
  <2>4. \A i \in 1..n : s[i] \in S
    BY ElementOfSeq DEF n
  <2>5. \A i, j \in 1..n : s[i] = s[j] => i = j
    BY <2>1 DEF Once
  <2> HIDE DEF p, n
  <2>6. /\ a \in Seq(S) /\ Len(a) = p - 1 /\ DOMAIN a = 1..(p - 1)
        /\ \A i \in 1..(p - 1) : a[i] = s[i]
    <3>1. \A i \in 1..(p - 1) : s[i] \in S
      BY <2>1, <2>2, <2>4
    <3>2. SubSeq(s, 1, p - 1) \in Seq(S) /\ Len(SubSeq(s, 1, p - 1)) = p - 1
          /\ \A i \in 1..(p - 1) : SubSeq(s, 1, p - 1)[i] = s[1 + i - 1]
      BY <3>1, <2>1, <2>2, SubSeqProperties
    <3>3. \A i \in 1..(p - 1) : 1 + i - 1 = i
      BY <2>2
    <3>4. DOMAIN a = 1..Len(a)
      BY <3>2, LenProperties
    <3> QED BY <3>2, <3>3, <3>4
  <2>7. /\ b \in Seq(S) /\ Len(b) = n - p /\ DOMAIN b = 1..(n - p)
        /\ \A i \in 1..(n - p) : b[i] = s[p + i]
    <3>1. \A i \in (p + 1)..n : s[i] \in S
      BY <2>1, <2>2, <2>4
    <3>2. SubSeq(s, p + 1, n) \in Seq(S) /\ Len(SubSeq(s, p + 1, n)) = n - p
          /\ \A i \in 1..(n - p) : SubSeq(s, p + 1, n)[i] = s[p + 1 + i - 1]
      BY <3>1, <2>1, <2>2, SubSeqProperties
    <3>3. \A i \in 1..(n - p) : p + 1 + i - 1 = p + i
      BY <2>1, <2>2
    <3>4. DOMAIN b = 1..Len(b)
      BY <3>2, LenProperties
    <3> QED BY <3>2, <3>3, <3>4
  <2> HIDE DEF a, b
  <2>8. \A i \in 1..(p - 1) : i \in 1..n /\ i # p
    BY <2>1, <2>2
  <2>9. \A i \in 1..(n - p) : p + i \in 1..n /\ p + i # p
    BY <2>1, <2>2
  <2>10. Once(a)
    <3>1. \A i, j \in 1..(p - 1) : a[i] = a[j] => i = j
      BY <2>5, <2>6, <2>8
    <3> QED BY <3>1, <2>6 DEF Once
  <2>11. Once(b)
    <3> SUFFICES ASSUME NEW i \in 1..(n - p), NEW j \in 1..(n - p), b[i] = b[j]
                 PROVE  i = j
      BY <2>7 DEF Once
    <3>1. p + i = p + j
      BY <2>5, <2>7, <2>9
    <3> QED BY <3>1, <2>1, <2>2
  <2>12. \A x \in ToSet(b) : x \notin ToSet(a)
    <3> SUFFICES ASSUME NEW i \in 1..(n - p), NEW j \in 1..(p - 1), b[i] = a[j]
                 PROVE  FALSE
      BY <2>6, <2>7 DEF ToSet
    <3>1. p + i = j
      BY <2>5, <2>6, <2>7, <2>8, <2>9
    <3> QED BY <3>1, <2>1, <2>2
  <2>13. Once(a \o b) /\ a \o b \in Seq(S) /\ ToSet(a \o b) = ToSet(a) \cup ToSet(b)
    BY <2>6, <2>7, <2>10, <2>11, <2>12, ConcatOnce
  <2>14. ToSet(a) \cup ToSet(b) \subseteq ToSet(s) \ {e}
    <3>1. \A i \in 1..(p - 1) : a[i] \in ToSet(s) /\ a[i] # e
      BY <2>1, <2>2, <2>5, <2>6, <2>8 DEF ToSet
    <3>2. \A i \in 1..(n - p) : b[i] \in ToSet(s) /\ b[i] # e
      BY <2>1, <2>2, <2>5, <2>7, <2>9 DEF ToSet
    <3> QED BY <3>1, <3>2, <2>6, <2>7 DEF ToSet
  <2>15. ToSet(s) \ {e} \subseteq ToSet(a \o b)
    <3> SUFFICES ASSUME NEW i \in 1..n, s[i] # e
                 PROVE  s[i] \in ToSet(a \o b)
      BY <2>1 DEF ToSet
    <3>1. i # p
      BY <2>2
    <3> QED BY <3>1, <2>2, RemovedElements DEF n, a, b
  <2> QED BY <2>3, <2>13, <2>14, <2>15
<1> QED BY <1>1, <1>2

-----------------------------------------------------------------------------
(* Where the threads of the operations are.                                    *)

AllStages == \A o \in Ops : Stage(o)

\* Nothing that Stage looks at changes.
LEMMA StageKept ==
  ASSUME NEW o \in Ops, Stage(o), pc'[o] = pc[o], state'[o] = state[o],
         local'[o].after = local[o].after, local'[o].queued = local[o].queued
  PROVE  Stage(o)'
BY DEF Stage

\* The steps inside a call change no state and return to where they were called from.
LEMMA CallStepKeeps ==
  ASSUME QueueInv, NEW t \in Threads, CallStep(t) \/ SpuriousWakeup(t)
  PROVE  /\ state' = state
         /\ \A u \in Threads : /\ u # t => pc'[u] = pc[u] /\ local'[u] = local[u]
                               /\ local'[u].after = local[u].after
                               /\ local'[u].queued = local[u].queued
<1>1. local \in [Threads -> Locals] /\ pc \in [Threads -> Labels]
  BY DEF QueueInv, TypeOK, OpTypeOK
<1>2. state' = state
  BY DEF CallStep, SpuriousWakeup, TestReady, SetReady, FetchQueue, AppendDependency, LockUp,
         LinkSelf, Find, UnlinkSelf, CancelUnlessFinished, MarkCancelled, TestExecuting,
         ClearCount, Wait, status, graph
<1>3. \A u \in Threads : u # t => pc'[u] = pc[u]
  BY <1>1
  DEF CallStep, SpuriousWakeup, TestReady, SetReady, FetchQueue, AppendDependency, LockUp,
      LinkSelf, Find, UnlinkSelf, CancelUnlessFinished, MarkCancelled, TestExecuting,
      ClearCount, Wait, Goto, Return
<1>4. \/ local' = local
      \/ \E f \in BOOLEAN : local' = [local EXCEPT ![t].flag = f]
  BY <1>1
  DEF CallStep, SpuriousWakeup, TestReady, SetReady, FetchQueue, AppendDependency, LockUp,
      LinkSelf, Find, UnlinkSelf, CancelUnlessFinished, MarkCancelled, TestExecuting,
      ClearCount, Wait, IsReady
<1>5. \A u \in Threads : /\ u # t => local'[u] = local[u]
                         /\ local'[u].after = local[u].after
                         /\ local'[u].queued = local[u].queued
  BY <1>1, <1>4 DEF Locals
<1> QED BY <1>2, <1>3, <1>5

\* A step of Operation keeps the threads of the operations where their states say.
LEMMA OpStageNext == QueueInv /\ AllStages /\ OpNext => AllStages'
<1> SUFFICES ASSUME QueueInv, AllStages, OpNext, NEW u \in Ops
             PROVE  Stage(u)'
  BY DEF AllStages
<1>1. /\ pc \in [Threads -> Labels] /\ local \in [Threads -> Locals]
      /\ state \in [Ops -> DOMAIN Rank] /\ attached \in [Ops -> BOOLEAN]
  BY DEF QueueInv, TypeOK, OpTypeOK
<1>2. /\ Ops \subseteq Threads /\ Clients \subseteq Threads /\ \A c \in Clients : c \notin Ops
  BY OperationConstants DEF Threads
<1>3. Stage(u)
  BY DEF AllStages
<1>4. state[u] \in {"initialized", "enqueuing", "enqueued", "dispatching", "starting",
                    "executing", "finishing", "finished"}
  BY <1>1 DEF Rank
<1>5. ASSUME NEW t \in Threads, CallStep(t) \/ SpuriousWakeup(t)
      PROVE  Stage(u)'
  <2>1. CASE u # t
    BY <1>2, <1>3, <1>5, <2>1, CallStepKeeps, StageKept
  <2>2. CASE u = t
    <3>1. /\ state' = state /\ local'[u].after = local[u].after
          /\ local'[u].queued = local[u].queued
      BY <1>2, <1>5, CallStepKeeps
    <3>2. pc[u] \in {"testReady", "setReady", "fetchQueue"}
      BY <1>3, <1>4, <1>5, <2>2
      DEF Stage, CallStep, SpuriousWakeup, TestReady, SetReady, FetchQueue, AppendDependency,
          LockUp, LinkSelf, Find, UnlinkSelf, CancelUnlessFinished, MarkCancelled,
          TestExecuting, ClearCount, Wait
    <3>3. pc'[u] \in {"setReady", "fetchQueue", "schedule", local[u].after}
      BY <1>1, <1>2, <1>5, <2>2, <3>2
      DEF CallStep, SpuriousWakeup, TestReady, SetReady, FetchQueue, AppendDependency, LockUp,
          LinkSelf, Find, UnlinkSelf, CancelUnlessFinished, MarkCancelled, TestExecuting,
          ClearCount, Wait, Goto
    <3> QED BY <1>3, <1>4, <3>1, <3>2, <3>3 DEF Stage
  <2> QED BY <2>1, <2>2
<1>6. ASSUME NEW o \in Ops, CheckReady(o) \/ Begin(o) \/ Execute(o) \/ Main(o)
      PROVE  Stage(u)'
  <2>1. local' = local
    BY <1>6 DEF CheckReady, Begin, Execute, Main
  <2>2. CASE u # o
    BY <1>1, <1>2, <1>3, <1>6, <2>1, <2>2, StageKept
    DEF CheckReady, Begin, Execute, Main, Goto, status
  <2>3. CASE u = o
    BY <1>1, <1>2, <1>3, <1>4, <1>6, <2>1, <2>3
    DEF CheckReady, Begin, Execute, Main, Goto, status, Stage
  <2> QED BY <2>2, <2>3
<1>7. ASSUME NEW o \in Ops, Detach(o) \/ DetachUp(o) \/ DetachSelf(o) \/ Finishing(o)
      PROVE  Stage(u)'
  <2>1. \A t \in Threads : /\ local'[t].after = local[t].after
                           /\ local'[t].queued = local[t].queued
    <3>1. \/ local' = local
          \/ \E s : local' = [local EXCEPT ![o].todo = s]
          \/ \E up, s : local' = [local EXCEPT ![o].other = up, ![o].todo = s]
      BY <1>7 DEF Detach, DetachUp, DetachSelf, Finishing
    <3>2. CASE local' = local
      BY <3>2
    <3>3. ASSUME NEW s, local' = [local EXCEPT ![o].todo = s]
          PROVE  \A t \in Threads : /\ local'[t].after = local[t].after
                                    /\ local'[t].queued = local[t].queued
      BY <1>1, <3>3 DEF Locals
    <3>4. ASSUME NEW up, NEW s, local' = [local EXCEPT ![o].other = up, ![o].todo = s]
          PROVE  \A t \in Threads : /\ local'[t].after = local[t].after
                                    /\ local'[t].queued = local[t].queued
      BY <1>1, <3>4 DEF Locals
    <3> QED BY <3>1, <3>2, <3>3, <3>4
  <2>2. CASE u # o
    BY <1>1, <1>2, <1>3, <1>7, <2>1, <2>2, StageKept
    DEF Detach, DetachUp, DetachSelf, Finishing, Goto, status
  <2>3. CASE u = o
    BY <1>1, <1>2, <1>3, <1>4, <1>7, <2>1, <2>3
    DEF Detach, DetachUp, DetachSelf, Finishing, Goto, status, Stage
  <2> QED BY <2>2, <2>3
<1>8. ASSUME NEW o \in Ops, Finish(o) \/ Notify(o)
      PROVE  Stage(u)'
  <2>1. \A t \in Threads : /\ local'[t].after = local[t].after
                           /\ local'[t].queued = local[t].queued
    <3>1. \E s, r : local' = [local EXCEPT ![o].todo = s, ![o].ready = r]
      BY <1>8 DEF Finish, Notify
    <3> QED BY <1>1, <3>1 DEF Locals
  <2>2. CASE u # o
    BY <1>1, <1>2, <1>3, <1>8, <2>1, <2>2, StageKept
    DEF Finish, Notify, Goto, status
  <2>3. CASE u = o
    BY <1>1, <1>2, <1>3, <1>4, <1>8, <2>1, <2>3
    DEF Finish, Notify, Goto, status, Stage
  <2> QED BY <2>2, <2>3
<1>9. ASSUME NEW o \in Ops, Finished(o)
      PROVE  Stage(u)'
  <2>1. \A t \in Threads : local'[t].after = local[t].after
    BY <1>1, <1>9 DEF Finished, Locals
  <2>2. CASE u # o
    BY <1>1, <1>2, <1>3, <1>9, <2>1, <2>2, StageKept DEF Finished, Goto
  <2>3. CASE u = o
    BY <1>1, <1>2, <1>3, <1>4, <1>9, <2>1, <2>3 DEF Finished, Goto, Stage
  <2> QED BY <2>2, <2>3
<1>10. ASSUME NEW o \in Ops, Ready(o)
       PROVE  Stage(u)'
  <2>1. PICK d, r : local' = [local EXCEPT ![o].ready = r, ![o].subject = d, ![o].after = "ready"]
    BY <1>10 DEF Ready
  <2>2. /\ \A t \in Threads : t # o => local'[t] = local[t]
        /\ local'[o].after = "ready" /\ local'[o].queued = local[o].queued
    BY <1>1, <1>2, <2>1 DEF Locals
  <2>3. CASE u # o
    BY <1>1, <1>2, <1>3, <1>10, <2>2, <2>3, StageKept DEF Ready, Goto, status
  <2>4. CASE u = o
    BY <1>1, <1>2, <1>3, <1>4, <1>10, <2>2, <2>4 DEF Ready, Goto, status, Stage
  <2> QED BY <2>3, <2>4
<1>11. ASSUME NEW o \in Ops, Broadcast(o)
       PROVE  Stage(u)'
  <2>1. /\ \A t \in Threads : t # o => local'[t] = local[t]
        /\ local'[o].after = "exit" /\ local'[o].queued = local[o].queued
    BY <1>1, <1>2, <1>11 DEF Broadcast, Locals
  <2>2. state' = state
    BY <1>11 DEF Broadcast, status
  <2>3. CASE u # o
    <3>1. pc[u] # "asleep"
      BY <1>3, <1>4 DEF Stage
    <3>2. pc'[u] = pc[u]
      BY <1>2, <1>11, <2>3, <3>1 DEF Broadcast, Woken
    <3> QED BY <1>2, <1>3, <2>1, <2>2, <2>3, <3>2, StageKept
  <2>4. CASE u = o
    <3>1. pc'[o] = (IF local[o].queued THEN "retire" ELSE "done") /\ pc[o] = "ready"
      BY <1>2, <1>11 DEF Broadcast
    <3>2. local[o].queued \in BOOLEAN
      BY <1>1, <1>2 DEF Locals
    <3> QED BY <1>3, <1>4, <2>1, <2>2, <2>4, <3>1, <3>2 DEF Stage
  <2> QED BY <2>3, <2>4
<1>12. ASSUME NEW c \in Clients, NEW o \in Ops, Start(c, o)
       PROVE  Stage(u)'
  <2>1. local' = local
    BY <1>12 DEF Start
  <2>2. CASE u # o
    BY <1>1, <1>2, <1>3, <1>12, <2>1, <2>2, StageKept DEF Start, Goto
  <2>3. CASE u = o
    BY <1>1, <1>2, <1>3, <1>4, <1>12, <2>1, <2>3 DEF Start, Goto, Stage
  <2> QED BY <2>2, <2>3
<1>13. ASSUME NEW c \in Clients, NEW o \in Ops, NEW up \in Ops,
              AddDependency(c, o, up) \/ RemoveDependency(c, o, up)
       PROVE  Stage(u)'
  BY <1>1, <1>2, <1>3, <1>13, StageKept
  DEF AddDependency, RemoveDependency, Enter, Goto, status
<1>14. ASSUME NEW c \in Clients, NEW o \in Ops, Cancel(c, o) \/ WaitUntilFinished(c, o)
       PROVE  Stage(u)'
  BY <1>1, <1>2, <1>3, <1>14, StageKept DEF Cancel, WaitUntilFinished, Enter, Goto, status
<1> QED
  BY <1>5, <1>6, <1>7, <1>8, <1>9, <1>10, <1>11, <1>12, <1>13, <1>14
  DEF OpNext, RunStep, ClientCall

AllEnqueuing == \A c \in Clients : Batched(c) /\ Enqueuing(c)

\* A client that is about to prepare an operation has it pending: no other thread has
\* seen it, if it is that of a barrier.
LEMMA HeadPending ==
  ASSUME QueueInv, BarrierAlone, AllEnqueuing, NEW c \in Clients, pc[c] = "prepare"
  PROVE  LET o == Head(frame[c].pending) IN
           /\ o \in Ops /\ frame[c].batch[Behind(c) + 1] = o
           /\ Behind(c) \in Nat /\ Behind(c) + 1 \in 1..Len(frame[c].batch)
           /\ o \in Barriers => frame[c].batch = <<o>> /\ state[o] = "initialized" /\ pc[o] = "idle"
<1> DEFINE p == frame[c].pending
           b == frame[c].batch
<1>1. c \in Threads
  BY DEF Threads
<1>2. p \in Seq(Ops) /\ b \in Seq(Ops)
  BY <1>1 DEF QueueInv, TypeOK, Frames
<1>3. p # <<>>
  BY <1>1 DEF QueueInv, Located, AddingLabels
<1>4. Head(p) = p[1] /\ Len(p) \in Nat /\ Len(p) # 0 /\ Len(b) \in Nat /\ Head(p) \in Ops
  BY <1>2, <1>3, LenProperties, EmptySeq, HeadTailProperties
<1>5. Behind(c) >= 0 /\ \A i \in 1..Len(p) : p[i] = b[Behind(c) + i]
  BY DEF AllEnqueuing, Batched, PreparingLabels
<1>6. Behind(c) = Len(b) - Len(p)
  BY DEF Behind
<1> HIDE DEF p, b
<1>7. Behind(c) \in Nat /\ Behind(c) + 1 \in 1..Len(b) /\ b[Behind(c) + 1] = Head(p)
  BY <1>4, <1>5, <1>6
<1>8. ASSUME Head(p) \in Barriers
      PROVE  b = <<Head(p)>> /\ state[Head(p)] = "initialized" /\ pc[Head(p)] = "idle"
  <2>1. Head(p) \in ToSet(b)
    BY <1>2, <1>7, PlaceElement
  <2>2. Fresh(c)
    BY <1>8, <2>1 DEF AllEnqueuing, Enqueuing, b
  <2>3. PICK x \in Barriers : b = <<x>> /\ p = <<x>> /\ state[x] = "initialized" /\ pc[x] = "idle"
    BY <2>2 DEF Fresh, b, p
  <2>4. Head(p) = x
    BY <2>3
  <2> QED BY <2>3, <2>4
<1> QED BY <1>4, <1>7, <1>8 DEF p, b

\* A step of the queue keeps the threads of the operations where their states say.
LEMMA QueueStageNext ==
  QueueInv /\ AllStages /\ AllEnqueuing /\ BarrierAlone /\ QueueNext => AllStages'
<1> SUFFICES ASSUME QueueInv, AllStages, AllEnqueuing, BarrierAlone, QueueNext, NEW u \in Ops
             PROVE  Stage(u)'
  BY DEF AllStages
<1>1. /\ pc \in [Threads -> Labels] /\ local \in [Threads -> Locals]
      /\ state \in [Ops -> DOMAIN Rank] /\ attached \in [Ops -> BOOLEAN]
  BY DEF QueueInv, TypeOK, OpTypeOK
<1>2. /\ Ops \subseteq Threads /\ Clients \subseteq Threads /\ \A c \in Clients : c \notin Ops
      /\ \A t \in Threads : t \in Ops \/ t \in Clients
  BY OperationConstants DEF Threads
<1>3. Stage(u)
  BY DEF AllStages
<1>4. \A o \in Ops : state[o] \in {"initialized", "enqueuing", "enqueued", "dispatching",
                                   "starting", "executing", "finishing", "finished"}
  BY <1>1 DEF Rank
<1>5. pc[u] \notin AddingLabels \cup {"changePriority", "cancelAll", "waitAll", "waitNext"}
  BY <1>3, <1>4 DEF Stage, AddingLabels
<1>6. ASSUME NEW t \in Threads, Prepare(t)
      PROVE  Stage(u)'
  <2>1. t \in Clients
    BY <1>2, <1>4, <1>6 DEF AllStages, Stage, Prepare
  <2>2. u # t /\ pc'[u] = pc[u] /\ local'[u] = local[u]
    BY <1>1, <1>2, <1>6, <2>1 DEF Prepare, Goto
  <2>3. CASE state'[u] = state[u]
    BY <1>3, <2>2, <2>3, StageKept
  <2>4. CASE state'[u] # state[u]
    <3>1. /\ u = Head(frame[t].pending) /\ state[u] = "initialized" /\ state'[u] = "enqueuing"
          /\ pc[t] = "prepare"
      BY <1>1, <1>6, <2>4 DEF Prepare
    <3>2. pc[u] = "idle"
      BY <1>3, <2>1, <3>1, HeadPending DEF Stage
    <3>3. local[u].after = "idle"
      BY <1>3, <3>1 DEF Stage
    <3> QED BY <2>2, <3>1, <3>2, <3>3 DEF Stage
  <2> QED BY <2>3, <2>4
<1>7. ASSUME NEW t \in Threads,
             \/ ReadReady(t) \/ WriteReady(t) \/ Adopt(t) \/ AppendBatch(t) \/ Linked(t)
             \/ LockForBarrier(t) \/ ChangePriority(t) \/ CancelledAll(t) \/ SnapshotAll(t)
      PROVE  Stage(u)'
  <2>1. u # t
    BY <1>5, <1>7
    DEF ReadReady, WriteReady, Adopt, AppendBatch, Linked, LockForBarrier, ChangePriority,
        CancelledAll, SnapshotAll, AddingLabels
  <2>2. pc'[u] = pc[u] /\ local'[u] = local[u] /\ state' = state
    BY <1>1, <1>2, <1>7, <2>1
    DEF ReadReady, WriteReady, Adopt, AppendBatch, Linked, LockForBarrier, ChangePriority,
        CancelledAll, SnapshotAll, Goto, status
  <2> QED BY <1>3, <2>2, StageKept
<1>8. ASSUME NEW t \in Threads, Link(t) \/ CancelNext(t) \/ WaitNext(t)
      PROVE  Stage(u)'
  <2>1. u # t
    BY <1>5, <1>8 DEF Link, CancelNext, WaitNext, AddingLabels
  <2>2. pc'[u] = pc[u] /\ local'[u] = local[u] /\ state' = state
    BY <1>1, <1>2, <1>8, <2>1 DEF Link, CancelNext, WaitNext, Enter, Goto, status
  <2> QED BY <1>3, <2>2, StageKept
<1>9. ASSUME NEW t \in Threads, Publish(t)
      PROVE  Stage(u)'
  <2>1. u # t
    BY <1>5, <1>9 DEF Publish, AddingLabels
  <2>2. pc'[u] = pc[u] /\ local'[u] = local[u]
    BY <1>1, <1>2, <1>9, <2>1 DEF Publish, Goto
  <2>3. \/ state'[u] = state[u]
        \/ state[u] = "enqueuing" /\ state'[u] = "enqueued"
    BY <1>1, <1>9 DEF Publish
  <2> QED BY <1>3, <2>2, <2>3 DEF Stage
<1>10. ASSUME NEW t \in Threads, SubmitBlock(t)
       PROVE  Stage(u)'
  <2>1. t \in Clients
    BY <1>2, <1>4, <1>10 DEF AllStages, Stage, SubmitBlock
  <2>2. PICK b \in Barriers : /\ frame[t].pending = <<b>> /\ state[b] = "initialized"
                              /\ pc[b] = "idle"
    BY <1>10, <2>1 DEF SubmitBlock, AllEnqueuing, Enqueuing, Fresh
  <2>3. Head(frame[t].pending) = b
    BY <2>2
  <2>4. local' = local /\ state' = state
    BY <1>10 DEF SubmitBlock, status
  <2>5. pc'[u] = (IF u = b THEN "queued" ELSE pc[u])
    BY <1>1, <1>2, <1>10, <2>1, <2>3 DEF SubmitBlock
  <2>6. CASE u = b
    BY <1>3, <2>2, <2>4, <2>5, <2>6 DEF Stage
  <2>7. CASE u # b
    BY <1>3, <2>4, <2>5, <2>7, StageKept
  <2> QED BY <2>6, <2>7
<1>11. ASSUME NEW t \in Threads,
              \/ Schedule(t) \/ EnterLevel(t) \/ LeaveLevel(t) \/ NotReady(t) \/ Probe(t)
              \/ ScheduleDone(t) \/ Retest(t) \/ RetestSet(t)
       PROVE  Stage(u)'
  <2>1. local' = local /\ state' = state
    BY <1>11 DEF Schedule, EnterLevel, LeaveLevel, NotReady, Probe, ScheduleDone, Retest,
                 RetestSet, status
  <2>2. u # t => pc'[u] = pc[u]
    BY <1>1, <1>2, <1>11
    DEF Schedule, EnterLevel, LeaveLevel, NotReady, Probe, ScheduleDone, Retest, RetestSet,
        RetestNext, Return, Goto
  <2>3. CASE u # t
    BY <1>3, <2>1, <2>2, <2>3, StageKept
  <2>4. CASE u = t
    <3>1. pc'[u] \in {"level", "visit", "probe", "retest", "retestSet", local[u].after}
      BY <1>1, <1>2, <1>11, <2>4
      DEF Schedule, EnterLevel, LeaveLevel, NotReady, Probe, ScheduleDone, Retest, RetestSet,
          RetestNext, Return, Goto
    <3>2. pc[u] \in {"schedule", "level", "visit", "probe", "retest", "retestSet"}
      BY <1>11, <2>4
      DEF Schedule, EnterLevel, LeaveLevel, NotReady, Probe, ScheduleDone, Retest, RetestSet
    <3> QED BY <1>3, <1>4, <2>1, <3>1, <3>2 DEF Stage
  <2> QED BY <2>3, <2>4
<1>12. ASSUME NEW t \in Threads, Dispatch(t)
       PROVE  Stage(u)'
  <2>1. /\ local' = local
        /\ u = Head(frame[t].walk) => state[u] = "enqueued"
        /\ state'[u] = (IF u = Head(frame[t].walk) THEN "dispatching" ELSE state[u])
        /\ pc'[u] = (IF u = Head(frame[t].walk) THEN "queued" ELSE pc[u])
    BY <1>1, <1>2, <1>12 DEF Dispatch
  <2>2. CASE u = Head(frame[t].walk)
    BY <1>3, <2>1, <2>2 DEF Stage
  <2>3. CASE u # Head(frame[t].walk)
    BY <1>3, <2>1, <2>3, StageKept
  <2> QED BY <2>2, <2>3
<1>13. ASSUME NEW o \in Ops,
              BeginItem(o) \/ Starting(o) \/ Retire(o) \/ Invalidate(o) \/ EndItem(o)
       PROVE  Stage(u)'
  <2>1. local' = local
    BY <1>13 DEF BeginItem, Starting, Retire, Invalidate, EndItem
  <2>2. CASE u # o
    BY <1>1, <1>2, <1>3, <1>13, <2>1, <2>2, StageKept
    DEF BeginItem, Starting, Retire, Invalidate, EndItem, Goto, status
  <2>3. CASE u = o
    BY <1>1, <1>2, <1>3, <1>4, <1>13, <2>1, <2>3
    DEF BeginItem, Starting, Retire, Invalidate, EndItem, Goto, status, Stage
  <2> QED BY <2>2, <2>3
<1>14. ASSUME NEW c \in Clients, QueueCall(c)
       PROVE  Stage(u)'
  <2>1. u # c /\ state' = state
    BY <1>2, <1>14
    DEF QueueCall, AddOperations, AddBarrierBlock, SetQueuePriority, SetMaxConcurrent,
        SetSuspended, CancelAllOperations, WaitUntilAllOperationsAreFinished, status
  <2>2. pc'[u] = pc[u] /\ local'[u] = local[u]
    BY <1>1, <1>2, <1>14, <2>1
    DEF QueueCall, AddOperations, AddBarrierBlock, SetQueuePriority, SetMaxConcurrent,
        SetSuspended, CancelAllOperations, WaitUntilAllOperationsAreFinished, Enter, Goto
  <2> QED BY <1>3, <2>1, <2>2, StageKept
<1> QED
  BY <1>6, <1>7, <1>8, <1>9, <1>10, <1>11, <1>12, <1>13, <1>14
  DEF QueueNext, QueueStep, ItemStep

-----------------------------------------------------------------------------
(* The steps of Operation, as the queue sees them.                             *)

\* A thread in a routine of the queue takes none of them.
LEMMA OpNextOutside ==
  QueueInv /\ OpNext =>
    \A u \in Threads : pc[u] \in QueueLabels => pc'[u] = pc[u] /\ local'[u] = local[u]
<1> SUFFICES ASSUME QueueInv, OpNext, NEW u \in Threads, pc[u] \in QueueLabels
             PROVE  pc'[u] = pc[u] /\ local'[u] = local[u]
  OBVIOUS
<1>1. pc \in [Threads -> Labels] /\ local \in [Threads -> Locals]
  BY DEF QueueInv, TypeOK, OpTypeOK
<1>2. Ops \subseteq Threads /\ Clients \subseteq Threads
  BY DEF Threads
<1>3. ASSUME NEW t \in Threads, CallStep(t) \/ SpuriousWakeup(t)
      PROVE  pc'[u] = pc[u] /\ local'[u] = local[u]
  <2>1. pc[t] \notin QueueLabels
    BY <1>3
    DEF CallStep, SpuriousWakeup, TestReady, SetReady, FetchQueue, AppendDependency, LockUp,
        LinkSelf, Find, UnlinkSelf, CancelUnlessFinished, MarkCancelled, TestExecuting,
        ClearCount, Wait, QueueLabels
  <2> QED BY <1>3, <2>1, CallStepKeeps
<1>4. ASSUME NEW o \in Ops, RunStep(o)
      PROVE  pc'[u] = pc[u] /\ local'[u] = local[u]
  <2>1. u # o
    BY <1>4
    DEF RunStep, CheckReady, Begin, Execute, Main, Detach, DetachUp, DetachSelf, Finishing,
        Finish, Notify, Finished, Ready, Broadcast, QueueLabels
  <2>2. local'[u] = local[u]
    BY <1>1, <1>2, <1>4, <2>1
    DEF RunStep, CheckReady, Begin, Execute, Main, Detach, DetachUp, DetachSelf, Finishing,
        Finish, Notify, Finished, Ready, Broadcast
  <2>3. pc'[u] = pc[u]
    BY <1>1, <1>2, <1>4, <2>1
    DEF RunStep, CheckReady, Begin, Execute, Main, Detach, DetachUp, DetachSelf, Finishing,
        Finish, Notify, Finished, Ready, Broadcast, Goto, Woken, QueueLabels
  <2> QED BY <2>2, <2>3
<1>5. ASSUME NEW c \in Clients, ClientCall(c)
      PROVE  pc'[u] = pc[u] /\ local'[u] = local[u]
  <2>1. pc[c] = "idle" /\ u # c
    BY <1>5 DEF ClientCall, AddDependency, RemoveDependency, Cancel, Start, WaitUntilFinished,
                Calls, QueueLabels
  <2>2. ASSUME NEW o \in Ops, Start(c, o)
        PROVE  pc'[u] = pc[u] /\ local'[u] = local[u]
    BY <1>1, <1>2, <2>2 DEF Start, Goto, QueueLabels
  <2> QED
    BY <1>1, <1>2, <1>5, <2>1, <2>2
    DEF ClientCall, AddDependency, RemoveDependency, Cancel, WaitUntilFinished, Enter, Goto
<1> QED BY <1>3, <1>4, <1>5 DEF OpNext

\* What they make of the states: they start operations that no queue has, though never
\* that of a barrier, and finish those that were started.
Executed(o) ==
  \/ state'[o] = state[o] /\ attached'[o] = attached[o]
  \/ /\ state[o] = "initialized" /\ state'[o] = "starting" /\ attached'[o] = attached[o]
     /\ o \notin Barriers
  \/ /\ state[o] \in {"starting", "executing"} /\ state'[o] \in {"executing", "finishing"}
     /\ attached'[o] = attached[o]
  \/ /\ state[o] = "finishing" /\ state'[o] = "finished" /\ pc'[o] = "ready"
     /\ local'[o].queued = attached[o]

LEMMA OpNextStates ==
  ASSUME QueueInv, AllStages, OpNext, NEW u \in Ops
  PROVE  Executed(u)
<1>1. /\ pc \in [Threads -> Labels] /\ local \in [Threads -> Locals]
      /\ state \in [Ops -> DOMAIN Rank] /\ attached \in [Ops -> BOOLEAN]
  BY DEF QueueInv, TypeOK, OpTypeOK
<1>2. Ops \subseteq Threads /\ Clients \subseteq Threads
  BY DEF Threads
<1>3. \A o \in Ops : Stage(o)
  BY DEF AllStages
<1>4. \A o \in Ops : state[o] \in {"initialized", "enqueuing", "enqueued", "dispatching",
                                   "starting", "executing", "finishing", "finished"}
  BY <1>1 DEF Rank
<1>5. ASSUME NEW t \in Threads, CallStep(t) \/ SpuriousWakeup(t)
      PROVE  Executed(u)
  <2>1. state' = state
    BY <1>5, CallStepKeeps
  <2>2. attached' = attached
    BY <1>5
    DEF CallStep, SpuriousWakeup, TestReady, SetReady, FetchQueue, AppendDependency, LockUp,
        LinkSelf, Find, UnlinkSelf, CancelUnlessFinished, MarkCancelled, TestExecuting,
        ClearCount, Wait, status
  <2> QED BY <2>1, <2>2 DEF Executed
<1>6. ASSUME NEW o \in Ops,
             \/ CheckReady(o) \/ Begin(o) \/ Main(o) \/ Detach(o) \/ DetachUp(o)
             \/ DetachSelf(o) \/ Finish(o) \/ Notify(o) \/ Ready(o) \/ Broadcast(o)
      PROVE  Executed(u)
  BY <1>6 DEF CheckReady, Begin, Main, Detach, DetachUp, DetachSelf, Finish, Notify, Ready,
              Broadcast, status, Executed
<1>7. ASSUME NEW o \in Ops, Execute(o)
      PROVE  Executed(u)
  <2>1. state[o] = "starting"
    BY <1>3, <1>4, <1>7 DEF Execute, Stage
  <2> QED BY <1>1, <1>7, <2>1 DEF Execute, Executed
<1>8. ASSUME NEW o \in Ops, Finishing(o)
      PROVE  Executed(u)
  <2>1. state[o] \in {"starting", "executing"}
    BY <1>3, <1>4, <1>8 DEF Finishing, Stage
  <2> QED BY <1>1, <1>8, <2>1 DEF Finishing, Executed
<1>9. ASSUME NEW o \in Ops, Finished(o)
      PROVE  Executed(u)
  <2>1. state[o] = "finishing"
    BY <1>3, <1>4, <1>9 DEF Finished, Stage
  <2>2. CASE u # o
    BY <1>1, <1>9, <2>2 DEF Finished, Executed
  <2>3. CASE u = o
    <3>1. pc'[o] = "ready" /\ state'[o] = "finished"
      BY <1>1, <1>2, <1>9 DEF Finished, Goto
    <3>2. local'[o].queued = attached[o]
      BY <1>1, <1>2, <1>9 DEF Finished, Locals
    <3> QED BY <2>1, <2>3, <3>1, <3>2 DEF Executed
  <2> QED BY <2>2, <2>3
<1>10. ASSUME NEW c \in Clients, NEW o \in Ops, Start(c, o)
       PROVE  Executed(u)
  <2>1. o \notin Barriers
    BY <1>10, QueueConstants DEF Start, Calls
  <2> QED BY <1>1, <1>10, <2>1 DEF Start, Executed
<1>11. ASSUME NEW c \in Clients, NEW o \in Ops, NEW up \in Ops,
              AddDependency(c, o, up) \/ RemoveDependency(c, o, up)
       PROVE  Executed(u)
  BY <1>11 DEF AddDependency, RemoveDependency, status, Executed
<1>12. ASSUME NEW c \in Clients, NEW o \in Ops, Cancel(c, o) \/ WaitUntilFinished(c, o)
       PROVE  Executed(u)
  BY <1>12 DEF Cancel, WaitUntilFinished, status, Executed
<1> QED
  BY <1>5, <1>6, <1>7, <1>8, <1>9, <1>10, <1>11, <1>12 DEF OpNext, RunStep, ClientCall

AllClaims == \A c \in Clients : Claim(c)

\* What the clients have in their hands.
Hands == AllEnqueuing /\ AllClaims /\ Disjoint /\ BarrierAlone

\* They keep it while others take the steps of Operation.
LEMMA OpHandsNext ==
  QueueInv /\ AllStages /\ Hands /\ OpNext /\ UNCHANGED queueVars => Hands'
<1> SUFFICES ASSUME QueueInv, AllStages, Hands, OpNext, UNCHANGED queueVars
             PROVE  Hands'
  OBVIOUS
<1>1. frame' = frame /\ operations' = operations
  BY DEF queueVars, queue
<1>2. \A c \in Clients : c \in Threads /\ local[c].after \in Returns
  BY DEF QueueInv, TypeOK, OpTypeOK, Locals, Threads
<1>3. Ops \subseteq Threads /\ Barriers \subseteq Ops
  BY OperationConstants DEF Threads
<1>4. \A c \in Clients : pc[c] \in QueueLabels => pc'[c] = pc[c] /\ local'[c] = local[c]
  BY <1>2, OpNextOutside
<1>5. \A c \in Clients :
        /\ pc'[c] \in CallLabels \cup RunLabels \cup {"schedule", "retire", pc[c], local[c].after}
        /\ local'[c].after \in {local[c].after, "idle", "ready", "exit"}
  BY <1>2, OpNextMoves, OpNextAfter DEF QueueInv, TypeOK, OpMoves, AfterKept
<1>6. \A c \in Clients :
        pc'[c] \in PreparingLabels \cup {"addBarrier", "submitBlock", "publish"} => pc[c] = pc'[c]
  BY <1>2, <1>5 DEF PreparingLabels, CallLabels, RunLabels, Returns
<1>7. \A o \in Ops : /\ state[o] = "enqueuing" => state'[o] = "enqueuing"
                     /\ state[o] = "enqueuing" /\ attached[o] => attached'[o]
                     /\ o \in Barriers /\ state[o] = "initialized" => state'[o] = "initialized"
  BY OpNextStates DEF Executed
<1>8. \A o \in Barriers : state[o] = "initialized" /\ pc[o] = "idle" => pc'[o] = "idle"
  <2> SUFFICES ASSUME NEW o \in Barriers, state[o] = "initialized", pc[o] = "idle"
               PROVE  pc'[o] = "idle"
    OBVIOUS
  <2>1. Stage(o)'
    BY <1>3, OpStageNext DEF AllStages
  <2>2. state'[o] = "initialized"
    BY <1>3, <1>7
  <2>3. pc'[o] \in CallLabels \cup RunLabels \cup {"schedule", "retire", pc[o], local[o].after}
    BY <1>3, OpNextMoves DEF QueueInv, TypeOK, OpMoves
  <2>4. local[o].after = "idle"
    BY <1>3 DEF AllStages, Stage
  <2>5. pc'[o] # "done"
    <3>1. ASSUME NEW t \in Threads, CallStep(t) \/ SpuriousWakeup(t), pc'[o] = "done"
          PROVE  FALSE
      <4>1. o = t
        BY <1>3, <3>1, CallStepKeeps
      <4> QED
        BY <3>1, <4>1
        DEF CallStep, SpuriousWakeup, TestReady, SetReady, FetchQueue, AppendDependency, LockUp,
            LinkSelf, Find, UnlinkSelf, CancelUnlessFinished, MarkCancelled, TestExecuting,
            ClearCount, Wait
    <3>2. ASSUME NEW p \in Ops, RunStep(p), pc'[o] = "done"
          PROVE  FALSE
      <4>1. pc \in [Threads -> Labels] /\ o \in Threads
        BY <1>3 DEF QueueInv, TypeOK, OpTypeOK
      <4>2. p # o
        BY <3>2
        DEF RunStep, CheckReady, Begin, Execute, Main, Detach, DetachUp, DetachSelf, Finishing,
            Finish, Notify, Finished, Ready, Broadcast
      <4> QED
        BY <3>2, <4>1, <4>2
        DEF RunStep, CheckReady, Begin, Execute, Main, Detach, DetachUp, DetachSelf, Finishing,
            Finish, Notify, Finished, Ready, Broadcast, Goto, Woken
    <3>3. ASSUME NEW c \in Clients, ClientCall(c), pc'[o] = "done"
          PROVE  FALSE
      <4>1. pc \in [Threads -> Labels] /\ o \in Threads /\ o \in Ops
        BY <1>3 DEF QueueInv, TypeOK, OpTypeOK
      <4> QED
        BY <3>3, <4>1 DEF ClientCall, AddDependency, RemoveDependency, Cancel, Start,
           WaitUntilFinished, Enter, Goto
    <3> QED BY <3>1, <3>2, <3>3 DEF OpNext
  <2> QED BY <2>1, <2>2, <2>3, <2>4, <2>5 DEF Stage, CallLabels, RunLabels
<1>9. \A c \in Clients : Fresh(c) => Fresh(c)'
  BY <1>1, <1>3, <1>7, <1>8 DEF Fresh
<1>10. \A c \in Clients : Added(c) => Added(c)'
  <2> SUFFICES ASSUME NEW c \in Clients, Added(c)
               PROVE  Added(c)'
    OBVIOUS
  <2>1. frame[c].pending \in Seq(Ops)
    BY <1>2 DEF QueueInv, TypeOK, Frames
  <2>2. ToSet(frame[c].pending) \subseteq Ops
    BY <2>1, ElementsOfList
  <2> QED BY <1>1, <1>7, <2>2 DEF Added
<1>11. \A c \in Clients : Linking(c)' => Linking(c)
  <2>1. \A c \in Clients : pc[c] # "fatal"
    BY <1>2 DEF OpNext, Running
  <2> QED
    BY <1>4, <1>5, <1>6, <2>1 DEF Linking, PreparingLabels, QueueLabels, CallLabels, RunLabels
<1>12. AllEnqueuing'
  <2> SUFFICES ASSUME NEW c \in Clients
               PROVE  Batched(c)' /\ Enqueuing(c)'
    BY DEF AllEnqueuing
  <2>1. Batched(c) /\ Enqueuing(c)
    BY DEF Hands, AllEnqueuing
  <2>2. Batched(c)'
    BY <1>1, <1>4, <1>6, <2>1 DEF Batched, Behind, PreparingLabels, QueueLabels
  <2>3. Enqueuing(c)'
    <3>1. pc'[c] = "submitBlock" => local'[c] = local[c]
      BY <1>4, <1>6 DEF QueueLabels
    <3> QED BY <1>1, <1>6, <1>9, <1>10, <1>11, <2>1, <3>1 DEF Enqueuing, PreparingLabels
  <2> QED BY <2>2, <2>3
<1>13. \A c \in Clients : /\ Prepared(c)' = Prepared(c) \/ Prepared(c)' = 0
                          /\ pc'[c] \in PreparingLabels => Adopted(c)' = Adopted(c)
                          /\ pc'[c] \notin PreparingLabels => Prepared(c)' = 0
  BY <1>1, <1>6 DEF Prepared, Adopted, Behind, PreparingLabels
<1>14. AllClaims'
  <2> SUFFICES ASSUME NEW c \in Clients, pc'[c] \in PreparingLabels
               PROVE  Claim(c)'
    BY <1>13 DEF AllClaims, Claim
  <2>1. Prepared(c)' = Prepared(c) /\ Adopted(c)' = Adopted(c)
    BY <1>1, <1>6, <1>13 DEF Prepared, Behind, PreparingLabels
  <2>2. \A i \in 1..Prepared(c) : frame[c].batch[i] \in Ops
    <3>1. frame[c].batch \in Seq(Ops) /\ frame[c].pending \in Seq(Ops)
      BY <1>2 DEF QueueInv, TypeOK, Frames
    <3>2. frame[c].pending # <<>>
      BY <1>2, <1>6 DEF QueueInv, Located, AddingLabels, PreparingLabels
    <3>3. Len(frame[c].batch) \in Nat /\ Len(frame[c].pending) \in Nat /\ Len(frame[c].pending) # 0
      BY <3>1, <3>2, LenProperties, EmptySeq
    <3>4. \A i \in 1..Prepared(c) : i \in 1..Len(frame[c].batch)
      BY <3>3 DEF Prepared, Behind
    <3> QED BY <3>1, <3>4, ElementOfSeq
  <2>3. Claim(c)
    BY DEF Hands, AllClaims
  <2> QED BY <1>1, <1>7, <2>1, <2>2, <2>3 DEF Claim
<1>15. Disjoint'
  BY <1>1, <1>13 DEF Hands, Disjoint
<1>16. BarrierAlone'
  BY <1>1 DEF Hands, BarrierAlone
<1> QED BY <1>12, <1>14, <1>15, <1>16 DEF Hands

AllMembers == \A o \in Ops : Member(o)

\* A step of Operation keeps what is known of the main list.
LEMMA OpMembersNext ==
  QueueInv /\ AllStages /\ AllMembers /\ OpNext /\ UNCHANGED queueVars => AllMembers'
<1> SUFFICES ASSUME QueueInv, AllStages, AllMembers, OpNext, UNCHANGED queueVars, NEW u \in Ops
             PROVE  Member(u)'
  BY DEF AllMembers
<1>1. /\ pc \in [Threads -> Labels] /\ local \in [Threads -> Locals]
      /\ state \in [Ops -> DOMAIN Rank] /\ attached \in [Ops -> BOOLEAN]
  BY DEF QueueInv, TypeOK, OpTypeOK
<1>2. /\ Ops \subseteq Threads /\ Clients \subseteq Threads /\ \A c \in Clients : c \notin Ops
  BY OperationConstants DEF Threads
<1>3. operations' = operations
  BY DEF queueVars, queue
<1>4. Stage(u) /\ Member(u) /\ Executed(u)
  BY OpNextStates DEF AllStages, AllMembers
<1>5. CASE state[u] # "finished"
  <2>1. CASE state'[u] # "finished"
    BY <1>3, <1>4, <1>5, <2>1 DEF Executed, Member
  <2>2. CASE state'[u] = "finished"
    <3>1. /\ state[u] = "finishing" /\ pc'[u] = "ready" /\ local'[u].queued = attached[u]
      BY <1>4, <1>5, <2>2 DEF Executed
    <3> QED BY <1>1, <1>3, <1>4, <2>2, <3>1 DEF Member
  <2> QED BY <2>1, <2>2
<1>6. CASE state[u] = "finished"
  <2>1. state'[u] = "finished"
    BY <1>4, <1>6 DEF Executed
  <2> DEFINE here == local[u].queued /\ (pc[u] \in {"ready", "retire"} \/ local[u].after = "ready")
  <2>2. u \in ToSet(operations) <=> here
    BY <1>4, <1>6 DEF Member
  <2>3. SUFFICES here' <=> here
    BY <1>3, <2>1, <2>2 DEF Member
  <2>4. ASSUME NEW t \in Threads, CallStep(t) \/ SpuriousWakeup(t)
        PROVE  here' <=> here
    <3>1. local'[u].queued = local[u].queued /\ local'[u].after = local[u].after
      BY <1>2, <2>4, CallStepKeeps
    <3>2. CASE u # t
      <4>1. pc'[u] = pc[u]
        BY <1>2, <2>4, <3>2, CallStepKeeps
      <4> QED BY <3>1, <4>1
    <3>3. CASE u = t
      <4>1. pc[u] \in {"testReady", "setReady", "fetchQueue"}
        BY <1>4, <1>6, <2>4, <3>3
        DEF Stage, CallStep, SpuriousWakeup, TestReady, SetReady, FetchQueue, AppendDependency,
            LockUp, LinkSelf, Find, UnlinkSelf, CancelUnlessFinished, MarkCancelled,
            TestExecuting, ClearCount, Wait
      <4>2. pc'[u] \in {"setReady", "fetchQueue", "schedule", local[u].after}
        BY <1>1, <1>2, <2>4, <3>3, <4>1
        DEF CallStep, SpuriousWakeup, TestReady, SetReady, FetchQueue, AppendDependency, LockUp,
            LinkSelf, Find, UnlinkSelf, CancelUnlessFinished, MarkCancelled, TestExecuting,
            ClearCount, Wait, Goto
      <4>3. local[u].after \in {"ready", "exit"}
        BY <1>4, <1>6, <4>1 DEF Stage
      <4> QED BY <3>1, <4>1, <4>2, <4>3
    <3> QED BY <3>2, <3>3
  <2>5. ASSUME NEW o \in Ops, RunStep(o)
        PROVE  here' <=> here
    <3>1. CASE u # o
      <4>1. local'[u] = local[u]
        BY <1>1, <1>2, <2>5, <3>1
        DEF RunStep, CheckReady, Begin, Execute, Main, Detach, DetachUp, DetachSelf, Finishing,
            Finish, Notify, Finished, Ready, Broadcast
      <4>2. pc[u] # "asleep"
        BY <1>4, <1>6 DEF Stage
      <4>3. pc'[u] = pc[u]
        BY <1>1, <1>2, <2>5, <3>1, <4>2
        DEF RunStep, CheckReady, Begin, Execute, Main, Detach, DetachUp, DetachSelf, Finishing,
            Finish, Notify, Finished, Ready, Broadcast, Goto, Woken
      <4> QED BY <4>1, <4>3
    <3>2. CASE u = o /\ Ready(o)
      <4>1. PICK d, r : local' = [local EXCEPT ![o].ready = r, ![o].subject = d, ![o].after = "ready"]
        BY <3>2 DEF Ready
      <4>2. local'[o].after = "ready" /\ local'[o].queued = local[o].queued /\ pc[o] = "ready"
        BY <1>1, <1>2, <3>2, <4>1 DEF Locals, Ready
      <4> QED BY <3>2, <4>2
    <3>3. CASE u = o /\ Broadcast(o)
      <4>1. local'[o].after = "exit" /\ local'[o].queued = local[o].queued /\ pc[o] = "ready"
        BY <1>1, <1>2, <3>3 DEF Locals, Broadcast
      <4>2. pc'[o] = (IF local[o].queued THEN "retire" ELSE "done")
        BY <1>1, <1>2, <3>3 DEF Broadcast
      <4>3. local[o].queued \in BOOLEAN
        BY <1>1, <1>2 DEF Locals
      <4> QED BY <3>3, <4>1, <4>2, <4>3
    <3>4. CASE u = o /\ ~Ready(o) /\ ~Broadcast(o)
      <4>1. pc[u] \in {"checkReady", "begin", "execute", "main", "detach", "detachNext",
                       "detachSelf", "finishing", "finish", "notify"}
        BY <2>5, <3>4
        DEF RunStep, CheckReady, Begin, Execute, Main, Detach, DetachUp, DetachSelf, Finishing,
            Finish, Notify, Finished
      <4> QED BY <1>4, <1>6, <4>1 DEF Stage
    <3> QED BY <3>1, <3>2, <3>3, <3>4
  <2>6. ASSUME NEW c \in Clients, ClientCall(c)
        PROVE  here' <=> here
    <3>1. ASSUME NEW o \in Ops, Start(c, o)
          PROVE  local'[u] = local[u] /\ pc'[u] = pc[u]
      <4>1. u # o
        BY <1>6, <3>1 DEF Start
      <4> QED BY <1>1, <1>2, <3>1, <4>1 DEF Start, Goto
    <3>2. local'[u] = local[u] /\ pc'[u] = pc[u]
      BY <1>1, <1>2, <2>6, <3>1
      DEF ClientCall, AddDependency, RemoveDependency, Cancel, WaitUntilFinished, Enter, Goto
    <3> QED BY <3>2
  <2> QED BY <2>4, <2>5, <2>6 DEF OpNext
<1> QED BY <1>5, <1>6

-----------------------------------------------------------------------------
(* The clients that enqueue operations.                                        *)

\* A client stays where it is, goes from one reading to the next, or leaves the routines
\* in which it has operations in its hands.
Stays(c) ==
  \/ pc'[c] = pc[c] /\ local'[c] = local[c]
  \/ /\ pc[c] \in {"readReady", "writeReady"} /\ pc'[c] \in {"writeReady", "adopt"}
     /\ local'[c].subject = local[c].subject
  \/ /\ pc'[c] \notin PreparingLabels \cup {"addBarrier", "submitBlock", "publish"}
     /\ Linking(c)' => Linking(c)

\* What a client that a step is not about has in its hands, it keeps.
LEMMA ClientKept ==
  ASSUME NEW c \in Clients, Batched(c), Claim(c), Enqueuing(c), Stays(c),
         frame'[c].batch = frame[c].batch, frame'[c].pending = frame[c].pending,
         \A i \in 1..Prepared(c) :
           /\ state'[frame[c].batch[i]] = "enqueuing"
           /\ attached[frame[c].batch[i]] => attached'[frame[c].batch[i]]
           /\ frame[c].batch[i] \notin ToSet(operations'),
         Linking(c) => \A o \in ToSet(frame[c].pending) :
           state[o] = "enqueuing" /\ o \in ToSet(operations) /\ attached[o]
             => state'[o] = "enqueuing" /\ o \in ToSet(operations') /\ attached'[o],
         \A b \in Barriers : frame[c].batch = <<b>> /\ state[b] = "initialized" /\ pc[b] = "idle"
             => state'[b] = "initialized" /\ pc'[b] = "idle"
  PROVE  /\ Batched(c)' /\ Claim(c)' /\ Enqueuing(c)'
         /\ Prepared(c)' \in {Prepared(c), 0}
<1>1. Batched(c)'
  <2>1. Behind(c)' = Behind(c)
    BY DEF Behind
  <2>2. pc'[c] \in PreparingLabels =>
          /\ pc[c] \in PreparingLabels
          /\ pc'[c] = pc[c] \/ (pc[c] \in {"readReady", "writeReady"} /\ pc'[c] \in {"writeReady", "adopt"})
          /\ local'[c].subject = local[c].subject
    BY DEF Stays, PreparingLabels
  <2> QED BY <2>1, <2>2 DEF Batched, PreparingLabels
<1>2. Fresh(c) => Fresh(c)'
  BY DEF Fresh
<1>3. Linking(c) /\ Added(c) => Added(c)'
  BY DEF Added
<1>4. Enqueuing(c)'
  <2>1. CASE pc'[c] = pc[c] /\ local'[c] = local[c]
    <3>1. Linking(c)' <=> Linking(c)
      BY <2>1 DEF Linking
    <3>2. pc[c] = "publish" => Linking(c)
      BY DEF Linking
    <3> QED BY <1>2, <1>3, <2>1, <3>1, <3>2 DEF Enqueuing
  <2>2. CASE pc[c] \in {"readReady", "writeReady"} /\ pc'[c] \in {"writeReady", "adopt"}
    BY <2>2 DEF Enqueuing, Linking, PreparingLabels
  <2>3. CASE /\ pc'[c] \notin PreparingLabels \cup {"addBarrier", "submitBlock", "publish"}
             /\ Linking(c)' => Linking(c)
    BY <1>2, <1>3, <2>3 DEF Enqueuing, PreparingLabels
  <2> QED BY <2>1, <2>2, <2>3 DEF Stays
<1>5. CASE Prepared(c)' = Prepared(c) /\ (Prepared(c) = 0 \/ Adopted(c)' = Adopted(c))
  <2>1. Claim(c)'
    BY <1>5 DEF Claim
  <2> QED BY <1>1, <1>4, <1>5, <2>1
<1>6. CASE Prepared(c)' = 0
  <2>1. Claim(c)'
    BY <1>6 DEF Claim
  <2> QED BY <1>1, <1>4, <1>6, <2>1
<1>7. \/ Prepared(c)' = 0
      \/ Prepared(c)' = Prepared(c) /\ Adopted(c)' = Adopted(c)
  BY DEF Stays, Prepared, Adopted, Behind, PreparingLabels
<1> QED BY <1>5, <1>6, <1>7

\* A step that enqueues nothing, and leaves alone what is being enqueued.
LEMMA HandsKept ==
  ASSUME QueueInv, Hands,
         \A c \in Clients : /\ Stays(c)
                            /\ frame'[c].batch = frame[c].batch
                            /\ frame'[c].pending = frame[c].pending,
         \A o \in Ops : state[o] = "enqueuing" =>
           /\ state'[o] = "enqueuing" /\ (attached[o] => attached'[o])
           /\ o \in ToSet(operations') <=> o \in ToSet(operations),
         \A b \in Barriers : state[b] = "initialized" /\ pc[b] = "idle"
             => state'[b] = "initialized" /\ pc'[b] = "idle"
  PROVE  Hands'
<1>1. ASSUME NEW c \in Clients
      PROVE  /\ Batched(c)' /\ Claim(c)' /\ Enqueuing(c)'
             /\ Prepared(c)' \in {Prepared(c), 0}
  <2>1. Batched(c) /\ Claim(c) /\ Enqueuing(c)
    BY DEF Hands, AllEnqueuing, AllClaims
  <2>2. /\ frame[c].batch \in Seq(Ops) /\ frame[c].pending \in Seq(Ops)
        /\ frame[c].pending # <<>> \/ pc[c] \notin PreparingLabels
    BY DEF QueueInv, TypeOK, Frames, Located, AddingLabels, PreparingLabels, Threads
  <2>3. /\ Len(frame[c].batch) \in Nat /\ Len(frame[c].pending) \in Nat
        /\ Len(frame[c].pending) # 0 \/ pc[c] \notin PreparingLabels
    BY <2>2, LenProperties, EmptySeq
  <2>4. \A i \in 1..Prepared(c) : i \in 1..Len(frame[c].batch)
    BY <2>3 DEF Prepared, Behind, PreparingLabels
  <2>5. \A i \in 1..Prepared(c) : frame[c].batch[i] \in Ops
    BY <2>2, <2>4, ElementOfSeq
  <2>6. ToSet(frame[c].pending) \subseteq Ops
    BY <2>2, ElementsOfList
  <2>7. \A i \in 1..Prepared(c) :
           /\ state'[frame[c].batch[i]] = "enqueuing"
           /\ attached[frame[c].batch[i]] => attached'[frame[c].batch[i]]
           /\ frame[c].batch[i] \notin ToSet(operations')
    BY <2>1, <2>5 DEF Claim
  <2>8. \A o \in ToSet(frame[c].pending) :
           state[o] = "enqueuing" /\ o \in ToSet(operations) /\ attached[o]
             => state'[o] = "enqueuing" /\ o \in ToSet(operations') /\ attached'[o]
    BY <2>6
  <2> QED BY <2>1, <2>7, <2>8, ClientKept
<1>2. AllEnqueuing' /\ AllClaims'
  BY <1>1 DEF AllEnqueuing, AllClaims
<1>3. Disjoint'
  BY <1>1 DEF Hands, Disjoint
<1>4. BarrierAlone'
  BY DEF Hands, BarrierAlone
<1> QED BY <1>2, <1>3, <1>4 DEF Hands

\* The steps that enqueue operations.
Enqueues(t) ==
  \/ Prepare(t) \/ Adopt(t) \/ AppendBatch(t) \/ Linked(t) \/ Publish(t)
  \/ LockForBarrier(t) \/ SubmitBlock(t)

Reads(t) == ReadReady(t) \/ WriteReady(t)

\* The steps of _schedule().
Schedules(t) ==
  \/ Schedule(t) \/ EnterLevel(t) \/ LeaveLevel(t) \/ Dispatch(t) \/ NotReady(t)
  \/ Probe(t) \/ ScheduleDone(t) \/ Retest(t) \/ RetestSet(t)

\* The other steps of a thread in the queue.
Others(t) ==
  \/ Link(t) \/ ChangePriority(t) \/ CancelNext(t) \/ CancelledAll(t) \/ SnapshotAll(t)
  \/ WaitNext(t)

\* The calls that enqueue nothing.
OtherCall(c) ==
  \/ \E o \in Ops : \E k \in Levels : SetQueuePriority(c, o, k)
  \/ \E max \in 0..Unlimited : SetMaxConcurrent(c, max)
  \/ \E newValue \in BOOLEAN : SetSuspended(c, newValue)
  \/ CancelAllOperations(c)
  \/ WaitUntilAllOperationsAreFinished(c)

\* All of them have the same batch after the steps that enqueue nothing.
LEMMA QuietBatch ==
  ASSUME QueueInv, NEW u \in Threads,
         \/ \E t \in Threads : Reads(t) \/ Schedules(t) \/ Others(t)
         \/ \E o \in Ops : ItemStep(o)
         \/ \E c \in Clients : OtherCall(c)
  PROVE  frame'[u].batch = frame[u].batch /\ frame'[u].pending = frame[u].pending
<1>1. frame \in [Threads -> Frames]
  BY DEF QueueInv, TypeOK
<1>2. \A c \in Clients : c \in Threads
  BY DEF Threads
<1> DEFINE same == frame'[u].batch = frame[u].batch /\ frame'[u].pending = frame[u].pending
<1>3. ASSUME NEW t \in Threads, Reads(t)
      PROVE  same
  BY <1>1, <1>3 DEF Reads, ReadReady, WriteReady, queueVars, Frames
<1>4. ASSUME NEW t \in Threads, Schedule(t)
      PROVE  same
  BY <1>1, <1>4 DEF Schedule, Frames
<1>5. ASSUME NEW t \in Threads, EnterLevel(t)
      PROVE  same
  BY <1>1, <1>5 DEF EnterLevel, Frames
<1>6. ASSUME NEW t \in Threads, LeaveLevel(t)
      PROVE  same
  BY <1>1, <1>6 DEF LeaveLevel, Frames
<1>7. ASSUME NEW t \in Threads, Dispatch(t)
      PROVE  same
  BY <1>1, <1>7 DEF Dispatch, Frames
<1>8. ASSUME NEW t \in Threads, NotReady(t)
      PROVE  same
  BY <1>1, <1>8 DEF NotReady, queueVars, Frames
<1>9. ASSUME NEW t \in Threads, Probe(t)
      PROVE  same
  BY <1>1, <1>9 DEF Probe, Frames
<1>10. ASSUME NEW t \in Threads, ScheduleDone(t)
       PROVE  same
  BY <1>1, <1>10 DEF ScheduleDone, Frames
<1>11. ASSUME NEW t \in Threads, Retest(t)
       PROVE  same
  <2>1. frame' = frame \/ frame' = [frame EXCEPT ![t].retest = Tail(@)]
    BY <1>11, Zenon DEF Retest
  <2>2. CASE frame' = frame
    BY <2>2
  <2>3. CASE frame' = [frame EXCEPT ![t].retest = Tail(@)]
    BY <1>1, <2>3 DEF Frames
  <2> QED BY <2>1, <2>2, <2>3
<1>12. ASSUME NEW t \in Threads, RetestSet(t)
       PROVE  same
  BY <1>1, <1>12 DEF RetestSet, Frames
<1>13. ASSUME NEW t \in Threads, Link(t)
       PROVE  same
  BY <1>1, <1>13 DEF Link, Frames
<1>14. ASSUME NEW t \in Threads, ChangePriority(t)
       PROVE  same
  BY <1>1, <1>14 DEF ChangePriority, Frames
<1>15. ASSUME NEW t \in Threads, CancelNext(t) \/ CancelledAll(t) \/ SnapshotAll(t) \/ WaitNext(t)
       PROVE  same
  <2>1. \/ frame' = frame
        \/ frame' = [frame EXCEPT ![t].snapshot = Tail(@)]
        \/ frame' = [frame EXCEPT ![t].snapshot = operations]
    BY <1>15, Zenon DEF CancelNext, CancelledAll, SnapshotAll, WaitNext, queueVars
  <2>2. CASE frame' = frame
    BY <2>2
  <2>3. CASE frame' = [frame EXCEPT ![t].snapshot = Tail(@)]
    BY <1>1, <2>3 DEF Frames
  <2>4. CASE frame' = [frame EXCEPT ![t].snapshot = operations]
    BY <1>1, <2>4 DEF Frames
  <2> QED BY <2>1, <2>2, <2>3, <2>4
<1>16. ASSUME NEW o \in Ops, ItemStep(o)
       PROVE  same
  BY <1>1, <1>16
  DEF ItemStep, BeginItem, Starting, Retire, Invalidate, EndItem, queueVars, Frames
<1>17. ASSUME NEW c \in Clients, NEW o \in Ops, NEW k \in Levels, SetQueuePriority(c, o, k)
       PROVE  same
  <2>1. PICK n : frame' = [frame EXCEPT ![c].level = n]
    BY <1>17 DEF SetQueuePriority
  <2> QED BY <1>1, <1>2, <2>1 DEF Frames
<1>18. ASSUME NEW c \in Clients, CancelAllOperations(c)
       PROVE  same
  BY <1>1, <1>2, <1>18 DEF CancelAllOperations, Frames
<1>19. ASSUME NEW c \in Clients,
              \/ \E max \in 0..Unlimited : SetMaxConcurrent(c, max)
              \/ \E newValue \in BOOLEAN : SetSuspended(c, newValue)
              \/ WaitUntilAllOperationsAreFinished(c)
       PROVE  same
  <2>1. frame' = frame
    BY <1>19, Zenon DEF SetMaxConcurrent, SetSuspended, WaitUntilAllOperationsAreFinished, queueVars
  <2> QED BY <2>1
<1> HIDE DEF same
<1>20. same
  BY <1>3, <1>4, <1>5, <1>6, <1>7, <1>8, <1>9, <1>10, <1>11, <1>12, <1>13, <1>14, <1>15, <1>16,
     <1>17, <1>18, <1>19
  DEF Schedules, Others, OtherCall
<1> QED BY <1>20 DEF same

\* A thread that enters a routine is at its beginning, with its arguments.
LEMMA EnterKeeps ==
  ASSUME pc \in [Threads -> Labels], local \in [Threads -> Locals], NEW t \in Threads,
         NEW o, NEW up, NEW a, NEW label, Enter(t, o, up, a, label)
  PROVE  /\ pc'[t] = label /\ local'[t].after = a
         /\ \A u \in Threads : u # t => pc'[u] = pc[u] /\ local'[u] = local[u]
BY DEF Enter, Goto, Locals

\* Those steps leave the clients that enqueue where they are ...
LEMMA QuietStays ==
  ASSUME QueueInv, AllStages, NEW c \in Clients,
         \/ \E t \in Threads : Reads(t) \/ Schedules(t) \/ Others(t)
         \/ \E o \in Ops : ItemStep(o)
         \/ \E d \in Clients : OtherCall(d)
  PROVE  Stays(c)
<1>1. pc \in [Threads -> Labels] /\ local \in [Threads -> Locals]
  BY DEF QueueInv, TypeOK, OpTypeOK
<1>2. /\ Ops \subseteq Threads /\ Clients \subseteq Threads /\ \A d \in Clients : d \notin Ops
      /\ local[c].after \in Returns
  BY <1>1, OperationConstants DEF Threads, Locals
<1>3. ASSUME NEW t \in Threads, Reads(t)
      PROVE  Stays(c)
  <2>1. CASE c # t
    BY <1>1, <1>2, <1>3, <2>1 DEF Reads, ReadReady, WriteReady, Goto, Stays
  <2>2. CASE c = t
    <3>1. \E f : local' = [local EXCEPT ![t].flag = f]
      BY <1>3, Zenon DEF Reads, ReadReady, WriteReady
    <3>2. local'[c].subject = local[c].subject
      BY <1>1, <1>2, <2>2, <3>1 DEF Locals
    <3> QED BY <1>1, <1>2, <1>3, <2>2, <3>2 DEF Reads, ReadReady, WriteReady, Goto, Stays
  <2> QED BY <2>1, <2>2
<1>4. ASSUME NEW t \in Threads, Schedules(t)
      PROVE  Stays(c)
  <2>1. local' = local
    BY <1>4, Zenon DEF Schedules, Schedule, EnterLevel, LeaveLevel, Dispatch, NotReady, Probe,
       ScheduleDone, Retest, RetestSet
  <2>2. ASSUME c # t PROVE pc'[c] = pc[c]
    <3>1. CASE Dispatch(t)
      <4>1. Head(frame[t].walk) # c
        <5>1. frame[t].walk \in Seq(Ops)
          BY DEF QueueInv, TypeOK, Frames
        <5>2. Head(frame[t].walk) \in Ops
          BY <3>1, <5>1, HeadTailProperties DEF Dispatch
        <5> QED BY <1>2, <5>2
      <4> QED BY <1>1, <1>2, <3>1, <4>1 DEF Dispatch
    <3>2. CASE Schedule(t) \/ EnterLevel(t) \/ LeaveLevel(t) \/ NotReady(t) \/ Probe(t)
      BY <1>1, <1>2, <2>2, <3>2 DEF Schedule, EnterLevel, LeaveLevel, NotReady, Probe, Goto
    <3>3. CASE ScheduleDone(t) \/ Retest(t) \/ RetestSet(t)
      BY <1>1, <1>2, <2>2, <3>3 DEF ScheduleDone, Retest, RetestSet, RetestNext, Return, Goto
    <3> QED BY <1>4, <3>1, <3>2, <3>3 DEF Schedules
  <2>3. ASSUME c = t
        PROVE  /\ pc[c] \in {"schedule", "level", "visit", "probe", "retest", "retestSet"}
               /\ pc'[c] \in {"level", "visit", "probe", "retest", "retestSet", local[c].after}
    <3>1. CASE Dispatch(t)
      <4>1. Head(frame[t].walk) # c
        <5>1. frame[t].walk \in Seq(Ops)
          BY DEF QueueInv, TypeOK, Frames
        <5>2. Head(frame[t].walk) \in Ops
          BY <3>1, <5>1, HeadTailProperties DEF Dispatch
        <5> QED BY <1>2, <5>2
      <4> QED BY <1>1, <1>2, <2>3, <3>1, <4>1 DEF Dispatch
    <3>2. CASE Schedule(t) \/ EnterLevel(t) \/ LeaveLevel(t) \/ NotReady(t) \/ Probe(t)
      BY <1>1, <1>2, <2>3, <3>2 DEF Schedule, EnterLevel, LeaveLevel, NotReady, Probe, Goto
    <3>3. CASE ScheduleDone(t) \/ Retest(t) \/ RetestSet(t)
      BY <1>1, <1>2, <2>3, <3>3 DEF ScheduleDone, Retest, RetestSet, RetestNext, Return, Goto
    <3> QED BY <1>4, <3>1, <3>2, <3>3 DEF Schedules
  <2> QED BY <1>2, <2>1, <2>2, <2>3 DEF Stays, Linking, PreparingLabels, Returns
<1>5. ASSUME NEW t \in Threads, Others(t)
      PROVE  Stays(c)
  <2>1. CASE Link(t) \/ CancelNext(t) \/ (WaitNext(t) /\ frame[t].snapshot # <<>>)
    <3>1. PICK x, y : \/ Enter(t, x, y, "link", "append") /\ pc[t] = "link"
                      \/ Enter(t, x, y, "cancelAll", "cancel")
                      \/ Enter(t, x, y, "waitNext", "wait")
      BY <2>1, Zenon DEF Link, CancelNext, WaitNext
    <3>2. /\ \/ pc'[t] = "append" /\ local'[t].after = "link" /\ pc[t] = "link"
             \/ pc'[t] = "cancel" /\ local'[t].after = "cancelAll"
             \/ pc'[t] = "wait" /\ local'[t].after = "waitNext"
          /\ c # t => pc'[c] = pc[c] /\ local'[c] = local[c]
      BY <1>1, <1>2, <3>1, EnterKeeps
    <3> QED BY <3>2 DEF Stays, Linking, PreparingLabels
  <2>2. CASE \/ ChangePriority(t) \/ CancelledAll(t) \/ SnapshotAll(t)
             \/ (WaitNext(t) /\ frame[t].snapshot = <<>>)
    <3>1. local' = local /\ pc[t] \in {"changePriority", "cancelAll", "waitAll", "waitNext"}
      BY <2>2, Zenon DEF ChangePriority, CancelledAll, SnapshotAll, WaitNext
    <3>2. \E l \in {"idle", "waitAll", "waitNext"} : pc' = [pc EXCEPT ![t] = l]
      BY <2>2 DEF ChangePriority, CancelledAll, SnapshotAll, WaitNext, Goto
    <3>3. /\ pc'[t] \in {"idle", "waitAll", "waitNext"}
          /\ c # t => pc'[c] = pc[c]
      BY <1>1, <1>2, <3>2
    <3> QED BY <3>1, <3>3 DEF Stays, Linking, PreparingLabels
  <2> QED BY <1>5, <2>1, <2>2 DEF Others
<1>6. ASSUME NEW o \in Ops, ItemStep(o)
      PROVE  Stays(c)
  BY <1>1, <1>2, <1>6
  DEF ItemStep, BeginItem, Starting, Retire, Invalidate, EndItem, Goto, Stays
<1>7. ASSUME NEW d \in Clients, OtherCall(d)
      PROVE  Stays(c)
  <2>1. pc[d] = "idle" /\ d \in Threads
    BY <1>2, <1>7, Zenon
    DEF OtherCall, SetQueuePriority, SetMaxConcurrent, SetSuspended, CancelAllOperations,
        WaitUntilAllOperationsAreFinished, Calls
  <2>2. CASE \/ CancelAllOperations(d) \/ WaitUntilAllOperationsAreFinished(d)
    <3>1. local' = local
      BY <2>2 DEF CancelAllOperations, WaitUntilAllOperationsAreFinished
    <3>2. /\ pc'[d] \in {"cancelAll", "waitAll"}
          /\ c # d => pc'[c] = pc[c]
      BY <1>1, <1>2, <2>2 DEF CancelAllOperations, WaitUntilAllOperationsAreFinished, Goto
    <3> QED BY <2>1, <3>1, <3>2 DEF Stays, Linking, PreparingLabels
  <2>3. CASE ~(CancelAllOperations(d) \/ WaitUntilAllOperationsAreFinished(d))
    <3>1. \E x, l : Enter(d, x, None, "idle", l) /\ l \in {"idle", "schedule", "changePriority"}
      BY <1>7, <2>3 DEF OtherCall, SetQueuePriority, SetMaxConcurrent, SetSuspended
    <3>2. /\ pc'[d] \in {"idle", "schedule", "changePriority"} /\ local'[d].after = "idle"
          /\ c # d => pc'[c] = pc[c] /\ local'[c] = local[c]
      BY <1>1, <1>2, <2>1, <3>1, EnterKeeps
    <3> QED BY <3>2 DEF Stays, Linking, PreparingLabels
  <2> QED BY <2>2, <2>3
<1> QED BY <1>3, <1>4, <1>5, <1>6, <1>7

\* The threads that do not take them stay where they are.
LEMMA OthersElsewhere ==
  ASSUME QueueInv, NEW t \in Threads, Others(t) \/ OtherCall(t), NEW u \in Threads, u # t
  PROVE  pc'[u] = pc[u] /\ local'[u] = local[u]
<1>1. pc \in [Threads -> Labels] /\ local \in [Threads -> Locals]
  BY DEF QueueInv, TypeOK, OpTypeOK
<1>2. CASE \/ Link(t) \/ CancelNext(t) \/ (WaitNext(t) /\ frame[t].snapshot # <<>>)
           \/ (OtherCall(t) /\ ~CancelAllOperations(t) /\ ~WaitUntilAllOperationsAreFinished(t))
  <2>1. PICK x, y, a, l : Enter(t, x, y, a, l)
    BY <1>2, Zenon
    DEF Link, CancelNext, WaitNext, OtherCall, SetQueuePriority, SetMaxConcurrent, SetSuspended
  <2> QED BY <1>1, <2>1, EnterKeeps
<1>3. CASE \/ ChangePriority(t) \/ CancelledAll(t) \/ SnapshotAll(t)
           \/ (WaitNext(t) /\ frame[t].snapshot = <<>>)
           \/ CancelAllOperations(t) \/ WaitUntilAllOperationsAreFinished(t)
  <2>1. local' = local
    BY <1>3, Zenon DEF ChangePriority, CancelledAll, SnapshotAll, WaitNext, CancelAllOperations,
       WaitUntilAllOperationsAreFinished
  <2>2. PICK l : pc' = [pc EXCEPT ![t] = l]
    BY <1>3 DEF ChangePriority, CancelledAll, SnapshotAll, WaitNext, CancelAllOperations,
       WaitUntilAllOperationsAreFinished, Goto
  <2> QED BY <1>1, <2>1, <2>2
<1> QED BY <1>2, <1>3 DEF Others

\* _schedule() ends where it was called from.
LEMMA ScheduleMoves ==
  ASSUME QueueInv, NEW t \in Threads, Schedules(t), ~Dispatch(t)
  PROVE  /\ local' = local /\ state' = state /\ attached' = attached
         /\ operations' = operations
         /\ \A u \in Threads : u # t => pc'[u] = pc[u]
         /\ pc[t] \in {"schedule", "level", "visit", "probe", "retest", "retestSet"}
         /\ pc'[t] \in {"level", "visit", "probe", "retest", "retestSet", local[t].after}
<1>1. pc \in [Threads -> Labels]
  BY DEF QueueInv, TypeOK, OpTypeOK
<1>2. local' = local /\ state' = state /\ attached' = attached /\ operations' = operations
  BY Zenon DEF Schedules, Schedule, EnterLevel, LeaveLevel, NotReady, Probe, ScheduleDone,
     Retest, RetestSet, status, queueVars, queue
<1>3. CASE Schedule(t) \/ EnterLevel(t) \/ LeaveLevel(t) \/ NotReady(t) \/ Probe(t)
  BY <1>1, <1>2, <1>3 DEF Schedule, EnterLevel, LeaveLevel, NotReady, Probe, Goto
<1>4. CASE ScheduleDone(t) \/ Retest(t) \/ RetestSet(t)
  BY <1>1, <1>2, <1>4 DEF ScheduleDone, Retest, RetestSet, RetestNext, Return, Goto
<1> QED BY <1>3, <1>4 DEF Schedules

\* ... and an operation that is being enqueued, or that of a barrier, where it is.
LEMMA QuietOps ==
  ASSUME QueueInv, AllStages, AllMembers, Once(operations), NEW u \in Ops,
         \/ \E t \in Threads : Reads(t) \/ Schedules(t) \/ Others(t)
         \/ \E o \in Ops : ItemStep(o)
         \/ \E c \in Clients : OtherCall(c)
  PROVE  /\ state[u] = "enqueuing" =>
              /\ state'[u] = "enqueuing" /\ (attached[u] => attached'[u])
              /\ u \in ToSet(operations') <=> u \in ToSet(operations)
         /\ state[u] = "initialized" /\ pc[u] = "idle" => state'[u] = "initialized" /\ pc'[u] = "idle"
         /\ Member(u)'
<1> DEFINE goal ==
         /\ state[u] = "enqueuing" =>
              /\ state'[u] = "enqueuing" /\ (attached[u] => attached'[u])
              /\ u \in ToSet(operations') <=> u \in ToSet(operations)
         /\ state[u] = "initialized" /\ pc[u] = "idle" => state'[u] = "initialized" /\ pc'[u] = "idle"
         /\ Member(u)'
<1>1. /\ pc \in [Threads -> Labels] /\ local \in [Threads -> Locals]
      /\ state \in [Ops -> DOMAIN Rank] /\ attached \in [Ops -> BOOLEAN]
  BY DEF QueueInv, TypeOK, OpTypeOK
<1>2. /\ Ops \subseteq Threads /\ Clients \subseteq Threads /\ \A c \in Clients : c \notin Ops
  BY OperationConstants DEF Threads
<1>3. Stage(u) /\ Member(u) /\ \A o \in Ops : Stage(o) /\ Member(o)
  BY DEF AllStages, AllMembers
<1>4. \A o \in Ops : state[o] \in {"initialized", "enqueuing", "enqueued", "dispatching",
                                   "starting", "executing", "finishing", "finished"}
  BY <1>1 DEF Rank
<1>5. ASSUME state' = state, attached' = attached, operations' = operations,
             pc'[u] = pc[u], local'[u] = local[u]
      PROVE  goal
  BY <1>3, <1>5 DEF Member
<1>6. ASSUME NEW t \in Threads, Reads(t)
      PROVE  goal
  <2>1. u # t
    BY <1>3, <1>4, <1>6 DEF Reads, ReadReady, WriteReady, Stage
  <2>2. state' = state /\ attached' = attached /\ operations' = operations
    BY <1>6, Zenon DEF Reads, ReadReady, WriteReady, status, queueVars, queue
  <2>3. pc'[u] = pc[u] /\ local'[u] = local[u]
    BY <1>1, <1>2, <1>6, <2>1 DEF Reads, ReadReady, WriteReady, Goto
  <2> QED BY <1>5, <2>2, <2>3
<1>7. ASSUME NEW t \in Threads, Others(t)
      PROVE  goal
  <2>1. u # t
    BY <1>3, <1>4, <1>7
    DEF Others, Link, ChangePriority, CancelNext, CancelledAll, SnapshotAll, WaitNext, Stage
  <2>2. state' = state /\ attached' = attached /\ operations' = operations
    BY <1>7, Zenon DEF Others, Link, ChangePriority, CancelNext, CancelledAll, SnapshotAll,
       WaitNext, status, queueVars, queue
  <2>3. pc'[u] = pc[u] /\ local'[u] = local[u]
    BY <1>2, <1>7, <2>1, OthersElsewhere
  <2> QED BY <1>5, <2>2, <2>3
<1>8. ASSUME NEW c \in Clients, OtherCall(c)
      PROVE  goal
  <2>1. u # c
    BY <1>2
  <2>2. state' = state /\ attached' = attached /\ operations' = operations
    BY <1>8, Zenon
    DEF OtherCall, SetQueuePriority, SetMaxConcurrent, SetSuspended, CancelAllOperations,
        WaitUntilAllOperationsAreFinished, status, queueVars, queue
  <2>3. pc'[u] = pc[u] /\ local'[u] = local[u]
    BY <1>2, <1>8, <2>1, OthersElsewhere
  <2> QED BY <1>5, <2>2, <2>3
<1>9. ASSUME NEW t \in Threads, Schedules(t), ~Dispatch(t)
      PROVE  goal
  <2>1. /\ local' = local /\ state' = state /\ attached' = attached
        /\ operations' = operations
        /\ u # t => pc'[u] = pc[u]
        /\ u = t => /\ pc[u] \in {"schedule", "level", "visit", "probe", "retest", "retestSet"}
                    /\ pc'[u] \in {"level", "visit", "probe", "retest", "retestSet", local[u].after}
    BY <1>2, <1>9, ScheduleMoves
  <2>2. CASE u # t
    BY <1>5, <2>1, <2>2
  <2>3. CASE u = t
    <3>1. state[u] = "finished" /\ local[u].after \in {"ready", "exit"}
      BY <1>3, <1>4, <2>1, <2>3 DEF Stage
    <3>2. Member(u)'
      BY <1>3, <2>1, <2>3, <3>1 DEF Member
    <3> QED BY <2>1, <3>1, <3>2
  <2> QED BY <2>2, <2>3
<1>10. ASSUME NEW t \in Threads, Dispatch(t)
       PROVE  goal
  <2> DEFINE o == Head(frame[t].walk)
  <2>1. /\ local' = local /\ attached' = attached /\ operations' = operations
        /\ state[o] = "enqueued"
        /\ state'[u] = (IF u = o THEN "dispatching" ELSE state[u])
        /\ pc'[u] = (IF u = o THEN "queued" ELSE pc[u])
    BY <1>1, <1>2, <1>10 DEF Dispatch
  <2> HIDE DEF o
  <2>2. CASE u = o
    BY <1>3, <2>1, <2>2 DEF Member
  <2>3. CASE u # o
    <3>1. state'[u] = state[u] /\ pc'[u] = pc[u]
      BY <2>1, <2>3
    <3> QED BY <1>3, <2>1, <3>1 DEF Member
  <2> QED BY <2>2, <2>3
<1>11. ASSUME NEW o \in Ops, BeginItem(o) \/ EndItem(o)
       PROVE  goal
  <2>1. local' = local /\ state' = state /\ attached' = attached /\ operations' = operations
    BY <1>11, Zenon DEF BeginItem, EndItem, status, queueVars, queue
  <2>2. u # o => pc'[u] = pc[u]
    BY <1>1, <1>2, <1>11 DEF BeginItem, EndItem, Goto
  <2>3. CASE u # o
    BY <1>5, <2>1, <2>2, <2>3
  <2>4. CASE u = o
    <3>1. /\ pc[u] \in {"queued", "exit", "block"}
          /\ pc[u] = "queued" => pc'[u] \in {"starting", "block"}
          /\ pc[u] \in {"exit", "block"} => pc'[u] = "done"
      BY <1>1, <1>2, <1>11, <2>4 DEF BeginItem, EndItem, Goto
    <3>2. state[u] = "finished" => local[u].after = "exit" /\ pc[u] = "exit"
      BY <1>3, <3>1 DEF Stage
    <3>3. Member(u)'
      BY <1>3, <2>1, <3>1, <3>2 DEF Member
    <3> QED BY <2>1, <3>1, <3>3
  <2> QED BY <2>3, <2>4
<1>12. ASSUME NEW o \in Ops, Starting(o)
       PROVE  goal
  <2>1. /\ local' = local /\ attached' = attached /\ operations' = operations
        /\ pc[o] = "starting" /\ state'[o] = "starting"
        /\ u # o => pc'[u] = pc[u] /\ state'[u] = state[u]
    BY <1>1, <1>2, <1>12 DEF Starting, Goto, queueVars, queue
  <2>2. state[o] = "dispatching"
    BY <1>3, <1>4, <2>1 DEF Stage
  <2>3. CASE u = o
    BY <1>3, <2>1, <2>2, <2>3 DEF Member
  <2>4. CASE u # o
    BY <1>3, <2>1, <2>4 DEF Member
  <2> QED BY <2>3, <2>4
<1>13. ASSUME NEW o \in Ops, Retire(o)
       PROVE  goal
  <2>1. /\ local' = local /\ state' = state /\ attached' = attached
        /\ operations' = Unlinked(operations, o) /\ pc[o] = "retire" /\ pc'[o] = "invalidate"
        /\ u # o => pc'[u] = pc[u]
    BY <1>1, <1>2, <1>13 DEF Retire, Goto, status
  <2>2. state[o] = "finished" /\ local[o].after = "exit"
    BY <1>3, <1>4, <2>1 DEF Stage
  <2>3. operations \in Seq(Ops)
    BY DEF QueueInv, TypeOK
  <2>4. ToSet(operations') = ToSet(operations) \ {o}
    BY <2>1, <2>3, UnlinkedOnce
  <2>5. CASE u = o
    <3>1. u \notin ToSet(operations')
      BY <2>4, <2>5
    <3> QED BY <2>1, <2>2, <2>4, <2>5, <3>1 DEF Member
  <2>6. CASE u # o
    <3>1. u \in ToSet(operations') <=> u \in ToSet(operations)
      BY <2>4, <2>6
    <3> QED BY <1>3, <2>1, <2>4, <2>6, <3>1 DEF Member
  <2> QED BY <2>5, <2>6
<1>14. ASSUME NEW o \in Ops, Invalidate(o)
       PROVE  goal
  <2>1. /\ local' = local /\ state' = state /\ operations' = operations
        /\ pc[o] = "invalidate" /\ pc'[o] = "schedule"
        /\ u # o => pc'[u] = pc[u] /\ attached'[u] = attached[u]
    BY <1>1, <1>2, <1>14 DEF Invalidate, Goto, queue
  <2>2. state[o] = "finished" /\ local[o].after = "exit"
    BY <1>3, <1>4, <2>1 DEF Stage
  <2>3. CASE u = o
    BY <1>3, <2>1, <2>2, <2>3 DEF Member
  <2>4. CASE u # o
    BY <1>3, <2>1, <2>4 DEF Member
  <2> QED BY <2>3, <2>4
<1> HIDE DEF goal
<1>15. goal
  BY <1>6, <1>7, <1>8, <1>9, <1>10, <1>11, <1>12, <1>13, <1>14 DEF ItemStep
<1> QED BY <1>15 DEF goal

\* Only an operation that leaves it changes the main list.
LEMMA QuietList ==
  ASSUME QueueInv, Once(operations),
         \/ \E t \in Threads : Reads(t) \/ Schedules(t) \/ Others(t)
         \/ \E o \in Ops : ItemStep(o)
         \/ \E c \in Clients : OtherCall(c)
  PROVE  Once(operations)'
<1>1. ASSUME NEW t \in Threads, Reads(t) \/ Others(t) \/ OtherCall(t)
      PROVE  operations' = operations
  BY <1>1, Zenon
  DEF Reads, ReadReady, WriteReady, Others, Link, ChangePriority, CancelNext, CancelledAll,
      SnapshotAll, WaitNext, OtherCall, SetQueuePriority, SetMaxConcurrent, SetSuspended,
      CancelAllOperations, WaitUntilAllOperationsAreFinished, queueVars, queue
<1>2. ASSUME NEW t \in Threads, Schedules(t)
      PROVE  operations' = operations
  BY <1>2, ScheduleMoves DEF Dispatch
<1>3. ASSUME NEW o \in Ops, ItemStep(o), ~Retire(o)
      PROVE  operations' = operations
  BY <1>3, Zenon DEF ItemStep, BeginItem, Starting, Invalidate, EndItem, queueVars, queue
<1>4. ASSUME NEW o \in Ops, Retire(o)
      PROVE  Once(operations)'
  <2>1. operations \in Seq(Ops)
    BY DEF QueueInv, TypeOK
  <2> QED BY <1>4, <2>1, UnlinkedOnce DEF Retire
<1>5. \A c \in Clients : c \in Threads
  BY DEF Threads
<1>6. CASE operations' = operations
  BY <1>6
<1> QED BY <1>1, <1>2, <1>3, <1>4, <1>5, <1>6

\* So what is in the hands of the clients stays there.
LEMMA QuietHands ==
  ASSUME QueueInv, AllStages, AllMembers, Hands, Once(operations),
         \/ \E t \in Threads : Reads(t) \/ Schedules(t) \/ Others(t)
         \/ \E o \in Ops : ItemStep(o)
         \/ \E c \in Clients : OtherCall(c)
  PROVE  Hands' /\ AllMembers' /\ Once(operations)'
<1>1. Clients \subseteq Threads /\ Barriers \subseteq Ops
  BY OperationConstants DEF Threads
<1>2. \A c \in Clients : /\ Stays(c)
                         /\ frame'[c].batch = frame[c].batch
                         /\ frame'[c].pending = frame[c].pending
  BY <1>1, QuietStays, QuietBatch
<1>3. \A o \in Ops : state[o] = "enqueuing" =>
           /\ state'[o] = "enqueuing" /\ (attached[o] => attached'[o])
           /\ o \in ToSet(operations') <=> o \in ToSet(operations)
  BY QuietOps
<1>4. \A b \in Barriers : state[b] = "initialized" /\ pc[b] = "idle"
             => state'[b] = "initialized" /\ pc'[b] = "idle"
  BY <1>1, QuietOps
<1>5. Hands'
  BY <1>2, <1>3, <1>4, HandsKept
<1>6. AllMembers'
  BY QuietOps DEF AllMembers
<1>7. Once(operations)'
  BY QuietList
<1> QED BY <1>5, <1>6, <1>7

-----------------------------------------------------------------------------
(* The steps that enqueue.                                                     *)

\* The operations a client has prepared are operations of its batch.
LEMMA ClaimedOps ==
  ASSUME QueueInv, NEW c \in Clients
  PROVE  /\ frame[c].batch \in Seq(Ops) /\ frame[c].pending \in Seq(Ops)
         /\ Len(frame[c].batch) \in Nat /\ Len(frame[c].pending) \in Nat
         /\ pc[c] \in PreparingLabels => Len(frame[c].pending) # 0
         /\ \A i \in 1..Prepared(c) : i \in 1..Len(frame[c].batch) /\ frame[c].batch[i] \in Ops
<1>1. /\ frame[c].batch \in Seq(Ops) /\ frame[c].pending \in Seq(Ops)
      /\ frame[c].pending # <<>> \/ pc[c] \notin PreparingLabels
  BY DEF QueueInv, TypeOK, Frames, Located, AddingLabels, PreparingLabels, Threads
<1>2. /\ Len(frame[c].batch) \in Nat /\ Len(frame[c].pending) \in Nat
      /\ Len(frame[c].pending) # 0 \/ pc[c] \notin PreparingLabels
  BY <1>1, LenProperties, EmptySeq
<1>3. \A i \in 1..Prepared(c) : i \in 1..Len(frame[c].batch)
  BY <1>2 DEF Prepared, Behind, PreparingLabels
<1>4. \A i \in 1..Prepared(c) : frame[c].batch[i] \in Ops
  BY <1>1, <1>3, ElementOfSeq
<1> QED BY <1>1, <1>2, <1>3, <1>4

\* A step of client c, which may take or give away operations that no other has.
LEMMA HandsPassed ==
  ASSUME QueueInv, Hands, NEW c \in Clients,
         \A d \in Clients : d # c => /\ pc'[d] = pc[d] /\ local'[d] = local[d]
                                     /\ frame'[d].batch = frame[d].batch
                                     /\ frame'[d].pending = frame[d].pending,
         \A d \in Clients : d # c => \A i \in 1..Prepared(d) :
           /\ state'[frame[d].batch[i]] = "enqueuing"
           /\ attached[frame[d].batch[i]] => attached'[frame[d].batch[i]]
           /\ frame[d].batch[i] \notin ToSet(operations'),
         \A d \in Clients : d # c /\ Linking(d) => \A o \in ToSet(frame[d].pending) :
           state[o] = "enqueuing" /\ o \in ToSet(operations) /\ attached[o]
             => state'[o] = "enqueuing" /\ o \in ToSet(operations') /\ attached'[o],
         \A d \in Clients : d # c => \A b \in Barriers :
           frame[d].batch = <<b>> /\ state[b] = "initialized" /\ pc[b] = "idle"
             => state'[b] = "initialized" /\ pc'[b] = "idle",
         Batched(c)', Claim(c)', Enqueuing(c)',
         \A d \in Clients : d # c => \A i \in 1..Prepared(c)', j \in 1..Prepared(d) :
           frame'[c].batch[i] # frame[d].batch[j],
         BarrierAlone'
  PROVE  Hands'
<1>1. ASSUME NEW d \in Clients, d # c
      PROVE  /\ Batched(d)' /\ Claim(d)' /\ Enqueuing(d)'
             /\ Prepared(d)' \in {Prepared(d), 0}
  <2>1. Batched(d) /\ Claim(d) /\ Enqueuing(d)
    BY DEF Hands, AllEnqueuing, AllClaims
  <2>2. Stays(d)
    BY <1>1 DEF Stays
  <2> QED BY <1>1, <2>1, <2>2, ClientKept
<1>2. AllEnqueuing' /\ AllClaims'
  BY <1>1 DEF AllEnqueuing, AllClaims
<1>3. Disjoint'
  <2> SUFFICES ASSUME NEW d \in Clients, NEW e \in Clients, d # e,
                      NEW i \in 1..Prepared(d)', NEW j \in 1..Prepared(e)'
               PROVE  frame'[d].batch[i] # frame'[e].batch[j]
    BY DEF Disjoint
  <2>1. d # c => i \in 1..Prepared(d)
    BY <1>1
  <2>2. e # c => j \in 1..Prepared(e)
    BY <1>1
  <2> QED BY <2>1, <2>2 DEF Hands, Disjoint
<1> QED BY <1>2, <1>3 DEF Hands

\* The thread that takes one of these steps is that of a client.
LEMMA EnqueuesClient ==
  ASSUME QueueInv, AllStages, NEW t \in Threads, Enqueues(t)
  PROVE  t \in Clients /\ t \notin Ops
<1>1. t \in Ops \/ t \in Clients
  BY DEF Threads
<1>2. pc[t] \in AddingLabels
  BY Zenon DEF Enqueues, Prepare, Adopt, AppendBatch, Linked, Publish, LockForBarrier, SubmitBlock,
     AddingLabels
<1>3. ASSUME t \in Ops PROVE FALSE
  <2>1. Stage(t) /\ state[t] \in DOMAIN Rank
    BY <1>3 DEF AllStages, QueueInv, TypeOK, OpTypeOK
  <2> QED BY <1>2, <2>1 DEF Stage, AddingLabels, Rank
<1> QED BY <1>1, <1>3

\* The compare-and-swap takes an operation that nobody has.
LEMMA PrepareHands ==
  ASSUME QueueInv, AllStages, AllMembers, Hands, NEW c \in Threads, Prepare(c)
  PROVE  Hands'
<1> DEFINE o == Head(frame[c].pending)
<1>1. c \in Clients /\ c \notin Ops
  BY EnqueuesClient DEF Enqueues
<1>2. /\ pc \in [Threads -> Labels] /\ local \in [Threads -> Locals]
      /\ state \in [Ops -> DOMAIN Rank] /\ Ops \subseteq Threads /\ Clients \subseteq Threads
      /\ Barriers \subseteq Ops
  BY OperationConstants DEF QueueInv, TypeOK, OpTypeOK, Threads
<1>3. /\ o \in Ops /\ frame[c].batch[Behind(c) + 1] = o /\ Behind(c) \in Nat
      /\ Behind(c) + 1 \in 1..Len(frame[c].batch)
      /\ o \in Barriers => frame[c].batch = <<o>>
  BY <1>1, HeadPending DEF Hands, Prepare
<1>4. /\ attached' = attached /\ operations' = operations /\ frame' = frame /\ pc[c] = "prepare"
      /\ local'[c].subject = o
      /\ \A d \in Clients : d # c => pc'[d] = pc[d] /\ local'[d] = local[d]
      /\ \A p \in Ops : pc'[p] = pc[p]
  BY <1>1, <1>2 DEF Prepare, Goto, queueVars, queue, Locals
<1>5. \/ /\ state[o] = "initialized" /\ state' = [state EXCEPT ![o] = "enqueuing"]
         /\ pc'[c] = "readReady"
      \/ state' = state /\ pc'[c] = "fatal"
  BY <1>1, <1>2 DEF Prepare, Goto
<1>6. o \notin ToSet(operations) \/ state[o] # "initialized"
  BY <1>3 DEF AllMembers, Member
<1> HIDE DEF o
<1>7. \A p \in Ops : state[p] = "enqueuing" => state'[p] = "enqueuing"
  BY <1>2, <1>3, <1>5
<1>8. Prepared(c) = Behind(c)
  BY <1>4 DEF Prepared
<1>9. Batched(c) /\ Claim(c)
  BY <1>1 DEF Hands, AllEnqueuing, AllClaims
<1>10. Batched(c)'
  BY <1>3, <1>4, <1>5, <1>9 DEF Batched, Behind, PreparingLabels, o
<1>11. Enqueuing(c)'
  BY <1>5 DEF Enqueuing, Linking, PreparingLabels
<1>12. \/ Prepared(c)' = 0
       \/ /\ Prepared(c)' = Behind(c) + 1 /\ Adopted(c)' = Behind(c) /\ state[o] = "initialized"
          /\ state'[o] = "enqueuing"
  BY <1>2, <1>3, <1>4, <1>5 DEF Prepared, Behind, Adopted
<1>13. \A i \in 1..Behind(c) :
         /\ frame[c].batch[i] \in Ops /\ state[frame[c].batch[i]] = "enqueuing"
         /\ state'[frame[c].batch[i]] = "enqueuing"
         /\ frame[c].batch[i] \notin ToSet(operations)
         /\ attached[frame[c].batch[i]]
         /\ \A j \in 1..Behind(c) : frame[c].batch[i] = frame[c].batch[j] => i = j
  BY <1>1, <1>4, <1>7, <1>8, <1>9, ClaimedOps DEF Claim, Adopted
<1>14. Claim(c)'
  <2>1. CASE Prepared(c)' = 0
    BY <2>1 DEF Claim
  <2>2. CASE Prepared(c)' = Behind(c) + 1
    <3>1. /\ Adopted(c)' = Behind(c) /\ state[o] = "initialized" /\ state'[o] = "enqueuing"
      BY <1>3, <1>12, <2>2
    <3> DEFINE n == Behind(c)
               b == frame[c].batch
    <3> HIDE DEF n, b
    <3>2. n \in Nat /\ b[n + 1] = o /\ \A i \in 1..(n + 1) : i \in 1..n \/ i = n + 1
      BY <1>3 DEF n, b
    <3>3. \A i \in 1..n : b[i] # o
      BY <1>13, <3>1 DEF n, b
    <3>4. \A i \in 1..(n + 1) :
            /\ state'[b[i]] = "enqueuing" /\ b[i] \notin ToSet(operations)
            /\ i <= n => attached[b[i]]
            /\ \A j \in 1..(n + 1) : b[i] = b[j] => i = j
      <4> SUFFICES ASSUME NEW i \in 1..(n + 1)
                   PROVE  /\ state'[b[i]] = "enqueuing" /\ b[i] \notin ToSet(operations)
                          /\ i <= n => attached[b[i]]
                          /\ \A j \in 1..(n + 1) : b[i] = b[j] => i = j
        OBVIOUS
      <4>1. CASE i \in 1..n
        BY <1>13, <3>2, <3>3, <4>1 DEF n, b
      <4>2. CASE i = n + 1
        <5>1. state'[b[i]] = "enqueuing" /\ b[i] \notin ToSet(operations)
          BY <1>6, <3>1, <3>2, <4>2
        <5>2. ~(i <= n)
          BY <3>2, <4>2
        <5>3. \A j \in 1..(n + 1) : b[i] = b[j] => i = j
          BY <3>2, <3>3, <4>2
        <5> QED BY <5>1, <5>2, <5>3
      <4> QED BY <3>2, <4>1, <4>2
    <3> QED BY <1>4, <2>2, <3>1, <3>4 DEF Claim, n, b
  <2> QED BY <1>12, <2>1, <2>2
<1>15. ASSUME NEW d \in Clients, d # c
       PROVE  /\ \A i \in 1..Prepared(d) :
                   /\ state[frame[d].batch[i]] = "enqueuing"
                   /\ state'[frame[d].batch[i]] = "enqueuing"
                   /\ frame[d].batch[i] \notin ToSet(operations)
              /\ \A p \in ToSet(frame[d].pending) : state[p] = "enqueuing" => state'[p] = "enqueuing"
              /\ \A b \in Barriers : frame[d].batch = <<b>> /\ state[b] = "initialized"
                                       => state'[b] = "initialized"
              /\ \A i \in 1..Prepared(c)', j \in 1..Prepared(d) : frame[c].batch[i] # frame[d].batch[j]
  <2>1. Claim(d)
    BY DEF Hands, AllClaims
  <2>2. \A i \in 1..Prepared(d) :
                   /\ state[frame[d].batch[i]] = "enqueuing"
                   /\ state'[frame[d].batch[i]] = "enqueuing"
                   /\ frame[d].batch[i] \notin ToSet(operations)
    BY <1>7, <2>1, ClaimedOps DEF Claim
  <2>3. \A p \in ToSet(frame[d].pending) : state[p] = "enqueuing" => state'[p] = "enqueuing"
    BY <1>7, ClaimedOps, ElementsOfList
  <2>4. \A b \in Barriers : frame[d].batch = <<b>> /\ state[b] = "initialized"
                              => state'[b] = "initialized"
    <3> SUFFICES ASSUME NEW b \in Barriers, frame[d].batch = <<b>>, state[b] = "initialized"
                 PROVE  state'[b] = "initialized"
      OBVIOUS
    <3>1. b # o
      BY <1>1, <1>3, <1>15 DEF Hands, BarrierAlone
    <3> QED BY <1>2, <1>5, <3>1
  <2>5. \A i \in 1..Prepared(c)', j \in 1..Prepared(d) : frame[c].batch[i] # frame[d].batch[j]
    <3> SUFFICES ASSUME NEW i \in 1..Prepared(c)', NEW j \in 1..Prepared(d)
                 PROVE  frame[c].batch[i] # frame[d].batch[j]
      OBVIOUS
    <3>1. i \in 1..Behind(c) \/ (i = Behind(c) + 1 /\ state[o] = "initialized")
      BY <1>3, <1>12
    <3>2. CASE i \in 1..Behind(c)
      BY <1>1, <1>8, <1>15, <3>2 DEF Hands, Disjoint
    <3>3. CASE i = Behind(c) + 1 /\ state[o] = "initialized"
      BY <1>3, <2>2, <3>3
    <3> QED BY <3>1, <3>2, <3>3
  <2> QED BY <2>2, <2>3, <2>4, <2>5
<1>16. BarrierAlone'
  BY <1>4 DEF Hands, BarrierAlone
<1>17. \A d \in Clients : d # c => /\ pc'[d] = pc[d] /\ local'[d] = local[d]
                                   /\ frame'[d].batch = frame[d].batch
                                   /\ frame'[d].pending = frame[d].pending
  BY <1>4
<1>18. \A d \in Clients : d # c => \A i \in 1..Prepared(d) :
         /\ state'[frame[d].batch[i]] = "enqueuing"
         /\ attached[frame[d].batch[i]] => attached'[frame[d].batch[i]]
         /\ frame[d].batch[i] \notin ToSet(operations')
  BY <1>4, <1>15
<1>19. \A d \in Clients : d # c /\ Linking(d) => \A p \in ToSet(frame[d].pending) :
         state[p] = "enqueuing" /\ p \in ToSet(operations) /\ attached[p]
           => state'[p] = "enqueuing" /\ p \in ToSet(operations') /\ attached'[p]
  BY <1>4, <1>15
<1>20. \A d \in Clients : d # c => \A b \in Barriers :
         frame[d].batch = <<b>> /\ state[b] = "initialized" /\ pc[b] = "idle"
           => state'[b] = "initialized" /\ pc'[b] = "idle"
  BY <1>2, <1>4, <1>15
<1>21. \A d \in Clients : d # c => \A i \in 1..Prepared(c)', j \in 1..Prepared(d) :
         frame'[c].batch[i] # frame[d].batch[j]
  BY <1>4, <1>15
<1> QED BY <1>1, <1>10, <1>11, <1>14, <1>16, <1>17, <1>18, <1>19, <1>20, <1>21, HandsPassed

\* A step of client c that leaves every operation where it is.
LEMMA HandsMoved ==
  ASSUME QueueInv, Hands, NEW c \in Clients,
         \A d \in Clients : d # c => /\ pc'[d] = pc[d] /\ local'[d] = local[d]
                                     /\ frame'[d].batch = frame[d].batch
                                     /\ frame'[d].pending = frame[d].pending,
         operations' = operations,
         \A p \in Ops : state[p] = "enqueuing" =>
           state'[p] = "enqueuing" /\ (attached[p] => attached'[p]),
         \A d \in Clients : d # c => \A b \in Barriers :
           frame[d].batch = <<b>> /\ state[b] = "initialized" /\ pc[b] = "idle"
             => state'[b] = "initialized" /\ pc'[b] = "idle",
         Batched(c)', Claim(c)', Enqueuing(c)',
         Prepared(c)' = 0 \/ (Prepared(c)' = Prepared(c) /\ frame'[c].batch = frame[c].batch),
         BarrierAlone'
  PROVE  Hands'
<1>1. ASSUME NEW d \in Clients, d # c
      PROVE  /\ \A i \in 1..Prepared(d) :
                  /\ state'[frame[d].batch[i]] = "enqueuing"
                  /\ attached[frame[d].batch[i]] => attached'[frame[d].batch[i]]
                  /\ frame[d].batch[i] \notin ToSet(operations')
             /\ \A p \in ToSet(frame[d].pending) :
                  state[p] = "enqueuing" /\ p \in ToSet(operations) /\ attached[p]
                    => state'[p] = "enqueuing" /\ p \in ToSet(operations') /\ attached'[p]
             /\ \A i \in 1..Prepared(c)', j \in 1..Prepared(d) :
                  frame'[c].batch[i] # frame[d].batch[j]
  <2>1. Claim(d)
    BY DEF Hands, AllClaims
  <2>2. \A i \in 1..Prepared(d) :
          /\ state'[frame[d].batch[i]] = "enqueuing"
          /\ attached[frame[d].batch[i]] => attached'[frame[d].batch[i]]
          /\ frame[d].batch[i] \notin ToSet(operations')
    BY <2>1, ClaimedOps DEF Claim
  <2>3. ToSet(frame[d].pending) \subseteq Ops
    BY ClaimedOps, ElementsOfList
  <2>4. \A i \in 1..Prepared(c)', j \in 1..Prepared(d) : frame'[c].batch[i] # frame[d].batch[j]
    <3>1. CASE Prepared(c)' = 0
      BY <3>1
    <3>2. CASE Prepared(c)' = Prepared(c) /\ frame'[c].batch = frame[c].batch
      BY <1>1, <3>2 DEF Hands, Disjoint
    <3> QED BY <3>1, <3>2
  <2> QED BY <2>2, <2>3, <2>4
<1>2. \A d \in Clients : d # c => \A i \in 1..Prepared(d) :
        /\ state'[frame[d].batch[i]] = "enqueuing"
        /\ attached[frame[d].batch[i]] => attached'[frame[d].batch[i]]
        /\ frame[d].batch[i] \notin ToSet(operations')
  BY <1>1
<1>3. \A d \in Clients : d # c /\ Linking(d) => \A p \in ToSet(frame[d].pending) :
        state[p] = "enqueuing" /\ p \in ToSet(operations) /\ attached[p]
          => state'[p] = "enqueuing" /\ p \in ToSet(operations') /\ attached'[p]
  BY <1>1
<1>4. \A d \in Clients : d # c => \A i \in 1..Prepared(c)', j \in 1..Prepared(d) :
        frame'[c].batch[i] # frame[d].batch[j]
  BY <1>1
<1> QED BY <1>2, <1>3, <1>4, HandsPassed

\* The next operation of the batch, or the end of it.
LEMMA AdoptHands ==
  ASSUME QueueInv, AllStages, Hands, NEW c \in Threads, Adopt(c)
  PROVE  Hands' /\ state[local[c].subject] = "enqueuing"
<1> DEFINE p == frame[c].pending
           b == frame[c].batch
           n == Behind(c)
           o == local[c].subject
<1>1. c \in Clients /\ c \notin Ops
  BY EnqueuesClient DEF Enqueues
<1>2. /\ pc \in [Threads -> Labels] /\ local \in [Threads -> Locals]
      /\ frame \in [Threads -> Frames] /\ attached \in [Ops -> BOOLEAN]
      /\ Ops \subseteq Threads /\ Clients \subseteq Threads /\ Barriers \subseteq Ops
  BY OperationConstants DEF QueueInv, TypeOK, OpTypeOK, Threads
<1>3. /\ state' = state /\ operations' = operations /\ local' = local /\ pc[c] = "adopt"
      /\ attached' = [attached EXCEPT ![o] = TRUE]
      /\ \A d \in Threads : d # c => pc'[d] = pc[d]
  BY <1>1, <1>2 DEF Adopt, Goto, queue
<1>4. /\ p \in Seq(Ops) /\ b \in Seq(Ops) /\ Len(b) \in Nat /\ Len(p) \in Nat /\ Len(p) # 0
      /\ o = Head(p) /\ n >= 0 /\ n = Len(b) - Len(p)
      /\ \A i \in 1..Len(p) : p[i] = b[n + i]
  BY <1>1, <1>3, ClaimedOps DEF Hands, AllEnqueuing, Batched, Behind, PreparingLabels
<1>5. /\ n \in Nat /\ n + 1 \in 1..Len(b) /\ b[n + 1] = o /\ o \in Ops
  <2>1. p # <<>>
    BY <1>4, EmptySeq
  <2>2. Head(p) = p[1] /\ Head(p) \in Ops
    BY <1>4, <2>1, HeadTailProperties
  <2> HIDE DEF p, b, n, o
  <2> QED BY <1>4, <2>2
<1>6. \A q \in Ops : attached[q] => attached'[q]
  BY <1>2, <1>3
<1>7. attached'[o]
  BY <1>2, <1>3, <1>5
<1>8. /\ \A i \in 1..(n + 1) : /\ b[i] \in Ops
                               /\ state[b[i]] = "enqueuing" /\ b[i] \notin ToSet(operations)
                               /\ \A j \in 1..(n + 1) : b[i] = b[j] => i = j
                               /\ i <= n => attached[b[i]]
      /\ Prepared(c) = n + 1
  <2>1. Claim(c) /\ Prepared(c) = n + 1 /\ Adopted(c) = n
    BY <1>1, <1>3 DEF Hands, AllClaims, Prepared, Adopted
  <2> QED BY <1>1, <2>1, ClaimedOps DEF Claim
<1>9. \A i \in 1..(n + 1) : attached'[b[i]]
  <2> HIDE DEF p, b, n, o
  <2>1. \A i \in 1..(n + 1) : i <= n \/ i = n + 1
    BY <1>5
  <2> QED BY <1>5, <1>6, <1>7, <1>8, <2>1
<1>10. \A d \in Clients : d # c => frame'[d] = frame[d]
  BY <1>2 DEF Adopt
<1>11. frame'[c].batch = b
  BY <1>2 DEF Adopt, Frames
<1>12. BarrierAlone'
  BY <1>10, <1>11 DEF Hands, BarrierAlone
<1>13. state[o] = "enqueuing"
  BY <1>5, <1>8
<1>14. CASE Tail(p) = <<>>
  <2>1. /\ frame'[c].pending = b /\ pc'[c] \in {"appendBatch", "appendBarrier"}
    BY <1>2, <1>14 DEF Adopt, Goto, Frames
  <2>2. Len(b) = n + 1
    <3>1. p # <<>>
      BY <1>4, EmptySeq
    <3>2. Len(Tail(p)) = Len(p) - 1 /\ Tail(p) \in Seq(Ops)
      BY <1>4, <3>1, HeadTailProperties
    <3>3. Len(Tail(p)) = 0
      BY <1>14, <3>2, EmptySeq
    <3> DEFINE k == Len(p)
    <3>4. k \in Nat /\ k - 1 = 0 /\ n = Len(b) - k /\ Len(b) \in Nat
      BY <1>4, <3>2, <3>3
    <3> HIDE DEF p, b, n, o, k
    <3> QED BY <3>4
  <2>3. Prepared(c)' = n + 1
    BY <1>11, <2>1, <2>2 DEF Prepared
  <2>4. Claim(c)'
    BY <1>3, <1>8, <1>9, <1>11, <2>3 DEF Claim
  <2>5. Batched(c)'
    <3>1. Behind(c)' = 0
      BY <1>4, <1>11, <2>1 DEF Behind
    <3> QED BY <1>4, <1>11, <2>1, <3>1 DEF Batched
  <2>6. Enqueuing(c)'
    BY <2>1 DEF Enqueuing, Linking, PreparingLabels
  <2> QED
    BY <1>1, <1>2, <1>3, <1>6, <1>8, <1>10, <1>11, <1>12, <1>13, <2>3, <2>4, <2>5, <2>6,
       HandsMoved
<1>15. CASE Tail(p) # <<>>
  <2>1. /\ frame'[c].pending = Tail(p) /\ pc'[c] = "prepare"
    BY <1>2, <1>15 DEF Adopt, Goto, Frames
  <2>2. /\ Len(Tail(p)) = Len(p) - 1 /\ Len(Tail(p)) \in Nat /\ Len(Tail(p)) # 0
        /\ \A i \in 1..Len(Tail(p)) : Tail(p)[i] = p[i + 1]
    <3>1. p # <<>>
      BY <1>4, EmptySeq
    <3>2. Tail(p) \in Seq(Ops)
      BY <1>4, <3>1, HeadTailProperties
    <3>3. Len(Tail(p)) \in Nat /\ Len(Tail(p)) # 0
      BY <1>15, <3>2, LenProperties, EmptySeq
    <3> QED BY <1>4, <3>1, <3>3, HeadTailProperties
  <2>3. Behind(c)' = n + 1
    <3>1. Behind(c)' = Len(b) - Len(Tail(p))
      BY <1>11, <2>1 DEF Behind
    <3> HIDE DEF p, b, n, o
    <3> QED BY <1>4, <2>2, <3>1
  <2>4. Prepared(c)' = n + 1
    BY <2>1, <2>3 DEF Prepared
  <2>5. Claim(c)'
    BY <1>3, <1>8, <1>9, <1>11, <2>4 DEF Claim
  <2>6. Batched(c)'
    <3>1. \A i \in 1..Len(Tail(p)) : Tail(p)[i] = b[n + 1 + i]
      <4> HIDE DEF p, b, n, o
      <4> SUFFICES ASSUME NEW i \in 1..Len(Tail(p)) PROVE Tail(p)[i] = b[n + 1 + i]
        OBVIOUS
      <4>1. i + 1 \in 1..Len(p) /\ n + (i + 1) = n + 1 + i
        BY <1>4, <2>2, <1>5
      <4> QED BY <1>4, <2>2, <4>1
    <3>2. n + 1 >= 0
      BY <1>5
    <3> QED BY <1>11, <2>1, <2>3, <3>1, <3>2 DEF Batched
  <2>7. ToSet(b) \cap Barriers = {}
    <3> SUFFICES ASSUME NEW x \in Barriers, x \in ToSet(b)
                 PROVE  FALSE
      OBVIOUS
    <3>1. b = <<x>>
      BY <1>1 DEF Hands, BarrierAlone
    <3>2. Len(b) = 1
      BY <3>1
    <3> HIDE DEF p, b, n, o
    <3> QED BY <1>4, <1>5, <2>2, <3>2
  <2>8. Enqueuing(c)'
    BY <1>11, <2>1, <2>7 DEF Enqueuing, Linking, PreparingLabels
  <2> QED
    BY <1>1, <1>2, <1>3, <1>6, <1>8, <1>10, <1>11, <1>12, <1>13, <2>4, <2>5, <2>6, <2>8,
       HandsMoved
<1> QED BY <1>14, <1>15

\* The batch of a client that has prepared all of it, at the end of the main list.
LEMMA AppendHands ==
  ASSUME QueueInv, AllStages, Hands, Once(operations), NEW c \in Threads, AppendBatch(c)
  PROVE  /\ Hands' /\ Once(operations)'
         /\ ToSet(operations') = ToSet(operations) \cup ToSet(frame[c].batch)
         /\ \A o \in ToSet(frame[c].batch) :
              o \in Ops /\ state[o] = "enqueuing" /\ o \notin ToSet(operations)
<1> DEFINE b == frame[c].batch
           n == Len(b)
<1>1. c \in Clients /\ c \notin Ops
  BY EnqueuesClient DEF Enqueues
<1>2. /\ pc \in [Threads -> Labels] /\ local \in [Threads -> Locals]
      /\ frame \in [Threads -> Frames] /\ operations \in Seq(Ops)
      /\ Ops \subseteq Threads /\ Clients \subseteq Threads /\ Barriers \subseteq Ops
  BY OperationConstants DEF QueueInv, TypeOK, OpTypeOK, Threads
<1>3. /\ state' = state /\ attached' = attached /\ local' = local
      /\ pc[c] \in {"appendBatch", "appendBarrier"} /\ pc'[c] = "link"
      /\ operations' = operations \o b
      /\ \A d \in Threads : d # c => pc'[d] = pc[d]
  BY <1>1, <1>2 DEF AppendBatch, Goto, status
<1>4. /\ \A d \in Clients : d # c => frame'[d] = frame[d]
      /\ frame'[c].batch = b /\ frame'[c].pending = frame[c].pending
  <2>1. PICK s : frame' = [frame EXCEPT ![c].links = s]
    BY Zenon DEF AppendBatch
  <2> QED BY <1>2, <2>1 DEF Frames
<1>5. /\ b \in Seq(Ops) /\ n \in Nat /\ frame[c].pending = b
      /\ Prepared(c) = n /\ Adopted(c) = n
  BY <1>1, <1>3, ClaimedOps DEF Hands, AllEnqueuing, Batched, Prepared, Adopted
<1>6. \A i \in 1..n : /\ b[i] \in Ops /\ state[b[i]] = "enqueuing" /\ attached[b[i]]
                      /\ b[i] \notin ToSet(operations)
                      /\ \A j \in 1..n : b[i] = b[j] => i = j
  <2>1. Claim(c)
    BY <1>1 DEF Hands, AllClaims
  <2> QED BY <1>1, <1>5, <2>1, ClaimedOps DEF Claim
<1>7. DOMAIN b = 1..n
  BY <1>5, LenProperties
<1>8. Once(b)
  BY <1>6, <1>7 DEF Once
<1>9. \A o \in ToSet(b) : /\ o \in Ops /\ state[o] = "enqueuing" /\ attached[o]
                          /\ o \notin ToSet(operations)
                          /\ \E i \in 1..n : o = b[i]
  BY <1>6, <1>7 DEF ToSet
<1>10. Once(operations') /\ ToSet(operations') = ToSet(operations) \cup ToSet(b)
  BY <1>2, <1>3, <1>5, <1>8, <1>9, ConcatOnce
<1>11. Added(c)'
  BY <1>3, <1>4, <1>5, <1>8, <1>9, <1>10 DEF Added
<1>12. Batched(c)' /\ Enqueuing(c)' /\ Claim(c)' /\ Prepared(c)' = 0
  BY <1>3, <1>11 DEF Batched, Enqueuing, Claim, Prepared, PreparingLabels
<1>13. BarrierAlone'
  BY <1>4 DEF Hands, BarrierAlone
<1>14. ASSUME NEW d \in Clients, d # c
       PROVE  /\ \A i \in 1..Prepared(d) :
                   /\ state'[frame[d].batch[i]] = "enqueuing"
                   /\ attached[frame[d].batch[i]] => attached'[frame[d].batch[i]]
                   /\ frame[d].batch[i] \notin ToSet(operations')
              /\ \A p \in ToSet(frame[d].pending) :
                   state[p] = "enqueuing" /\ p \in ToSet(operations) /\ attached[p]
                     => state'[p] = "enqueuing" /\ p \in ToSet(operations') /\ attached'[p]
              /\ \A x \in Barriers :
                   frame[d].batch = <<x>> /\ state[x] = "initialized" /\ pc[x] = "idle"
                     => state'[x] = "initialized" /\ pc'[x] = "idle"
  <2>1. Claim(d)
    BY DEF Hands, AllClaims
  <2>2. \A i \in 1..Prepared(d) : frame[d].batch[i] \notin ToSet(b)
    <3> SUFFICES ASSUME NEW i \in 1..Prepared(d), frame[d].batch[i] \in ToSet(b)
                 PROVE  FALSE
      OBVIOUS
    <3>1. PICK j \in 1..n : frame[d].batch[i] = b[j]
      BY <1>9
    <3> QED BY <1>1, <1>5, <1>14, <3>1 DEF Hands, Disjoint
  <2>3. \A x \in Barriers : pc'[x] = pc[x]
    BY <1>1, <1>2, <1>3
  <2> QED BY <1>3, <1>10, <2>1, <2>2, <2>3 DEF Claim
<1>15. \A d \in Clients : d # c => \A i \in 1..Prepared(d) :
         /\ state'[frame[d].batch[i]] = "enqueuing"
         /\ attached[frame[d].batch[i]] => attached'[frame[d].batch[i]]
         /\ frame[d].batch[i] \notin ToSet(operations')
  BY <1>14
<1>16. \A d \in Clients : d # c /\ Linking(d) => \A p \in ToSet(frame[d].pending) :
         state[p] = "enqueuing" /\ p \in ToSet(operations) /\ attached[p]
           => state'[p] = "enqueuing" /\ p \in ToSet(operations') /\ attached'[p]
  BY <1>14
<1>17. \A d \in Clients : d # c => \A x \in Barriers :
         frame[d].batch = <<x>> /\ state[x] = "initialized" /\ pc[x] = "idle"
           => state'[x] = "initialized" /\ pc'[x] = "idle"
  BY <1>14
<1>18. \A d \in Clients : d # c => \A i \in 1..Prepared(c)', j \in 1..Prepared(d) :
         frame'[c].batch[i] # frame[d].batch[j]
  BY <1>12
<1>19. \A d \in Clients : d # c => /\ pc'[d] = pc[d] /\ local'[d] = local[d]
                                   /\ frame'[d].batch = frame[d].batch
                                   /\ frame'[d].pending = frame[d].pending
  BY <1>2, <1>3, <1>4
<1>20. Hands'
  BY <1>1, <1>12, <1>13, <1>15, <1>16, <1>17, <1>18, <1>19, HandsPassed
<1> QED BY <1>9, <1>10, <1>20

\* An operation that is linked is published, unless it is a barrier's that has yet to be
\* prepared.
LEMMA LinkedHands ==
  ASSUME QueueInv, AllStages, Hands, NEW c \in Threads, Linked(c)
  PROVE  Hands'
<1> DEFINE o == Head(frame[c].pending)
<1>1. c \in Clients /\ c \notin Ops
  BY EnqueuesClient DEF Enqueues
<1>2. /\ pc \in [Threads -> Labels] /\ Ops \subseteq Threads /\ Clients \subseteq Threads
      /\ Barriers \subseteq Ops
  BY OperationConstants DEF QueueInv, TypeOK, OpTypeOK, Threads
<1>3. /\ state' = state /\ attached' = attached /\ local' = local /\ frame' = frame
      /\ operations' = operations /\ pc[c] = "link"
      /\ pc'[c] = (IF o \in Barriers /\ state[o] = "initialized" THEN "prepare" ELSE "publish")
      /\ \A d \in Threads : d # c => pc'[d] = pc[d]
  BY <1>1, <1>2 DEF Linked, Goto, status, queueVars, queue
<1>4. Fresh(c) \/ Added(c)
  BY <1>1, <1>3 DEF Hands, AllEnqueuing, Enqueuing, Linking
<1>5. o \in ToSet(frame[c].pending)
  <2>1. frame[c].pending # <<>> /\ frame[c].pending \in Seq(Ops)
    BY <1>1, <1>3, ClaimedOps DEF QueueInv, Located, AddingLabels
  <2> QED BY <2>1, HeadTailProperties, LenProperties, EmptySeq DEF ToSet
<1>6. Prepared(c)' = 0
  <2>1. CASE pc'[c] = "publish"
    BY <2>1 DEF Prepared
  <2>2. CASE pc'[c] = "prepare"
    <3>1. Fresh(c)
      BY <1>3, <1>4, <1>5, <2>2 DEF Added
    <3>2. Behind(c)' = 0
      BY <1>3, <3>1 DEF Fresh, Behind
    <3> QED BY <2>2, <3>2 DEF Prepared
  <2> QED BY <1>3, <2>1, <2>2
<1>7. Batched(c)' /\ Enqueuing(c)' /\ Claim(c)'
  <2>1. CASE pc'[c] = "publish"
    <3>1. Added(c)
      BY <1>3, <1>4, <2>1 DEF Fresh
    <3>2. Added(c)'
      BY <1>3, <3>1 DEF Added
    <3> QED BY <1>6, <2>1, <3>2 DEF Batched, Enqueuing, Claim, PreparingLabels
  <2>2. CASE pc'[c] = "prepare"
    <3>1. Fresh(c)
      BY <1>3, <1>4, <1>5, <2>2 DEF Added
    <3>2. Behind(c)' = 0 /\ frame'[c].pending = frame'[c].batch
      BY <1>3, <3>1 DEF Fresh, Behind
    <3>3. Fresh(c)'
      BY <1>2, <1>1, <1>3, <3>1 DEF Fresh
    <3> QED BY <1>6, <2>2, <3>2, <3>3 DEF Batched, Enqueuing, Claim, Linking, PreparingLabels
  <2> QED BY <1>3, <2>1, <2>2
<1>8. BarrierAlone'
  BY <1>3 DEF Hands, BarrierAlone
<1>9. \A d \in Clients : d # c => \A b \in Barriers :
        frame[d].batch = <<b>> /\ state[b] = "initialized" /\ pc[b] = "idle"
          => state'[b] = "initialized" /\ pc'[b] = "idle"
  BY <1>1, <1>2, <1>3
<1>10. \A d \in Clients : d # c => /\ pc'[d] = pc[d] /\ local'[d] = local[d]
                                   /\ frame'[d].batch = frame[d].batch
                                   /\ frame'[d].pending = frame[d].pending
  BY <1>2, <1>3
<1> QED BY <1>1, <1>3, <1>6, <1>7, <1>8, <1>9, <1>10, HandsMoved

\* The operation that is published is in the main list, and no other client links or
\* publishes one meanwhile: it owns the lock.
LEMMA PublishHands ==
  ASSUME QueueInv, AllStages, Hands, NEW c \in Threads, Publish(c)
  PROVE  /\ Hands'
         /\ Head(frame[c].pending) \in Ops
         /\ Head(frame[c].pending) \in ToSet(operations)
         /\ state[Head(frame[c].pending)] = "enqueuing"
         /\ attached[Head(frame[c].pending)]
<1> DEFINE p == frame[c].pending
           o == Head(p)
<1>1. c \in Clients /\ c \notin Ops
  BY EnqueuesClient DEF Enqueues
<1>2. /\ pc \in [Threads -> Labels] /\ local \in [Threads -> Locals]
      /\ frame \in [Threads -> Frames] /\ state \in [Ops -> DOMAIN Rank]
      /\ Ops \subseteq Threads /\ Clients \subseteq Threads /\ Barriers \subseteq Ops
  BY OperationConstants DEF QueueInv, TypeOK, OpTypeOK, Threads
<1>3. /\ attached' = attached /\ operations' = operations /\ pc[c] = "publish"
      /\ \A d \in Threads : d # c => pc'[d] = pc[d] /\ local'[d] = local[d]
  BY <1>1, <1>2 DEF Publish, Goto
<1>4. local'[c].after = "idle"
  BY <1>2 DEF Publish, Locals
<1>5. Added(c) /\ p # <<>> /\ p \in Seq(Ops)
  BY <1>1, <1>3, ClaimedOps DEF Hands, AllEnqueuing, Enqueuing, QueueInv, Located, AddingLabels
<1>6. /\ Tail(p) \in Seq(Ops) /\ o \in ToSet(p) /\ Once(Tail(p)) /\ ToSet(Tail(p)) = ToSet(p) \ {o}
      /\ o \in Ops
  BY <1>5, TailOnce, HeadTailProperties DEF Added
<1>7. o \in ToSet(operations) /\ state[o] = "enqueuing" /\ attached[o]
  BY <1>5, <1>6 DEF Added
<1>8. state' = [state EXCEPT ![o] = "enqueued"]
  BY <1>2, <1>6, <1>7 DEF Publish
<1>9. \A d \in Threads : d # c => frame'[d] = frame[d]
  BY <1>1, <1>2 DEF Publish
<1> HIDE DEF p, o
<1>10. \/ pc'[c] = "schedule" /\ frame'[c].batch = <<>> /\ frame'[c].pending = <<>>
       \/ /\ pc'[c] = "link" /\ frame'[c].batch = frame[c].batch
          /\ frame'[c].pending = Tail(p)
  <2>1. CASE Tail(p) = <<>>
    <3>1. pc' = [pc EXCEPT ![c] = "schedule"] /\ frame' = [frame EXCEPT ![c] = NoFrame]
      BY <2>1 DEF Publish, Goto, p
    <3> QED BY <1>2, <3>1 DEF NoFrame
  <2>2. CASE Tail(p) # <<>>
    <3>1. /\ pc' = [pc EXCEPT ![c] = "link"]
          /\ frame' = [frame EXCEPT ![c].pending = Tail(p), ![c].links = BarriersAhead]
      BY <2>2 DEF Publish, Goto, p
    <3>2. pc'[c] = "link"
      BY <1>2, <3>1
    <3>3. frame'[c].batch = frame[c].batch /\ frame'[c].pending = Tail(p)
      BY <1>2, <3>1 DEF Frames
    <3> QED BY <3>2, <3>3
  <2> QED BY <2>1, <2>2
<1>11. \A x \in Ops : x # o => state'[x] = state[x]
  BY <1>8
<1>12. Batched(c)' /\ Claim(c)' /\ Prepared(c)' = 0
  BY <1>10 DEF Batched, Claim, Prepared, PreparingLabels
<1>13. Enqueuing(c)'
  <2>1. CASE pc'[c] = "schedule"
    BY <1>4, <2>1 DEF Enqueuing, Linking
  <2>2. CASE pc'[c] = "link" /\ frame'[c].pending = Tail(p)
    <3>1. \A x \in ToSet(Tail(p)) : /\ state'[x] = "enqueuing" /\ x \in ToSet(operations)
                                    /\ attached[x]
      <4> SUFFICES ASSUME NEW x \in ToSet(Tail(p))
                   PROVE  state'[x] = "enqueuing" /\ x \in ToSet(operations) /\ attached[x]
        OBVIOUS
      <4>1. x \in ToSet(p) /\ x # o
        BY <1>6
      <4>2. x \in Ops
        BY <1>5, <4>1, ElementsOfList
      <4> QED BY <1>5, <1>11, <4>1, <4>2 DEF Added, p
    <3>2. Added(c)'
      BY <1>3, <1>6, <2>2, <3>1 DEF Added
    <3> QED BY <2>2, <3>2 DEF Enqueuing
  <2> QED BY <1>10, <2>1, <2>2
<1>14. BarrierAlone'
  <2>1. CASE frame'[c].batch = frame[c].batch
    BY <1>2, <1>9, <2>1 DEF Hands, BarrierAlone
  <2>2. CASE frame'[c].batch = <<>>
    <3>1. ToSet(<<>>) = {}
      BY DEF ToSet
    <3>2. \A d \in Clients : d # c => frame'[d].batch = frame[d].batch
      BY <1>2, <1>9
    <3>3. \A x : <<x>> # <<>>
      OBVIOUS
    <3> QED BY <2>2, <3>1, <3>2, <3>3 DEF Hands, BarrierAlone
  <2> QED BY <1>10, <2>1, <2>2
<1>15. ASSUME NEW d \in Clients, d # c
       PROVE  /\ \A i \in 1..Prepared(d) :
                   /\ state'[frame[d].batch[i]] = "enqueuing"
                   /\ frame[d].batch[i] \notin ToSet(operations')
              /\ ~Linking(d)
              /\ \A x \in Barriers :
                   frame[d].batch = <<x>> /\ state[x] = "initialized" /\ pc[x] = "idle"
                     => state'[x] = "initialized" /\ pc'[x] = "idle"
  <2>1. Claim(d)
    BY DEF Hands, AllClaims
  <2>2. \A i \in 1..Prepared(d) : frame[d].batch[i] \in Ops
    BY ClaimedOps
  <2>3. queueLock = c
    BY <1>3 DEF QueueInv, Located
  <2>4. ~Linking(d)
    BY <1>2, <1>15, <2>3 DEF QueueInv, Located, Linking
  <2>5. \A x \in Barriers : pc'[x] = pc[x]
    BY <1>1, <1>2, <1>3
  <2>6. \A x \in Barriers : state[x] = "initialized" => state'[x] = "initialized"
    BY <1>2, <1>7, <1>11
  <2> QED BY <1>3, <1>7, <1>11, <2>1, <2>2, <2>4, <2>5, <2>6 DEF Claim
<1>16. \A d \in Clients : d # c => \A i \in 1..Prepared(d) :
         /\ state'[frame[d].batch[i]] = "enqueuing"
         /\ attached[frame[d].batch[i]] => attached'[frame[d].batch[i]]
         /\ frame[d].batch[i] \notin ToSet(operations')
  BY <1>3, <1>15
<1>17. \A d \in Clients : d # c /\ Linking(d) => \A x \in ToSet(frame[d].pending) :
         state[x] = "enqueuing" /\ x \in ToSet(operations) /\ attached[x]
           => state'[x] = "enqueuing" /\ x \in ToSet(operations') /\ attached'[x]
  BY <1>15
<1>18. \A d \in Clients : d # c => \A x \in Barriers :
         frame[d].batch = <<x>> /\ state[x] = "initialized" /\ pc[x] = "idle"
           => state'[x] = "initialized" /\ pc'[x] = "idle"
  BY <1>15
<1>19. \A d \in Clients : d # c => \A i \in 1..Prepared(c)', j \in 1..Prepared(d) :
         frame'[c].batch[i] # frame[d].batch[j]
  BY <1>12
<1>20. \A d \in Clients : d # c => /\ pc'[d] = pc[d] /\ local'[d] = local[d]
                                   /\ frame'[d].batch = frame[d].batch
                                   /\ frame'[d].pending = frame[d].pending
  BY <1>2, <1>3, <1>9
<1>21. Hands'
  BY <1>1, <1>12, <1>13, <1>14, <1>16, <1>17, <1>18, <1>19, <1>20, HandsPassed
<1> QED BY <1>6, <1>7, <1>21 DEF o, p

\* The operation of a barrier is linked to those of the queue, or its block is submitted.
LEMMA BarrierHands ==
  ASSUME QueueInv, AllStages, Hands, NEW c \in Threads, LockForBarrier(c) \/ SubmitBlock(c)
  PROVE  Hands'
<1>1. c \in Clients /\ c \notin Ops
  BY EnqueuesClient DEF Enqueues
<1>2. /\ pc \in [Threads -> Labels] /\ local \in [Threads -> Locals]
      /\ frame \in [Threads -> Frames]
      /\ Ops \subseteq Threads /\ Clients \subseteq Threads /\ Barriers \subseteq Ops
      /\ None \notin Threads
  BY OperationConstants DEF QueueInv, TypeOK, OpTypeOK, Threads
<1>3. /\ state' = state /\ attached' = attached /\ operations' = operations /\ local' = local
      /\ pc[c] \in {"addBarrier", "submitBlock"}
  BY DEF LockForBarrier, SubmitBlock, status, queue
<1>4. \A d \in Clients : /\ frame'[d].batch = frame[d].batch
                         /\ frame'[d].pending = frame[d].pending
  <2>1. frame' = frame \/ frame' = [frame EXCEPT ![c].links = operations]
    BY Zenon DEF LockForBarrier, SubmitBlock
  <2>2. CASE frame' = frame
    BY <2>2
  <2>3. CASE frame' = [frame EXCEPT ![c].links = operations]
    BY <1>2, <2>3 DEF Frames
  <2> QED BY <2>1, <2>2, <2>3
<1>5. PICK b \in Barriers : /\ frame[c].batch = <<b>> /\ frame[c].pending = <<b>>
                            /\ state[b] = "initialized" /\ pc[b] = "idle"
  BY <1>1, <1>3 DEF Hands, AllEnqueuing, Enqueuing, Fresh
<1>6. BarrierAlone'
  BY <1>4 DEF Hands, BarrierAlone
<1>7. CASE LockForBarrier(c)
  <2>1. /\ pc'[c] \in {"link", "submitBlock"} /\ \A d \in Threads : d # c => pc'[d] = pc[d]
    BY <1>1, <1>2, <1>7 DEF LockForBarrier, Goto
  <2>2. local[c].after # "link"
    BY <1>1, <1>2, <1>7 DEF LockForBarrier, Unlocked, QueueInv, Located
  <2>3. Fresh(c)'
    BY <1>1, <1>2, <1>3, <1>4, <1>5, <2>1 DEF Fresh
  <2>4. Batched(c)' /\ Enqueuing(c)' /\ Claim(c)' /\ Prepared(c)' = 0
    BY <1>3, <2>1, <2>2, <2>3 DEF Batched, Enqueuing, Claim, Prepared, PreparingLabels
  <2>5. \A d \in Clients : d # c => \A x \in Barriers :
          frame[d].batch = <<x>> /\ state[x] = "initialized" /\ pc[x] = "idle"
            => state'[x] = "initialized" /\ pc'[x] = "idle"
    BY <1>1, <1>2, <1>3, <2>1
  <2>6. \A d \in Clients : d # c => /\ pc'[d] = pc[d] /\ local'[d] = local[d]
                                    /\ frame'[d].batch = frame[d].batch
                                    /\ frame'[d].pending = frame[d].pending
    BY <1>2, <1>3, <1>4, <2>1
  <2> QED BY <1>1, <1>3, <1>6, <2>4, <2>5, <2>6, HandsMoved
<1>8. CASE SubmitBlock(c)
  <2>1. Head(frame[c].pending) = b
    BY <1>5
  <2>2. /\ pc' = [pc EXCEPT ![c] = "idle", ![b] = "queued"] /\ pc[c] = "submitBlock"
    BY <1>8, <2>1 DEF SubmitBlock
  <2>3. /\ pc'[c] = "idle" /\ \A d \in Threads : d # c /\ d # b => pc'[d] = pc[d]
    BY <1>1, <1>2, <2>2
  <2>4. local[c].after # "link"
    BY <1>1, <2>2 DEF Hands, AllEnqueuing, Enqueuing
  <2>5. Batched(c)' /\ Enqueuing(c)' /\ Claim(c)' /\ Prepared(c)' = 0
    BY <1>3, <2>3, <2>4 DEF Batched, Enqueuing, Claim, Prepared, Linking, PreparingLabels
  <2>6. \A d \in Clients : d # c => \A x \in Barriers :
          frame[d].batch = <<x>> /\ state[x] = "initialized" /\ pc[x] = "idle"
            => state'[x] = "initialized" /\ pc'[x] = "idle"
    <3> SUFFICES ASSUME NEW d \in Clients, d # c, NEW x \in Barriers, frame[d].batch = <<x>>,
                        state[x] = "initialized", pc[x] = "idle"
                 PROVE  state'[x] = "initialized" /\ pc'[x] = "idle"
      OBVIOUS
    <3>1. x # b
      BY <1>1, <1>5 DEF Hands, BarrierAlone
    <3> QED BY <1>1, <1>2, <1>3, <2>3, <3>1
  <2>7. \A d \in Clients : d # c => /\ pc'[d] = pc[d] /\ local'[d] = local[d]
                                    /\ frame'[d].batch = frame[d].batch
                                    /\ frame'[d].pending = frame[d].pending
    <3>1. \A d \in Clients : d # b
      BY <1>2, OperationConstants
    <3> QED BY <1>2, <1>3, <1>4, <2>3, <3>1
  <2> QED BY <1>1, <1>3, <1>6, <2>5, <2>6, <2>7, HandsMoved
<1> QED BY <1>7, <1>8

\* A client that begins to add operations has none prepared.
LEMMA AddHands ==
  ASSUME QueueInv, Hands, NEW c \in Clients,
         \/ \E batch \in Batches : AddOperations(c, batch)
         \/ \E b \in Ops : AddBarrierBlock(c, b)
  PROVE  Hands'
<1>1. /\ pc \in [Threads -> Labels] /\ local \in [Threads -> Locals]
      /\ frame \in [Threads -> Frames] /\ c \in Threads
      /\ Ops \subseteq Threads /\ Clients \subseteq Threads /\ Barriers \subseteq Ops
      /\ \A x \in Ops : x # c
  BY OperationConstants DEF QueueInv, TypeOK, OpTypeOK, Threads
<1>2. /\ state' = state /\ attached' = attached /\ operations' = operations /\ local' = local
      /\ pc[c] = "idle"
  BY DEF AddOperations, AddBarrierBlock, status, queue, Calls
<1>3. PICK s, l : /\ frame' = [frame EXCEPT ![c].batch = s, ![c].pending = s]
                  /\ pc' = [pc EXCEPT ![c] = l]
                  /\ \/ l = "prepare" /\ s \in Batches
                     \/ /\ l = "addBarrier"
                        /\ \E b \in Barriers : /\ s = <<b>> /\ state[b] = "initialized"
                                               /\ pc[b] = "idle"
                                               /\ \A t \in Clients : frame[t].batch # <<b>>
  <2>1. ASSUME NEW batch \in Batches, AddOperations(c, batch)
        PROVE  /\ frame' = [frame EXCEPT ![c].batch = batch, ![c].pending = batch]
               /\ pc' = [pc EXCEPT ![c] = "prepare"]
    BY <2>1 DEF AddOperations, Goto
  <2>2. ASSUME NEW b \in Ops, AddBarrierBlock(c, b)
        PROVE  /\ frame' = [frame EXCEPT ![c].batch = <<b>>, ![c].pending = <<b>>]
               /\ pc' = [pc EXCEPT ![c] = "addBarrier"]
               /\ b \in Barriers /\ state[b] = "initialized" /\ pc[b] = "idle"
               /\ \A t \in Clients : frame[t].batch # <<b>>
    BY <2>2 DEF AddBarrierBlock, Goto
  <2> QED BY <2>1, <2>2, Zenon
<1>4. /\ \A d \in Clients : d # c => frame'[d] = frame[d]
      /\ frame'[c].batch = s /\ frame'[c].pending = s
  BY <1>1, <1>3 DEF Frames
<1>5. /\ \A d \in Threads : d # c => pc'[d] = pc[d]
      /\ pc'[c] = l
  BY <1>1, <1>3
<1>6. \A d \in Clients : d # c => \A x \in Barriers :
        frame[d].batch = <<x>> /\ state[x] = "initialized" /\ pc[x] = "idle"
          => state'[x] = "initialized" /\ pc'[x] = "idle"
  BY <1>1, <1>2, <1>5
<1>7. CASE l = "prepare" /\ s \in Batches
  <2>1. s \in Seq(Ops \ Barriers)
    BY <1>7, QueueConstants
  <2>2. ToSet(s) \cap Barriers = {}
    <3>1. ToSet(s) \subseteq Ops \ Barriers
      BY <2>1, ElementsOfList
    <3> QED BY <3>1
  <2>3. Len(s) \in Nat
    BY <2>1, LenProperties
  <2>4. Behind(c)' = 0
    BY <1>4, <2>3 DEF Behind
  <2>5. Batched(c)' /\ Enqueuing(c)' /\ Claim(c)' /\ Prepared(c)' = 0
    BY <1>4, <1>5, <1>7, <2>2, <2>3, <2>4
    DEF Batched, Enqueuing, Claim, Prepared, Linking, PreparingLabels
  <2>6. BarrierAlone'
    <3>1. \A b \in Barriers : s # <<b>>
      <4> SUFFICES ASSUME NEW b \in Barriers, s = <<b>> PROVE FALSE
        OBVIOUS
      <4>1. b \in ToSet(<<b>>)
        BY DEF ToSet
      <4> QED BY <2>2, <4>1
    <3>2. ASSUME NEW d \in Clients, NEW x \in Barriers, x \in ToSet(frame'[d].batch)
          PROVE  frame'[d].batch = <<x>>
      <4>1. d # c
        BY <1>4, <2>2, <3>2
      <4> QED BY <1>4, <3>2, <4>1 DEF Hands, BarrierAlone
    <3>3. ASSUME NEW d \in Clients, NEW e \in Clients, NEW x \in Barriers,
                 frame'[d].batch = <<x>>, frame'[e].batch = <<x>>, d # e
          PROVE  FALSE
      <4>1. d # c /\ e # c
        BY <1>4, <3>1, <3>3
      <4> QED BY <1>4, <3>3, <4>1 DEF Hands, BarrierAlone
    <3> QED BY <3>2, <3>3 DEF BarrierAlone
  <2> QED BY <1>1, <1>2, <1>4, <1>5, <1>6, <2>5, <2>6, HandsMoved
<1>8. ASSUME l = "addBarrier",
             NEW b \in Barriers, s = <<b>>, state[b] = "initialized", pc[b] = "idle",
             \A t \in Clients : frame[t].batch # <<b>>
      PROVE  Hands'
  <2>1. Fresh(c)'
    BY <1>1, <1>2, <1>4, <1>5, <1>8 DEF Fresh
  <2>2. Batched(c)' /\ Enqueuing(c)' /\ Claim(c)' /\ Prepared(c)' = 0
    BY <1>5, <1>8, <2>1 DEF Batched, Enqueuing, Claim, Prepared, PreparingLabels
  <2>3. BarrierAlone'
    <3>1. ToSet(<<b>>) = {b} /\ \A x : <<x>> = <<b>> => x = b
      BY DEF ToSet
    <3>2. ASSUME NEW d \in Clients, NEW x \in Barriers, x \in ToSet(frame'[d].batch)
          PROVE  frame'[d].batch = <<x>>
      <4>1. CASE d = c
        BY <1>4, <1>8, <3>1, <3>2, <4>1
      <4>2. CASE d # c
        BY <1>4, <3>2, <4>2 DEF Hands, BarrierAlone
      <4> QED BY <4>1, <4>2
    <3>3. ASSUME NEW d \in Clients, NEW e \in Clients, NEW x \in Barriers,
                 frame'[d].batch = <<x>>, frame'[e].batch = <<x>>, d # e
          PROVE  FALSE
      <4>1. CASE d # c /\ e # c
        BY <1>4, <3>3, <4>1 DEF Hands, BarrierAlone
      <4>2. CASE d = c \/ e = c
        <5>1. x = b
          BY <1>4, <1>8, <3>1, <3>3, <4>2, Zenon
        <5> QED BY <1>4, <1>8, <3>3, <4>2, <5>1
      <4> QED BY <4>1, <4>2
    <3> QED BY <3>2, <3>3 DEF BarrierAlone
  <2> QED BY <1>1, <1>2, <1>4, <1>5, <1>6, <2>2, <2>3, HandsMoved
<1> QED BY <1>3, <1>7, <1>8

\* The steps that enqueue keep what is known of the main list.
LEMMA EnqueueMembers ==
  ASSUME QueueInv, AllStages, AllMembers, Hands, Once(operations), NEW u \in Ops,
         NEW c \in Threads, Enqueues(c)
  PROVE  Member(u)' /\ Once(operations)'
<1>1. c \in Clients /\ c \notin Ops
  BY EnqueuesClient
<1>2. /\ pc \in [Threads -> Labels] /\ local \in [Threads -> Locals]
      /\ state \in [Ops -> DOMAIN Rank] /\ attached \in [Ops -> BOOLEAN] /\ u \in Threads
      /\ u # c
  BY <1>1 DEF QueueInv, TypeOK, OpTypeOK, Threads
<1>3. Member(u)
  BY DEF AllMembers
<1>4. CASE Prepare(c)
  <2>1. /\ attached' = attached /\ operations' = operations /\ pc'[u] = pc[u] /\ local'[u] = local[u]
        /\ state'[u] = state[u] \/ state'[u] = "enqueuing"
    BY <1>1, <1>2, <1>4 DEF Prepare, Goto, queueVars, queue
  <2> QED BY <1>3, <2>1 DEF Member
<1>5. CASE Adopt(c)
  <2>1. /\ state' = state /\ operations' = operations /\ pc'[u] = pc[u] /\ local' = local
        /\ u # local[c].subject => attached'[u] = attached[u]
    BY <1>1, <1>2, <1>5 DEF Adopt, Goto, queue
  <2>2. state[local[c].subject] = "enqueuing"
    BY <1>5, AdoptHands
  <2>3. CASE u = local[c].subject
    BY <2>1, <2>2, <2>3 DEF Member
  <2>4. CASE u # local[c].subject
    BY <1>3, <2>1, <2>4 DEF Member
  <2> QED BY <2>1, <2>3, <2>4
<1>6. CASE AppendBatch(c)
  <2>1. /\ state' = state /\ attached' = attached /\ local' = local /\ pc'[u] = pc[u]
    BY <1>1, <1>2, <1>6 DEF AppendBatch, Goto, status
  <2>2. /\ Once(operations)'
        /\ u \in ToSet(operations') <=> u \in ToSet(operations) \/ u \in ToSet(frame[c].batch)
        /\ u \in ToSet(frame[c].batch) => state[u] = "enqueuing"
    BY <1>6, AppendHands
  <2>3. CASE u \in ToSet(frame[c].batch)
    BY <2>1, <2>2, <2>3 DEF Member
  <2>4. CASE u \notin ToSet(frame[c].batch)
    BY <1>3, <2>1, <2>2, <2>4 DEF Member
  <2> QED BY <2>2, <2>3, <2>4
<1>7. CASE Linked(c) \/ LockForBarrier(c)
  <2>1. /\ attached' = attached /\ operations' = operations /\ pc'[u] = pc[u] /\ local' = local
        /\ state' = state
    BY <1>1, <1>2, <1>7 DEF Linked, LockForBarrier, Goto, status, queueVars, queue
  <2> QED BY <1>3, <2>1 DEF Member
<1>8. CASE Publish(c)
  <2>1. /\ attached' = attached /\ operations' = operations /\ pc'[u] = pc[u] /\ local'[u] = local[u]
        /\ u # Head(frame[c].pending) => state'[u] = state[u]
    BY <1>1, <1>2, <1>8 DEF Publish, Goto
  <2>2. u = Head(frame[c].pending) =>
          state'[u] = "enqueued" /\ attached[u] /\ u \in ToSet(operations)
    <3>1. u = Head(frame[c].pending) =>
            attached[u] /\ u \in ToSet(operations) /\ state[u] = "enqueuing"
      BY <1>8, PublishHands
    <3>2. u = Head(frame[c].pending) /\ state[u] = "enqueuing" => state'[u] = "enqueued"
      BY <1>2, <1>8 DEF Publish
    <3> QED BY <3>1, <3>2
  <2>3. CASE u = Head(frame[c].pending)
    BY <2>1, <2>2, <2>3 DEF Member
  <2>4. CASE u # Head(frame[c].pending)
    BY <1>3, <2>1, <2>4 DEF Member
  <2> QED BY <2>1, <2>3, <2>4
<1>9. CASE SubmitBlock(c)
  <2>1. PICK b \in Barriers : frame[c].pending = <<b>> /\ state[b] = "initialized"
    BY <1>1, <1>9 DEF SubmitBlock, Hands, AllEnqueuing, Enqueuing, Fresh
  <2>2. Head(frame[c].pending) = b
    BY <2>1
  <2>3. /\ attached' = attached /\ operations' = operations /\ local' = local /\ state' = state
        /\ pc' = [pc EXCEPT ![c] = "idle", ![b] = "queued"]
    BY <1>9, <2>2 DEF SubmitBlock, status, queue
  <2>4. u # b => pc'[u] = pc[u]
    BY <1>1, <1>2, <2>3
  <2>5. CASE u = b
    BY <1>3, <2>1, <2>3, <2>5 DEF Member
  <2>6. CASE u # b
    BY <1>3, <2>3, <2>4, <2>6 DEF Member
  <2> QED BY <2>3, <2>5, <2>6
<1> QED BY <1>4, <1>5, <1>6, <1>7, <1>8, <1>9 DEF Enqueues

\* What is known of the operations, before any step of the queue and after it.
LEMMA QueueHandsNext ==
  ASSUME QueueInv, AllStages, AllMembers, Hands, Once(operations), QueueNext
  PROVE  Hands' /\ AllMembers' /\ Once(operations)'
<1>1. ASSUME NEW t \in Threads, Enqueues(t)
      PROVE  Hands' /\ AllMembers' /\ Once(operations)'
  <2>1. AllMembers'
    BY <1>1, EnqueueMembers DEF AllMembers
  <2>2. Hands'
    BY <1>1, PrepareHands, AdoptHands, AppendHands, LinkedHands, PublishHands, BarrierHands
    DEF Enqueues
  <2>3. Once(operations)'
    <3>1. CASE AppendBatch(t)
      BY <3>1, AppendHands
    <3>2. CASE ~AppendBatch(t)
      <4>1. operations' = operations
        BY <1>1, <3>2, Zenon DEF Enqueues, Prepare, Adopt, Linked, Publish, LockForBarrier, SubmitBlock,
           queueVars, queue
      <4> QED BY <4>1
    <3> QED BY <3>1, <3>2
  <2> QED BY <2>1, <2>2, <2>3
<1>2. ASSUME NEW c \in Clients,
             \/ \E batch \in Batches : AddOperations(c, batch)
             \/ \E b \in Ops : AddBarrierBlock(c, b)
      PROVE  Hands' /\ AllMembers' /\ Once(operations)'
  <2>1. /\ state' = state /\ attached' = attached /\ operations' = operations /\ local' = local
    BY <1>2 DEF AddOperations, AddBarrierBlock, status, queue
  <2>2. \A u \in Ops : pc'[u] = pc[u]
    <3>1. pc \in [Threads -> Labels] /\ Ops \subseteq Threads /\ \A u \in Ops : u # c
      BY OperationConstants DEF QueueInv, TypeOK, OpTypeOK, Threads
    <3> QED BY <1>2, <3>1 DEF AddOperations, AddBarrierBlock, Goto
  <2>3. AllMembers'
    BY <2>1, <2>2 DEF AllMembers, Member
  <2> QED BY <1>2, <2>1, <2>3, AddHands
<1>3. CASE \/ \E t \in Threads : Reads(t) \/ Schedules(t) \/ Others(t)
           \/ \E o \in Ops : ItemStep(o)
           \/ \E c \in Clients : OtherCall(c)
  BY <1>3, QuietHands
<1>4. \A t \in Threads : QueueStep(t) => Enqueues(t) \/ Reads(t) \/ Schedules(t) \/ Others(t)
  BY Zenon DEF QueueStep, Enqueues, Reads, Schedules, Others
<1>5. \A c \in Clients : QueueCall(c) =>
        \/ \E batch \in Batches : AddOperations(c, batch)
        \/ \E b \in Ops : AddBarrierBlock(c, b)
        \/ OtherCall(c)
  BY Zenon DEF QueueCall, OtherCall
<1> QED BY <1>1, <1>2, <1>3, <1>4, <1>5, Zenon DEF QueueNext

-----------------------------------------------------------------------------
(* The priority lists.                                                         *)

AllWalking == \A t \in Threads : Walking(t)

\* The levels an operation may get are levels.
LEMMA LevelTypes ==
  ASSUME QueueInv, NEW o \in Ops
  PROVE  LevelOnAdd(o) \in Levels /\ LevelOnChange(o) \in Levels
<1>1. priority[o] \in Levels \cup {None} /\ qos[o] \in Levels \cup {None} /\ Normal \in Levels
  BY QueueConstants DEF QueueInv, TypeOK
<1>2. LevelOnAdd(o) \in {priority[o], qos[o], Normal}
         /\ (LevelOnAdd(o) = None => Normal = None)
  BY DEF LevelOnAdd
<1>3. LevelOnChange(o) \in {priority[o], qos[o], Normal}
         /\ (LevelOnChange(o) = None => Normal = None)
  BY DEF LevelOnChange
<1> QED BY <1>1, <1>2, <1>3

\* An operation that is enqueued joins the end of a list.
LEMMA ListedAppended ==
  ASSUME Listed, lists \in [Levels -> Seq(Ops)], state \in [Ops -> DOMAIN Rank],
         NEW o \in Ops, NEW k \in Levels, state[o] # "enqueued",
         state' = [state EXCEPT ![o] = "enqueued"], lists' = [lists EXCEPT ![k] = Append(@, o)]
  PROVE  Listed'
<1>1. \A l \in Levels : o \notin ToSet(lists[l])
  BY DEF Listed
<1>2. /\ lists'[k] = Append(lists[k], o)
      /\ \A l \in Levels : l # k => lists'[l] = lists[l]
      /\ state'[o] = "enqueued" /\ \A p \in Ops : p # o => state'[p] = state[p]
  OBVIOUS
<1>3. Once(lists'[k]) /\ ToSet(lists'[k]) = ToSet(lists[k]) \cup {o}
  <2>1. lists[k] \in Seq(Ops) /\ Once(lists[k]) /\ o \notin ToSet(lists[k])
    BY <1>1 DEF Listed
  <2> QED BY <1>2, <2>1, AppendOnce
<1>4. \A l \in Levels : \A p : p \in ToSet(lists'[l]) <=> p \in ToSet(lists[l]) \/ (p = o /\ l = k)
  BY <1>2, <1>3
<1>5. \A l \in Levels : Once(lists'[l])
  BY <1>2, <1>3 DEF Listed
<1>6. \A l, m \in Levels : \A p \in Ops : p \in ToSet(lists'[l]) /\ p \in ToSet(lists'[m]) => l = m
  BY <1>1, <1>4 DEF Listed
<1>7. \A p \in Ops : state'[p] = "enqueued" <=> \E l \in Levels : p \in ToSet(lists'[l])
  BY <1>2, <1>4 DEF Listed
<1> QED BY <1>5, <1>6, <1>7 DEF Listed

\* One that is dispatched leaves its list.
LEMMA ListedUnlinked ==
  ASSUME Listed, lists \in [Levels -> Seq(Ops)], state \in [Ops -> DOMAIN Rank],
         NEW o \in Ops, NEW k \in Levels, o \in ToSet(lists[k]), NEW s, s # "enqueued",
         state' = [state EXCEPT ![o] = s], lists' = [lists EXCEPT ![k] = Unlinked(@, o)]
  PROVE  Listed' /\ ToSet(lists'[k]) = ToSet(lists[k]) \ {o}
<1>1. \A l \in Levels : o \in ToSet(lists[l]) => l = k
  BY DEF Listed
<1>2. /\ lists'[k] = Unlinked(lists[k], o)
      /\ \A l \in Levels : l # k => lists'[l] = lists[l]
      /\ state'[o] # "enqueued" /\ \A p \in Ops : p # o => state'[p] = state[p]
  OBVIOUS
<1>3. Once(lists'[k]) /\ ToSet(lists'[k]) = ToSet(lists[k]) \ {o}
  <2>1. lists[k] \in Seq(Ops) /\ Once(lists[k])
    BY DEF Listed
  <2> QED BY <1>2, <2>1, UnlinkedOnce
<1>4. \A l \in Levels : \A p : p \in ToSet(lists'[l]) <=> p \in ToSet(lists[l]) /\ p # o
  BY <1>1, <1>2, <1>3
<1>5. \A l \in Levels : Once(lists'[l])
  BY <1>2, <1>3 DEF Listed
<1>6. \A l, m \in Levels : \A p \in Ops : p \in ToSet(lists'[l]) /\ p \in ToSet(lists'[m]) => l = m
  BY <1>4 DEF Listed
<1>7. \A p \in Ops : state'[p] = "enqueued" <=> \E l \in Levels : p \in ToSet(lists'[l])
  BY <1>2, <1>4 DEF Listed
<1> QED BY <1>3, <1>5, <1>6, <1>7 DEF Listed

\* One whose priority changes moves from a list to another.
LEMMA ListedMoved ==
  ASSUME Listed, lists \in [Levels -> Seq(Ops)],
         NEW o \in Ops, NEW k \in Levels, NEW n \in Levels, k # n, o \in ToSet(lists[k]),
         state' = state, lists' = Moved(o, k, n)
  PROVE  Listed'
<1>1. \A l \in Levels : o \in ToSet(lists[l]) => l = k
  BY DEF Listed
<1>2. /\ lists'[k] = Unlinked(lists[k], o)
      /\ lists'[n] = Append(lists[n], o)
      /\ \A l \in Levels : l # k /\ l # n => lists'[l] = lists[l]
  BY DEF Moved
<1>3. Once(lists'[k]) /\ ToSet(lists'[k]) = ToSet(lists[k]) \ {o}
  <2>1. lists[k] \in Seq(Ops) /\ Once(lists[k])
    BY DEF Listed
  <2> QED BY <1>2, <2>1, UnlinkedOnce
<1>4. Once(lists'[n]) /\ ToSet(lists'[n]) = ToSet(lists[n]) \cup {o}
  <2>1. lists[n] \in Seq(Ops) /\ Once(lists[n]) /\ o \notin ToSet(lists[n])
    BY <1>1 DEF Listed
  <2> QED BY <1>2, <2>1, AppendOnce
<1>5. \A l \in Levels : \A p : p \in ToSet(lists'[l]) <=>
        IF p = o THEN l = n ELSE p \in ToSet(lists[l])
  BY <1>1, <1>2, <1>3, <1>4
<1>6. \A l \in Levels : Once(lists'[l])
  BY <1>2, <1>3, <1>4 DEF Listed
<1>7. ASSUME NEW l \in Levels, NEW m \in Levels, NEW p \in Ops,
             p \in ToSet(lists'[l]), p \in ToSet(lists'[m])
      PROVE  l = m
  <2>1. CASE p = o
    BY <1>5, <1>7, <2>1
  <2>2. CASE p # o
    BY <1>5, <1>7, <2>2 DEF Listed
  <2> QED BY <2>1, <2>2
<1>8. \A p \in Ops : state'[p] = "enqueued" <=> \E l \in Levels : p \in ToSet(lists'[l])
  BY <1>5 DEF Listed
<1> QED BY <1>6, <1>7, <1>8 DEF Listed

\* The threads that walk over a list.
WalkLabels == {"visit", "probe"}

\* While a thread walks over a list, nobody else has the queue's lock.
LEMMA LoneWalker ==
  ASSUME QueueInv, NEW t \in Threads \cup {None}, queueLock = t, NEW u \in Threads, u # t
  PROVE  pc[u] \notin WalkLabels
BY DEF QueueInv, Located, WalkLabels

\* A walk goes on where it was while its thread does nothing and the lists are the same.
LEMMA WalkingKept ==
  ASSUME NEW u \in Threads, Walking(u), lists' = lists,
         pc'[u] \in WalkLabels => pc'[u] = pc[u] /\ frame'[u] = frame[u]
  PROVE  Walking(u)'
BY DEF Walking, WalkLabels

\* The lists stay those of the enqueued operations while neither changes.
LEMMA ListedKept ==
  ASSUME Listed, lists' = lists,
         \A o \in Ops : state'[o] = "enqueued" <=> state[o] = "enqueued"
  PROVE  Listed'
BY DEF Listed

\* The lists once an operation has been added.
LEMMA PublishListed ==
  ASSUME QueueInv, AllStages, Hands, Listed, AllWalking, NEW c \in Threads, Publish(c)
  PROVE  Listed' /\ AllWalking'
<1> DEFINE o == Head(frame[c].pending)
           k == LevelOnAdd(o)
<1>1. /\ pc \in [Threads -> Labels] /\ state \in [Ops -> DOMAIN Rank]
      /\ lists \in [Levels -> Seq(Ops)]
  BY DEF QueueInv, TypeOK, OpTypeOK
<1>2. o \in Ops /\ state[o] = "enqueuing" /\ k \in Levels
  BY PublishHands, LevelTypes
<1>3. Listed'
  <2>1. /\ state' = [state EXCEPT ![o] = "enqueued"]
        /\ lists' = [lists EXCEPT ![k] = Append(@, o)]
    BY <1>2 DEF Publish
  <2> HIDE DEF o, k
  <2> QED BY <1>1, <1>2, <2>1, ListedAppended
<1>4. queueLock = c /\ pc'[c] \notin WalkLabels /\ \A u \in Threads : u # c => pc'[u] = pc[u]
  BY <1>1 DEF Publish, QueueInv, Located, Goto, WalkLabels
<1>5. \A u \in Threads : pc'[u] \notin WalkLabels
  BY <1>4, LoneWalker
<1> QED BY <1>3, <1>5 DEF AllWalking, Walking, WalkLabels

\* The lists once an operation has been dispatched.
LEMMA DispatchListed ==
  ASSUME QueueInv, Listed, AllWalking, NEW t \in Threads, Dispatch(t)
  PROVE  Listed' /\ AllWalking'
<1> DEFINE w == frame[t].walk
           o == Head(w)
           k == frame[t].level
<1>1. /\ pc \in [Threads -> Labels] /\ state \in [Ops -> DOMAIN Rank]
      /\ lists \in [Levels -> Seq(Ops)] /\ frame \in [Threads -> Frames]
      /\ w \in Seq(Ops) /\ Ops \subseteq Threads
  BY DEF QueueInv, TypeOK, OpTypeOK, Frames, Threads
<1>2. k \in Levels /\ Once(w) /\ ToSet(w) \subseteq ToSet(lists[k]) /\ w # <<>>
  BY DEF Dispatch, AllWalking, Walking
<1>3. o \in ToSet(w) /\ Once(Tail(w)) /\ ToSet(Tail(w)) = ToSet(w) \ {o}
  <2> HIDE DEF w
  <2> QED BY <1>1, <1>2, TailOnce
<1>4. o \in ToSet(lists[k]) /\ o \in Ops
  BY <1>1, <1>2, <1>3, HeadTailProperties
<1>5. Listed' /\ ToSet(lists'[k]) = ToSet(lists[k]) \ {o}
  <2>1. /\ state' = [state EXCEPT ![o] = "dispatching"]
        /\ lists' = [lists EXCEPT ![k] = Unlinked(@, o)]
    BY DEF Dispatch
  <2> HIDE DEF w, o, k
  <2> QED BY <1>1, <1>2, <1>4, <2>1, ListedUnlinked
<1>6. queueLock = t /\ pc' = [pc EXCEPT ![o] = "queued"]
  BY DEF Dispatch, QueueInv, Located
<1>7. frame'[t].walk = Tail(w) /\ frame'[t].level = k
  <2>1. frame' = [frame EXCEPT ![t].walk = Tail(@), ![t].slots = @ - 1]
    BY DEF Dispatch
  <2> QED BY <1>1, <2>1 DEF Frames
<1>8. Walking(t)'
  BY <1>2, <1>3, <1>5, <1>7 DEF Walking
<1>9. ASSUME NEW u \in Threads, u # t
      PROVE  Walking(u)'
  <2>1. pc'[u] \notin WalkLabels
    BY <1>1, <1>4, <1>6, <1>9, LoneWalker DEF WalkLabels
  <2> QED BY <2>1 DEF Walking, WalkLabels
<1> QED BY <1>5, <1>8, <1>9 DEF AllWalking

\* The lists once the priority of an operation has changed.
LEMMA ChangeListed ==
  ASSUME QueueInv, Listed, AllWalking, NEW t \in Threads, ChangePriority(t)
  PROVE  Listed' /\ AllWalking'
<1> DEFINE o == local[t].subject
           old == LevelOnChange(o)
           new == frame[t].level
<1>1. /\ pc \in [Threads -> Labels] /\ lists \in [Levels -> Seq(Ops)]
      /\ new \in Levels /\ o \in Ops /\ old \in Levels
  BY LevelTypes DEF QueueInv, TypeOK, OpTypeOK, Located, ChangePriority
<1>2. state' = state /\ queueLock = None /\ pc' = [pc EXCEPT ![t] = "idle"]
  BY DEF ChangePriority, status, Unlocked, Goto
<1>3. Listed'
  <2>1. CASE old # new /\ o \in ToSet(lists[old])
    <3>1. lists' = Moved(o, old, new)
      BY <2>1 DEF ChangePriority
    <3> HIDE DEF o, old, new
    <3> QED BY <1>1, <1>2, <2>1, <3>1, ListedMoved
  <2>2. CASE ~(old # new /\ o \in ToSet(lists[old]))
    <3>1. lists' = lists
      BY <2>2 DEF ChangePriority
    <3> QED BY <1>2, <3>1, ListedKept
  <2> QED BY <2>1, <2>2
<1>4. \A u \in Threads : pc[u] \notin WalkLabels
  <2>1. None \notin Threads
    BY OperationConstants DEF Threads
  <2> QED BY <1>2, <2>1, LoneWalker
<1>5. \A u \in Threads : pc'[u] \notin WalkLabels
  BY <1>1, <1>2, <1>4 DEF WalkLabels
<1> QED BY <1>3, <1>5 DEF AllWalking, Walking, WalkLabels

\* The lists while _schedule() dispatches nothing.
LEMMA ScheduleListed ==
  ASSUME QueueInv, Listed, AllWalking, NEW t \in Threads, Schedules(t), ~Dispatch(t)
  PROVE  Listed' /\ AllWalking'
<1>1. /\ lists \in [Levels -> Seq(Ops)] /\ frame \in [Threads -> Frames]
      /\ frame[t].walk \in Seq(Ops) /\ pc \in [Threads -> Labels]
      /\ local[t].after \in Returns
  BY DEF QueueInv, TypeOK, OpTypeOK, Frames, Locals
<1>2. lists' = lists
  BY Zenon DEF Schedules, Schedule, EnterLevel, LeaveLevel, NotReady, Probe, ScheduleDone,
     Retest, RetestSet, queueVars, queue
<1>3. state' = state /\ \A u \in Threads : u # t => pc'[u] = pc[u]
  BY ScheduleMoves
<1>4. Listed'
  BY <1>2, <1>3, ListedKept
<1>5. ASSUME NEW u \in Threads, u # t
      PROVE  Walking(u)'
  <2>1. frame'[u] = frame[u]
    BY <1>1, <1>5 DEF Schedules, Schedule, EnterLevel, LeaveLevel, NotReady, Probe, ScheduleDone,
       Retest, RetestSet, queueVars
  <2> QED BY <1>2, <1>3, <1>5, <2>1, WalkingKept DEF AllWalking
<1>6. Walking(t)'
  <2>1. CASE EnterLevel(t)
    <3>1. PICK k \in LevelsLeft(t) : frame' = [frame EXCEPT ![t].level = k, ![t].walk = lists[k]]
      BY <2>1 DEF EnterLevel
    <3>2. frame'[t].level = k /\ frame'[t].walk = lists[k] /\ k \in Levels
      BY <1>1, <3>1 DEF Frames, LevelsLeft
    <3> QED BY <1>2, <3>2 DEF Walking, Listed
  <2>2. CASE Probe(t)
    <3>1. frame' = [frame EXCEPT ![t].walk = Tail(@),
                                 ![t].retest = IF IsReady(Head(frame[t].walk))
                                               THEN Append(@, Head(frame[t].walk)) ELSE @]
      BY <2>2 DEF Probe
    <3>2. frame'[t].level = frame[t].level /\ frame'[t].walk = Tail(frame[t].walk)
      BY <1>1, <3>1 DEF Frames
    <3>3. pc[t] = "probe" /\ frame[t].walk # <<>>
      BY <2>2 DEF Probe, QueueInv, Located
    <3>4. Walking(t)
      BY DEF AllWalking
    <3>5. Once(frame[t].walk)
      BY <3>3, <3>4 DEF Walking
    <3>6. Once(Tail(frame[t].walk)) /\ ToSet(Tail(frame[t].walk)) \subseteq ToSet(frame[t].walk)
      BY <1>1, <3>3, <3>5, TailOnce
    <3> QED BY <1>2, <3>2, <3>3, <3>4, <3>6 DEF Walking
  <2>3. CASE NotReady(t)
    <3>1. frame' = frame /\ pc[t] = "visit"
      BY <2>3 DEF NotReady, queueVars
    <3> QED BY <1>2, <3>1 DEF Walking, AllWalking
  <2>4. CASE Schedule(t) \/ LeaveLevel(t)
    BY <1>1, <2>4 DEF Schedule, LeaveLevel, Goto, Walking
  <2>5. CASE ScheduleDone(t) \/ Retest(t) \/ RetestSet(t)
    <3>1. pc'[t] \in {"retest", "retestSet", local[t].after}
      BY <1>1, <2>5 DEF ScheduleDone, Retest, RetestSet, RetestNext, Return, Goto
    <3> QED BY <1>1, <3>1 DEF Walking, Returns
  <2> QED BY <2>1, <2>2, <2>3, <2>4, <2>5 DEF Schedules
<1> QED BY <1>4, <1>5, <1>6 DEF AllWalking

\* The other steps of the queue, which leave the lists and the walks as they are.
Elsewhere(t) == Reads(t) \/ (Enqueues(t) /\ ~Publish(t)) \/ (Others(t) /\ ~ChangePriority(t))

LEMMA ElsewhereListed ==
  ASSUME QueueInv, AllStages, Hands, Listed, AllWalking,
         \/ \E t \in Threads : Elsewhere(t)
         \/ \E o \in Ops : ItemStep(o)
         \/ \E c \in Clients : QueueCall(c)
  PROVE  Listed' /\ AllWalking'
<1>1. /\ pc \in [Threads -> Labels] /\ local \in [Threads -> Locals]
      /\ state \in [Ops -> DOMAIN Rank] /\ frame \in [Threads -> Frames]
      /\ Ops \subseteq Threads /\ Clients \subseteq Threads
      /\ \A t \in Threads : local[t].after \in Returns
  BY DEF QueueInv, TypeOK, OpTypeOK, Threads, Locals
<1>2. lists' = lists
  BY Zenon DEF Elsewhere, Reads, Enqueues, Others, ItemStep, QueueCall,
     ReadReady, WriteReady, Prepare, Adopt, AppendBatch, Linked, LockForBarrier, SubmitBlock,
     Link, CancelNext, CancelledAll, SnapshotAll, WaitNext,
     BeginItem, Starting, Retire, Invalidate, EndItem,
     AddOperations, AddBarrierBlock, SetQueuePriority, SetMaxConcurrent, SetSuspended,
     CancelAllOperations, WaitUntilAllOperationsAreFinished, queueVars, queue
<1>3. ASSUME NEW p \in Ops
      PROVE  state'[p] = "enqueued" <=> state[p] = "enqueued"
  <2>1. CASE state' = state
    BY <2>1
  <2>2. ASSUME NEW t \in Threads, Prepare(t)
        PROVE  state'[p] = "enqueued" <=> state[p] = "enqueued"
    BY <1>1, <2>2 DEF Prepare
  <2>3. ASSUME NEW o \in Ops, Starting(o)
        PROVE  state'[p] = "enqueued" <=> state[p] = "enqueued"
    <3>1. state[o] # "enqueued"
      BY <2>3 DEF AllStages, Stage, Starting
    <3> QED BY <1>1, <2>3, <3>1 DEF Starting
  <2>4. \/ state' = state
        \/ \E t \in Threads : Prepare(t)
        \/ \E o \in Ops : Starting(o)
    BY Zenon DEF Elsewhere, Reads, Enqueues, Others, ItemStep, QueueCall,
       ReadReady, WriteReady, Adopt, AppendBatch, Linked, LockForBarrier, SubmitBlock,
       Link, CancelNext, CancelledAll, SnapshotAll, WaitNext,
       BeginItem, Retire, Invalidate, EndItem,
       AddOperations, AddBarrierBlock, SetQueuePriority, SetMaxConcurrent, SetSuspended,
       CancelAllOperations, WaitUntilAllOperationsAreFinished, status
  <2> QED BY <2>1, <2>2, <2>3, <2>4
<1>4. ASSUME NEW u \in Threads, pc'[u] \in WalkLabels
      PROVE  pc'[u] = pc[u] /\ frame'[u] = frame[u]
  <2>1. ASSUME NEW t \in Threads, Reads(t) \/ (Enqueues(t) /\ ~Publish(t) /\ ~SubmitBlock(t))
        PROVE  pc'[u] = pc[u] /\ frame'[u] = frame[u]
    <3>1. pc'[t] \notin WalkLabels /\ \A v \in Threads : v # t => pc'[v] = pc[v]
      BY <1>1, <2>1 DEF Reads, Enqueues, ReadReady, WriteReady, Prepare, Adopt, AppendBatch, Linked,
         LockForBarrier, Goto, WalkLabels
    <3>2. \A v \in Threads : v # t => frame'[v] = frame[v]
      BY <1>1, <2>1 DEF Reads, Enqueues, ReadReady, WriteReady, Prepare, Adopt, AppendBatch, Linked,
         LockForBarrier, queueVars
    <3> QED BY <1>4, <3>1, <3>2
  <2>2. ASSUME NEW t \in Threads, SubmitBlock(t)
        PROVE  pc'[u] = pc[u] /\ frame'[u] = frame[u]
    BY <1>1, <1>4, <2>2 DEF SubmitBlock, WalkLabels
  <2>3. ASSUME NEW t \in Threads, (Others(t) /\ ~ChangePriority(t)) \/ OtherCall(t)
        PROVE  pc'[u] = pc[u] /\ frame'[u] = frame[u]
    <3>1. \A v \in Threads : v # t => frame'[v] = frame[v]
      BY <1>1, <2>3 DEF Others, Link, CancelNext, CancelledAll, SnapshotAll, WaitNext, OtherCall,
         SetQueuePriority, SetMaxConcurrent, SetSuspended, CancelAllOperations,
         WaitUntilAllOperationsAreFinished, queueVars
    <3>2. pc'[t] \notin WalkLabels
      <4>1. t \in Threads
        BY <1>1, <2>3
      <4>2. CASE Link(t) \/ CancelNext(t)
        BY <1>1, <4>1, <4>2 DEF Link, CancelNext, Enter, Goto, WalkLabels
      <4>3. CASE CancelledAll(t) \/ SnapshotAll(t)
        BY <1>1, <4>1, <4>3 DEF CancelledAll, SnapshotAll, Goto, WalkLabels
      <4>4. CASE WaitNext(t)
        BY <1>1, <4>1, <4>4 DEF WaitNext, Enter, Goto, WalkLabels
      <4>5. CASE CancelAllOperations(t) \/ WaitUntilAllOperationsAreFinished(t)
        BY <1>1, <4>1, <4>5 DEF CancelAllOperations, WaitUntilAllOperationsAreFinished, Goto, WalkLabels
      <4>6. ASSUME NEW o \in Ops, NEW k \in Levels, SetQueuePriority(t, o, k)
            PROVE  pc'[t] \notin WalkLabels
        BY <1>1, <4>1, <4>6 DEF SetQueuePriority, Enter, Goto, WalkLabels
      <4>7. ASSUME NEW max \in 0..Unlimited, SetMaxConcurrent(t, max)
            PROVE  pc'[t] \notin WalkLabels
        BY <1>1, <4>1, <4>7 DEF SetMaxConcurrent, Enter, Goto, WalkLabels
      <4>8. ASSUME NEW newValue \in BOOLEAN, SetSuspended(t, newValue)
            PROVE  pc'[t] \notin WalkLabels
        BY <1>1, <4>1, <4>8 DEF SetSuspended, Enter, Goto, WalkLabels
      <4> QED BY <2>3, <4>2, <4>3, <4>4, <4>5, <4>6, <4>7, <4>8 DEF Others, OtherCall
    <3>3. u # t
      BY <1>4, <3>2
    <3> QED BY <2>3, <3>1, <3>3, OthersElsewhere
  <2>4. ASSUME NEW o \in Ops, ItemStep(o)
        PROVE  pc'[u] = pc[u] /\ frame'[u] = frame[u]
    <3>1. frame' = frame
      BY <2>4 DEF ItemStep, BeginItem, Starting, Retire, Invalidate, EndItem, queueVars
    <3>2. PICK l : pc' = [pc EXCEPT ![o] = l] /\ l \notin WalkLabels
      BY <2>4 DEF ItemStep, BeginItem, Starting, Retire, Invalidate, EndItem, Goto, WalkLabels
    <3> QED BY <1>1, <1>4, <3>1, <3>2
  <2>5. ASSUME NEW c \in Clients,
               \/ \E batch \in Batches : AddOperations(c, batch)
               \/ \E b \in Ops : AddBarrierBlock(c, b)
        PROVE  pc'[u] = pc[u] /\ frame'[u] = frame[u]
    <3>1. pc'[c] \notin WalkLabels /\ \A v \in Threads : v # c => pc'[v] = pc[v] /\ frame'[v] = frame[v]
      BY <1>1, <2>5 DEF AddOperations, AddBarrierBlock, Goto, WalkLabels
    <3> QED BY <1>4, <3>1
  <2>6. \A c \in Clients : QueueCall(c) =>
          \/ \E batch \in Batches : AddOperations(c, batch)
          \/ \E b \in Ops : AddBarrierBlock(c, b)
          \/ OtherCall(c)
    BY Zenon DEF QueueCall, OtherCall
  <2> QED BY <1>1, <2>1, <2>2, <2>3, <2>4, <2>5, <2>6 DEF Elsewhere
<1>5. Listed'
  BY <1>2, <1>3, ListedKept
<1>6. AllWalking'
  BY <1>2, <1>4, WalkingKept DEF AllWalking
<1> QED BY <1>5, <1>6

\* The lists after any step of the queue ...
LEMMA QueueListedNext ==
  ASSUME QueueInv, AllStages, Hands, Listed, AllWalking, QueueNext
  PROVE  Listed' /\ AllWalking'
<1>1. \A t \in Threads : QueueStep(t) =>
        Publish(t) \/ Dispatch(t) \/ ChangePriority(t) \/ (Schedules(t) /\ ~Dispatch(t)) \/ Elsewhere(t)
  BY Zenon DEF QueueStep, Schedules, Elsewhere, Reads, Enqueues, Others
<1> QED
  BY <1>1, PublishListed, DispatchListed, ChangeListed, ScheduleListed, ElsewhereListed
  DEF QueueNext

\* ... and after one of an operation.
LEMMA OpListedNext ==
  ASSUME QueueInv, AllStages, Listed, AllWalking, OpNext, UNCHANGED queueVars
  PROVE  Listed' /\ AllWalking'
<1>1. lists' = lists /\ frame' = frame
  BY DEF queueVars, queue
<1>2. \A o \in Ops : state'[o] = "enqueued" <=> state[o] = "enqueued"
  BY OpNextStates DEF Executed
<1>3. Listed'
  BY <1>1, <1>2, ListedKept
<1>4. ASSUME NEW u \in Threads, pc'[u] \in WalkLabels
      PROVE  pc'[u] = pc[u]
  <2>1. pc'[u] \in CallLabels \cup RunLabels \cup {"schedule", "retire", pc[u], local[u].after}
    BY OpNextMoves DEF QueueInv, TypeOK, OpMoves
  <2>2. local[u].after \in Returns
    BY DEF QueueInv, TypeOK, OpTypeOK, Locals
  <2> QED BY <1>4, <2>1, <2>2 DEF WalkLabels, CallLabels, RunLabels, Returns
<1>5. AllWalking'
  BY <1>1, <1>4, WalkingKept DEF AllWalking
<1> QED BY <1>3, <1>5

-----------------------------------------------------------------------------
(* The inductive invariant, and what follows from it.                          *)

PoolInv ==
  /\ QueueInv
  /\ AllStages
  /\ AllMembers
  /\ Hands
  /\ Once(operations)
  /\ Listed
  /\ AllWalking

\* It holds at the start ...
LEMMA PoolInvInit == Init => PoolInv
<1> SUFFICES ASSUME Init
             PROVE  PoolInv
  OBVIOUS
<1>1. QueueInv
  BY QueueInvInit
<1>2. /\ \A t \in Threads : pc[t] = "idle" /\ local[t] = NoLocal /\ frame[t] = NoFrame
      /\ \A o \in Ops : state[o] = "initialized" /\ attached[o] = FALSE
      /\ operations = <<>> /\ \A k \in Levels : lists[k] = <<>>
      /\ Ops \subseteq Threads /\ Clients \subseteq Threads
  BY DEF Init, OpInit, QueueInit, Threads
<1>3. ToSet(<<>>) = {} /\ Once(<<>>)
  BY DEF ToSet, Once
<1>4. AllStages
  BY <1>2 DEF AllStages, Stage, NoLocal
<1>5. AllMembers
  BY <1>2, <1>3 DEF AllMembers, Member
<1>6. AllEnqueuing
  BY <1>2 DEF AllEnqueuing, Batched, Enqueuing, Linking, PreparingLabels, NoLocal
<1>7. \A c \in Clients : Prepared(c) = 0
  BY <1>2 DEF Prepared
<1>8. AllClaims /\ Disjoint
  BY <1>7 DEF AllClaims, Claim, Disjoint
<1>9. BarrierAlone
  <2>1. \A c \in Clients : frame[c].batch = <<>>
    BY <1>2 DEF NoFrame
  <2>2. \A b : <<b>> # <<>>
    OBVIOUS
  <2> QED BY <1>3, <2>1, <2>2 DEF BarrierAlone
<1>10. Listed
  BY <1>2, <1>3 DEF Listed
<1>11. AllWalking
  BY <1>2 DEF AllWalking, Walking
<1> QED
  BY <1>1, <1>2, <1>3, <1>4, <1>5, <1>6, <1>8, <1>9, <1>10, <1>11 DEF PoolInv, Hands

\* The main list has no repetitions while it is the same.
LEMMA OnceKept == operations' = operations /\ Once(operations) => Once(operations)'
BY DEF Once

\* ... every step keeps it ...
LEMMA PoolInvNext == PoolInv /\ [Next]_vars => PoolInv'
<1> SUFFICES ASSUME PoolInv, [Next]_vars
             PROVE  PoolInv'
  OBVIOUS
<1>1. QueueInv /\ AllStages /\ AllMembers /\ Hands /\ Once(operations) /\ Listed /\ AllWalking
  BY DEF PoolInv
<1>2. QueueInv'
  BY <1>1, QueueInvNext
<1>3. CASE OpNext /\ UNCHANGED queueVars
  <2>1. AllStages' /\ AllMembers' /\ Hands' /\ Listed' /\ AllWalking'
    BY <1>1, <1>3, OpStageNext, OpMembersNext, OpHandsNext, OpListedNext
  <2>2. Once(operations)'
    BY <1>1, <1>3, OnceKept DEF queueVars, queue
  <2> QED BY <1>2, <2>1, <2>2 DEF PoolInv
<1>4. CASE QueueNext
  <2>1. AllStages'
    BY <1>1, <1>4, QueueStageNext DEF Hands
  <2>2. Hands' /\ AllMembers' /\ Once(operations)'
    BY <1>1, <1>4, QueueHandsNext
  <2>3. Listed' /\ AllWalking'
    BY <1>1, <1>4, QueueListedNext
  <2> QED BY <1>2, <2>1, <2>2, <2>3 DEF PoolInv
<1>5. CASE UNCHANGED vars
  <2>1. /\ state' = state /\ attached' = attached /\ pc' = pc /\ local' = local
        /\ operations' = operations /\ lists' = lists /\ frame' = frame
    BY <1>5 DEF vars, opVars, status, queueVars, queue
  <2>2. AllStages' /\ AllMembers'
    BY <1>1, <2>1 DEF AllStages, Stage, AllMembers, Member
  <2>3. \A c \in Clients : Stays(c)
    BY <2>1 DEF Stays
  <2>4. Hands'
    BY <1>1, <2>1, <2>3, HandsKept
  <2>5. Listed' /\ AllWalking'
    BY <1>1, <2>1 DEF Listed, AllWalking, Walking, Once
  <2>6. Once(operations)'
    BY <1>1, <2>1, OnceKept
  <2> QED BY <1>2, <2>2, <2>3, <2>4, <2>5, <2>6 DEF PoolInv, Hands
<1> QED BY <1>3, <1>4, <1>5 DEF Next, QueueNext

\* ... and so it always holds.
LEMMA PoolInvAlways == Spec => []PoolInv
BY PoolInvInit, PoolInvNext, PTL DEF Spec

\* An operation is in one priority list, once, while it is enqueued, and in none
\* before or after, whoever adds it, dispatches it or changes its priority meanwhile:
\* the queue neither loses it nor runs it twice.
THEOREM QueueEnqueuedIsListed == Spec => []EnqueuedIsListed
<1>1. ASSUME PoolInv, NEW o \in Ops
      PROVE  Cardinality(Places(o)) = IF state[o] = "enqueued" THEN 1 ELSE 0
  <2>1. Listed /\ lists \in [Levels -> Seq(Ops)]
    BY <1>1 DEF PoolInv, QueueInv, TypeOK
  <2>2. \A p : p \in Places(o) <=>
          \E k \in Levels : \E i \in DOMAIN lists[k] : p = <<k, i>> /\ lists[k][i] = o
    BY DEF Places
  <2>3. \A k \in Levels : o \in ToSet(lists[k]) <=> \E i \in DOMAIN lists[k] : lists[k][i] = o
    BY <2>1 DEF ToSet
  <2>4. CASE state[o] = "enqueued"
    <3>1. PICK k \in Levels : \E i \in DOMAIN lists[k] : lists[k][i] = o
      BY <2>1, <2>3, <2>4 DEF Listed
    <3>2. PICK i \in DOMAIN lists[k] : lists[k][i] = o
      BY <3>1
    <3>3. ASSUME NEW l \in Levels, NEW j \in DOMAIN lists[l], lists[l][j] = o
          PROVE  l = k /\ j = i
      <4>1. o \in ToSet(lists[l]) /\ o \in ToSet(lists[k])
        BY <2>3, <3>2, <3>3
      <4>2. l = k
        BY <2>1, <4>1 DEF Listed
      <4>3. Once(lists[k])
        BY <2>1 DEF Listed
      <4> QED BY <3>2, <3>3, <4>2, <4>3 DEF Once
    <3>4. Places(o) = {<<k, i>>}
      BY <2>2, <3>2, <3>3
    <3> QED BY <2>4, <3>4, FS_Singleton
  <2>5. CASE state[o] # "enqueued"
    <3>1. \A k \in Levels : o \notin ToSet(lists[k])
      BY <2>1, <2>5 DEF Listed
    <3>2. Places(o) = {}
      BY <2>2, <2>3, <3>1
    <3> QED BY <2>5, <3>2, FS_EmptySet
  <2> QED BY <2>4, <2>5
<1>2. PoolInv => EnqueuedIsListed
  BY <1>1 DEF EnqueuedIsListed
<1> QED BY <1>2, PoolInvAlways, PTL

-----------------------------------------------------------------------------
(* The slots, and the pool of workers.                                         *)

\* The operations of the queue that have not been dispatched.
Waiting == {o \in ToSet(operations) : Rank[state[o]] < Rank["dispatching"]}

\* The ranks of the states.
LEMMA RankOf ==
  ASSUME NEW s \in DOMAIN Rank
  PROVE  /\ Rank[s] >= Rank["dispatching"] <=> s \in FlyingStates
         /\ Rank[s] < Rank["dispatching"] <=> s \notin FlyingStates
BY DEF Rank, FlyingStates

\* The two sets, by the states of the operations, before a step and after it.
LEMMA PoolSets ==
  ASSUME state \in [Ops -> DOMAIN Rank], operations \in Seq(Ops)
  PROVE  \A o : /\ o \in Waiting <=> o \in ToSet(operations) /\ state[o] \notin FlyingStates
                /\ o \in InFlight <=> o \in ToSet(operations) /\ state[o] \in FlyingStates
<1>1. \A o \in ToSet(operations) : o \in Ops /\ state[o] \in DOMAIN Rank
  BY ElementsOfList
<1> QED BY <1>1, RankOf DEF Waiting, InFlight

LEMMA PoolSetsNext ==
  ASSUME state' \in [Ops -> DOMAIN Rank], operations' \in Seq(Ops)
  PROVE  \A o : /\ o \in Waiting' <=> o \in ToSet(operations') /\ state'[o] \notin FlyingStates
                /\ o \in InFlight' <=> o \in ToSet(operations') /\ state'[o] \in FlyingStates
<1>1. \A o \in ToSet(operations') : o \in Ops /\ state'[o] \in DOMAIN Rank
  BY ElementsOfList
<1> QED BY <1>1, RankOf DEF Waiting, InFlight

\* A batch comes to wait.
Submits ==
  /\ \E S \in SUBSET Ops : S \cap (Waiting \cup InFlight) = {} /\ Waiting' = Waiting \cup S
  /\ InFlight' = InFlight /\ numExec' = numExec /\ maxOps' = maxOps

\* An operation that waited is dispatched.
Begins ==
  /\ \E o \in Waiting : Waiting' = Waiting \ {o} /\ InFlight' = InFlight \cup {o}
  /\ numExec < maxOps /\ numExec' = numExec + 1 /\ maxOps' = maxOps

\* An operation that was dispatched leaves the queue.
Ends ==
  /\ \E o \in InFlight : InFlight' = InFlight \ {o}
  /\ Waiting' = Waiting /\ numExec' = SlotsAfterOne /\ maxOps' = maxOps

\* Nothing changes but the limit.
Rests ==
  /\ Waiting' = Waiting /\ InFlight' = InFlight /\ numExec' = numExec
  /\ maxOps' \in 0..Unlimited

\* A batch that is appended comes to wait.
LEMMA AppendSubmits ==
  ASSUME PoolInv, QueueInv', NEW c \in Threads, AppendBatch(c)
  PROVE  Submits
<1> DEFINE S == ToSet(frame[c].batch)
<1>1. /\ state \in [Ops -> DOMAIN Rank] /\ operations \in Seq(Ops)
      /\ state' \in [Ops -> DOMAIN Rank] /\ operations' \in Seq(Ops)
  BY DEF PoolInv, QueueInv, TypeOK, OpTypeOK
<1>2. state' = state /\ numExec' = numExec /\ maxOps' = maxOps
  BY DEF AppendBatch, status, limits
<1>3. /\ ToSet(operations') = ToSet(operations) \cup S
      /\ \A o \in S : o \in Ops /\ state[o] = "enqueuing" /\ o \notin ToSet(operations)
  BY AppendHands DEF PoolInv
<1>4. \A o : /\ o \in Waiting <=> o \in ToSet(operations) /\ state[o] \notin FlyingStates
             /\ o \in InFlight <=> o \in ToSet(operations) /\ state[o] \in FlyingStates
  BY <1>1, PoolSets
<1>5. \A o : /\ o \in Waiting' <=> o \in ToSet(operations') /\ state'[o] \notin FlyingStates
             /\ o \in InFlight' <=> o \in ToSet(operations') /\ state'[o] \in FlyingStates
  BY <1>1, PoolSetsNext
<1>6. \A o \in S : state[o] \notin FlyingStates
  BY <1>3 DEF FlyingStates
<1>7. S \cap (Waiting \cup InFlight) = {} /\ Waiting' = Waiting \cup S /\ InFlight' = InFlight
  BY <1>2, <1>3, <1>4, <1>5, <1>6
<1>8. S \in SUBSET Ops
  BY <1>3
<1> QED BY <1>2, <1>7, <1>8 DEF Submits

\* A dispatch, which has a slot.
LEMMA DispatchBegins ==
  ASSUME PoolInv, QueueInv', NEW t \in Threads, Dispatch(t)
  PROVE  Begins
<1> DEFINE o == Head(frame[t].walk)
<1>1. /\ state \in [Ops -> DOMAIN Rank] /\ operations \in Seq(Ops)
      /\ state' \in [Ops -> DOMAIN Rank] /\ operations' \in Seq(Ops)
      /\ numExec \in Nat /\ maxOps \in Int /\ frame[t].walk \in Seq(Ops) /\ frame[t].slots \in Int
  <2>1. TypeOK /\ TypeOK'
    BY DEF PoolInv, QueueInv
  <2>2. /\ state \in [Ops -> DOMAIN Rank] /\ operations \in Seq(Ops)
        /\ state' \in [Ops -> DOMAIN Rank] /\ operations' \in Seq(Ops)
    BY <2>1 DEF TypeOK, OpTypeOK
  <2>3. numExec \in Nat /\ maxOps \in Int
    BY <2>1 DEF TypeOK
  <2>4. frame[t].walk \in Seq(Ops) /\ frame[t].slots \in Int
    BY <2>1 DEF TypeOK, Frames
  <2> QED BY <2>2, <2>3, <2>4
<1>2. /\ numExec' = numExec + 1 /\ maxOps' = maxOps /\ operations' = operations
      /\ state' = [state EXCEPT ![o] = "dispatching"]
      /\ state[o] = "enqueued" /\ frame[t].walk # <<>>
  BY DEF Dispatch, limits
<1>3. o \in Ops
  BY <1>1, <1>2, HeadTailProperties
<1>4. numExec < maxOps
  <2>1. frame[t].slots = maxOps - numExec
    BY DEF PoolInv, QueueInv, Located, Dispatch
  <2>2. frame[t].slots > 0
    BY <1>1 DEF Dispatch, Halted
  <2> QED BY <1>1, <2>1, <2>2
<1>5. o \in ToSet(operations)
  BY <1>2, <1>3 DEF PoolInv, AllMembers, Member
<1>6. \A p : /\ p \in Waiting <=> p \in ToSet(operations) /\ state[p] \notin FlyingStates
             /\ p \in InFlight <=> p \in ToSet(operations) /\ state[p] \in FlyingStates
  BY <1>1, PoolSets
<1>7. \A p : /\ p \in Waiting' <=> p \in ToSet(operations') /\ state'[p] \notin FlyingStates
             /\ p \in InFlight' <=> p \in ToSet(operations') /\ state'[p] \in FlyingStates
  BY <1>1, PoolSetsNext
<1>8. \A p \in ToSet(operations) : p \in Ops
  BY <1>1, ElementsOfList
<1>9. state'[o] \in FlyingStates /\ state[o] \notin FlyingStates /\ \A p \in Ops : p # o => state'[p] = state[p]
  BY <1>1, <1>2, <1>3 DEF FlyingStates
<1>10. o \in Waiting /\ Waiting' = Waiting \ {o} /\ InFlight' = InFlight \cup {o}
  <2> HIDE DEF o
  <2> QED BY <1>2, <1>5, <1>6, <1>7, <1>8, <1>9
<1> QED BY <1>2, <1>4, <1>10 DEF Begins

\* A finished operation that leaves the queue was counted.
LEMMA RetireEnds ==
  ASSUME PoolInv, QueueInv', NEW o \in Ops, Retire(o)
  PROVE  Ends
<1>1. /\ state \in [Ops -> DOMAIN Rank] /\ operations \in Seq(Ops)
      /\ state' \in [Ops -> DOMAIN Rank] /\ operations' \in Seq(Ops)
  BY DEF PoolInv, QueueInv, TypeOK, OpTypeOK
<1>2. /\ state' = state /\ maxOps' = maxOps /\ numExec' = SlotsAfterOne
      /\ operations' = Unlinked(operations, o) /\ pc[o] = "retire"
  BY DEF Retire, status, limits
<1>3. state[o] = "finished" /\ local[o].queued
  <2>1. Stage(o)
    BY DEF PoolInv, AllStages
  <2>2. state[o] \in {"initialized", "enqueuing", "enqueued", "dispatching",
                      "starting", "executing", "finishing", "finished"}
    BY <1>1 DEF Rank
  <2> QED BY <1>2, <2>1, <2>2 DEF Stage
<1>4. o \in ToSet(operations)
  BY <1>2, <1>3 DEF PoolInv, AllMembers, Member
<1>5. ToSet(operations') = ToSet(operations) \ {o}
  BY <1>1, <1>2, UnlinkedOnce DEF PoolInv
<1>6. \A p : /\ p \in Waiting <=> p \in ToSet(operations) /\ state[p] \notin FlyingStates
             /\ p \in InFlight <=> p \in ToSet(operations) /\ state[p] \in FlyingStates
  BY <1>1, PoolSets
<1>7. \A p : /\ p \in Waiting' <=> p \in ToSet(operations') /\ state'[p] \notin FlyingStates
             /\ p \in InFlight' <=> p \in ToSet(operations') /\ state'[p] \in FlyingStates
  BY <1>1, PoolSetsNext
<1>8. state[o] \in FlyingStates
  BY <1>3 DEF FlyingStates
<1>9. o \in InFlight /\ InFlight' = InFlight \ {o} /\ Waiting' = Waiting
  BY <1>2, <1>4, <1>5, <1>6, <1>7, <1>8
<1> QED BY <1>2, <1>9 DEF Ends

\* An operation of the queue does not pass from one set to the other by anything else.
LEMMA RestKept ==
  ASSUME PoolInv, QueueInv', operations' = operations, numExec' = numExec,
         \A o \in Ops : o \in ToSet(operations) => (state'[o] \in FlyingStates <=> state[o] \in FlyingStates)
  PROVE  Rests
<1>1. /\ state \in [Ops -> DOMAIN Rank] /\ operations \in Seq(Ops)
      /\ state' \in [Ops -> DOMAIN Rank] /\ operations' \in Seq(Ops) /\ maxOps' \in 0..Unlimited
  BY DEF PoolInv, QueueInv, TypeOK, OpTypeOK
<1>2. \A p : /\ p \in Waiting <=> p \in ToSet(operations) /\ state[p] \notin FlyingStates
             /\ p \in InFlight <=> p \in ToSet(operations) /\ state[p] \in FlyingStates
  BY <1>1, PoolSets
<1>3. \A p : /\ p \in Waiting' <=> p \in ToSet(operations') /\ state'[p] \notin FlyingStates
             /\ p \in InFlight' <=> p \in ToSet(operations') /\ state'[p] \in FlyingStates
  BY <1>1, PoolSetsNext
<1>4. \A p \in ToSet(operations) : p \in Ops
  BY <1>1, ElementsOfList
<1>5. Waiting' = Waiting /\ InFlight' = InFlight
  BY <1>2, <1>3, <1>4
<1> QED BY <1>1, <1>5 DEF Rests

\* Every step of the queue is one of these four for the pool.
LEMMA PoolMoves == PoolInv /\ [Next]_vars => Submits \/ Begins \/ Ends \/ Rests
<1> SUFFICES ASSUME PoolInv, [Next]_vars
             PROVE  Submits \/ Begins \/ Ends \/ Rests
  OBVIOUS
<1>1. /\ QueueInv /\ AllStages /\ AllMembers /\ QueueInv'
      /\ state \in [Ops -> DOMAIN Rank]
  BY QueueInvNext DEF PoolInv, QueueInv, TypeOK, OpTypeOK
<1>2. CASE OpNext /\ UNCHANGED queueVars
  <2>1. operations' = operations /\ numExec' = numExec
    BY <1>2 DEF queueVars, queue
  <2>2. ASSUME NEW o \in Ops, o \in ToSet(operations)
        PROVE  state'[o] \in FlyingStates <=> state[o] \in FlyingStates
    <3>1. Executed(o) /\ Member(o)
      BY <1>1, <1>2, OpNextStates DEF AllMembers
    <3> QED BY <2>2, <3>1 DEF Executed, Member, FlyingStates
  <2> QED BY <1>1, <2>1, <2>2, RestKept
<1>3. CASE QueueNext
  <2>1. ASSUME NEW t \in Threads, AppendBatch(t) \/ Dispatch(t)
        PROVE  Submits \/ Begins
    BY <1>1, <2>1, AppendSubmits, DispatchBegins
  <2>2. ASSUME NEW o \in Ops, Retire(o)
        PROVE  Ends
    BY <1>1, <2>2, RetireEnds
  <2>3. CASE operations' = operations /\ numExec' = numExec /\ state' = state
    BY <1>1, <2>3, RestKept
  <2>4. ASSUME NEW t \in Threads, Prepare(t) \/ Publish(t)
        PROVE  Rests
    <3>1. operations' = operations /\ numExec' = numExec
      BY <2>4 DEF Prepare, Publish, queueVars, queue
    <3>2. ASSUME NEW o \in Ops
          PROVE  state'[o] \in FlyingStates <=> state[o] \in FlyingStates
      BY <1>1, <2>4 DEF Prepare, Publish, FlyingStates
    <3> QED BY <1>1, <3>1, <3>2, RestKept
  <2>5. ASSUME NEW p \in Ops, Starting(p)
        PROVE  Rests
    <3>1. operations' = operations /\ numExec' = numExec
      BY <2>5 DEF Starting, queueVars, queue
    <3>2. state[p] = "dispatching"
      <4>1. Stage(p) /\ pc[p] = "starting"
        BY <1>1, <2>5 DEF AllStages, Starting
      <4>2. state[p] \in {"initialized", "enqueuing", "enqueued", "dispatching",
                          "starting", "executing", "finishing", "finished"}
        BY <1>1 DEF Rank
      <4> QED BY <4>1, <4>2 DEF Stage
    <3>3. state' = [state EXCEPT ![p] = "starting"]
      BY <2>5 DEF Starting
    <3>4. ASSUME NEW o \in Ops
          PROVE  state'[o] \in FlyingStates <=> state[o] \in FlyingStates
      BY <1>1, <3>2, <3>3 DEF FlyingStates
    <3> QED BY <1>1, <3>1, <3>4, RestKept
  <2>6. ASSUME NEW t \in Threads, QueueStep(t)
        PROVE  \/ operations' = operations /\ numExec' = numExec /\ state' = state
               \/ AppendBatch(t) \/ Dispatch(t) \/ Prepare(t) \/ Publish(t)
    BY <2>6, Zenon DEF QueueStep, ReadReady, WriteReady, Adopt, Link, Linked, LockForBarrier,
       SubmitBlock, Schedule, EnterLevel, LeaveLevel, NotReady, Probe, ScheduleDone, Retest,
       RetestSet, ChangePriority, CancelNext, CancelledAll, SnapshotAll, WaitNext,
       status, queueVars, queue
  <2>7. ASSUME NEW o \in Ops, ItemStep(o)
        PROVE  \/ operations' = operations /\ numExec' = numExec /\ state' = state
               \/ Retire(o) \/ Starting(o)
    BY <2>7, Zenon DEF ItemStep, BeginItem, Invalidate, EndItem, status, queueVars, queue
  <2>8. ASSUME NEW c \in Clients, QueueCall(c)
        PROVE  operations' = operations /\ numExec' = numExec /\ state' = state
    BY <2>8, Zenon DEF QueueCall, AddOperations, AddBarrierBlock, SetQueuePriority,
       SetMaxConcurrent, SetSuspended, CancelAllOperations, WaitUntilAllOperationsAreFinished,
       status, queueVars, queue
  <2> QED BY <1>3, <2>1, <2>2, <2>3, <2>4, <2>5, <2>6, <2>7, <2>8 DEF QueueNext
<1>4. CASE UNCHANGED vars
  <2>1. operations' = operations /\ numExec' = numExec /\ state' = state
    BY <1>4 DEF vars, opVars, status, queueVars, queue
  <2> QED BY <1>1, <2>1, RestKept
<1> QED BY <1>2, <1>3, <1>4 DEF Next, QueueNext

\* There are no more operations in flight than there are operations.
LEMMA InFlightFinite == QueueInv => IsFiniteSet(InFlight) /\ Cardinality(InFlight) \in Nat
<1> SUFFICES ASSUME QueueInv
             PROVE  IsFiniteSet(InFlight) /\ Cardinality(InFlight) \in Nat
  OBVIOUS
<1>1. operations \in Seq(Ops)
  BY DEF QueueInv, TypeOK
<1>2. InFlight \in SUBSET Ops
  BY <1>1, ElementsOfList DEF InFlight
<1>3. IsFiniteSet(InFlight)
  BY <1>2, QueueConstants, FS_Subset
<1> QED BY <1>3, FS_CardinalityType

\* What PoolInv says of the main list, and the number of executing operations.
CountInv == PoolInv /\ SlotsAreCounted

LEMMA CountInvNext == CountInv /\ [Next]_vars => CountInv'
<1> SUFFICES ASSUME CountInv, [Next]_vars
             PROVE  CountInv'
  OBVIOUS
<1>1. PoolInv /\ PoolInv' /\ numExec = Cardinality(InFlight)
  BY PoolInvNext DEF CountInv, SlotsAreCounted
<1>2. IsFiniteSet(InFlight) /\ Cardinality(InFlight) \in Nat
  BY <1>1, InFlightFinite DEF PoolInv
<1>3. numExec' = Cardinality(InFlight')
  <2>1. CASE Submits \/ Rests
    BY <1>1, <2>1 DEF Submits, Rests
  <2>2. CASE Begins
    <3>1. PICK o \in Waiting : InFlight' = InFlight \cup {o}
      BY <2>2 DEF Begins
    <3>2. o \notin InFlight
      <4>1. \A p : (p \in Waiting => p \notin InFlight)
        BY <1>1, PoolSets DEF PoolInv, QueueInv, TypeOK, OpTypeOK
      <4> QED BY <4>1
    <3>3. Cardinality(InFlight \cup {o}) = Cardinality(InFlight) + 1
      BY <1>2, <3>2, FS_AddElement
    <3> QED BY <1>1, <2>2, <3>1, <3>3 DEF Begins
  <2>3. CASE Ends
    <3>1. PICK o \in InFlight : InFlight' = InFlight \ {o}
      BY <2>3 DEF Ends
    <3>2. Cardinality(InFlight \ {o}) = Cardinality(InFlight) - 1
      BY <1>2, FS_RemoveElement
    <3>3. Cardinality(InFlight) # 0
      BY <1>2, FS_EmptySet
    <3> QED BY <1>1, <1>2, <2>3, <3>1, <3>2, <3>3 DEF Ends, SlotsAfterOne
  <2> QED BY <1>1, <2>1, <2>2, <2>3, PoolMoves
<1> QED BY <1>1, <1>3 DEF CountInv, SlotsAreCounted

\* It holds at the start, and always.
LEMMA CountInvAlways == Spec => []CountInv
<1>1. Init => CountInv
  <2> SUFFICES ASSUME Init
               PROVE  CountInv
    OBVIOUS
  <2>1. operations = <<>> /\ numExec = 0
    BY DEF Init, QueueInit
  <2>2. InFlight = {}
    BY <2>1 DEF InFlight, ToSet
  <2> QED BY <2>1, <2>2, PoolInvInit, FS_EmptySet DEF CountInv, SlotsAreCounted
<1> QED BY <1>1, CountInvNext, PTL DEF Spec

\* __numExecOps is the number of the operations that were dispatched and have not left
\* the queue: a slot that is taken is given back, once, whether the operation was
\* executed or cancelled, and the block of a barrier gives none back.
THEOREM QueueSlotsAreCounted == Spec => []SlotsAreCounted
<1>1. CountInv => SlotsAreCounted
  BY DEF CountInv
<1> QED BY <1>1, CountInvAlways, PTL

\* A queue is a pool of workers: however many threads add operations, finish them and
\* change the limit, what they do to the queue is to submit jobs, to give one job at a
\* time a worker while there is one under the limit, and to end one that has it.
THEOREM QueueImplementsPool == Spec => ImplementsPool
<1>1. Init => Pool!Init
  <2> SUFFICES ASSUME Init
               PROVE  Pool!Init
    OBVIOUS
  <2>1. operations = <<>> /\ maxOps = Unlimited
    BY DEF Init, QueueInit
  <2>2. ToSet(operations) = {}
    BY <2>1 DEF ToSet
  <2> QED BY <2>1, <2>2 DEF Pool!Init, InFlight
<1>2. CountInv /\ [Next]_vars => [Pool!Next]_(Pool!vars)
  <2> SUFFICES ASSUME CountInv, [Next]_vars
               PROVE  [Pool!Next]_(Pool!vars)
    OBVIOUS
  <2>1. CASE Submits
    <3>1. PICK S \in SUBSET Ops : S \cap (Waiting \cup InFlight) = {} /\ Waiting' = Waiting \cup S
      BY <2>1 DEF Submits
    <3>2. Pool!Submit(S)
      BY <2>1, <3>1 DEF Pool!Submit, Submits, Waiting
    <3> QED BY <3>2 DEF Pool!Next
  <2>2. CASE Begins
    <3>1. PICK o \in Waiting : Waiting' = Waiting \ {o} /\ InFlight' = InFlight \cup {o}
      BY <2>2 DEF Begins
    <3>2. Cardinality(InFlight) < maxOps
      BY <2>2 DEF Begins, CountInv, SlotsAreCounted
    <3>3. Pool!Begin(o)
      <4>1. Pool!Cardinality(InFlight) = Cardinality(InFlight)
        BY DEF Pool!Cardinality, Cardinality
      <4> QED BY <2>2, <3>1, <3>2, <4>1 DEF Pool!Begin, Begins, Waiting
    <3>4. o \in Ops
      BY <3>1, ElementsOfList DEF Waiting, CountInv, PoolInv, QueueInv, TypeOK
    <3> QED BY <3>3, <3>4 DEF Pool!Next
  <2>3. CASE Ends
    <3>1. PICK o \in InFlight : InFlight' = InFlight \ {o}
      BY <2>3 DEF Ends
    <3>2. Pool!End(o)
      BY <2>3, <3>1 DEF Pool!End, Ends, Waiting
    <3>3. o \in Ops
      BY <3>1, ElementsOfList DEF InFlight, CountInv, PoolInv, QueueInv, TypeOK
    <3> QED BY <3>2, <3>3 DEF Pool!Next
  <2>4. CASE Rests
    <3>1. Pool!SetLimit(maxOps')
      BY <2>4 DEF Pool!SetLimit, Rests, Waiting
    <3> QED BY <2>4, <3>1 DEF Pool!Next, Rests
  <2> QED BY <2>1, <2>2, <2>3, <2>4, PoolMoves DEF CountInv
<1> QED BY <1>1, <1>2, CountInvAlways, PTL DEF Spec, ImplementsPool, Pool!Spec

-----------------------------------------------------------------------------
(* No lost wakeup, with a queue.                                               *)

\* The steps of the queue leave alone the threads of operations that have finished, but
\* for the end of their item and for _schedule(), and never put a client to sleep.
LEMMA QueueNextThreads ==
  ASSUME QueueInv, AllStages, Hands, QueueNext
  PROVE  /\ \A u \in Clients : pc'[u] = "asleep" => pc[u] = "asleep" /\ local'[u] = local[u]
         /\ \A o \in Ops : IsFinished(o)' =>
              /\ IsFinished(o)
              /\ local'[o].after = local[o].after
              /\ pc[o] \in {"finish", "notify", "ready"} => pc'[o] = pc[o]
<1>1. /\ pc \in [Threads -> Labels] /\ local \in [Threads -> Locals]
      /\ state \in [Ops -> DOMAIN Rank]
      /\ Ops \subseteq Threads /\ Clients \subseteq Threads /\ \A c \in Clients : c \notin Ops
      /\ \A t \in Threads : local[t].after \in Returns
  BY OperationConstants DEF QueueInv, TypeOK, OpTypeOK, Threads, Locals
<1> DEFINE ends(o) == state[o] \in {"finishing", "finished"}
           rests(t) == pc[t] \in {"finish", "notify", "ready"}
           kept(u) == pc'[u] = "asleep" => pc[u] = "asleep" /\ local'[u] = local[u]
           goal(o) == ends(o) => /\ local'[o].after = local[o].after
                                 /\ rests(o) => pc'[o] = pc[o]
<1>2. ASSUME NEW o \in Ops, ends(o)
      PROVE  pc[o] \notin AddingLabels \cup {"idle", "queued", "starting", "changePriority",
                                             "cancelAll", "waitAll", "waitNext"}
  BY <1>2 DEF AllStages, Stage, AddingLabels
<1>3. ASSUME NEW t \in Threads, Reads(t)
      PROVE  (\A u \in Clients : kept(u)) /\ \A o \in Ops : goal(o)
  <2>1. /\ \A u \in Threads : u # t => pc'[u] = pc[u] /\ local'[u] = local[u]
        /\ pc'[t] # "asleep" /\ pc[t] \in AddingLabels
    BY <1>1, <1>3 DEF Reads, ReadReady, WriteReady, Goto, AddingLabels
  <2> QED BY <1>1, <1>2, <2>1
<1>4. ASSUME NEW t \in Threads, Enqueues(t), ~SubmitBlock(t)
      PROVE  (\A u \in Clients : kept(u)) /\ \A o \in Ops : goal(o)
  <2>1. /\ \A u \in Threads : u # t => pc'[u] = pc[u] /\ local'[u] = local[u]
        /\ pc'[t] # "asleep" /\ pc[t] \in AddingLabels
    <3>1. CASE Prepare(t) \/ Adopt(t) \/ AppendBatch(t) \/ Linked(t) \/ LockForBarrier(t)
      BY <1>1, <3>1 DEF Prepare, Adopt, AppendBatch, Linked, LockForBarrier, Goto, AddingLabels
    <3>2. CASE Publish(t)
      BY <1>1, <3>2 DEF Publish, Goto, AddingLabels
    <3> QED BY <1>4, <3>1, <3>2 DEF Enqueues
  <2> QED BY <1>1, <1>2, <2>1
<1>5. ASSUME NEW t \in Threads, SubmitBlock(t)
      PROVE  (\A u \in Clients : kept(u)) /\ \A o \in Ops : goal(o)
  <2>1. t \in Clients
    BY <1>5, EnqueuesClient DEF Enqueues
  <2>2. PICK b \in Barriers : frame[t].pending = <<b>> /\ state[b] = "initialized"
    BY <1>5, <2>1 DEF SubmitBlock, Hands, AllEnqueuing, Enqueuing, Fresh
  <2>3. Head(frame[t].pending) = b /\ b \in Ops
    BY <2>2, OperationConstants
  <2>4. local' = local /\ pc' = [pc EXCEPT ![t] = "idle", ![b] = "queued"]
    BY <1>5, <2>3 DEF SubmitBlock
  <2> QED BY <1>1, <2>1, <2>2, <2>3, <2>4
<1>6. ASSUME NEW t \in Threads, Schedules(t), ~Dispatch(t)
      PROVE  (\A u \in Clients : kept(u)) /\ \A o \in Ops : goal(o)
  BY <1>1, <1>6, ScheduleMoves DEF Returns
<1>7. ASSUME NEW t \in Threads, Dispatch(t)
      PROVE  (\A u \in Clients : kept(u)) /\ \A o \in Ops : goal(o)
  <2>1. PICK p : state[p] = "enqueued" /\ local' = local /\ pc' = [pc EXCEPT ![p] = "queued"]
    BY <1>7 DEF Dispatch
  <2> QED BY <1>1, <2>1
<1>8. ASSUME NEW t \in Threads, Others(t)
      PROVE  (\A u \in Clients : kept(u)) /\ \A o \in Ops : goal(o)
  <2>1. pc[t] \in AddingLabels \cup {"changePriority", "cancelAll", "waitAll", "waitNext"}
    BY <1>8 DEF Others, Link, ChangePriority, CancelNext, CancelledAll, SnapshotAll, WaitNext,
       AddingLabels
  <2>2. pc'[t] # "asleep"
    <3>1. CASE Link(t) \/ CancelNext(t)
      BY <1>1, <3>1 DEF Link, CancelNext, Enter, Goto
    <3>2. CASE ChangePriority(t) \/ CancelledAll(t) \/ SnapshotAll(t)
      BY <1>1, <3>2 DEF ChangePriority, CancelledAll, SnapshotAll, Goto
    <3>3. CASE WaitNext(t)
      BY <1>1, <3>3 DEF WaitNext, Enter, Goto
    <3> QED BY <1>8, <3>1, <3>2, <3>3 DEF Others
  <2>3. \A u \in Threads : u # t => pc'[u] = pc[u] /\ local'[u] = local[u]
    BY <1>8, OthersElsewhere
  <2> QED BY <1>1, <1>2, <2>1, <2>2, <2>3
<1>9. ASSUME NEW p \in Ops, ItemStep(p)
      PROVE  (\A u \in Clients : kept(u)) /\ \A o \in Ops : goal(o)
  <2>1. local' = local /\ ~rests(p)
    BY <1>9 DEF ItemStep, BeginItem, Starting, Retire, Invalidate, EndItem
  <2>2. PICK l : pc' = [pc EXCEPT ![p] = l]
    BY <1>9 DEF ItemStep, BeginItem, Starting, Retire, Invalidate, EndItem, Goto
  <2> QED BY <1>1, <2>1, <2>2
<1>10. ASSUME NEW c \in Clients, QueueCall(c)
       PROVE  (\A u \in Clients : kept(u)) /\ \A o \in Ops : goal(o)
  <2>1. \A u \in Threads : u # c => pc'[u] = pc[u] /\ local'[u] = local[u]
    <3>1. CASE OtherCall(c)
      BY <1>1, <3>1, OthersElsewhere
    <3>2. CASE \/ \E batch \in Batches : AddOperations(c, batch)
               \/ \E b \in Ops : AddBarrierBlock(c, b)
      BY <1>1, <3>2 DEF AddOperations, AddBarrierBlock, Goto
    <3> QED BY <1>10, <3>1, <3>2, Zenon DEF QueueCall, OtherCall
  <2>2. pc'[c] # "asleep"
    <3>1. CASE CancelAllOperations(c) \/ WaitUntilAllOperationsAreFinished(c)
      BY <1>1, <3>1 DEF CancelAllOperations, WaitUntilAllOperationsAreFinished, Goto
    <3>2. ASSUME NEW o \in Ops, NEW k \in Levels, SetQueuePriority(c, o, k)
          PROVE  pc'[c] # "asleep"
      BY <1>1, <3>2 DEF SetQueuePriority, Enter, Goto
    <3>3. ASSUME NEW max \in 0..Unlimited, SetMaxConcurrent(c, max)
          PROVE  pc'[c] # "asleep"
      BY <1>1, <3>3 DEF SetMaxConcurrent, Enter, Goto
    <3>4. ASSUME NEW newValue \in BOOLEAN, SetSuspended(c, newValue)
          PROVE  pc'[c] # "asleep"
      BY <1>1, <3>4 DEF SetSuspended, Enter, Goto
    <3>5. ASSUME NEW batch \in Batches, AddOperations(c, batch)
          PROVE  pc'[c] # "asleep"
      BY <1>1, <3>5 DEF AddOperations, Goto
    <3>6. ASSUME NEW b \in Ops, AddBarrierBlock(c, b)
          PROVE  pc'[c] # "asleep"
      BY <1>1, <3>6 DEF AddBarrierBlock, Goto
    <3> QED BY <1>10, <3>1, <3>2, <3>3, <3>4, <3>5, <3>6 DEF QueueCall
  <2> QED BY <1>1, <2>1, <2>2
<1>11. (\A u \in Clients : kept(u)) /\ \A o \in Ops : goal(o)
  <2>1. \A t \in Threads : QueueStep(t) => Enqueues(t) \/ Reads(t) \/ Schedules(t) \/ Others(t)
    BY Zenon DEF QueueStep, Enqueues, Reads, Schedules, Others
  <2> HIDE DEF kept, goal
  <2> QED BY <1>3, <1>4, <1>5, <1>6, <1>7, <1>8, <1>9, <1>10, <2>1 DEF QueueNext
<1>12. ASSUME NEW o \in Ops, IsFinished(o)'
       PROVE  IsFinished(o) /\ ends(o)
  <2>1. state'[o] \in {state[o], "enqueuing", "enqueued", "dispatching", "starting"}
    <3>1. CASE state' = state
      BY <3>1
    <3>2. ASSUME NEW t \in Threads, Prepare(t) \/ Publish(t) \/ Dispatch(t)
          PROVE  state'[o] \in {state[o], "enqueuing", "enqueued", "dispatching", "starting"}
      <4>1. CASE Prepare(t)
        BY <1>1, <4>1 DEF Prepare
      <4>2. CASE Publish(t)
        BY <1>1, <4>2 DEF Publish
      <4>3. CASE Dispatch(t)
        BY <1>1, <4>3 DEF Dispatch
      <4> QED BY <3>2, <4>1, <4>2, <4>3
    <3>3. ASSUME NEW p \in Ops, Starting(p)
          PROVE  state'[o] \in {state[o], "enqueuing", "enqueued", "dispatching", "starting"}
      BY <1>1, <3>3 DEF Starting
    <3>4. ASSUME NEW t \in Threads, QueueStep(t)
          PROVE  state' = state \/ Prepare(t) \/ Publish(t) \/ Dispatch(t)
      BY <3>4, Zenon DEF QueueStep, ReadReady, WriteReady, Adopt, AppendBatch, Link, Linked,
         LockForBarrier, SubmitBlock, Schedule, EnterLevel, LeaveLevel, NotReady, Probe,
         ScheduleDone, Retest, RetestSet, ChangePriority, CancelNext, CancelledAll, SnapshotAll,
         WaitNext, status
    <3>5. ASSUME NEW p \in Ops, ItemStep(p)
          PROVE  state' = state \/ Starting(p)
      BY <3>5, Zenon DEF ItemStep, BeginItem, Retire, Invalidate, EndItem, status
    <3>6. ASSUME NEW c \in Clients, QueueCall(c)
          PROVE  state' = state
      BY <3>6, Zenon DEF QueueCall, AddOperations, AddBarrierBlock, SetQueuePriority,
         SetMaxConcurrent, SetSuspended, CancelAllOperations, WaitUntilAllOperationsAreFinished,
         status
    <3> QED BY <3>1, <3>2, <3>3, <3>4, <3>5, <3>6 DEF QueueNext
  <2>2. state'[o] = state[o]
    BY <1>1, <1>12, <2>1 DEF IsFinished, Rank
  <2> QED BY <1>1, <1>12, <2>2 DEF IsFinished, Rank
<1> QED BY <1>11, <1>12

\* waitUntilFinished does not sleep through the broadcast of an operation that a queue
\* runs, either: what the queue does on its thread comes before the broadcast, and
\* returns to it, or after.
THEOREM QueueNoSleeperForgotten == Spec => []NoSleeperForgotten
<1>1. Init => NoSleeperForgotten
  BY DEF Init, OpInit, NoSleeperForgotten, Threads
<1>2. ASSUME PoolInv, NoSleeperForgotten, [Next]_vars
      PROVE  NoSleeperForgotten'
  <2>1. CASE (OpNext /\ UNCHANGED queueVars) \/ UNCHANGED vars
    <3>1. OpInv /\ [OpNext]_opVars
      BY <1>2, <2>1 DEF PoolInv, QueueInv, TypeOK, OpInv, vars
    <3> QED BY <1>2, <3>1, NoSleeperForgottenNext
  <2>2. CASE QueueNext
    <3> SUFFICES ASSUME NEW u \in Clients, pc'[u] = "asleep", IsFinished(local[u].subject)'
                 PROVE  Awaited(u)'
      BY DEF NoSleeperForgotten, Awaited
    <3> DEFINE o == local[u].subject
    <3>1. pc[u] = "asleep" /\ local'[u].subject = o
      BY <1>2, <2>2, QueueNextThreads DEF PoolInv
    <3>2. o \in Ops
      BY <1>2, <3>1 DEF PoolInv, QueueInv, Subjects, Threads
    <3>3. \A p \in Ops : Rank[state'[p]] >= Rank["finishing"] =>
            /\ IsFinished(p) /\ local'[p].after = local[p].after
            /\ pc[p] \in {"finish", "notify", "ready"} => pc'[p] = pc[p]
      BY <1>2, <2>2, QueueNextThreads DEF PoolInv, IsFinished
    <3>4. Rank[state'[o]] >= Rank["finishing"]
      BY <3>1 DEF IsFinished
    <3>5. /\ IsFinished(o) /\ local'[o].after = local[o].after
          /\ pc[o] \in {"finish", "notify", "ready"} => pc'[o] = pc[o]
      BY <3>2, <3>3, <3>4
    <3> QED BY <1>2, <3>1, <3>5 DEF NoSleeperForgotten, Awaited
  <2> QED BY <1>2, <2>1, <2>2 DEF Next, QueueNext
<1> QED BY <1>1, <1>2, PoolInvAlways, PTL DEF Spec

-----------------------------------------------------------------------------
(* No deadlock, in a queue without barriers.                                   *)

\* Where a thread holds the lock of a dependency; where it follows a link; where it has
\* looked up the operation of the call; where only the thread of an operation can be; and
\* where the owner of the queue lock is.
PairLabels == {"linkSelf", "unlinkSelf"}
LinkLabels == {"append", "linkUp", "linkSelf", "unlinkUp", "unlinkSelf"}
CallerLabels == {"testReady", "setReady", "fetchQueue", "find", "cancel", "markCancelled",
                 "testExecuting", "clearCount", "readReady", "writeReady", "adopt"}
ItemLabels == {"checkReady", "begin", "execute", "main", "finishing", "finish", "notify",
               "starting", "retire", "invalidate"}
OwnerLabels == {"link", "publish", "level", "visit", "probe", "invalidate"}
BarrierLabels == {"detach", "detachNext", "detachSelf", "addBarrier", "appendBarrier",
                  "submitBlock"}

\* A lock of an operation that is taken is that of one that notifies its dependents, or of
\* a dependency that a thread links or unlinks.
Grips(t, x) ==
  \/ t = x /\ pc[t] = "notify"
  \/ pc[t] \in PairLabels /\ local[t].other = x
Gripped == \A x \in Ops : opLock[x] # None => Grips(opLock[x], x)

\* All links lead upwards, those that a thread is about to make or to cut as well.
Upwards(depth) ==
  /\ \A o, up \in Ops : o \in downs[up] \/ up \in deps[o] => depth[o] < depth[up]
  /\ \A o, d \in Ops : pc[o] = "notify" /\ d \in local[o].todo => depth[d] < depth[o]
  /\ \A t \in Threads : pc[t] \in LinkLabels => depth[local[t].subject] < depth[local[t].other]

\* What is known of a thread that waits for a lock, or owns that of the queue: with the
\* queue lock it never enters a call that wants it again.
Posted(t) ==
  /\ pc[t] \in CallerLabels \cup LinkLabels => local[t].subject \in Ops
  /\ pc[t] \in LinkLabels \cup {"find"} => local[t].other \in Ops
  /\ pc[t] \notin BarrierLabels
  /\ t \in Clients => pc[t] \notin ItemLabels
  /\ local[t].after # "link"
  /\ frame[t].links = <<>>
  /\ pc[t] = "changePriority" => frame[t].level # 0
  /\ queueLock = t => pc[t] \in OwnerLabels
AllPosted == \A t \in Threads : Posted(t)

\* Nothing waits at the level of the barriers.
NoBarrierWaits == lists[0] = <<>> /\ \A o \in Ops : priority[o] # 0

\* The steps of operations keep who holds which lock ...
LEMMA OpGripNext == QueueInv /\ AllPosted /\ Gripped /\ OpNext => Gripped'
<1> SUFFICES ASSUME QueueInv, AllPosted, Gripped, OpNext, NEW x \in Ops, opLock'[x] # None
             PROVE  Grips(opLock[x], x)'
  BY DEF Gripped
<1>1. pc \in [Threads -> Labels] /\ local \in [Threads -> Locals]
  BY DEF QueueInv, TypeOK, OpTypeOK
<1>2. opLock \in [Ops -> Threads \cup {None}]
  BY DEF QueueInv, TypeOK, OpTypeOK
<1>3. Ops \subseteq Threads /\ Clients \subseteq Threads /\ Ops \cap Clients = {} /\ None \notin Threads
  BY OperationConstants DEF Threads
<1>4. \A t \in Threads : /\ pc[t] \notin {"detach", "detachNext", "detachSelf"}
                         /\ pc[t] \in LinkLabels => local[t].other \in Ops
  BY DEF AllPosted, Posted, BarrierLabels
<1>5. opLock[x] # None => Grips(opLock[x], x)
  BY DEF Gripped
<1> USE <1>1, <1>2, <1>3, <1>4, <1>5 DEF Grips, PairLabels, LinkLabels, Goto, graph, status
<1>6. ASSUME NEW t \in Threads, TestReady(t)
      PROVE  Grips(opLock[x], x)'
  BY <1>6 DEF TestReady, Locals
<1>7. ASSUME NEW t \in Threads, SetReady(t)
      PROVE  Grips(opLock[x], x)'
  BY <1>7 DEF SetReady
<1>8. ASSUME NEW t \in Threads, FetchQueue(t)
      PROVE  Grips(opLock[x], x)'
  BY <1>8 DEF FetchQueue, Locals
<1>9. ASSUME NEW t \in Threads, AppendDependency(t)
      PROVE  Grips(opLock[x], x)'
  BY <1>9 DEF AppendDependency
<1>10. ASSUME NEW t \in Threads, LockUp(t)
       PROVE  Grips(opLock[x], x)'
  BY <1>10 DEF LockUp, Free
<1>11. ASSUME NEW t \in Threads, LinkSelf(t)
       PROVE  Grips(opLock[x], x)'
  BY <1>11 DEF LinkSelf, Unlock
<1>12. ASSUME NEW t \in Threads, Find(t)
       PROVE  Grips(opLock[x], x)'
  BY <1>12 DEF Find
<1>13. ASSUME NEW t \in Threads, UnlinkSelf(t)
       PROVE  Grips(opLock[x], x)'
  BY <1>13 DEF UnlinkSelf, Unlock
<1>14. ASSUME NEW t \in Threads, CancelUnlessFinished(t)
       PROVE  Grips(opLock[x], x)'
  BY <1>14 DEF CancelUnlessFinished, Return
<1>15. ASSUME NEW t \in Threads, MarkCancelled(t)
       PROVE  Grips(opLock[x], x)'
  BY <1>15 DEF MarkCancelled
<1>16. ASSUME NEW t \in Threads, TestExecuting(t)
       PROVE  Grips(opLock[x], x)'
  BY <1>16 DEF TestExecuting, Return
<1>17. ASSUME NEW t \in Threads, ClearCount(t)
       PROVE  Grips(opLock[x], x)'
  BY <1>17 DEF ClearCount
<1>18. ASSUME NEW t \in Threads, Wait(t)
       PROVE  Grips(opLock[x], x)'
  BY <1>18 DEF Wait, Return
<1>19. ASSUME NEW t \in Threads, SpuriousWakeup(t)
       PROVE  Grips(opLock[x], x)'
  BY <1>19 DEF SpuriousWakeup
<1>20. ASSUME NEW o \in Ops, CheckReady(o)
       PROVE  Grips(opLock[x], x)'
  BY <1>20 DEF CheckReady
<1>21. ASSUME NEW o \in Ops, Begin(o)
       PROVE  Grips(opLock[x], x)'
  BY <1>21 DEF Begin
<1>22. ASSUME NEW o \in Ops, Execute(o)
       PROVE  Grips(opLock[x], x)'
  BY <1>22 DEF Execute
<1>23. ASSUME NEW o \in Ops, Main(o)
       PROVE  Grips(opLock[x], x)'
  BY <1>23 DEF Main
<1>24. ASSUME NEW o \in Ops, Detach(o)
       PROVE  Grips(opLock[x], x)'
  BY <1>24 DEF Detach, Locals
<1>25. ASSUME NEW o \in Ops, DetachUp(o)
       PROVE  Grips(opLock[x], x)'
  BY <1>25 DEF DetachUp, Locals
<1>26. ASSUME NEW o \in Ops, DetachSelf(o)
       PROVE  Grips(opLock[x], x)'
  BY <1>26 DEF DetachSelf
<1>27. ASSUME NEW o \in Ops, Finishing(o)
       PROVE  Grips(opLock[x], x)'
  BY <1>27 DEF Finishing
<1>28. ASSUME NEW o \in Ops, Finish(o)
       PROVE  Grips(opLock[x], x)'
  BY <1>28 DEF Finish, Locals, Free
<1>29. ASSUME NEW o \in Ops, Notify(o)
       PROVE  Grips(opLock[x], x)'
  BY <1>29 DEF Notify, Locals
<1>30. ASSUME NEW o \in Ops, Finished(o)
       PROVE  Grips(opLock[x], x)'
  BY <1>30 DEF Finished, Locals, Unlock
<1>31. ASSUME NEW o \in Ops, Ready(o)
       PROVE  Grips(opLock[x], x)'
  BY <1>31 DEF Ready, Locals
<1>32. ASSUME NEW o \in Ops, Broadcast(o)
       PROVE  Grips(opLock[x], x)'
  BY <1>32 DEF Broadcast, Locals, Woken
<1>33. ASSUME NEW c \in Clients, NEW o \in Ops, NEW up \in Ops, AddDependency(c, o, up)
       PROVE  Grips(opLock[x], x)'
  BY <1>33 DEF AddDependency, Enter, Locals, Calls
<1>34. ASSUME NEW c \in Clients, NEW o \in Ops, NEW up \in Ops, RemoveDependency(c, o, up)
       PROVE  Grips(opLock[x], x)'
  BY <1>34 DEF RemoveDependency, Enter, Locals, Calls
<1>35. ASSUME NEW c \in Clients, NEW o \in Ops, Cancel(c, o)
       PROVE  Grips(opLock[x], x)'
  BY <1>35 DEF Cancel, Enter, Locals, Calls
<1>36. ASSUME NEW c \in Clients, NEW o \in Ops, Start(c, o)
       PROVE  Grips(opLock[x], x)'
  BY <1>36 DEF Start, Calls
<1>37. ASSUME NEW c \in Clients, NEW o \in Ops, WaitUntilFinished(c, o)
       PROVE  Grips(opLock[x], x)'
  BY <1>37 DEF WaitUntilFinished, Enter, Locals, Calls
<1> QED
  BY <1>6, <1>7, <1>8, <1>9, <1>10, <1>11, <1>12, <1>13, <1>14, <1>15, <1>16, <1>17, <1>18,
     <1>19, <1>20, <1>21, <1>22, <1>23, <1>24, <1>25, <1>26, <1>27, <1>28, <1>29, <1>30,
     <1>31, <1>32, <1>33, <1>34, <1>35, <1>36, <1>37
     DEF OpNext, CallStep, RunStep, ClientCall

\* ... that links lead upwards ...
LEMMA OpUpwardsNext ==
  ASSUME QueueInv, AllPosted, OpNext, NEW depth \in [Ops -> Nat], Deepens(depth), Upwards(depth)
  PROVE  Upwards(depth)'
<1>1. /\ pc \in [Threads -> Labels] /\ local \in [Threads -> Locals]
      /\ downs \in [Ops -> SUBSET Ops] /\ deps \in [Ops -> SUBSET Ops]
  BY DEF QueueInv, TypeOK, OpTypeOK
<1>2. Ops \subseteq Threads /\ Clients \subseteq Threads /\ Ops \cap Clients = {} /\ None \notin Threads
  BY OperationConstants DEF Threads
<1>3. \A t \in Threads : /\ pc[t] \notin {"detach", "detachNext", "detachSelf"}
                         /\ pc[t] \in LinkLabels \cup {"find"} =>
                              local[t].subject \in Ops /\ local[t].other \in Ops
                         /\ local[t].after \in Returns
  BY <1>1 DEF AllPosted, Posted, BarrierLabels, CallerLabels, Locals
<1> USE <1>1, <1>2, <1>3 DEF Upwards, LinkLabels, Goto, Returns, graph, status
<1>4. ASSUME NEW t \in Threads, TestReady(t)
      PROVE  Upwards(depth)'
  BY <1>4 DEF TestReady, Locals
<1>5. ASSUME NEW t \in Threads, SetReady(t)
      PROVE  Upwards(depth)'
  BY <1>5 DEF SetReady
<1>6. ASSUME NEW t \in Threads, FetchQueue(t)
      PROVE  Upwards(depth)'
  BY <1>6 DEF FetchQueue, Locals
<1>7. ASSUME NEW t \in Threads, AppendDependency(t)
      PROVE  Upwards(depth)'
  BY <1>7 DEF AppendDependency
<1>8. ASSUME NEW t \in Threads, LockUp(t)
      PROVE  Upwards(depth)'
  BY <1>8 DEF LockUp
<1>9. ASSUME NEW t \in Threads, LinkSelf(t)
      PROVE  Upwards(depth)'
  BY <1>9 DEF LinkSelf
<1>10. ASSUME NEW t \in Threads, Find(t)
       PROVE  Upwards(depth)'
  BY <1>10 DEF Find
<1>11. ASSUME NEW t \in Threads, UnlinkSelf(t)
       PROVE  Upwards(depth)'
  BY <1>11 DEF UnlinkSelf
<1>12. ASSUME NEW t \in Threads, CancelUnlessFinished(t)
       PROVE  Upwards(depth)'
  BY <1>12 DEF CancelUnlessFinished, Return
<1>13. ASSUME NEW t \in Threads, MarkCancelled(t)
       PROVE  Upwards(depth)'
  BY <1>13 DEF MarkCancelled
<1>14. ASSUME NEW t \in Threads, TestExecuting(t)
       PROVE  Upwards(depth)'
  BY <1>14 DEF TestExecuting, Return
<1>15. ASSUME NEW t \in Threads, ClearCount(t)
       PROVE  Upwards(depth)'
  BY <1>15 DEF ClearCount
<1>16. ASSUME NEW t \in Threads, Wait(t)
       PROVE  Upwards(depth)'
  BY <1>16 DEF Wait, Return
<1>17. ASSUME NEW t \in Threads, SpuriousWakeup(t)
       PROVE  Upwards(depth)'
  BY <1>17 DEF SpuriousWakeup
<1>18. ASSUME NEW o \in Ops, CheckReady(o)
       PROVE  Upwards(depth)'
  BY <1>18 DEF CheckReady
<1>19. ASSUME NEW o \in Ops, Begin(o)
       PROVE  Upwards(depth)'
  BY <1>19 DEF Begin
<1>20. ASSUME NEW o \in Ops, Execute(o)
       PROVE  Upwards(depth)'
  BY <1>20 DEF Execute
<1>21. ASSUME NEW o \in Ops, Main(o)
       PROVE  Upwards(depth)'
  BY <1>21 DEF Main
<1>22. ASSUME NEW o \in Ops, Detach(o)
       PROVE  Upwards(depth)'
  BY <1>22 DEF Detach, Locals
<1>23. ASSUME NEW o \in Ops, DetachUp(o)
       PROVE  Upwards(depth)'
  BY <1>23 DEF DetachUp, Locals
<1>24. ASSUME NEW o \in Ops, DetachSelf(o)
       PROVE  Upwards(depth)'
  BY <1>24 DEF DetachSelf
<1>25. ASSUME NEW o \in Ops, Finishing(o)
       PROVE  Upwards(depth)'
  BY <1>25 DEF Finishing
<1>26. ASSUME NEW o \in Ops, Finish(o)
       PROVE  Upwards(depth)'
  BY <1>26 DEF Finish, Locals
<1>27. ASSUME NEW o \in Ops, Notify(o)
       PROVE  Upwards(depth)'
  BY <1>27 DEF Notify, Locals
<1>28. ASSUME NEW o \in Ops, Finished(o)
       PROVE  Upwards(depth)'
  BY <1>28 DEF Finished, Locals
<1>29. ASSUME NEW o \in Ops, Ready(o)
       PROVE  Upwards(depth)'
  BY <1>29 DEF Ready, Locals
<1>30. ASSUME NEW o \in Ops, Broadcast(o)
       PROVE  Upwards(depth)'
  BY <1>30 DEF Broadcast, Locals, Woken
<1>31. ASSUME NEW c \in Clients, NEW o \in Ops, NEW up \in Ops, AddDependency(c, o, up)
       PROVE  Upwards(depth)'
  BY <1>31 DEF AddDependency, Enter, Locals, Calls, Deepens
<1>32. ASSUME NEW c \in Clients, NEW o \in Ops, NEW up \in Ops, RemoveDependency(c, o, up)
       PROVE  Upwards(depth)'
  BY <1>32 DEF RemoveDependency, Enter, Locals, Calls
<1>33. ASSUME NEW c \in Clients, NEW o \in Ops, Cancel(c, o)
       PROVE  Upwards(depth)'
  BY <1>33 DEF Cancel, Enter, Locals, Calls
<1>34. ASSUME NEW c \in Clients, NEW o \in Ops, Start(c, o)
       PROVE  Upwards(depth)'
  BY <1>34 DEF Start, Calls
<1>35. ASSUME NEW c \in Clients, NEW o \in Ops, WaitUntilFinished(c, o)
       PROVE  Upwards(depth)'
  BY <1>35 DEF WaitUntilFinished, Enter, Locals, Calls
<1> QED
  BY <1>4, <1>5, <1>6, <1>7, <1>8, <1>9, <1>10, <1>11, <1>12, <1>13, <1>14, <1>15, <1>16,
     <1>17, <1>18, <1>19, <1>20, <1>21, <1>22, <1>23, <1>24, <1>25, <1>26, <1>27, <1>28,
     <1>29, <1>30, <1>31, <1>32, <1>33, <1>34, <1>35
     DEF OpNext, CallStep, RunStep, ClientCall

\* ... and what is known of the threads.
LEMMA OpPostedNext ==
  ASSUME QueueInv, AllPosted, Barriers = {}, OpNext, UNCHANGED queueVars
  PROVE  AllPosted'
<1> SUFFICES ASSUME NEW u \in Threads
             PROVE  Posted(u)'
  BY DEF AllPosted
<1>1. pc \in [Threads -> Labels] /\ local \in [Threads -> Locals]
  BY DEF QueueInv, TypeOK, OpTypeOK
<1>2. Ops \subseteq Threads /\ Clients \subseteq Threads /\ Ops \cap Clients = {} /\ None \notin Threads
  BY OperationConstants DEF Threads
<1>3. frame' = frame /\ queueLock' = queueLock
  BY DEF queueVars
<1>4. \A t \in Threads : Posted(t) /\ local[t].after \in Returns
  BY <1>1 DEF AllPosted, Locals
<1>5. \A o \in Ops : local[o].ready \in Seq(Ops)
  BY <1>1, <1>2 DEF Locals
<1> USE <1>1, <1>2, <1>3, <1>4, <1>5, Barriers = {}
    DEF Posted, PairLabels, LinkLabels, CallerLabels, ItemLabels, OwnerLabels, BarrierLabels,
        Goto, Returns, graph, status
<1>6. ASSUME NEW t \in Threads, TestReady(t)
      PROVE  Posted(u)'
  BY <1>6 DEF TestReady, Locals
<1>7. ASSUME NEW t \in Threads, SetReady(t)
      PROVE  Posted(u)'
  BY <1>7 DEF SetReady
<1>8. ASSUME NEW t \in Threads, FetchQueue(t)
      PROVE  Posted(u)'
  <2>1. /\ local'[u].subject = local[u].subject /\ local'[u].other = local[u].other
        /\ local'[u].after = local[u].after
    BY <1>8 DEF FetchQueue, Locals
  <2>2. pc' = [pc EXCEPT ![t] = "schedule"] \/ pc' = [pc EXCEPT ![t] = local[t].after]
    BY <1>8 DEF FetchQueue
  <2>3. pc[t] = "fetchQueue"
    BY <1>8 DEF FetchQueue
  <2> QED BY <2>1, <2>2, <2>3
<1>9. ASSUME NEW t \in Threads, AppendDependency(t)
      PROVE  Posted(u)'
  BY <1>9 DEF AppendDependency
<1>10. ASSUME NEW t \in Threads, LockUp(t)
       PROVE  Posted(u)'
  BY <1>10 DEF LockUp
<1>11. ASSUME NEW t \in Threads, LinkSelf(t)
       PROVE  Posted(u)'
  BY <1>11 DEF LinkSelf
<1>12. ASSUME NEW t \in Threads, Find(t)
       PROVE  Posted(u)'
  BY <1>12 DEF Find
<1>13. ASSUME NEW t \in Threads, UnlinkSelf(t)
       PROVE  Posted(u)'
  BY <1>13 DEF UnlinkSelf
<1>14. ASSUME NEW t \in Threads, CancelUnlessFinished(t)
       PROVE  Posted(u)'
  BY <1>14 DEF CancelUnlessFinished, Return
<1>15. ASSUME NEW t \in Threads, MarkCancelled(t)
       PROVE  Posted(u)'
  BY <1>15 DEF MarkCancelled
<1>16. ASSUME NEW t \in Threads, TestExecuting(t)
       PROVE  Posted(u)'
  BY <1>16 DEF TestExecuting, Return
<1>17. ASSUME NEW t \in Threads, ClearCount(t)
       PROVE  Posted(u)'
  BY <1>17 DEF ClearCount
<1>18. ASSUME NEW t \in Threads, Wait(t)
       PROVE  Posted(u)'
  BY <1>18 DEF Wait, Return
<1>19. ASSUME NEW t \in Threads, SpuriousWakeup(t)
       PROVE  Posted(u)'
  BY <1>19 DEF SpuriousWakeup
<1>20. ASSUME NEW o \in Ops, CheckReady(o)
       PROVE  Posted(u)'
  BY <1>20 DEF CheckReady
<1>21. ASSUME NEW o \in Ops, Begin(o)
       PROVE  Posted(u)'
  BY <1>21 DEF Begin
<1>22. ASSUME NEW o \in Ops, Execute(o)
       PROVE  Posted(u)'
  BY <1>22 DEF Execute
<1>23. ASSUME NEW o \in Ops, Main(o)
       PROVE  Posted(u)'
  BY <1>23 DEF Main
<1>24. ASSUME NEW o \in Ops, Detach(o)
       PROVE  Posted(u)'
  BY <1>24 DEF Detach, Locals
<1>25. ASSUME NEW o \in Ops, DetachUp(o)
       PROVE  Posted(u)'
  BY <1>25 DEF DetachUp, Locals
<1>26. ASSUME NEW o \in Ops, DetachSelf(o)
       PROVE  Posted(u)'
  BY <1>26 DEF DetachSelf
<1>27. ASSUME NEW o \in Ops, Finishing(o)
       PROVE  Posted(u)'
  BY <1>27 DEF Finishing
<1>28. ASSUME NEW o \in Ops, Finish(o)
       PROVE  Posted(u)'
  BY <1>28 DEF Finish, Locals
<1>29. ASSUME NEW o \in Ops, Notify(o)
       PROVE  Posted(u)'
  BY <1>29 DEF Notify, Locals
<1>30. ASSUME NEW o \in Ops, Finished(o)
       PROVE  Posted(u)'
  BY <1>30 DEF Finished, Locals
<1>31. ASSUME NEW o \in Ops, Ready(o)
       PROVE  Posted(u)'
  BY <1>31 DEF Ready, Locals
<1>32. ASSUME NEW o \in Ops, Broadcast(o)
       PROVE  Posted(u)'
  BY <1>32 DEF Broadcast, Locals, Woken
<1>33. ASSUME NEW c \in Clients, NEW o \in Ops, NEW up \in Ops, AddDependency(c, o, up)
       PROVE  Posted(u)'
  BY <1>33 DEF AddDependency, Enter, Locals, Calls
<1>34. ASSUME NEW c \in Clients, NEW o \in Ops, NEW up \in Ops, RemoveDependency(c, o, up)
       PROVE  Posted(u)'
  BY <1>34 DEF RemoveDependency, Enter, Locals, Calls
<1>35. ASSUME NEW c \in Clients, NEW o \in Ops, Cancel(c, o)
       PROVE  Posted(u)'
  BY <1>35 DEF Cancel, Enter, Locals, Calls
<1>36. ASSUME NEW c \in Clients, NEW o \in Ops, Start(c, o)
       PROVE  Posted(u)'
  BY <1>36 DEF Start, Calls
<1>37. ASSUME NEW c \in Clients, NEW o \in Ops, WaitUntilFinished(c, o)
       PROVE  Posted(u)'
  BY <1>37 DEF WaitUntilFinished, Enter, Locals, Calls
<1> QED
  BY <1>6, <1>7, <1>8, <1>9, <1>10, <1>11, <1>12, <1>13, <1>14, <1>15, <1>16, <1>17, <1>18,
     <1>19, <1>20, <1>21, <1>22, <1>23, <1>24, <1>25, <1>26, <1>27, <1>28, <1>29, <1>30,
     <1>31, <1>32, <1>33, <1>34, <1>35, <1>36, <1>37
     DEF OpNext, CallStep, RunStep, ClientCall

\* The level of an operation that is no barrier is never that of the barriers.
LEMMA LevelsAbove ==
  ASSUME QueueInv, NoBarrierWaits, NEW o \in Ops
  PROVE  /\ LevelOnAdd(o) \in Levels \ {0}
         /\ LevelOnChange(o) \in Levels \ {0}
  BY QueueConstants, PriorityConstants
  DEF QueueInv, TypeOK, NoBarrierWaits, LevelOnAdd, LevelOnChange

\* The steps of the queue change the list of links and the level of a thread where they say so.
LEMMA FrameFields ==
  ASSUME NEW f \in [Threads -> Frames], NEW t \in Threads, NEW u \in Threads, NEW s, NEW n
  PROVE  /\ [f EXCEPT ![t].retest = s][u].links = f[u].links
         /\ [f EXCEPT ![t].retest = s][u].level = f[u].level
         /\ [f EXCEPT ![t].snapshot = s][u].links = f[u].links
         /\ [f EXCEPT ![t].snapshot = s][u].level = f[u].level
         /\ [f EXCEPT ![t].walk = s, ![t].slots = n][u].links = f[u].links
         /\ [f EXCEPT ![t].walk = s, ![t].slots = n][u].level = f[u].level
         /\ [f EXCEPT ![t].pending = s, ![t].links = n][u].links = IF u = t THEN n ELSE f[u].links
         /\ [f EXCEPT ![t].pending = s, ![t].links = n][u].level = f[u].level
  BY DEF Frames

\* A thread that neither holds a lock nor follows a link, and still does not.
Quieted(u) ==
  \/ pc'[u] = pc[u] /\ local'[u] = local[u]
  \/ {pc[u], pc'[u]} \cap (LinkLabels \cup {"notify"}) = {}

\* A step of the queue leaves those who hold locks of operations where they are ...
LEMMA QueuePostedNext ==
  ASSUME QueueInv, AllStages, AllPosted, NoBarrierWaits, Barriers = {}, QueueNext
  PROVE  \A u \in Threads : Posted(u)' /\ Quieted(u)
<1> SUFFICES ASSUME NEW u \in Threads
             PROVE  Posted(u)' /\ Quieted(u)
  OBVIOUS
<1>1. /\ pc \in [Threads -> Labels] /\ local \in [Threads -> Locals] /\ frame \in [Threads -> Frames]
      /\ state \in [Ops -> DOMAIN Rank]
  BY DEF QueueInv, TypeOK, OpTypeOK
<1>2. Ops \subseteq Threads /\ Clients \subseteq Threads /\ Ops \cap Clients = {} /\ None \notin Threads
  BY OperationConstants DEF Threads
<1>3. \A t \in Threads : Posted(t) /\ local[t].after \in Returns
  BY <1>1 DEF AllPosted, Locals
<1>4. \A t \in Threads : /\ pc[t] \in AddingLabels => frame[t].pending # <<>>
                         /\ pc[t] \in {"link", "publish", "level", "visit", "probe"} => queueLock = t
                         /\ frame[t].pending \in Seq(Ops) /\ frame[t].snapshot \in Seq(Ops)
  BY <1>1 DEF QueueInv, Located, Frames
<1>5. lists[0] = <<>>
  BY DEF NoBarrierWaits
<1>6. \A o \in Ops : state[o] = "enqueued" => pc[o] = "idle"
  BY DEF AllStages, Stage
<1>7. \A s \in Seq(Ops) : s # <<>> => Head(s) \in Ops
  OBVIOUS
<1> USE <1>1, <1>2, <1>3, <1>4, <1>5, <1>6, <1>7, Barriers = {}
    DEF Posted, Quieted, PairLabels, LinkLabels, CallerLabels, ItemLabels, OwnerLabels, BarrierLabels,
        AddingLabels, Goto, Returns
<1>8. ASSUME NEW t \in Threads, Prepare(t)
      PROVE  Posted(u)' /\ Quieted(u)
  BY <1>8 DEF Prepare, queueVars
<1>9. ASSUME NEW t \in Threads, ReadReady(t)
      PROVE  Posted(u)' /\ Quieted(u)
  BY <1>9 DEF ReadReady, Locals, queueVars
<1>10. ASSUME NEW t \in Threads, WriteReady(t)
       PROVE  Posted(u)' /\ Quieted(u)
  BY <1>10 DEF WriteReady, Locals, queueVars
<1>11. ASSUME NEW t \in Threads, Adopt(t)
       PROVE  Posted(u)' /\ Quieted(u)
  BY <1>11 DEF Adopt
<1>12. ASSUME NEW t \in Threads, AppendBatch(t)
       PROVE  Posted(u)' /\ Quieted(u)
  BY <1>12 DEF AppendBatch, BarriersAhead, Unlocked
<1>13. ASSUME NEW t \in Threads, Link(t)
       PROVE  Posted(u)' /\ Quieted(u)
  BY <1>13 DEF Link
<1>14. ASSUME NEW t \in Threads, Linked(t)
       PROVE  Posted(u)' /\ Quieted(u)
  BY <1>14 DEF Linked, queueVars
<1>15. ASSUME NEW t \in Threads, Publish(t)
       PROVE  Posted(u)' /\ Quieted(u)
  <2>1. CASE Tail(frame[t].pending) = <<>>
    <3>1. /\ pc' = [pc EXCEPT ![t] = "schedule"] /\ queueLock' = None
          /\ frame' = [frame EXCEPT ![t] = NoFrame] /\ local' = [local EXCEPT ![t].after = "idle"]
      BY <1>15, <2>1 DEF Publish, UnlockQueue
    <3>2. pc[t] = "publish" /\ NoFrame.links = <<>>
      BY <1>15 DEF Publish, NoFrame
    <3>3. local'[u].after # "link" /\ (u # t => local'[u] = local[u])
      BY <3>1 DEF Locals
    <3> QED BY <3>1, <3>2, <3>3
  <2>2. CASE Tail(frame[t].pending) # <<>>
    <3>1. /\ pc' = [pc EXCEPT ![t] = "link"] /\ queueLock' = queueLock
          /\ frame' = [frame EXCEPT ![t].pending = Tail(frame[t].pending), ![t].links = <<>>]
          /\ local' = [local EXCEPT ![t].after = "idle"]
      BY <1>15, <2>2 DEF Publish, BarriersAhead
    <3>2. pc[t] = "publish"
      BY <1>15 DEF Publish
    <3>3. local'[u].after # "link" /\ (u # t => local'[u] = local[u])
      BY <3>1 DEF Locals
    <3>4. frame'[u].links = <<>> /\ frame'[u].level = frame[u].level
      BY <3>1, FrameFields
    <3> QED BY <3>1, <3>2, <3>3, <3>4
  <2> QED BY <2>1, <2>2
<1>16. ASSUME NEW t \in Threads, LockForBarrier(t)
       PROVE  Posted(u)' /\ Quieted(u)
  BY <1>16 DEF LockForBarrier
<1>17. ASSUME NEW t \in Threads, SubmitBlock(t)
       PROVE  Posted(u)' /\ Quieted(u)
  BY <1>17 DEF SubmitBlock
<1>18. ASSUME NEW t \in Threads, Schedule(t)
       PROVE  Posted(u)' /\ Quieted(u)
  BY <1>18 DEF Schedule, Unlocked
<1>19. ASSUME NEW t \in Threads, EnterLevel(t)
       PROVE  Posted(u)' /\ Quieted(u)
  BY <1>19 DEF EnterLevel
<1>20. ASSUME NEW t \in Threads, LeaveLevel(t)
       PROVE  Posted(u)' /\ Quieted(u)
  BY <1>20 DEF LeaveLevel
<1>21. ASSUME NEW t \in Threads, Dispatch(t)
       PROVE  Posted(u)' /\ Quieted(u)
  <2> DEFINE o == Head(frame[t].walk)
  <2>1. pc[t] = "visit" /\ state[o] = "enqueued" /\ pc' = [pc EXCEPT ![o] = "queued"]
    BY <1>21 DEF Dispatch
  <2>2. local' = local /\ queueLock' = queueLock
    BY <1>21 DEF Dispatch
  <2>3. o \in Ops /\ pc[o] = "idle"
    <3>1. frame[t].walk # <<>> /\ frame[t].walk \in Seq(Ops)
      BY <1>21 DEF Dispatch, Frames
    <3> QED BY <2>1, <3>1
  <2>4. frame'[u].links = <<>> /\ frame'[u].level = frame[u].level
    <3>1. frame' = [frame EXCEPT ![t].walk = Tail(frame[t].walk), ![t].slots = frame[t].slots - 1]
      BY <1>21 DEF Dispatch
    <3> HIDE DEF o
    <3> QED BY <3>1, FrameFields
  <2> HIDE DEF o
  <2> QED BY <2>1, <2>2, <2>3, <2>4
<1>22. ASSUME NEW t \in Threads, NotReady(t)
       PROVE  Posted(u)' /\ Quieted(u)
  BY <1>22 DEF NotReady, queueVars
<1>23. ASSUME NEW t \in Threads, Probe(t)
       PROVE  Posted(u)' /\ Quieted(u)
  BY <1>23 DEF Probe
<1>24. ASSUME NEW t \in Threads, ScheduleDone(t)
       PROVE  Posted(u)' /\ Quieted(u)
  BY <1>24 DEF ScheduleDone, UnlockQueue, RetestNext, Return
<1>25. ASSUME NEW t \in Threads, Retest(t)
       PROVE  Posted(u)' /\ Quieted(u)
  <2>1. pc' = [pc EXCEPT ![t] = "retest"] \/ pc' = [pc EXCEPT ![t] = "retestSet"]
        \/ pc' = [pc EXCEPT ![t] = local[t].after]
    BY <1>25 DEF Retest, RetestNext, Return
  <2>2. pc[t] = "retest" /\ local' = local /\ queueLock' = queueLock
    BY <1>25 DEF Retest
  <2>3. frame'[u].links = <<>> /\ frame'[u].level = frame[u].level
    <3>1. CASE frame' = frame
      BY <3>1
    <3>2. CASE frame' = [frame EXCEPT ![t].retest = Tail(frame[t].retest)]
      BY <3>2, FrameFields
    <3> QED BY <1>25, <3>1, <3>2 DEF Retest
  <2> QED BY <2>1, <2>2, <2>3
<1>26. ASSUME NEW t \in Threads, RetestSet(t)
       PROVE  Posted(u)' /\ Quieted(u)
  BY <1>26 DEF RetestSet, RetestNext, Return
<1>27. ASSUME NEW t \in Threads, ChangePriority(t)
       PROVE  Posted(u)' /\ Quieted(u)
  BY <1>27 DEF ChangePriority
<1>28. ASSUME NEW t \in Threads, CancelNext(t)
       PROVE  Posted(u)' /\ Quieted(u)
  BY <1>28 DEF CancelNext, Enter
<1>29. ASSUME NEW t \in Threads, CancelledAll(t)
       PROVE  Posted(u)' /\ Quieted(u)
  BY <1>29 DEF CancelledAll, queueVars
<1>30. ASSUME NEW t \in Threads, SnapshotAll(t)
       PROVE  Posted(u)' /\ Quieted(u)
  BY <1>30 DEF SnapshotAll
<1>31. ASSUME NEW t \in Threads, WaitNext(t)
       PROVE  Posted(u)' /\ Quieted(u)
  <2>1. CASE frame[t].snapshot = <<>>
    BY <1>31, <2>1 DEF WaitNext
  <2>2. CASE frame[t].snapshot # <<>>
    <3>1. /\ pc' = [pc EXCEPT ![t] = "wait"] /\ queueLock' = queueLock /\ pc[t] = "waitNext"
          /\ frame' = [frame EXCEPT ![t].snapshot = Tail(@)]
          /\ local' = [local EXCEPT ![t].subject = Head(frame[t].snapshot), ![t].other = None,
                                    ![t].after = "waitNext"]
      BY <1>31, <2>2 DEF WaitNext, Enter
    <3>2. frame'[u].links = <<>> /\ frame'[u].level = frame[u].level
      BY <3>1, FrameFields
    <3>3. local'[u].after # "link" /\ (u # t => local'[u] = local[u])
      BY <3>1 DEF Locals
    <3> QED BY <3>1, <3>2, <3>3
  <2> QED BY <2>1, <2>2
<1>32. ASSUME NEW o \in Ops, BeginItem(o)
       PROVE  Posted(u)' /\ Quieted(u)
  BY <1>32 DEF BeginItem, queueVars
<1>33. ASSUME NEW o \in Ops, Starting(o)
       PROVE  Posted(u)' /\ Quieted(u)
  BY <1>33 DEF Starting, queueVars
<1>34. ASSUME NEW o \in Ops, Retire(o)
       PROVE  Posted(u)' /\ Quieted(u)
  BY <1>34 DEF Retire, Unlocked
<1>35. ASSUME NEW o \in Ops, Invalidate(o)
       PROVE  Posted(u)' /\ Quieted(u)
  BY <1>35 DEF Invalidate, UnlockQueue
<1>36. ASSUME NEW o \in Ops, EndItem(o)
       PROVE  Posted(u)' /\ Quieted(u)
  BY <1>36 DEF EndItem
<1>37. ASSUME NEW c \in Clients, NEW batch \in Batches, AddOperations(c, batch)
       PROVE  Posted(u)' /\ Quieted(u)
  BY <1>37 DEF AddOperations, Calls
<1>38. ASSUME NEW c \in Clients, NEW o \in Ops, AddBarrierBlock(c, o)
       PROVE  Posted(u)' /\ Quieted(u)
  BY <1>38 DEF AddBarrierBlock, Calls
<1>39. ASSUME NEW c \in Clients, NEW o \in Ops, NEW k \in Levels, SetQueuePriority(c, o, k)
       PROVE  Posted(u)' /\ Quieted(u)
  BY <1>39 DEF SetQueuePriority, Enter, Calls
<1>40. ASSUME NEW c \in Clients, NEW max \in 0..Unlimited, SetMaxConcurrent(c, max)
       PROVE  Posted(u)' /\ Quieted(u)
  BY <1>40 DEF SetMaxConcurrent, Enter, Calls
<1>41. ASSUME NEW c \in Clients, NEW newValue \in BOOLEAN, SetSuspended(c, newValue)
       PROVE  Posted(u)' /\ Quieted(u)
  BY <1>41 DEF SetSuspended, Enter, Calls
<1>42. ASSUME NEW c \in Clients, CancelAllOperations(c)
       PROVE  Posted(u)' /\ Quieted(u)
  BY <1>42 DEF CancelAllOperations, Calls
<1>43. ASSUME NEW c \in Clients, WaitUntilAllOperationsAreFinished(c)
       PROVE  Posted(u)' /\ Quieted(u)
  BY <1>43 DEF WaitUntilAllOperationsAreFinished, queueVars, Calls
<1>44. CASE \E t \in Threads : QueueStep(t)
  BY <1>8, <1>9, <1>10, <1>11, <1>12, <1>13, <1>14, <1>15, <1>16, <1>17, <1>18, <1>19,
     <1>20, <1>21, <1>22, <1>23, <1>24, <1>25, <1>26, <1>27, <1>28, <1>29, <1>30, <1>31, <1>44
     DEF QueueStep
<1>45. CASE \E o \in Ops : ItemStep(o)
  BY <1>32, <1>33, <1>34, <1>35, <1>36, <1>45 DEF ItemStep
<1>46. CASE \E c \in Clients : QueueCall(c)
  BY <1>37, <1>38, <1>39, <1>40, <1>41, <1>42, <1>43, <1>46 DEF QueueCall
<1> QED BY <1>44, <1>45, <1>46 DEF QueueNext

\* ... and changes no lock of an operation, and none of the links.
LEMMA QueueLeavesGraph ==
  QueueNext => opLock' = opLock /\ downs' = downs /\ deps' = deps
<1> USE DEF graph
<1>1. ASSUME NEW t \in Threads, QueueStep(t)
      PROVE  opLock' = opLock /\ downs' = downs /\ deps' = deps
  BY <1>1, Zenon DEF QueueStep, Prepare, ReadReady, WriteReady, Adopt, AppendBatch, Link, Linked,
     Publish, LockForBarrier, SubmitBlock, Schedule, EnterLevel, LeaveLevel, Dispatch, NotReady,
     Probe, ScheduleDone, Retest, RetestSet, ChangePriority, CancelNext, CancelledAll,
     SnapshotAll, WaitNext
<1>2. ASSUME NEW o \in Ops, ItemStep(o)
      PROVE  opLock' = opLock /\ downs' = downs /\ deps' = deps
  BY <1>2, Zenon DEF ItemStep, BeginItem, Starting, Retire, Invalidate, EndItem
<1>3. ASSUME NEW c \in Clients, QueueCall(c)
      PROVE  opLock' = opLock /\ downs' = downs /\ deps' = deps
  BY <1>3, Zenon DEF QueueCall, AddOperations, AddBarrierBlock, SetQueuePriority, SetMaxConcurrent,
     SetSuspended, CancelAllOperations, WaitUntilAllOperationsAreFinished
<1> QED BY <1>1, <1>2, <1>3 DEF QueueNext

\* Nothing comes to the level of the barriers.
LEMMA NoBarrierWaitsNext ==
  ASSUME QueueInv, AllPosted, NoBarrierWaits, Barriers = {}, QueueNext
  PROVE  NoBarrierWaits'
<1>1. /\ lists \in [Levels -> Seq(Ops)] /\ priority \in [Ops -> Levels \cup {None}] /\ 0 \in Levels
      /\ \A s \in Seq(Ops) : s # <<>> => Head(s) \in Ops
  BY QueueConstants DEF QueueInv, TypeOK
<1>2. ASSUME NEW t \in Threads, Publish(t)
      PROVE  NoBarrierWaits'
  <2> DEFINE o == Head(frame[t].pending)
  <2>1. o \in Ops
    <3>1. pc[t] \in AddingLabels /\ frame \in [Threads -> Frames]
      BY <1>2 DEF Publish, AddingLabels, QueueInv, TypeOK
    <3>2. frame[t].pending \in Seq(Ops) /\ frame[t].pending # <<>>
      BY <3>1 DEF Frames, QueueInv, Located
    <3> QED BY <1>1, <3>2
  <2>2. lists' = [lists EXCEPT ![LevelOnAdd(o)] = Append(@, o)] /\ priority' = priority
    BY <1>2 DEF Publish
  <2> HIDE DEF o
  <2>3. LevelOnAdd(o) # 0
    BY <2>1, LevelsAbove
  <2> QED BY <1>1, <2>2, <2>3 DEF NoBarrierWaits
<1>3. ASSUME NEW t \in Threads, Dispatch(t)
      PROVE  NoBarrierWaits'
  <2>1. lists' = [lists EXCEPT ![frame[t].level] = Unlinked(@, Head(frame[t].walk))] /\ priority' = priority
    BY <1>3 DEF Dispatch
  <2>2. lists[0] = <<>> => Unlinked(lists[0], Head(frame[t].walk)) = <<>>
    BY DEF Unlinked, ToSet
  <2> QED BY <1>1, <2>1, <2>2 DEF NoBarrierWaits
<1>4. ASSUME NEW t \in Threads, ChangePriority(t)
      PROVE  NoBarrierWaits'
  <2> DEFINE o == local[t].subject
             old == LevelOnChange(o)
             new == frame[t].level
  <2>1. o \in Ops /\ new # 0
    BY <1>4 DEF ChangePriority, QueueInv, Located, AllPosted, Posted
  <2>2. old # 0
    BY <2>1, LevelsAbove
  <2>3. /\ priority' = [priority EXCEPT ![o] = IF old # new THEN new ELSE @]
        /\ lists' = lists \/ lists' = [lists EXCEPT ![old] = Unlinked(@, o), ![new] = Append(@, o)]
    BY <1>4 DEF ChangePriority, Moved
  <2> HIDE DEF o, old, new
  <2> QED BY <1>1, <2>1, <2>2, <2>3 DEF NoBarrierWaits
<1>5. ASSUME NEW c \in Clients, NEW o \in Ops, NEW k \in Levels, SetQueuePriority(c, o, k)
      PROVE  NoBarrierWaits'
  BY <1>1, <1>5 DEF SetQueuePriority, NoBarrierWaits
<1>6. ASSUME NEW t \in Threads, QueueStep(t)
      PROVE  \/ lists' = lists /\ priority' = priority
             \/ Publish(t) \/ Dispatch(t) \/ ChangePriority(t)
  BY <1>6, Zenon DEF QueueStep, Prepare, ReadReady, WriteReady, Adopt, AppendBatch, Link, Linked,
     LockForBarrier, SubmitBlock, Schedule, EnterLevel, LeaveLevel, NotReady, Probe,
     ScheduleDone, Retest, RetestSet, CancelNext, CancelledAll, SnapshotAll, WaitNext,
     queueVars, queue
<1>7. ASSUME NEW o \in Ops, ItemStep(o)
      PROVE  lists' = lists /\ priority' = priority
  BY <1>7, Zenon DEF ItemStep, BeginItem, Starting, Retire, Invalidate, EndItem, queueVars, queue
<1>8. ASSUME NEW c \in Clients, QueueCall(c)
      PROVE  \/ lists' = lists /\ priority' = priority
             \/ \E o \in Ops, k \in Levels : SetQueuePriority(c, o, k)
  BY <1>8, Zenon DEF QueueCall, AddOperations, AddBarrierBlock, SetMaxConcurrent, SetSuspended,
     CancelAllOperations, WaitUntilAllOperationsAreFinished, queueVars, queue
<1>9. lists' = lists /\ priority' = priority => NoBarrierWaits'
  BY DEF NoBarrierWaits
<1> QED BY <1>2, <1>3, <1>4, <1>5, <1>6, <1>7, <1>8, <1>9 DEF QueueNext

\* The invariant of the locks.
WaitInv(depth) ==
  /\ PoolInv
  /\ AllPosted
  /\ NoBarrierWaits
  /\ Gripped
  /\ Upwards(depth)

\* Every step keeps it.
LEMMA WaitInvNext ==
  ASSUME Barriers = {}, NEW depth \in [Ops -> Nat], Deepens(depth), WaitInv(depth), [Next]_vars
  PROVE  WaitInv(depth)'
<1>1. PoolInv'
  BY PoolInvNext DEF WaitInv
<1>2. QueueInv /\ AllStages
  BY DEF WaitInv, PoolInv
<1>3. CASE OpNext /\ UNCHANGED queueVars
  <2>1. NoBarrierWaits'
    BY <1>3 DEF WaitInv, NoBarrierWaits, queueVars, queue
  <2> QED BY <1>1, <1>2, <1>3, <2>1, OpPostedNext, OpGripNext, OpUpwardsNext DEF WaitInv
<1>4. CASE QueueNext
  <2>1. \A u \in Threads : Posted(u)' /\ Quieted(u)
    BY <1>2, <1>4, QueuePostedNext DEF WaitInv
  <2>2. opLock' = opLock /\ downs' = downs /\ deps' = deps
    BY <1>4, QueueLeavesGraph
  <2>3. NoBarrierWaits'
    BY <1>2, <1>4, NoBarrierWaitsNext DEF WaitInv
  <2>4. opLock \in [Ops -> Threads \cup {None}] /\ Ops \subseteq Threads
    BY <1>2 DEF QueueInv, TypeOK, OpTypeOK, Threads
  <2>5. Gripped'
    <3> SUFFICES ASSUME NEW x \in Ops, opLock[x] # None
                 PROVE  Grips(opLock[x], x)'
      BY <2>2 DEF Gripped
    <3>1. Grips(opLock[x], x) /\ opLock[x] \in Threads
      BY <2>4 DEF WaitInv, Gripped
    <3>2. Quieted(opLock[x])
      BY <2>1, <3>1
    <3> QED BY <2>2, <3>1, <3>2 DEF Grips, Quieted, PairLabels, LinkLabels
  <2>6. Upwards(depth)'
    BY <2>1, <2>2, <2>4 DEF WaitInv, Upwards, Quieted
  <2> QED BY <1>1, <2>1, <2>3, <2>5, <2>6 DEF WaitInv, AllPosted
<1>5. CASE UNCHANGED vars
  <2>1. UNCHANGED <<downs, deps, opLock, pc, local, frame, queueLock, lists, priority>>
    BY <1>5 DEF vars, opVars, graph, status, queueVars, queue
  <2> QED BY <1>1, <2>1 DEF WaitInv, AllPosted, Posted, NoBarrierWaits, Gripped, Grips, Upwards
<1> QED BY <1>3, <1>4, <1>5 DEF Next, QueueNext

\* Whoever holds locks of operations waits for locks of lesser depth, if at all, and never
\* for that of the queue; its owner waits for locks of operations only.
LEMMA WaitInvNoDeadlock ==
  ASSUME NEW depth \in [Ops -> Nat], WaitInv(depth)
  PROVE  NoDeadlock
<1> SUFFICES ASSUME NEW S \in SUBSET Threads, S # {},
                    \A t \in S : \/ WantsQueue(t) /\ queueLock \in S
                                 \/ WantsOp(t) # {} /\ \A o \in WantsOp(t) : opLock[o] \in S
             PROVE  FALSE
  BY DEF NoDeadlock
<1>1. /\ pc \in [Threads -> Labels] /\ local \in [Threads -> Locals] /\ frame \in [Threads -> Frames]
      /\ opLock \in [Ops -> Threads \cup {None}]
  BY DEF WaitInv, PoolInv, QueueInv, TypeOK, OpTypeOK
<1>2. Ops \cap Clients = {} /\ None \notin Threads /\ Threads = Ops \cup Clients
  BY OperationConstants DEF Threads
<1>3. \A t \in Threads : Posted(t) /\ Located(t)
  BY DEF WaitInv, PoolInv, QueueInv, AllPosted
<1>4. \A t \in Threads : Wanted(t) \subseteq Ops
  <2> SUFFICES ASSUME NEW t \in Threads
               PROVE  Wanted(t) \subseteq Ops
    OBVIOUS
  <2>1. local[t].todo \subseteq Ops
    BY <1>1 DEF Locals
  <2> QED BY <1>2, <1>3, <2>1
          DEF Wanted, Posted, CallerLabels, LinkLabels, ItemLabels, BarrierLabels
<1>5. \A t \in Threads : WantsOp(t) \subseteq Ops
  <2> SUFFICES ASSUME NEW t \in Threads
               PROVE  WantsOp(t) \subseteq Ops
    OBVIOUS
  <2>1. /\ pc[t] = "probe" => Head(frame[t].walk) \in Ops
        /\ pc[t] = "retest" => Head(frame[t].retest) \in Ops
    <3>1. frame[t].walk \in Seq(Ops) /\ frame[t].retest \in Seq(Ops)
      BY <1>1 DEF Frames
    <3> QED BY <1>3, <3>1 DEF Located
  <2> QED BY <1>2, <1>3, <1>4, <2>1 DEF WantsOp, Posted, CallerLabels, ItemLabels
<1> DEFINE taken == {x \in Ops : opLock[x] \in S}
<1>6. CASE taken = {}
  <2>1. \A t \in S : WantsQueue(t) /\ queueLock \in S
    BY <1>5, <1>6
  <2>2. queueLock \in S /\ WantsQueue(queueLock)
    BY <2>1
  <2> QED BY <1>3, <2>2 DEF WantsQueue, Posted, OwnerLabels
<1>7. CASE taken # {}
  <2>1. PICK x \in taken : \A y \in taken : depth[x] <= depth[y]
    <3> DEFINE T == {depth[y] : y \in taken}
    <3>1. T \in SUBSET Nat /\ T # {}
      BY <1>7
    <3> HIDE DEF T
    <3>2. PICK n \in T : \A k \in T : n <= k
      BY <3>1, LeastElement
    <3> QED BY <3>2 DEF T
  <2>2. PICK t \in S : t = opLock[x]
    OBVIOUS
  <2>3. Grips(t, x)
    BY <1>2, <2>2 DEF WaitInv, Gripped
  <2>4. /\ ~WantsQueue(t)
        /\ WantsOp(t) = Wanted(t)
    BY <2>3 DEF Grips, WantsQueue, WantsOp, PairLabels
  <2>5. \A o \in Wanted(t) : depth[o] < depth[x]
    <3>1. CASE t = x /\ pc[x] = "notify"
      <4>1. Wanted(t) = local[x].todo /\ local[x].todo \subseteq Ops
        BY <1>1, <3>1 DEF Wanted, Locals
      <4> QED BY <3>1, <4>1 DEF WaitInv, Upwards
    <3>2. CASE pc[t] \in PairLabels /\ local[t].other = x
      <4>1. Wanted(t) = {local[t].subject}
        BY <3>2 DEF Wanted, PairLabels
      <4> QED BY <3>2, <4>1 DEF WaitInv, Upwards, PairLabels, LinkLabels
    <3> QED BY <2>3, <3>1, <3>2 DEF Grips
  <2>6. PICK o \in Wanted(t) : opLock[o] \in S
    BY <2>4
  <2>7. o \in taken
    BY <1>4, <2>6
  <2>8. depth[o] \in Nat /\ depth[x] \in Nat /\ depth[x] <= depth[o]
    BY <2>1, <2>7
  <2> QED BY <2>5, <2>6, <2>8
<1> QED BY <1>6, <1>7

\* No threads wait for locks, of operations and of the queue, that they hold between them:
\* in a queue without barriers, whatever is added, removed, cancelled, finished and given
\* another priority at once, as long as the dependencies have no cycle.
THEOREM QueueNoDeadlock ==
  ASSUME Barriers = {}, Acyclic
  PROVE  Spec => []NoDeadlock
<1>1. PICK depth \in [Ops -> Nat] : Deepens(depth)
  BY DEF Acyclic
<1>2. Init => WaitInv(depth)
  <2> SUFFICES ASSUME Init
               PROVE  WaitInv(depth)
    OBVIOUS
  <2>1. Ops \subseteq Threads /\ Clients \subseteq Threads /\ None \notin Threads /\ 0 \in Levels
    BY OperationConstants, QueueConstants DEF Threads
  <2>2. AllPosted
    BY <2>1 DEF Init, OpInit, QueueInit, AllPosted, Posted, NoLocal, NoFrame, CallerLabels, LinkLabels,
       BarrierLabels, ItemLabels, OwnerLabels
  <2>3. NoBarrierWaits
    BY <2>1, PriorityConstants, Barriers = {} DEF Init, QueueInit, NoBarrierWaits
  <2>4. Gripped /\ Upwards(depth)
    BY <2>1 DEF Init, OpInit, Gripped, Upwards, LinkLabels
  <2> QED BY <2>2, <2>3, <2>4, PoolInvInit DEF WaitInv
<1>3. WaitInv(depth) /\ [Next]_vars => WaitInv(depth)'
  BY <1>1, WaitInvNext
<1>4. WaitInv(depth) => NoDeadlock
  BY WaitInvNoDeadlock
<1> QED BY <1>2, <1>3, <1>4, PTL DEF Spec

=============================================================================
