------------------------ MODULE URLSessionTaskProofs ------------------------
(***************************************************************************)
(* Theorems about URLSessionTask, for all scenarios: whatever the server   *)
(* answers, the application and the callbacks call, and the cache has.     *)
(***************************************************************************)
EXTENDS URLSessionTask, SequenceTheorems, TLAPS

-----------------------------------------------------------------------------
(* Queues: elements leave them at the head and come at the end.             *)

LEMMA Dropped ==
  ASSUME NEW S, NEW q \in Seq(S), q # <<>>
  PROVE  /\ Tail(q) \in Seq(S)
         /\ Len(q) \in Nat \ {0} /\ Len(Tail(q)) = Len(q) - 1
         /\ Head(q) = q[1] /\ Head(q) \in S
         /\ \A i \in 1 .. Len(Tail(q)) : i + 1 \in 1 .. Len(q) /\ Tail(q)[i] = q[i + 1]
<1>1. /\ Head(q) \in S /\ Tail(q) \in Seq(S) /\ Len(Tail(q)) = Len(q) - 1
      /\ \A i \in 1 .. Len(Tail(q)) : Tail(q)[i] = q[i + 1]
  BY HeadTailProperties
<1>2. Len(q) \in Nat \ {0}
  BY EmptySeq
<1>3. Head(q) = q[1]
  BY <1>2
<1> QED BY <1>1, <1>2, <1>3

LEMMA Added ==
  ASSUME NEW S, NEW q \in Seq(S), NEW e \in S
  PROVE  /\ Append(q, e) \in Seq(S)
         /\ Append(q, e) # <<>>
         /\ Len(q) \in Nat /\ Len(Append(q, e)) = Len(q) + 1
         /\ \A i \in 1 .. Len(q) : Append(q, e)[i] = q[i]
         /\ Append(q, e)[Len(q) + 1] = e
         /\ q # <<>> => Head(Append(q, e)) = Head(q)
<1>1. /\ Append(q, e) \in Seq(S) /\ Len(q) \in Nat /\ Len(Append(q, e)) = Len(q) + 1
      /\ \A i \in 1 .. Len(q) : Append(q, e)[i] = q[i]
      /\ Append(q, e)[Len(q) + 1] = e
  BY AppendProperties, LenProperties
<1>2. Append(q, e) # <<>>
  BY <1>1, EmptySeq
<1>3. q # <<>> => Head(Append(q, e)) = Head(q)
  BY <1>1, <1>2, Dropped
<1> QED BY <1>1, <1>2, <1>3

(* r is q, or what is left of it without its head, and e comes behind it.    *)
Passed(q, r) == r = q \/ (q # <<>> /\ r = Tail(q))

(* Where the elements of such a queue come from.                            *)
LEMMA PassedElements ==
  ASSUME NEW S, NEW q \in Seq(S), NEW r, Passed(q, r)
  PROVE  /\ r \in Seq(S)
         /\ \E d \in 0 .. 1 :
              /\ d <= Len(q) /\ Len(q) \in Nat /\ Len(r) = Len(q) - d
              /\ \A i \in 1 .. Len(r) : i + d \in 1 .. Len(q) /\ r[i] = q[i + d]
<1>1. CASE r = q
  <2>1. Len(q) \in Nat
    BY LenProperties
  <2> QED BY <1>1, <2>1
<1>2. CASE q # <<>> /\ r = Tail(q)
  BY <1>2, Dropped
<1> QED BY <1>1, <1>2 DEF Passed

Grows(q, base, e, r, d, n) ==
  /\ d <= Len(q) /\ Len(q) \in Nat /\ Len(r) = Len(q) - d + n
  /\ \A i \in 1 .. Len(r) :
       \/ i <= Len(q) - d /\ i + d \in 1 .. Len(q) /\ r[i] = q[i + d]
       \/ n = 1 /\ i = Len(q) - d + 1 /\ r[i] = e
  /\ n = 0 => r = base
  /\ n = 1 => r = Append(base, e)
  /\ d = 0 => base = q
  /\ d = 1 => q # <<>> /\ base = Tail(q)

LEMMA GrownElements ==
  ASSUME NEW S, NEW q \in Seq(S), NEW base, Passed(q, base), NEW e \in S, NEW r,
         r = base \/ r = Append(base, e)
  PROVE  /\ r \in Seq(S)
         /\ \E d \in 0 .. 1, n \in 0 .. 1 : Grows(q, base, e, r, d, n)
<1>1. PICK d \in 0 .. 1 :
        /\ base \in Seq(S) /\ d <= Len(q) /\ Len(q) \in Nat /\ Len(base) = Len(q) - d
        /\ \A i \in 1 .. Len(base) : i + d \in 1 .. Len(q) /\ base[i] = q[i + d]
  BY PassedElements
<1>4. (d = 0 => base = q) /\ (d = 1 => q # <<>> /\ base = Tail(q))
  BY <1>1 DEF Passed
<1>2. CASE r = base
  <2>1. Grows(q, base, e, r, d, 0)
    BY <1>1, <1>2, <1>4 DEF Grows
  <2> QED BY <1>1, <1>2, <2>1
<1>3. CASE r = Append(base, e)
  <2>1. /\ r \in Seq(S) /\ Len(r) = Len(base) + 1
        /\ \A i \in 1 .. Len(base) : r[i] = base[i]
        /\ r[Len(base) + 1] = e
    BY <1>1, <1>3, Added
  <2>2. \A i \in 1 .. Len(r) :
          \/ i <= Len(q) - d /\ i + d \in 1 .. Len(q) /\ r[i] = q[i + d]
          \/ i = Len(q) - d + 1 /\ r[i] = e
    <3> SUFFICES ASSUME NEW i \in 1 .. Len(r)
                 PROVE  \/ i <= Len(q) - d /\ i + d \in 1 .. Len(q) /\ r[i] = q[i + d]
                        \/ i = Len(q) - d + 1 /\ r[i] = e
      OBVIOUS
    <3>1. i \in 1 .. Len(base) \/ i = Len(base) + 1
      BY <1>1, <2>1
    <3> QED BY <1>1, <2>1, <3>1
  <2>3. Grows(q, base, e, r, d, 1)
    BY <1>1, <1>3, <1>4, <2>1, <2>2 DEF Grows
  <2> QED BY <2>1, <2>3
<1> QED BY <1>2, <1>3

(* Several elements come behind it.                                         *)
Follows(q, base, more, r, d) ==
  /\ d <= Len(q) /\ Len(q) \in Nat /\ Len(r) = Len(q) - d + Len(more)
  /\ \A i \in 1 .. Len(r) :
       \/ i <= Len(q) - d /\ i + d \in 1 .. Len(q) /\ r[i] = q[i + d]
       \/ \E k \in 1 .. Len(more) : i = Len(q) - d + k /\ r[i] = more[k]
  /\ d = 0 => base = q
  /\ d = 1 => q # <<>> /\ base = Tail(q)

LEMMA FollowElements ==
  ASSUME NEW S, NEW q \in Seq(S), NEW base, Passed(q, base), NEW more \in Seq(S), NEW r,
         r = base \o more
  PROVE  /\ r \in Seq(S)
         /\ Len(more) \in Nat
         /\ \E d \in 0 .. 1 : Follows(q, base, more, r, d)
<1>1. PICK d \in 0 .. 1 :
        /\ base \in Seq(S) /\ d <= Len(q) /\ Len(q) \in Nat /\ Len(base) = Len(q) - d
        /\ \A i \in 1 .. Len(base) : i + d \in 1 .. Len(q) /\ base[i] = q[i + d]
  BY PassedElements
<1>2. /\ r \in Seq(S) /\ Len(r) = Len(base) + Len(more)
      /\ \A i \in 1 .. Len(base) + Len(more) :
           r[i] = IF i <= Len(base) THEN base[i] ELSE more[i - Len(base)]
  BY <1>1, ConcatProperties
<1>3. Len(more) \in Nat
  BY LenProperties
<1>4. ASSUME NEW i \in 1 .. Len(r)
      PROVE  \/ i <= Len(q) - d /\ i + d \in 1 .. Len(q) /\ r[i] = q[i + d]
             \/ \E k \in 1 .. Len(more) : i = Len(q) - d + k /\ r[i] = more[k]
  <2>1. CASE i <= Len(base)
    BY <1>1, <1>2, <1>3, <2>1
  <2>2. CASE i > Len(base)
    <3>1. i - Len(base) \in 1 .. Len(more) /\ r[i] = more[i - Len(base)]
      BY <1>1, <1>2, <1>3, <2>2
    <3> QED BY <1>1, <3>1
  <2> QED BY <1>1, <1>3, <2>1, <2>2
<1>5. (d = 0 => base = q) /\ (d = 1 => q # <<>> /\ base = Tail(q))
  BY <1>1 DEF Passed
<1> QED BY <1>1, <1>2, <1>3, <1>4, <1>5 DEF Follows

-----------------------------------------------------------------------------
(* Types.  A thread that waits for a block has one in the queue, of the kind *)
(* it waits for, and the other blocks are nobody's.                         *)

OnProtocol == {"fulfil", "follow", "decline"}
Synchronous == Calls \cup {"close"}
BlockType == [kind : BlockKinds, p : ProtocolNumbers, by : Clients \cup {"queue"}]
OpType == [kind : OpKinds, p : ProtocolNumbers]
ProtocolType == [at : ProtocolStates, timer : BOOLEAN]

Waiting(client) == pc[client] \in DOMAIN AfterCall

(* What a client waits for.                                                 *)
Expected == [waiting |-> Calls, calling |-> Calls, proposing |-> {"suspend"}, retrying |-> {"resume"},
             refusing |-> {"cancel"}, closing |-> {"close"}, cancelling |-> {"cancel"}]

(* Where a challenge is being answered.                                     *)
Answering == {"proposing", "replacing", "retrying", "refusing", "done"}
AppPlaces == {"idle", "waiting", "closing", "listing", "cancelling", "invalidating"}
DelegatePlaces == {"idle", "callback", "calling"} \cup Answering

Callers ==
  /\ \A i \in 1 .. Len(workQueue) :
       /\ workQueue[i].by = "queue" <=> workQueue[i].kind \notin Synchronous
       /\ workQueue[i].by # "queue" =>
            Waiting(workQueue[i].by) /\ workQueue[i].kind \in Expected[pc[workQueue[i].by]]
  /\ \A i, j \in 1 .. Len(workQueue) :
       workQueue[i].by = workQueue[j].by /\ workQueue[i].by # "queue" => i = j

Waits ==
  /\ pc["app"] \in AppPlaces
  /\ pc["delegate"] \in DelegatePlaces
  /\ pc["delegate"] \in Answering => Operation.kind = "challenge"

(* Without a protocol nobody has got one.                                   *)
Unserved ==
  /\ storage.kind \in {"toBeCreated", "awaitingCacheReply"} => protocols = <<>> /\ delivering = <<>>
  /\ delivering # <<>> => protocols # <<>>

Shape == TypeOK /\ Callers /\ Waits /\ Unserved

(* The block that runs.                                                     *)
LEMMA RunningBlock ==
  ASSUME Shape, NEW kind, Running(kind)
  PROVE  /\ workQueue # <<>> /\ Head(workQueue) = workQueue[1] /\ 1 \in 1 .. Len(workQueue)
         /\ workQueue \in Seq(BlockType) /\ Head(workQueue) \in BlockType
         /\ Head(workQueue).kind = kind
         /\ Head(workQueue).p \in Nat /\ Head(workQueue).p <= Len(protocols)
         /\ kind \in OnProtocol => Head(workQueue).p # 0
         /\ Rest \in Seq(BlockType)
         /\ Passed(workQueue, Rest)
<1>1. workQueue \in Seq(BlockType) /\ workQueue # <<>> /\ Head(workQueue).kind = kind
  BY DEF Shape, TypeOK, WorkTypes, BlockType, Running
<1>2. /\ Head(workQueue) = workQueue[1] /\ Head(workQueue) \in BlockType
      /\ Len(workQueue) \in Nat \ {0} /\ Tail(workQueue) \in Seq(BlockType)
  BY <1>1, Dropped
<1>3. 1 \in 1 .. Len(workQueue)
  BY <1>2
<1>4. kind \in OnProtocol => Head(workQueue).p # 0
  BY <1>1, <1>2, <1>3 DEF Shape, TypeOK, WorkTypes, OnProtocol, NoProtocol
<1>5. protocols \in Seq(ProtocolType)
  BY DEF Shape, TypeOK, TaskTypes, ProtocolType
<1>6. Len(protocols) \in Nat
  BY <1>5, LenProperties
<1>7. Head(workQueue).p \in Nat /\ Head(workQueue).p <= Len(protocols)
  BY <1>2, <1>6 DEF BlockType, ProtocolNumbers
<1> QED BY <1>1, <1>2, <1>3, <1>4, <1>7 DEF Rest, Passed

(* The operation whose callback is in progress.                             *)
LEMMA RunningOperation ==
  ASSUME Shape, delegateQueue # <<>>
  PROVE  /\ Operation = delegateQueue[1] /\ 1 \in 1 .. Len(delegateQueue)
         /\ delegateQueue \in Seq(OpType) /\ Operation \in OpType
         /\ Operation.kind = "redirect" => Operation.p # 0
         /\ Tail(delegateQueue) \in Seq(OpType)
         /\ Passed(delegateQueue, Tail(delegateQueue))
<1>1. delegateQueue \in Seq(OpType)
  BY DEF Shape, TypeOK, DelegateTypes, OpType
<1>2. /\ Operation = delegateQueue[1] /\ Operation \in OpType
      /\ Len(delegateQueue) \in Nat \ {0} /\ Tail(delegateQueue) \in Seq(OpType)
  BY <1>1, Dropped DEF Operation
<1>3. 1 \in 1 .. Len(delegateQueue)
  BY <1>2
<1>4. Operation.kind = "redirect" => Operation.p # 0
  BY <1>2, <1>3 DEF Shape, TypeOK, DelegateTypes, NoProtocol
<1> QED BY <1>1, <1>2, <1>3, <1>4 DEF Passed

(* A step that takes at most the running block, whose caller goes on, and    *)
(* queues at most one, for nobody or for a thread that did not wait.        *)
LEMMA WorkKept ==
  ASSUME Shape, ProtocolNumbers \subseteq ProtocolNumbers',
         NEW base, Passed(workQueue, base), NEW b \in BlockType',
         b.kind \in OnProtocol => b.p # NoProtocol,
         workQueue' = base \/ workQueue' = Append(base, b),
         checked' \in BOOLEAN,
         checked' => base = workQueue /\ (Running("suspend") \/ Running("resume")),
         pc' \in [Clients -> Places],
         \A client \in Clients :
            \/ ~Waiting(client)
            \/ pc'[client] = pc[client]
            \/ workQueue # <<>> /\ base = Tail(workQueue) /\ Head(workQueue).by = client,
         b.by = "queue" <=> b.kind \notin Synchronous,
         b.by # "queue" /\ workQueue' = Append(base, b)
            => ~Waiting(b.by) /\ Waiting(b.by)' /\ b.kind \in Expected[pc'[b.by]]
  PROVE  WorkTypes' /\ Callers'
<1>1. BlockType \subseteq BlockType'
  BY DEF BlockType
<1>2. PICK S : S = BlockType'
  OBVIOUS
<1>3. workQueue \in Seq(S)
  BY <1>1, <1>2, SeqMonotonic DEF Shape, TypeOK, WorkTypes, BlockType
<1>4. PICK q : q = workQueue'
  OBVIOUS
<1>5. /\ q \in Seq(S)
      /\ \E d \in 0 .. 1, n \in 0 .. 1 : Grows(workQueue, base, b, q, d, n)
  <2>1. b \in S /\ (q = base \/ q = Append(base, b))
    BY <1>2, <1>4
  <2> QED BY <1>3, <2>1, GrownElements
<1>6. \A i \in 1 .. Len(q) : q[i].kind \in OnProtocol => q[i].p # NoProtocol
  BY <1>5 DEF Grows, Shape, TypeOK, WorkTypes, OnProtocol
<1>7. checked' => workQueue' # <<>> /\ Head(workQueue') = Head(workQueue)
  <2> SUFFICES ASSUME checked'
               PROVE  workQueue' # <<>> /\ Head(workQueue') = Head(workQueue)
    OBVIOUS
  <2>1. base = workQueue /\ workQueue # <<>>
    BY DEF Running
  <2>2. b \in S
    BY <1>2
  <2>3. workQueue' = workQueue \/ workQueue' = Append(workQueue, b)
    BY <2>1
  <2> QED BY <1>3, <2>1, <2>2, <2>3, Added
<1>8. WorkTypes'
  BY <1>2, <1>4, <1>5, <1>6, <1>7 DEF WorkTypes, BlockType, OnProtocol, Running
<1>9. PICK d \in 0 .. 1, n \in 0 .. 1 : Grows(workQueue, base, b, q, d, n)
  BY <1>5
<1>90. /\ d <= Len(workQueue) /\ Len(workQueue) \in Nat /\ Len(q) = Len(workQueue) - d + n
       /\ \A i \in 1 .. Len(q) :
            \/ i <= Len(workQueue) - d /\ i + d \in 1 .. Len(workQueue) /\ q[i] = workQueue[i + d]
            \/ n = 1 /\ i = Len(workQueue) - d + 1 /\ q[i] = b
       /\ n = 1 => q = Append(base, b)
       /\ d = 0 => base = workQueue
       /\ d = 1 => workQueue # <<>> /\ base = Tail(workQueue)
  BY <1>9 DEF Grows
<1>10. \A i \in 1 .. Len(workQueue) : workQueue[i].by \in Clients \cup {"queue"}
  <2>1. workQueue \in Seq(BlockType)
    BY DEF Shape, TypeOK, WorkTypes, BlockType
  <2>2. \A i \in 1 .. Len(workQueue) : workQueue[i] \in BlockType
    BY <2>1, ElementOfSeq
  <2> QED BY <2>2 DEF BlockType
<1>11. ASSUME NEW i \in 1 .. Len(workQueue), workQueue[i].by # "queue", i > d
       PROVE  /\ pc'[workQueue[i].by] = pc[workQueue[i].by] /\ Waiting(workQueue[i].by)
              /\ ~(d = 1 /\ workQueue[1].by = workQueue[i].by)
  <2>1. Waiting(workQueue[i].by) /\ workQueue[i].by \in Clients
    BY <1>10, <1>11 DEF Shape, Callers
  <2>2. ~(d = 1 /\ workQueue[1].by = workQueue[i].by)
    BY <1>90, <1>11 DEF Shape, Callers
  <2>3. workQueue # <<>> /\ Head(workQueue) = workQueue[1]
    BY <1>3, <1>90, Dropped, EmptySeq
  <2>4. Tail(workQueue) # workQueue
    BY <1>3, <2>3, Dropped
  <2>5. CASE d = 0
    BY <1>90, <2>1, <2>2, <2>4, <2>5
  <2>6. CASE d = 1
    BY <1>90, <2>1, <2>2, <2>3, <2>6
  <2> QED BY <2>5, <2>6
<1>12. ASSUME NEW i \in 1 .. Len(q)
       PROVE  /\ q[i].by = "queue" <=> q[i].kind \notin Synchronous
              /\ q[i].by # "queue" => Waiting(q[i].by)' /\ q[i].kind \in Expected[pc'[q[i].by]]
  <2>1. CASE i <= Len(workQueue) - d /\ i + d \in 1 .. Len(workQueue) /\ q[i] = workQueue[i + d]
    <3>1. i + d > d
      BY <1>90
    <3> QED BY <2>1, <3>1, <1>11 DEF Shape, Callers, Waiting
  <2>2. CASE n = 1 /\ q[i] = b
    BY <2>2, <1>4, <1>90
  <2> QED BY <1>90, <2>1, <2>2
<1>13. ASSUME NEW i \in 1 .. Len(q), NEW j \in 1 .. Len(q), q[i].by = q[j].by, q[i].by # "queue"
       PROVE  i = j
  <2>1. CASE /\ i <= Len(workQueue) - d /\ i + d \in 1 .. Len(workQueue) /\ q[i] = workQueue[i + d]
             /\ j <= Len(workQueue) - d /\ j + d \in 1 .. Len(workQueue) /\ q[j] = workQueue[j + d]
    <3>1. i + d = j + d
      BY <1>13, <2>1 DEF Shape, Callers
    <3> QED BY <3>1
  <2>2. ASSUME NEW k \in 1 .. Len(q), k + d \in 1 .. Len(workQueue), q[k] = workQueue[k + d],
               n = 1, q[k].by = b.by, b.by # "queue"
        PROVE  FALSE
    <3>1. k + d > d
      OBVIOUS
    <3>2. Waiting(b.by)
      BY <1>11, <2>2, <3>1
    <3> QED BY <3>2, <2>2, <1>90, <1>4
  <2>3. CASE n = 1 /\ q[i] = b /\ i = Len(workQueue) - d + 1
    BY <1>90, <1>13, <2>3, <2>2
  <2>4. CASE n = 1 /\ q[j] = b /\ j = Len(workQueue) - d + 1
    BY <1>90, <1>13, <2>4, <2>2
  <2> QED BY <1>90, <2>1, <2>3, <2>4
<1>14. Callers'
  BY <1>4, <1>12, <1>13 DEF Callers
<1> QED BY <1>8, <1>14

(* A step that takes at most the first operation and queues others.         *)
LEMMA DelegateKept ==
  ASSUME Shape, ProtocolNumbers \subseteq ProtocolNumbers',
         NEW base, Passed(delegateQueue, base), NEW ops \in Seq(OpType'),
         \A k \in 1 .. Len(ops) : ops[k].kind = "redirect" => ops[k].p # NoProtocol,
         delegateQueue' = base \o ops,
         pc' \in [Clients -> Places],
         pc'["app"] \in AppPlaces, pc'["delegate"] \in DelegatePlaces,
         pc'["delegate"] # "idle" => base = delegateQueue /\ delegateQueue # <<>>,
         pc'["delegate"] \in Answering => Operation.kind = "challenge"
  PROVE  DelegateTypes' /\ Waits'
<1>1. OpType \subseteq OpType'
  BY DEF OpType
<1>2. PICK S : S = OpType'
  OBVIOUS
<1>3. delegateQueue \in Seq(S)
  BY <1>1, <1>2, SeqMonotonic DEF Shape, TypeOK, DelegateTypes, OpType
<1>4. PICK q : q = delegateQueue'
  OBVIOUS
<1>5. ops \in Seq(S) /\ q = base \o ops
  BY <1>2, <1>4
<1>6. /\ q \in Seq(S)
      /\ Len(ops) \in Nat
      /\ \E d \in 0 .. 1 : Follows(delegateQueue, base, ops, q, d)
  BY <1>3, <1>5, FollowElements
<1>8. \A i \in 1 .. Len(q) : q[i].kind = "redirect" => q[i].p # NoProtocol
  BY <1>6 DEF Follows, Shape, TypeOK, DelegateTypes
<1>9. pc'["delegate"] # "idle" => q # <<>> /\ Head(q) = Head(delegateQueue)
  <2> SUFFICES ASSUME pc'["delegate"] # "idle"
               PROVE  q # <<>> /\ Head(q) = Head(delegateQueue)
    OBVIOUS
  <2>1. base = delegateQueue /\ Len(base) \in Nat \ {0}
    BY <1>3, EmptySeq
  <2>2. /\ Len(q) = Len(base) + Len(ops)
        /\ \A i \in 1 .. Len(base) + Len(ops) :
             q[i] = IF i <= Len(base) THEN base[i] ELSE ops[i - Len(base)]
    BY <1>3, <1>5, <2>1, ConcatProperties
  <2>3. Len(q) # 0 /\ q[1] = base[1]
    BY <1>6, <2>1, <2>2
  <2>4. q # <<>>
    BY <1>6, <2>3, EmptySeq
  <2> QED BY <1>3, <1>6, <2>1, <2>3, <2>4, Dropped
<1>10. DelegateTypes'
  BY <1>2, <1>4, <1>6, <1>8, <1>9 DEF DelegateTypes, OpType
<1>11. Waits'
  <2>1. pc'["delegate"] \in Answering => Head(q).kind = "challenge"
    BY <1>9 DEF Answering, Operation
  <2> QED BY <1>4, <2>1 DEF Waits, Operation
<1> QED BY <1>10, <1>11

-----------------------------------------------------------------------------
(* The forms the steps take.                                                *)

LEMMA Counts ==
  ASSUME Shape
  PROVE  /\ Len(protocols) \in Nat /\ protocols \in Seq(ProtocolType)
         /\ ProtocolNumbers = 0 .. Len(protocols)
         /\ Len(protocols) = 0 <=> protocols = <<>>
         /\ storage.p \in 0 .. Len(protocols)
<1>1. protocols \in Seq(ProtocolType) /\ storage.p \in ProtocolNumbers
  BY DEF Shape, TypeOK, TaskTypes, ProtocolType
<1> QED BY <1>1, LenProperties, EmptySeq DEF ProtocolNumbers

(* A protocol object changes.                                               *)
LEMMA ProtocolChanged ==
  ASSUME Shape, NEW p \in 1 .. Len(protocols), NEW x \in ProtocolType,
         protocols' = [protocols EXCEPT ![p] = x]
  PROVE  /\ protocols' \in Seq(ProtocolType) /\ Len(protocols') = Len(protocols)
         /\ ProtocolNumbers' = ProtocolNumbers
         /\ protocols' # <<>> /\ protocols # <<>>
         /\ protocols'[p] = x
         /\ \A o \in 1 .. Len(protocols) : o # p => protocols'[o] = protocols[o]
<1>1. PICK q : q = protocols
  OBVIOUS
<1>2. q \in Seq(ProtocolType) /\ p \in 1 .. Len(q) /\ Len(q) \in Nat
  BY <1>1, Counts
<1>3. PICK r : r = [q EXCEPT ![p] = x]
  OBVIOUS
<1>4. /\ r \in Seq(ProtocolType) /\ Len(r) = Len(q) /\ r[p] = x
      /\ \A o \in 1 .. Len(q) : o # p => r[o] = q[o]
  BY <1>2, <1>3, ExceptSeq
<1>5. r = protocols'
  BY <1>1, <1>3
<1>6. q # <<>> /\ r # <<>>
  BY <1>2, <1>4, EmptySeq
<1> QED BY <1>1, <1>4, <1>5, <1>6 DEF ProtocolNumbers

(* A protocol object is made.                                               *)
LEMMA ProtocolMade ==
  ASSUME Shape, protocols' = Append(protocols, NewProtocol)
  PROVE  /\ protocols' \in Seq(ProtocolType) /\ Len(protocols') = Len(protocols) + 1
         /\ ProtocolNumbers \subseteq ProtocolNumbers'
         /\ Len(protocols) + 1 \in ProtocolNumbers' /\ Len(protocols) + 1 # 0
         /\ protocols' # <<>>
         /\ protocols'[Len(protocols) + 1] = NewProtocol
         /\ \A o \in 1 .. Len(protocols) : protocols'[o] = protocols[o]
<1>1. NewProtocol \in ProtocolType
  BY DEF NewProtocol, ProtocolType, ProtocolStates
<1>2. PICK q, r : q = protocols /\ r = protocols'
  OBVIOUS
<1>3. q \in Seq(ProtocolType) /\ r = Append(q, NewProtocol) /\ Len(q) \in Nat
  BY <1>2, Counts
<1>4. /\ r \in Seq(ProtocolType) /\ r # <<>> /\ Len(r) = Len(q) + 1
      /\ \A i \in 1 .. Len(q) : r[i] = q[i]
      /\ r[Len(q) + 1] = NewProtocol
  BY <1>1, <1>3, Added
<1> QED BY <1>2, <1>3, <1>4 DEF ProtocolNumbers

LEMMA ProtocolKinds ==
  ASSUME Shape, NEW o \in ProtocolType
  PROVE  /\ StartNewTransfer \in ProtocolType /\ TaskCompleted \in ProtocolType
         /\ Resumed(o) \in ProtocolType /\ Stopped(o) \in ProtocolType
         /\ \A s \in ProtocolStates : [o EXCEPT !.at = s] \in ProtocolType
<1>1. \A s \in ProtocolStates, x \in ProtocolType : [x EXCEPT !.at = s] \in ProtocolType
  BY DEF ProtocolType
<1>2. /\ "transferInProgress" \in ProtocolStates /\ "transferReady" \in ProtocolStates
      /\ "taskCompleted" \in ProtocolStates
  BY DEF ProtocolStates
<1>3. StartNewTransfer \in ProtocolType /\ TaskCompleted \in ProtocolType
  BY <1>2 DEF ProtocolType, StartNewTransfer, TaskCompleted
<1>4. Resumed(o) \in ProtocolType
  BY <1>1, <1>2, <1>3 DEF Resumed
<1>5. Stopped(o) \in ProtocolType
  BY <1>1, <1>2, <1>3 DEF Stopped, Suspended
<1> QED BY <1>1, <1>3, <1>4, <1>5

(* A block that has run leaves the queue, with one for nobody behind.       *)
LEMMA WorkRun ==
  ASSUME Shape, ProtocolNumbers \subseteq ProtocolNumbers',
         NEW kind, kind \notin Synchronous, Running(kind),
         NEW b \in BlockType', b.by = "queue", b.kind \notin Synchronous,
         b.kind \in OnProtocol => b.p # NoProtocol,
         workQueue' = Rest \/ workQueue' = Append(Rest, b),
         UNCHANGED <<checked, pc>>
  PROVE  WorkTypes' /\ Callers' /\ checked = FALSE
<1>1. workQueue # <<>> /\ Head(workQueue).kind = kind /\ Passed(workQueue, Rest)
  BY RunningBlock
<1>2. checked = FALSE
  BY <1>1 DEF Shape, TypeOK, WorkTypes, Running, Synchronous, Calls
<1>3. pc' \in [Clients -> Places]
  BY DEF Shape, TypeOK, DelegateTypes
<1> QED BY <1>1, <1>2, <1>3, WorkKept

(* A synchronous block has run, and its caller goes on.                     *)
LEMMA WorkReturned ==
  ASSUME Shape, ProtocolNumbers \subseteq ProtocolNumbers',
         NEW kind, kind \in Synchronous, Running(kind), Return,
         NEW b \in BlockType', b.by = "queue", b.kind \notin Synchronous,
         b.kind \in OnProtocol => b.p # NoProtocol,
         workQueue' = Rest \/ workQueue' = Append(Rest, b),
         UNCHANGED delegateQueue
  PROVE  /\ WorkTypes' /\ Callers' /\ DelegateTypes' /\ Waits'
         /\ Head(workQueue).by \in Clients
         /\ pc[Head(workQueue).by] \in DOMAIN AfterCall
         /\ kind \in Expected[pc[Head(workQueue).by]]
<1>1. /\ workQueue # <<>> /\ Head(workQueue).kind = kind /\ Passed(workQueue, Rest)
      /\ Head(workQueue) = workQueue[1] /\ 1 \in 1 .. Len(workQueue)
      /\ Head(workQueue) \in BlockType
  BY RunningBlock
<1>2. PICK c : c = Head(workQueue).by
  OBVIOUS
<1>3. c \in Clients /\ Waiting(c) /\ kind \in Expected[pc[c]]
  BY <1>1, <1>2 DEF Shape, Callers, BlockType
<1>4. pc \in [Clients -> Places] /\ pc' = [pc EXCEPT ![c] = AfterCall[pc[c]]] /\ checked' = FALSE
  BY <1>2 DEF Shape, TypeOK, DelegateTypes, Return
<1>5. /\ AfterCall[pc[c]] \in Places
      /\ c = "app" => AfterCall[pc[c]] \in AppPlaces
      /\ c = "delegate" => /\ AfterCall[pc[c]] \in DelegatePlaces \ {"idle"}
                           /\ AfterCall[pc[c]] \in Answering => pc[c] \in Answering
  BY <1>3 DEF Shape, Waits, Waiting, AfterCall, Places, AppPlaces, DelegatePlaces, Answering
<1>6. pc' \in [Clients -> Places] /\ pc'[c] = AfterCall[pc[c]]
      /\ \A d \in Clients : d # c => pc'[d] = pc[d]
  BY <1>3, <1>4, <1>5
<1>7. WorkTypes' /\ Callers'
  BY <1>1, <1>2, <1>4, <1>6, WorkKept DEF Rest
<1>8. pc["delegate"] # "idle" => delegateQueue # <<>>
  BY DEF Shape, TypeOK, DelegateTypes
<1>9. pc'["delegate"] # "idle" => pc["delegate"] # "idle"
  BY <1>3, <1>6 DEF Waiting, AfterCall, Clients
<1>10. OpType \subseteq OpType'
  BY DEF OpType
<1>11. /\ delegateQueue \in Seq(OpType)
       /\ \A i \in 1 .. Len(delegateQueue) :
             delegateQueue[i].kind = "redirect" => delegateQueue[i].p # NoProtocol
  BY DEF Shape, TypeOK, DelegateTypes, OpType
<1>12. delegateQueue \in Seq(OpType')
  BY <1>10, <1>11, SeqMonotonic
<1>13. DelegateTypes'
  BY <1>6, <1>8, <1>9, <1>11, <1>12 DEF DelegateTypes, OpType
<1>14. Waits'
  BY <1>5, <1>6, <1>3 DEF Shape, Waits, Operation, Clients
<1> QED BY <1>2, <1>3, <1>7, <1>13, <1>14 DEF Waiting

(* Operations are queued, or none.                                          *)
LEMMA OpsQueued ==
  ASSUME Shape, ProtocolNumbers \subseteq ProtocolNumbers',
         NEW ops \in Seq(OpType'),
         \A k \in 1 .. Len(ops) : ops[k].kind = "redirect" => ops[k].p # NoProtocol,
         delegateQueue' = delegateQueue \o ops, UNCHANGED pc
  PROVE  DelegateTypes' /\ Waits'
<1>1. /\ pc \in [Clients -> Places]
      /\ pc["app"] \in AppPlaces /\ pc["delegate"] \in DelegatePlaces
      /\ pc["delegate"] # "idle" => delegateQueue # <<>>
      /\ pc["delegate"] \in Answering => Operation.kind = "challenge"
  BY DEF Shape, TypeOK, DelegateTypes, Waits
<1>2. Passed(delegateQueue, delegateQueue)
  BY DEF Passed
<1> QED BY <1>1, <1>2, DelegateKept

LEMMA FewOps ==
  ASSUME Shape
  PROVE  /\ delegateQueue \o <<>> = delegateQueue
         /\ \A e \in OpType' : <<e>> \in Seq(OpType') /\ Len(<<e>>) = 1 /\ <<e>>[1] = e
         /\ \A e, f \in OpType' : /\ <<e, f>> \in Seq(OpType') /\ Len(<<e, f>>) = 2
                                  /\ <<e, f>>[1] = e /\ <<e, f>>[2] = f
         /\ \A e \in OpType : Append(delegateQueue, e) = delegateQueue \o <<e>>
         /\ <<>> \in Seq(OpType') /\ Len(<<>>) = 0
<1>1. delegateQueue \in Seq(OpType)
  BY DEF Shape, TypeOK, DelegateTypes, OpType
<1>2. delegateQueue \o <<>> = delegateQueue
  BY <1>1, ConcatEmptySeq
<1>3. \A e \in OpType : Append(delegateQueue, e) = delegateQueue \o <<e>>
  BY <1>1, AppendIsConcat
<1> QED BY <1>2, <1>3

(* No operation is queued.                                                  *)
LEMMA NoOpQueued ==
  ASSUME Shape, ProtocolNumbers \subseteq ProtocolNumbers', UNCHANGED <<delegateQueue, pc>>
  PROVE  DelegateTypes' /\ Waits'
<1>1. <<>> \in Seq(OpType') /\ delegateQueue' = delegateQueue \o <<>>
  BY FewOps
<1>2. \A k \in 1 .. Len(<<>>) : <<>>[k].kind = "redirect" => <<>>[k].p # NoProtocol
  BY FewOps
<1> QED BY <1>1, <1>2, OpsQueued

States == {"running", "suspended", "canceling", "completed"}
StorageType == [kind : {"toBeCreated", "awaitingCacheReply", "existing", "invalidated"},
                p : ProtocolNumbers, bag : Seq(Callbacks)]
StorageOK ==
  /\ storage \in StorageType
  /\ (storage.kind = "existing") <=> (storage.p # NoProtocol)
NoneYet == {"toBeCreated", "awaitingCacheReply"}

LEMMA StorageKept ==
  ASSUME Shape, ProtocolNumbers \subseteq ProtocolNumbers', UNCHANGED storage
  PROVE  StorageOK'
<1>1. StorageOK
  BY DEF Shape, TypeOK, TaskTypes, StorageOK, StorageType
<1>2. StorageType \subseteq StorageType'
  BY DEF StorageType
<1> QED BY <1>1, <1>2 DEF StorageOK

LEMMA ZeroKept ==
  ASSUME Shape, ProtocolNumbers \subseteq ProtocolNumbers'
  PROVE  0 \in ProtocolNumbers'
BY Counts

LEMMA BlocksTyped ==
  ASSUME Shape, ProtocolNumbers \subseteq ProtocolNumbers'
  PROVE  /\ \A kind \in BlockKinds, p \in ProtocolNumbers' :
              /\ Block(kind, p) \in BlockType' /\ Block(kind, p).by = "queue"
              /\ Block(kind, p).kind = kind /\ Block(kind, p).p = p
         /\ \A kind \in Calls \cup {"close"}, client \in Clients :
              /\ SyncBlock(kind, client) \in BlockType' /\ SyncBlock(kind, client).by = client
              /\ SyncBlock(kind, client).kind = kind /\ SyncBlock(kind, client).p = 0
BY ZeroKept DEF Block, SyncBlock, BlockType, BlockKinds, NoProtocol

LEMMA StorageInvalidated ==
  ASSUME Shape, ProtocolNumbers \subseteq ProtocolNumbers', storage' = Invalidated
  PROVE  StorageOK' /\ storage'.kind = "invalidated"
<1>1. 0 \in ProtocolNumbers' /\ <<>> \in Seq(Callbacks)
  BY ZeroKept
<1>2. Invalidated \in StorageType' /\ Invalidated.kind = "invalidated" /\ Invalidated.p = 0
  BY <1>1 DEF Invalidated, Stored, StorageType, NoProtocol
<1> QED BY <1>2 DEF StorageOK, NoProtocol

LEMMA StorageExists ==
  ASSUME Shape, ProtocolNumbers \subseteq ProtocolNumbers',
         NEW p, p \in ProtocolNumbers', p # 0, storage' = Stored("existing", p, <<>>)
  PROVE  StorageOK' /\ storage'.kind = "existing"
<1>1. <<>> \in Seq(Callbacks)
  OBVIOUS
<1>2. storage' \in StorageType' /\ storage'.kind = "existing" /\ storage'.p = p
  BY <1>1 DEF Stored, StorageType
<1> QED BY <1>2 DEF StorageOK, NoProtocol

(* The completion is on its way, or is done at once.                        *)
LEMMA Concluded ==
  ASSUME Shape, ProtocolNumbers \subseteq ProtocolNumbers',
         NEW ops \in Seq(OpType'),
         \A k \in 1 .. Len(ops) : ops[k].kind = "redirect" => ops[k].p # NoProtocol,
         NEW queue, Conclude(ops, queue), UNCHANGED pc
  PROVE  /\ DelegateTypes' /\ Waits' /\ StorageOK' /\ storage'.kind = "invalidated"
         /\ state' \in States
         /\ workQueue' = queue \/ workQueue' = Append(queue, Block("remove", NoProtocol))
<1>1. StorageOK' /\ storage'.kind = "invalidated"
  BY StorageInvalidated DEF Conclude
<1>2. /\ state' \in States
      /\ workQueue' = queue \/ workQueue' = Append(queue, Block("remove", NoProtocol))
  BY DEF Conclude, Shape, TypeOK, TaskTypes, States
<1>3. CASE delegateQueue' = delegateQueue \o ops
  BY <1>1, <1>2, <1>3, OpsQueued
<1>4. CASE delegateQueue' = delegateQueue
  BY <1>1, <1>2, <1>4, NoOpQueued
<1> QED BY <1>1, <1>2, <1>3, <1>4 DEF Conclude

LEMMA Told ==
  ASSUME Shape, ProtocolNumbers \subseteq ProtocolNumbers',
         NEW op \in OpType, op.kind = "redirect" => op.p # NoProtocol,
         NEW queue, Tell(op, queue), UNCHANGED pc
  PROVE  /\ DelegateTypes' /\ Waits' /\ StorageOK' /\ UNCHANGED <<state, storage>>
         /\ workQueue' = queue
<1>1. UNCHANGED <<state, storage>> /\ workQueue' = queue /\ delegateQueue' = delegateQueue \o <<op>>
  BY FewOps DEF Tell
<1>2. op \in OpType'
  BY DEF OpType
<1>3. /\ <<op>> \in Seq(OpType')
      /\ \A k \in 1 .. Len(<<op>>) : <<op>>[k].kind = "redirect" => <<op>>[k].p # NoProtocol
  BY <1>2, FewOps
<1> QED BY <1>1, <1>3, OpsQueued, StorageKept

(* A callback gets the protocol, or waits for it.                           *)
LEMMA Got ==
  ASSUME Shape, NEW callback \in Callbacks, NEW queue, GetProtocol(callback, queue),
         UNCHANGED delivering
  PROVE  /\ ProtocolNumbers \subseteq ProtocolNumbers'
         /\ protocols' \in Seq(ProtocolType)
         /\ StorageOK' /\ Unserved'
         /\ \E p \in ProtocolNumbers' :
              workQueue' = queue \/ workQueue' = Append(queue, Block(callback, p))
<1>0. /\ StorageOK /\ protocols \in Seq(ProtocolType) /\ 0 \in ProtocolNumbers
      /\ storage.p \in ProtocolNumbers /\ storage.bag \in Seq(Callbacks)
  BY Counts DEF Shape, TypeOK, TaskTypes, StorageOK, StorageType
<1>1. CASE storage.kind = "toBeCreated" /\ scenario.cache # "none"
  <2>1. /\ storage' = Stored("awaitingCacheReply", NoProtocol, <<callback>>)
        /\ workQueue' = queue /\ UNCHANGED protocols
    BY <1>1 DEF GetProtocol
  <2>2. <<callback>> \in Seq(Callbacks)
    OBVIOUS
  <2>3. /\ storage' \in StorageType' /\ storage'.kind = "awaitingCacheReply" /\ storage'.p = 0
    BY <1>0, <2>1, <2>2 DEF Stored, StorageType, NoProtocol, ProtocolNumbers
  <2> QED BY <1>0, <1>1, <2>1, <2>3 DEF StorageOK, NoProtocol, ProtocolNumbers, Unserved, Shape
<1>2. CASE storage.kind = "toBeCreated" /\ scenario.cache = "none"
  <2>1. /\ storage' = Stored("existing", Len(protocols) + 1, <<>>)
        /\ protocols' = Append(protocols, NewProtocol)
        /\ workQueue' = Append(queue, Block(callback, Len(protocols) + 1))
    BY <1>2 DEF GetProtocol
  <2>2. /\ ProtocolNumbers \subseteq ProtocolNumbers' /\ protocols' \in Seq(ProtocolType)
        /\ Len(protocols) + 1 \in ProtocolNumbers' /\ Len(protocols) + 1 # 0 /\ protocols' # <<>>
    BY <2>1, ProtocolMade
  <2>3. StorageOK' /\ storage'.kind = "existing"
    BY <2>1, <2>2, StorageExists
  <2> QED BY <2>1, <2>2, <2>3 DEF Unserved
<1>3. CASE storage.kind = "awaitingCacheReply"
  <2>1. /\ storage' = [storage EXCEPT !.bag = Append(@, callback)]
        /\ workQueue' = queue /\ UNCHANGED protocols
    BY <1>3 DEF GetProtocol
  <2>2. Append(storage.bag, callback) \in Seq(Callbacks)
    BY <1>0, Added
  <2>3. /\ storage' \in StorageType' /\ storage'.kind = storage.kind /\ storage'.p = storage.p
    BY <1>0, <2>1, <2>2 DEF StorageOK, StorageType, NoProtocol, ProtocolNumbers
  <2> QED BY <1>0, <1>3, <2>1, <2>3 DEF StorageOK, NoProtocol, ProtocolNumbers, Unserved, Shape
<1>4. CASE storage.kind \notin NoneYet
  <2>1. workQueue' = Append(queue, Block(callback, storage.p)) /\ UNCHANGED <<storage, protocols>>
    BY <1>4 DEF GetProtocol, NoneYet
  <2>2. ProtocolNumbers' = ProtocolNumbers
    BY <2>1 DEF ProtocolNumbers
  <2>3. StorageOK' /\ Unserved'
    BY <2>1, <2>2, StorageKept DEF Unserved, Shape
  <2> QED BY <1>0, <2>1, <2>2, <2>3
<1>5. scenario.cache # "none" \/ scenario.cache = "none"
  OBVIOUS
<1> QED BY <1>1, <1>2, <1>3, <1>4, <1>5 DEF NoneYet

LEMMA TaskTypesKept ==
  ASSUME state' \in States, suspendCount' \in Nat, error' \in BOOLEAN, StorageOK',
         protocols' \in Seq(ProtocolType), delivering' \in Seq(Callbacks)
  PROVE  TaskTypes'
BY DEF TaskTypes, States, StorageOK, StorageType, ProtocolType

LEMMA TaskParts ==
  ASSUME Shape
  PROVE  /\ state \in States /\ suspendCount \in Nat /\ error \in BOOLEAN /\ StorageOK
         /\ protocols \in Seq(ProtocolType) /\ delivering \in Seq(Callbacks)
BY DEF Shape, TypeOK, TaskTypes, States, StorageOK, StorageType, ProtocolType

-----------------------------------------------------------------------------
(* Every step keeps the types.                                              *)

LEMMA OthersKept ==
  ASSUME Shape, UNCHANGED <<scenario, app, replies, registered, delegate, finishing,
                            completions, calls, pieces>>
  PROVE  OtherTypes'
BY DEF Shape, TypeOK, OtherTypes

LEMMA CheckStateShape ==
  ASSUME Shape, CheckState
  PROVE  Shape'
<1>1. ProtocolNumbers \subseteq ProtocolNumbers' /\ UNCHANGED taskVars
  BY DEF CheckState, taskVars, ProtocolNumbers
<1>2. TaskTypes' /\ Unserved'
  BY <1>1, TaskParts, StorageKept, TaskTypesKept DEF taskVars, Unserved, Shape
<1>3. OtherTypes'
  BY OthersKept DEF CheckState, Return, clientVars, sessionVars
<1>4. Block("add", NoProtocol) \in BlockType' /\ Block("add", NoProtocol).by = "queue"
      /\ Block("add", NoProtocol).kind = "add"
  BY <1>1, BlocksTyped, ZeroKept DEF BlockKinds, NoProtocol
<1>5. CASE Ended
  <2>1. Return /\ workQueue' = Rest /\ UNCHANGED delegateQueue
    BY <1>5 DEF CheckState
  <2>2. PICK kind \in {"suspend", "resume"} : Running(kind)
    BY DEF CheckState
  <2>3. kind \in Synchronous
    BY <2>2 DEF Synchronous, Calls
  <2>4. "add" \notin Synchronous /\ "add" \notin OnProtocol
    BY DEF Synchronous, Calls, OnProtocol
  <2>5. WorkTypes' /\ Callers' /\ DelegateTypes' /\ Waits'
    BY <1>1, <1>4, <2>1, <2>2, <2>3, <2>4, WorkReturned
  <2> QED BY <1>2, <1>3, <2>5 DEF Shape, TypeOK
<1>6. CASE ~Ended
  <2>1. checked' = TRUE /\ UNCHANGED <<pc, workQueue, delegateQueue>>
    BY <1>6 DEF CheckState, clientVars
  <2>2. DelegateTypes' /\ Waits'
    BY <1>1, <2>1, NoOpQueued
  <2>3. WorkTypes'
    BY <2>1, <1>1 DEF CheckState, WorkTypes, Shape, TypeOK, Running, taskVars, ProtocolNumbers
  <2>4. Callers'
    BY <2>1 DEF Shape, Callers, Waiting
  <2> QED BY <1>2, <1>3, <2>2, <2>3, <2>4 DEF Shape, TypeOK
<1> QED BY <1>5, <1>6

(* suspend, resume and cancel, past their guards.                           *)
LEMMA CallShape ==
  ASSUME Shape, NEW kind \in Calls, Running(kind), Return,
         state' \in States, suspendCount' \in Nat,
         NEW callback \in Callbacks,
         \/ GetProtocol(callback, Rest)
         \/ workQueue' = Rest /\ UNCHANGED <<storage, protocols>>,
         UNCHANGED <<error, delivering, delegateQueue, sessionVars, crash>>
  PROVE  Shape'
<1>1. OtherTypes'
  BY OthersKept DEF Return, sessionVars
<1>2. /\ ProtocolNumbers \subseteq ProtocolNumbers'
      /\ protocols' \in Seq(ProtocolType)
      /\ StorageOK' /\ Unserved'
      /\ \E p \in ProtocolNumbers' :
           workQueue' = Rest \/ workQueue' = Append(Rest, Block(callback, p))
  <2>1. CASE GetProtocol(callback, Rest)
    BY <2>1, Got
  <2>2. CASE workQueue' = Rest /\ UNCHANGED <<storage, protocols>>
    <3>1. ProtocolNumbers' = ProtocolNumbers
      BY <2>2 DEF ProtocolNumbers
    <3>2. StorageOK' /\ Unserved'
      BY <2>2, <3>1, StorageKept DEF Unserved, Shape
    <3> QED BY <2>2, <3>1, <3>2, TaskParts, ZeroKept
  <2> QED BY <2>1, <2>2
<1>3. PICK p \in ProtocolNumbers' :
           workQueue' = Rest \/ workQueue' = Append(Rest, Block(callback, p))
  BY <1>2
<1>4. callback \in BlockKinds /\ callback \notin Synchronous /\ callback \notin OnProtocol
      /\ kind \in Synchronous
  BY DEF Callbacks, BlockKinds, Synchronous, OnProtocol, Calls
<1>5. Block(callback, p) \in BlockType' /\ Block(callback, p).by = "queue"
      /\ Block(callback, p).kind = callback
  BY <1>2, <1>4, BlocksTyped
<1>6. WorkTypes' /\ Callers' /\ DelegateTypes' /\ Waits'
  BY <1>2, <1>3, <1>4, <1>5, WorkReturned
<1>7. TaskTypes'
  BY <1>2, TaskParts, TaskTypesKept
<1> QED BY <1>1, <1>2, <1>6, <1>7 DEF Shape, TypeOK

LEMMA SuspendShape ==
  ASSUME Shape, Suspend
  PROVE  Shape'
<1>1. Running("suspend") /\ Return /\ state' \in States /\ suspendCount' \in Nat
  BY TaskParts DEF Suspend, States
<1>2. \/ GetProtocol("stop", Rest)
      \/ workQueue' = Rest /\ UNCHANGED <<storage, protocols>>
  BY DEF Suspend
<1>3. UNCHANGED <<error, delivering, delegateQueue, sessionVars, crash>>
  BY DEF Suspend
<1> QED BY <1>1, <1>2, <1>3, CallShape DEF Calls, Callbacks

LEMMA ResumeShape ==
  ASSUME Shape, Resume
  PROVE  Shape'
<1>1. Running("resume") /\ Return /\ state' \in States /\ suspendCount' \in Nat
  BY TaskParts DEF Resume, States, OneLess
<1>2. \/ GetProtocol("start", Rest)
      \/ workQueue' = Rest /\ UNCHANGED <<storage, protocols>>
  BY DEF Resume
<1>3. UNCHANGED <<error, delivering, delegateQueue, sessionVars, crash>>
  BY DEF Resume
<1> QED BY <1>1, <1>2, <1>3, CallShape DEF Calls, Callbacks

LEMMA CancelShape ==
  ASSUME Shape, Cancel
  PROVE  Shape'
<1>1. Running("cancel") /\ Return /\ state' \in States /\ suspendCount' \in Nat
  BY TaskParts DEF Cancel, States
<1>2. \/ GetProtocol("cancelled", Rest)
      \/ workQueue' = Rest /\ UNCHANGED <<storage, protocols>>
  BY DEF Cancel
<1>3. UNCHANGED <<error, delivering, delegateQueue, sessionVars, crash>>
  BY DEF Cancel
<1> QED BY <1>1, <1>2, <1>3, CallShape DEF Calls, Callbacks

(* The blocks of the session.                                               *)
LEMMA SessionShape ==
  ASSUME Shape, NEW kind, kind \notin Synchronous, Running(kind),
         workQueue' = Rest,
         delegateQueue' = delegateQueue \/ delegateQueue' = delegateQueue \o Invalidation,
         registered' \in BOOLEAN, finishing' \in BOOLEAN,
         UNCHANGED <<taskVars, clientVars, checked, delegate>>
  PROVE  Shape'
<1>1. ProtocolNumbers \subseteq ProtocolNumbers' /\ UNCHANGED taskVars /\ UNCHANGED pc
  BY DEF taskVars, clientVars, ProtocolNumbers
<1>2. TaskTypes' /\ Unserved'
  BY <1>1, TaskParts, StorageKept, TaskTypesKept DEF taskVars, Unserved, Shape
<1>3. OtherTypes'
  BY DEF Shape, TypeOK, OtherTypes, clientVars
<1>4. Block("add", NoProtocol) \in BlockType' /\ Block("add", NoProtocol).by = "queue"
      /\ Block("add", NoProtocol).kind = "add"
  BY <1>1, BlocksTyped, ZeroKept DEF BlockKinds, NoProtocol
<1>5. "add" \notin Synchronous /\ "add" \notin OnProtocol
  BY DEF Synchronous, Calls, OnProtocol
<1>6. WorkTypes' /\ Callers'
  BY <1>1, <1>4, <1>5, WorkRun
<1>7. Op("invalid", NoProtocol) \in OpType' /\ Op("invalid", NoProtocol).kind = "invalid"
  BY <1>1, ZeroKept DEF Op, OpType, OpKinds, NoProtocol
<1>8. /\ Invalidation \in Seq(OpType')
      /\ \A k \in 1 .. Len(Invalidation) : Invalidation[k].kind = "redirect" => Invalidation[k].p # NoProtocol
  <2>1. CASE Invalidation = <<>>
    BY <2>1, FewOps
  <2>2. CASE Invalidation = <<Op("invalid", NoProtocol)>>
    BY <2>2, <1>7, FewOps
  <2> QED BY <2>1, <2>2 DEF Invalidation
<1>9. DelegateTypes' /\ Waits'
  BY <1>1, <1>8, OpsQueued, NoOpQueued
<1> QED BY <1>2, <1>3, <1>6, <1>9 DEF Shape, TypeOK

LEMMA RegistryShape ==
  ASSUME Shape, AddTask \/ RemoveTask \/ FinishTasks \/ InvalidateSession
  PROVE  Shape'
<1>0. registered \in BOOLEAN /\ finishing \in BOOLEAN
  BY DEF Shape, TypeOK, OtherTypes
<1>1. \A k \in {"add", "remove", "finish", "invalidate"} : k \notin Synchronous
  BY DEF Synchronous, Calls
<1>2. CASE AddTask
  BY <1>0, <1>1, <1>2, SessionShape DEF AddTask
<1>3. CASE RemoveTask
  BY <1>0, <1>1, <1>3, SessionShape DEF RemoveTask
<1>4. CASE FinishTasks
  BY <1>0, <1>1, <1>4, SessionShape DEF FinishTasks
<1>5. CASE InvalidateSession
  BY <1>0, <1>1, <1>5, SessionShape DEF InvalidateSession, sessionVars
<1> QED BY <1>2, <1>3, <1>4, <1>5

LEMMA CloseSessionShape ==
  ASSUME Shape, CloseSession
  PROVE  Shape'
<1>1. ProtocolNumbers \subseteq ProtocolNumbers' /\ UNCHANGED taskVars
  BY DEF CloseSession, taskVars, ProtocolNumbers
<1>2. TaskTypes' /\ Unserved'
  BY <1>1, TaskParts, StorageKept, TaskTypesKept DEF taskVars, Unserved, Shape
<1>3. OtherTypes'
  BY OthersKept DEF CloseSession, Return, clientVars, sessionVars
<1>4. Block("add", NoProtocol) \in BlockType' /\ Block("add", NoProtocol).by = "queue"
      /\ Block("add", NoProtocol).kind = "add"
  BY <1>1, BlocksTyped, ZeroKept DEF BlockKinds, NoProtocol
<1>5. "add" \notin Synchronous /\ "add" \notin OnProtocol /\ "close" \in Synchronous
  BY DEF Synchronous, Calls, OnProtocol
<1>6. Return /\ workQueue' = Rest /\ UNCHANGED delegateQueue /\ Running("close")
  BY DEF CloseSession
<1>7. WorkTypes' /\ Callers' /\ DelegateTypes' /\ Waits'
  BY <1>1, <1>4, <1>5, <1>6, WorkReturned
<1> QED BY <1>2, <1>3, <1>7 DEF Shape, TypeOK

(* A step of nobody who waits; it queues a block for nobody, or none.       *)
LEMMA WorkQueued ==
  ASSUME Shape, ProtocolNumbers \subseteq ProtocolNumbers',
         NEW b \in BlockType', b.by = "queue", b.kind \notin Synchronous,
         b.kind \in OnProtocol => b.p # NoProtocol,
         workQueue' = workQueue \/ workQueue' = Append(workQueue, b),
         UNCHANGED checked, pc' \in [Clients -> Places],
         \A client \in Clients : ~Waiting(client) \/ pc'[client] = pc[client]
  PROVE  WorkTypes' /\ Callers'
<1>1. Passed(workQueue, workQueue)
  BY DEF Passed
<1>2. checked' \in BOOLEAN /\ (checked' => Running("suspend") \/ Running("resume"))
  BY DEF Shape, TypeOK, WorkTypes
<1> QED BY <1>1, <1>2, WorkKept

(* A client enters a synchronous block.                                     *)
LEMMA WorkEntered ==
  ASSUME Shape, ProtocolNumbers \subseteq ProtocolNumbers',
         NEW client \in Clients, ~Waiting(client),
         NEW call \in Calls \cup {"close"}, NEW place \in DOMAIN AfterCall, call \in Expected[place],
         Enter(client, call, place), UNCHANGED checked
  PROVE  /\ WorkTypes' /\ Callers'
         /\ pc' \in [Clients -> Places] /\ pc'[client] = place
         /\ \A c \in Clients : c # client => pc'[c] = pc[c]
<1>1. place \in Places /\ pc \in [Clients -> Places]
  BY DEF Places, Shape, TypeOK, DelegateTypes
<1>2. /\ pc' \in [Clients -> Places] /\ pc'[client] = place
      /\ \A c \in Clients : c # client => pc'[c] = pc[c]
  BY <1>1 DEF Enter
<1>3. PICK b : b = SyncBlock(call, client)
  OBVIOUS
<1>4. /\ b \in BlockType' /\ b.by = client /\ b.kind = call /\ workQueue' = Append(workQueue, b)
      /\ client # "queue" /\ call \in Synchronous /\ call \notin OnProtocol
  BY <1>3, BlocksTyped DEF Enter, Synchronous, Clients, OnProtocol, Calls
<1>5. Passed(workQueue, workQueue)
  BY DEF Passed
<1>6. checked' \in BOOLEAN /\ (checked' => Running("suspend") \/ Running("resume"))
  BY DEF Shape, TypeOK, WorkTypes
<1>7. Waiting(client)'
  BY <1>2 DEF Waiting
<1>8. \A c \in Clients : ~Waiting(c) \/ pc'[c] = pc[c]
  BY <1>2
<1>9. b.by # "queue" /\ workQueue' = Append(workQueue, b)
            => ~Waiting(b.by) /\ Waiting(b.by)' /\ b.kind \in Expected[pc'[b.by]]
  BY <1>2, <1>4, <1>7
<1>10. b.by = "queue" <=> b.kind \notin Synchronous
  BY <1>4
<1>11. b.kind \in OnProtocol => b.p # NoProtocol
  BY <1>4
<1>12. WorkTypes' /\ Callers'
  BY <1>2, <1>4, <1>5, <1>6, <1>8, <1>9, <1>10, <1>11, WorkKept
<1> QED BY <1>2, <1>12

(* At most one protocol object has changed.                                 *)
Touched ==
  \/ UNCHANGED protocols
  \/ \E p \in 1 .. Len(protocols), x \in ProtocolType : protocols' = [protocols EXCEPT ![p] = x]

LEMMA TouchedSame ==
  ASSUME Shape, Touched
  PROVE  /\ ProtocolNumbers' = ProtocolNumbers /\ protocols' \in Seq(ProtocolType)
         /\ Len(protocols') = Len(protocols)
         /\ protocols' = <<>> <=> protocols = <<>>
<1>1. CASE UNCHANGED protocols
  BY <1>1, TaskParts DEF ProtocolNumbers
<1>2. CASE \E p \in 1 .. Len(protocols), x \in ProtocolType : protocols' = [protocols EXCEPT ![p] = x]
  BY <1>2, ProtocolChanged
<1> QED BY <1>1, <1>2 DEF Touched

(* The ways a block of the queue or libcurl leaves the task.                *)
Ends(queue) ==
  \E ops \in Seq(OpType) :
     /\ \A k \in 1 .. Len(ops) : ops[k].kind \in {"notify", "complete"}
     /\ Len(ops) >= 1 /\ \A k \in 1 .. Len(ops) : ops[k].kind = "complete" <=> k = Len(ops)
     /\ Conclude(ops, queue)
Tells ==
  \E op \in OpType : /\ op.kind \in {"notify", "redirect", "challenge"}
                     /\ op.kind = "redirect" => op.p # NoProtocol
                     /\ Tell(op, workQueue)

LEMMA EndsTypes ==
  ASSUME Shape, ProtocolNumbers' = ProtocolNumbers, NEW queue, Ends(queue), UNCHANGED pc
  PROVE  /\ DelegateTypes' /\ Waits' /\ StorageOK' /\ storage'.kind = "invalidated"
         /\ state' \in States
         /\ workQueue' = queue \/ workQueue' = Append(queue, Block("remove", NoProtocol))
<1>1. PICK ops \in Seq(OpType) :
        /\ \A k \in 1 .. Len(ops) : ops[k].kind \in {"notify", "complete"}
        /\ Conclude(ops, queue)
  BY DEF Ends
<1>2. OpType' = OpType
  BY DEF OpType
<1>3. ops \in Seq(OpType')
  BY <1>1, <1>2
<1> QED BY <1>1, <1>3, Concluded

LEMMA LoadShape ==
  ASSUME Shape, NEW kind, kind \notin Synchronous, Running(kind), Touched, error' \in BOOLEAN,
         UNCHANGED <<suspendCount, delivering, checked, sessionVars, clientVars>>,
         \/ UNCHANGED <<state, storage, delegateQueue>> /\ workQueue' = Rest
         \/ /\ UNCHANGED <<state, storage, delegateQueue>>
            /\ \E p \in ProtocolNumbers : p # 0 /\ workQueue' = Append(Rest, Block("fulfil", p))
         \/ Ends(Rest)
  PROVE  Shape'
<1>1. /\ ProtocolNumbers' = ProtocolNumbers /\ protocols' \in Seq(ProtocolType)
      /\ protocols' = <<>> <=> protocols = <<>>
  BY TouchedSame
<1>2. OtherTypes'
  BY OthersKept DEF clientVars, sessionVars
<1>3. UNCHANGED pc /\ suspendCount' \in Nat /\ delivering' \in Seq(Callbacks) /\ UNCHANGED delivering
  BY TaskParts DEF clientVars
<1>4. \A b \in {"remove", "fulfil"}, p \in ProtocolNumbers' :
        /\ Block(b, p) \in BlockType' /\ Block(b, p).by = "queue"
        /\ Block(b, p).kind = b /\ Block(b, p).p = p /\ b \notin Synchronous
  <2>1. \A b \in {"remove", "fulfil"} : b \in BlockKinds /\ b \notin Synchronous
    BY DEF BlockKinds, Synchronous, Calls
  <2>2. ProtocolNumbers \subseteq ProtocolNumbers'
    BY <1>1
  <2> QED BY <2>1, <2>2, BlocksTyped
<1>5. 0 \in ProtocolNumbers' /\ "remove" \notin OnProtocol
  BY <1>1, ZeroKept DEF OnProtocol
<1>6. StorageOK' /\ state' \in States /\ DelegateTypes' /\ Waits' /\ Unserved'
  <2>1. CASE UNCHANGED <<state, storage, delegateQueue>>
    <3>1. StorageOK' /\ state' \in States
      BY <1>1, <2>1, StorageKept, TaskParts
    <3>2. DelegateTypes' /\ Waits'
      BY <1>1, <1>3, <2>1, NoOpQueued
    <3>3. Unserved'
      BY <1>1, <1>3, <2>1 DEF Unserved, Shape
    <3> QED BY <3>1, <3>2, <3>3
  <2>2. CASE Ends(Rest)
    <3>1. /\ DelegateTypes' /\ Waits' /\ StorageOK' /\ storage'.kind = "invalidated"
          /\ state' \in States
      BY <1>1, <1>3, <2>2, EndsTypes
    <3>2. Unserved'
      BY <1>1, <1>3, <3>1 DEF Unserved, Shape
    <3> QED BY <3>1, <3>2
  <2> QED BY <2>1, <2>2
<1>7. WorkTypes' /\ Callers'
  <2>1. CASE workQueue' = Rest \/ workQueue' = Append(Rest, Block("remove", NoProtocol))
    <3>1. /\ Block("remove", NoProtocol) \in BlockType' /\ Block("remove", NoProtocol).by = "queue"
          /\ Block("remove", NoProtocol).kind = "remove" /\ "remove" \notin Synchronous
      BY <1>4, <1>5 DEF NoProtocol
    <3> QED BY <1>1, <1>3, <1>5, <2>1, <3>1, WorkRun
  <2>2. CASE \E p \in ProtocolNumbers : p # 0 /\ workQueue' = Append(Rest, Block("fulfil", p))
    <3>1. PICK p \in ProtocolNumbers : p # 0 /\ workQueue' = Append(Rest, Block("fulfil", p))
      BY <2>2
    <3>2. /\ Block("fulfil", p) \in BlockType' /\ Block("fulfil", p).by = "queue"
          /\ Block("fulfil", p).kind = "fulfil" /\ Block("fulfil", p).p # NoProtocol
          /\ "fulfil" \notin Synchronous
      BY <1>1, <1>4, <3>1 DEF NoProtocol
    <3> QED BY <1>1, <1>3, <3>1, <3>2, WorkRun
  <2> QED BY <1>1, <1>3, <2>1, <2>2, EndsTypes
<1>8. TaskTypes'
  BY <1>1, <1>3, <1>6, TaskTypesKept
<1> QED BY <1>2, <1>6, <1>7, <1>8 DEF Shape, TypeOK

(* libcurl and the timer.                                                   *)
LEMMA TransferShape ==
  ASSUME Shape, Touched, error' \in BOOLEAN, replies' \in Seq(Replies), pieces' \in Nat,
         UNCHANGED <<suspendCount, delivering, checked, sessionVars,
                     scenario, app, pc, completions, calls>>,
         \/ UNCHANGED <<state, storage, workQueue, delegateQueue>>
         \/ Tells
         \/ Ends(workQueue)
  PROVE  Shape'
<1>1. /\ ProtocolNumbers' = ProtocolNumbers /\ protocols' \in Seq(ProtocolType)
      /\ protocols' = <<>> <=> protocols = <<>>
  BY TouchedSame
<1>2. OtherTypes'
  BY DEF sessionVars, Shape, TypeOK, OtherTypes
<1>3. suspendCount' \in Nat /\ delivering' \in Seq(Callbacks) /\ UNCHANGED delivering
  BY TaskParts
<1>4. Block("remove", NoProtocol) \in BlockType' /\ Block("remove", NoProtocol).by = "queue"
      /\ Block("remove", NoProtocol).kind = "remove"
  <2>1. "remove" \in BlockKinds
    BY DEF BlockKinds
  <2>2. ProtocolNumbers \subseteq ProtocolNumbers' /\ 0 \in ProtocolNumbers'
    BY <1>1, ZeroKept
  <2> QED BY <2>1, <2>2, BlocksTyped DEF NoProtocol
<1>5. "remove" \notin Synchronous /\ "remove" \notin OnProtocol
  BY DEF Synchronous, Calls, OnProtocol
<1>6. /\ StorageOK' /\ state' \in States /\ DelegateTypes' /\ Waits' /\ Unserved'
      /\ workQueue' = workQueue \/ workQueue' = Append(workQueue, Block("remove", NoProtocol))
  <2>1. CASE UNCHANGED <<state, storage, workQueue, delegateQueue>>
    <3>1. StorageOK' /\ state' \in States
      BY <1>1, <2>1, StorageKept, TaskParts
    <3>2. DelegateTypes' /\ Waits'
      BY <1>1, <2>1, NoOpQueued
    <3>3. Unserved'
      BY <1>1, <1>3, <2>1 DEF Unserved, Shape
    <3> QED BY <3>1, <3>2, <3>3, <2>1
  <2>2. CASE Ends(workQueue)
    <3>1. /\ DelegateTypes' /\ Waits' /\ StorageOK' /\ storage'.kind = "invalidated"
          /\ state' \in States
          /\ workQueue' = workQueue \/ workQueue' = Append(workQueue, Block("remove", NoProtocol))
      BY <1>1, <2>2, EndsTypes
    <3>2. Unserved'
      BY <1>1, <1>3, <3>1 DEF Unserved, Shape
    <3> QED BY <3>1, <3>2
  <2>3. CASE Tells
    <3>1. /\ DelegateTypes' /\ Waits' /\ StorageOK' /\ UNCHANGED <<state, storage>>
          /\ workQueue' = workQueue
      BY <1>1, <2>3, Told DEF Tells
    <3>2. Unserved'
      BY <1>1, <1>3, <3>1 DEF Unserved, Shape
    <3> QED BY <3>1, <3>2, TaskParts
  <2> QED BY <2>1, <2>2, <2>3
<1>7. pc' \in [Clients -> Places]
  BY DEF Shape, TypeOK, DelegateTypes
<1>8. WorkTypes' /\ Callers'
  BY <1>1, <1>4, <1>5, <1>6, <1>7, WorkQueued
<1>9. TaskTypes'
  BY <1>1, <1>3, <1>6, TaskTypesKept
<1> QED BY <1>2, <1>6, <1>8, <1>9 DEF Shape, TypeOK

(* The callbacks of the end of a task.                                      *)
LEMMA CompletionOps ==
  ASSUME Shape, NEW p \in ProtocolNumbers
  PROVE  /\ \A queue : Conclude(<<Op("complete", p)>>, queue) => Ends(queue)
         /\ \A queue : Conclude(<<Op("notify", p), Op("complete", p)>>, queue) => Ends(queue)
<1>1. \A k \in {"notify", "complete"} : Op(k, p) \in OpType /\ Op(k, p).kind = k
  BY DEF Op, OpType, OpKinds
<1>2. /\ <<Op("complete", p)>> \in Seq(OpType)
      /\ \A k \in 1 .. Len(<<Op("complete", p)>>) : <<Op("complete", p)>>[k].kind = "complete"
  BY <1>1
<1>3. /\ <<Op("notify", p), Op("complete", p)>> \in Seq(OpType)
      /\ \A k \in 1 .. Len(<<Op("notify", p), Op("complete", p)>>) :
           <<Op("notify", p), Op("complete", p)>>[k].kind \in {"notify", "complete"}
  BY <1>1
<1>4. /\ Len(<<Op("complete", p)>>) = 1 /\ <<Op("complete", p)>>[1].kind = "complete"
      /\ Len(<<Op("notify", p), Op("complete", p)>>) = 2
      /\ <<Op("notify", p), Op("complete", p)>>[1].kind = "notify"
      /\ <<Op("notify", p), Op("complete", p)>>[2].kind = "complete"
  BY <1>1
<1>5. /\ \A k \in 1 .. Len(<<Op("complete", p)>>) :
           <<Op("complete", p)>>[k].kind = "complete" <=> k = Len(<<Op("complete", p)>>)
      /\ \A k \in 1 .. Len(<<Op("notify", p), Op("complete", p)>>) :
           <<Op("notify", p), Op("complete", p)>>[k].kind = "complete"
             <=> k = Len(<<Op("notify", p), Op("complete", p)>>)
  BY <1>4
<1>6. Len(<<Op("complete", p)>>) >= 1 /\ Len(<<Op("notify", p), Op("complete", p)>>) >= 1
  BY <1>4
<1> QED BY <1>2, <1>3, <1>5, <1>6, Zenon DEF Ends

LEMMA StartLoadingShape ==
  ASSUME Shape, StartLoading
  PROVE  Shape'
<1>1. PICK p : p = Head(workQueue).p
  OBVIOUS
<1>2. Running("start") /\ "start" \notin Synchronous
  BY DEF StartLoading, Synchronous, Calls
<1>3. p \in 0 .. Len(protocols) /\ Len(protocols) \in Nat
  BY <1>1, <1>2, RunningBlock, Counts
<1>4. UNCHANGED <<suspendCount, delivering, checked, sessionVars, clientVars>>
  BY DEF StartLoading
<1>5. CASE p = NoProtocol
  <2>1. error' \in BOOLEAN /\ UNCHANGED protocols
    BY <1>1, <1>5 DEF StartLoading
  <2>2. p \in ProtocolNumbers
    BY <1>5, Counts DEF NoProtocol
  <2>4. \/ workQueue' = Rest /\ UNCHANGED <<state, storage, delegateQueue>>
        \/ Conclude(<<Op("complete", p)>>, Rest)
    BY <1>1, <1>5 DEF StartLoading
  <2>5. \/ workQueue' = Rest /\ UNCHANGED <<state, storage, delegateQueue>>
        \/ Ends(Rest)
    BY <2>2, <2>4, CompletionOps
  <2>6. Touched
    BY <2>1 DEF Touched
  <2> QED BY <1>2, <1>4, <2>1, <2>5, <2>6, LoadShape
<1>6. CASE p # NoProtocol
  <2>1. p \in 1 .. Len(protocols) /\ protocols[p] \in ProtocolType /\ p \in ProtocolNumbers /\ p # 0
    BY <1>3, <1>6, Counts, ElementOfSeq DEF NoProtocol
  <2>2. UNCHANGED <<state, storage, error, delegateQueue>> /\ error' \in BOOLEAN
    BY <1>1, <1>6, TaskParts DEF StartLoading
  <2>3. \/ /\ protocols' = [protocols EXCEPT ![p].at = "fulfillingFromCache"]
           /\ workQueue' = Append(Rest, Block("fulfil", p))
        \/ /\ protocols' = [protocols EXCEPT ![p] = Resumed(@)]
           /\ workQueue' = Rest
    BY <1>1, <1>6 DEF StartLoading
  <2>4. /\ [protocols[p] EXCEPT !.at = "fulfillingFromCache"] \in ProtocolType
        /\ Resumed(protocols[p]) \in ProtocolType
    BY <2>1, ProtocolKinds DEF ProtocolStates
  <2>5. Touched
    BY <2>1, <2>3, <2>4 DEF Touched
  <2> QED BY <1>2, <1>4, <2>1, <2>2, <2>3, <2>5, LoadShape
<1> QED BY <1>5, <1>6

LEMMA StopLoadingShape ==
  ASSUME Shape, StopLoading
  PROVE  Shape'
<1>1. PICK p : p = Head(workQueue).p
  OBVIOUS
<1>2. Running("stop") /\ "stop" \notin Synchronous
  BY DEF StopLoading, Synchronous, Calls
<1>3. p \in 0 .. Len(protocols) /\ Len(protocols) \in Nat
  BY <1>1, <1>2, RunningBlock, Counts
<1>4. /\ UNCHANGED <<suspendCount, delivering, checked, sessionVars, clientVars>>
      /\ UNCHANGED <<state, storage, delegateQueue>> /\ workQueue' = Rest /\ error' \in BOOLEAN
  BY TaskParts DEF StopLoading
<1>5. Touched
  <2>1. CASE p = NoProtocol
    BY <1>1, <2>1 DEF StopLoading, Touched
  <2>2. CASE p # NoProtocol
    <3>1. p \in 1 .. Len(protocols) /\ protocols[p] \in ProtocolType
      BY <1>3, <2>2, Counts, ElementOfSeq DEF NoProtocol
    <3>2. protocols' = [protocols EXCEPT ![p] = Stopped(protocols[p])]
      BY <1>1, <2>2 DEF StopLoading
    <3> QED BY <3>1, <3>2, ProtocolKinds DEF Touched
  <2> QED BY <2>1, <2>2
<1> QED BY <1>2, <1>4, <1>5, LoadShape

LEMMA CancelLoadingShape ==
  ASSUME Shape, CancelLoading
  PROVE  Shape'
<1>1. PICK p : p = Head(workQueue).p
  OBVIOUS
<1>2. Running("cancelled") /\ "cancelled" \notin Synchronous
  BY DEF CancelLoading, Synchronous, Calls
<1>3. p \in 0 .. Len(protocols) /\ Len(protocols) \in Nat
  BY <1>1, <1>2, RunningBlock, Counts
<1>4. UNCHANGED <<suspendCount, delivering, checked, sessionVars, clientVars>> /\ error' \in BOOLEAN
  BY DEF CancelLoading
<1>5. CASE p = NoProtocol
  <2>1. workQueue' = Rest /\ UNCHANGED <<state, storage, protocols, delegateQueue>>
    BY <1>1, <1>5 DEF CancelLoading
  <2>2. Touched
    BY <2>1 DEF Touched
  <2> QED BY <1>2, <1>4, <2>1, <2>2, LoadShape
<1>6. CASE p # NoProtocol
  <2>1. p \in 1 .. Len(protocols) /\ protocols[p] \in ProtocolType /\ p \in ProtocolNumbers
    BY <1>3, <1>6, Counts, ElementOfSeq DEF NoProtocol
  <2>2. /\ protocols' = [protocols EXCEPT ![p] = Stopped(protocols[p])]
        /\ Conclude(<<Op("complete", p)>>, Rest)
    BY <1>1, <1>6 DEF CancelLoading
  <2>3. Touched
    BY <2>1, <2>2, ProtocolKinds DEF Touched
  <2>4. Ends(Rest)
    BY <2>1, <2>2, CompletionOps
  <2> QED BY <1>2, <1>4, <2>3, <2>4, LoadShape
<1> QED BY <1>5, <1>6

LEMMA FulfilShape ==
  ASSUME Shape, FulfilFromCache
  PROVE  Shape'
<1>1. PICK p : p = Head(workQueue).p
  OBVIOUS
<1>2. Running("fulfil") /\ "fulfil" \notin Synchronous /\ "fulfil" \in OnProtocol
  BY DEF FulfilFromCache, Synchronous, Calls, OnProtocol
<1>3. p \in 1 .. Len(protocols) /\ protocols[p] \in ProtocolType /\ p \in ProtocolNumbers
  BY <1>1, <1>2, RunningBlock, Counts, ElementOfSeq
<1>4. UNCHANGED <<suspendCount, delivering, checked, sessionVars, clientVars>> /\ error' \in BOOLEAN
  BY TaskParts DEF FulfilFromCache
<1>5. /\ protocols' = [protocols EXCEPT ![p] = [protocols[p] EXCEPT !.at = "taskCompleted"]]
      /\ Conclude(<<Op("notify", p), Op("complete", p)>>, Rest)
  BY <1>1 DEF FulfilFromCache
<1>6. Touched
  BY <1>3, <1>5, ProtocolKinds DEF Touched, ProtocolStates
<1>7. Ends(Rest)
  BY <1>3, <1>5, CompletionOps
<1> QED BY <1>2, <1>4, <1>6, <1>7, LoadShape

LEMMA FollowShape ==
  ASSUME Shape, FollowRedirect
  PROVE  Shape'
<1>1. PICK p : p = Head(workQueue).p
  OBVIOUS
<1>2. Running("follow") /\ "follow" \notin Synchronous /\ "follow" \in OnProtocol
  BY DEF FollowRedirect, Synchronous, Calls, OnProtocol
<1>3. p \in 1 .. Len(protocols) /\ protocols[p] \in ProtocolType
  BY <1>1, <1>2, RunningBlock, Counts, ElementOfSeq
<1>4. /\ UNCHANGED <<suspendCount, delivering, checked, sessionVars, clientVars>>
      /\ UNCHANGED <<state, storage, delegateQueue>> /\ workQueue' = Rest /\ error' \in BOOLEAN
  BY TaskParts DEF FollowRedirect
<1>5. protocols' = [protocols EXCEPT ![p] = StartNewTransfer]
  BY <1>1 DEF FollowRedirect
<1>6. Touched
  BY <1>3, <1>5, ProtocolKinds DEF Touched
<1> QED BY <1>2, <1>4, <1>6, LoadShape

LEMMA DeclineShape ==
  ASSUME Shape, DeclineRedirect
  PROVE  Shape'
<1>1. PICK p : p = Head(workQueue).p
  OBVIOUS
<1>2. Running("decline") /\ "decline" \notin Synchronous /\ "decline" \in OnProtocol
  BY DEF DeclineRedirect, Synchronous, Calls, OnProtocol
<1>3. p \in 1 .. Len(protocols) /\ protocols[p] \in ProtocolType /\ p \in ProtocolNumbers
  BY <1>1, <1>2, RunningBlock, Counts, ElementOfSeq
<1>4. /\ UNCHANGED <<suspendCount, delivering, checked, sessionVars, clientVars>>
      /\ UNCHANGED error /\ error' \in BOOLEAN
  BY TaskParts DEF DeclineRedirect
<1>5. CASE /\ protocols' = [protocols EXCEPT ![p] = TaskCompleted]
           /\ Conclude(<<Op("notify", p), Op("complete", p)>>, Rest)
  <2>1. Touched
    BY <1>3, <1>5, ProtocolKinds DEF Touched
  <2>2. Ends(Rest)
    BY <1>3, <1>5, CompletionOps
  <2> QED BY <1>2, <1>4, <2>1, <2>2, LoadShape
<1>6. CASE UNCHANGED <<state, storage, protocols, workQueue, delegateQueue>>
  <2>1. replies \in Seq(Replies) /\ pieces \in Nat
    BY DEF Shape, TypeOK, OtherTypes
  <2>2. Touched
    BY <1>6 DEF Touched
  <2> QED BY <1>4, <1>6, <2>1, <2>2, TransferShape DEF clientVars
<1> QED BY <1>1, <1>5, <1>6 DEF DeclineRedirect

LEMMA ReceiveShape ==
  ASSUME Shape, NEW p \in 1 .. Len(protocols), ReceiveData(p)
  PROVE  Shape'
<1>1. /\ UNCHANGED <<suspendCount, error, delivering, checked, sessionVars,
                     scenario, app, replies, pc, completions, calls, protocols>>
      /\ pieces' = pieces + 1 /\ Tell(Op("notify", p), workQueue)
  BY DEF ReceiveData
<1>2. error' \in BOOLEAN /\ replies' \in Seq(Replies) /\ pieces' \in Nat
  BY <1>1 DEF Shape, TypeOK, TaskTypes, OtherTypes
<1>3. Op("notify", p) \in OpType /\ Op("notify", p).kind = "notify"
  BY Counts DEF Op, OpType, OpKinds
<1>4. Tells
  BY <1>1, <1>3 DEF Tells
<1>5. Touched
  BY <1>1 DEF Touched
<1> QED BY <1>1, <1>2, <1>4, <1>5, TransferShape

LEMMA TransferCompletedShape ==
  ASSUME Shape, NEW p \in 1 .. Len(protocols), TransferCompleted(p)
  PROVE  Shape'
<1>1. /\ UNCHANGED <<suspendCount, delivering, checked, sessionVars,
                     scenario, app, pc, completions, calls, pieces>>
      /\ replies' = Tail(replies) /\ error' = (error \/ Head(replies) = "fail")
      /\ replies # <<>>
  BY DEF TransferCompleted
<1>2. error' \in BOOLEAN /\ replies' \in Seq(Replies) /\ pieces' \in Nat /\ Head(replies) \in Replies
  BY <1>1, Dropped DEF Shape, TypeOK, TaskTypes, OtherTypes
<1>3. \A k \in {"redirect", "challenge"} : Op(k, p) \in OpType /\ Op(k, p).kind = k /\ Op(k, p).p = p /\ p # NoProtocol
  BY Counts DEF Op, OpType, OpKinds, NoProtocol
<1>4. protocols[p] \in ProtocolType /\ p \in ProtocolNumbers
  BY Counts, ElementOfSeq
<1>5. CASE Head(replies) \in {"ok", "fail"}
  <2>1. protocols' = [protocols EXCEPT ![p] = TaskCompleted] /\ Conclude(<<Op("complete", p)>>, workQueue)
    BY <1>5 DEF TransferCompleted
  <2>2. Touched
    BY <1>4, <2>1, ProtocolKinds DEF Touched
  <2>3. Ends(workQueue)
    BY <1>4, <2>1, CompletionOps
  <2> QED BY <1>1, <1>2, <2>2, <2>3, TransferShape
<1>6. CASE Head(replies) = "unauthorized"
  <2>1. /\ protocols' = [protocols EXCEPT ![p] = TaskCompleted]
        /\ IF delegate
           THEN Tell(Op("challenge", p), workQueue)
           ELSE UNCHANGED <<state, storage, workQueue, delegateQueue, crash>>
    BY <1>6 DEF TransferCompleted
  <2>2. Touched
    BY <1>4, <2>1, ProtocolKinds DEF Touched
  <2>3. Tells \/ UNCHANGED <<state, storage, workQueue, delegateQueue>>
    BY <1>3, <2>1 DEF Tells
  <2> QED BY <1>1, <1>2, <2>2, <2>3, TransferShape
<1>7. CASE Head(replies) = "redirect" /\ delegate
  <2>1. /\ protocols' = [protocols EXCEPT ![p].at = "waitingForRedirectCompletionHandler"]
        /\ Tell(Op("redirect", p), workQueue)
    BY <1>7 DEF TransferCompleted
  <2>2. [protocols[p] EXCEPT !.at = "waitingForRedirectCompletionHandler"] \in ProtocolType
    BY <1>4, ProtocolKinds DEF ProtocolStates
  <2>3. Touched
    BY <2>1, <2>2 DEF Touched
  <2>4. Tells
    BY <1>3, <2>1 DEF Tells
  <2> QED BY <1>1, <1>2, <2>3, <2>4, TransferShape
<1>8. CASE Head(replies) = "redirect" /\ ~delegate
  <2>1. /\ protocols' = [protocols EXCEPT ![p] = StartNewTransfer]
        /\ UNCHANGED <<state, storage, workQueue, delegateQueue>>
    BY <1>8 DEF TransferCompleted
  <2>2. Touched
    BY <1>4, <2>1, ProtocolKinds DEF Touched
  <2> QED BY <1>1, <1>2, <2>1, <2>2, TransferShape
<1> QED BY <1>2, <1>5, <1>6, <1>7, <1>8 DEF Replies

LEMMA TimedOutShape ==
  ASSUME Shape, NEW p \in 1 .. Len(protocols), TimedOut(p)
  PROVE  Shape'
<1>1. /\ UNCHANGED <<suspendCount, delivering, checked, sessionVars, scenario, app, replies, pc,
                     completions, calls, pieces>>
      /\ protocols' = [protocols EXCEPT ![p] = TaskCompleted]
      /\ \/ UNCHANGED <<state, storage, error, workQueue, delegateQueue, crash>>
         \/ error' = TRUE /\ Conclude(<<Op("complete", p)>>, workQueue)
  BY DEF TimedOut, clientVars
<1>2. error' \in BOOLEAN /\ replies' \in Seq(Replies) /\ pieces' \in Nat
  BY <1>1 DEF Shape, TypeOK, TaskTypes, OtherTypes
<1>4. protocols[p] \in ProtocolType /\ p \in ProtocolNumbers
  BY Counts, ElementOfSeq
<1>5. Touched
  BY <1>1, <1>4, ProtocolKinds DEF Touched
<1>6. UNCHANGED <<state, storage, workQueue, delegateQueue>> \/ Ends(workQueue)
  BY <1>1, <1>4, CompletionOps
<1> QED BY <1>1, <1>2, <1>5, <1>6, TransferShape

LEMMA CacheRepliesShape ==
  ASSUME Shape, CacheReplies
  PROVE  Shape'
<1>1. /\ UNCHANGED <<state, suspendCount, error, workQueue, checked, delegateQueue, registered,
                     delegate, finishing, crash, scenario, app, replies, pc, completions, calls, pieces>>
      /\ protocols' = Append(protocols, NewProtocol)
      /\ storage' = Stored("existing", Len(protocols) + 1, <<>>)
      /\ delivering' = storage.bag
  BY DEF CacheReplies, queueVars, sessionVars, clientVars
<1>2. /\ ProtocolNumbers \subseteq ProtocolNumbers' /\ protocols' \in Seq(ProtocolType)
      /\ Len(protocols) + 1 \in ProtocolNumbers' /\ Len(protocols) + 1 # 0 /\ protocols' # <<>>
  BY <1>1, ProtocolMade
<1>3. StorageOK' /\ storage'.kind = "existing"
  BY <1>1, <1>2, StorageExists
<1>4. Unserved'
  BY <1>2, <1>3 DEF Unserved
<1>5. DelegateTypes' /\ Waits'
  BY <1>1, <1>2, NoOpQueued
<1>6. Block("add", 0) \in BlockType' /\ Block("add", 0).by = "queue" /\ Block("add", 0).kind = "add"
  BY <1>2, BlocksTyped, ZeroKept DEF BlockKinds
<1>7. WorkTypes' /\ Callers'
  <2>1. pc' \in [Clients -> Places] /\ "add" \notin Synchronous /\ "add" \notin OnProtocol
    BY <1>1 DEF Shape, TypeOK, DelegateTypes, Synchronous, Calls, OnProtocol
  <2> QED BY <1>1, <1>2, <1>6, <2>1, WorkQueued
<1>8. delivering' \in Seq(Callbacks)
  BY <1>1 DEF Shape, TypeOK, TaskTypes
<1>9. TaskTypes' /\ OtherTypes'
  BY <1>1, <1>2, <1>3, <1>8, TaskParts, TaskTypesKept, OthersKept
<1> QED BY <1>4, <1>5, <1>7, <1>9 DEF Shape, TypeOK

LEMMA DeliverShape ==
  ASSUME Shape, DeliverProtocol
  PROVE  Shape'
<1>1. /\ UNCHANGED <<state, suspendCount, error, storage, protocols, checked, delegateQueue, registered,
                     delegate, finishing, crash, scenario, app, replies, pc, completions, calls, pieces>>
      /\ delivering # <<>> /\ delivering' = Tail(delivering)
      /\ workQueue' = Append(workQueue, Block(Head(delivering), 1))
  BY DEF DeliverProtocol, sessionVars, clientVars
<1>2. ProtocolNumbers' = ProtocolNumbers /\ 1 \in ProtocolNumbers' /\ ProtocolNumbers \subseteq ProtocolNumbers'
  BY <1>1, Counts DEF ProtocolNumbers, Shape, Unserved
<1>3. delivering' \in Seq(Callbacks) /\ Head(delivering) \in Callbacks
  BY <1>1, TaskParts, Dropped
<1>4. StorageOK' /\ Unserved'
  BY <1>1, <1>2, StorageKept DEF Shape, Unserved
<1>5. DelegateTypes' /\ Waits'
  BY <1>1, <1>2, NoOpQueued
<1>6. PICK kind \in Callbacks : kind = Head(delivering)
  BY <1>3
<1>7. kind \in BlockKinds /\ kind \notin Synchronous /\ kind \notin OnProtocol
  BY DEF BlockKinds, Callbacks, Synchronous, Calls, OnProtocol
<1>8. Block(kind, 1) \in BlockType' /\ Block(kind, 1).by = "queue" /\ Block(kind, 1).kind = kind
  BY <1>2, <1>7, BlocksTyped
<1>9. WorkTypes' /\ Callers'
  <2>1. pc' \in [Clients -> Places]
    BY <1>1 DEF Shape, TypeOK, DelegateTypes
  <2> QED BY <1>1, <1>2, <1>6, <1>7, <1>8, <2>1, WorkQueued
<1>10. TaskTypes' /\ OtherTypes'
  BY <1>1, <1>3, <1>4, TaskParts, TaskTypesKept, OthersKept
<1> QED BY <1>4, <1>5, <1>9, <1>10 DEF Shape, TypeOK

(* A step of the application's thread, or of a callback.                    *)
LEMMA ClientShape ==
  ASSUME Shape, UNCHANGED <<taskVars, delegateQueue, sessionVars, scenario, replies, pieces>>,
         app' \in Seq(Calls \cup SessionCalls), completions' \in Nat, calls' \in Nat,
         WorkTypes', Callers', pc' \in [Clients -> Places],
         pc'["app"] \in AppPlaces, pc'["delegate"] \in DelegatePlaces,
         pc'["delegate"] # "idle" => delegateQueue # <<>>,
         pc'["delegate"] \in Answering => Operation.kind = "challenge"
  PROVE  Shape'
<1>1. ProtocolNumbers' = ProtocolNumbers /\ ProtocolNumbers \subseteq ProtocolNumbers'
  BY DEF ProtocolNumbers, taskVars
<1>2. StorageOK' /\ Unserved'
  BY <1>1, StorageKept DEF Shape, Unserved, taskVars
<1>3. TaskTypes'
  BY <1>2, TaskParts, TaskTypesKept DEF taskVars
<1>4. OtherTypes'
  BY DEF Shape, TypeOK, OtherTypes, sessionVars
<1>5. DelegateTypes'
  BY <1>1 DEF Shape, TypeOK, DelegateTypes
<1>6. Waits'
  BY DEF Waits, Operation
<1> QED BY <1>2, <1>3, <1>4, <1>5, <1>6 DEF Shape, TypeOK

LEMMA DelegatePlace ==
  ASSUME Shape
  PROVE  /\ pc \in [Clients -> Places]
         /\ pc["app"] \in AppPlaces /\ pc["delegate"] \in DelegatePlaces
         /\ pc["delegate"] # "idle" => delegateQueue # <<>>
         /\ pc["delegate"] \in Answering => Operation.kind = "challenge"
         /\ app \in Seq(Calls \cup SessionCalls) /\ completions \in Nat /\ calls \in Nat
BY DEF Shape, TypeOK, DelegateTypes, Waits, OtherTypes

(* The application waits for a block, or goes on without.                   *)
LEMMA AppEntered ==
  ASSUME Shape, UNCHANGED <<taskVars, delegateQueue, sessionVars, scenario, replies, pieces,
                            checked, completions, calls>>,
         app' \in Seq(Calls \cup SessionCalls), ~Waiting("app"),
         \/ \E call \in Calls \cup {"close"}, place \in {"waiting", "closing", "cancelling"} :
              call \in Expected[place] /\ Enter("app", call, place)
         \/ /\ \E place \in {"idle", "invalidating"} : pc' = [pc EXCEPT !["app"] = place]
            /\ \/ UNCHANGED workQueue
               \/ \E kind \in {"finish", "invalidate"} : workQueue' = Append(workQueue, Block(kind, NoProtocol))
  PROVE  Shape'
<1>1. ProtocolNumbers' = ProtocolNumbers /\ ProtocolNumbers \subseteq ProtocolNumbers'
  BY DEF ProtocolNumbers, taskVars
<1>2. CASE \E call \in Calls \cup {"close"}, place \in {"waiting", "closing", "cancelling"} :
              call \in Expected[place] /\ Enter("app", call, place)
  <2>1. PICK call \in Calls \cup {"close"}, place \in {"waiting", "closing", "cancelling"} :
              call \in Expected[place] /\ Enter("app", call, place)
    BY <1>2
  <2>2. "app" \in Clients /\ "delegate" \in Clients /\ "delegate" # "app"
        /\ place \in DOMAIN AfterCall /\ place \in AppPlaces
    BY DEF Clients, AfterCall, AppPlaces
  <2>3. /\ WorkTypes' /\ Callers' /\ pc' \in [Clients -> Places]
        /\ pc'["app"] = place /\ pc'["delegate"] = pc["delegate"]
    BY <1>1, <2>1, <2>2, WorkEntered
  <2> QED BY <2>2, <2>3, DelegatePlace, ClientShape
<1>3. CASE /\ \E place \in {"idle", "invalidating"} : pc' = [pc EXCEPT !["app"] = place]
           /\ \/ UNCHANGED workQueue
              \/ \E kind \in {"finish", "invalidate"} : workQueue' = Append(workQueue, Block(kind, NoProtocol))
  <2>1. /\ pc' \in [Clients -> Places] /\ pc'["app"] \in AppPlaces /\ pc'["delegate"] = pc["delegate"]
    BY <1>3, DelegatePlace DEF Clients, Places, AppPlaces
  <2>2. \A c \in Clients : ~Waiting(c) \/ pc'[c] = pc[c]
    BY <2>1 DEF Clients
  <2>3. PICK kind \in {"finish", "invalidate"} :
           workQueue' = workQueue \/ workQueue' = Append(workQueue, Block(kind, NoProtocol))
    BY <1>3
  <2>4. kind \in BlockKinds /\ kind \notin Synchronous /\ kind \notin OnProtocol
    BY DEF BlockKinds, Synchronous, Calls, OnProtocol
  <2>5. /\ Block(kind, NoProtocol) \in BlockType' /\ Block(kind, NoProtocol).by = "queue"
        /\ Block(kind, NoProtocol).kind = kind
    BY <1>1, <2>4, BlocksTyped, ZeroKept DEF NoProtocol
  <2>6. WorkTypes' /\ Callers'
    BY <1>1, <2>1, <2>2, <2>3, <2>4, <2>5, WorkQueued
  <2> QED BY <2>1, <2>6, DelegatePlace, ClientShape
<1> QED BY <1>2, <1>3

LEMMA AppShape ==
  ASSUME Shape, AppCalls \/ CancelTasks \/ LeaveInvalidation
  PROVE  Shape'
<1>1. UNCHANGED <<taskVars, delegateQueue, sessionVars, scenario, replies, pieces,
                  checked, completions, calls>>
  BY DEF AppCalls, CancelTasks, LeaveInvalidation
<1>2. app' \in Seq(Calls \cup SessionCalls)
  BY DelegatePlace, Dropped DEF AppCalls, CancelTasks, LeaveInvalidation
<1>3. ~Waiting("app")
  BY DEF AppCalls, CancelTasks, LeaveInvalidation, Waiting, AfterCall
<1>4. CASE AppCalls
  <2>1. app # <<>> /\ Head(app) \in Calls \cup SessionCalls
    BY <1>4, DelegatePlace, Dropped DEF AppCalls
  <2>2. CASE Head(app) \in Calls
    <3>1. Enter("app", Head(app), "waiting")
      <4>1. Head(app) # "invalidateAndCancel" /\ Head(app) # "finishTasksAndInvalidate"
        BY <2>2 DEF Calls
      <4> QED BY <1>4, <2>2, <4>1 DEF AppCalls
    <3>2. Head(app) \in Calls \cup {"close"} /\ Head(app) \in Expected["waiting"]
      BY <2>2 DEF Expected
    <3> QED BY <1>1, <1>2, <1>3, <3>1, <3>2, AppEntered
  <2>3. CASE Head(app) = "invalidateAndCancel"
    <3>1. Enter("app", "close", "closing")
      BY <1>4, <2>3 DEF AppCalls, Calls
    <3>2. "close" \in Expected["closing"]
      BY DEF Expected
    <3> QED BY <1>1, <1>2, <1>3, <3>1, <3>2, AppEntered
  <2>4. CASE Head(app) = "finishTasksAndInvalidate"
    <3>1. workQueue' = Append(workQueue, Block("finish", NoProtocol)) /\ UNCHANGED pc /\ pc["app"] = "idle"
      BY <1>4, <2>4 DEF AppCalls, Calls
    <3>2. pc' = [pc EXCEPT !["app"] = "idle"]
      BY <3>1, DelegatePlace
    <3> QED BY <1>1, <1>2, <1>3, <3>1, <3>2, AppEntered
  <2> QED BY <2>1, <2>2, <2>3, <2>4 DEF SessionCalls
<1>5. CASE CancelTasks
  <2>1. CASE registered
    <3>1. Enter("app", "cancel", "cancelling")
      BY <1>5, <2>1 DEF CancelTasks
    <3>2. "cancel" \in Expected["cancelling"] /\ "cancel" \in Calls
      BY DEF Expected, Calls
    <3> QED BY <1>1, <1>2, <1>3, <3>1, <3>2, AppEntered
  <2>2. CASE ~registered
    <3>1. pc' = [pc EXCEPT !["app"] = "invalidating"] /\ UNCHANGED workQueue
      BY <1>5, <2>2 DEF CancelTasks
    <3> QED BY <1>1, <1>2, <1>3, <3>1, AppEntered
  <2> QED BY <2>1, <2>2
<1>6. CASE LeaveInvalidation
  <2>1. /\ pc' = [pc EXCEPT !["app"] = "idle"]
        /\ workQueue' = Append(workQueue, Block("invalidate", NoProtocol))
    BY <1>6 DEF LeaveInvalidation
  <2> QED BY <1>1, <1>2, <1>3, <2>1, AppEntered
<1> QED BY <1>4, <1>5, <1>6

(* The delegate enters a synchronous block of its own.                      *)
LEMMA DelegateEntered ==
  ASSUME Shape, UNCHANGED <<delegateQueue, sessionVars, scenario, app, replies, pieces,
                            checked, completions, suspendCount, error, state, delivering>>,
         calls' \in Nat, ~Waiting("delegate"), pc["delegate"] # "idle",
         NEW call \in Calls, NEW place \in {"calling", "proposing", "retrying", "refusing"},
         call \in Expected[place], place \in Answering => Operation.kind = "challenge",
         Enter("delegate", call, place),
         \/ UNCHANGED <<storage, protocols>>
         \/ /\ protocols' = Append(protocols, NewProtocol)
            /\ storage' = Stored("existing", Len(protocols) + 1, <<>>)
  PROVE  Shape'
<1>1. ProtocolNumbers \subseteq ProtocolNumbers' /\ protocols' \in Seq(ProtocolType) /\ StorageOK' /\ Unserved'
  <2>1. CASE UNCHANGED <<storage, protocols>>
    <3>1. ProtocolNumbers' = ProtocolNumbers
      BY <2>1 DEF ProtocolNumbers
    <3> QED BY <2>1, <3>1, TaskParts, StorageKept DEF Shape, Unserved
  <2>2. CASE /\ protocols' = Append(protocols, NewProtocol)
             /\ storage' = Stored("existing", Len(protocols) + 1, <<>>)
    <3>1. /\ ProtocolNumbers \subseteq ProtocolNumbers' /\ protocols' \in Seq(ProtocolType)
          /\ Len(protocols) + 1 \in ProtocolNumbers' /\ Len(protocols) + 1 # 0 /\ protocols' # <<>>
      BY <2>2, ProtocolMade
    <3>2. StorageOK' /\ storage'.kind = "existing"
      BY <2>2, <3>1, StorageExists
    <3> QED BY <3>1, <3>2 DEF Unserved
  <2> QED BY <2>1, <2>2
<1>2. /\ "app" \in Clients /\ "delegate" \in Clients /\ "delegate" # "app"
      /\ place \in DOMAIN AfterCall /\ place \in DelegatePlaces /\ place # "idle"
  BY DEF Clients, AfterCall, DelegatePlaces, Answering
<1>3. /\ WorkTypes' /\ Callers' /\ pc' \in [Clients -> Places]
      /\ pc'["delegate"] = place /\ pc'["app"] = pc["app"]
  BY <1>1, <1>2, WorkEntered
<1>4. Waits'
  BY <1>2, <1>3, DelegatePlace DEF Waits, Operation
<1>5. DelegateTypes'
  <2>1. OpType \subseteq OpType'
    BY <1>1 DEF OpType
  <2>2. delegateQueue \in Seq(OpType)
    BY DEF Shape, TypeOK, DelegateTypes, OpType
  <2>3. delegateQueue \in Seq(OpType')
    BY <2>1, <2>2, SeqMonotonic
  <2> QED BY <1>3, <2>3 DEF Shape, TypeOK, DelegateTypes, OpType
<1>6. OtherTypes'
  BY DEF Shape, TypeOK, OtherTypes, sessionVars
<1>7. TaskTypes'
  BY <1>1, TaskParts, TaskTypesKept
<1> QED BY <1>1, <1>3, <1>4, <1>5, <1>6, <1>7 DEF Shape, TypeOK

(* The first operation is over.                                             *)
LEMMA OperationOver ==
  ASSUME Shape, delegateQueue # <<>>, ~Waiting("delegate"),
         pc' = [pc EXCEPT !["delegate"] = "idle"], delegateQueue' = Tail(delegateQueue),
         UNCHANGED <<suspendCount, error, storage, protocols, delivering, checked, registered, finishing, crash,
                     scenario, app, replies, completions, calls, pieces>>,
         delegate' \in BOOLEAN, state' \in States,
         \/ UNCHANGED workQueue
         \/ \E kind \in {"remove", "follow", "decline"}, p \in ProtocolNumbers :
              (kind # "remove" => p # 0) /\ workQueue' = Append(workQueue, Block(kind, p))
  PROVE  Shape'
<1>1. ProtocolNumbers' = ProtocolNumbers /\ ProtocolNumbers \subseteq ProtocolNumbers'
  BY DEF ProtocolNumbers
<1>2. /\ pc' \in [Clients -> Places] /\ pc'["delegate"] = "idle" /\ pc'["app"] = pc["app"]
      /\ \A c \in Clients : ~Waiting(c) \/ pc'[c] = pc[c]
  BY DelegatePlace DEF Clients, Places
<1>4. DelegateTypes' /\ Waits'
  <2>1. Passed(delegateQueue, Tail(delegateQueue))
    BY DEF Passed
  <2>2. Tail(delegateQueue) \in Seq(OpType)
    BY RunningOperation
  <2>3. delegateQueue' = Tail(delegateQueue) \o <<>>
    BY <2>2, ConcatEmptySeq
  <2>4. <<>> \in Seq(OpType') /\ \A k \in 1 .. Len(<<>>) : <<>>[k].kind = "redirect" => <<>>[k].p # NoProtocol
    BY FewOps
  <2>5. "idle" \in DelegatePlaces /\ "idle" \notin Answering
    BY DEF DelegatePlaces, Answering
  <2> QED BY <1>1, <1>2, <2>1, <2>3, <2>4, <2>5, DelegatePlace, DelegateKept
<1>5. PICK kind \in {"remove", "follow", "decline"}, p \in ProtocolNumbers :
        /\ kind # "remove" => p # 0
        /\ workQueue' = workQueue \/ workQueue' = Append(workQueue, Block(kind, p))
  <2>1. CASE UNCHANGED workQueue
    BY <2>1, Counts
  <2> QED BY <2>1
<1>6. kind \in BlockKinds /\ kind \notin Synchronous /\ (kind \in OnProtocol => p # 0)
  BY <1>5 DEF BlockKinds, Synchronous, Calls, OnProtocol
<1>7. Block(kind, p) \in BlockType' /\ Block(kind, p).by = "queue" /\ Block(kind, p).kind = kind
      /\ Block(kind, p).p = p
  BY <1>1, <1>6, BlocksTyped
<1>8. WorkTypes' /\ Callers'
  BY <1>1, <1>2, <1>5, <1>6, <1>7, WorkQueued DEF NoProtocol
<1>9. StorageOK' /\ Unserved'
  BY <1>1, StorageKept DEF Shape, Unserved
<1>10. TaskTypes'
  BY <1>9, TaskParts, TaskTypesKept
<1>11. OtherTypes'
  BY DEF Shape, TypeOK, OtherTypes
<1> QED BY <1>4, <1>8, <1>9, <1>10, <1>11 DEF Shape, TypeOK

LEMMA NotWaiting ==
  ASSUME pc["delegate"] \in {"idle", "callback", "replacing", "done"}
  PROVE  ~Waiting("delegate")
BY DEF Waiting, AfterCall

LEMMA BeginCallbackShape ==
  ASSUME Shape, BeginCallback
  PROVE  Shape'
<1>1. /\ pc["delegate"] = "idle" /\ delegateQueue # <<>> /\ ~Waiting("delegate")
      /\ UNCHANGED <<taskVars, workQueue, checked, sessionVars, crash, scenario, app, replies, calls, pieces>>
  BY NotWaiting DEF BeginCallback
<1>2. CASE Reported
  <2>1. delegateQueue' = Tail(delegateQueue) /\ UNCHANGED <<pc, completions>>
    BY <1>2 DEF BeginCallback
  <2>2. pc' = [pc EXCEPT !["delegate"] = "idle"]
    BY <1>1, <2>1, DelegatePlace
  <2>3. delegate' \in BOOLEAN /\ state' \in States
    BY <1>1, TaskParts DEF sessionVars, taskVars, Shape, TypeOK, OtherTypes
  <2> QED BY <1>1, <2>1, <2>2, <2>3, OperationOver DEF sessionVars, taskVars
<1>3. CASE ~Reported
  <2>1. /\ pc' = [pc EXCEPT !["delegate"] = "callback"]
        /\ completions' = completions + IF Operation.kind = "complete" THEN 1 ELSE 0
        /\ UNCHANGED delegateQueue
    BY <1>3 DEF BeginCallback
  <2>2. completions' \in Nat /\ calls' \in Nat /\ app' \in Seq(Calls \cup SessionCalls)
    BY <1>1, <2>1, DelegatePlace
  <2>3. /\ pc' \in [Clients -> Places] /\ pc'["delegate"] = "callback" /\ pc'["app"] = pc["app"]
        /\ \A c \in Clients : ~Waiting(c) \/ pc'[c] = pc[c]
    BY <1>1, <2>1, DelegatePlace DEF Clients, Places
  <2>4. ProtocolNumbers \subseteq ProtocolNumbers'
    BY <1>1 DEF ProtocolNumbers, taskVars
  <2>5. /\ Block("add", 0) \in BlockType' /\ Block("add", 0).by = "queue" /\ Block("add", 0).kind = "add"
        /\ "add" \notin Synchronous /\ "add" \notin OnProtocol
    BY <2>4, BlocksTyped, ZeroKept DEF BlockKinds, Synchronous, Calls, OnProtocol
  <2>6. WorkTypes' /\ Callers'
    BY <1>1, <2>3, <2>4, <2>5, WorkQueued
  <2>7. "callback" \in DelegatePlaces /\ "callback" \notin Answering
    BY DEF DelegatePlaces, Answering
  <2> QED BY <1>1, <2>1, <2>2, <2>3, <2>6, <2>7, DelegatePlace, ClientShape
<1> QED BY <1>2, <1>3

LEMMA CallbackCallsShape ==
  ASSUME Shape, CallbackCalls
  PROVE  Shape'
<1>1. /\ UNCHANGED <<delegateQueue, sessionVars, scenario, app, replies, pieces,
                     checked, completions, suspendCount, error, state, delivering, storage, protocols>>
      /\ calls' \in Nat /\ pc["delegate"] = "callback"
  BY DelegatePlace DEF CallbackCalls, taskVars
<1>2. PICK call \in scenario.calls[Operation.kind] : Enter("delegate", call, "calling")
  BY DEF CallbackCalls
<1>3. Operation.kind \in OpKinds
  BY <1>1, DelegatePlace, RunningOperation DEF OpType
<1>4. scenario \in Scenario
  BY ScenariosAssumption DEF Shape, TypeOK, OtherTypes
<1>5. call \in Calls
  BY <1>2, <1>3, <1>4 DEF Scenario
<1>6. call \in Expected["calling"] /\ "calling" \notin Answering
  BY <1>5 DEF Expected, Answering
<1> QED BY <1>1, <1>2, <1>5, <1>6, NotWaiting, DelegateEntered

LEMMA ChallengeShape ==
  ASSUME Shape, AnswerChallenge \/ ReplaceProtocol
  PROVE  Shape'
<1>1. /\ UNCHANGED <<delegateQueue, sessionVars, scenario, app, replies, pieces,
                     checked, completions, suspendCount, error, state, delivering>>
      /\ calls' \in Nat /\ pc["delegate"] \in {"callback", "replacing"}
  BY DelegatePlace DEF AnswerChallenge, ReplaceProtocol, taskVars
<1>2. ~Waiting("delegate") /\ pc["delegate"] # "idle"
  BY <1>1, NotWaiting
<1>3. /\ "cancel" \in Calls /\ "suspend" \in Calls /\ "resume" \in Calls
      /\ "cancel" \in Expected["refusing"] /\ "suspend" \in Expected["proposing"]
      /\ "resume" \in Expected["retrying"]
  BY DEF Calls, Expected
<1>4. CASE AnswerChallenge
  <2>1. /\ Operation.kind = "challenge" /\ UNCHANGED <<storage, protocols>>
        /\ Enter("delegate", "cancel", "refusing") \/ Enter("delegate", "suspend", "proposing")
    BY <1>4 DEF AnswerChallenge, taskVars
  <2> QED BY <1>1, <1>2, <1>3, <2>1, DelegateEntered
<1>5. CASE ReplaceProtocol
  <2>1. /\ protocols' = Append(protocols, NewProtocol)
        /\ storage' = Stored("existing", Len(protocols) + 1, <<>>)
        /\ Enter("delegate", "resume", "retrying") /\ pc["delegate"] = "replacing"
    BY <1>5 DEF ReplaceProtocol
  <2>2. Operation.kind = "challenge"
    BY <2>1, DelegatePlace DEF Answering
  <2> QED BY <1>1, <1>2, <1>3, <2>1, <2>2, DelegateEntered
<1> QED BY <1>4, <1>5

LEMMA EndShape ==
  ASSUME Shape, EndNotification \/ LeaveUnanswered \/
       EndInvalidation \/ AnswerRedirect \/ EndCompletion \/ EndChallenge
  PROVE  Shape'
<1>1. /\ pc["delegate"] # "idle" /\ ~Waiting("delegate")
      /\ pc' = [pc EXCEPT !["delegate"] = "idle"] /\ delegateQueue' = Tail(delegateQueue)
      /\ UNCHANGED <<suspendCount, error, storage, protocols, delivering, checked, registered, finishing, crash,
                     scenario, app, replies, completions, calls, pieces>>
  BY NotWaiting DEF EndNotification, LeaveUnanswered,
       EndInvalidation, AnswerRedirect, EndCompletion, EndChallenge,
        EndCallback, sessionVars, taskVars
<1>2. state \in States /\ delegate \in BOOLEAN /\ 0 \in ProtocolNumbers
  BY TaskParts, Counts DEF Shape, TypeOK, OtherTypes
<1>7. delegateQueue # <<>>
  BY <1>1, DelegatePlace
<1>3. CASE EndNotification \/ LeaveUnanswered \/ EndChallenge
  <2>1. UNCHANGED <<state, delegate, workQueue>>
    BY <1>3 DEF EndNotification, LeaveUnanswered, EndChallenge, sessionVars, taskVars
  <2> QED BY <1>1, <1>2, <1>7, <2>1, OperationOver
<1>4. CASE EndInvalidation
  <2>1. UNCHANGED <<state, workQueue>> /\ delegate' = FALSE
    BY <1>4 DEF EndInvalidation
  <2> QED BY <1>1, <1>2, <1>7, <2>1, OperationOver
<1>5. CASE EndCompletion
  <2>1. state' = "completed" /\ UNCHANGED delegate /\ workQueue' = Append(workQueue, Block("remove", 0))
    BY <1>5 DEF EndCompletion, NoProtocol
  <2>2. state' \in States
    BY <2>1 DEF States
  <2> QED BY <1>1, <1>2, <1>7, <2>1, <2>2, OperationOver
<1>6. CASE AnswerRedirect
  <2>1. /\ UNCHANGED <<state, delegate>> /\ Operation.kind = "redirect"
        /\ \E answer \in {"follow", "decline"} : workQueue' = Append(workQueue, Block(answer, Operation.p))
    BY <1>6 DEF AnswerRedirect, EndCallback
  <2>2. Operation.p \in ProtocolNumbers /\ Operation.p # 0
    BY <1>1, <2>1, DelegatePlace, RunningOperation DEF OpType
  <2> QED BY <1>1, <1>2, <1>7, <2>1, <2>2, OperationOver
<1> QED BY <1>3, <1>4, <1>5, <1>6

LEMMA ShapeNext ==
  ASSUME Shape, [Next]_vars
  PROVE  Shape'
<1>1. CASE RunWork
  BY <1>1, CheckStateShape, SuspendShape, ResumeShape, CancelShape, RegistryShape, CloseSessionShape,
     StartLoadingShape, StopLoadingShape, CancelLoadingShape, FulfilShape, FollowShape, DeclineShape
  DEF RunWork
<1>2. CASE \E p \in 1 .. Len(protocols) : ReceiveData(p)
  BY <1>2, ReceiveShape
<1>3. CASE TransferEnds
  BY <1>3, TransferCompletedShape, TimedOutShape DEF TransferEnds
<1>4. CASE CacheReplies \/ DeliverProtocol
  BY <1>4, CacheRepliesShape, DeliverShape
<1>5. CASE AppCalls \/ CancelTasks \/ LeaveInvalidation
  BY <1>5, AppShape
<1>6. CASE RunDelegate \/ CallbackCalls
  BY <1>6, BeginCallbackShape, EndShape, ChallengeShape, CallbackCallsShape DEF RunDelegate
<1>7. CASE UNCHANGED vars
  <2>1. UNCHANGED <<taskVars, queueVars, clientVars>>
    BY <1>7 DEF vars
  <2>2. ProtocolNumbers' = ProtocolNumbers
    BY <2>1 DEF ProtocolNumbers, taskVars
  <2>3. TaskTypes'
    BY <2>1, <2>2 DEF taskVars, Shape, TypeOK, TaskTypes
  <2>4. WorkTypes'
    BY <2>1, <2>2 DEF queueVars, Shape, TypeOK, WorkTypes, Running
  <2>5. DelegateTypes'
    BY <2>1, <2>2 DEF queueVars, clientVars, Shape, TypeOK, DelegateTypes
  <2>6. OtherTypes'
    BY <2>1 DEF queueVars, sessionVars, clientVars, Shape, TypeOK, OtherTypes
  <2>7. Callers'
    BY <2>1 DEF queueVars, clientVars, Shape, Callers, Waiting
  <2>8. Waits' /\ Unserved'
    BY <2>1 DEF taskVars, queueVars, clientVars, Shape, Waits, Unserved, Operation
  <2> QED BY <2>3, <2>4, <2>5, <2>6, <2>7, <2>8 DEF Shape, TypeOK
<1> QED BY <1>1, <1>2, <1>3, <1>4, <1>5, <1>6, <1>7 DEF Next

LEMMA InitShape ==
  ASSUME Init
  PROVE  Shape
<1>1. scenario \in Scenario
  BY ScenariosAssumption DEF Init
<1>2. protocols = <<>> /\ Len(protocols) = 0 /\ ProtocolNumbers = {0}
  BY DEF Init, ProtocolNumbers
<1>3. TaskTypes
  <2>1. <<>> \in Seq(Callbacks) /\ <<>> \in Seq(ProtocolType)
    OBVIOUS
  <2>2. StorageOK
    BY <1>2, <2>1 DEF Init, StorageOK, StorageType, Stored, NoProtocol
  <2> QED BY <1>2, <2>1, <2>2 DEF Init, TaskTypes, StorageOK, StorageType, ProtocolType
<1>4. pc["app"] = "idle" /\ pc["delegate"] = "idle" /\ pc \in [Clients -> Places]
  BY DEF Init, Clients, Places
<1>5. /\ workQueue = <<Block("add", NoProtocol)>> /\ Len(workQueue) = 1 /\ workQueue[1] = Block("add", NoProtocol)
      /\ Block("add", NoProtocol) \in BlockType
      /\ Block("add", NoProtocol).kind = "add" /\ Block("add", NoProtocol).by = "queue"
  BY <1>2 DEF Init, Block, NoProtocol, BlockType, BlockKinds
<1>6. WorkTypes
  <2>1. workQueue \in Seq(BlockType)
    BY <1>5
  <2>2. checked = FALSE
    BY DEF Init
  <2>3. \A i \in 1 .. Len(workQueue) : workQueue[i].kind = "add"
    BY <1>5
  <2> QED BY <2>1, <2>2, <2>3 DEF WorkTypes, BlockType
<1>7. DelegateTypes
  BY <1>4 DEF DelegateTypes, Init
<1>8. OtherTypes
  BY <1>1 DEF OtherTypes, Init, Scenario
<1>9. Callers
  BY <1>5 DEF Callers, Synchronous, Calls
<1>10. Waits /\ Unserved
  BY <1>2, <1>4 DEF Waits, Unserved, Init, AppPlaces, DelegatePlaces, Answering
<1> QED BY <1>3, <1>6, <1>7, <1>8, <1>9, <1>10 DEF Shape, TypeOK

(* The variables have their types, every block and callback that needs a    *)
(* protocol has one, a block passes its guard only while it runs, and a     *)
(* callback is that of an operation of the queue.                           *)
THEOREM URLSessionTaskTypes == Spec => []TypeOK
<1>1. Shape => TypeOK
  BY DEF Shape
<1>2. Shape /\ [Next]_vars => Shape'
  BY ShapeNext
<1> QED BY <1>1, <1>2, InitShape, PTL DEF Spec

-----------------------------------------------------------------------------
(* One transfer.  Only the newest protocol object does anything, and it     *)
(* waits while a redirect or a challenge of it is open: until the answer to *)
(* the redirect has run, or the challenge has given the task a new protocol *)
(* or was refused.  At most one of these is open.                           *)

Newest == Len(protocols)
Quiet(p) == protocols[p] = TaskCompleted
AtRest == {"taskCompleted", "waitingForRedirectCompletionHandler"}
Replayed == {"taskCompleted", "fulfillingFromCache"}
Answered == {"retrying", "done", "refusing"}
Opens == {"redirect", "challenge"}
Answers == {"follow", "decline"}

TimerOK(o) == o.at \in {"initial", "taskCompleted", "fulfillingFromCache"} => o.timer = FALSE

OpenOp(i) ==
  \/ delegateQueue[i].kind = "redirect"
  \/ delegateQueue[i].kind = "challenge" /\ (i = 1 => pc["delegate"] \notin Answered)
Answer(i) == workQueue[i].kind \in Answers

OpenIsNewest ==
  \A i \in 1 .. Len(delegateQueue) : OpenOp(i) =>
     /\ delegateQueue[i].p = Newest /\ Newest # 0
     /\ delegateQueue[i].kind = "challenge" => Quiet(Newest)
     /\ delegateQueue[i].kind = "redirect" => protocols[Newest].at \in AtRest
AnswerIsNewest ==
  \A i \in 1 .. Len(workQueue) : Answer(i) =>
     workQueue[i].p = Newest /\ Newest # 0 /\ protocols[Newest].at \in AtRest
OneOpen ==
  /\ \A i, j \in 1 .. Len(delegateQueue) : OpenOp(i) /\ OpenOp(j) => i = j
  /\ \A i, j \in 1 .. Len(workQueue) : Answer(i) /\ Answer(j) => i = j
  /\ \A i \in 1 .. Len(delegateQueue), j \in 1 .. Len(workQueue) : ~(OpenOp(i) /\ Answer(j))
FulfilsReplayed ==
  \A i \in 1 .. Len(workQueue) : workQueue[i].kind = "fulfil" =>
     workQueue[i].p \in 1 .. Newest /\ protocols[workQueue[i].p].at \in Replayed

Turn ==
  /\ \A p \in 1 .. Newest : p # Newest => Quiet(p)
  /\ \A p \in 1 .. Newest : TimerOK(protocols[p])
  /\ OpenIsNewest
  /\ AnswerIsNewest
  /\ OneOpen
  /\ crash = "none" => FulfilsReplayed

(* A change of a protocol object that starts nothing anew.                  *)
Calm(o, n) ==
  /\ o = TaskCompleted => n = TaskCompleted
  /\ o.at \in AtRest => n.at \in AtRest
  /\ o.at \in Replayed => n.at \in Replayed
  /\ TimerOK(o) => TimerOK(n)

LEMMA CalmChanges ==
  ASSUME NEW o \in ProtocolType
  PROVE  /\ Calm(o, o) /\ Calm(o, TaskCompleted) /\ Calm(o, Resumed(o)) /\ Calm(o, Stopped(o))
         /\ o.at = "initial" => Calm(o, [o EXCEPT !.at = "fulfillingFromCache"])
         /\ o.at \in Replayed => Calm(o, [o EXCEPT !.at = "taskCompleted"])
         /\ o.at = "transferInProgress" =>
              /\ Calm(o, StartNewTransfer)
              /\ Calm(o, [o EXCEPT !.at = "waitingForRedirectCompletionHandler"])
<1>1. o = [at |-> o.at, timer |-> o.timer] /\ o.timer \in BOOLEAN
  BY DEF ProtocolType
<1>2. Calm(o, o) /\ Calm(o, TaskCompleted)
  BY DEF Calm, TimerOK, TaskCompleted, AtRest, Replayed
<1>9. ASSUME NEW n, n.at \in {"transferInProgress", "transferReady"}, o.at \notin AtRest \cup Replayed
      PROVE  Calm(o, n)
  BY <1>9 DEF Calm, TimerOK, TaskCompleted, AtRest, Replayed
<1>3. Calm(o, Resumed(o))
  <2>1. CASE o.at = "initial"
    <3>1. Resumed(o).at = "transferInProgress"
      BY <2>1 DEF Resumed, StartNewTransfer
    <3> QED BY <1>9, <2>1, <3>1 DEF AtRest, Replayed
  <2>2. CASE o.at = "transferReady"
    <3>1. Resumed(o).at = "transferInProgress"
      BY <1>1, <2>2 DEF Resumed
    <3> QED BY <1>9, <2>2, <3>1 DEF AtRest, Replayed
  <2>3. CASE o.at # "initial" /\ o.at # "transferReady"
    BY <1>2, <2>3 DEF Resumed
  <2> QED BY <2>1, <2>2, <2>3
<1>4. Calm(o, Suspended(o))
  <2>1. CASE o.at = "transferInProgress"
    <3>1. Suspended(o).at = "transferReady"
      BY <1>1, <2>1 DEF Suspended
    <3> QED BY <1>9, <2>1, <3>1 DEF AtRest, Replayed
  <2>2. CASE o.at # "transferInProgress"
    BY <1>2, <2>2 DEF Suspended
  <2> QED BY <2>1, <2>2
<1>5. Calm(o, Stopped(o))
  BY <1>2, <1>4 DEF Stopped
<1>6. o.at = "initial" => Calm(o, [o EXCEPT !.at = "fulfillingFromCache"])
  BY <1>1 DEF Calm, TimerOK, TaskCompleted, AtRest, Replayed
<1>7. o.at \in Replayed => Calm(o, [o EXCEPT !.at = "taskCompleted"])
  <2> SUFFICES ASSUME o.at \in Replayed
               PROVE  Calm(o, [o EXCEPT !.at = "taskCompleted"])
    OBVIOUS
  <2>1. PICK n : n = [o EXCEPT !.at = "taskCompleted"]
    OBVIOUS
  <2>2. n = [at |-> "taskCompleted", timer |-> o.timer]
    BY <1>1, <2>1
  <2>3. o = TaskCompleted => n = TaskCompleted
    BY <2>2 DEF TaskCompleted
  <2>4. (n.at \in AtRest) /\ (n.at \in Replayed) /\ (TimerOK(o) => TimerOK(n))
    BY <2>2 DEF AtRest, Replayed, TimerOK
  <2> QED BY <2>1, <2>3, <2>4 DEF Calm
<1>8. o.at = "transferInProgress" =>
              /\ Calm(o, StartNewTransfer)
              /\ Calm(o, [o EXCEPT !.at = "waitingForRedirectCompletionHandler"])
  BY <1>1 DEF Calm, TimerOK, TaskCompleted, AtRest, Replayed, StartNewTransfer
<1> QED BY <1>2, <1>3, <1>5, <1>6, <1>7, <1>8

(* Every protocol object changes calmly, if at all.                         *)
AllCalm ==
  /\ Len(protocols') = Len(protocols)
  /\ \A p \in 1 .. Len(protocols) : Calm(protocols[p], protocols'[p])

LEMMA CalmTouch ==
  ASSUME Shape,
         \/ UNCHANGED protocols
         \/ \E p \in 1 .. Len(protocols), x \in ProtocolType :
              protocols' = [protocols EXCEPT ![p] = x] /\ Calm(protocols[p], x)
  PROVE  AllCalm
<1>1. \A p \in 1 .. Len(protocols) : Calm(protocols[p], protocols[p])
  BY Counts, ElementOfSeq, CalmChanges
<1>2. CASE UNCHANGED protocols
  BY <1>1, <1>2 DEF AllCalm
<1>3. CASE \E p \in 1 .. Len(protocols), x \in ProtocolType :
              protocols' = [protocols EXCEPT ![p] = x] /\ Calm(protocols[p], x)
  <2>1. PICK p \in 1 .. Len(protocols), x \in ProtocolType :
              protocols' = [protocols EXCEPT ![p] = x] /\ Calm(protocols[p], x)
    BY <1>3
  <2>2. /\ Len(protocols') = Len(protocols) /\ protocols'[p] = x
        /\ \A o \in 1 .. Len(protocols) : o # p => protocols'[o] = protocols[o]
    BY <2>1, ProtocolChanged
  <2> QED BY <1>1, <2>1, <2>2 DEF AllCalm
<1> QED BY <1>2, <1>3

(* The work queue of a step: what is open there was open before.            *)
WorkMoves ==
  \E base : /\ Passed(workQueue, base)
            /\ \/ workQueue' = base
               \/ \E b \in BlockType : /\ workQueue' = Append(base, b) /\ b.kind \notin Answers
                                       /\ b.kind = "fulfil" => b.p \in 1 .. Newest /\ protocols'[b.p].at \in Replayed

LEMMA WorkFrom ==
  ASSUME Shape, WorkMoves
  PROVE  \E d \in 0 .. 1 : \A i \in 1 .. Len(workQueue') :
           \/ i + d \in 1 .. Len(workQueue) /\ workQueue'[i] = workQueue[i + d]
           \/ /\ workQueue'[i].kind \notin Answers
              /\ workQueue'[i].kind = "fulfil" =>
                   workQueue'[i].p \in 1 .. Newest /\ protocols'[workQueue'[i].p].at \in Replayed
<1>1. PICK base, q : Passed(workQueue, base) /\ q = workQueue' /\ workQueue \in Seq(BlockType)
  BY DEF WorkMoves, Shape, TypeOK, WorkTypes, BlockType
<1>2. PICK base1 :
            /\ Passed(workQueue, base1)
            /\ \/ workQueue' = base1
               \/ \E b \in BlockType : /\ workQueue' = Append(base1, b) /\ b.kind \notin Answers
                                       /\ b.kind = "fulfil" => b.p \in 1 .. Newest /\ protocols'[b.p].at \in Replayed
  BY DEF WorkMoves
<1>3. CASE q = base1
  <2>1. \E d \in 0 .. 1 :
              /\ d <= Len(workQueue) /\ Len(workQueue) \in Nat /\ Len(q) = Len(workQueue) - d
              /\ \A i \in 1 .. Len(q) : i + d \in 1 .. Len(workQueue) /\ q[i] = workQueue[i + d]
    BY <1>1, <1>2, <1>3, PassedElements
  <2> QED BY <1>1, <2>1
<1>4. ASSUME NEW b \in BlockType, q = Append(base1, b), b.kind \notin Answers,
             b.kind = "fulfil" => b.p \in 1 .. Newest /\ protocols'[b.p].at \in Replayed
      PROVE  \E d \in 0 .. 1 : \A i \in 1 .. Len(q) :
           \/ i + d \in 1 .. Len(workQueue) /\ q[i] = workQueue[i + d]
           \/ /\ q[i].kind \notin Answers
              /\ q[i].kind = "fulfil" => q[i].p \in 1 .. Newest /\ protocols'[q[i].p].at \in Replayed
  <2>1. \E d \in 0 .. 1, n \in 0 .. 1 : Grows(workQueue, base1, b, q, d, n)
    BY <1>1, <1>2, <1>4, GrownElements
  <2>2. PICK d \in 0 .. 1, n \in 0 .. 1 : Grows(workQueue, base1, b, q, d, n)
    BY <2>1
  <2>3. \A i \in 1 .. Len(q) :
           \/ i + d \in 1 .. Len(workQueue) /\ q[i] = workQueue[i + d]
           \/ q[i] = b
    BY <2>2 DEF Grows
  <2> QED BY <1>4, <2>3
<1> QED BY <1>1, <1>2, <1>3, <1>4

(* The delegate queue of a step that opens nothing.                         *)
DelegateMoves ==
  \E base : /\ Passed(delegateQueue, base)
            /\ \E ops \in Seq(OpType) : /\ delegateQueue' = base \o ops
                                        /\ \A k \in 1 .. Len(ops) : ops[k].kind \notin Opens
            /\ base = delegateQueue => (pc["delegate"] \in Answered => pc'["delegate"] \in Answered)

LEMMA DelegateFrom ==
  ASSUME Shape, DelegateMoves
  PROVE  \E d \in 0 .. 1 : \A i \in 1 .. Len(delegateQueue') : OpenOp(i)' =>
           i + d \in 1 .. Len(delegateQueue) /\ OpenOp(i + d) /\ delegateQueue'[i] = delegateQueue[i + d]
<1>1. PICK base :
            /\ Passed(delegateQueue, base)
            /\ \E ops \in Seq(OpType) : /\ delegateQueue' = base \o ops
                                        /\ \A k \in 1 .. Len(ops) : ops[k].kind \notin Opens
            /\ base = delegateQueue => (pc["delegate"] \in Answered => pc'["delegate"] \in Answered)
  BY DEF DelegateMoves
<1>2. PICK ops \in Seq(OpType) : /\ delegateQueue' = base \o ops
                                 /\ \A k \in 1 .. Len(ops) : ops[k].kind \notin Opens
  BY <1>1
<1>3. PICK q : q = delegateQueue' /\ delegateQueue \in Seq(OpType)
  BY DEF Shape, TypeOK, DelegateTypes, OpType
<1>4. \E d \in 0 .. 1 : Follows(delegateQueue, base, ops, q, d)
  BY <1>1, <1>2, <1>3, FollowElements
<1>5. PICK d \in 0 .. 1 : Follows(delegateQueue, base, ops, q, d)
  BY <1>4
<1>6. \A i \in 1 .. Len(q) :
        \/ i + d \in 1 .. Len(delegateQueue) /\ q[i] = delegateQueue[i + d]
        \/ q[i].kind \notin Opens
  BY <1>2, <1>5 DEF Follows
<1>7. d = 0 => (pc["delegate"] \in Answered => pc'["delegate"] \in Answered)
  BY <1>1, <1>5 DEF Follows
<1>8. \A i \in 1 .. Len(q) : i + d = 1 => d = 0 /\ i = 1
  OBVIOUS
<1> QED BY <1>3, <1>6, <1>7, <1>8 DEF OpenOp, Opens

(* A step that starts nothing anew and opens nothing.                       *)
LEMMA TurnKept ==
  ASSUME Shape, Turn, AllCalm, WorkMoves, DelegateMoves, crash = "none"
  PROVE  Turn'
<1>1. /\ Newest' = Newest /\ Newest \in Nat
      /\ \A p \in 1 .. Newest : Calm(protocols[p], protocols'[p])
  BY Counts DEF AllCalm, Newest
<1>2. PICK d \in 0 .. 1 : \A i \in 1 .. Len(workQueue') :
           \/ i + d \in 1 .. Len(workQueue) /\ workQueue'[i] = workQueue[i + d]
           \/ /\ workQueue'[i].kind \notin Answers
              /\ workQueue'[i].kind = "fulfil" =>
                   workQueue'[i].p \in 1 .. Newest /\ protocols'[workQueue'[i].p].at \in Replayed
  BY WorkFrom
<1>3. PICK e \in 0 .. 1 : \A i \in 1 .. Len(delegateQueue') : OpenOp(i)' =>
           i + e \in 1 .. Len(delegateQueue) /\ OpenOp(i + e) /\ delegateQueue'[i] = delegateQueue[i + e]
  BY DelegateFrom
<1>4. \A i \in 1 .. Len(workQueue') : Answer(i)' =>
           i + d \in 1 .. Len(workQueue) /\ Answer(i + d) /\ workQueue'[i] = workQueue[i + d]
  BY <1>2 DEF Answer
<1>5. \A p \in 1 .. Newest' : p # Newest' => Quiet(p)'
  BY <1>1 DEF Turn, Quiet, Calm
<1>6. \A p \in 1 .. Newest' : TimerOK(protocols[p])'
  BY <1>1 DEF Turn, Calm, TimerOK
<1>7. OpenIsNewest'
  <2> SUFFICES ASSUME NEW i \in 1 .. Len(delegateQueue'), OpenOp(i)'
               PROVE  /\ delegateQueue'[i].p = Newest' /\ Newest' # 0
                      /\ delegateQueue'[i].kind = "challenge" => Quiet(Newest)'
                      /\ delegateQueue'[i].kind = "redirect" => protocols'[Newest'].at \in AtRest
    BY DEF OpenIsNewest
  <2>1. /\ delegateQueue'[i].p = Newest /\ Newest # 0
        /\ delegateQueue'[i].kind = "challenge" => Quiet(Newest)
        /\ delegateQueue'[i].kind = "redirect" => protocols[Newest].at \in AtRest
    BY <1>3 DEF Turn, OpenIsNewest
  <2>2. Newest \in 1 .. Newest
    BY <1>1, <2>1
  <2> QED BY <1>1, <2>1, <2>2 DEF Calm, Quiet
<1>8. AnswerIsNewest'
  <2> SUFFICES ASSUME NEW i \in 1 .. Len(workQueue'), Answer(i)'
               PROVE  workQueue'[i].p = Newest' /\ Newest' # 0 /\ protocols'[Newest'].at \in AtRest
    BY DEF AnswerIsNewest
  <2>1. workQueue'[i].p = Newest /\ Newest # 0 /\ protocols[Newest].at \in AtRest
    BY <1>4 DEF Turn, AnswerIsNewest
  <2>2. Newest \in 1 .. Newest
    BY <1>1, <2>1
  <2> QED BY <1>1, <2>1, <2>2 DEF Calm
<1>9. OneOpen'
  <2>1. ASSUME NEW i \in 1 .. Len(delegateQueue'), NEW j \in 1 .. Len(delegateQueue'), OpenOp(i)', OpenOp(j)'
        PROVE  i = j
    <3>1. i + e = j + e
      BY <1>3, <2>1 DEF Turn, OneOpen
    <3> QED BY <3>1
  <2>2. ASSUME NEW i \in 1 .. Len(workQueue'), NEW j \in 1 .. Len(workQueue'), Answer(i)', Answer(j)'
        PROVE  i = j
    <3>1. i + d = j + d
      BY <1>4, <2>2 DEF Turn, OneOpen
    <3> QED BY <3>1
  <2>3. ASSUME NEW i \in 1 .. Len(delegateQueue'), NEW j \in 1 .. Len(workQueue'), OpenOp(i)', Answer(j)'
        PROVE  FALSE
    BY <1>3, <1>4, <2>3 DEF Turn, OneOpen
  <2> QED BY <2>1, <2>2, <2>3 DEF OneOpen
<1>10. FulfilsReplayed'
  <2> SUFFICES ASSUME NEW i \in 1 .. Len(workQueue'), workQueue'[i].kind = "fulfil"
               PROVE  workQueue'[i].p \in 1 .. Newest /\ protocols'[workQueue'[i].p].at \in Replayed
    BY <1>1 DEF FulfilsReplayed
  <2>1. CASE i + d \in 1 .. Len(workQueue) /\ workQueue'[i] = workQueue[i + d]
    <3>1. workQueue'[i].p \in 1 .. Newest /\ protocols[workQueue'[i].p].at \in Replayed
      BY <2>1 DEF Turn, FulfilsReplayed
    <3> QED BY <1>1, <3>1 DEF Calm
  <2> QED BY <1>2, <2>1
<1> QED BY <1>5, <1>6, <1>7, <1>8, <1>9, <1>10 DEF Turn

LEMMA SameWork ==
  ASSUME Shape, Passed(workQueue, workQueue')
  PROVE  WorkMoves
BY DEF WorkMoves

LEMMA SameDelegate ==
  ASSUME Shape, UNCHANGED delegateQueue, pc["delegate"] \in Answered => pc'["delegate"] \in Answered
  PROVE  DelegateMoves
<1>1. delegateQueue' = delegateQueue \o <<>> /\ Passed(delegateQueue, delegateQueue)
  BY FewOps DEF Passed
<1>2. <<>> \in Seq(OpType) /\ \A k \in 1 .. Len(<<>>) : <<>>[k].kind \notin Opens
  OBVIOUS
<1> QED BY <1>1, <1>2 DEF DelegateMoves

LEMMA OpsAdded ==
  ASSUME Shape, NEW ops \in Seq(OpType), \A k \in 1 .. Len(ops) : ops[k].kind \notin Opens,
         delegateQueue' = delegateQueue \o ops, UNCHANGED pc
  PROVE  DelegateMoves
<1>1. Passed(delegateQueue, delegateQueue)
  BY DEF Passed
<1> QED BY <1>1 DEF DelegateMoves

LEMMA EndsMoves ==
  ASSUME Shape, NEW queue, Passed(workQueue, queue), Ends(queue), UNCHANGED pc
  PROVE  WorkMoves /\ DelegateMoves
<1>1. PICK ops \in Seq(OpType) :
        /\ \A k \in 1 .. Len(ops) : ops[k].kind \in {"notify", "complete"}
        /\ Conclude(ops, queue)
  BY DEF Ends
<1>2. delegateQueue' = delegateQueue \o ops \/ UNCHANGED delegateQueue
  BY <1>1 DEF Conclude
<1>3. DelegateMoves
  BY <1>1, <1>2, OpsAdded, SameDelegate DEF Opens
<1>4. workQueue' = queue \/ workQueue' = Append(queue, Block("remove", NoProtocol))
  BY <1>1 DEF Conclude
<1>5. Block("remove", NoProtocol) \in BlockType /\ Block("remove", NoProtocol).kind = "remove"
  BY Counts DEF Block, BlockType, BlockKinds, NoProtocol
<1>6. WorkMoves
  BY <1>4, <1>5 DEF WorkMoves, Answers
<1> QED BY <1>3, <1>6

(* The block that is queued asks for no answer and no replay.               *)
LEMMA WorkGoesOn ==
  ASSUME Shape, NEW base, Passed(workQueue, base), NEW b \in BlockType, b.kind \notin Answers \cup {"fulfil"},
         workQueue' = base \/ workQueue' = Append(base, b)
  PROVE  WorkMoves
BY DEF WorkMoves

LEMMA WorkElements ==
  ASSUME Shape, ProtocolNumbers \subseteq ProtocolNumbers',
         NEW base, Passed(workQueue, base), NEW b \in BlockType',
         workQueue' = base \/ workQueue' = Append(base, b)
  PROVE  \A i \in 1 .. Len(workQueue') :
           (\E j \in 1 .. Len(workQueue) : workQueue'[i] = workQueue[j]) \/ workQueue'[i] = b
<1>1. BlockType \subseteq BlockType'
  BY DEF BlockType
<1>2. PICK S, q : S = BlockType' /\ q = workQueue'
  OBVIOUS
<1>3. workQueue \in Seq(S) /\ b \in S
  BY <1>1, <1>2, SeqMonotonic DEF Shape, TypeOK, WorkTypes, BlockType
<1>4. \E d \in 0 .. 1, n \in 0 .. 1 : Grows(workQueue, base, b, q, d, n)
  BY <1>2, <1>3, GrownElements
<1>5. PICK d \in 0 .. 1, n \in 0 .. 1 : Grows(workQueue, base, b, q, d, n)
  BY <1>4
<1> QED BY <1>2, <1>5 DEF Grows

LEMMA NewTimerOK == TimerOK(NewProtocol)
BY DEF TimerOK, NewProtocol

(* The task gets a protocol object, while nothing is open.                  *)
LEMMA TurnMade ==
  ASSUME Shape, Turn, crash = "none", protocols' = Append(protocols, NewProtocol),
         \A p \in 1 .. Newest : Quiet(p),
         \A i \in 1 .. Len(workQueue) : ~Answer(i),
         \A i \in 1 .. Len(delegateQueue') : ~OpenOp(i)',
         NEW base, Passed(workQueue, base), NEW b \in BlockType', b.kind \notin Answers \cup {"fulfil"},
         workQueue' = base \/ workQueue' = Append(base, b)
  PROVE  Turn'
<1>1. /\ ProtocolNumbers \subseteq ProtocolNumbers'
      /\ Newest' = Newest + 1 /\ Newest \in Nat
      /\ protocols'[Newest + 1] = NewProtocol
      /\ \A o \in 1 .. Newest : protocols'[o] = protocols[o]
  BY ProtocolMade, Counts DEF Newest
<1>2. \A i \in 1 .. Len(workQueue') :
           (\E j \in 1 .. Len(workQueue) : workQueue'[i] = workQueue[j]) \/ workQueue'[i] = b
  BY <1>1, WorkElements
<1>3. \A p \in 1 .. Newest' : p = Newest' \/ p \in 1 .. Newest
  BY <1>1
<1>4. \A p \in 1 .. Newest' : p # Newest' => Quiet(p)'
  BY <1>1, <1>3 DEF Quiet
<1>5. \A p \in 1 .. Newest' : TimerOK(protocols[p])'
  <2> SUFFICES ASSUME NEW p \in 1 .. Newest'
               PROVE  TimerOK(protocols'[p])
    OBVIOUS
  <2>1. CASE p = Newest'
    <3>1. protocols'[p] = NewProtocol
      BY <1>1, <2>1
    <3> QED BY <3>1, NewTimerOK, Zenon
  <2>2. CASE p \in 1 .. Newest
    <3>1. protocols'[p] = protocols[p] /\ TimerOK(protocols[p])
      BY <1>1, <2>2 DEF Turn
    <3> QED BY <3>1
  <2> QED BY <1>3, <2>1, <2>2
<1>6. \A i \in 1 .. Len(workQueue') : ~Answer(i)'
  BY <1>2 DEF Answer
<1>7. FulfilsReplayed'
  <2> SUFFICES ASSUME NEW i \in 1 .. Len(workQueue'), workQueue'[i].kind = "fulfil"
               PROVE  workQueue'[i].p \in 1 .. Newest' /\ protocols'[workQueue'[i].p].at \in Replayed
    BY DEF FulfilsReplayed
  <2>1. PICK j \in 1 .. Len(workQueue) : workQueue'[i] = workQueue[j]
    BY <1>2
  <2>2. workQueue'[i].p \in 1 .. Newest /\ protocols[workQueue'[i].p].at \in Replayed
    BY <2>1 DEF Turn, FulfilsReplayed
  <2>3. PICK o : o = workQueue'[i].p
    OBVIOUS
  <2>4. o \in 1 .. Newest /\ protocols[o].at \in Replayed
    BY <2>2, <2>3
  <2>5. o \in 1 .. Newest'
    BY <1>1, <2>4
  <2>6. protocols'[o] = protocols[o]
    BY <1>1, <2>4
  <2>7. protocols'[o].at \in Replayed
    BY <2>4, <2>6, Zenon
  <2> QED BY <2>3, <2>5, <2>7, Zenon
<1> QED BY <1>4, <1>5, <1>6, <1>7 DEF Turn, OpenIsNewest, AnswerIsNewest, OneOpen

LEMMA NoneMade ==
  ASSUME Shape, Turn, protocols = <<>>
  PROVE  /\ Newest = 0 /\ \A p \in 1 .. Newest : Quiet(p)
         /\ \A i \in 1 .. Len(workQueue) : ~Answer(i)
         /\ \A i \in 1 .. Len(delegateQueue) : ~OpenOp(i)
BY DEF Newest, Turn, OpenIsNewest, AnswerIsNewest

(* A redirect or a challenge is opened.                                     *)
LEMMA TurnOpened ==
  ASSUME Shape, Turn, AllCalm, crash = "none", UNCHANGED <<workQueue, pc>>,
         NEW op \in OpType, op.kind \in Opens, op.p = Newest, Newest # 0,
         op.kind = "challenge" => Quiet(Newest)',
         op.kind = "redirect" => protocols'[Newest].at \in AtRest,
         \A i \in 1 .. Len(workQueue) : ~Answer(i),
         \A i \in 1 .. Len(delegateQueue) : ~OpenOp(i),
         delegateQueue' = Append(delegateQueue, op)
  PROVE  Turn'
<1>1. /\ Newest' = Newest /\ Newest \in Nat
      /\ \A p \in 1 .. Newest : Calm(protocols[p], protocols'[p])
  BY Counts DEF AllCalm, Newest
<1>2. PICK q : q = delegateQueue' /\ delegateQueue \in Seq(OpType)
  BY DEF Shape, TypeOK, DelegateTypes, OpType
<1>3. /\ Len(delegateQueue) \in Nat /\ Len(q) = Len(delegateQueue) + 1
      /\ \A i \in 1 .. Len(delegateQueue) : q[i] = delegateQueue[i]
      /\ q[Len(delegateQueue) + 1] = op
  BY <1>2, Added
<1>4. \A i \in 1 .. Len(q) : OpenOp(i)' => i = Len(delegateQueue) + 1 /\ q[i] = op
  <2> SUFFICES ASSUME NEW i \in 1 .. Len(q), OpenOp(i)', i # Len(delegateQueue) + 1
               PROVE  FALSE
    BY <1>3
  <2>1. i \in 1 .. Len(delegateQueue) /\ q[i] = delegateQueue[i]
    BY <1>3
  <2>2. OpenOp(i)
    BY <1>2, <2>1 DEF OpenOp
  <2> QED BY <2>1, <2>2
<1>5. \A p \in 1 .. Newest' : p # Newest' => Quiet(p)'
  BY <1>1 DEF Turn, Quiet, Calm
<1>6. \A p \in 1 .. Newest' : TimerOK(protocols[p])'
  BY <1>1 DEF Turn, Calm, TimerOK
<1>7. OpenIsNewest'
  BY <1>1, <1>2, <1>4 DEF OpenIsNewest
<1>8. \A i \in 1 .. Len(workQueue') : ~Answer(i)'
  BY DEF Answer
<1>9. OneOpen'
  BY <1>2, <1>4, <1>8 DEF OneOpen
<1>10. FulfilsReplayed'
  BY <1>1 DEF Turn, FulfilsReplayed, Calm
<1> QED BY <1>5, <1>6, <1>7, <1>8, <1>9, <1>10 DEF Turn, AnswerIsNewest

(* The redirect is answered.                                                *)
LEMMA TurnAnswered ==
  ASSUME Shape, Turn, crash = "none", AnswerRedirect
  PROVE  Turn'
<1>1. /\ pc["delegate"] = "callback" /\ Operation.kind = "redirect" /\ UNCHANGED protocols
      /\ delegateQueue' = Tail(delegateQueue) /\ pc'["delegate"] = "idle"
  BY DelegatePlace DEF AnswerRedirect, EndCallback, Clients
<1>2. PICK answer \in Answers : workQueue' = Append(workQueue, Block(answer, Operation.p))
  BY DEF AnswerRedirect, Answers
<1>3. /\ delegateQueue # <<>> /\ Operation = delegateQueue[1] /\ 1 \in 1 .. Len(delegateQueue)
      /\ delegateQueue \in Seq(OpType) /\ Operation \in OpType
  BY <1>1, DelegatePlace, RunningOperation
<1>4. OpenOp(1)
  BY <1>1, <1>3 DEF OpenOp
<1>5. Operation.p = Newest /\ Newest # 0 /\ protocols[Newest].at \in AtRest
  BY <1>1, <1>3, <1>4 DEF Turn, OpenIsNewest
<1>6. PICK q : q = delegateQueue'
  OBVIOUS
<1>7. /\ Len(delegateQueue) \in Nat \ {0}
      /\ \A i \in 1 .. Len(q) : i + 1 \in 1 .. Len(delegateQueue) /\ q[i] = delegateQueue[i + 1]
  BY <1>1, <1>3, <1>6, Dropped
<1>8. \A i \in 1 .. Len(q) : ~OpenOp(i)'
  <2> SUFFICES ASSUME NEW i \in 1 .. Len(q), OpenOp(i)'
               PROVE  FALSE
    OBVIOUS
  <2>1. i + 1 \in 1 .. Len(delegateQueue) /\ i + 1 # 1 /\ OpenOp(i + 1)
    BY <1>6, <1>7 DEF OpenOp
  <2> QED BY <1>3, <1>4, <2>1 DEF Turn, OneOpen
<1>9. \A i \in 1 .. Len(workQueue) : ~Answer(i)
  BY <1>3, <1>4 DEF Turn, OneOpen
<1>10. PICK w, b : w = workQueue' /\ b = Block(answer, Operation.p) /\ workQueue \in Seq(BlockType)
  BY DEF Shape, TypeOK, WorkTypes, BlockType
<1>11. b \in BlockType /\ b.kind = answer /\ b.p = Newest
  BY <1>3, <1>5, <1>10 DEF Block, BlockType, OpType, BlockKinds, Answers
<1>12. /\ Len(workQueue) \in Nat /\ Len(w) = Len(workQueue) + 1
       /\ \A i \in 1 .. Len(workQueue) : w[i] = workQueue[i]
       /\ w[Len(workQueue) + 1] = b
  BY <1>2, <1>10, <1>11, Added
<1>13. \A i \in 1 .. Len(w) :
         \/ i \in 1 .. Len(workQueue) /\ w[i] = workQueue[i]
         \/ i = Len(workQueue) + 1 /\ w[i] = b
  BY <1>12
<1>14. \A i \in 1 .. Len(w) : Answer(i)' => i = Len(workQueue) + 1 /\ w[i] = b
  BY <1>9, <1>10, <1>13 DEF Answer
<1>15. AnswerIsNewest' /\ Newest' = Newest
  BY <1>1, <1>5, <1>10, <1>11, <1>14 DEF AnswerIsNewest, Newest
<1>16. OneOpen'
  BY <1>6, <1>8, <1>10, <1>14 DEF OneOpen
<1>17. FulfilsReplayed'
  BY <1>1, <1>10, <1>11, <1>13, <1>15 DEF Turn, FulfilsReplayed, Answers
<1>18. OpenIsNewest'
  BY <1>6, <1>8 DEF OpenIsNewest
<1>19. /\ \A p \in 1 .. Newest' : p # Newest' => Quiet(p)'
       /\ \A p \in 1 .. Newest' : TimerOK(protocols[p])'
  BY <1>1, <1>15 DEF Turn, Quiet, TimerOK
<1> QED BY <1>15, <1>16, <1>17, <1>18, <1>19 DEF Turn

(* The redirect is followed: the newest protocol object loads again.        *)
LEMMA TurnFollowed ==
  ASSUME Shape, Turn, crash = "none", FollowRedirect
  PROVE  Turn'
<1>1. PICK p : p = Head(workQueue).p
  OBVIOUS
<1>2. Running("follow") /\ "follow" \in OnProtocol
  BY DEF FollowRedirect, OnProtocol
<1>3. /\ workQueue # <<>> /\ Head(workQueue) = workQueue[1] /\ 1 \in 1 .. Len(workQueue)
      /\ workQueue \in Seq(BlockType) /\ Head(workQueue).kind = "follow"
  BY <1>2, RunningBlock
<1>4. Answer(1)
  BY <1>3 DEF Answer, Answers
<1>5. p = Newest /\ Newest # 0 /\ Newest \in Nat /\ p \in 1 .. Len(protocols)
  BY <1>1, <1>3, <1>4, Counts DEF Turn, AnswerIsNewest, Newest
<1>6. /\ workQueue' = Tail(workQueue) /\ UNCHANGED <<delegateQueue, pc>>
      /\ protocols' = [protocols EXCEPT ![p] = StartNewTransfer]
      /\ crash' = "none" => protocols[p].at = "waitingForRedirectCompletionHandler"
  BY <1>1 DEF FollowRedirect, clientVars, Rest
<1>7. /\ Newest' = Newest /\ protocols'[p] = StartNewTransfer
      /\ \A o \in 1 .. Newest : o # p => protocols'[o] = protocols[o]
  <2>1. StartNewTransfer \in ProtocolType
    BY <1>5, Counts, ElementOfSeq, ProtocolKinds
  <2> QED BY <1>5, <1>6, <2>1, ProtocolChanged DEF Newest
<1>8. PICK w : w = workQueue'
  OBVIOUS
<1>9. \A i \in 1 .. Len(w) : i + 1 \in 1 .. Len(workQueue) /\ w[i] = workQueue[i + 1] /\ i + 1 # 1
  BY <1>3, <1>6, <1>8, Dropped
<1>10. \A i \in 1 .. Len(w) : ~Answer(i)'
  <2> SUFFICES ASSUME NEW i \in 1 .. Len(w), Answer(i)'
               PROVE  FALSE
    OBVIOUS
  <2>1. Answer(i + 1)
    BY <1>8, <1>9 DEF Answer
  <2> QED BY <1>3, <1>4, <1>9, <2>1 DEF Turn, OneOpen
<1>11. \A i \in 1 .. Len(delegateQueue') : ~OpenOp(i)'
  BY <1>3, <1>4, <1>6 DEF Turn, OneOpen, OpenOp
<1>12. crash' = "none" => FulfilsReplayed'
  <2> SUFFICES ASSUME crash' = "none", NEW i \in 1 .. Len(w), w[i].kind = "fulfil"
               PROVE  w[i].p \in 1 .. Newest /\ protocols'[w[i].p].at \in Replayed
    BY <1>7, <1>8 DEF FulfilsReplayed
  <2>1. w[i].p \in 1 .. Newest /\ protocols[w[i].p].at \in Replayed
    BY <1>9 DEF Turn, FulfilsReplayed
  <2>2. w[i].p # p
    BY <1>6, <2>1 DEF Replayed
  <2> QED BY <1>7, <2>1, <2>2
<1>13. \A o \in 1 .. Newest' : o # Newest' => Quiet(o)'
  BY <1>5, <1>7 DEF Turn, Quiet
<1>14. \A o \in 1 .. Newest' : TimerOK(protocols[o])'
  BY <1>5, <1>7 DEF Turn, TimerOK, StartNewTransfer
<1> QED BY <1>8, <1>10, <1>11, <1>12, <1>13, <1>14 DEF Turn, OpenIsNewest, AnswerIsNewest, OneOpen

LEMMA ReturnAnswered ==
  ASSUME Shape, NEW kind \in Synchronous, Running(kind), Return
  PROVE  pc["delegate"] \in Answered => pc'["delegate"] \in Answered
<1>1. /\ pc \in [Clients -> Places] /\ Head(workQueue) = workQueue[1] /\ 1 \in 1 .. Len(workQueue)
      /\ Head(workQueue) \in BlockType /\ Head(workQueue).kind = kind
  BY RunningBlock, DelegatePlace
<1>2. PICK c : c = Head(workQueue).by
  OBVIOUS
<1>3. c \in Clients /\ Waiting(c)
  BY <1>1, <1>2 DEF Shape, Callers, BlockType
<1>4. pc' = [pc EXCEPT ![c] = AfterCall[pc[c]]]
  BY <1>2 DEF Return
<1> QED BY <1>1, <1>3, <1>4 DEF Waiting, AfterCall, Answered, Clients

LEMMA GotTurn ==
  ASSUME Shape, Turn, crash = "none", NEW callback \in Callbacks, GetProtocol(callback, Rest),
         Passed(workQueue, Rest), DelegateMoves, UNCHANGED delegateQueue, UNCHANGED crash
  PROVE  Turn'
<1>1. callback \in BlockKinds /\ callback \notin Answers \cup {"fulfil"}
  BY DEF Callbacks, BlockKinds, Answers
<1>2. CASE UNCHANGED protocols
  <2>1. AllCalm
    BY <1>2, CalmTouch
  <2>2. storage.p \in ProtocolNumbers /\ 0 \in ProtocolNumbers
    BY Counts
  <2>3. workQueue' = Rest \/ workQueue' = Append(Rest, Block(callback, storage.p))
    <3>1. storage.kind = "toBeCreated" /\ scenario.cache = "none" => protocols' = Append(protocols, NewProtocol)
      BY DEF GetProtocol
    <3>2. ~(storage.kind = "toBeCreated" /\ scenario.cache = "none")
      BY <1>2, <3>1, ProtocolMade, Counts
    <3> QED BY <3>2 DEF GetProtocol
  <2>4. Block(callback, storage.p) \in BlockType /\ Block(callback, storage.p).kind = callback
    BY <1>1, <2>2 DEF Block, BlockType
  <2>5. WorkMoves
    BY <1>1, <2>3, <2>4, WorkGoesOn
  <2> QED BY <2>1, <2>5, TurnKept
<1>3. CASE protocols' # protocols
  <2>1. storage.kind = "toBeCreated" /\ scenario.cache = "none"
    BY <1>3 DEF GetProtocol
  <2>2. /\ protocols' = Append(protocols, NewProtocol)
        /\ workQueue' = Append(Rest, Block(callback, Len(protocols) + 1))
    BY <2>1 DEF GetProtocol
  <2>3. protocols = <<>>
    BY <2>1 DEF Shape, Unserved
  <2>4. Len(protocols) + 1 \in ProtocolNumbers'
    BY <2>2, ProtocolMade
  <2>5. /\ Block(callback, Len(protocols) + 1) \in BlockType'
        /\ Block(callback, Len(protocols) + 1).kind = callback
    BY <1>1, <2>4 DEF Block, BlockType
  <2>6. /\ \A p \in 1 .. Newest : Quiet(p)
        /\ \A i \in 1 .. Len(workQueue) : ~Answer(i)
        /\ \A i \in 1 .. Len(delegateQueue) : ~OpenOp(i)
    BY <2>3, NoneMade
  <2>7. \A i \in 1 .. Len(delegateQueue') : ~OpenOp(i)'
    <3>1. \A i \in 1 .. Len(delegateQueue') :
            ~(delegateQueue[i].kind = "redirect")
      BY <2>6 DEF OpenOp
    <3>2. PICK d \in 0 .. 1 : \A i \in 1 .. Len(delegateQueue') : OpenOp(i)' =>
           i + d \in 1 .. Len(delegateQueue) /\ OpenOp(i + d) /\ delegateQueue'[i] = delegateQueue[i + d]
      BY DelegateFrom
    <3> QED BY <2>6, <3>2
  <2> QED BY <1>1, <2>2, <2>5, <2>6, <2>7, TurnMade
<1> QED BY <1>2, <1>3

(* The synchronous blocks.                                                  *)
LEMMA CallTurn ==
  ASSUME Shape, Turn, crash = "none", CheckState \/ Suspend \/ Resume \/ Cancel \/ CloseSession
  PROVE  Turn'
<1>1. PICK kind \in Synchronous : Running(kind)
  <2>1. \E kind \in {"suspend", "resume", "cancel", "close"} : Running(kind)
    BY DEF CheckState, Suspend, Resume, Cancel, CloseSession
  <2> QED BY <2>1 DEF Synchronous, Calls
<1>2. UNCHANGED <<delegateQueue, crash>>
  BY DEF CheckState, Suspend, Resume, Cancel, CloseSession, taskVars
<1>3. Return \/ UNCHANGED pc
  BY DEF CheckState, Suspend, Resume, Cancel, CloseSession, clientVars
<1>4. DelegateMoves
  BY <1>1, <1>2, <1>3, ReturnAnswered, SameDelegate
<1>5. Passed(workQueue, Rest) /\ Passed(workQueue, workQueue)
  BY <1>1, RunningBlock DEF Passed
<1>6. \/ \E callback \in Callbacks : GetProtocol(callback, Rest)
      \/ UNCHANGED protocols /\ (workQueue' = Rest \/ UNCHANGED workQueue)
  <2>1. CASE Suspend
    BY <2>1 DEF Suspend, Callbacks
  <2>2. CASE Resume
    BY <2>2 DEF Resume, Callbacks
  <2>3. CASE Cancel
    BY <2>3 DEF Cancel, Callbacks
  <2>4. CASE CheckState \/ CloseSession
    BY <2>4 DEF CheckState, CloseSession, taskVars
  <2> QED BY <2>1, <2>2, <2>3, <2>4
<1>7. CASE \E callback \in Callbacks : GetProtocol(callback, Rest)
  BY <1>2, <1>4, <1>5, <1>7, GotTurn
<1>8. CASE UNCHANGED protocols /\ (workQueue' = Rest \/ UNCHANGED workQueue)
  BY <1>4, <1>5, <1>8, SameWork, CalmTouch, TurnKept
<1> QED BY <1>6, <1>7, <1>8

LEMMA SessionTurn ==
  ASSUME Shape, Turn, crash = "none", AddTask \/ RemoveTask \/ FinishTasks \/ InvalidateSession
  PROVE  Turn'
<1>1. \E kind \in BlockKinds : Running(kind)
  BY DEF AddTask, RemoveTask, FinishTasks, InvalidateSession, BlockKinds
<1>2. Passed(workQueue, Rest) /\ workQueue' = Rest
  BY <1>1, RunningBlock DEF AddTask, RemoveTask, FinishTasks, InvalidateSession
<1>3. UNCHANGED <<protocols, pc>>
  BY DEF AddTask, RemoveTask, FinishTasks, InvalidateSession, taskVars, clientVars
<1>4. delegateQueue' = delegateQueue \/ delegateQueue' = delegateQueue \o Invalidation
  BY DEF AddTask, RemoveTask, FinishTasks, InvalidateSession
<1>5. Op("invalid", NoProtocol) \in OpType /\ Op("invalid", NoProtocol).kind = "invalid"
  BY Counts DEF Op, OpType, OpKinds, NoProtocol
<1>6. Invalidation \in Seq(OpType) /\ \A k \in 1 .. Len(Invalidation) : Invalidation[k].kind \notin Opens
  <2>1. CASE Invalidation = <<>>
    BY <2>1
  <2>2. CASE Invalidation = <<Op("invalid", NoProtocol)>>
    BY <1>5, <2>2 DEF Opens
  <2> QED BY <2>1, <2>2 DEF Invalidation
<1>7. DelegateMoves
  BY <1>3, <1>4, <1>6, OpsAdded, SameDelegate
<1> QED BY <1>2, <1>3, <1>7, SameWork, CalmTouch, TurnKept

(* The blocks of the protocol, but that of a followed redirect.             *)
LEMMA LoadTurn ==
  ASSUME Shape, Turn, crash = "none",
         StartLoading \/ StopLoading \/ CancelLoading \/ FulfilFromCache \/ DeclineRedirect
  PROVE  Turn'
<1>1. PICK p : p = Head(workQueue).p
  OBVIOUS
<1>2. UNCHANGED pc
  BY DEF StartLoading, StopLoading, CancelLoading, FulfilFromCache, DeclineRedirect, clientVars
<1>3. PICK kind \in {"start", "stop", "cancelled", "fulfil", "decline"} : Running(kind)
  BY DEF StartLoading, StopLoading, CancelLoading, FulfilFromCache, DeclineRedirect
<1>4. /\ p \in 0 .. Len(protocols) /\ Passed(workQueue, Rest) /\ Passed(workQueue, workQueue)
      /\ Head(workQueue) = workQueue[1] /\ 1 \in 1 .. Len(workQueue) /\ Head(workQueue).kind = kind
  BY <1>1, <1>3, RunningBlock, Counts DEF Passed
<1>5. p # 0 => p \in 1 .. Len(protocols) /\ protocols[p] \in ProtocolType /\ p \in ProtocolNumbers
  BY <1>4, Counts, ElementOfSeq
<1>6. 0 \in ProtocolNumbers
  BY Counts
<1>7. CASE StopLoading
  <2>1. workQueue' = Rest /\ UNCHANGED delegateQueue
    BY <1>7 DEF StopLoading
  <2>2. UNCHANGED protocols \/ (p # 0 /\ protocols' = [protocols EXCEPT ![p] = Stopped(protocols[p])])
    BY <1>1, <1>7 DEF StopLoading, NoProtocol
  <2>3. AllCalm
    BY <1>5, <2>2, ProtocolKinds, CalmChanges, CalmTouch
  <2> QED BY <1>2, <1>4, <2>1, <2>3, SameWork, SameDelegate, TurnKept
<1>8. CASE CancelLoading
  <2>1. CASE p = 0
    <3>1. workQueue' = Rest /\ UNCHANGED <<delegateQueue, protocols>>
      BY <1>1, <1>8, <2>1 DEF CancelLoading, NoProtocol
    <3> QED BY <1>2, <1>4, <3>1, SameWork, SameDelegate, CalmTouch, TurnKept
  <2>2. CASE p # 0
    <3>1. protocols' = [protocols EXCEPT ![p] = Stopped(protocols[p])] /\ Conclude(<<Op("complete", p)>>, Rest)
      BY <1>1, <1>8, <2>2 DEF CancelLoading, NoProtocol
    <3>2. AllCalm
      BY <1>5, <2>2, <3>1, ProtocolKinds, CalmChanges, CalmTouch
    <3>3. WorkMoves /\ DelegateMoves
      BY <1>2, <1>4, <1>5, <2>2, <3>1, CompletionOps, EndsMoves
    <3> QED BY <3>2, <3>3, TurnKept
  <2> QED BY <2>1, <2>2
<1>9. CASE StartLoading
  <2>1. CASE p = 0
    <3>1. /\ UNCHANGED protocols
          /\ \/ workQueue' = Rest /\ UNCHANGED delegateQueue
             \/ Conclude(<<Op("complete", p)>>, Rest)
      BY <1>1, <1>9, <2>1 DEF StartLoading, NoProtocol
    <3>2. CASE workQueue' = Rest /\ UNCHANGED delegateQueue
      BY <1>2, <1>4, <3>1, <3>2, SameWork, SameDelegate, CalmTouch, TurnKept
    <3>3. CASE Conclude(<<Op("complete", p)>>, Rest)
      <4>1. WorkMoves /\ DelegateMoves
        BY <1>2, <1>4, <1>6, <2>1, <3>3, CompletionOps, EndsMoves
      <4> QED BY <3>1, <4>1, CalmTouch, TurnKept
    <3> QED BY <3>1, <3>2, <3>3
  <2>2. CASE p # 0 /\ protocols[p].at = "initial" /\ HasCachedResponse(p)
    <3>1. /\ protocols' = [protocols EXCEPT ![p] = [protocols[p] EXCEPT !.at = "fulfillingFromCache"]]
          /\ workQueue' = Append(Rest, Block("fulfil", p)) /\ UNCHANGED delegateQueue
      BY <1>1, <1>9, <2>2 DEF StartLoading, NoProtocol
    <3>2. [protocols[p] EXCEPT !.at = "fulfillingFromCache"] \in ProtocolType
      BY <1>5, <2>2, ProtocolKinds DEF ProtocolStates
    <3>3. AllCalm
      BY <1>5, <2>2, <3>1, <3>2, CalmChanges, CalmTouch
    <3>4. protocols'[p] = [protocols[p] EXCEPT !.at = "fulfillingFromCache"]
      BY <1>5, <2>2, <3>1, <3>2, ProtocolChanged
    <3>5. protocols'[p].at \in Replayed
      BY <1>5, <2>2, <3>4 DEF ProtocolType, Replayed
    <3>6. Block("fulfil", p) \in BlockType /\ Block("fulfil", p).kind = "fulfil" /\ Block("fulfil", p).p = p
      BY <1>5, <2>2 DEF Block, BlockType, BlockKinds
    <3>7. WorkMoves
      BY <1>4, <1>5, <2>2, <3>1, <3>5, <3>6 DEF WorkMoves, Answers, Newest
    <3> QED BY <1>2, <3>1, <3>3, <3>7, SameDelegate, TurnKept
  <2>3. CASE p # 0 /\ ~(protocols[p].at = "initial" /\ HasCachedResponse(p))
    <3>1. /\ protocols' = [protocols EXCEPT ![p] = Resumed(protocols[p])]
          /\ workQueue' = Rest /\ UNCHANGED delegateQueue
      BY <1>1, <1>9, <2>3 DEF StartLoading, NoProtocol
    <3>2. AllCalm
      BY <1>5, <2>3, <3>1, ProtocolKinds, CalmChanges, CalmTouch
    <3> QED BY <1>2, <1>4, <3>1, <3>2, SameWork, SameDelegate, TurnKept
  <2> QED BY <2>1, <2>2, <2>3
<1>10. CASE FulfilFromCache
  <2>1. kind = "fulfil"
    BY <1>3, <1>10 DEF FulfilFromCache, Running
  <2>2. p \in 1 .. Len(protocols) /\ protocols[p].at \in Replayed
    BY <1>1, <1>4, <2>1 DEF Turn, FulfilsReplayed, Newest
  <2>3. /\ protocols' = [protocols EXCEPT ![p] = [protocols[p] EXCEPT !.at = "taskCompleted"]]
        /\ Conclude(<<Op("notify", p), Op("complete", p)>>, Rest)
    BY <1>1, <1>10 DEF FulfilFromCache
  <2>4. protocols[p] \in ProtocolType /\ p \in ProtocolNumbers
    BY <2>2, Counts, ElementOfSeq
  <2>5. [protocols[p] EXCEPT !.at = "taskCompleted"] \in ProtocolType
    BY <2>4, ProtocolKinds DEF ProtocolStates
  <2>6. AllCalm
    BY <2>2, <2>3, <2>4, <2>5, CalmChanges, CalmTouch
  <2>7. WorkMoves /\ DelegateMoves
    BY <1>2, <1>4, <2>3, <2>4, CompletionOps, EndsMoves
  <2> QED BY <2>6, <2>7, TurnKept
<1>11. CASE DeclineRedirect
  <2>1. kind = "decline"
    BY <1>3, <1>11 DEF DeclineRedirect, Running
  <2>2. p # 0
    BY <1>1, <1>3, <2>1, RunningBlock DEF OnProtocol
  <2>3. CASE /\ protocols' = [protocols EXCEPT ![p] = TaskCompleted]
             /\ Conclude(<<Op("notify", p), Op("complete", p)>>, Rest)
    <3>1. AllCalm
      BY <1>5, <2>2, <2>3, ProtocolKinds, CalmChanges, CalmTouch
    <3>2. WorkMoves /\ DelegateMoves
      BY <1>2, <1>4, <1>5, <2>2, <2>3, CompletionOps, EndsMoves
    <3> QED BY <3>1, <3>2, TurnKept
  <2>4. CASE UNCHANGED <<protocols, workQueue, delegateQueue>>
    BY <1>2, <1>4, <2>4, SameWork, SameDelegate, CalmTouch, TurnKept
  <2> QED BY <1>1, <1>11, <2>3, <2>4 DEF DeclineRedirect
<1> QED BY <1>7, <1>8, <1>9, <1>10, <1>11

(* A client enters a synchronous block.                                     *)
LEMMA EnterMoves ==
  ASSUME Shape, NEW client \in Clients, NEW call \in Synchronous, NEW place \in Places,
         Enter(client, call, place)
  PROVE  /\ WorkMoves /\ pc'[client] = place
         /\ \A c \in Clients : c # client => pc'[c] = pc[c]
<1>1. SyncBlock(call, client) \in BlockType /\ SyncBlock(call, client).kind \notin Answers \cup {"fulfil"}
  BY Counts DEF SyncBlock, BlockType, BlockKinds, Synchronous, Calls, NoProtocol, Answers
<1>2. workQueue' = Append(workQueue, SyncBlock(call, client)) /\ Passed(workQueue, workQueue)
  BY DEF Enter, Passed
<1>3. WorkMoves
  BY <1>1, <1>2, WorkGoesOn
<1> QED BY <1>3, DelegatePlace DEF Enter

LEMMA ReceiveTurn ==
  ASSUME Shape, Turn, crash = "none", NEW p \in 1 .. Len(protocols), ReceiveData(p)
  PROVE  Turn'
<1>1. /\ UNCHANGED <<protocols, pc, workQueue>>
      /\ delegateQueue' = Append(delegateQueue, Op("notify", p))
  BY DEF ReceiveData, Tell
<1>2. Op("notify", p) \in OpType /\ Op("notify", p).kind \notin Opens
  BY Counts DEF Op, OpType, OpKinds, Opens
<1>3. delegateQueue' = delegateQueue \o <<Op("notify", p)>>
  BY <1>1, <1>2, FewOps
<1>4. <<Op("notify", p)>> \in Seq(OpType)
      /\ \A k \in 1 .. Len(<<Op("notify", p)>>) : <<Op("notify", p)>>[k].kind \notin Opens
  BY <1>2
<1>5. DelegateMoves
  BY <1>1, <1>3, <1>4, OpsAdded
<1>6. WorkMoves
  BY <1>1, SameWork DEF Passed
<1> QED BY <1>1, <1>5, <1>6, CalmTouch, TurnKept

(* A transfer that is in progress is that of the newest protocol, of which  *)
(* nothing is open.                                                         *)
LEMMA LoadingIsNewest ==
  ASSUME Shape, Turn, NEW p \in 1 .. Len(protocols), Loading(p)
  PROVE  /\ p = Newest /\ Newest # 0
         /\ \A i \in 1 .. Len(workQueue) : ~Answer(i)
         /\ \A i \in 1 .. Len(delegateQueue) : ~OpenOp(i)
<1>1. protocols[p].at = "transferInProgress" /\ p # 0 /\ Len(protocols) \in Nat
  BY Counts DEF Loading
<1>2. p = Newest
  BY <1>1 DEF Turn, Quiet, TaskCompleted, Newest
<1>3. \A i \in 1 .. Len(workQueue) : ~Answer(i)
  BY <1>1, <1>2 DEF Turn, AnswerIsNewest, AtRest
<1>4. \A i \in 1 .. Len(delegateQueue) : ~OpenOp(i)
  <2> SUFFICES ASSUME NEW i \in 1 .. Len(delegateQueue), OpenOp(i)
               PROVE  FALSE
    OBVIOUS
  <2>1. delegateQueue[i].kind \in {"redirect", "challenge"}
    BY DEF OpenOp
  <2> QED BY <1>1, <1>2, <2>1 DEF Turn, OpenIsNewest, AtRest, Quiet, TaskCompleted
<1> QED BY <1>1, <1>2, <1>3, <1>4

LEMMA TransferTurn ==
  ASSUME Shape, Turn, crash = "none", NEW p \in 1 .. Len(protocols), TransferCompleted(p)
  PROVE  Turn'
<1>1. /\ Loading(p) /\ UNCHANGED pc /\ Head(replies) \in Replies
  BY Dropped DEF TransferCompleted, Shape, TypeOK, OtherTypes
<1>2. /\ p = Newest /\ Newest # 0
      /\ \A i \in 1 .. Len(workQueue) : ~Answer(i)
      /\ \A i \in 1 .. Len(delegateQueue) : ~OpenOp(i)
  BY <1>1, LoadingIsNewest
<1>3. \A k \in {"redirect", "challenge"} :
         Op(k, p) \in OpType /\ Op(k, p).p = p /\ Op(k, p).kind = k /\ k \in Opens
  BY Counts DEF Op, OpType, OpKinds, Opens
<1>4. /\ protocols[p] \in ProtocolType /\ p \in ProtocolNumbers /\ protocols[p].at = "transferInProgress"
      /\ TaskCompleted \in ProtocolType /\ StartNewTransfer \in ProtocolType
  BY <1>1, Counts, ElementOfSeq, ProtocolKinds DEF Loading
<1>5. CASE Head(replies) \in {"ok", "fail"}
  <2>1. protocols' = [protocols EXCEPT ![p] = TaskCompleted] /\ Conclude(<<Op("complete", p)>>, workQueue)
    BY <1>5 DEF TransferCompleted
  <2>2. AllCalm
    BY <1>4, <2>1, CalmChanges, CalmTouch
  <2>3. WorkMoves /\ DelegateMoves
    BY <1>1, <1>4, <2>1, CompletionOps, EndsMoves DEF Passed
  <2> QED BY <2>2, <2>3, TurnKept
<1>6. CASE Head(replies) = "unauthorized"
  <2>1. /\ protocols' = [protocols EXCEPT ![p] = TaskCompleted]
        /\ IF delegate
           THEN Tell(Op("challenge", p), workQueue)
           ELSE UNCHANGED <<state, storage, workQueue, delegateQueue, crash>>
    BY <1>6 DEF TransferCompleted
  <2>2. AllCalm /\ protocols'[p] = TaskCompleted
    BY <1>4, <2>1, CalmChanges, CalmTouch, ProtocolChanged
  <2>3. CASE delegate
    <3>1. delegateQueue' = Append(delegateQueue, Op("challenge", p)) /\ UNCHANGED <<workQueue, pc>>
      BY <1>1, <2>1, <2>3 DEF Tell
    <3>2. Quiet(Newest)'
      BY <1>2, <2>2 DEF Quiet, AllCalm, Newest
    <3> QED BY <1>2, <1>3, <2>2, <3>1, <3>2, TurnOpened
  <2>4. CASE ~delegate
    <3>1. UNCHANGED <<workQueue, delegateQueue, pc>>
      BY <1>1, <2>1, <2>4
    <3> QED BY <2>2, <3>1, SameWork, SameDelegate, TurnKept DEF Passed
  <2> QED BY <2>3, <2>4
<1>7. CASE Head(replies) = "redirect" /\ delegate
  <2>1. /\ protocols' = [protocols EXCEPT ![p] = [protocols[p] EXCEPT !.at = "waitingForRedirectCompletionHandler"]]
        /\ Tell(Op("redirect", p), workQueue)
    BY <1>7 DEF TransferCompleted
  <2>2. [protocols[p] EXCEPT !.at = "waitingForRedirectCompletionHandler"] \in ProtocolType
    BY <1>4, ProtocolKinds DEF ProtocolStates
  <2>3. AllCalm /\ protocols'[p] = [protocols[p] EXCEPT !.at = "waitingForRedirectCompletionHandler"]
    BY <1>4, <2>1, <2>2, CalmChanges, CalmTouch, ProtocolChanged
  <2>4. protocols'[Newest].at \in AtRest
    BY <1>2, <1>4, <2>3 DEF ProtocolType, AtRest
  <2>5. delegateQueue' = Append(delegateQueue, Op("redirect", p)) /\ UNCHANGED <<workQueue, pc>>
    BY <1>1, <2>1 DEF Tell
  <2> QED BY <1>2, <1>3, <2>3, <2>4, <2>5, TurnOpened
<1>8. CASE Head(replies) = "redirect" /\ ~delegate
  <2>1. /\ protocols' = [protocols EXCEPT ![p] = StartNewTransfer]
        /\ UNCHANGED <<state, storage, workQueue, delegateQueue>>
    BY <1>8 DEF TransferCompleted
  <2>2. AllCalm
    BY <1>4, <2>1, CalmChanges, CalmTouch
  <2> QED BY <1>1, <2>1, <2>2, SameWork, SameDelegate, TurnKept DEF Passed
<1> QED BY <1>1, <1>5, <1>6, <1>7, <1>8 DEF Replies

LEMMA TimeoutTurn ==
  ASSUME Shape, Turn, crash = "none", NEW p \in 1 .. Len(protocols), TimedOut(p)
  PROVE  Turn'
<1>1. /\ UNCHANGED pc
      /\ protocols' = [protocols EXCEPT ![p] = TaskCompleted]
      /\ \/ UNCHANGED <<workQueue, delegateQueue>>
         \/ Conclude(<<Op("complete", p)>>, workQueue)
  BY DEF TimedOut, clientVars
<1>2. protocols[p] \in ProtocolType /\ p \in ProtocolNumbers /\ TaskCompleted \in ProtocolType
  BY Counts, ElementOfSeq, ProtocolKinds
<1>3. AllCalm
  BY <1>1, <1>2, CalmChanges, CalmTouch
<1>4. CASE UNCHANGED <<workQueue, delegateQueue>>
  BY <1>1, <1>3, <1>4, SameWork, SameDelegate, TurnKept DEF Passed
<1>5. CASE Conclude(<<Op("complete", p)>>, workQueue)
  <2>1. WorkMoves /\ DelegateMoves
    BY <1>1, <1>2, <1>5, CompletionOps, EndsMoves DEF Passed
  <2> QED BY <1>3, <2>1, TurnKept
<1> QED BY <1>1, <1>4, <1>5

LEMMA CacheTurn ==
  ASSUME Shape, Turn, crash = "none", CacheReplies \/ DeliverProtocol
  PROVE  Turn'
<1>1. UNCHANGED <<delegateQueue, pc>>
  BY DEF CacheReplies, DeliverProtocol, queueVars, clientVars
<1>2. CASE CacheReplies
  <2>1. /\ protocols' = Append(protocols, NewProtocol) /\ UNCHANGED workQueue
        /\ storage.kind = "awaitingCacheReply"
    BY <1>2 DEF CacheReplies, queueVars
  <2>2. protocols = <<>>
    BY <2>1 DEF Shape, Unserved
  <2>3. /\ \A p \in 1 .. Newest : Quiet(p)
        /\ \A i \in 1 .. Len(workQueue) : ~Answer(i)
        /\ \A i \in 1 .. Len(delegateQueue') : ~OpenOp(i)'
    BY <1>1, <2>2, NoneMade DEF OpenOp
  <2>4. Block("add", 0) \in BlockType' /\ Block("add", 0).kind \notin Answers \cup {"fulfil"}
    <3>1. "add" \in BlockKinds /\ "add" \notin Answers \cup {"fulfil"} /\ 0 \in ProtocolNumbers'
      BY <2>1, ProtocolMade, ZeroKept DEF BlockKinds, Answers
    <3> QED BY <2>1, <3>1, ProtocolMade, BlocksTyped
  <2> QED BY <2>1, <2>3, <2>4, TurnMade DEF Passed
<1>3. CASE DeliverProtocol
  <2>1. /\ delivering # <<>> /\ workQueue' = Append(workQueue, Block(Head(delivering), 1))
        /\ UNCHANGED protocols
    BY <1>3 DEF DeliverProtocol
  <2>2. Head(delivering) \in Callbacks /\ 1 \in ProtocolNumbers
    BY <2>1, TaskParts, Dropped, Counts DEF Shape, Unserved
  <2>3. /\ Block(Head(delivering), 1) \in BlockType
        /\ Block(Head(delivering), 1).kind \notin Answers \cup {"fulfil"}
    BY <2>2 DEF Block, BlockType, BlockKinds, Callbacks, Answers
  <2>4. WorkMoves
    BY <2>1, <2>3, WorkGoesOn DEF Passed
  <2> QED BY <1>1, <2>1, <2>4, CalmTouch, SameDelegate, TurnKept
<1> QED BY <1>2, <1>3

LEMMA AppTurn ==
  ASSUME Shape, Turn, crash = "none", AppCalls \/ CancelTasks \/ LeaveInvalidation
  PROVE  Turn'
<1>1. UNCHANGED <<delegateQueue, protocols>>
  BY DEF AppCalls, CancelTasks, LeaveInvalidation, taskVars
<1>2. "app" \in Clients /\ "delegate" \in Clients /\ "app" # "delegate"
      /\ {"waiting", "closing", "cancelling"} \subseteq Places
      /\ {"cancel", "close"} \subseteq Synchronous /\ Calls \subseteq Synchronous
  BY DEF Clients, Places, AfterCall, Synchronous, Calls
<1>3. CASE \E call \in Synchronous, place \in Places : Enter("app", call, place)
  <2>1. WorkMoves /\ pc'["delegate"] = pc["delegate"]
    BY <1>2, <1>3, EnterMoves
  <2> QED BY <1>1, <2>1, CalmTouch, SameDelegate, TurnKept
<1>4. CASE /\ UNCHANGED pc \/ \E place \in {"idle", "invalidating"} : pc' = [pc EXCEPT !["app"] = place]
           /\ \/ UNCHANGED workQueue
              \/ \E kind \in {"finish", "invalidate"} : workQueue' = Append(workQueue, Block(kind, NoProtocol))
  <2>1. pc'["delegate"] = pc["delegate"]
    BY <1>4, <1>2, DelegatePlace
  <2>2. \A kind \in {"finish", "invalidate"} :
          Block(kind, NoProtocol) \in BlockType /\ Block(kind, NoProtocol).kind \notin Answers \cup {"fulfil"}
    BY Counts DEF Block, BlockType, BlockKinds, Answers, NoProtocol
  <2>3. WorkMoves
    BY <1>4, <2>2, WorkGoesOn, SameWork DEF Passed
  <2> QED BY <1>1, <2>1, <2>3, CalmTouch, SameDelegate, TurnKept
<1>5. CASE AppCalls
  <2>1. app # <<>> /\ Head(app) \in Calls \cup SessionCalls
    BY <1>5, DelegatePlace, Dropped DEF AppCalls
  <2>2. CASE Head(app) \in Calls
    <3>1. Head(app) # "invalidateAndCancel" /\ Head(app) # "finishTasksAndInvalidate"
      BY <2>2 DEF Calls
    <3> QED BY <1>2, <1>3, <1>5, <2>2, <3>1 DEF AppCalls
  <2>3. CASE Head(app) = "invalidateAndCancel"
    BY <1>2, <1>3, <1>5, <2>3 DEF AppCalls, Calls
  <2>4. CASE Head(app) = "finishTasksAndInvalidate"
    BY <1>4, <1>5, <2>4 DEF AppCalls, Calls
  <2> QED BY <2>1, <2>2, <2>3, <2>4 DEF SessionCalls
<1>6. CASE CancelTasks
  BY <1>2, <1>3, <1>4, <1>6 DEF CancelTasks
<1>7. CASE LeaveInvalidation
  BY <1>4, <1>7 DEF LeaveInvalidation
<1> QED BY <1>5, <1>6, <1>7

LEMMA CallbackTurn ==
  ASSUME Shape, Turn, crash = "none", CallbackCalls \/ AnswerChallenge
  PROVE  Turn'
<1>1. /\ UNCHANGED <<delegateQueue, protocols>> /\ pc["delegate"] = "callback"
  BY DEF CallbackCalls, AnswerChallenge, taskVars
<1>2. "delegate" \in Clients /\ {"calling", "refusing", "proposing"} \subseteq Places
      /\ Calls \subseteq Synchronous /\ {"cancel", "suspend"} \subseteq Calls
  BY DEF Clients, Places, AfterCall, Synchronous, Calls
<1>3. \E call \in Calls, place \in {"calling", "refusing", "proposing"} : Enter("delegate", call, place)
  <2>1. CASE CallbackCalls
    <3>1. PICK call \in scenario.calls[Operation.kind] : Enter("delegate", call, "calling")
      BY <2>1 DEF CallbackCalls
    <3>2. Operation.kind \in OpKinds
      BY <1>1, DelegatePlace, RunningOperation DEF OpType
    <3>3. scenario \in Scenario
      BY ScenariosAssumption DEF Shape, TypeOK, OtherTypes
    <3>4. call \in Calls
      BY <3>1, <3>2, <3>3 DEF Scenario
    <3> QED BY <3>1, <3>4
  <2>2. CASE AnswerChallenge
    BY <1>2, <2>2 DEF AnswerChallenge
  <2> QED BY <2>1, <2>2
<1>4. WorkMoves
  BY <1>2, <1>3, EnterMoves
<1>5. DelegateMoves
  BY <1>1, SameDelegate DEF Answered
<1> QED BY <1>1, <1>4, <1>5, CalmTouch, TurnKept

(* The credential: the challenge closes, and the task has a new protocol.   *)
LEMMA ReplaceTurn ==
  ASSUME Shape, Turn, crash = "none", ReplaceProtocol
  PROVE  Turn'
<1>1. /\ pc["delegate"] = "replacing" /\ protocols' = Append(protocols, NewProtocol)
      /\ UNCHANGED delegateQueue /\ Enter("delegate", "resume", "retrying")
      /\ workQueue' = Append(workQueue, SyncBlock("resume", "delegate"))
  BY DEF ReplaceProtocol, Enter
<1>2. /\ delegateQueue # <<>> /\ Operation.kind = "challenge"
      /\ Operation = delegateQueue[1] /\ 1 \in 1 .. Len(delegateQueue)
  BY <1>1, DelegatePlace, RunningOperation DEF Answering
<1>3. OpenOp(1)
  BY <1>1, <1>2 DEF OpenOp, Answered
<1>4. Quiet(Newest) /\ Newest # 0
  BY <1>2, <1>3 DEF Turn, OpenIsNewest
<1>5. \A p \in 1 .. Newest : Quiet(p)
  BY <1>4 DEF Turn
<1>6. \A i \in 1 .. Len(workQueue) : ~Answer(i)
  BY <1>2, <1>3 DEF Turn, OneOpen
<1>7. pc'["delegate"] = "retrying"
  BY <1>1, DelegatePlace DEF Enter, Clients
<1>8. \A i \in 1 .. Len(delegateQueue') : ~OpenOp(i)'
  <2> SUFFICES ASSUME NEW i \in 1 .. Len(delegateQueue), OpenOp(i)'
               PROVE  FALSE
    BY <1>1
  <2>1. i # 1
    BY <1>1, <1>2, <1>7 DEF OpenOp, Answered
  <2>2. OpenOp(i)
    BY <1>1, <2>1 DEF OpenOp
  <2> QED BY <1>2, <1>3, <2>1, <2>2 DEF Turn, OneOpen
<1>9. /\ SyncBlock("resume", "delegate") \in BlockType'
      /\ SyncBlock("resume", "delegate").kind \notin Answers \cup {"fulfil"}
  BY <1>1, ProtocolMade, BlocksTyped DEF Calls, Clients, Answers
<1> QED BY <1>1, <1>5, <1>6, <1>8, <1>9, TurnMade DEF Passed

(* A callback begins or ends.                                               *)
LEMMA OverMoves ==
  ASSUME Shape, delegateQueue # <<>>, delegateQueue' = Tail(delegateQueue)
  PROVE  DelegateMoves
<1>1. /\ Passed(delegateQueue, Tail(delegateQueue)) /\ Tail(delegateQueue) \in Seq(OpType)
  BY RunningOperation
<1>2. delegateQueue' = Tail(delegateQueue) \o <<>>
  BY <1>1, ConcatEmptySeq
<1>3. Tail(delegateQueue) # delegateQueue
  BY Dropped, RunningOperation
<1>4. <<>> \in Seq(OpType) /\ \A k \in 1 .. Len(<<>>) : <<>>[k].kind \notin Opens
  OBVIOUS
<1> QED BY <1>1, <1>2, <1>3, <1>4 DEF DelegateMoves

LEMMA EndTurn ==
  ASSUME Shape, Turn, crash = "none",
         BeginCallback \/ EndNotification \/ LeaveUnanswered \/
              EndInvalidation \/ EndCompletion \/ EndChallenge
  PROVE  Turn'
<1>1. UNCHANGED protocols
  BY DEF BeginCallback, EndNotification, LeaveUnanswered,
       EndInvalidation, EndCompletion, EndChallenge, EndCallback, taskVars
<1>2. CASE BeginCallback /\ ~Reported
  <2>1. UNCHANGED <<delegateQueue, workQueue>> /\ pc["delegate"] = "idle"
    BY <1>2 DEF BeginCallback
  <2>2. DelegateMoves
    BY <2>1, SameDelegate DEF Answered
  <2> QED BY <1>1, <2>1, <2>2, CalmTouch, SameWork, TurnKept DEF Passed
<1>3. CASE ~(BeginCallback /\ ~Reported)
  <2>1. delegateQueue # <<>> /\ delegateQueue' = Tail(delegateQueue)
    BY <1>3, DelegatePlace
    DEF BeginCallback, EndNotification, LeaveUnanswered,
         EndInvalidation, EndCompletion, EndChallenge, EndCallback
  <2>2. UNCHANGED workQueue \/ workQueue' = Append(workQueue, Block("remove", NoProtocol))
    BY DEF BeginCallback, EndNotification, LeaveUnanswered, EndInvalidation, EndCompletion, EndChallenge
  <2>3. Block("remove", NoProtocol) \in BlockType /\ Block("remove", NoProtocol).kind \notin Answers \cup {"fulfil"}
    BY Counts DEF Block, BlockType, BlockKinds, NoProtocol, Answers
  <2>4. WorkMoves
    BY <2>2, <2>3, WorkGoesOn DEF Passed
  <2> QED BY <1>1, <2>1, <2>4, OverMoves, CalmTouch, TurnKept
<1> QED BY <1>2, <1>3

LEMMA TurnNext ==
  ASSUME Shape, Turn, [Next]_vars
  PROVE  Turn'
<1>1. CASE Next /\ RunWork
  BY <1>1, CallTurn, SessionTurn, LoadTurn, TurnFollowed DEF RunWork, Next
<1>2. CASE Next /\ \E p \in 1 .. Len(protocols) : ReceiveData(p)
  BY <1>2, ReceiveTurn DEF Next
<1>3. CASE Next /\ TransferEnds
  BY <1>3, TransferTurn, TimeoutTurn DEF TransferEnds, Next
<1>4. CASE Next /\ (CacheReplies \/ DeliverProtocol)
  BY <1>4, CacheTurn DEF Next
<1>5. CASE Next /\ (AppCalls \/ CancelTasks \/ LeaveInvalidation)
  BY <1>5, AppTurn DEF Next
<1>6. CASE Next /\ (RunDelegate \/ CallbackCalls)
  BY <1>6, CallbackTurn, ReplaceTurn, EndTurn, TurnAnswered DEF RunDelegate, Next
<1>7. CASE UNCHANGED vars
  BY <1>7 DEF vars, taskVars, queueVars, clientVars, Turn, Newest, Quiet, TimerOK,
     OpenIsNewest, AnswerIsNewest, OneOpen, FulfilsReplayed, OpenOp, Answer
<1> QED BY <1>1, <1>2, <1>3, <1>4, <1>5, <1>6, <1>7 DEF Next

LEMMA InitTurn ==
  ASSUME Init
  PROVE  Turn
<1>1. Newest = 0 /\ delegateQueue = <<>> /\ Len(delegateQueue) = 0
  BY DEF Init, Newest
<1>2. Len(workQueue) = 1 /\ workQueue[1].kind = "add"
  BY DEF Init, Block
<1>3. \A i \in 1 .. Len(workQueue) : workQueue[i].kind = "add"
  BY <1>2
<1> QED BY <1>1, <1>2, <1>3 DEF Turn, OpenIsNewest, AnswerIsNewest, OneOpen, FulfilsReplayed,
          Answer, Answers

(* However challenges, redirects, suspends, resumes and timeouts interleave, *)
(* two transfers of a task are never in progress together: the protocol a   *)
(* credential replaces (URLSessionTask.swift:921) has ended its transfer    *)
(* and never starts another.                                                *)
THEOREM OneTransferAtATime == Spec => []OneTransfer
<1>1. Turn => OneTransfer
  <2> SUFFICES ASSUME Turn, NEW p \in 1 .. Newest, NEW q \in 1 .. Newest, Loading(p), Loading(q)
               PROVE  p = q
    BY DEF OneTransfer, Newest
  <2>1. p = Newest /\ q = Newest
    BY DEF Turn, Quiet, Loading, TaskCompleted
  <2> QED BY <2>1
<1>2. Shape /\ Turn /\ [Next]_vars => (Shape /\ Turn)'
  BY ShapeNext, TurnNext
<1>3. Init => Shape /\ Turn
  BY InitShape, InitTurn
<1> QED BY <1>1, <1>2, <1>3, PTL DEF Spec

-----------------------------------------------------------------------------
(* The blocks and the operations of a step, and where they come from.       *)

(* Who asks for a callback of the protocol, and who for a replay.           *)
Asks(kind) ==
  /\ kind = "start" => Resume /\ state' = "running"
  /\ kind = "stop" => Suspend
  /\ kind = "cancelled" => Ended'
CallsBack(b) == (b.p = storage'.p /\ Asks(b.kind)) \/ (DeliverProtocol /\ b.kind = Head(delivering) /\ b.p = 1)
Replays(p) == StartLoading /\ p = Head(workQueue).p /\ p # 0 /\ protocols[p].at = "initial"

NewBlock(b) ==
  \/ b.by = "queue" /\ b.kind \in OnProtocol \cup {"finish"} /\ (b.kind = "fulfil" => Replays(b.p))
  \/ b.by = "queue" /\ b.kind \in Callbacks /\ storage'.kind \notin NoneYet /\ CallsBack(b)
  \/ b.by = "queue" /\ b.kind = "remove" /\ state' = "completed"
  \/ b.by = "queue" /\ b.kind = "invalidate" /\ pc["app"] = "invalidating"
  \/ b.by = "delegate" /\ b.kind \in Calls
  \/ b.by = "app" /\ b.kind \in Calls \cup {"close"} /\ pc["app"] = "idle" /\ app # <<>> /\ b.kind = Head(app)
  \/ b.by = "app" /\ b.kind \in {"cancel", "close"} /\ pc'["app"] # "waiting"

Blocks ==
  \E base : /\ Passed(workQueue, base)
            /\ base = workQueue \/ RunWork
            /\ \/ workQueue' = base
               \/ \E b \in BlockType' : workQueue' = Append(base, b) /\ NewBlock(b)

(* What happens at the head of the queue and behind it.                     *)
LEMMA BlocksFrom ==
  ASSUME Shape, ProtocolNumbers \subseteq ProtocolNumbers', Blocks
  PROVE  /\ \E d \in 0 .. 1 : \A i \in 1 .. Len(workQueue') :
              \/ i + d \in 1 .. Len(workQueue) /\ workQueue'[i] = workQueue[i + d]
              \/ NewBlock(workQueue'[i])
         /\ RunWork \/ \A kind \in BlockKinds : Running(kind) => Running(kind)'
<1>1. PICK base :
        /\ Passed(workQueue, base)
        /\ base = workQueue \/ RunWork
        /\ \/ workQueue' = base
           \/ \E b \in BlockType' : workQueue' = Append(base, b) /\ NewBlock(b)
  BY DEF Blocks
<1>2. BlockType \subseteq BlockType'
  BY DEF BlockType
<1>3. PICK S, q : S = BlockType' /\ q = workQueue'
  OBVIOUS
<1>4. workQueue \in Seq(S)
  BY <1>2, <1>3, SeqMonotonic DEF Shape, TypeOK, WorkTypes, BlockType
<1>5. CASE workQueue' = base
  <2>1. \E d \in 0 .. 1 :
              /\ d <= Len(workQueue) /\ Len(workQueue) \in Nat /\ Len(q) = Len(workQueue) - d
              /\ \A i \in 1 .. Len(q) : i + d \in 1 .. Len(workQueue) /\ q[i] = workQueue[i + d]
    BY <1>1, <1>3, <1>4, <1>5, PassedElements
  <2>2. base = workQueue => \A kind \in BlockKinds : Running(kind) => Running(kind)'
    BY <1>5 DEF Running
  <2> QED BY <1>1, <1>3, <2>1, <2>2
<1>6. ASSUME NEW b \in S, q = Append(base, b), NewBlock(b)
      PROVE  /\ \E d \in 0 .. 1 : \A i \in 1 .. Len(q) :
                  \/ i + d \in 1 .. Len(workQueue) /\ q[i] = workQueue[i + d]
                  \/ NewBlock(q[i])
             /\ RunWork \/ \A kind \in BlockKinds : Running(kind) => Running(kind)'
  <2>1. \E d \in 0 .. 1, n \in 0 .. 1 : Grows(workQueue, base, b, q, d, n)
    BY <1>1, <1>4, <1>6, GrownElements
  <2>2. PICK d \in 0 .. 1, n \in 0 .. 1 : Grows(workQueue, base, b, q, d, n)
    BY <2>1
  <2>3. \A i \in 1 .. Len(q) :
           \/ i + d \in 1 .. Len(workQueue) /\ q[i] = workQueue[i + d]
           \/ q[i] = b
    BY <2>2 DEF Grows
  <2>4. \A i \in 1 .. Len(q) :
                  \/ i + d \in 1 .. Len(workQueue) /\ q[i] = workQueue[i + d]
                  \/ NewBlock(q[i])
    BY <1>6, <2>3
  <2>5. ASSUME base = workQueue, NEW kind \in BlockKinds, Running(kind)
        PROVE  Running(kind)'
    <3>1. workQueue # <<>> /\ Head(workQueue).kind = kind
      BY <2>5 DEF Running
    <3>2. q # <<>> /\ Head(q) = Head(workQueue)
      BY <1>4, <1>6, <2>5, <3>1, Added
    <3> QED BY <1>3, <3>1, <3>2 DEF Running
  <2> QED BY <1>1, <2>4, <2>5
<1> QED BY <1>1, <1>3, <1>5, <1>6

LEMMA NothingQueued ==
  ASSUME Shape, NEW base, Passed(workQueue, base), base = workQueue \/ RunWork, workQueue' = base
  PROVE  Blocks
BY DEF Blocks

LEMMA OneQueued ==
  ASSUME Shape, NEW base, Passed(workQueue, base), base = workQueue \/ RunWork,
         NEW b \in BlockType', NewBlock(b), workQueue' = Append(base, b)
  PROVE  Blocks
BY DEF Blocks

LEMMA GetBlocks ==
  ASSUME Shape, NEW callback \in Callbacks, GetProtocol(callback, Rest), Asks(callback),
         Passed(workQueue, Rest), RunWork, UNCHANGED delivering
  PROVE  Blocks
<1>1. ProtocolNumbers \subseteq ProtocolNumbers'
  BY Got
<1>2. ASSUME NEW p \in ProtocolNumbers', workQueue' = Append(Rest, Block(callback, p)), storage'.kind \notin NoneYet,
             p = storage'.p
      PROVE  Blocks
  <2>1. Block(callback, p) \in BlockType' /\ NewBlock(Block(callback, p))
    BY <1>2 DEF Block, BlockType, BlockKinds, NewBlock, Callbacks, CallsBack
  <2> QED BY <1>2, <2>1, OneQueued
<1>3. CASE storage.kind = "toBeCreated" /\ scenario.cache = "none"
  <2>1. /\ storage' = Stored("existing", Len(protocols) + 1, <<>>)
        /\ protocols' = Append(protocols, NewProtocol)
        /\ workQueue' = Append(Rest, Block(callback, Len(protocols) + 1))
    BY <1>3 DEF GetProtocol
  <2>2. /\ Len(protocols) + 1 \in ProtocolNumbers' /\ storage'.kind \notin NoneYet
        /\ storage'.p = Len(protocols) + 1
    BY <2>1, ProtocolMade DEF Stored, NoneYet
  <2> QED BY <1>2, <2>1, <2>2
<1>4. CASE storage.kind \notin NoneYet
  <2>1. workQueue' = Append(Rest, Block(callback, storage.p)) /\ UNCHANGED <<storage, protocols>>
    BY <1>4 DEF GetProtocol, NoneYet
  <2>2. storage.p \in ProtocolNumbers' /\ storage'.kind \notin NoneYet
    BY <1>1, <1>4, <2>1, Counts
  <2> QED BY <1>2, <2>1, <2>2
<1>5. CASE storage.kind = "awaitingCacheReply" \/ (storage.kind = "toBeCreated" /\ scenario.cache # "none")
  <2>1. workQueue' = Rest
    BY <1>5 DEF GetProtocol
  <2> QED BY <2>1, NothingQueued
<1> QED BY <1>3, <1>4, <1>5 DEF NoneYet

LEMMA EndBlocks ==
  ASSUME Shape, UNCHANGED ProtocolNumbers, NEW queue, Passed(workQueue, queue),
         queue = workQueue \/ RunWork, NEW ops \in Seq(OpType), Conclude(ops, queue)
  PROVE  Blocks
<1>1. \/ workQueue' = queue
      \/ workQueue' = Append(queue, Block("remove", NoProtocol)) /\ state' = "completed"
  <2>1. delegate => workQueue' = queue
    BY DEF Conclude
  <2>2. ~delegate => state' = "completed"
    BY DEF Conclude
  <2>3. workQueue' = queue \/ workQueue' = Append(queue, Block("remove", NoProtocol))
    BY DEF Conclude
  <2> QED BY <2>1, <2>2, <2>3
<1>2. Block("remove", NoProtocol) \in BlockType'
  BY Counts DEF Block, BlockType, BlockKinds, NoProtocol
<1>3. state' = "completed" => NewBlock(Block("remove", NoProtocol))
  BY DEF NewBlock, Block
<1> QED BY <1>1, <1>2, <1>3, NothingQueued, OneQueued

(* A client enters a synchronous block.                                     *)
LEMMA EnterBlocks ==
  ASSUME Shape, UNCHANGED ProtocolNumbers, NEW client \in Clients, NEW call \in Synchronous, NEW place,
         Enter(client, call, place), NewBlock(SyncBlock(call, client))
  PROVE  Blocks
<1>1. SyncBlock(call, client) \in BlockType'
  BY Counts DEF SyncBlock, BlockType, BlockKinds, Synchronous, Calls, NoProtocol
<1>2. workQueue' = Append(workQueue, SyncBlock(call, client)) /\ Passed(workQueue, workQueue)
  BY DEF Enter, Passed
<1> QED BY <1>1, <1>2, OneQueued

LEMMA CallBlocks ==
  ASSUME Shape, CheckState \/ Suspend \/ Resume \/ Cancel \/ CloseSession
  PROVE  Blocks
<1>1. PICK kind \in Synchronous : Running(kind)
  <2>1. \E kind \in {"suspend", "resume", "cancel", "close"} : Running(kind)
    BY DEF CheckState, Suspend, Resume, Cancel, CloseSession
  <2> QED BY <2>1 DEF Synchronous, Calls
<1>2. Passed(workQueue, Rest) /\ Passed(workQueue, workQueue)
  BY <1>1, RunningBlock DEF Passed
<1>3. RunWork
  BY DEF RunWork
<1>4. \/ \E callback \in Callbacks : GetProtocol(callback, Rest) /\ Asks(callback) /\ UNCHANGED delivering
      \/ workQueue' = Rest \/ UNCHANGED workQueue
  <2>1. CASE Suspend
    BY <2>1 DEF Suspend, Callbacks, Asks
  <2>2. CASE Resume
    BY <2>2 DEF Resume, Callbacks, Asks
  <2>3. CASE Cancel
    BY <2>3 DEF Cancel, Callbacks, Asks, Ended
  <2>4. CASE CheckState \/ CloseSession
    BY <2>4 DEF CheckState, CloseSession
  <2> QED BY <2>1, <2>2, <2>3, <2>4
<1> QED BY <1>2, <1>3, <1>4, GetBlocks, NothingQueued

LEMMA SessionBlocks ==
  ASSUME Shape, AddTask \/ RemoveTask \/ FinishTasks \/ InvalidateSession
  PROVE  Blocks
<1>1. \E kind \in {"add", "remove", "finish", "invalidate"} : Running(kind)
  BY DEF AddTask, RemoveTask, FinishTasks, InvalidateSession
<1>2. Passed(workQueue, Rest)
  BY <1>1, RunningBlock
<1>4. workQueue' = Rest
  BY DEF AddTask, RemoveTask, FinishTasks, InvalidateSession
<1>3. RunWork
  BY DEF RunWork
<1> QED BY <1>2, <1>3, <1>4, NothingQueued

(* A protocol object may change, none is made.                              *)
LEMMA SameNumbers ==
  ASSUME Shape,
         \/ UNCHANGED protocols
         \/ \E p \in 1 .. Len(protocols), x \in ProtocolType : protocols' = [protocols EXCEPT ![p] = x]
  PROVE  UNCHANGED ProtocolNumbers /\ Len(protocols') = Len(protocols)
BY ProtocolChanged DEF ProtocolNumbers

(* The steps of the protocol: blocks that start and stop it, libcurl and    *)
(* the timer.  Each ends the task, tells it something, or does neither.     *)
LoadAction ==
  \/ StartLoading \/ StopLoading \/ CancelLoading \/ FulfilFromCache \/ FollowRedirect \/ DeclineRedirect
  \/ TransferEnds \/ \E p \in 1 .. Len(protocols) : ReceiveData(p)

Goes(queue) ==
  /\ UNCHANGED <<state, storage, delegateQueue>>
  /\ workQueue' = queue \/ \E p \in ProtocolNumbers : workQueue' = Append(queue, Block("fulfil", p)) /\ Replays(p)

Loads ==
  /\ UNCHANGED <<suspendCount, delivering, checked, sessionVars, scenario, app, pc, completions, calls>>
  /\ UNCHANGED ProtocolNumbers /\ Len(protocols') = Len(protocols)
  /\ \E queue : /\ Passed(workQueue, queue) /\ (queue = workQueue \/ RunWork)
                /\ Ends(queue) \/ (Tells /\ delegate /\ queue = workQueue) \/ Goes(queue)

LEMMA StartLoads ==
  ASSUME Shape, StartLoading
  PROVE  Loads
<1>1. PICK p : p = Head(workQueue).p
  OBVIOUS
<1>2. /\ p \in 0 .. Len(protocols) /\ Passed(workQueue, Rest) /\ RunWork
      /\ UNCHANGED <<suspendCount, delivering, checked, sessionVars, scenario, app, pc, completions, calls>>
  BY <1>1, RunningBlock, Counts DEF StartLoading, RunWork, clientVars
<1>3. p \in ProtocolNumbers
  BY <1>2, Counts
<1>4. CASE p = NoProtocol
  <2>1. UNCHANGED protocols
    BY <1>1, <1>4 DEF StartLoading
  <2>2. Goes(Rest) \/ Conclude(<<Op("complete", p)>>, Rest)
    BY <1>1, <1>4 DEF StartLoading, Goes
  <2>3. Goes(Rest) \/ Ends(Rest)
    BY <1>3, <2>2, CompletionOps
  <2> QED BY <1>2, <2>1, <2>3, SameNumbers DEF Loads
<1>5. CASE p # NoProtocol
  <2>1. p \in 1 .. Len(protocols) /\ protocols[p] \in ProtocolType
    BY <1>2, <1>5, Counts, ElementOfSeq DEF NoProtocol
  <2>2. /\ UNCHANGED <<state, storage, delegateQueue>>
        /\ \/ /\ protocols' = [protocols EXCEPT ![p] = [protocols[p] EXCEPT !.at = "fulfillingFromCache"]]
              /\ workQueue' = Append(Rest, Block("fulfil", p)) /\ Replays(p)
           \/ protocols' = [protocols EXCEPT ![p] = Resumed(protocols[p])] /\ workQueue' = Rest
    BY <1>1, <1>5 DEF StartLoading, Replays, NoProtocol
  <2>3. Goes(Rest)
    BY <1>3, <2>2 DEF Goes
  <2>4. UNCHANGED ProtocolNumbers /\ Len(protocols') = Len(protocols)
    BY <2>1, <2>2, ProtocolKinds, SameNumbers DEF ProtocolStates
  <2> QED BY <1>2, <2>3, <2>4 DEF Loads
<1> QED BY <1>4, <1>5

LEMMA StopLoads ==
  ASSUME Shape, StopLoading \/ FollowRedirect
  PROVE  Loads
<1>0. PICK kind \in {"stop", "follow"} : Running(kind)
  BY Zenon DEF StopLoading, FollowRedirect
<1>1. PICK p : p = Head(workQueue).p
  OBVIOUS
<1>2. /\ p \in 0 .. Len(protocols) /\ Passed(workQueue, Rest) /\ RunWork
  BY <1>0, <1>1, RunningBlock, Counts DEF RunWork
<1>3. UNCHANGED <<suspendCount, delivering, checked, sessionVars, scenario, app, pc, completions, calls>>
  BY Zenon DEF StopLoading, FollowRedirect, clientVars
<1>4. UNCHANGED <<state, storage, delegateQueue>> /\ workQueue' = Rest
  BY Zenon DEF StopLoading, FollowRedirect
<1>5. Goes(Rest)
  BY <1>4 DEF Goes
<1>6. UNCHANGED protocols \/ (p # 0 /\ protocols' = [protocols EXCEPT ![p] = Stopped(protocols[p])])
      \/ (p # 0 /\ protocols' = [protocols EXCEPT ![p] = StartNewTransfer])
  <2>1. CASE StopLoading
    BY <1>1, <2>1, Zenon DEF StopLoading, NoProtocol
  <2>2. CASE FollowRedirect
    <3>1. Running("follow") /\ protocols' = [protocols EXCEPT ![p] = StartNewTransfer]
      BY <1>1, <2>2, Zenon DEF FollowRedirect
    <3>2. p # 0
      BY <1>1, <3>1, RunningBlock DEF OnProtocol
    <3> QED BY <3>1, <3>2
  <2> QED BY <2>1, <2>2
<1>7. p # 0 => p \in 1 .. Len(protocols) /\ protocols[p] \in ProtocolType
  BY <1>2, Counts, ElementOfSeq
<1>8. UNCHANGED ProtocolNumbers /\ Len(protocols') = Len(protocols)
  BY <1>6, <1>7, ProtocolKinds, SameNumbers
<1> QED BY <1>2, <1>3, <1>5, <1>8 DEF Loads

LEMMA CancelLoads ==
  ASSUME Shape, CancelLoading \/ FulfilFromCache \/ DeclineRedirect
  PROVE  Loads
<1>0. PICK kind \in {"cancelled", "fulfil", "decline"} : Running(kind)
  BY Zenon DEF CancelLoading, FulfilFromCache, DeclineRedirect
<1>1. PICK p : p = Head(workQueue).p
  OBVIOUS
<1>2. /\ p \in 0 .. Len(protocols) /\ Passed(workQueue, Rest) /\ Passed(workQueue, workQueue)
      /\ kind \in {"fulfil", "decline"} => p # 0
  BY <1>0, <1>1, RunningBlock, Counts DEF Passed, OnProtocol
<1>3. UNCHANGED <<suspendCount, delivering, checked, sessionVars, scenario, app, pc, completions, calls>>
      /\ RunWork
  BY Zenon DEF CancelLoading, FulfilFromCache, DeclineRedirect, clientVars, RunWork
<1>4. /\ p \in ProtocolNumbers
      /\ p # 0 => p \in 1 .. Len(protocols) /\ protocols[p] \in ProtocolType
  BY <1>2, Counts, ElementOfSeq
<1>5. CASE UNCHANGED protocols /\ (Goes(Rest) \/ Goes(workQueue) \/ Ends(Rest))
  BY <1>2, <1>3, <1>5, SameNumbers DEF Loads
<1>6. ASSUME NEW x \in ProtocolType, p # 0, protocols' = [protocols EXCEPT ![p] = x], Ends(Rest)
      PROVE  Loads
  <2>1. UNCHANGED ProtocolNumbers /\ Len(protocols') = Len(protocols)
    BY <1>4, <1>6, SameNumbers
  <2> QED BY <1>2, <1>3, <1>6, <2>1 DEF Loads
<1>7. CASE CancelLoading
  <2>1. \/ UNCHANGED protocols /\ workQueue' = Rest /\ UNCHANGED <<state, storage, delegateQueue>>
        \/ /\ p # 0 /\ protocols' = [protocols EXCEPT ![p] = Stopped(protocols[p])]
           /\ Conclude(<<Op("complete", p)>>, Rest)
    BY <1>1, <1>7 DEF CancelLoading, NoProtocol
  <2>2. CASE UNCHANGED protocols /\ workQueue' = Rest /\ UNCHANGED <<state, storage, delegateQueue>>
    BY <1>5, <2>2 DEF Goes
  <2>3. CASE /\ p # 0 /\ protocols' = [protocols EXCEPT ![p] = Stopped(protocols[p])]
             /\ Conclude(<<Op("complete", p)>>, Rest)
    BY <1>4, <1>6, <2>3, ProtocolKinds, CompletionOps
  <2> QED BY <2>1, <2>2, <2>3
<1>8. CASE FulfilFromCache
  <2>1. /\ protocols' = [protocols EXCEPT ![p] = [protocols[p] EXCEPT !.at = "taskCompleted"]]
        /\ Conclude(<<Op("notify", p), Op("complete", p)>>, Rest) /\ Running("fulfil")
    BY <1>1, <1>8 DEF FulfilFromCache
  <2>2. p # 0
    BY <1>1, <2>1, RunningBlock DEF OnProtocol
  <2>3. [protocols[p] EXCEPT !.at = "taskCompleted"] \in ProtocolType
    BY <1>4, <2>2, ProtocolKinds DEF ProtocolStates
  <2> QED BY <1>4, <1>6, <2>1, <2>2, <2>3, CompletionOps
<1>9. CASE DeclineRedirect
  <2>1. Running("decline")
    BY <1>9 DEF DeclineRedirect
  <2>2. p # 0
    BY <1>1, <2>1, RunningBlock DEF OnProtocol
  <2>3. \/ /\ protocols' = [protocols EXCEPT ![p] = TaskCompleted]
           /\ Conclude(<<Op("notify", p), Op("complete", p)>>, Rest)
        \/ UNCHANGED <<state, storage, protocols, workQueue, delegateQueue>>
    BY <1>1, <1>9, Zenon DEF DeclineRedirect
  <2>4. CASE /\ protocols' = [protocols EXCEPT ![p] = TaskCompleted]
             /\ Conclude(<<Op("notify", p), Op("complete", p)>>, Rest)
    BY <1>4, <1>6, <2>2, <2>4, ProtocolKinds, CompletionOps
  <2>5. CASE UNCHANGED <<state, storage, protocols, workQueue, delegateQueue>>
    BY <1>5, <2>5 DEF Goes
  <2> QED BY <2>3, <2>4, <2>5
<1> QED BY <1>7, <1>8, <1>9

LEMMA TransferLoads ==
  ASSUME Shape, NEW p \in 1 .. Len(protocols), TransferCompleted(p) \/ TimedOut(p) \/ ReceiveData(p)
  PROVE  Loads
<1>1. UNCHANGED <<suspendCount, delivering, checked, sessionVars, scenario, app, pc, completions, calls>>
  <2>1. CASE TransferCompleted(p)
    BY <2>1 DEF TransferCompleted
  <2>2. CASE TimedOut(p)
    BY <2>2 DEF TimedOut, clientVars
  <2>3. CASE ReceiveData(p)
    BY <2>3 DEF ReceiveData
  <2> QED BY <2>1, <2>2, <2>3
<1>2. /\ protocols[p] \in ProtocolType /\ p \in ProtocolNumbers /\ Passed(workQueue, workQueue)
      /\ TaskCompleted \in ProtocolType /\ StartNewTransfer \in ProtocolType
      /\ [protocols[p] EXCEPT !.at = "waitingForRedirectCompletionHandler"] \in ProtocolType
  <2>1. protocols[p] \in ProtocolType /\ p \in ProtocolNumbers
    BY Counts, ElementOfSeq
  <2>2. "waitingForRedirectCompletionHandler" \in ProtocolStates
    BY DEF ProtocolStates
  <2> QED BY <2>1, <2>2, ProtocolKinds DEF Passed
<1>3. \A k \in {"notify", "redirect", "challenge"} : Op(k, p) \in OpType /\ Op(k, p).kind = k /\ Op(k, p).p = p /\ p # NoProtocol
  BY Counts DEF Op, OpType, OpKinds, NoProtocol
<1>4. ASSUME NEW k \in {"notify", "redirect", "challenge"}, Tell(Op(k, p), workQueue)
      PROVE  Tells
  BY <1>3, <1>4 DEF Tells
<1>5. UNCHANGED protocols \/ \E x \in ProtocolType : protocols' = [protocols EXCEPT ![p] = x]
  <2>1. CASE TransferCompleted(p)
    <3>1. Head(replies) \in Replies
      BY <2>1, Dropped DEF TransferCompleted, Shape, TypeOK, OtherTypes
    <3>2. \/ protocols' = [protocols EXCEPT ![p] = TaskCompleted]
          \/ protocols' = [protocols EXCEPT ![p] = StartNewTransfer]
          \/ protocols' = [protocols EXCEPT ![p] = [protocols[p] EXCEPT !.at = "waitingForRedirectCompletionHandler"]]
      BY <2>1, <3>1 DEF TransferCompleted, Replies
    <3> QED BY <1>2, <3>2
  <2>2. CASE TimedOut(p)
    BY <1>2, <2>2 DEF TimedOut
  <2>3. CASE ReceiveData(p)
    BY <2>3 DEF ReceiveData
  <2> QED BY <2>1, <2>2, <2>3
<1>6. Ends(workQueue) \/ (Tells /\ delegate) \/ Goes(workQueue)
  <2>1. CASE TransferCompleted(p)
    <3>1. Head(replies) \in Replies
      BY <2>1, Dropped DEF TransferCompleted, Shape, TypeOK, OtherTypes
    <3>2. CASE Head(replies) \in {"ok", "fail"}
      <4>1. Conclude(<<Op("complete", p)>>, workQueue)
        BY <2>1, <3>2 DEF TransferCompleted
      <4> QED BY <1>2, <4>1, CompletionOps
    <3>3. CASE Head(replies) = "unauthorized"
      <4>1. IF delegate
            THEN Tell(Op("challenge", p), workQueue)
            ELSE UNCHANGED <<state, storage, workQueue, delegateQueue, crash>>
        BY <2>1, <3>3 DEF TransferCompleted
      <4> QED BY <1>4, <4>1 DEF Goes
    <3>4. CASE Head(replies) = "redirect" /\ delegate
      <4>1. Tell(Op("redirect", p), workQueue)
        BY <2>1, <3>4 DEF TransferCompleted
      <4> QED BY <1>4, <3>4, <4>1
    <3>5. CASE Head(replies) = "redirect" /\ ~delegate
      BY <2>1, <3>5 DEF TransferCompleted, Goes
    <3> QED BY <3>1, <3>2, <3>3, <3>4, <3>5 DEF Replies
  <2>2. CASE TimedOut(p)
    <3>1. \/ UNCHANGED <<state, storage, error, workQueue, delegateQueue, crash>>
          \/ Conclude(<<Op("complete", p)>>, workQueue)
      BY <2>2 DEF TimedOut
    <3> QED BY <1>2, <3>1, CompletionOps DEF Goes
  <2>3. CASE ReceiveData(p)
    BY <1>4, <2>3 DEF ReceiveData
  <2> QED BY <2>1, <2>2, <2>3
<1>7. UNCHANGED ProtocolNumbers /\ Len(protocols') = Len(protocols)
  BY <1>5, SameNumbers
<1> QED BY <1>1, <1>2, <1>6, <1>7 DEF Loads

LEMMA LoadSteps ==
  ASSUME Shape, LoadAction
  PROVE  Loads
BY StartLoads, StopLoads, CancelLoads, TransferLoads DEF LoadAction, TransferEnds

LEMMA LoadBlocks ==
  ASSUME Shape, Loads
  PROVE  Blocks
<1>1. PICK queue : /\ Passed(workQueue, queue) /\ (queue = workQueue \/ RunWork)
                   /\ Ends(queue) \/ (Tells /\ delegate /\ queue = workQueue) \/ Goes(queue)
  BY DEF Loads
<1>2. UNCHANGED ProtocolNumbers
  BY DEF Loads
<1>3. CASE Ends(queue)
  BY <1>1, <1>2, <1>3, EndBlocks DEF Ends
<1>4. CASE Tells /\ queue = workQueue
  BY <1>1, <1>4, NothingQueued DEF Tells, Tell
<1>5. CASE Goes(queue)
  <2>1. ASSUME NEW p \in ProtocolNumbers, Replays(p)
        PROVE  Block("fulfil", p) \in BlockType' /\ NewBlock(Block("fulfil", p))
    BY <1>2, <2>1 DEF Block, BlockType, BlockKinds, NewBlock, OnProtocol
  <2> QED BY <1>1, <1>5, <2>1, NothingQueued, OneQueued DEF Goes
<1> QED BY <1>1, <1>3, <1>4, <1>5

LEMMA CacheBlocks ==
  ASSUME Shape, CacheReplies \/ DeliverProtocol
  PROVE  Blocks
<1>1. CASE CacheReplies
  BY <1>1, NothingQueued DEF CacheReplies, queueVars, Passed
<1>2. CASE DeliverProtocol
  <2>1. /\ delivering # <<>> /\ workQueue' = Append(workQueue, Block(Head(delivering), 1))
        /\ UNCHANGED <<protocols, storage>>
    BY <1>2 DEF DeliverProtocol
  <2>2. Head(delivering) \in Callbacks /\ 1 \in ProtocolNumbers /\ storage.kind \notin NoneYet
    BY <2>1, TaskParts, Dropped, Counts DEF Shape, Unserved, NoneYet
  <2>3. Block(Head(delivering), 1) \in BlockType' /\ NewBlock(Block(Head(delivering), 1))
    <3>1. ProtocolNumbers' = ProtocolNumbers /\ Head(delivering) \in BlockKinds
      BY <2>1, <2>2 DEF ProtocolNumbers, BlockKinds
    <3> QED BY <1>2, <2>1, <2>2, <3>1 DEF Block, BlockType, NewBlock, CallsBack
  <2> QED BY <2>1, <2>3, OneQueued DEF Passed
<1> QED BY <1>1, <1>2

LEMMA AppBlocks ==
  ASSUME Shape, AppCalls \/ CancelTasks \/ LeaveInvalidation
  PROVE  Blocks
<1>0. UNCHANGED ProtocolNumbers /\ "app" \in Clients
  BY DEF AppCalls, CancelTasks, LeaveInvalidation, taskVars, ProtocolNumbers, Clients
<1>1. CASE AppCalls
  <2>1. /\ app # <<>> /\ pc["app"] = "idle" /\ Head(app) \in Calls \cup SessionCalls
        /\ pc \in [Clients -> Places]
    BY <1>1, DelegatePlace, Dropped DEF AppCalls
  <2>2. CASE Head(app) \in Calls
    <3>0. Head(app) # "invalidateAndCancel" /\ Head(app) # "finishTasksAndInvalidate" /\ Head(app) \in Synchronous
      BY <2>2 DEF Calls, Synchronous
    <3>1. Enter("app", Head(app), "waiting")
      BY <1>1, <2>2, <3>0 DEF AppCalls
    <3>2. NewBlock(SyncBlock(Head(app), "app"))
      BY <2>1, <2>2 DEF NewBlock, SyncBlock
    <3> QED BY <1>0, <3>0, <3>1, <3>2, EnterBlocks
  <2>3. CASE Head(app) = "invalidateAndCancel"
    <3>1. Enter("app", "close", "closing")
      BY <1>1, <2>3 DEF AppCalls, Calls
    <3>2. pc'["app"] = "closing"
      BY <1>0, <2>1, <3>1 DEF Enter
    <3>3. NewBlock(SyncBlock("close", "app")) /\ "close" \in Synchronous
      BY <3>2 DEF NewBlock, SyncBlock, Synchronous
    <3> QED BY <1>0, <3>1, <3>3, EnterBlocks
  <2>4. CASE Head(app) = "finishTasksAndInvalidate"
    <3>1. workQueue' = Append(workQueue, Block("finish", NoProtocol))
      BY <1>1, <2>4 DEF AppCalls, Calls
    <3>2. Block("finish", NoProtocol) \in BlockType' /\ NewBlock(Block("finish", NoProtocol))
      BY <1>0, Counts DEF Block, BlockType, BlockKinds, NoProtocol, NewBlock
    <3> QED BY <3>1, <3>2, OneQueued DEF Passed
  <2> QED BY <2>1, <2>2, <2>3, <2>4 DEF SessionCalls
<1>2. CASE CancelTasks
  <2>1. CASE registered
    <3>1. Enter("app", "cancel", "cancelling")
      BY <1>2, <2>1 DEF CancelTasks
    <3>2. pc'["app"] = "cancelling"
      BY <1>0, <3>1, DelegatePlace DEF Enter
    <3>3. NewBlock(SyncBlock("cancel", "app")) /\ "cancel" \in Synchronous
      BY <3>2 DEF NewBlock, SyncBlock, Synchronous, Calls
    <3> QED BY <1>0, <3>1, <3>3, EnterBlocks
  <2>2. CASE ~registered
    BY <1>2, <2>2, NothingQueued DEF CancelTasks, Passed
  <2> QED BY <2>1, <2>2
<1>3. CASE LeaveInvalidation
  <2>1. workQueue' = Append(workQueue, Block("invalidate", NoProtocol)) /\ pc["app"] = "invalidating"
    BY <1>3 DEF LeaveInvalidation
  <2>2. Block("invalidate", NoProtocol) \in BlockType' /\ NewBlock(Block("invalidate", NoProtocol))
    BY <1>0, <2>1, Counts DEF Block, BlockType, BlockKinds, NoProtocol, NewBlock
  <2> QED BY <2>1, <2>2, OneQueued DEF Passed
<1> QED BY <1>1, <1>2, <1>3

(* The steps of the delegate queue.                                         *)
LEMMA CallbackEnters ==
  ASSUME Shape, CallbackCalls
  PROVE  \E call \in Calls : Enter("delegate", call, "calling")
<1>1. pc["delegate"] = "callback"
  BY DEF CallbackCalls
<1>2. PICK call \in scenario.calls[Operation.kind] : Enter("delegate", call, "calling")
  BY DEF CallbackCalls
<1>3. Operation.kind \in OpKinds
  BY <1>1, DelegatePlace, RunningOperation DEF OpType
<1>4. scenario \in Scenario
  BY ScenariosAssumption DEF Shape, TypeOK, OtherTypes
<1>5. call \in Calls
  BY <1>2, <1>3, <1>4 DEF Scenario
<1> QED BY <1>2, <1>5

LEMMA DelegateBlocks ==
  ASSUME Shape, RunDelegate \/ CallbackCalls
  PROVE  Blocks
<1>0. /\ "delegate" \in Clients /\ Calls \subseteq Synchronous /\ {"cancel", "suspend", "resume"} \subseteq Calls
      /\ \A call \in Calls : NewBlock(SyncBlock(call, "delegate"))
      /\ Passed(workQueue, workQueue)
  BY DEF Clients, Synchronous, Calls, NewBlock, SyncBlock, Passed
<1>1. CASE CallbackCalls \/ AnswerChallenge
  <2>1. \E call \in Calls, place \in {"calling", "refusing", "proposing"} : Enter("delegate", call, place)
    BY <1>0, <1>1, CallbackEnters DEF AnswerChallenge
  <2>2. UNCHANGED ProtocolNumbers
    BY <1>1 DEF CallbackCalls, AnswerChallenge, taskVars, ProtocolNumbers
  <2> QED BY <1>0, <2>1, <2>2, EnterBlocks
<1>2. CASE ReplaceProtocol
  <2>1. /\ protocols' = Append(protocols, NewProtocol)
        /\ workQueue' = Append(workQueue, SyncBlock("resume", "delegate"))
    BY <1>2 DEF ReplaceProtocol, Enter
  <2>2. SyncBlock("resume", "delegate") \in BlockType'
    BY <1>0, <2>1, ProtocolMade, BlocksTyped DEF Calls, Clients
  <2> QED BY <1>0, <2>1, <2>2, OneQueued
<1>3. CASE BeginCallback \/ EndNotification \/ LeaveUnanswered \/ EndInvalidation \/ EndChallenge
  <2>1. UNCHANGED workQueue
    BY <1>3 DEF BeginCallback, EndNotification, LeaveUnanswered, EndInvalidation, EndChallenge
  <2> QED BY <1>0, <2>1, NothingQueued
<1>4. CASE EndCompletion
  <2>1. /\ workQueue' = Append(workQueue, Block("remove", NoProtocol)) /\ state' = "completed"
        /\ UNCHANGED ProtocolNumbers
    BY <1>4 DEF EndCompletion, EndCallback, ProtocolNumbers
  <2>2. Block("remove", NoProtocol) \in BlockType' /\ NewBlock(Block("remove", NoProtocol))
    BY <2>1, Counts DEF Block, BlockType, BlockKinds, NoProtocol, NewBlock
  <2> QED BY <1>0, <2>1, <2>2, OneQueued
<1>5. CASE AnswerRedirect
  <2>1. PICK answer \in {"follow", "decline"} : workQueue' = Append(workQueue, Block(answer, Operation.p))
    BY <1>5 DEF AnswerRedirect
  <2>2. pc["delegate"] = "callback" /\ UNCHANGED ProtocolNumbers
    BY <1>5 DEF AnswerRedirect, EndCallback, ProtocolNumbers
  <2>3. Operation.p \in ProtocolNumbers
    BY <2>2, DelegatePlace, RunningOperation DEF OpType
  <2>4. Block(answer, Operation.p) \in BlockType' /\ NewBlock(Block(answer, Operation.p))
    BY <2>2, <2>3 DEF Block, BlockType, BlockKinds, NewBlock, OnProtocol
  <2> QED BY <1>0, <2>1, <2>4, OneQueued
<1> QED BY <1>1, <1>2, <1>3, <1>4, <1>5 DEF RunDelegate

(* Every step.                                                              *)
Calling == CheckState \/ Suspend \/ Resume \/ Cancel \/ CloseSession
Registering == AddTask \/ RemoveTask \/ FinishTasks \/ InvalidateSession
Applying == AppCalls \/ CancelTasks \/ LeaveInvalidation

LEMMA Steps ==
  ASSUME [Next]_vars
  PROVE  \/ LoadAction \/ Calling \/ Registering \/ CacheReplies \/ DeliverProtocol
         \/ Applying \/ RunDelegate \/ CallbackCalls \/ UNCHANGED vars
BY DEF Next, RunWork, LoadAction, Calling, Registering, Applying

LEMMA NextBlocks ==
  ASSUME Shape, [Next]_vars
  PROVE  Blocks
<1>1. CASE UNCHANGED vars
  BY <1>1, NothingQueued DEF vars, queueVars, Passed
<1>2. CASE ~UNCHANGED vars
  BY <1>2, Steps, LoadSteps, LoadBlocks, CallBlocks, SessionBlocks, CacheBlocks, AppBlocks, DelegateBlocks
  DEF Calling, Registering, Applying
<1> QED BY <1>1, <1>2

LEMMA CallGets ==
  ASSUME Shape, Calling
  PROVE  \/ \E callback \in Callbacks : GetProtocol(callback, Rest) /\ UNCHANGED delivering
         \/ UNCHANGED <<protocols, storage, delivering>>
<1>1. CASE Suspend
  BY <1>1 DEF Suspend, Callbacks
<1>2. CASE Resume
  BY <1>2 DEF Resume, Callbacks
<1>3. CASE Cancel
  BY <1>3 DEF Cancel, Callbacks
<1>4. CASE CheckState \/ CloseSession
  BY <1>4 DEF CheckState, CloseSession, taskVars
<1> QED BY <1>1, <1>2, <1>3, <1>4 DEF Calling

(* Storage that has been asked for a protocol does not forget it.           *)
LEMMA NextStorage ==
  ASSUME Shape, [Next]_vars
  PROVE  /\ ProtocolNumbers \subseteq ProtocolNumbers'
         /\ storage.kind \notin NoneYet => storage'.kind \notin NoneYet
<1>1. CASE LoadAction
  <2>1. Loads
    BY <1>1, LoadSteps
  <2>3. UNCHANGED storage \/ storage' = Invalidated
    <3>1. PICK queue : Ends(queue) \/ Tells \/ Goes(queue)
      BY <2>1 DEF Loads
    <3> QED BY <3>1, Zenon DEF Ends, Conclude, Tells, Tell, Goes
  <2>2. UNCHANGED storage \/ storage'.kind = "invalidated"
    BY <2>3 DEF Invalidated, Stored
  <2> QED BY <2>1, <2>2 DEF Loads, NoneYet
<1>2. CASE Calling
  <2>1. CASE UNCHANGED <<protocols, storage>>
    BY <2>1 DEF ProtocolNumbers
  <2>2. ASSUME NEW callback \in Callbacks, GetProtocol(callback, Rest), UNCHANGED delivering
        PROVE  /\ ProtocolNumbers \subseteq ProtocolNumbers'
               /\ storage.kind \notin NoneYet => UNCHANGED storage
    BY <2>2, Got DEF GetProtocol, NoneYet
  <2> QED BY <1>2, <2>1, <2>2, CallGets
<1>3. CASE CacheReplies \/ ReplaceProtocol
  <2>1. protocols' = Append(protocols, NewProtocol) /\ storage' = Stored("existing", Len(protocols) + 1, <<>>)
    BY <1>3 DEF CacheReplies, ReplaceProtocol
  <2> QED BY <2>1, ProtocolMade DEF Stored, NoneYet
<1>4. CASE UNCHANGED <<protocols, storage>>
  BY <1>4 DEF ProtocolNumbers
<1>5. Registering \/ DeliverProtocol \/ Applying \/ CallbackCalls \/ UNCHANGED vars => UNCHANGED <<protocols, storage>>
  BY DEF Registering, AddTask, RemoveTask, FinishTasks, InvalidateSession, DeliverProtocol, Applying,
     AppCalls, CancelTasks, LeaveInvalidation, CallbackCalls, taskVars, vars
<1>6. RunDelegate => UNCHANGED <<protocols, storage>> \/ ReplaceProtocol
  BY DEF RunDelegate, BeginCallback, EndNotification, LeaveUnanswered,
       EndInvalidation, AnswerRedirect, EndCompletion,
     AnswerChallenge, EndChallenge, EndCallback, taskVars
<1> QED BY <1>1, <1>2, <1>3, <1>4, <1>5, <1>6, Steps


(* The operations of a step: the end of the session is queued where the     *)
(* registry is left, and nothing is queued without a delegate.              *)
Leaving == Running("remove") \/ (Running("finish") /\ ~registered) \/ Running("invalidate")
NewOp(o) == delegate /\ (o.kind = "invalid" => Leaving)

Ops ==
  \E base : /\ Passed(delegateQueue, base)
            /\ base = delegateQueue \/ RunDelegate
            /\ \E ops \in Seq(OpType') : /\ delegateQueue' = base \o ops
                                         /\ \A k \in 1 .. Len(ops) : NewOp(ops[k])

LEMMA OpsFrom ==
  ASSUME Shape, ProtocolNumbers \subseteq ProtocolNumbers', Ops
  PROVE  /\ \A i \in 1 .. Len(delegateQueue') :
              \/ \E j \in 1 .. Len(delegateQueue) : delegateQueue'[i] = delegateQueue[j]
              \/ NewOp(delegateQueue'[i])
         /\ ~delegate /\ delegateQueue = <<>> => delegateQueue' = <<>>
<1>1. PICK base :
            /\ Passed(delegateQueue, base)
            /\ \E ops \in Seq(OpType') : /\ delegateQueue' = base \o ops
                                         /\ \A k \in 1 .. Len(ops) : NewOp(ops[k])
  BY DEF Ops
<1>2. PICK ops \in Seq(OpType') : /\ delegateQueue' = base \o ops
                                  /\ \A k \in 1 .. Len(ops) : NewOp(ops[k])
  BY <1>1
<1>3. PICK q, S : q = delegateQueue' /\ S = OpType'
  OBVIOUS
<1>30. delegateQueue \in Seq(S)
  <2>1. OpType \subseteq OpType'
    BY DEF OpType
  <2> QED BY <1>3, <2>1, SeqMonotonic DEF Shape, TypeOK, DelegateTypes, OpType
<1>4. \E d \in 0 .. 1 : Follows(delegateQueue, base, ops, q, d)
  BY <1>1, <1>2, <1>3, <1>30, FollowElements
<1>5. PICK d \in 0 .. 1 : Follows(delegateQueue, base, ops, q, d)
  BY <1>4
<1>6. \A i \in 1 .. Len(q) :
        \/ \E j \in 1 .. Len(delegateQueue) : q[i] = delegateQueue[j]
        \/ NewOp(q[i])
  BY <1>2, <1>5 DEF Follows
<1>7. ASSUME ~delegate, delegateQueue = <<>>
      PROVE  q = <<>>
  <2>1. q \in Seq(S)
    BY <1>1, <1>2, <1>3, <1>30, FollowElements
  <2>2. Len(q) \in Nat /\ Len(delegateQueue) = 0
    BY <1>7, <2>1, LenProperties
  <2>3. \A i \in 1 .. Len(q) : FALSE
    BY <1>6, <1>7, <2>2 DEF NewOp
  <2>4. Len(q) = 0
    BY <2>2, <2>3
  <2> QED BY <2>1, <2>4, EmptySeq
<1> QED BY <1>3, <1>6, <1>7

LEMMA NoOps ==
  ASSUME Shape, ProtocolNumbers \subseteq ProtocolNumbers', NEW base, Passed(delegateQueue, base),
         base = delegateQueue \/ RunDelegate, delegateQueue' = base
  PROVE  Ops
<1>0. OpType \subseteq OpType'
  BY DEF OpType
<1>1. base \in Seq(OpType)
  BY PassedElements DEF Shape, TypeOK, DelegateTypes, OpType
<1>2. base \o <<>> = base
  BY <1>1, ConcatEmptySeq
<1>3. <<>> \in Seq(OpType') /\ \A k \in 1 .. Len(<<>>) : NewOp(<<>>[k])
  OBVIOUS
<1> QED BY <1>2, <1>3 DEF Ops

LEMMA SomeOps ==
  ASSUME Shape, UNCHANGED ProtocolNumbers, NEW ops \in Seq(OpType),
         \A k \in 1 .. Len(ops) : NewOp(ops[k]), delegateQueue' = delegateQueue \o ops
  PROVE  Ops
<1>1. OpType' = OpType /\ Passed(delegateQueue, delegateQueue)
  BY DEF OpType, Passed
<1> QED BY <1>1 DEF Ops

LEMMA NextOps ==
  ASSUME Shape, [Next]_vars
  PROVE  Ops
<1>0. ProtocolNumbers \subseteq ProtocolNumbers' /\ Passed(delegateQueue, delegateQueue)
  BY NextStorage DEF Passed
<1>1. CASE UNCHANGED delegateQueue
  BY <1>0, <1>1, NoOps
<1>2. CASE LoadAction
  <2>1. UNCHANGED ProtocolNumbers
    BY <1>2, LoadSteps DEF Loads
  <2>2. PICK queue : Ends(queue) \/ (Tells /\ delegate) \/ Goes(queue)
    BY <1>2, LoadSteps DEF Loads
  <2>3. CASE Ends(queue)
    <3>1. PICK ops \in Seq(OpType) :
            /\ \A k \in 1 .. Len(ops) : ops[k].kind \in {"notify", "complete"}
            /\ Conclude(ops, queue)
      BY <2>3 DEF Ends
    <3>2. UNCHANGED delegateQueue \/ (delegate /\ delegateQueue' = delegateQueue \o ops)
      BY <3>1, Zenon DEF Conclude
    <3>3. delegate => \A k \in 1 .. Len(ops) : NewOp(ops[k])
      BY <3>1 DEF NewOp
    <3> QED BY <1>1, <2>1, <3>2, <3>3, SomeOps
  <2>4. CASE Tells /\ delegate
    <3>1. PICK op \in OpType : op.kind \in {"notify", "redirect", "challenge"} /\ Tell(op, workQueue)
      BY <2>4, Zenon DEF Tells
    <3>2. delegateQueue' = delegateQueue \o <<op>>
      <4>1. delegateQueue' = Append(delegateQueue, op)
        BY <3>1, Zenon DEF Tell
      <4> QED BY <4>1, FewOps
    <3>3. <<op>> \in Seq(OpType) /\ \A k \in 1 .. Len(<<op>>) : NewOp(<<op>>[k])
      BY <2>4, <3>1 DEF NewOp
    <3> QED BY <2>1, <3>2, <3>3, SomeOps
  <2>5. CASE Goes(queue)
    BY <1>1, <2>5 DEF Goes
  <2> QED BY <2>2, <2>3, <2>4, <2>5
<1>3. CASE Registering
  <2>1. UNCHANGED ProtocolNumbers
    BY <1>3 DEF Registering, AddTask, RemoveTask, FinishTasks, InvalidateSession, taskVars, ProtocolNumbers
  <2>2. UNCHANGED delegateQueue \/ (Leaving /\ delegateQueue' = delegateQueue \o Invalidation)
    BY <1>3 DEF Registering, AddTask, RemoveTask, FinishTasks, InvalidateSession, Leaving
  <2>3. Op("invalid", NoProtocol) \in OpType
    BY Counts DEF Op, OpType, OpKinds, NoProtocol
  <2>4. Invalidation \in Seq(OpType) /\ (Leaving => \A k \in 1 .. Len(Invalidation) : NewOp(Invalidation[k]))
    <3>1. CASE ~delegate
      BY <3>1 DEF Invalidation
    <3>2. CASE delegate
      <4>1. Invalidation = <<Op("invalid", NoProtocol)>>
        BY <3>2 DEF Invalidation
      <4>2. Invalidation \in Seq(OpType) /\ Len(Invalidation) = 1
        BY <2>3, <4>1
      <4> QED BY <3>2, <4>2 DEF NewOp
    <3> QED BY <3>1, <3>2
  <2> QED BY <1>1, <2>1, <2>2, <2>4, SomeOps
<1>4. CASE RunDelegate
  <2>1. UNCHANGED delegateQueue \/ (delegateQueue # <<>> /\ delegateQueue' = Tail(delegateQueue))
    BY <1>4, DelegatePlace DEF RunDelegate, BeginCallback, EndNotification, LeaveUnanswered,
         EndInvalidation, AnswerRedirect,
       EndCompletion, AnswerChallenge, ReplaceProtocol, EndChallenge, EndCallback
  <2> QED BY <1>0, <1>1, <1>4, <2>1, RunningOperation, NoOps
<1>5. Calling \/ CacheReplies \/ DeliverProtocol \/ Applying \/ CallbackCalls \/ UNCHANGED vars => UNCHANGED delegateQueue
  BY DEF Calling, CheckState, Suspend, Resume, Cancel, CloseSession, CacheReplies, DeliverProtocol, Applying,
     AppCalls, CancelTasks, LeaveInvalidation, CallbackCalls, queueVars, vars
<1> QED BY <1>1, <1>2, <1>3, <1>4, <1>5, Steps

-----------------------------------------------------------------------------
(* A cancelled task.  While the application has not started the task, only  *)
(* the application suspends and resumes it, and once it has, the callbacks  *)
(* of the delegate queue do, which do not complete the task meanwhile.      *)

Guarded == checked => ~Ended

(* The state of a task that has ended.                                      *)
LEMMA NextState ==
  ASSUME Shape, Guarded, [Next]_vars
  PROVE  /\ state = "completed" => state' = "completed"
         /\ Ended => Ended'
<1>1. CASE UNCHANGED state \/ state' = "completed"
  BY <1>1 DEF Ended
<1>2. CASE LoadAction
  <2>1. PICK queue : Ends(queue) \/ Tells \/ Goes(queue)
    BY <1>2, LoadSteps DEF Loads
  <2>2. UNCHANGED state \/ state' = "completed"
    BY <2>1, Zenon DEF Ends, Conclude, Tells, Tell, Goes
  <2> QED BY <1>1, <2>2
<1>3. CASE Suspend \/ Resume
  BY <1>3 DEF Suspend, Resume, Guarded, Ended
<1>4. CASE Cancel
  BY <1>4 DEF Cancel, Ended
<1>5. CASE CheckState \/ CloseSession \/ Registering
  <2>1. UNCHANGED state
    BY <1>5 DEF CheckState, CloseSession, Registering, AddTask, RemoveTask, FinishTasks, InvalidateSession, taskVars
  <2> QED BY <1>1, <2>1
<1>6. CASE RunDelegate
  <2>1. UNCHANGED state \/ state' = "completed"
    BY <1>6 DEF RunDelegate, BeginCallback, EndNotification, LeaveUnanswered,
         EndInvalidation, AnswerRedirect,
       EndCompletion, AnswerChallenge, ReplaceProtocol, EndChallenge, taskVars
  <2> QED BY <1>1, <2>1
<1>7. CASE CacheReplies \/ DeliverProtocol \/ Applying \/ CallbackCalls \/ UNCHANGED vars
  <2>1. UNCHANGED state
    BY <1>7 DEF CacheReplies, DeliverProtocol, Applying, AppCalls, CancelTasks, LeaveInvalidation,
       CallbackCalls, taskVars, vars
  <2> QED BY <1>1, <2>1
<1> QED BY <1>2, <1>3, <1>4, <1>5, <1>6, <1>7, Steps DEF Calling

(* What the application does, but for its next call.                        *)
AppGoesOn ==
  \/ pc'["app"] = pc["app"]
  \/ /\ Calling /\ Return /\ Head(workQueue).by = "app" /\ workQueue # <<>>
     /\ pc["app"] \in {"waiting", "closing", "cancelling"} /\ pc'["app"] = AfterCall[pc["app"]]
  \/ /\ CancelTasks /\ pc["app"] = "listing"
     /\ pc'["app"] = IF registered THEN "cancelling" ELSE "invalidating"
  \/ pc["app"] = "invalidating" /\ pc'["app"] = "idle"

LEMMA CallMoves ==
  ASSUME Shape, Calling
  PROVE  /\ UNCHANGED <<scenario, app>> /\ AppGoesOn
         /\ workQueue # <<>> /\ Head(workQueue) = workQueue[1] /\ 1 \in 1 .. Len(workQueue)
         /\ \E kind \in Synchronous : Running(kind) /\ Head(workQueue).kind = kind
         /\ Head(workQueue).by \in Clients /\ Waiting(Head(workQueue).by)
         /\ Head(workQueue).kind \in Expected[pc[Head(workQueue).by]]
<1>1. PICK kind \in Synchronous : Running(kind)
  <2>1. \E kind \in {"suspend", "resume", "cancel", "close"} : Running(kind)
    BY DEF Calling, CheckState, Suspend, Resume, Cancel, CloseSession
  <2> QED BY <2>1 DEF Synchronous, Calls
<1>2. /\ workQueue # <<>> /\ Head(workQueue) = workQueue[1] /\ 1 \in 1 .. Len(workQueue)
      /\ Head(workQueue).kind = kind /\ Head(workQueue) \in BlockType
  BY <1>1, RunningBlock
<1>3. PICK c : c = Head(workQueue).by
  OBVIOUS
<1>4. c \in Clients /\ Waiting(c) /\ kind \in Expected[pc[c]]
  BY <1>2, <1>3 DEF Shape, Callers, BlockType
<1>5. UNCHANGED <<scenario, app>> /\ (Return \/ UNCHANGED pc)
  BY DEF Calling, CheckState, Suspend, Resume, Cancel, CloseSession, clientVars, Return
<1>6. AppGoesOn
  <2>1. CASE UNCHANGED pc
    BY <2>1 DEF AppGoesOn
  <2>2. CASE Return
    <3>1. pc' = [pc EXCEPT ![c] = AfterCall[pc[c]]] /\ pc \in [Clients -> Places]
      BY <1>3, <2>2, DelegatePlace DEF Return
    <3>2. CASE c = "app"
      <4>1. pc["app"] \in {"waiting", "closing", "cancelling"}
        BY <1>4, <3>2, DelegatePlace DEF Waiting, AfterCall, AppPlaces
      <4> QED BY <1>2, <1>3, <2>2, <3>1, <3>2, <4>1 DEF AppGoesOn, Clients
    <3>3. CASE c # "app"
      BY <1>4, <3>1, <3>3 DEF AppGoesOn, Clients
    <3> QED BY <3>2, <3>3
  <2> QED BY <1>5, <2>1, <2>2
<1> QED BY <1>1, <1>2, <1>3, <1>4, <1>5, <1>6

LEMMA AppMoves ==
  ASSUME Shape, [Next]_vars, ~AppCalls
  PROVE  UNCHANGED <<scenario, app>> /\ AppGoesOn
<1>0. pc \in [Clients -> Places] /\ "app" \in Clients /\ "delegate" \in Clients
  BY DelegatePlace DEF Clients
<1>1. CASE Calling
  BY <1>1, CallMoves
<1>2. CASE UNCHANGED <<scenario, app, pc>>
  BY <1>2 DEF AppGoesOn
<1>3. LoadAction => UNCHANGED <<scenario, app, pc>>
  BY LoadSteps DEF Loads
<1>4. Registering \/ CacheReplies \/ DeliverProtocol \/ UNCHANGED vars => UNCHANGED <<scenario, app, pc>>
  BY DEF Registering, AddTask, RemoveTask, FinishTasks, InvalidateSession, CacheReplies, DeliverProtocol,
     clientVars, vars
<1>5. CASE CancelTasks
  BY <1>0, <1>5 DEF CancelTasks, Enter, AppGoesOn
<1>6. CASE LeaveInvalidation
  BY <1>0, <1>6 DEF LeaveInvalidation, AppGoesOn
<1>7. CASE RunDelegate \/ CallbackCalls
  <2>1. UNCHANGED <<scenario, app>>
    BY <1>7 DEF RunDelegate, BeginCallback, EndNotification, LeaveUnanswered,
         EndInvalidation, AnswerRedirect,
       EndCompletion, AnswerChallenge, ReplaceProtocol, EndChallenge, EndCallback, CallbackCalls
  <2>2. UNCHANGED pc \/ \E place : pc' = [pc EXCEPT !["delegate"] = place]
    BY <1>7 DEF RunDelegate, BeginCallback, EndNotification, LeaveUnanswered,
         EndInvalidation, AnswerRedirect,
       EndCompletion, AnswerChallenge, ReplaceProtocol, EndChallenge, EndCallback, CallbackCalls, Enter
  <2> QED BY <1>0, <2>1, <2>2 DEF AppGoesOn
<1> QED BY <1>1, <1>2, <1>3, <1>4, <1>5, <1>6, <1>7, Steps DEF Applying

(* Its next call.                                                           *)
LEMMA AppNext ==
  ASSUME Shape, AppCalls
  PROVE  /\ app # <<>> /\ app' = Tail(app) /\ pc["app"] = "idle"
         /\ UNCHANGED <<scenario, state, suspendCount, storage, protocols, delegateQueue, checked, registered>>
         /\ \/ Head(app) \in Calls /\ pc'["app"] = "waiting"
            \/ Head(app) \in SessionCalls /\ pc'["app"] \in {"closing", "idle"}
<1>0. pc \in [Clients -> Places] /\ "app" \in Clients
  BY DelegatePlace DEF Clients
<1>1. app # <<>> /\ app' = Tail(app) /\ pc["app"] = "idle" /\ Head(app) \in Calls \cup SessionCalls
  BY DelegatePlace, Dropped DEF AppCalls
<1>2. UNCHANGED <<scenario, state, suspendCount, storage, protocols, delegateQueue, checked, registered>>
  BY DEF AppCalls, taskVars, sessionVars
<1>3. CASE Head(app) \in Calls
  <2>1. Head(app) # "invalidateAndCancel" /\ Head(app) # "finishTasksAndInvalidate"
    BY <1>3 DEF Calls
  <2> QED BY <1>0, <1>1, <1>2, <1>3, <2>1 DEF AppCalls, Enter
<1>4. CASE Head(app) = "invalidateAndCancel"
  <2>1. Enter("app", "close", "closing")
    BY <1>4 DEF AppCalls, Calls
  <2> QED BY <1>0, <1>1, <1>2, <1>4, <2>1 DEF Enter, SessionCalls
<1>5. CASE Head(app) = "finishTasksAndInvalidate"
  <2>1. UNCHANGED pc
    BY <1>5 DEF AppCalls, Calls
  <2> QED BY <1>0, <1>1, <1>2, <1>5, <2>1 DEF SessionCalls
<1> QED BY <1>1, <1>3, <1>4, <1>5 DEF SessionCalls

(* The calls the application has made, and the one it waits for.            *)
Made == Len(scenario.app) - Len(app)

Program ==
  /\ Len(app) <= Len(scenario.app)
  /\ \A i \in 1 .. Len(app) : app[i] = scenario.app[Made + i]
  /\ pc["app"] = "waiting" =>
       /\ Made >= 1
       /\ \A i \in 1 .. Len(workQueue) : workQueue[i].by = "app" => workQueue[i].kind = scenario.app[Made]

LEMMA CallCounts ==
  ASSUME Shape, Program
  PROVE  /\ scenario.app \in Seq(Calls \cup SessionCalls) /\ Len(scenario.app) \in Nat
         /\ Len(app) \in Nat /\ Made \in 0 .. Len(scenario.app)
         /\ app # <<>> => /\ Head(app) = scenario.app[Made + 1] /\ Made + 1 \in 1 .. Len(scenario.app)
                          /\ Len(Tail(app)) = Len(app) - 1
                          /\ \A i \in 1 .. Len(Tail(app)) : i + 1 \in 1 .. Len(app) /\ Tail(app)[i] = app[i + 1]
<1>1. scenario \in Scenario
  BY ScenariosAssumption DEF Shape, TypeOK, OtherTypes
<1>2. scenario.app \in Seq(Calls \cup SessionCalls)
  BY <1>1 DEF Scenario
<1>3. Len(scenario.app) \in Nat /\ Len(app) \in Nat
  BY <1>2, LenProperties, DelegatePlace
<1>4. Made \in 0 .. Len(scenario.app)
  BY <1>3 DEF Made, Program
<1>5. ASSUME app # <<>>
      PROVE  /\ Head(app) = scenario.app[Made + 1] /\ Made + 1 \in 1 .. Len(scenario.app)
             /\ Len(Tail(app)) = Len(app) - 1
             /\ \A i \in 1 .. Len(Tail(app)) : i + 1 \in 1 .. Len(app) /\ Tail(app)[i] = app[i + 1]
  <2>1. /\ Head(app) = app[1] /\ Len(app) \in Nat \ {0} /\ Len(Tail(app)) = Len(app) - 1
        /\ \A i \in 1 .. Len(Tail(app)) : i + 1 \in 1 .. Len(app) /\ Tail(app)[i] = app[i + 1]
    BY <1>5, DelegatePlace, Dropped
  <2>2. 1 \in 1 .. Len(app)
    BY <2>1
  <2>3. app[1] = scenario.app[Made + 1]
    BY <2>2 DEF Program
  <2> QED BY <1>3, <1>4, <2>1, <2>3 DEF Made
<1> QED BY <1>2, <1>3, <1>4, <1>5

LEMMA ProgramNext ==
  ASSUME Shape, Program, [Next]_vars
  PROVE  Program'
<1>1. /\ Blocks /\ ProtocolNumbers \subseteq ProtocolNumbers'
  BY NextBlocks, NextStorage
<1>2. PICK d \in 0 .. 1 : \A i \in 1 .. Len(workQueue') :
              \/ i + d \in 1 .. Len(workQueue) /\ workQueue'[i] = workQueue[i + d]
              \/ NewBlock(workQueue'[i])
  BY <1>1, BlocksFrom
<1>3. /\ Len(scenario.app) \in Nat /\ Len(app) \in Nat /\ Made \in 0 .. Len(scenario.app)
  BY CallCounts
<1>4. CASE AppCalls
  <2>1. /\ app # <<>> /\ app' = Tail(app) /\ pc["app"] = "idle" /\ UNCHANGED scenario
    BY <1>4, AppNext
  <2>2. /\ Head(app) = scenario.app[Made + 1] /\ Made + 1 \in 1 .. Len(scenario.app)
        /\ Len(app') = Len(app) - 1
        /\ \A i \in 1 .. Len(app') : i + 1 \in 1 .. Len(app) /\ app'[i] = app[i + 1]
    BY <2>1, CallCounts
  <2>3. Made' = Made + 1 /\ Made' >= 1 /\ Len(app') <= Len(scenario'.app)
    BY <1>3, <2>1, <2>2 DEF Made
  <2>4. \A i \in 1 .. Len(app') : app'[i] = scenario'.app[Made' + i]
    <3> SUFFICES ASSUME NEW i \in 1 .. Len(app')
                 PROVE  app'[i] = scenario.app[Made' + i]
      BY <2>1
    <3>1. i + 1 \in 1 .. Len(app) /\ app'[i] = app[i + 1]
      BY <2>2
    <3>2. app[i + 1] = scenario.app[Made + (i + 1)]
      BY <3>1 DEF Program
    <3>3. Made + (i + 1) = Made' + i
      BY <1>3, <2>3
    <3> QED BY <3>1, <3>2, <3>3
  <2>5. ASSUME pc'["app"] = "waiting", NEW i \in 1 .. Len(workQueue'), workQueue'[i].by = "app"
        PROVE  workQueue'[i].kind = scenario'.app[Made']
    <3>1. CASE i + d \in 1 .. Len(workQueue) /\ workQueue'[i] = workQueue[i + d]
      <4>1. Waiting("app")
        BY <2>5, <3>1 DEF Shape, Callers
      <4> QED BY <2>1, <4>1 DEF Waiting, AfterCall
    <3>2. CASE NewBlock(workQueue'[i])
      <4>1. workQueue'[i].kind = Head(app)
        BY <2>5, <3>2 DEF NewBlock
      <4> QED BY <2>1, <2>2, <2>3, <4>1
    <3> QED BY <1>2, <3>1, <3>2
  <2> QED BY <2>3, <2>4, <2>5 DEF Program
<1>5. CASE ~AppCalls
  <2>1. UNCHANGED <<scenario, app>> /\ AppGoesOn
    BY <1>5, AppMoves
  <2>2. pc'["app"] = "waiting" => pc["app"] = "waiting"
    BY <2>1 DEF AppGoesOn, AfterCall
  <2>3. Made' = Made
    BY <2>1 DEF Made
  <2>4. ASSUME pc'["app"] = "waiting", NEW i \in 1 .. Len(workQueue'), workQueue'[i].by = "app"
        PROVE  workQueue'[i].kind = scenario'.app[Made']
    <3>1. CASE i + d \in 1 .. Len(workQueue) /\ workQueue'[i] = workQueue[i + d]
      BY <2>1, <2>2, <2>3, <2>4, <3>1 DEF Program
    <3>2. CASE NewBlock(workQueue'[i])
      BY <2>2, <2>4, <3>2 DEF NewBlock
    <3> QED BY <1>2, <3>1, <3>2
  <2> QED BY <2>1, <2>2, <2>3, <2>4 DEF Program
<1> QED BY <1>4, <1>5

(* Blocks that find things as they are: a callback of the protocol after the *)
(* task got one, the removal of the task after its end, and before its       *)
(* registration nothing of a session that is being closed.                  *)
Served == \A i \in 1 .. Len(workQueue) : workQueue[i].kind \in Callbacks => storage.kind \notin NoneYet
Removals == \A i \in 1 .. Len(workQueue) : workQueue[i].kind = "remove" => state = "completed"
AddFirst ==
  \A i \in 1 .. Len(workQueue) :
     workQueue[i].kind = "add" => i = 1 /\ pc["app"] \notin {"listing", "cancelling", "invalidating"}
Listed == ~registered => state = "completed" \/ Running("add")
Invalid ==
  \/ pc["app"] = "invalidating"
  \/ \E i \in 1 .. Len(workQueue) : workQueue[i].kind = "invalidate"
  \/ \E i \in 1 .. Len(delegateQueue) : delegateQueue[i].kind = "invalid"
Silent == ~scenario.delegate => ~delegate /\ delegateQueue = <<>>

Orderly == Served /\ Removals /\ AddFirst /\ Listed /\ (Invalid => Ended) /\ Silent

LEMMA ServedNext ==
  ASSUME Shape, Guarded, Served, Removals, [Next]_vars
  PROVE  Served' /\ Removals'
<1>1. /\ Blocks /\ ProtocolNumbers \subseteq ProtocolNumbers'
      /\ storage.kind \notin NoneYet => storage'.kind \notin NoneYet
      /\ state = "completed" => state' = "completed"
  BY NextBlocks, NextStorage, NextState
<1>2. PICK d \in 0 .. 1 : \A i \in 1 .. Len(workQueue') :
              \/ i + d \in 1 .. Len(workQueue) /\ workQueue'[i] = workQueue[i + d]
              \/ NewBlock(workQueue'[i])
  BY <1>1, BlocksFrom
<1>3. ASSUME NEW i \in 1 .. Len(workQueue')
      PROVE  /\ workQueue'[i].kind \in Callbacks => storage'.kind \notin NoneYet
             /\ workQueue'[i].kind = "remove" => state' = "completed"
  <2>1. CASE i + d \in 1 .. Len(workQueue) /\ workQueue'[i] = workQueue[i + d]
    BY <1>1, <2>1 DEF Served, Removals
  <2>2. CASE NewBlock(workQueue'[i])
    BY <2>2 DEF NewBlock, OnProtocol, Callbacks, Calls
  <2> QED BY <1>2, <2>1, <2>2
<1> QED BY <1>3 DEF Served, Removals

LEMMA AddRuns ==
  ASSUME RunWork, Running("add")
  PROVE  AddTask
BY DEF RunWork, Running, CheckState, Suspend, Resume, Cancel, RemoveTask, FinishTasks, CloseSession,
   InvalidateSession, StartLoading, StopLoading, CancelLoading, FulfilFromCache, FollowRedirect, DeclineRedirect

LEMMA AddFirstNext ==
  ASSUME Shape, AddFirst, [Next]_vars
  PROVE  AddFirst'
<1>1. Blocks /\ ProtocolNumbers \subseteq ProtocolNumbers'
  BY NextBlocks, NextStorage
<1>2. PICK d \in 0 .. 1 : \A i \in 1 .. Len(workQueue') :
              \/ i + d \in 1 .. Len(workQueue) /\ workQueue'[i] = workQueue[i + d]
              \/ NewBlock(workQueue'[i])
  BY <1>1, BlocksFrom
<1>3. SUFFICES ASSUME NEW i \in 1 .. Len(workQueue'), workQueue'[i].kind = "add"
               PROVE  i = 1 /\ pc'["app"] \notin {"listing", "cancelling", "invalidating"}
  BY DEF AddFirst
<1>4. i + d \in 1 .. Len(workQueue) /\ workQueue[i + d].kind = "add"
  BY <1>2, <1>3 DEF NewBlock, OnProtocol, Callbacks, Calls
<1>5. /\ i + d = 1 /\ i = 1 /\ 1 \in 1 .. Len(workQueue) /\ workQueue[1].kind = "add"
      /\ pc["app"] \notin {"listing", "cancelling", "invalidating"}
  BY <1>4 DEF AddFirst
<1>6. CASE AppCalls
  BY <1>5, <1>6, AppNext
<1>7. CASE ~AppCalls
  <2>1. AppGoesOn
    BY <1>7, AppMoves
  <2>2. ~Calling
    BY <1>5, CallMoves DEF Synchronous, Calls
  <2> QED BY <1>5, <2>1, <2>2 DEF AppGoesOn
<1> QED BY <1>6, <1>7

LEMMA NextRegistered ==
  ASSUME [Next]_vars
  PROVE  /\ registered' = registered \/ AddTask \/ RemoveTask
         /\ delegate' = delegate \/ (EndInvalidation /\ delegate' = FALSE)
<1>1. LoadAction => UNCHANGED sessionVars
  BY Zenon DEF LoadAction, StartLoading, StopLoading, CancelLoading, FulfilFromCache, FollowRedirect,
     DeclineRedirect, TransferEnds, TransferCompleted, TimedOut, ReceiveData
<1>2. Calling => UNCHANGED sessionVars
  BY DEF Calling, CheckState, Suspend, Resume, Cancel, CloseSession
<1>3. Registering => (registered' = registered \/ AddTask \/ RemoveTask) /\ UNCHANGED delegate
  BY DEF Registering, AddTask, RemoveTask, FinishTasks, InvalidateSession, sessionVars
<1>4. CacheReplies \/ DeliverProtocol \/ Applying \/ CallbackCalls \/ UNCHANGED vars => UNCHANGED sessionVars
  BY DEF CacheReplies, DeliverProtocol, Applying, AppCalls, CancelTasks, LeaveInvalidation, CallbackCalls,
     queueVars, vars
<1>5. RunDelegate => UNCHANGED registered /\ (UNCHANGED delegate \/ (EndInvalidation /\ delegate' = FALSE))
  BY DEF RunDelegate, BeginCallback, EndNotification, LeaveUnanswered,
       EndInvalidation, AnswerRedirect, EndCompletion,
     AnswerChallenge, ReplaceProtocol, EndChallenge, EndCallback, sessionVars
<1> QED BY <1>1, <1>2, <1>3, <1>4, <1>5, Steps DEF sessionVars

LEMMA RunningRemoval ==
  ASSUME Shape, Removals, Running("remove")
  PROVE  state = "completed"
BY RunningBlock DEF Removals

LEMMA ListedNext ==
  ASSUME Shape, Guarded, Listed, Removals, [Next]_vars
  PROVE  Listed'
<1>1. SUFFICES ASSUME ~registered'
               PROVE  state' = "completed" \/ Running("add")'
  BY DEF Listed
<1>2. state = "completed" => state' = "completed"
  BY NextState
<1>3. CASE RemoveTask
  BY <1>2, <1>3, RunningRemoval DEF RemoveTask
<1>4. CASE AddTask
  BY <1>1, <1>4 DEF AddTask
<1>5. CASE registered' = registered /\ ~AddTask
  <2>1. state = "completed" \/ Running("add")
    BY <1>1, <1>5 DEF Listed
  <2>2. CASE Running("add")
    <3>1. ~RunWork
      BY <1>5, <2>2, AddRuns
    <3>2. Blocks /\ ProtocolNumbers \subseteq ProtocolNumbers' /\ "add" \in BlockKinds
      BY NextBlocks, NextStorage DEF BlockKinds
    <3> QED BY <2>2, <3>1, <3>2, BlocksFrom
  <2> QED BY <1>2, <2>1, <2>2
<1> QED BY <1>3, <1>4, <1>5, NextRegistered

LEMMA LeavingEnds ==
  ASSUME Shape, Removals, Listed, Invalid => Ended, Leaving
  PROVE  Ended
<1>1. CASE Running("remove")
  BY <1>1, RunningRemoval DEF Ended
<1>2. CASE Running("finish") /\ ~registered
  BY <1>2 DEF Listed, Running, Ended
<1>3. CASE Running("invalidate")
  <2>1. 1 \in 1 .. Len(workQueue) /\ workQueue[1].kind = "invalidate"
    BY <1>3, RunningBlock
  <2> QED BY <2>1 DEF Invalid
<1> QED BY <1>1, <1>2, <1>3 DEF Leaving

LEMMA InvalidNext ==
  ASSUME Shape, Guarded, AddFirst, Removals, Listed, Invalid => Ended, [Next]_vars
  PROVE  Invalid' => Ended'
<1>1. CASE Ended
  BY <1>1, NextState
<1>2. CASE ~Ended
  <2>1. ~Invalid
    BY <1>2
  <2>2. Blocks /\ Ops /\ ProtocolNumbers \subseteq ProtocolNumbers'
    BY NextBlocks, NextOps, NextStorage
  <2>3. ASSUME NEW i \in 1 .. Len(workQueue'), workQueue'[i].kind = "invalidate"
        PROVE  FALSE
    <3>1. PICK d \in 0 .. 1 : \A k \in 1 .. Len(workQueue') :
              \/ k + d \in 1 .. Len(workQueue) /\ workQueue'[k] = workQueue[k + d]
              \/ NewBlock(workQueue'[k])
      BY <2>2, BlocksFrom
    <3>2. CASE i + d \in 1 .. Len(workQueue) /\ workQueue'[i] = workQueue[i + d]
      BY <2>1, <2>3, <3>2 DEF Invalid
    <3>3. CASE NewBlock(workQueue'[i])
      BY <2>1, <2>3, <3>3 DEF NewBlock, OnProtocol, Callbacks, Calls, Invalid
    <3> QED BY <3>1, <3>2, <3>3
  <2>4. ASSUME NEW i \in 1 .. Len(delegateQueue'), delegateQueue'[i].kind = "invalid"
        PROVE  FALSE
    <3>1. \/ \E j \in 1 .. Len(delegateQueue) : delegateQueue'[i] = delegateQueue[j]
          \/ NewOp(delegateQueue'[i])
      BY <2>2, OpsFrom
    <3>2. CASE \E j \in 1 .. Len(delegateQueue) : delegateQueue'[i] = delegateQueue[j]
      BY <2>1, <2>4, <3>2 DEF Invalid
    <3>3. CASE NewOp(delegateQueue'[i])
      BY <1>2, <2>4, <3>3, LeavingEnds DEF NewOp
    <3> QED BY <3>1, <3>2, <3>3
  <2>5. ASSUME pc'["app"] = "invalidating"
        PROVE  Ended'
    <3>1. pc["app"] # "invalidating"
      BY <2>1 DEF Invalid
    <3>2. ~AppCalls
      BY <2>5, AppNext
    <3>3. AppGoesOn
      BY <3>2, AppMoves
    <3>4. CASE Calling /\ Head(workQueue).by = "app" /\ pc'["app"] = AfterCall[pc["app"]]
               /\ pc["app"] \in {"waiting", "closing", "cancelling"}
      <4>1. pc["app"] = "cancelling"
        BY <2>5, <3>4 DEF AfterCall
      <4>2. Head(workQueue).kind = "cancel"
        BY <3>4, <4>1, CallMoves DEF Expected
      <4>3. Cancel
        BY <3>4, <4>2 DEF Calling, CheckState, Suspend, Resume, CloseSession, Running
      <4> QED BY <1>2, <4>3 DEF Cancel, Ended
    <3>5. CASE pc["app"] = "listing" /\ ~registered
      <4>1. Running("add")
        BY <1>2, <3>5 DEF Listed, Ended
      <4> QED BY <3>5, <4>1, RunningBlock DEF AddFirst
    <3> QED BY <2>5, <3>1, <3>3, <3>4, <3>5 DEF AppGoesOn
  <2> QED BY <2>3, <2>4, <2>5 DEF Invalid
<1> QED BY <1>1, <1>2

LEMMA SilentNext ==
  ASSUME Shape, Silent, [Next]_vars
  PROVE  Silent'
<1>1. UNCHANGED scenario
  BY AppNext, AppMoves
<1>2. Ops /\ ProtocolNumbers \subseteq ProtocolNumbers'
  BY NextOps, NextStorage
<1>3. ~delegate /\ delegateQueue = <<>> => delegateQueue' = <<>>
  BY <1>2, OpsFrom
<1> QED BY <1>1, <1>3, NextRegistered DEF Silent

LEMMA OrderlyNext ==
  ASSUME Shape, Guarded, Orderly, [Next]_vars
  PROVE  Orderly'
BY ServedNext, AddFirstNext, ListedNext, InvalidNext, SilentNext DEF Orderly

(* How often it is suspended now, 0 when it has been started.               *)
Depth(count) == IF pc["app"] = "waiting" THEN count[Made - 1] ELSE count[Made]

Unstarted(n) ==
  /\ state = "suspended" /\ suspendCount = n
  /\ protocols = <<>> /\ storage.kind = "toBeCreated"
  /\ delegateQueue = <<>>

Begun(count) == Depth(count) > 0 => Unstarted(Depth(count))
Beginning == ~Ended /\ Suspensions(scenario) # {} => \E count \in Suspensions(scenario) : Begun(count)

LEMMA SuspensionCounts ==
  ASSUME Shape, Program, NEW count \in Suspensions(scenario)
  PROVE  /\ Depth(count) \in Nat
         /\ \A i \in 1 .. Len(scenario.app) :
              /\ count[i] \in Nat /\ count[i - 1] \in Nat
              /\ scenario.app[i] \in Shifts => count[i - 1] > 0
              /\ scenario.app[i] = "suspend" => count[i] = count[i - 1] + 1
              /\ scenario.app[i] = "resume" => count[i] = count[i - 1] - 1
              /\ scenario.app[i] \notin Shifts => count[i] = count[i - 1]
<1>1. count \in [0 .. Len(scenario.app) -> 0 .. Len(scenario.app) + 1]
  BY DEF Suspensions
<1>2. Len(scenario.app) \in Nat /\ Made \in 0 .. Len(scenario.app)
  BY CallCounts
<1>3. Depth(count) \in Nat
  <2>1. pc["app"] = "waiting" => Made - 1 \in 0 .. Len(scenario.app)
    BY <1>2 DEF Program
  <2> QED BY <1>1, <1>2, <2>1 DEF Depth
<1>4. ASSUME NEW i \in 1 .. Len(scenario.app)
      PROVE  /\ count[i] \in Nat /\ count[i - 1] \in Nat
             /\ scenario.app[i] \in Shifts => count[i - 1] > 0
             /\ scenario.app[i] = "suspend" => count[i] = count[i - 1] + 1
             /\ scenario.app[i] = "resume" => count[i] = count[i - 1] - 1
             /\ scenario.app[i] \notin Shifts => count[i] = count[i - 1]
  <2>1. i \in 0 .. Len(scenario.app) /\ i - 1 \in 0 .. Len(scenario.app)
    BY <1>2
  <2>2. count[i] \in Nat /\ count[i - 1] \in Nat
    BY <1>1, <2>1
  <2>3. /\ scenario.app[i] \in Shifts => count[i - 1] > 0
        /\ count[i] = CASE scenario.app[i] = "suspend" -> count[i - 1] + 1
                        [] scenario.app[i] = "resume" -> count[i - 1] - 1
                        [] OTHER -> count[i - 1]
    BY DEF Suspensions
  <2>4. scenario.app[i] = "suspend" => scenario.app[i] # "resume"
    OBVIOUS
  <2> QED BY <2>2, <2>3, <2>4 DEF Shifts
<1> QED BY <1>3, <1>4

(* A call of the application to suspend or resume a task that it starts once *)
(* finds it as the application has left it.                                 *)
LEMMA OwnShift ==
  ASSUME Shape, Program, Beginning, Suspensions(scenario) # {}, ~Ended, NEW kind \in Shifts, Running(kind),
         Head(workQueue).by = "app"
  PROVE  /\ pc["app"] = "waiting"
         /\ Made \in 1 .. Len(scenario.app) /\ scenario.app[Made] = kind
         /\ \A count \in Suspensions(scenario) : Begun(count) => Unstarted(count[Made - 1]) /\ count[Made - 1] > 0
<1>1. 1 \in 1 .. Len(workQueue) /\ workQueue[1].kind = kind /\ workQueue[1].by = "app"
  BY RunningBlock
<1>2. Waiting("app") /\ kind \in Expected[pc["app"]]
  BY <1>1 DEF Shape, Callers
<1>3. pc["app"] = "waiting"
  BY <1>2, DelegatePlace DEF Waiting, Expected, Shifts, AfterCall, AppPlaces
<1>4. Made >= 1 /\ scenario.app[Made] = kind
  BY <1>1, <1>3 DEF Program
<1>5. Made \in 1 .. Len(scenario.app)
  BY <1>4, CallCounts
<1>6. ASSUME NEW count \in Suspensions(scenario), Begun(count)
      PROVE  Unstarted(count[Made - 1]) /\ count[Made - 1] > 0
  <2>1. count[Made - 1] > 0
    BY <1>4, <1>5, SuspensionCounts
  <2>2. Depth(count) = count[Made - 1]
    BY <1>3 DEF Depth
  <2> QED BY <1>6, <2>1, <2>2 DEF Begun
<1> QED BY <1>3, <1>4, <1>5, <1>6

LEMMA CheckedRuns ==
  ASSUME Shape, checked
  PROVE  \E kind \in Shifts : Running(kind)
BY DEF Shape, TypeOK, WorkTypes, Shifts

LEMMA ShiftRuns ==
  ASSUME RunWork, NEW kind \in Shifts, Running(kind)
  PROVE  CheckState \/ Suspend \/ Resume
BY DEF RunWork, Running, Shifts, Cancel, AddTask, RemoveTask, FinishTasks, CloseSession,
   InvalidateSession, StartLoading, StopLoading, CancelLoading, FulfilFromCache, FollowRedirect, DeclineRedirect

LEMMA GuardedNext ==
  ASSUME Shape, Program, Silent, Beginning, Guarded, StartsOnce(scenario), [Next]_vars
  PROVE  Guarded'
<1>1. CASE checked' = FALSE
  BY <1>1 DEF Guarded
<1>2. CASE UNCHANGED state /\ (UNCHANGED checked \/ ~Ended)
  BY <1>2 DEF Guarded, Ended
<1>3. Suspend \/ Resume \/ Cancel \/ CloseSession => checked' = FALSE
  BY DEF Suspend, Resume, Cancel, CloseSession, Return
<1>4. CheckState => checked' = FALSE \/ (UNCHANGED state /\ ~Ended)
  BY DEF CheckState, Return, taskVars
<1>5. CASE checked /\ ~(CheckState \/ Suspend \/ Resume)
  <2>1. PICK kind \in Shifts : Running(kind)
    BY <1>5, CheckedRuns
  <2>2. ~RunWork
    BY <1>5, <2>1, ShiftRuns
  <2>3. ~TransferEnds /\ ~(\E p \in 1 .. Len(protocols) : ReceiveData(p))
    BY <1>5 DEF TransferEnds, TransferCompleted, TimedOut, ReceiveData
  <2>4. ~LoadAction /\ ~Calling /\ ~Registering
    BY <2>2, <2>3, Zenon DEF LoadAction, Calling, Registering, RunWork
  <2>5. CacheReplies \/ DeliverProtocol \/ Applying \/ CallbackCalls \/ UNCHANGED vars => UNCHANGED <<state, checked>>
    BY DEF CacheReplies, DeliverProtocol, Applying, AppCalls, CancelTasks, LeaveInvalidation,
       CallbackCalls, taskVars, queueVars, vars
  <2>6. RunDelegate => UNCHANGED <<state, checked>> \/ EndCompletion
    BY DEF RunDelegate, BeginCallback, EndNotification, LeaveUnanswered, EndInvalidation, AnswerRedirect,
       AnswerChallenge, ReplaceProtocol, EndChallenge, EndCallback, taskVars
  <2>7. ~EndCompletion
    <3> SUFFICES ASSUME EndCompletion
                 PROVE  FALSE
      OBVIOUS
    <3>1. pc["delegate"] = "callback"
      BY DEF EndCompletion, EndCallback
    <3>2. delegateQueue # <<>>
      BY <3>1, DelegatePlace
    <3>3. Suspensions(scenario) # {} /\ ~Ended
      BY <1>5, <3>2 DEF Silent, Guarded, StartsOnce
    <3>4. 1 \in 1 .. Len(workQueue) /\ workQueue[1].kind = kind /\ workQueue[1] = Head(workQueue)
          /\ Head(workQueue) \in BlockType
      BY <2>1, RunningBlock
    <3>5. workQueue[1].by # "queue" /\ Waiting(workQueue[1].by)
      BY <3>4 DEF Shape, Callers, Synchronous, Calls, Shifts
    <3>6. workQueue[1].by # "delegate"
      BY <3>1, <3>5 DEF Waiting, AfterCall
    <3>7. Head(workQueue).by = "app"
      BY <3>4, <3>5, <3>6 DEF BlockType, Clients
    <3>8. PICK count \in Suspensions(scenario) : Begun(count)
      BY <3>3 DEF Beginning
    <3>9. Unstarted(count[Made - 1])
      BY <2>1, <3>3, <3>7, <3>8, OwnShift
    <3> QED BY <3>2, <3>9 DEF Unstarted
  <2> QED BY <1>2, <2>4, <2>5, <2>6, <2>7, Steps DEF Calling, Registering
<1>6. CASE ~checked
  <2>1. UNCHANGED checked \/ checked' = FALSE \/ CheckState
    <3>1. LoadAction => UNCHANGED checked
      BY LoadSteps DEF Loads
    <3>2. Registering \/ CacheReplies \/ DeliverProtocol \/ Applying \/ CallbackCalls \/ UNCHANGED vars => UNCHANGED checked
      BY DEF Registering, AddTask, RemoveTask, FinishTasks, InvalidateSession, CacheReplies, DeliverProtocol,
         Applying, AppCalls, CancelTasks, LeaveInvalidation, CallbackCalls, queueVars, vars
    <3>3. RunDelegate => UNCHANGED checked
      BY DEF RunDelegate, BeginCallback, EndNotification, LeaveUnanswered,
           EndInvalidation, AnswerRedirect, EndCompletion,
         AnswerChallenge, ReplaceProtocol, EndChallenge, EndCallback
    <3> QED BY <1>3, <3>1, <3>2, <3>3, Steps DEF Calling
  <2>2. UNCHANGED checked => checked' = FALSE
    BY <1>6 DEF Shape, TypeOK, WorkTypes
  <2> QED BY <1>1, <1>2, <1>4, <2>1, <2>2
<1> QED BY <1>1, <1>2, <1>3, <1>4, <1>5, <1>6

(* A task that is not started keeps what the application has made of it,    *)
(* unless it ends.                                                          *)
LEMMA UnstartedKept ==
  ASSUME Shape, Guarded, Orderly, [Next]_vars, ~Ended', NEW n, Unstarted(n),
         Suspend \/ Resume => Head(workQueue).by # "app"
  PROVE  Unstarted(n)'
<1>1. CASE UNCHANGED <<state, suspendCount, protocols, storage, delegateQueue>>
  BY <1>1 DEF Unstarted
<1>2. /\ protocols = <<>> /\ Len(protocols) = 0 /\ storage.kind \in NoneYet /\ storage.kind # "awaitingCacheReply"
      /\ delegateQueue = <<>> /\ pc["delegate"] = "idle"
  BY DelegatePlace DEF Unstarted, NoneYet
<1>3. ~Ended
  BY NextState
<1>4. ~LoadAction
  <2>1. \A kind \in Callbacks \cup OnProtocol : ~Running(kind)
    BY <1>2, RunningBlock DEF Orderly, Served
  <2>2. ~(StartLoading \/ StopLoading \/ CancelLoading)
    BY <2>1, Zenon DEF StartLoading, StopLoading, CancelLoading, Callbacks
  <2>3. ~(FulfilFromCache \/ FollowRedirect \/ DeclineRedirect)
    BY <2>1, Zenon DEF FulfilFromCache, FollowRedirect, DeclineRedirect, OnProtocol
  <2>4. 1 .. Len(protocols) = {}
    BY <1>2
  <2>5. ~TransferEnds /\ ~\E p \in 1 .. Len(protocols) : ReceiveData(p)
    BY <2>4 DEF TransferEnds
  <2> QED BY <2>2, <2>3, <2>5 DEF LoadAction
<1>5. CASE Calling
  <2>1. Head(workQueue).by = "app"
    BY <1>2, <1>5, CallMoves DEF Clients, Waiting, AfterCall
  <2>2. ~Cancel
    BY <1>3 DEF Cancel, Ended
  <2>3. CheckState \/ CloseSession
    BY <1>5, <2>1, <2>2 DEF Calling
  <2>4. UNCHANGED <<state, suspendCount, protocols, storage, delegateQueue>>
    BY <2>3 DEF CheckState, CloseSession, taskVars
  <2> QED BY <1>1, <2>4
<1>6. CASE Registering
  <2>1. ~Leaving
    BY <1>3, LeavingEnds DEF Orderly
  <2>2. UNCHANGED taskVars /\ UNCHANGED delegateQueue
    BY <1>6, <2>1 DEF Registering, AddTask, RemoveTask, FinishTasks, InvalidateSession, Leaving
  <2> QED BY <1>1, <2>2 DEF taskVars
<1>7. CASE DeliverProtocol \/ Applying \/ UNCHANGED vars
  <2>1. UNCHANGED <<state, suspendCount, protocols, storage, delegateQueue>>
    BY <1>7 DEF DeliverProtocol, Applying, AppCalls, CancelTasks, LeaveInvalidation, taskVars, queueVars, vars
  <2> QED BY <1>1, <2>1
<1>8. ~RunDelegate /\ ~CallbackCalls /\ ~CacheReplies
  BY <1>2 DEF RunDelegate, BeginCallback, EndNotification, LeaveUnanswered,
       EndInvalidation, AnswerRedirect, EndCompletion,
     AnswerChallenge, ReplaceProtocol, EndChallenge, EndCallback, CallbackCalls, CacheReplies
<1> QED BY <1>4, <1>5, <1>6, <1>7, <1>8, Steps

(* Its count goes on with the calls of the application that have returned.  *)
LEMMA DepthNext ==
  ASSUME Shape, Program, ~Ended', Guarded, [Next]_vars, NEW count \in Suspensions(scenario)
  PROVE  \/ Depth(count)' = Depth(count) /\ ~((Suspend \/ Resume) /\ Head(workQueue).by = "app" /\ pc["app"] = "waiting")
         \/ /\ Suspend \/ Resume
            /\ Head(workQueue).by = "app" /\ pc["app"] = "waiting"
            /\ Depth(count)' = count[Made]
<1>1. CASE AppCalls
  <2>1. /\ app # <<>> /\ app' = Tail(app) /\ pc["app"] = "idle" /\ UNCHANGED scenario
        /\ \/ Head(app) \in Calls /\ pc'["app"] = "waiting"
           \/ Head(app) \in SessionCalls /\ pc'["app"] # "waiting"
    BY <1>1, AppNext
  <2>2. /\ Made \in Nat /\ Len(scenario.app) \in Nat /\ Len(app) \in Nat /\ Len(app') = Len(app) - 1
        /\ Head(app) = scenario.app[Made + 1] /\ Made + 1 \in 1 .. Len(scenario.app)
    BY <2>1, CallCounts
  <2>3. Made' = Made + 1 /\ Made' - 1 = Made /\ (Made + 1) - 1 = Made
    BY <2>1, <2>2 DEF Made
  <2>4. Head(app) \in SessionCalls => count[Made + 1] = count[Made]
    <3> SUFFICES ASSUME Head(app) \in SessionCalls
                 PROVE  count[Made + 1] = count[Made]
      OBVIOUS
    <3>1. scenario.app[Made + 1] \notin Shifts
      BY <2>2 DEF SessionCalls, Shifts
    <3>2. count[Made + 1] = count[(Made + 1) - 1]
      BY <2>2, <3>1, SuspensionCounts
    <3> QED BY <2>3, <3>2
  <2>5. Depth(count)' = Depth(count)
    BY <2>1, <2>3, <2>4 DEF Depth
  <2> QED BY <2>1, <2>5
<1>2. CASE ~AppCalls
  <2>1. UNCHANGED <<scenario, app>> /\ AppGoesOn
    BY <1>2, AppMoves
  <2>2. Made' = Made
    BY <2>1 DEF Made
  <2>3. CASE (pc["app"] = "waiting") <=> (pc'["app"] = "waiting")
    <3>1. Depth(count)' = Depth(count)
      BY <2>2, <2>3 DEF Depth
    <3>2. ~((Suspend \/ Resume) /\ Head(workQueue).by = "app" /\ pc["app"] = "waiting")
      <4> SUFFICES ASSUME Suspend \/ Resume, Head(workQueue).by = "app", pc["app"] = "waiting"
                   PROVE  FALSE
        OBVIOUS
      <4>1. pc' = [pc EXCEPT !["app"] = AfterCall[@]]
        BY DEF Suspend, Resume, Return
      <4> QED BY <2>3, <4>1, DelegatePlace DEF AfterCall, Clients
    <3> QED BY <3>1, <3>2
  <2>4. CASE ~((pc["app"] = "waiting") <=> (pc'["app"] = "waiting"))
    <3>1. /\ pc["app"] = "waiting" /\ pc'["app"] = "idle" /\ Calling /\ Return
          /\ Head(workQueue).by = "app"
      BY <2>1, <2>4 DEF AppGoesOn, AfterCall
    <3>2. ~Cancel /\ ~(CheckState /\ Ended)
      <4>1. ~Ended
        BY NextState
      <4> QED BY <4>1 DEF Cancel, Ended
    <3>3. ~CloseSession
      <4>1. Head(workQueue).kind \in Calls
        BY <3>1, CallMoves DEF Expected
      <4> QED BY <4>1 DEF CloseSession, Running, Calls
    <3>4. ~CheckState
      <4> SUFFICES ASSUME CheckState
                   PROVE  FALSE
        OBVIOUS
      <4>1. UNCHANGED pc
        BY <3>2 DEF CheckState, clientVars
      <4> QED BY <2>4, <4>1
    <3>5. Suspend \/ Resume
      BY <3>1, <3>2, <3>3, <3>4 DEF Calling
    <3>6. Depth(count)' = count[Made]
      BY <2>2, <3>1 DEF Depth
    <3> QED BY <3>1, <3>5, <3>6
  <2> QED BY <2>3, <2>4
<1> QED BY <1>1, <1>2

LEMMA BeginningNext ==
  ASSUME Shape, Program, Orderly, Guarded, Beginning, [Next]_vars
  PROVE  Beginning'
<1>1. UNCHANGED scenario
  BY AppNext, AppMoves
<1>2. Suspensions(scenario)' = Suspensions(scenario)
  BY <1>1 DEF Suspensions
<1>3. SUFFICES ASSUME Suspensions(scenario) # {}, ~Ended'
               PROVE  \E count \in Suspensions(scenario) : Begun(count)'
  BY <1>1, <1>2 DEF Beginning
<1>4. ~Ended
  BY <1>3, NextState
<1>5. PICK count \in Suspensions(scenario) : Begun(count)
  BY <1>3, <1>4 DEF Beginning
<1>6. Depth(count) \in Nat
  BY SuspensionCounts
<1>7. CASE (Suspend \/ Resume) /\ Head(workQueue).by = "app"
  <2>1. PICK kind \in Shifts : Running(kind) /\ (kind = "suspend" => Suspend) /\ (kind = "resume" => Resume)
    BY <1>7 DEF Suspend, Resume, Shifts
  <2>2. /\ pc["app"] = "waiting" /\ Made \in 1 .. Len(scenario.app) /\ scenario.app[Made] = kind
        /\ Unstarted(count[Made - 1]) /\ count[Made - 1] > 0
    BY <1>3, <1>4, <1>5, <1>7, <2>1, OwnShift
  <2>3. Depth(count)' = count[Made]
    BY <1>3, <1>7, <2>2, DepthNext
  <2>4. /\ count[Made] \in Nat /\ count[Made - 1] \in Nat
        /\ kind = "suspend" => count[Made] = count[Made - 1] + 1
        /\ kind = "resume" => count[Made] = count[Made - 1] - 1
    BY <2>2, SuspensionCounts
  <2>5. suspendCount = count[Made - 1] /\ suspendCount # 0
    BY <2>2, <2>4 DEF Unstarted
  <2>6. CASE kind = "suspend"
    <3>1. /\ suspendCount' = count[Made] /\ state' = "suspended"
          /\ UNCHANGED <<storage, protocols, delegateQueue>>
      BY <2>1, <2>4, <2>5, <2>6 DEF Suspend
    <3> QED BY <2>2, <2>3, <3>1 DEF Begun, Unstarted
  <2>7. CASE kind = "resume"
    <3>1. OneLess = count[Made]
      BY <2>2, <2>4, <2>5, <2>7 DEF OneLess
    <3>2. count[Made] > 0 => /\ suspendCount' = count[Made] /\ state' = "suspended"
                             /\ UNCHANGED <<storage, protocols, delegateQueue>>
      BY <2>1, <2>4, <2>7, <3>1 DEF Resume
    <3> QED BY <2>2, <2>3, <3>2 DEF Begun, Unstarted
  <2> QED BY <2>1, <2>6, <2>7 DEF Shifts
<1>8. CASE ~((Suspend \/ Resume) /\ Head(workQueue).by = "app")
  <2>1. PICK n : n = Depth(count)
    OBVIOUS
  <2>2. Depth(count)' = n
    BY <1>3, <1>8, <2>1, DepthNext
  <2>3. n > 0 => Unstarted(n)
    BY <1>5, <2>1 DEF Begun
  <2>4. n > 0 => Unstarted(n)'
    BY <1>3, <1>8, <2>3, UnstartedKept
  <2>5. Begun(count)'
    BY <2>2, <2>4 DEF Begun, Unstarted
  <2> QED BY <2>5
<1> QED BY <1>7, <1>8

LEMMA InitCancel ==
  ASSUME Init
  PROVE  Program /\ Orderly /\ Guarded /\ Beginning
<1>1. /\ scenario \in Scenarios /\ app = scenario.app /\ state = "suspended" /\ suspendCount = 1
      /\ storage.kind = "toBeCreated" /\ protocols = <<>> /\ checked = FALSE /\ delegateQueue = <<>>
      /\ delegate = scenario.delegate
  BY DEF Init, Stored
<1>2. Len(workQueue) = 1 /\ workQueue[1].kind = "add" /\ workQueue[1].by = "queue" /\ Running("add")
  BY DEF Init, Block, Running
<1>3. pc["app"] = "idle"
  BY DEF Init
<1>4. Len(scenario.app) \in Nat
  BY <1>1, ScenariosAssumption, LenProperties DEF Scenario
<1>5. Made = 0
  BY <1>1, <1>4 DEF Made
<1>6. Program
  BY <1>1, <1>3, <1>4, <1>5 DEF Program
<1>7. \A i \in 1 .. Len(workQueue) : i = 1 /\ workQueue[i].kind = "add"
  BY <1>2
<1>8. Orderly
  <2>1. ~Invalid
    BY <1>1, <1>3, <1>7 DEF Invalid
  <2> QED BY <1>1, <1>2, <1>3, <1>7, <2>1 DEF Orderly, Served, Removals, AddFirst, Listed, Silent, Callbacks
<1>9. ~Ended
  BY <1>1 DEF Ended
<1>10. ASSUME Suspensions(scenario) # {}
       PROVE  \E count \in Suspensions(scenario) : Begun(count)
  <2>1. PICK count : count \in Suspensions(scenario)
    BY <1>10
  <2>2. count[0] = 1
    BY <2>1 DEF Suspensions
  <2>3. Depth(count) = 1
    BY <1>3, <1>5, <2>2 DEF Depth
  <2>4. Unstarted(1)
    BY <1>1 DEF Unstarted
  <2> QED BY <2>1, <2>3, <2>4 DEF Begun
<1> QED BY <1>1, <1>6, <1>8, <1>9, <1>10 DEF Guarded, Beginning

(* A cancelled task only completes and a completed one stays so, although   *)
(* suspend() and resume() test the state first and set it later             *)
(* (URLSessionTask.swift:436,455), while the delegate queue completes the   *)
(* task beside the work queue (URLSessionTask.swift:859): between the two,  *)
(* the completion must not be running.  That is so when the callbacks have  *)
(* the suspending and resuming of a started task to themselves.             *)
THEOREM CancelStaysFinal ==
  ASSUME \A s \in Scenarios : StartsOnce(s)
  PROVE  Spec => CancelIsFinal
<1>1. Init => Shape /\ Program /\ Orderly /\ Guarded /\ Beginning
  BY InitShape, InitCancel
<1>2. Shape /\ Program /\ Orderly /\ Guarded /\ Beginning /\ [Next]_vars
        => (Shape /\ Program /\ Orderly /\ Guarded /\ Beginning)'
  <2> SUFFICES ASSUME Shape, Program, Orderly, Guarded, Beginning, [Next]_vars
               PROVE  (Shape /\ Program /\ Orderly /\ Guarded /\ Beginning)'
    OBVIOUS
  <2>1. Shape' /\ Program' /\ Orderly' /\ Beginning'
    BY ShapeNext, ProgramNext, OrderlyNext, BeginningNext
  <2>2. StartsOnce(scenario)
    BY DEF Shape, TypeOK, OtherTypes
  <2>3. Guarded'
    BY <2>2, GuardedNext DEF Orderly
  <2> QED BY <2>1, <2>3
<1>3. Shape /\ Guarded /\ [Next]_vars
        => [/\ state = "completed" => state' = "completed"
            /\ state = "canceling" => state' \in {"canceling", "completed"}]_vars
  BY NextState DEF Ended
<1> QED BY <1>1, <1>2, <1>3, PTL DEF Spec, CancelIsFinal
-----------------------------------------------------------------------------
(* The completion.  In a session with a delegate a task is completed by the *)
(* callback that reports the completion: before the session lets go of its  *)
(* delegate, the cancellation that goes before has queued that callback.    *)

(* Where the elements of the queues go.                                     *)
Moved(d) ==
  /\ \A i \in 1 .. Len(workQueue) :
       i > d => i - d \in 1 .. Len(workQueue') /\ workQueue'[i - d] = workQueue[i]
  /\ \A i \in 1 .. Len(workQueue') :
       \/ i + d \in 1 .. Len(workQueue) /\ workQueue'[i] = workQueue[i + d]
       \/ NewBlock(workQueue'[i]) /\ i > Len(workQueue) - d
  /\ Len(workQueue) \in Nat
  /\ d = 1 => RunWork /\ workQueue # <<>>

OpsMoved(d) ==
  /\ \A i \in 1 .. Len(delegateQueue) :
       i > d => i - d \in 1 .. Len(delegateQueue') /\ delegateQueue'[i - d] = delegateQueue[i]
  /\ \A i \in 1 .. Len(delegateQueue') :
       \/ i + d \in 1 .. Len(delegateQueue) /\ delegateQueue'[i] = delegateQueue[i + d]
       \/ NewOp(delegateQueue'[i]) /\ i > Len(delegateQueue) - d
  /\ Len(delegateQueue) \in Nat
  /\ d = 1 => RunDelegate /\ delegateQueue # <<>>

LEMMA BlocksMove ==
  ASSUME Shape, [Next]_vars
  PROVE  \E d \in 0 .. 1 : Moved(d)
<1>0. ProtocolNumbers \subseteq ProtocolNumbers' /\ Blocks
  BY NextBlocks, NextStorage
<1>1. PICK base :
        /\ Passed(workQueue, base)
        /\ base = workQueue \/ RunWork
        /\ \/ workQueue' = base
           \/ \E b \in BlockType' : workQueue' = Append(base, b) /\ NewBlock(b)
  BY <1>0 DEF Blocks
<1>2. BlockType \subseteq BlockType'
  BY <1>0 DEF BlockType
<1>3. PICK S, q : S = BlockType' /\ q = workQueue'
  OBVIOUS
<1>4. workQueue \in Seq(S) /\ Len(workQueue) \in Nat
  BY <1>2, <1>3, SeqMonotonic, LenProperties DEF Shape, TypeOK, WorkTypes, BlockType
<1>5. CASE q = base
  <2>1. PICK d \in 0 .. 1 :
              /\ d <= Len(workQueue) /\ Len(workQueue) \in Nat /\ Len(q) = Len(workQueue) - d
              /\ \A i \in 1 .. Len(q) : i + d \in 1 .. Len(workQueue) /\ q[i] = workQueue[i + d]
    BY <1>1, <1>4, <1>5, PassedElements
  <2>2. d = 1 => RunWork /\ workQueue # <<>>
    <3>1. d = 1 => q # workQueue
      BY <2>1
    <3> QED BY <1>1, <1>5, <3>1 DEF Passed
  <2>3. \A i \in 1 .. Len(workQueue) :
          i > d => i - d \in 1 .. Len(q) /\ (i - d) + d = i
    BY <2>1
  <2>4. \A i \in 1 .. Len(workQueue) :
          i > d => i - d \in 1 .. Len(q) /\ q[i - d] = workQueue[i]
    BY <2>1, <2>3
  <2> QED BY <1>3, <2>1, <2>2, <2>4 DEF Moved
<1>6. ASSUME NEW b \in S, q = Append(base, b), NewBlock(b)
      PROVE  \E d \in 0 .. 1 : Moved(d)
  <2>1. \E d \in 0 .. 1, n \in 0 .. 1 : Grows(workQueue, base, b, q, d, n)
    BY <1>1, <1>4, <1>6, GrownElements
  <2>2. PICK d \in 0 .. 1, n \in 0 .. 1 : Grows(workQueue, base, b, q, d, n)
    BY <2>1
  <2>3. /\ d <= Len(workQueue) /\ Len(q) = Len(workQueue) - d + n
        /\ \A i \in 1 .. Len(q) :
              \/ i <= Len(workQueue) - d /\ i + d \in 1 .. Len(workQueue) /\ q[i] = workQueue[i + d]
              \/ i = Len(workQueue) - d + 1 /\ q[i] = b
    BY <2>2 DEF Grows
  <2>4. d = 1 => RunWork /\ workQueue # <<>>
    <3>1. d = 1 => workQueue # <<>> /\ base = Tail(workQueue)
      BY <2>2 DEF Grows
    <3>2. workQueue # <<>> => Tail(workQueue) # workQueue
      BY <1>4, Dropped
    <3> QED BY <1>1, <3>1, <3>2
  <2>5. \A i \in 1 .. Len(workQueue) :
          i > d => i - d \in 1 .. Len(q) /\ q[i - d] = workQueue[i]
    <3> SUFFICES ASSUME NEW i \in 1 .. Len(workQueue), i > d
                 PROVE  i - d \in 1 .. Len(q) /\ q[i - d] = workQueue[i]
      OBVIOUS
    <3>1. i - d \in 1 .. Len(q) /\ (i - d) + d = i /\ i - d # Len(workQueue) - d + 1
      BY <1>4, <2>3
    <3> QED BY <2>3, <3>1
  <2>6. \A i \in 1 .. Len(q) :
          \/ i + d \in 1 .. Len(workQueue) /\ q[i] = workQueue[i + d]
          \/ NewBlock(q[i]) /\ i > Len(workQueue) - d
    BY <1>4, <1>6, <2>3
  <2> QED BY <1>3, <1>4, <2>4, <2>5, <2>6 DEF Moved
<1> QED BY <1>1, <1>3, <1>5, <1>6

LEMMA OpsMove ==
  ASSUME Shape, [Next]_vars
  PROVE  \E d \in 0 .. 1 : OpsMoved(d)
<1>0. ProtocolNumbers \subseteq ProtocolNumbers' /\ Ops
  BY NextOps, NextStorage
<1>1. PICK base :
            /\ Passed(delegateQueue, base)
            /\ base = delegateQueue \/ RunDelegate
            /\ \E ops \in Seq(OpType') : /\ delegateQueue' = base \o ops
                                         /\ \A k \in 1 .. Len(ops) : NewOp(ops[k])
  BY <1>0 DEF Ops
<1>2. PICK ops \in Seq(OpType') : /\ delegateQueue' = base \o ops
                                  /\ \A k \in 1 .. Len(ops) : NewOp(ops[k])
  BY <1>1
<1>3. PICK q, S : q = delegateQueue' /\ S = OpType'
  OBVIOUS
<1>4. delegateQueue \in Seq(S) /\ Len(delegateQueue) \in Nat /\ Len(ops) \in Nat
  <2>1. OpType \subseteq OpType'
    BY <1>0 DEF OpType
  <2> QED BY <1>3, <2>1, SeqMonotonic, LenProperties DEF Shape, TypeOK, DelegateTypes, OpType
<1>5. \E d \in 0 .. 1 : Follows(delegateQueue, base, ops, q, d)
  BY <1>1, <1>2, <1>3, <1>4, FollowElements
<1>6. PICK d \in 0 .. 1 : Follows(delegateQueue, base, ops, q, d)
  BY <1>5
<1>7. /\ d <= Len(delegateQueue) /\ Len(q) = Len(delegateQueue) - d + Len(ops)
      /\ \A i \in 1 .. Len(q) :
           \/ i <= Len(delegateQueue) - d /\ i + d \in 1 .. Len(delegateQueue) /\ q[i] = delegateQueue[i + d]
           \/ \E k \in 1 .. Len(ops) : i = Len(delegateQueue) - d + k /\ q[i] = ops[k]
  BY <1>6 DEF Follows
<1>8. d = 1 => RunDelegate /\ delegateQueue # <<>>
  <2>1. d = 1 => delegateQueue # <<>> /\ base = Tail(delegateQueue)
    BY <1>6 DEF Follows
  <2>2. delegateQueue # <<>> => Tail(delegateQueue) # delegateQueue
    BY <1>4, Dropped
  <2> QED BY <1>1, <2>1, <2>2
<1>9. \A i \in 1 .. Len(delegateQueue) :
        i > d => i - d \in 1 .. Len(q) /\ q[i - d] = delegateQueue[i]
  <2> SUFFICES ASSUME NEW i \in 1 .. Len(delegateQueue), i > d
               PROVE  i - d \in 1 .. Len(q) /\ q[i - d] = delegateQueue[i]
    OBVIOUS
  <2>1. i - d \in 1 .. Len(q) /\ (i - d) + d = i /\ \A k \in 1 .. Len(ops) : i - d # Len(delegateQueue) - d + k
    BY <1>4, <1>7
  <2> QED BY <1>7, <2>1
<1>10. \A i \in 1 .. Len(q) :
         \/ i + d \in 1 .. Len(delegateQueue) /\ q[i] = delegateQueue[i + d]
         \/ NewOp(q[i]) /\ i > Len(delegateQueue) - d
  <2> SUFFICES ASSUME NEW i \in 1 .. Len(q)
               PROVE  \/ i + d \in 1 .. Len(delegateQueue) /\ q[i] = delegateQueue[i + d]
                      \/ NewOp(q[i]) /\ i > Len(delegateQueue) - d
    OBVIOUS
  <2>1. CASE \E k \in 1 .. Len(ops) : i = Len(delegateQueue) - d + k /\ q[i] = ops[k]
    <3>1. PICK k \in 1 .. Len(ops) : i = Len(delegateQueue) - d + k /\ q[i] = ops[k]
      BY <2>1
    <3>2. i > Len(delegateQueue) - d
      BY <1>4, <3>1
    <3>3. NewOp(q[i])
      BY <1>2, <3>1
    <3> QED BY <3>2, <3>3
  <2> QED BY <1>7, <2>1
<1> QED BY <1>3, <1>4, <1>8, <1>9, <1>10 DEF OpsMoved

(* The completion is reported by the callback that is running, or it has    *)
(* returned and the task is completed.                                      *)
InCallback == pc["delegate"] \in {"callback", "calling"}
Telling == InCallback /\ Operation.kind = "complete"

TellsOnce ==
  /\ completions \in 0 .. 1
  /\ Telling => completions = 1
  /\ completions = 1 => state = "completed" \/ Telling

LEMMA NextCallback ==
  ASSUME Shape, [Next]_vars, ~RunDelegate
  PROVE  /\ InCallback' = InCallback /\ completions' = completions
         /\ InCallback => Operation' = Operation
<1>0. pc \in [Clients -> Places] /\ "app" \in Clients /\ "delegate" \in Clients /\ "app" # "delegate"
  BY DelegatePlace DEF Clients
<1>1. InCallback' = InCallback
  <2>1. CASE pc'["delegate"] = pc["delegate"]
    BY <2>1 DEF InCallback
  <2>2. CASE Calling
    <3>1. UNCHANGED pc \/ pc' = [pc EXCEPT ![Head(workQueue).by] = AfterCall[pc[Head(workQueue).by]]]
      BY <2>2 DEF Calling, CheckState, Suspend, Resume, Cancel, CloseSession, Return, clientVars
    <3>2. Waiting(Head(workQueue).by)
      BY <2>2, CallMoves
    <3>3. CASE Head(workQueue).by = "delegate" /\ pc'["delegate"] = AfterCall[pc["delegate"]]
      <4>1. pc["delegate"] \in {"calling", "proposing", "retrying", "refusing"}
        BY <3>2, <3>3, DelegatePlace DEF Waiting, AfterCall, DelegatePlaces, Answering
      <4> QED BY <3>3, <4>1 DEF InCallback, AfterCall
    <3> QED BY <1>0, <2>1, <3>1, <3>3
  <2>3. CASE CallbackCalls
    BY <1>0, <2>3 DEF CallbackCalls, Enter, InCallback
  <2>4. LoadAction => UNCHANGED pc
    BY LoadSteps DEF Loads
  <2>5. Registering \/ CacheReplies \/ DeliverProtocol \/ UNCHANGED vars => UNCHANGED pc
    BY DEF Registering, AddTask, RemoveTask, FinishTasks, InvalidateSession, CacheReplies, DeliverProtocol,
       clientVars, vars
  <2>6. Applying => UNCHANGED pc \/ \E place : pc' = [pc EXCEPT !["app"] = place]
    <3>1. AppCalls => UNCHANGED pc \/ \E place : pc' = [pc EXCEPT !["app"] = place]
      <4> SUFFICES ASSUME AppCalls
                   PROVE  UNCHANGED pc \/ \E place : pc' = [pc EXCEPT !["app"] = place]
        OBVIOUS
      <4>1. Head(app) \in Calls \cup SessionCalls
        BY DelegatePlace, Dropped DEF AppCalls
      <4> QED BY <4>1 DEF AppCalls, Enter, SessionCalls, Calls
    <3>2. CancelTasks \/ LeaveInvalidation => UNCHANGED pc \/ \E place : pc' = [pc EXCEPT !["app"] = place]
      BY DEF CancelTasks, LeaveInvalidation, Enter
    <3> QED BY <3>1, <3>2 DEF Applying
  <2> QED BY <1>0, <2>1, <2>2, <2>3, <2>4, <2>5, <2>6, Steps
<1>2. completions' = completions
  <2>1. LoadAction => UNCHANGED completions
    BY LoadSteps DEF Loads
  <2>2. Calling => UNCHANGED completions
    BY DEF Calling, CheckState, Suspend, Resume, Cancel, CloseSession, Return, clientVars
  <2>3. Registering \/ CacheReplies \/ DeliverProtocol \/ Applying \/ CallbackCalls \/ UNCHANGED vars => UNCHANGED completions
    BY DEF Registering, AddTask, RemoveTask, FinishTasks, InvalidateSession, CacheReplies, DeliverProtocol,
       Applying, AppCalls, CancelTasks, LeaveInvalidation, CallbackCalls, clientVars, vars
  <2> QED BY <2>1, <2>2, <2>3, Steps
<1>3. ASSUME InCallback
      PROVE  Operation' = Operation
  <2>1. delegateQueue # <<>> /\ delegateQueue \in Seq(OpType)
    BY <1>3, DelegatePlace DEF InCallback, Shape, TypeOK, DelegateTypes, OpType
  <2>2. ProtocolNumbers \subseteq ProtocolNumbers' /\ Ops
    BY NextOps, NextStorage
  <2>3. PICK q, S : q = delegateQueue' /\ S = OpType'
    OBVIOUS
  <2>4. PICK ops \in Seq(S) : q = delegateQueue \o ops
    BY <2>2, <2>3 DEF Ops
  <2>5. delegateQueue \in Seq(S)
    <3>1. OpType \subseteq OpType'
      BY <2>2 DEF OpType
    <3> QED BY <2>1, <2>3, <3>1, SeqMonotonic
  <2>6. Head(q) = Head(delegateQueue)
    <3>1. Len(delegateQueue) \in Nat \ {0} /\ Len(ops) \in Nat /\ Head(delegateQueue) = delegateQueue[1]
      BY <2>1, <2>4, <2>5, Dropped, LenProperties
    <3>2. Len(q) = Len(delegateQueue) + Len(ops) /\ q[1] = delegateQueue[1] /\ q \in Seq(S)
      BY <2>4, <2>5, <3>1, ConcatProperties
    <3>3. q # <<>>
      BY <3>1, <3>2, EmptySeq
    <3> QED BY <3>1, <3>2, <3>3, Dropped
  <2> QED BY <2>3, <2>6 DEF Operation
<1> QED BY <1>1, <1>2, <1>3

LEMMA TellsOnceNext ==
  ASSUME Shape, Guarded, TellsOnce, [Next]_vars
  PROVE  TellsOnce' /\ (completions = 1 => completions' = 1)
<1>0. /\ pc \in [Clients -> Places] /\ "delegate" \in Clients /\ completions \in 0 .. 1
      /\ state = "completed" => state' = "completed"
  BY DelegatePlace, NextState DEF Clients, TellsOnce
<1>1. CASE ~RunDelegate
  <2>1. Telling' <=> Telling
    BY <1>1, NextCallback DEF Telling
  <2> QED BY <1>0, <1>1, <2>1, NextCallback DEF TellsOnce
<1>2. CASE BeginCallback
  <2>1. pc["delegate"] = "idle" /\ ~Telling /\ (completions = 1 => state = "completed") /\ UNCHANGED state
    BY <1>2 DEF BeginCallback, Telling, InCallback, TellsOnce, taskVars
  <2>2. CASE Reported
    <3>1. UNCHANGED <<pc, completions>>
      BY <1>2, <2>2 DEF BeginCallback
    <3>2. ~Telling'
      BY <2>1, <3>1 DEF Telling, InCallback
    <3> QED BY <1>0, <2>1, <3>1, <3>2 DEF TellsOnce
  <2>3. CASE ~Reported
    <3>1. /\ pc'["delegate"] = "callback" /\ Operation' = Operation
          /\ completions' = completions + IF Operation.kind = "complete" THEN 1 ELSE 0
      BY <1>0, <1>2, <2>3 DEF BeginCallback, Operation
    <3>2. Telling' <=> Operation.kind = "complete"
      BY <3>1 DEF Telling, InCallback
    <3>3. CASE Operation.kind = "complete"
      <4>1. completions = 0
        BY <1>0, <2>1, <2>3, <3>3 DEF Reported
      <4>2. completions' = 1
        BY <3>1, <3>3, <4>1
      <4> QED BY <3>2, <3>3, <4>1, <4>2 DEF TellsOnce
    <3>4. CASE Operation.kind # "complete"
      <4>1. completions' = completions
        BY <1>0, <3>1, <3>4
      <4> QED BY <1>0, <2>1, <3>2, <3>4, <4>1 DEF TellsOnce
    <3> QED BY <3>3, <3>4
  <2> QED BY <2>2, <2>3
<1>3. CASE EndCompletion
  <2>1. /\ pc["delegate"] = "callback" /\ Operation.kind = "complete" /\ pc'["delegate"] = "idle"
        /\ completions' = completions /\ state' = "completed"
    BY <1>0, <1>3 DEF EndCompletion, EndCallback
  <2>2. ~Telling'
    BY <2>1 DEF Telling, InCallback
  <2> QED BY <1>0, <2>1, <2>2 DEF TellsOnce
<1>4. CASE EndNotification \/ LeaveUnanswered \/
     EndInvalidation \/ AnswerRedirect \/ AnswerChallenge \/ ReplaceProtocol \/ EndChallenge
  <2>1. ~Telling
    <3>1. Operation.kind # "complete"
      BY <1>4, DelegatePlace DEF EndNotification, LeaveUnanswered,
           EndInvalidation, AnswerRedirect, AnswerChallenge,
         ReplaceProtocol, EndChallenge, EndCallback, Answering
    <3> QED BY <3>1 DEF Telling
  <2>2. completions' = completions /\ UNCHANGED state
    BY <1>4 DEF EndNotification, LeaveUnanswered, EndInvalidation, AnswerRedirect, AnswerChallenge,
       ReplaceProtocol, EndChallenge, EndCallback, taskVars
  <2>3. \E place \in {"idle", "refusing", "proposing", "retrying"} : pc' = [pc EXCEPT !["delegate"] = place]
    BY <1>4 DEF EndNotification, LeaveUnanswered, EndInvalidation, AnswerRedirect, AnswerChallenge,
       ReplaceProtocol, EndChallenge, EndCallback, Enter
  <2>4. ~Telling'
    BY <1>0, <2>3 DEF Telling, InCallback
  <2> QED BY <1>0, <2>1, <2>2, <2>4 DEF TellsOnce
<1> QED BY <1>1, <1>2, <1>3, <1>4 DEF RunDelegate

(* The completion has been reported, or its callback is queued.             *)
Completing == completions = 1 \/ \E i \in 1 .. Len(delegateQueue) : delegateQueue[i].kind = "complete"

(* A block of cancel() that will find a protocol to stop.                   *)
Cancelling(i) == workQueue[i].kind = "cancelled" /\ workQueue[i].p # NoProtocol

LeavingPlaces == {"closing", "listing", "cancelling", "invalidating"}

EndsReported == storage.kind = "invalidated" => Completing
Finished == state = "completed" => completions = 1
Parted == ~delegate => completions = 1
CompletesFirst ==
  \A i \in 1 .. Len(delegateQueue) : delegateQueue[i].kind = "invalid" =>
     completions = 1 \/ \E j \in 1 .. Len(delegateQueue) : j < i /\ delegateQueue[j].kind = "complete"
CancelsFirst ==
  \A i \in 1 .. Len(workQueue) : workQueue[i].kind = "invalidate" =>
     Completing \/ \E j \in 1 .. Len(workQueue) : j < i /\ Cancelling(j)
Cancelled ==
  state = "canceling" /\ scenario.cache = "none" =>
     Completing \/ \E j \in 1 .. Len(workQueue) : Cancelling(j)
Uncached ==
  /\ storage.kind = "awaitingCacheReply" => scenario.cache # "none"
  /\ scenario.delegate /\ pc["app"] \in LeavingPlaces => scenario.cache = "none"

Completed ==
  scenario.delegate => EndsReported /\ Finished /\ Parted /\ CompletesFirst /\ CancelsFirst /\ Cancelled

(* A callback of the completion leaves the queue when it has reported.      *)
LEMMA HeadReports ==
  ASSUME Shape, TellsOnce, Finished, RunDelegate, Operation.kind = "complete"
  PROVE  UNCHANGED delegateQueue \/ completions' = 1
<1>1. CASE BeginCallback
  <2>1. CASE Reported
    BY <1>1, <2>1 DEF BeginCallback, Reported, Finished
  <2>2. CASE ~Reported
    BY <1>1, <2>2 DEF BeginCallback
  <2> QED BY <2>1, <2>2
<1>2. CASE EndCompletion
  BY <1>2 DEF EndCompletion, EndCallback, TellsOnce, Telling, InCallback
<1>3. CASE EndNotification \/ LeaveUnanswered \/ EndInvalidation \/ AnswerRedirect \/ EndChallenge
  BY <1>3, DelegatePlace DEF EndNotification, LeaveUnanswered,
       EndInvalidation, AnswerRedirect, EndChallenge, EndCallback, Answering
<1>4. CASE AnswerChallenge \/ ReplaceProtocol
  BY <1>4 DEF AnswerChallenge, ReplaceProtocol
<1> QED BY <1>1, <1>2, <1>3, <1>4 DEF RunDelegate

LEMMA OperationIsHead ==
  ASSUME Shape, delegateQueue # <<>>
  PROVE  Operation = delegateQueue[1] /\ 1 \in 1 .. Len(delegateQueue)
<1>1. delegateQueue \in Seq(OpType)
  BY DEF Shape, TypeOK, DelegateTypes, OpType
<1>2. Head(delegateQueue) = delegateQueue[1] /\ Len(delegateQueue) \in Nat \ {0}
  BY <1>1, Dropped
<1> QED BY <1>2 DEF Operation

(* A completion stays in the queue, or is reported.                         *)
LEMMA CompletionStays ==
  ASSUME Shape, Guarded, TellsOnce, Finished, [Next]_vars, NEW d \in 0 .. 1, OpsMoved(d), ~UNCHANGED delegateQueue,
         NEW j \in 1 .. Len(delegateQueue), delegateQueue[j].kind = "complete"
  PROVE  \/ completions' = 1
         \/ j - d \in 1 .. Len(delegateQueue') /\ delegateQueue'[j - d].kind = "complete"
<1>1. CASE j > d
  BY <1>1 DEF OpsMoved
<1>2. CASE ~(j > d)
  <2>1. j = 1 /\ d = 1
    BY <1>2 DEF OpsMoved
  <2>2. RunDelegate /\ delegateQueue # <<>>
    BY <2>1 DEF OpsMoved
  <2> QED BY <2>1, <2>2, HeadReports, OperationIsHead
<1> QED BY <1>1, <1>2

LEMMA CompletingStays ==
  ASSUME Shape, Guarded, TellsOnce, Finished, Completing, [Next]_vars
  PROVE  Completing'
<1>1. completions = 1 => completions' = 1
  BY TellsOnceNext
<1>2. CASE UNCHANGED delegateQueue
  BY <1>1, <1>2 DEF Completing
<1>3. CASE ~UNCHANGED delegateQueue
  <2>1. PICK d \in 0 .. 1 : OpsMoved(d)
    BY OpsMove
  <2> QED BY <1>1, <1>3, <2>1, CompletionStays DEF Completing
<1> QED BY <1>2, <1>3

(* The end of the transfer queues it, if there is a delegate left.           *)
LEMMA EndsComplete ==
  ASSUME Shape, Guarded, TellsOnce, Finished, Parted, [Next]_vars, NEW queue, Ends(queue)
  PROVE  Completing'
<1>1. PICK ops \in Seq(OpType) :
        /\ Len(ops) >= 1 /\ \A k \in 1 .. Len(ops) : ops[k].kind = "complete" <=> k = Len(ops)
        /\ Conclude(ops, queue)
  BY DEF Ends
<1>2. CASE delegate
  <2>1. delegateQueue' = delegateQueue \o ops
    BY <1>1, <1>2, Zenon DEF Conclude
  <2>2. /\ delegateQueue \in Seq(OpType) /\ Len(delegateQueue) \in Nat /\ Len(ops) \in Nat
    BY LenProperties DEF Shape, TypeOK, DelegateTypes, OpType
  <2>3. PICK q : q = delegateQueue \o ops
    OBVIOUS
  <2>4. /\ Len(q) = Len(delegateQueue) + Len(ops)
        /\ \A i \in 1 .. Len(delegateQueue) + Len(ops) :
             q[i] = IF i <= Len(delegateQueue) THEN delegateQueue[i] ELSE ops[i - Len(delegateQueue)]
    BY <2>2, <2>3, ConcatProperties
  <2>5. /\ Len(q) \in 1 .. Len(q) /\ Len(q) \in 1 .. Len(delegateQueue) + Len(ops)
        /\ ~(Len(q) <= Len(delegateQueue)) /\ Len(q) - Len(delegateQueue) = Len(ops)
        /\ Len(ops) \in 1 .. Len(ops)
    BY <1>1, <2>2, <2>4
  <2>6. q[Len(q)] = ops[Len(ops)] /\ ops[Len(ops)].kind = "complete"
    BY <1>1, <2>4, <2>5
  <2> QED BY <2>1, <2>3, <2>5, <2>6 DEF Completing
<1>3. CASE ~delegate
  BY <1>3, TellsOnceNext DEF Parted, Completing
<1> QED BY <1>2, <1>3

LEMMA EndsReportedNext ==
  ASSUME Shape, Guarded, TellsOnce, Finished, Parted, EndsReported, [Next]_vars
  PROVE  EndsReported'
<1>1. CASE Completing
  BY <1>1, CompletingStays DEF EndsReported
<1>2. CASE ~Completing
  <2>0. storage.kind # "invalidated"
    BY <1>2 DEF EndsReported
  <2>1. CASE LoadAction
    <3>1. PICK queue : Ends(queue) \/ Tells \/ Goes(queue)
      BY <2>1, LoadSteps DEF Loads
    <3>2. Tells \/ Goes(queue) => UNCHANGED storage
      BY Zenon DEF Tells, Tell, Goes
    <3> QED BY <2>0, <3>1, <3>2, EndsComplete DEF EndsReported
  <2>2. CASE Calling
    <3>1. CASE UNCHANGED storage
      BY <2>0, <3>1 DEF EndsReported
    <3>2. ASSUME NEW callback \in Callbacks, GetProtocol(callback, Rest)
          PROVE  storage'.kind # "invalidated"
      <4>1. storage \in [kind : {"toBeCreated", "awaitingCacheReply", "existing", "invalidated"},
                         p : ProtocolNumbers, bag : Seq(Callbacks)]
        BY DEF Shape, TypeOK, TaskTypes
      <4>2. CASE storage.kind = "toBeCreated"
        BY <3>2, <4>1, <4>2 DEF GetProtocol, Stored
      <4>3. CASE storage.kind = "awaitingCacheReply"
        BY <3>2, <4>1, <4>3 DEF GetProtocol
      <4>4. CASE storage.kind = "existing"
        BY <3>2, <4>4 DEF GetProtocol
      <4> QED BY <2>0, <4>1, <4>2, <4>3, <4>4
    <3> QED BY <2>2, <3>1, <3>2, CallGets DEF EndsReported
  <2>3. CASE CacheReplies \/ ReplaceProtocol
    BY <2>3 DEF CacheReplies, ReplaceProtocol, Stored, EndsReported
  <2>4. CASE UNCHANGED storage
    BY <2>0, <2>4 DEF EndsReported
  <2>5. Registering \/ DeliverProtocol \/ Applying \/ CallbackCalls \/ UNCHANGED vars => UNCHANGED storage
    BY DEF Registering, AddTask, RemoveTask, FinishTasks, InvalidateSession, DeliverProtocol, Applying,
       AppCalls, CancelTasks, LeaveInvalidation, CallbackCalls, taskVars, vars
  <2>6. RunDelegate => UNCHANGED storage \/ ReplaceProtocol
    BY DEF RunDelegate, BeginCallback, EndNotification, LeaveUnanswered,
         EndInvalidation, AnswerRedirect, EndCompletion,
       AnswerChallenge, EndChallenge, EndCallback, taskVars
  <2> QED BY <2>1, <2>2, <2>3, <2>4, <2>5, <2>6, Steps
<1> QED BY <1>1, <1>2

LEMMA FinishedNext ==
  ASSUME Shape, Guarded, TellsOnce, Finished, Parted, [Next]_vars
  PROVE  Finished'
<1>0. completions = 1 => completions' = 1
  BY TellsOnceNext
<1>1. CASE UNCHANGED state \/ state' # "completed"
  BY <1>0, <1>1 DEF Finished
<1>2. CASE LoadAction
  <2>1. PICK queue : Ends(queue) \/ Tells \/ Goes(queue)
    BY <1>2, LoadSteps DEF Loads
  <2>2. UNCHANGED state \/ ~delegate
    BY <2>1, Zenon DEF Ends, Conclude, Tells, Tell, Goes
  <2> QED BY <1>0, <1>1, <2>2 DEF Parted, Finished
<1>3. CASE Calling
  <2>1. UNCHANGED state \/ state' # "completed"
    BY <1>3 DEF Calling, CheckState, Suspend, Resume, Cancel, CloseSession, taskVars
  <2> QED BY <1>1, <2>1
<1>4. CASE Registering \/ CacheReplies \/ DeliverProtocol \/ Applying \/ CallbackCalls \/ UNCHANGED vars
  <2>1. UNCHANGED state
    BY <1>4 DEF Registering, AddTask, RemoveTask, FinishTasks, InvalidateSession, CacheReplies, DeliverProtocol,
       Applying, AppCalls, CancelTasks, LeaveInvalidation, CallbackCalls, taskVars, vars
  <2> QED BY <1>1, <2>1
<1>5. CASE EndCompletion
  BY <1>0, <1>5 DEF EndCompletion, EndCallback, TellsOnce, Telling, InCallback, Finished
<1>6. CASE RunDelegate /\ ~EndCompletion
  <2>1. UNCHANGED state
    BY <1>6 DEF RunDelegate, BeginCallback, EndNotification, LeaveUnanswered,
         EndInvalidation, AnswerRedirect,
       AnswerChallenge, ReplaceProtocol, EndChallenge, EndCallback, taskVars
  <2> QED BY <1>1, <2>1
<1> QED BY <1>2, <1>3, <1>4, <1>5, <1>6, Steps

LEMMA PartedNext ==
  ASSUME Shape, Guarded, TellsOnce, Parted, CompletesFirst, [Next]_vars
  PROVE  Parted'
<1>0. completions = 1 => completions' = 1
  BY TellsOnceNext
<1>1. CASE EndInvalidation
  <2>1. Operation.kind = "invalid" /\ pc["delegate"] = "callback"
    BY <1>1 DEF EndInvalidation, EndCallback
  <2>2. delegateQueue[1].kind = "invalid" /\ 1 \in 1 .. Len(delegateQueue)
    BY <2>1, DelegatePlace, OperationIsHead
  <2>3. \A j \in 1 .. Len(delegateQueue) : ~(j < 1)
    OBVIOUS
  <2> QED BY <1>0, <2>2, <2>3 DEF CompletesFirst, Parted
<1>2. CASE delegate' = delegate
  BY <1>0, <1>2 DEF Parted
<1> QED BY <1>1, <1>2, NextRegistered

LEMMA CompletesFirstNext ==
  ASSUME Shape, Guarded, Orderly, TellsOnce, Finished, CompletesFirst, CancelsFirst, [Next]_vars
  PROVE  CompletesFirst'
<1>0. completions = 1 => completions' = 1
  BY TellsOnceNext
<1>1. CASE UNCHANGED delegateQueue
  BY <1>0, <1>1 DEF CompletesFirst
<1>2. CASE ~UNCHANGED delegateQueue
  <2>1. PICK d \in 0 .. 1 : OpsMoved(d)
    BY OpsMove
  <2>2. SUFFICES ASSUME NEW i \in 1 .. Len(delegateQueue'), delegateQueue'[i].kind = "invalid"
                 PROVE  \/ completions' = 1
                        \/ \E j \in 1 .. Len(delegateQueue') : j < i /\ delegateQueue'[j].kind = "complete"
    BY DEF CompletesFirst
  <2>3. ASSUME NEW j \in 1 .. Len(delegateQueue), delegateQueue[j].kind = "complete", j - d < i
        PROVE  \/ completions' = 1
               \/ \E k \in 1 .. Len(delegateQueue') : k < i /\ delegateQueue'[k].kind = "complete"
    BY <1>2, <2>1, <2>3, CompletionStays
  <2>4. CASE i + d \in 1 .. Len(delegateQueue) /\ delegateQueue'[i] = delegateQueue[i + d]
    <3>1. completions = 1 \/ \E j \in 1 .. Len(delegateQueue) : j < i + d /\ delegateQueue[j].kind = "complete"
      BY <2>2, <2>4 DEF CompletesFirst
    <3>2. \A j \in 1 .. Len(delegateQueue) : j < i + d => j - d < i
      OBVIOUS
    <3> QED BY <1>0, <2>3, <3>1, <3>2
  <2>5. CASE NewOp(delegateQueue'[i]) /\ i > Len(delegateQueue) - d
    <3>1. Leaving
      BY <2>2, <2>5 DEF NewOp
    <3>2. Completing
      <4>1. CASE Running("remove")
        BY <4>1, RunningRemoval DEF Orderly, Finished, Completing
      <4>2. CASE Running("finish") /\ ~registered
        BY <4>2 DEF Orderly, Listed, Running, Finished, Completing
      <4>3. CASE Running("invalidate")
        <5>1. 1 \in 1 .. Len(workQueue) /\ workQueue[1].kind = "invalidate"
          BY <4>3, RunningBlock
        <5>2. \A j \in 1 .. Len(workQueue) : ~(j < 1)
          OBVIOUS
        <5> QED BY <5>1, <5>2 DEF CancelsFirst
      <4> QED BY <3>1, <4>1, <4>2, <4>3 DEF Leaving
    <3>3. \A j \in 1 .. Len(delegateQueue) : j - d < i
      BY <2>1, <2>5 DEF OpsMoved
    <3> QED BY <1>0, <2>3, <3>2, <3>3 DEF Completing
  <2> QED BY <2>1, <2>4, <2>5 DEF OpsMoved
<1> QED BY <1>1, <1>2

(* A block of cancel() moves to the head of the queue, and ends the task.   *)
LEMMA CancelRuns ==
  ASSUME RunWork, Running("cancelled")
  PROVE  CancelLoading
BY DEF RunWork, Running, CheckState, Suspend, Resume, Cancel, AddTask, RemoveTask, FinishTasks, CloseSession,
   InvalidateSession, StartLoading, StopLoading, FulfilFromCache, FollowRedirect, DeclineRedirect

LEMMA CancelStays ==
  ASSUME Shape, Guarded, TellsOnce, Finished, Parted, [Next]_vars, NEW d \in 0 .. 1, Moved(d),
         ~UNCHANGED workQueue, NEW j \in 1 .. Len(workQueue), Cancelling(j)
  PROVE  \/ Completing'
         \/ j - d \in 1 .. Len(workQueue') /\ workQueue'[j - d].kind = "cancelled" /\ workQueue'[j - d].p # NoProtocol
<1>1. CASE j > d
  BY <1>1 DEF Moved, Cancelling
<1>2. CASE ~(j > d)
  <2>1. j = 1 /\ d = 1
    BY <1>2 DEF Moved
  <2>2. RunWork /\ workQueue # <<>> /\ workQueue \in Seq(BlockType)
    BY <2>1 DEF Moved, Shape, TypeOK, WorkTypes, BlockType
  <2>3. Head(workQueue) = workQueue[1]
    BY <2>2, Dropped
  <2>4. Running("cancelled") /\ Head(workQueue).p # NoProtocol
    BY <2>1, <2>2, <2>3 DEF Running, Cancelling
  <2>5. CancelLoading
    BY <2>2, <2>4, CancelRuns
  <2>6. PICK p : p = Head(workQueue).p
    OBVIOUS
  <2>7. Conclude(<<Op("complete", p)>>, Rest) /\ p \in ProtocolNumbers
    BY <2>4, <2>5, <2>6, RunningBlock, Counts DEF CancelLoading
  <2> QED BY <2>7, CompletionOps, EndsComplete
<1> QED BY <1>1, <1>2

LEMMA CancelsFirstNext ==
  ASSUME Shape, Guarded, Orderly, TellsOnce, Finished, Parted, CancelsFirst, Cancelled, Uncached, scenario.delegate, [Next]_vars
  PROVE  CancelsFirst'
<1>0. Completing => Completing'
  BY CompletingStays
<1>1. CASE UNCHANGED workQueue
  BY <1>0, <1>1 DEF CancelsFirst, Cancelling
<1>2. CASE ~UNCHANGED workQueue
  <2>1. PICK d \in 0 .. 1 : Moved(d)
    BY BlocksMove
  <2>2. SUFFICES ASSUME NEW i \in 1 .. Len(workQueue'), workQueue'[i].kind = "invalidate"
                 PROVE  \/ Completing'
                        \/ \E j \in 1 .. Len(workQueue') :
                             j < i /\ workQueue'[j].kind = "cancelled" /\ workQueue'[j].p # NoProtocol
    BY DEF CancelsFirst, Cancelling
  <2>3. ASSUME NEW j \in 1 .. Len(workQueue), Cancelling(j), j - d < i
        PROVE  \/ Completing'
               \/ \E k \in 1 .. Len(workQueue') :
                    k < i /\ workQueue'[k].kind = "cancelled" /\ workQueue'[k].p # NoProtocol
    BY <1>2, <2>1, <2>3, CancelStays
  <2>4. CASE i + d \in 1 .. Len(workQueue) /\ workQueue'[i] = workQueue[i + d]
    <3>1. Completing \/ \E j \in 1 .. Len(workQueue) : j < i + d /\ Cancelling(j)
      BY <2>2, <2>4 DEF CancelsFirst
    <3>2. \A j \in 1 .. Len(workQueue) : j < i + d => j - d < i
      OBVIOUS
    <3> QED BY <1>0, <2>3, <3>1, <3>2
  <2>5. CASE NewBlock(workQueue'[i]) /\ i > Len(workQueue) - d
    <3>1. pc["app"] = "invalidating"
      BY <2>2, <2>5 DEF NewBlock, OnProtocol, Callbacks, Calls
    <3>2. Ended /\ scenario.cache = "none"
      BY <3>1 DEF Orderly, Invalid, Uncached, LeavingPlaces
    <3>3. Completing \/ \E j \in 1 .. Len(workQueue) : Cancelling(j)
      BY <3>2 DEF Ended, Finished, Cancelled, Completing
    <3>4. \A j \in 1 .. Len(workQueue) : j - d < i
      BY <2>1, <2>5 DEF Moved
    <3> QED BY <1>0, <2>3, <3>3, <3>4
  <2> QED BY <2>1, <2>4, <2>5 DEF Moved
<1> QED BY <1>1, <1>2

LEMMA NextCancels ==
  ASSUME [Next]_vars, Shape
  PROVE  state' = "canceling" => state = "canceling" \/ (Cancel /\ ~Ended)
<1>1. LoadAction => UNCHANGED state \/ state' = "completed"
  <2> SUFFICES ASSUME LoadAction
               PROVE  UNCHANGED state \/ state' = "completed"
    OBVIOUS
  <2>1. PICK queue : Ends(queue) \/ Tells \/ Goes(queue)
    BY LoadSteps DEF Loads
  <2> QED BY <2>1, Zenon DEF Ends, Conclude, Tells, Tell, Goes
<1>2. Calling => UNCHANGED state \/ state' # "canceling" \/ (Cancel /\ ~Ended)
  BY DEF Calling, CheckState, Suspend, Resume, Cancel, CloseSession, taskVars
<1>3. Registering \/ CacheReplies \/ DeliverProtocol \/ Applying \/ CallbackCalls \/ UNCHANGED vars => UNCHANGED state
  BY DEF Registering, AddTask, RemoveTask, FinishTasks, InvalidateSession, CacheReplies, DeliverProtocol,
     Applying, AppCalls, CancelTasks, LeaveInvalidation, CallbackCalls, taskVars, vars
<1>4. RunDelegate => UNCHANGED state \/ state' = "completed"
  BY DEF RunDelegate, BeginCallback, EndNotification, LeaveUnanswered,
       EndInvalidation, AnswerRedirect, EndCompletion,
     AnswerChallenge, ReplaceProtocol, EndChallenge, EndCallback, taskVars
<1> QED BY <1>1, <1>2, <1>3, <1>4, Steps

LEMMA CancelledNext ==
  ASSUME Shape, Guarded, TellsOnce, Finished, Parted, EndsReported, Cancelled, Uncached, [Next]_vars
  PROVE  Cancelled'
<1>0. (Completing => Completing') /\ UNCHANGED scenario
  BY CompletingStays, AppNext, AppMoves
<1>1. SUFFICES ASSUME state' = "canceling", scenario.cache = "none", ~Completing'
               PROVE  \E j \in 1 .. Len(workQueue') :
                        workQueue'[j].kind = "cancelled" /\ workQueue'[j].p # NoProtocol
  BY <1>0 DEF Cancelled, Cancelling
<1>2. CASE state = "canceling"
  <2>1. PICK j \in 1 .. Len(workQueue) : Cancelling(j)
    BY <1>0, <1>1, <1>2 DEF Cancelled
  <2>2. CASE UNCHANGED workQueue
    BY <2>1, <2>2 DEF Cancelling
  <2>3. CASE ~UNCHANGED workQueue
    <3>1. PICK d \in 0 .. 1 : Moved(d)
      BY BlocksMove
    <3> QED BY <1>1, <2>1, <2>3, <3>1, CancelStays
  <2> QED BY <2>2, <2>3
<1>3. CASE Cancel /\ ~Ended
  <2>1. GetProtocol("cancelled", Rest) /\ Running("cancel")
    BY <1>3 DEF Cancel
  <2>2. /\ storage \in [kind : {"toBeCreated", "awaitingCacheReply", "existing", "invalidated"},
                         p : ProtocolNumbers, bag : Seq(Callbacks)]
        /\ storage.kind = "existing" => storage.p # NoProtocol
    BY DEF Shape, TypeOK, TaskTypes
  <2>3. storage.kind # "awaitingCacheReply" /\ storage.kind # "invalidated"
    BY <1>0, <1>1 DEF Uncached, EndsReported
  <2>4. \E p \in Nat : p # NoProtocol /\ workQueue' = Append(Rest, Block("cancelled", p))
    <3>1. CASE storage.kind = "toBeCreated"
      <4>1. workQueue' = Append(Rest, Block("cancelled", Len(protocols) + 1))
        BY <1>1, <2>1, <3>1 DEF GetProtocol
      <4> QED BY <4>1, Counts DEF NoProtocol
    <3>2. CASE storage.kind = "existing"
      <4>1. workQueue' = Append(Rest, Block("cancelled", storage.p))
        BY <2>1, <3>2 DEF GetProtocol
      <4>2. storage.p \in Nat
        BY <2>2, Counts
      <4> QED BY <2>2, <3>2, <4>1, <4>2
    <3> QED BY <2>2, <2>3, <3>1, <3>2
  <2>5. PICK p \in Nat : p # NoProtocol /\ workQueue' = Append(Rest, Block("cancelled", p))
    BY <2>4
  <2>6. PICK S, b : b = Block("cancelled", p) /\ S = BlockType \cup {b}
    OBVIOUS
  <2>7. Rest \in Seq(S)
    BY <2>1, <2>6, RunningBlock, SeqMonotonic
  <2>8. /\ Append(Rest, b)[Len(Rest) + 1] = b /\ Len(Append(Rest, b)) = Len(Rest) + 1 /\ Len(Rest) \in Nat
    BY <2>6, <2>7, Added
  <2>9. Len(Rest) + 1 \in 1 .. Len(workQueue') /\ workQueue'[Len(Rest) + 1] = b
    BY <2>5, <2>6, <2>8
  <2> QED BY <2>5, <2>6, <2>9 DEF Block
<1> QED BY <1>1, <1>2, <1>3, NextCancels

LEMMA UncachedNext ==
  ASSUME Shape, Program, Uncached, StaysWhileCached(scenario), [Next]_vars
  PROVE  Uncached'
<1>0. UNCHANGED scenario
  BY AppNext, AppMoves
<1>1. storage'.kind = "awaitingCacheReply" => scenario.cache # "none"
  <2>0. /\ storage \in [kind : {"toBeCreated", "awaitingCacheReply", "existing", "invalidated"},
                         p : ProtocolNumbers, bag : Seq(Callbacks)]
    BY DEF Shape, TypeOK, TaskTypes
  <2>1. CASE LoadAction
    <3>1. PICK queue : Ends(queue) \/ Tells \/ Goes(queue)
      BY <2>1, LoadSteps DEF Loads
    <3>2. UNCHANGED storage \/ storage' = Invalidated
      BY <3>1, Zenon DEF Ends, Conclude, Tells, Tell, Goes
    <3> QED BY <3>2 DEF Uncached, Invalidated, Stored
  <2>2. CASE Calling
    <3>1. CASE UNCHANGED storage
      BY <3>1 DEF Uncached
    <3>2. ASSUME NEW callback \in Callbacks, GetProtocol(callback, Rest)
          PROVE  storage'.kind = "awaitingCacheReply" => scenario.cache # "none"
      <4>2. CASE storage.kind = "toBeCreated" /\ scenario.cache # "none"
        BY <4>2
      <4>3. CASE storage.kind = "toBeCreated" /\ scenario.cache = "none"
        BY <3>2, <4>3 DEF GetProtocol, Stored
      <4>4. CASE storage.kind = "awaitingCacheReply"
        BY <4>4 DEF Uncached
      <4>5. CASE storage.kind \notin {"toBeCreated", "awaitingCacheReply"}
        BY <3>2, <4>5 DEF GetProtocol
      <4> QED BY <4>2, <4>3, <4>4, <4>5
    <3> QED BY <2>2, <3>1, <3>2, CallGets
  <2>3. CASE CacheReplies \/ ReplaceProtocol
    BY <2>3 DEF CacheReplies, ReplaceProtocol, Stored
  <2>4. CASE UNCHANGED storage
    BY <2>4 DEF Uncached
  <2>5. Registering \/ DeliverProtocol \/ Applying \/ CallbackCalls \/ UNCHANGED vars => UNCHANGED storage
    BY DEF Registering, AddTask, RemoveTask, FinishTasks, InvalidateSession, DeliverProtocol, Applying,
       AppCalls, CancelTasks, LeaveInvalidation, CallbackCalls, taskVars, vars
  <2>6. RunDelegate => UNCHANGED storage \/ ReplaceProtocol
    BY DEF RunDelegate, BeginCallback, EndNotification, LeaveUnanswered,
         EndInvalidation, AnswerRedirect, EndCompletion,
       AnswerChallenge, EndChallenge, EndCallback, taskVars
  <2> QED BY <2>1, <2>2, <2>3, <2>4, <2>5, <2>6, Steps
<1>2. ASSUME scenario.delegate, pc'["app"] \in LeavingPlaces
      PROVE  scenario.cache = "none"
  <2>1. CASE AppCalls
    <3>1. /\ app # <<>> /\ pc["app"] = "idle" /\ Head(app) \in Calls \cup SessionCalls
      BY <2>1, DelegatePlace, Dropped DEF AppCalls
    <3>2. CASE Head(app) = "invalidateAndCancel"
      <4>1. Head(app) = scenario.app[Made + 1] /\ Made + 1 \in 1 .. Len(scenario.app)
        BY <3>1, CallCounts
      <4> QED BY <1>2, <3>2, <4>1 DEF StaysWhileCached
    <3>3. CASE Head(app) # "invalidateAndCancel"
      <4>1. Head(app) \in Calls \/ Head(app) = "finishTasksAndInvalidate"
        BY <3>1, <3>3 DEF SessionCalls
      <4>2. pc'["app"] = "waiting" \/ pc'["app"] = pc["app"]
        <5>1. CASE Head(app) \in Calls
          BY <2>1, <5>1, AppNext DEF Calls, SessionCalls
        <5>2. CASE Head(app) = "finishTasksAndInvalidate"
          BY <2>1, <5>2 DEF AppCalls, Calls
        <5> QED BY <4>1, <5>1, <5>2
      <4> QED BY <1>2, <3>1, <4>2 DEF LeavingPlaces
    <3> QED BY <3>2, <3>3
  <2>2. CASE ~AppCalls
    <3>1. AppGoesOn
      BY <2>2, AppMoves
    <3>2. pc["app"] \in LeavingPlaces
      BY <1>2, <3>1 DEF AppGoesOn, AfterCall, LeavingPlaces
    <3> QED BY <1>2, <3>2 DEF Uncached
  <2> QED BY <2>1, <2>2
<1> QED BY <1>0, <1>1, <1>2 DEF Uncached

LEMMA CompletedNext ==
  ASSUME Shape, Program, Guarded, Orderly, TellsOnce, Completed, Uncached, [Next]_vars
  PROVE  Completed'
<1>1. UNCHANGED scenario
  BY AppNext, AppMoves
<1>2. SUFFICES ASSUME scenario.delegate
               PROVE  (EndsReported /\ Finished /\ Parted /\ CompletesFirst /\ CancelsFirst /\ Cancelled)'
  BY <1>1 DEF Completed
<1>3. EndsReported /\ Finished /\ Parted /\ CompletesFirst /\ CancelsFirst /\ Cancelled
  BY <1>2 DEF Completed
<1> QED BY <1>2, <1>3, EndsReportedNext, FinishedNext, PartedNext, CompletesFirstNext, CancelsFirstNext, CancelledNext

LEMMA InitCompleted ==
  ASSUME Init
  PROVE  TellsOnce /\ Completed /\ Uncached
<1>1. /\ state = "suspended" /\ storage.kind = "toBeCreated" /\ delegateQueue = <<>> /\ delegate = scenario.delegate
      /\ completions = 0 /\ pc["app"] = "idle" /\ pc["delegate"] = "idle"
      /\ Len(workQueue) = 1 /\ workQueue[1].kind = "add"
  BY DEF Init, Stored, Block
<1>2. TellsOnce
  BY <1>1 DEF TellsOnce, Telling, InCallback
<1>3. \A i \in 1 .. Len(workQueue) : workQueue[i].kind = "add"
  BY <1>1
<1>4. CancelsFirst
  BY <1>3 DEF CancelsFirst
<1>5. CompletesFirst
  BY <1>1 DEF CompletesFirst
<1>6. Completed
  BY <1>1, <1>4, <1>5 DEF Completed, EndsReported, Finished, Parted, Cancelled
<1>7. Uncached
  BY <1>1 DEF Uncached, LeavingPlaces
<1> QED BY <1>2, <1>6, <1>7

(* A task of a session with a delegate is completed, and so leaves the      *)
(* registry (URLSessionTask.swift:859), only after its completion was       *)
(* reported, however timeouts, cancels and the invalidation of the session, *)
(* which drops the delegate, race.  invalidateAndCancel() must not meet a   *)
(* task that waits for the cache: its cancellation is then still to come    *)
(* when the delegate is dropped.                                            *)
THEOREM CompletionStaysReported ==
  ASSUME \A s \in Scenarios : StartsOnce(s) /\ StaysWhileCached(s)
  PROVE  Spec => []CompletionIsReported
<1> DEFINE Inv == Shape /\ Program /\ Orderly /\ Guarded /\ Beginning /\ TellsOnce /\ Completed /\ Uncached
<1>1. Init => Inv
  BY InitShape, InitCancel, InitCompleted
<1>2. Inv /\ [Next]_vars => Inv'
  <2> SUFFICES ASSUME Shape, Program, Orderly, Guarded, Beginning, TellsOnce, Completed, Uncached, [Next]_vars
               PROVE  Inv'
    OBVIOUS
  <2>1. Shape' /\ Program' /\ Orderly' /\ Beginning'
    BY ShapeNext, ProgramNext, OrderlyNext, BeginningNext
  <2>4. StartsOnce(scenario) /\ StaysWhileCached(scenario)
    BY DEF Shape, TypeOK, OtherTypes
  <2>2. Guarded'
    BY <2>4, GuardedNext DEF Orderly
  <2>3. TellsOnce' /\ Completed'
    BY TellsOnceNext, CompletedNext
  <2>5. Uncached'
    BY <2>4, UncachedNext
  <2> QED BY <2>1, <2>2, <2>3, <2>5
<1>3. Inv => CompletionIsReported
  BY DEF Completed, Finished, CompletionIsReported
<1> QED BY <1>1, <1>2, <1>3, PTL DEF Spec

-----------------------------------------------------------------------------
(* A suspended task.  The protocol that is stored is the newest, one that is *)
(* dropped has ended, and behind every start of a suspended task comes a    *)
(* stop of the same protocol.                                               *)

(* What a step makes of the protocol objects: one that has ended stays so,  *)
(* and a suspended task's comes into progress only by a start.              *)
Steady ==
  \A p \in 1 .. Newest :
     /\ Quiet(p) /\ crash' = "none" => Quiet(p)'
     /\ suspendCount > 0 /\ Loading(p)' =>
          Loading(p) \/ (Running("start") /\ Head(workQueue).p = p /\ ~Quiet(p))

LEMMA SteadyChange ==
  ASSUME Shape, NEW q \in 1 .. Len(protocols), NEW x \in ProtocolType,
         protocols' = [protocols EXCEPT ![q] = x],
         Quiet(q) /\ crash' = "none" => x = TaskCompleted,
         suspendCount > 0 /\ x.at = "transferInProgress" =>
           Loading(q) \/ (Running("start") /\ Head(workQueue).p = q /\ ~Quiet(q))
  PROVE  Steady
<1>1. protocols'[q] = x /\ \A o \in 1 .. Len(protocols) : o # q => protocols'[o] = protocols[o]
  BY ProtocolChanged
<1>2. ASSUME NEW p \in 1 .. Newest
      PROVE  /\ Quiet(p) /\ crash' = "none" => Quiet(p)'
             /\ suspendCount > 0 /\ Loading(p)' =>
                  Loading(p) \/ (Running("start") /\ Head(workQueue).p = p /\ ~Quiet(p))
  <2>1. CASE p = q
    BY <1>1, <2>1 DEF Quiet, Loading, TaskCompleted
  <2>2. CASE p # q
    <3>1. protocols'[p] = protocols[p]
      BY <1>1, <2>2 DEF Newest
    <3> QED BY <3>1 DEF Quiet, Loading, TaskCompleted
  <2> QED BY <2>1, <2>2
<1> QED BY <1>2 DEF Steady

LEMMA SteadyStill ==
  ASSUME UNCHANGED protocols
  PROVE  Steady
BY DEF Steady, Quiet, Loading, TaskCompleted

LEMMA SteadyMade ==
  ASSUME Shape, protocols' = Append(protocols, NewProtocol)
  PROVE  Steady
<1>1. \A o \in 1 .. Len(protocols) : protocols'[o] = protocols[o]
  BY ProtocolMade
<1>2. ASSUME NEW p \in 1 .. Newest
      PROVE  protocols'[p] = protocols[p]
  BY <1>1 DEF Newest
<1> QED BY <1>2 DEF Steady, Quiet, Loading, TaskCompleted

(* What the operators of the protocol make of one that is done or suspended. *)
LEMMA ObjectChanges ==
  ASSUME Shape, NEW o \in ProtocolType
  PROVE  /\ o = TaskCompleted => Resumed(o) = TaskCompleted /\ Stopped(o) = TaskCompleted
         /\ Stopped(o).at # "transferInProgress"
         /\ suspendCount > 0 => StartNewTransfer.at # "transferInProgress"
         /\ TaskCompleted.at = "taskCompleted"
         /\ o.timer = FALSE => [o EXCEPT !.at = "taskCompleted"] = TaskCompleted
<1>1. TaskCompleted = [at |-> "taskCompleted", timer |-> FALSE]
  BY DEF TaskCompleted
<1>2. o = TaskCompleted => Resumed(o) = TaskCompleted
  BY <1>1 DEF Resumed
<1>3. o = TaskCompleted => Stopped(o) = TaskCompleted
  BY <1>1 DEF Stopped, Suspended
<1>4. Stopped(o).at # "transferInProgress"
  BY <1>1 DEF Stopped, Suspended, ProtocolType
<1>5. suspendCount > 0 => StartNewTransfer.at # "transferInProgress"
  <2>1. suspendCount > 0 => ~(suspendCount < 1)
    BY TaskParts
  <2> QED BY <2>1 DEF StartNewTransfer
<1>6. o.timer = FALSE => [o EXCEPT !.at = "taskCompleted"] = TaskCompleted
  <2>1. o.timer \in BOOLEAN /\ [o EXCEPT !.at = "taskCompleted"] = [at |-> "taskCompleted", timer |-> o.timer]
    BY DEF ProtocolType
  <2> QED BY <1>1, <2>1
<1>7. TaskCompleted.at = "taskCompleted"
  BY <1>1
<1> QED BY <1>2, <1>3, <1>4, <1>5, <1>6, <1>7

LEMMA LoadSteady ==
  ASSUME Shape, StartLoading \/ StopLoading \/ CancelLoading \/ FulfilFromCache
  PROVE  Steady
<1>0. PICK kind \in {"start", "stop", "cancelled", "fulfil"} :
         /\ Running(kind)
         /\ StartLoading => kind = "start"
         /\ kind = "fulfil" => FulfilFromCache
         /\ FulfilFromCache => kind = "fulfil"
  BY Zenon DEF StartLoading, StopLoading, CancelLoading, FulfilFromCache, Running
<1>1. PICK p : p = Head(workQueue).p
  OBVIOUS
<1>2. p \in 0 .. Len(protocols) /\ (FulfilFromCache => p # 0)
  BY <1>0, <1>1, RunningBlock, Counts DEF OnProtocol
<1>3. CASE p = NoProtocol /\ ~FulfilFromCache
  <2>1. UNCHANGED protocols
    BY <1>1, <1>3 DEF StartLoading, StopLoading, CancelLoading
  <2> QED BY <2>1, SteadyStill
<1>4. CASE p # NoProtocol \/ FulfilFromCache
  <2>1. p \in 1 .. Len(protocols) /\ protocols[p] \in ProtocolType /\ p # NoProtocol
    BY <1>2, <1>4, Counts, ElementOfSeq DEF NoProtocol
  <2>2. PICK o : o = protocols[p]
    OBVIOUS
  <2>3. o \in ProtocolType
    BY <2>1, <2>2
  <2>4. CASE StartLoading
    <3>1. \/ /\ o.at = "initial"
             /\ protocols' = [protocols EXCEPT ![p] = [o EXCEPT !.at = "fulfillingFromCache"]]
          \/ protocols' = [protocols EXCEPT ![p] = Resumed(o)]
      BY <1>1, <2>1, <2>2, <2>4 DEF StartLoading
    <3>2. CASE o.at = "initial" /\ protocols' = [protocols EXCEPT ![p] = [o EXCEPT !.at = "fulfillingFromCache"]]
      <4>1. [o EXCEPT !.at = "fulfillingFromCache"] \in ProtocolType
            /\ [o EXCEPT !.at = "fulfillingFromCache"].at = "fulfillingFromCache"
        BY <2>3 DEF ProtocolType, ProtocolStates
      <4>2. ~Quiet(p)
        BY <2>2, <3>2 DEF Quiet, TaskCompleted
      <4> QED BY <2>1, <3>2, <4>1, <4>2, SteadyChange
    <3>3. CASE protocols' = [protocols EXCEPT ![p] = Resumed(o)]
      <4>1. Resumed(o) \in ProtocolType
        BY <2>3, ProtocolKinds
      <4>2. /\ Quiet(p) => Resumed(o) = TaskCompleted
            /\ Resumed(o).at = "transferInProgress" => ~Quiet(p)
        BY <2>2, <2>3, ObjectChanges DEF Quiet
      <4> QED BY <1>0, <1>1, <2>1, <2>4, <3>3, <4>1, <4>2, SteadyChange
    <3> QED BY <3>1, <3>2, <3>3
  <2>5. CASE StopLoading \/ CancelLoading
    <3>1. protocols' = [protocols EXCEPT ![p] = Stopped(o)]
      BY <1>1, <2>1, <2>2, <2>5 DEF StopLoading, CancelLoading
    <3>2. /\ Stopped(o) \in ProtocolType /\ Stopped(o).at # "transferInProgress"
          /\ Quiet(p) => Stopped(o) = TaskCompleted
      BY <2>2, <2>3, ProtocolKinds, ObjectChanges DEF Quiet
    <3> QED BY <2>1, <3>1, <3>2, SteadyChange
  <2>6. CASE FulfilFromCache
    <3>1. protocols' = [protocols EXCEPT ![p] = [o EXCEPT !.at = "taskCompleted"]]
      BY <1>1, <2>2, <2>6 DEF FulfilFromCache
    <3>2. /\ [o EXCEPT !.at = "taskCompleted"] \in ProtocolType
          /\ [o EXCEPT !.at = "taskCompleted"].at = "taskCompleted"
      BY <2>3 DEF ProtocolType, ProtocolStates
    <3>3. Quiet(p) => [o EXCEPT !.at = "taskCompleted"] = TaskCompleted
      <4>1. Quiet(p) => o.timer = FALSE
        BY <2>2 DEF Quiet, TaskCompleted
      <4> QED BY <2>3, <4>1, ObjectChanges
    <3> QED BY <2>1, <3>1, <3>2, <3>3, SteadyChange
  <2> QED BY <2>4, <2>5, <2>6
<1> QED BY <1>3, <1>4

LEMMA AnswerSteady ==
  ASSUME Shape, FollowRedirect \/ DeclineRedirect
  PROVE  Steady
<1>0. PICK kind \in {"follow", "decline"} : Running(kind)
  BY Zenon DEF FollowRedirect, DeclineRedirect
<1>1. PICK p : p = Head(workQueue).p
  OBVIOUS
<1>2. p \in 1 .. Len(protocols) /\ protocols[p] \in ProtocolType
  BY <1>0, <1>1, RunningBlock, Counts, ElementOfSeq DEF OnProtocol
<1>3. CASE FollowRedirect
  <2>1. /\ protocols' = [protocols EXCEPT ![p] = StartNewTransfer]
        /\ crash' = "none" => protocols[p].at = "waitingForRedirectCompletionHandler"
    BY <1>1, <1>3 DEF FollowRedirect
  <2>2. crash' = "none" => ~Quiet(p)
    BY <2>1 DEF Quiet, TaskCompleted
  <2>3. StartNewTransfer \in ProtocolType /\ (suspendCount > 0 => StartNewTransfer.at # "transferInProgress")
    BY <1>2, ProtocolKinds, ObjectChanges
  <2> QED BY <1>2, <2>1, <2>2, <2>3, SteadyChange
<1>4. CASE DeclineRedirect
  <2>1. protocols' = [protocols EXCEPT ![p] = TaskCompleted] \/ UNCHANGED protocols
    BY <1>1, <1>4 DEF DeclineRedirect
  <2>2. TaskCompleted \in ProtocolType /\ TaskCompleted.at # "transferInProgress"
    BY <1>2, ProtocolKinds DEF TaskCompleted
  <2> QED BY <1>2, <2>1, <2>2, SteadyChange, SteadyStill
<1> QED BY <1>3, <1>4

LEMMA TransferSteady ==
  ASSUME Shape, NEW p \in 1 .. Len(protocols), TransferCompleted(p) \/ TimedOut(p) \/ ReceiveData(p)
  PROVE  Steady
<1>1. protocols[p] \in ProtocolType /\ TaskCompleted \in ProtocolType /\ StartNewTransfer \in ProtocolType
      /\ TaskCompleted.at # "transferInProgress"
  BY Counts, ElementOfSeq, ProtocolKinds DEF TaskCompleted
<1>2. CASE protocols' = [protocols EXCEPT ![p] = TaskCompleted] \/ UNCHANGED protocols
  BY <1>1, <1>2, SteadyChange, SteadyStill
<1>3. CASE TransferCompleted(p) /\ ~(protocols' = [protocols EXCEPT ![p] = TaskCompleted])
  <2>1. Loading(p) /\ ~Quiet(p)
    BY <1>3 DEF TransferCompleted, Loading, Quiet, TaskCompleted
  <2>2. PICK o : o = protocols[p]
    OBVIOUS
  <2>3. \E x \in {StartNewTransfer, [o EXCEPT !.at = "waitingForRedirectCompletionHandler"]} :
           protocols' = [protocols EXCEPT ![p] = x]
    <3>1. Head(replies) \notin {"ok", "fail", "unauthorized"}
      BY <1>3 DEF TransferCompleted
    <3>2. Head(replies) = "redirect"
      <4>1. replies \in Seq(Replies) /\ replies # <<>>
        BY <1>3 DEF Shape, TypeOK, OtherTypes, TransferCompleted
      <4> QED BY <3>1, <4>1, Dropped DEF Replies
    <3> QED BY <1>3, <2>2, <3>2 DEF TransferCompleted
  <2>4. [o EXCEPT !.at = "waitingForRedirectCompletionHandler"] \in ProtocolType
    BY <1>1, <2>2 DEF ProtocolType, ProtocolStates
  <2> QED BY <1>1, <2>1, <2>3, <2>4, SteadyChange
<1>4. TimedOut(p) \/ ReceiveData(p) => protocols' = [protocols EXCEPT ![p] = TaskCompleted] \/ UNCHANGED protocols
  BY DEF TimedOut, ReceiveData
<1> QED BY <1>2, <1>3, <1>4

(* Where the protocol is stored, and when one is made.                      *)
LEMMA NextStored ==
  ASSUME Shape, [Next]_vars
  PROVE  \/ UNCHANGED storage /\ Len(protocols') = Len(protocols)
         \/ /\ storage.kind \in NoneYet \/ ReplaceProtocol
            /\ protocols' = Append(protocols, NewProtocol)
            /\ storage'.kind = "existing" /\ storage'.p = Newest'
         \/ /\ Calling /\ storage.kind = "toBeCreated" /\ scenario.cache # "none"
            /\ storage'.kind = "awaitingCacheReply" /\ UNCHANGED protocols
         \/ storage.kind = "awaitingCacheReply" /\ storage'.kind = "awaitingCacheReply" /\ UNCHANGED protocols
         \/ LoadAction /\ storage' = Invalidated /\ Len(protocols') = Len(protocols)
<1>1. CASE LoadAction
  <2>1. Loads
    BY <1>1, LoadSteps
  <2>2. UNCHANGED storage \/ storage' = Invalidated
    <3>1. PICK queue : Ends(queue) \/ Tells \/ Goes(queue)
      BY <2>1 DEF Loads
    <3> QED BY <3>1, Zenon DEF Ends, Conclude, Tells, Tell, Goes
  <2> QED BY <1>1, <2>1, <2>2 DEF Loads
<1>2. CASE Calling
  <2>1. CASE UNCHANGED <<protocols, storage>>
    BY <2>1
  <2>2. ASSUME NEW callback \in Callbacks, GetProtocol(callback, Rest), ~UNCHANGED <<protocols, storage>>
        PROVE  \/ /\ storage.kind \in NoneYet
                  /\ protocols' = Append(protocols, NewProtocol)
                  /\ storage'.kind = "existing" /\ storage'.p = Newest'
               \/ /\ storage.kind = "toBeCreated" /\ scenario.cache # "none"
                  /\ storage'.kind = "awaitingCacheReply" /\ UNCHANGED protocols
               \/ storage.kind = "awaitingCacheReply" /\ storage'.kind = "awaitingCacheReply" /\ UNCHANGED protocols
    <3>1. CASE storage.kind = "toBeCreated" /\ scenario.cache = "none"
      <4>1. /\ storage' = Stored("existing", Len(protocols) + 1, <<>>)
            /\ protocols' = Append(protocols, NewProtocol)
        BY <2>2, <3>1 DEF GetProtocol
      <4>2. Len(protocols') = Len(protocols) + 1
        BY <4>1, ProtocolMade
      <4> QED BY <3>1, <4>1, <4>2 DEF Stored, NoneYet, Newest
    <3>2. CASE storage.kind = "toBeCreated" /\ scenario.cache # "none"
      BY <2>2, <3>2 DEF GetProtocol, Stored
    <3>3. CASE storage.kind = "awaitingCacheReply"
      <4>1. UNCHANGED protocols /\ storage' = [storage EXCEPT !.bag = Append(@, callback)]
        BY <2>2, <3>3 DEF GetProtocol
      <4>2. storage'.kind = storage.kind
        BY <4>1, TaskParts DEF StorageOK, StorageType
      <4> QED BY <3>3, <4>1, <4>2
    <3>4. CASE storage.kind \notin NoneYet
      BY <2>2, <3>4 DEF GetProtocol, NoneYet
    <3> QED BY <3>1, <3>2, <3>3, <3>4 DEF NoneYet
  <2> QED BY <1>2, <2>1, <2>2, CallGets
<1>3. CASE CacheReplies \/ ReplaceProtocol
  <2>1. /\ protocols' = Append(protocols, NewProtocol) /\ storage' = Stored("existing", Len(protocols) + 1, <<>>)
        /\ CacheReplies => storage.kind \in NoneYet
    BY <1>3 DEF CacheReplies, ReplaceProtocol, NoneYet
  <2>2. Len(protocols') = Len(protocols) + 1
    BY <2>1, ProtocolMade
  <2> QED BY <1>3, <2>1, <2>2 DEF Stored, Newest
<1>4. CASE UNCHANGED <<protocols, storage>>
  BY <1>4
<1>5. Registering \/ DeliverProtocol \/ Applying \/ CallbackCalls \/ UNCHANGED vars => UNCHANGED <<protocols, storage>>
  BY DEF Registering, AddTask, RemoveTask, FinishTasks, InvalidateSession, DeliverProtocol, Applying,
     AppCalls, CancelTasks, LeaveInvalidation, CallbackCalls, taskVars, vars
<1>6. RunDelegate => UNCHANGED <<protocols, storage>> \/ ReplaceProtocol
  BY DEF RunDelegate, BeginCallback, EndNotification, LeaveUnanswered,
       EndInvalidation, AnswerRedirect, EndCompletion,
     AnswerChallenge, EndChallenge, EndCallback, taskVars
<1> QED BY <1>1, <1>2, <1>3, <1>4, <1>5, <1>6, Steps

(* Only loading changes an object; other steps make one or leave them alone. *)
LEMMA NextObjects ==
  ASSUME Shape, [Next]_vars, ~LoadAction
  PROVE  UNCHANGED protocols \/ protocols' = Append(protocols, NewProtocol)
<1>1. Registering \/ DeliverProtocol \/ Applying \/ CallbackCalls \/ UNCHANGED vars => UNCHANGED protocols
  BY DEF Registering, AddTask, RemoveTask, FinishTasks, InvalidateSession, DeliverProtocol, Applying,
     AppCalls, CancelTasks, LeaveInvalidation, CallbackCalls, taskVars, vars
<1>2. RunDelegate \/ CacheReplies => UNCHANGED protocols \/ protocols' = Append(protocols, NewProtocol)
  BY DEF RunDelegate, BeginCallback, EndNotification, LeaveUnanswered,
       EndInvalidation, AnswerRedirect, EndCompletion,
     AnswerChallenge, EndChallenge, EndCallback, taskVars, ReplaceProtocol, CacheReplies
<1>3. Calling => UNCHANGED protocols \/ protocols' = Append(protocols, NewProtocol)
  <2>1. ASSUME NEW callback \in Callbacks, GetProtocol(callback, Rest)
        PROVE  UNCHANGED protocols \/ protocols' = Append(protocols, NewProtocol)
    BY <2>1, TaskParts DEF GetProtocol, StorageOK, StorageType
  <2> QED BY <2>1, CallGets
<1> QED BY <1>1, <1>2, <1>3, Steps

LEMMA NextSteady ==
  ASSUME Shape, [Next]_vars
  PROVE  Steady
<1>1. CASE LoadAction
  BY <1>1, LoadSteady, AnswerSteady, TransferSteady, Zenon DEF LoadAction, TransferEnds
<1>2. CASE ~LoadAction
  BY <1>2, NextObjects, SteadyStill, SteadyMade
<1> QED BY <1>1, <1>2

(* No redirect and no challenge is open.                                    *)
NoneOpen == \A i \in 1 .. Len(delegateQueue) : ~OpenOp(i)

LEMMA NoneOpenMoves ==
  ASSUME Shape, NoneOpen, DelegateMoves
  PROVE  NoneOpen'
<1>1. PICK d \in 0 .. 1 : \A i \in 1 .. Len(delegateQueue') : OpenOp(i)' =>
              i + d \in 1 .. Len(delegateQueue) /\ OpenOp(i + d) /\ delegateQueue'[i] = delegateQueue[i + d]
  BY DelegateFrom
<1> QED BY <1>1 DEF NoneOpen

LEMMA NoneOpenWaits ==
  ASSUME Shape, NoneOpen
  PROVE  ~AnswerRedirect /\ ~AnswerChallenge /\ ~ReplaceProtocol
<1>1. ASSUME pc["delegate"] \in {"callback", "replacing"}, Operation.kind \in Opens
      PROVE  FALSE
  <2>1. Operation = delegateQueue[1] /\ 1 \in 1 .. Len(delegateQueue)
    BY <1>1, DelegatePlace, RunningOperation
  <2>2. OpenOp(1)
    BY <1>1, <2>1 DEF OpenOp, Opens, Answered
  <2> QED BY <2>1, <2>2 DEF NoneOpen
<1>2. pc["delegate"] = "replacing" => Operation.kind = "challenge"
  BY DelegatePlace DEF Answering
<1> QED BY <1>1, <1>2 DEF AnswerRedirect, EndCallback, AnswerChallenge, ReplaceProtocol, Opens

LEMMA EndsOpens ==
  ASSUME Shape, NEW queue, Ends(queue), UNCHANGED pc
  PROVE  DelegateMoves
<1>1. PICK ops \in Seq(OpType) :
        /\ \A k \in 1 .. Len(ops) : ops[k].kind \in {"notify", "complete"}
        /\ Conclude(ops, queue)
  BY DEF Ends
<1>2. delegateQueue' = delegateQueue \o ops \/ UNCHANGED delegateQueue
  BY <1>1 DEF Conclude
<1> QED BY <1>1, <1>2, OpsAdded, SameDelegate DEF Opens

(* Only a transfer in progress is redirected or challenged.                 *)
LEMMA LoadOpens ==
  ASSUME Shape, LoadAction, \A p \in 1 .. Newest : ~Loading(p)
  PROVE  DelegateMoves
<1>1. UNCHANGED pc
  BY LoadSteps DEF Loads
<1>2. PICK p : p = Head(workQueue).p
  OBVIOUS
<1>3. CASE UNCHANGED delegateQueue
  BY <1>1, <1>3, SameDelegate
<1>4. ASSUME NEW o \in ProtocolNumbers, NEW queue,
             Conclude(<<Op("complete", o)>>, queue) \/ Conclude(<<Op("notify", o), Op("complete", o)>>, queue)
      PROVE  DelegateMoves
  BY <1>1, <1>4, CompletionOps, EndsOpens
<1>5. CASE StartLoading \/ CancelLoading \/ FulfilFromCache \/ DeclineRedirect
  <2>1. p \in ProtocolNumbers
    <3>1. PICK kind \in {"start", "cancelled", "fulfil", "decline"} : Running(kind)
      BY <1>5 DEF StartLoading, CancelLoading, FulfilFromCache, DeclineRedirect
    <3> QED BY <1>2, <3>1, RunningBlock, Counts
  <2>2. \/ UNCHANGED delegateQueue
        \/ Conclude(<<Op("complete", p)>>, Rest) \/ Conclude(<<Op("notify", p), Op("complete", p)>>, Rest)
    BY <1>2, <1>5 DEF StartLoading, CancelLoading, FulfilFromCache, DeclineRedirect
  <2> QED BY <1>3, <1>4, <2>1, <2>2
<1>6. CASE StopLoading \/ FollowRedirect
  BY <1>3, <1>6 DEF StopLoading, FollowRedirect
<1>7. ASSUME NEW o \in 1 .. Len(protocols), TransferCompleted(o) \/ TimedOut(o) \/ ReceiveData(o)
      PROVE  DelegateMoves
  <2>1. TimedOut(o)
    BY <1>7 DEF TransferCompleted, ReceiveData, Newest
  <2>2. o \in ProtocolNumbers
    BY Counts
  <2> QED BY <1>3, <1>4, <2>1, <2>2 DEF TimedOut
<1> QED BY <1>5, <1>6, <1>7 DEF LoadAction, TransferEnds

LEMMA NoneOpenNext ==
  ASSUME Shape, NoneOpen, \A p \in 1 .. Newest : ~Loading(p), [Next]_vars
  PROVE  NoneOpen'
<1>1. CASE LoadAction
  BY <1>1, LoadOpens, NoneOpenMoves
<1>2. CASE Calling
  <2>1. UNCHANGED delegateQueue
    BY <1>2 DEF Calling, CheckState, Suspend, Resume, Cancel, CloseSession
  <2>2. PICK kind \in Synchronous : Running(kind)
    BY <1>2, CallMoves
  <2>3. UNCHANGED pc \/ Return
    BY <1>2 DEF Calling, CheckState, Suspend, Resume, Cancel, CloseSession, clientVars
  <2>4. pc["delegate"] \in Answered => pc'["delegate"] \in Answered
    BY <2>2, <2>3, ReturnAnswered
  <2> QED BY <2>1, <2>4, SameDelegate, NoneOpenMoves
<1>3. CASE Registering
  <2>1. UNCHANGED pc /\ (UNCHANGED delegateQueue \/ delegateQueue' = delegateQueue \o Invalidation)
    BY <1>3 DEF Registering, AddTask, RemoveTask, FinishTasks, InvalidateSession, clientVars
  <2>2. Op("invalid", NoProtocol) \in OpType /\ Op("invalid", NoProtocol).kind \notin Opens
    BY Counts DEF Op, OpType, OpKinds, Opens, NoProtocol
  <2>3. Invalidation \in Seq(OpType) /\ \A k \in 1 .. Len(Invalidation) : Invalidation[k].kind \notin Opens
    BY <2>2 DEF Invalidation
  <2> QED BY <2>1, <2>3, OpsAdded, SameDelegate, NoneOpenMoves
<1>4. CASE CacheReplies \/ DeliverProtocol \/ Applying \/ CallbackCalls \/ UNCHANGED vars
  <2>1. UNCHANGED delegateQueue
    BY <1>4 DEF CacheReplies, DeliverProtocol, Applying, AppCalls, CancelTasks, LeaveInvalidation,
       CallbackCalls, queueVars, vars
  <2>2. pc["delegate"] \in Answered => pc'["delegate"] = pc["delegate"]
    <3>1. CacheReplies \/ DeliverProtocol \/ UNCHANGED vars => UNCHANGED pc
      BY DEF CacheReplies, DeliverProtocol, clientVars, vars
    <3>2. ASSUME Applying
          PROVE  UNCHANGED pc \/ \E place : pc' = [pc EXCEPT !["app"] = place]
      <4>1. CASE AppCalls
        <5>1. Head(app) \in Calls \cup SessionCalls
          BY <4>1, DelegatePlace, Dropped DEF AppCalls
        <5>2. CASE Head(app) \in Calls
          <6>1. Enter("app", Head(app), "waiting")
            BY <4>1, <5>2 DEF AppCalls, Calls
          <6> QED BY <6>1 DEF Enter
        <5>3. CASE Head(app) \in SessionCalls
          BY <4>1, <5>3 DEF AppCalls, Calls, SessionCalls, Enter
        <5> QED BY <5>1, <5>2, <5>3
      <4>2. CASE CancelTasks \/ LeaveInvalidation
        BY <4>2 DEF CancelTasks, LeaveInvalidation, Enter
      <4> QED BY <3>2, <4>1, <4>2 DEF Applying
    <3>3. CallbackCalls => pc["delegate"] \notin Answered
      BY DEF CallbackCalls, Answered
    <3> QED BY <1>4, <3>1, <3>2, <3>3, DelegatePlace DEF Clients
  <2> QED BY <2>1, <2>2, SameDelegate, NoneOpenMoves
<1>5. CASE RunDelegate
  <2>1. BeginCallback \/ EndNotification \/ LeaveUnanswered \/
       EndInvalidation \/ EndCompletion \/ EndChallenge
    BY <1>5, NoneOpenWaits DEF RunDelegate
  <2>2. CASE BeginCallback /\ ~Reported
    <3>1. UNCHANGED delegateQueue /\ pc["delegate"] = "idle"
      BY <2>2 DEF BeginCallback
    <3> QED BY <3>1, SameDelegate, NoneOpenMoves DEF Answered
  <2>3. CASE ~(BeginCallback /\ ~Reported)
    <3>1. delegateQueue # <<>> /\ delegateQueue' = Tail(delegateQueue)
      BY <2>1, <2>3, DelegatePlace
      DEF BeginCallback, EndNotification, LeaveUnanswered,
           EndInvalidation, EndCompletion, EndChallenge, EndCallback
    <3> QED BY <3>1, OverMoves, NoneOpenMoves
  <2> QED BY <2>2, <2>3
<1> QED BY <1>1, <1>2, <1>3, <1>4, <1>5, Steps

-----------------------------------------------------------------------------
(* The count of suspensions, and a task that has not been started.          *)

Counted == ~Ended => (state = "running" <=> suspendCount = 0)
Untouched == storage.kind = "toBeCreated" /\ ~Ended => state = "suspended" /\ delegateQueue = <<>>

LEMMA NextSuspension ==
  ASSUME Shape, [Next]_vars, ~Ended'
  PROVE  Suspend \/ Resume \/ UNCHANGED <<state, suspendCount>>
<1>1. CASE LoadAction
  <2>1. PICK queue : UNCHANGED suspendCount /\ (Ends(queue) \/ Tells \/ Goes(queue))
    BY <1>1, LoadSteps DEF Loads
  <2>2. UNCHANGED state \/ state' = "completed"
    BY <2>1, Zenon DEF Ends, Conclude, Tells, Tell, Goes
  <2> QED BY <2>1, <2>2 DEF Ended
<1>2. CASE Calling
  <2>1. Cancel => UNCHANGED <<state, suspendCount>>
    BY DEF Cancel, Ended
  <2>2. CheckState \/ CloseSession => UNCHANGED <<state, suspendCount>>
    BY DEF CheckState, CloseSession, taskVars
  <2> QED BY <1>2, <2>1, <2>2 DEF Calling
<1>3. Registering \/ CacheReplies \/ DeliverProtocol \/ Applying \/ CallbackCalls \/ UNCHANGED vars
        => UNCHANGED <<state, suspendCount>>
  BY DEF Registering, AddTask, RemoveTask, FinishTasks, InvalidateSession, CacheReplies, DeliverProtocol, Applying,
     AppCalls, CancelTasks, LeaveInvalidation, CallbackCalls, taskVars, vars
<1>4. RunDelegate => UNCHANGED <<state, suspendCount>>
  BY DEF RunDelegate, BeginCallback, EndNotification, LeaveUnanswered,
       EndInvalidation, AnswerRedirect, EndCompletion,
     AnswerChallenge, ReplaceProtocol, EndChallenge, EndCallback, taskVars, Ended
<1> QED BY <1>1, <1>2, <1>3, <1>4, Steps

LEMMA CountedNext ==
  ASSUME Shape, Guarded, Counted, [Next]_vars
  PROVE  Counted'
<1>1. SUFFICES ASSUME ~Ended'
               PROVE  (state = "running" <=> suspendCount = 0)'
  BY DEF Counted
<1>2. ~Ended
  BY <1>1, NextState
<1>3. suspendCount \in Nat
  BY TaskParts
<1>4. CASE Suspend
  BY <1>3, <1>4 DEF Suspend
<1>5. CASE Resume
  BY <1>3, <1>5 DEF Resume
<1>6. CASE UNCHANGED <<state, suspendCount>>
  BY <1>2, <1>6 DEF Counted
<1> QED BY <1>1, <1>4, <1>5, <1>6, NextSuspension

(* Without a protocol there is no block of one.                             *)
LEMMA NoLoad ==
  ASSUME Shape, \A kind \in Callbacks \cup OnProtocol : ~Running(kind),
         \A p \in 1 .. Len(protocols) : protocols[p] = NewProtocol
  PROVE  ~LoadAction
<1>1. ~(StartLoading \/ StopLoading \/ CancelLoading)
  BY Zenon DEF StartLoading, StopLoading, CancelLoading, Callbacks
<1>2. ~(FulfilFromCache \/ FollowRedirect \/ DeclineRedirect)
  BY Zenon DEF FulfilFromCache, FollowRedirect, DeclineRedirect, OnProtocol
<1>3. \A p \in 1 .. Len(protocols) : ~TransferCompleted(p) /\ ~TimedOut(p) /\ ~ReceiveData(p)
  <2>1. NewProtocol.at = "initial" /\ NewProtocol.timer = FALSE
    BY DEF NewProtocol
  <2> QED BY <2>1, Zenon DEF TransferCompleted, TimedOut, ReceiveData, Loading
<1> QED BY <1>1, <1>2, <1>3 DEF LoadAction, TransferEnds

LEMMA NoProtocolYet ==
  ASSUME Shape, Served, storage.kind \in NoneYet
  PROVE  /\ protocols = <<>> /\ Len(protocols) = 0 /\ ~LoadAction
         /\ \A i \in 1 .. Len(workQueue) : workQueue[i].kind \notin Callbacks \cup OnProtocol
<1>1. protocols = <<>> /\ Len(protocols) = 0
  BY Counts DEF Shape, Unserved, NoneYet
<1>2. \A i \in 1 .. Len(workQueue) : workQueue[i].kind \notin Callbacks \cup OnProtocol
  <2>1. \A i \in 1 .. Len(workQueue) : workQueue[i].kind \notin Callbacks
    BY DEF Served
  <2>2. \A i \in 1 .. Len(workQueue) : workQueue[i].p = 0
    <3>1. \A i \in 1 .. Len(workQueue) : workQueue[i] \in BlockType
      BY ElementOfSeq DEF Shape, TypeOK, WorkTypes, BlockType
    <3> QED BY <1>1, <3>1, Counts DEF BlockType
  <2> QED BY <2>1, <2>2 DEF Shape, TypeOK, WorkTypes, OnProtocol, NoProtocol
<1>3. \A kind \in Callbacks \cup OnProtocol : ~Running(kind)
  BY <1>2, RunningBlock
<1> QED BY <1>1, <1>2, <1>3, NoLoad

LEMMA UntouchedNext ==
  ASSUME Shape, Guarded, Orderly, Counted, Untouched, [Next]_vars
  PROVE  Untouched'
<1>1. SUFFICES ASSUME storage'.kind = "toBeCreated", ~Ended'
               PROVE  state' = "suspended" /\ delegateQueue' = <<>>
  BY DEF Untouched
<1>2. ~Ended /\ storage.kind = "toBeCreated" /\ UNCHANGED storage
  BY <1>1, NextState, NextStored DEF Invalidated, Stored
<1>3. state = "suspended" /\ delegateQueue = <<>> /\ suspendCount # 0
  BY <1>2 DEF Untouched, Counted
<1>4. delegateQueue' = <<>>
  <2>1. pc["delegate"] = "idle"
    BY <1>3, DelegatePlace
  <2>2. ~LoadAction
    BY <1>2, NoProtocolYet DEF Orderly, NoneYet
  <2>3. ~Leaving
    BY <1>2, LeavingEnds DEF Orderly
  <2>4. ~RunDelegate /\ ~CallbackCalls
    BY <1>3, <2>1 DEF RunDelegate, BeginCallback, EndNotification, LeaveUnanswered,
         EndInvalidation, AnswerRedirect, EndCompletion,
       AnswerChallenge, ReplaceProtocol, EndChallenge, EndCallback, CallbackCalls
  <2>5. Registering => UNCHANGED delegateQueue
    BY <2>3 DEF Registering, AddTask, RemoveTask, FinishTasks, InvalidateSession, Leaving
  <2>6. Calling \/ CacheReplies \/ DeliverProtocol \/ Applying \/ UNCHANGED vars => UNCHANGED delegateQueue
    BY DEF Calling, CheckState, Suspend, Resume, Cancel, CloseSession, CacheReplies, DeliverProtocol,
       Applying, AppCalls, CancelTasks, LeaveInvalidation, queueVars, vars
  <2> QED BY <1>3, <2>2, <2>4, <2>5, <2>6, Steps
<1>5. state' = "suspended"
  <2>1. CASE Suspend
    BY <2>1 DEF Suspend
  <2>2. CASE Resume
    <3>1. OneLess # 0
      <4>1. OneLess = 0 => GetProtocol("start", Rest)
        BY <2>2 DEF Resume
      <4>2. ~GetProtocol("start", Rest)
        BY <1>1, <1>2 DEF GetProtocol, Stored
      <4> QED BY <4>1, <4>2
    <3> QED BY <2>2, <3>1 DEF Resume
  <2> QED BY <1>1, <1>3, <2>1, <2>2, NextSuspension
<1> QED BY <1>4, <1>5

-----------------------------------------------------------------------------
(* While the cache is asked, the task is running and nothing else is on its *)
(* way: whoever could suspend it again waits for the start.                 *)
Asked == storage.kind = "awaitingCacheReply" \/ delivering # <<>>
Unloaded == \A i \in 1 .. Len(workQueue) : workQueue[i].kind \notin Callbacks \cup OnProtocol
FirstStart ==
  /\ storage.kind = "awaitingCacheReply" => storage.bag = <<"start">>
  /\ delivering # <<>> =>
       delivering = <<"start">> /\ protocols = <<NewProtocol>> /\ storage.kind = "existing"
Fresh ==
  /\ Asked => scenario.cache # "none"
  /\ Asked /\ ~Ended => state = "running" /\ delegateQueue = <<>> /\ Unloaded /\ FirstStart

(* The block an application's call leaves in the work queue.                *)
LEMMA AppEnters ==
  ASSUME Shape, Applying
  PROVE  /\ UNCHANGED <<taskVars, delegateQueue>>
         /\ \/ UNCHANGED workQueue
            \/ \E b \in BlockType : workQueue' = Append(workQueue, b) /\ b.kind \notin Callbacks \cup OnProtocol
<1>1. UNCHANGED <<taskVars, delegateQueue>>
  BY DEF Applying, AppCalls, CancelTasks, LeaveInvalidation
<1>2. /\ \A call \in Synchronous : SyncBlock(call, "app") \in BlockType /\ SyncBlock(call, "app").kind = call
      /\ \A kind \in {"finish", "invalidate"} :
           Block(kind, NoProtocol) \in BlockType /\ Block(kind, NoProtocol).kind = kind
  BY Counts DEF SyncBlock, Block, BlockType, BlockKinds, Synchronous, Calls, Clients, NoProtocol
<1>3. \A kind \in Synchronous \cup {"finish", "invalidate"} : kind \notin Callbacks \cup OnProtocol
  BY DEF Synchronous, Calls, Callbacks, OnProtocol
<1>4. \/ UNCHANGED workQueue
      \/ \E call \in Synchronous : workQueue' = Append(workQueue, SyncBlock(call, "app"))
      \/ \E kind \in {"finish", "invalidate"} : workQueue' = Append(workQueue, Block(kind, NoProtocol))
  <2>1. CASE AppCalls
    <3>1. Head(app) \in Calls \cup SessionCalls
      BY <2>1, DelegatePlace, Dropped DEF AppCalls
    <3>2. CASE Head(app) \in Calls
      <4>1. Enter("app", Head(app), "waiting") /\ Head(app) \in Synchronous
        BY <2>1, <3>2 DEF AppCalls, Calls, Synchronous
      <4> QED BY <4>1 DEF Enter
    <3>3. CASE Head(app) = "invalidateAndCancel"
      <4>1. Enter("app", "close", "closing") /\ "close" \in Synchronous
        BY <2>1, <3>3 DEF AppCalls, Calls, Synchronous
      <4> QED BY <4>1 DEF Enter
    <3>4. CASE Head(app) = "finishTasksAndInvalidate"
      BY <2>1, <3>4 DEF AppCalls, Calls
    <3> QED BY <3>1, <3>2, <3>3, <3>4 DEF SessionCalls
  <2>2. CASE CancelTasks
    <3>1. UNCHANGED workQueue \/ Enter("app", "cancel", "cancelling")
      BY <2>2 DEF CancelTasks
    <3> QED BY <3>1 DEF Enter, Synchronous, Calls
  <2>3. CASE LeaveInvalidation
    BY <2>3 DEF LeaveInvalidation
  <2> QED BY <2>1, <2>2, <2>3 DEF Applying
<1> QED BY <1>1, <1>2, <1>3, <1>4

LEMMA UnloadedKept ==
  ASSUME Shape, Unloaded,
         \/ UNCHANGED workQueue
         \/ workQueue # <<>> /\ workQueue' = Rest
         \/ \E b \in BlockType : workQueue' = Append(workQueue, b) /\ b.kind \notin Callbacks \cup OnProtocol
  PROVE  Unloaded'
<1>1. PICK q, r : q = workQueue /\ r = workQueue'
  OBVIOUS
<1>2. q \in Seq(BlockType)
  BY <1>1 DEF Shape, TypeOK, WorkTypes, BlockType
<1>3. \A i \in 1 .. Len(q) : q[i].kind \notin Callbacks \cup OnProtocol
  BY <1>1 DEF Unloaded
<1>4. CASE q # <<>> /\ r = Tail(q)
  <2>1. \A i \in 1 .. Len(r) : i + 1 \in 1 .. Len(q) /\ r[i] = q[i + 1]
    BY <1>2, <1>4, Dropped
  <2> QED BY <1>1, <1>3, <2>1 DEF Unloaded
<1>5. ASSUME NEW b \in BlockType, r = Append(q, b), b.kind \notin Callbacks \cup OnProtocol
      PROVE  Unloaded'
  <2>1. /\ Len(q) \in Nat /\ Len(r) = Len(q) + 1
        /\ \A i \in 1 .. Len(q) : r[i] = q[i]
        /\ r[Len(q) + 1] = b
    BY <1>2, <1>5, Added
  <2>2. \A i \in 1 .. Len(r) : i \in 1 .. Len(q) \/ i = Len(q) + 1
    BY <2>1
  <2> QED BY <1>1, <1>3, <1>5, <2>1, <2>2 DEF Unloaded
<1>6. CASE r = q
  BY <1>1, <1>3, <1>6 DEF Unloaded
<1> QED BY <1>1, <1>4, <1>5, <1>6 DEF Rest

LEMMA FreshKept ==
  ASSUME Shape, Fresh, Asked, ~Ended, UNCHANGED <<scenario, taskVars, delegateQueue>>,
         \/ UNCHANGED workQueue
         \/ workQueue # <<>> /\ workQueue' = Rest
         \/ \E b \in BlockType : workQueue' = Append(workQueue, b) /\ b.kind \notin Callbacks \cup OnProtocol
  PROVE  Fresh'
<1>1. Unloaded'
  BY UnloadedKept DEF Fresh
<1> QED BY <1>1 DEF Fresh, Asked, FirstStart, Ended, taskVars

(* Nobody can suspend, resume or load a task that waits for the cache.      *)
LEMMA AskedWaits ==
  ASSUME Shape, Program, Orderly, Beginning, Fresh, Asked, ~Ended, StartsCachedOnce(scenario)
  PROVE  /\ ~LoadAction /\ ~RunDelegate /\ ~CallbackCalls /\ ~Leaving
         /\ \A kind \in Shifts : ~Running(kind)
<1>1. /\ state = "running" /\ delegateQueue = <<>> /\ Unloaded /\ FirstStart /\ scenario.cache # "none"
  BY DEF Fresh
<1>2. pc["delegate"] = "idle"
  BY <1>1, DelegatePlace
<1>3. ~RunDelegate /\ ~CallbackCalls
  BY <1>1, <1>2 DEF RunDelegate, BeginCallback, EndNotification, LeaveUnanswered,
       EndInvalidation, AnswerRedirect, EndCompletion,
     AnswerChallenge, ReplaceProtocol, EndChallenge, EndCallback, CallbackCalls
<1>4. ~Leaving
  BY LeavingEnds DEF Orderly
<1>5. ~LoadAction
  <2>1. \A kind \in Callbacks \cup OnProtocol : ~Running(kind)
    BY <1>1, RunningBlock DEF Unloaded
  <2>2. \A p \in 1 .. Len(protocols) : protocols[p] = NewProtocol
    <3>1. CASE storage.kind = "awaitingCacheReply"
      <4>1. Len(protocols) = 0
        BY <3>1, NoProtocolYet DEF Orderly, NoneYet
      <4> QED BY <4>1
    <3>2. CASE delivering # <<>>
      <4>1. protocols = <<NewProtocol>>
        BY <1>1, <3>2 DEF FirstStart
      <4> QED BY <4>1
    <3> QED BY <3>1, <3>2 DEF Asked
  <2> QED BY <2>1, <2>2, NoLoad
<1>6. ASSUME NEW kind \in Shifts, Running(kind)
      PROVE  FALSE
  <2>1. /\ 1 \in 1 .. Len(workQueue) /\ workQueue[1].kind = kind /\ workQueue[1] = Head(workQueue)
        /\ Head(workQueue) \in BlockType
    BY <1>6, RunningBlock
  <2>2. workQueue[1].by # "queue" /\ Waiting(workQueue[1].by)
    BY <2>1 DEF Shape, Callers, Synchronous, Calls, Shifts
  <2>3. workQueue[1].by # "delegate"
    BY <1>2, <2>2 DEF Waiting, AfterCall
  <2>4. Head(workQueue).by = "app"
    BY <2>1, <2>2, <2>3 DEF BlockType, Clients
  <2>5. Suspensions(scenario) # {}
    BY <1>1 DEF StartsCachedOnce
  <2>6. PICK count \in Suspensions(scenario) : Begun(count)
    BY <2>5 DEF Beginning
  <2>7. Unstarted(count[Made - 1])
    BY <1>6, <2>4, <2>5, <2>6, OwnShift
  <2> QED BY <1>1, <2>7 DEF Unstarted
<1> QED BY <1>3, <1>4, <1>5, <1>6

LEMMA AskedNext ==
  ASSUME Shape, Program, Guarded, Orderly, Beginning, Fresh, Asked, StartsCachedOnce(scenario), ~Ended',
         [Next]_vars
  PROVE  Fresh'
<1>1. UNCHANGED scenario /\ ~Ended
  BY AppNext, AppMoves, NextState
<1>2. /\ state = "running" /\ delegateQueue = <<>> /\ Unloaded /\ FirstStart /\ scenario.cache # "none"
  BY <1>1 DEF Fresh
<1>3. /\ ~LoadAction /\ ~RunDelegate /\ ~CallbackCalls /\ ~Leaving
      /\ \A kind \in Shifts : ~Running(kind)
  BY <1>1, AskedWaits
<1>4. CASE Calling
  <2>1. ~CheckState /\ ~Suspend /\ ~Resume
    BY <1>3 DEF CheckState, Suspend, Resume, Shifts
  <2>2. ~Cancel
    <3>1. Cancel => Ended'
      BY <1>1 DEF Cancel, Ended
    <3> QED BY <3>1
  <2>3. CloseSession
    BY <1>4, <2>1, <2>2 DEF Calling
  <2>4. UNCHANGED <<taskVars, delegateQueue>> /\ workQueue # <<>> /\ workQueue' = Rest
    BY <2>3 DEF CloseSession, Running
  <2> QED BY <1>1, <2>4, FreshKept
<1>5. CASE Registering
  <2>1. UNCHANGED <<taskVars, delegateQueue>> /\ workQueue # <<>> /\ workQueue' = Rest
    BY <1>3, <1>5 DEF Registering, AddTask, RemoveTask, FinishTasks, InvalidateSession, Leaving, Running
  <2> QED BY <1>1, <2>1, FreshKept
<1>6. CASE Applying
  BY <1>1, <1>6, AppEnters, FreshKept
<1>7. CASE UNCHANGED vars
  <2>1. UNCHANGED <<taskVars, delegateQueue, workQueue>>
    BY <1>7 DEF vars, queueVars
  <2> QED BY <1>1, <2>1, FreshKept
<1>8. CASE CacheReplies
  <2>1. /\ storage.kind = "awaitingCacheReply" /\ protocols' = Append(protocols, NewProtocol)
        /\ storage'.kind = "existing" /\ delivering' = storage.bag
        /\ UNCHANGED <<state, delegateQueue, workQueue>>
    BY <1>8 DEF CacheReplies, Stored, queueVars
  <2>2. protocols' = <<NewProtocol>> /\ delivering' = <<"start">>
    <3>1. protocols = <<>>
      BY <2>1, NoProtocolYet DEF Orderly, NoneYet
    <3> QED BY <1>2, <2>1, <3>1 DEF FirstStart
  <2> QED BY <1>1, <1>2, <2>1, <2>2 DEF Fresh, FirstStart, Unloaded
<1>9. CASE DeliverProtocol
  <2>1. delivering # <<>> /\ delivering' = Tail(delivering) /\ UNCHANGED storage
    BY <1>9 DEF DeliverProtocol
  <2>2. delivering' = <<>> /\ storage.kind = "existing"
    BY <1>2, <2>1 DEF FirstStart
  <2>3. ~Asked'
    BY <2>1, <2>2 DEF Asked
  <2> QED BY <2>3 DEF Fresh
<1> QED BY <1>3, <1>4, <1>5, <1>6, <1>7, <1>8, <1>9, Steps

LEMMA NextDelivering ==
  ASSUME Shape, [Next]_vars
  PROVE  UNCHANGED delivering \/ CacheReplies \/ DeliverProtocol
<1>1. LoadAction => UNCHANGED delivering
  BY LoadSteps DEF Loads
<1>2. Calling => UNCHANGED delivering
  BY CallGets
<1>3. Registering \/ Applying \/ CallbackCalls \/ UNCHANGED vars => UNCHANGED delivering
  BY DEF Registering, AddTask, RemoveTask, FinishTasks, InvalidateSession, Applying,
     AppCalls, CancelTasks, LeaveInvalidation, CallbackCalls, taskVars, vars
<1>4. RunDelegate => UNCHANGED delivering
  BY DEF RunDelegate, BeginCallback, EndNotification, LeaveUnanswered,
       EndInvalidation, AnswerRedirect, EndCompletion,
     AnswerChallenge, ReplaceProtocol, EndChallenge, EndCallback, taskVars
<1> QED BY <1>1, <1>2, <1>3, <1>4, Steps

LEMMA FreshNext ==
  ASSUME Shape, Program, Guarded, Orderly, Beginning, Counted, Untouched, Fresh, StartsCachedOnce(scenario),
         [Next]_vars
  PROVE  Fresh'
<1>1. UNCHANGED scenario
  BY AppNext, AppMoves
<1>2. ~Asked /\ Asked' => /\ Calling /\ storage.kind = "toBeCreated" /\ scenario.cache # "none"
                          /\ storage'.kind = "awaitingCacheReply" /\ UNCHANGED <<protocols, delivering>>
  <2>1. ~Asked => UNCHANGED delivering
    BY NextDelivering DEF Asked, CacheReplies, DeliverProtocol
  <2>2. Invalidated.kind = "invalidated"
    BY DEF Invalidated, Stored
  <2> QED BY <2>1, <2>2, NextStored DEF Asked
<1>3. Asked' => scenario'.cache # "none"
  BY <1>1, <1>2 DEF Fresh
<1>4. SUFFICES ASSUME ~Ended', Asked'
               PROVE  Fresh'
  BY <1>3 DEF Fresh
<1>5. CASE Asked
  BY <1>4, <1>5, AskedNext
<1>6. CASE ~Asked
  <2>1. /\ Calling /\ storage.kind = "toBeCreated" /\ scenario.cache # "none"
        /\ storage'.kind = "awaitingCacheReply" /\ UNCHANGED <<protocols, delivering>> /\ delivering = <<>>
    BY <1>2, <1>4, <1>6 DEF Asked
  <2>2. ~Ended
    BY <1>4, NextState
  <2>3. state = "suspended" /\ delegateQueue = <<>> /\ suspendCount # 0
    BY <2>1, <2>2 DEF Untouched, Counted
  <2>4. Resume /\ OneLess = 0
    <3>1. CheckState \/ CloseSession \/ (Suspend /\ suspendCount # 0) \/ (Resume /\ OneLess # 0) => UNCHANGED storage
      BY DEF CheckState, CloseSession, Suspend, Resume, taskVars
    <3>2. Cancel => Ended'
      BY <2>2 DEF Cancel, Ended
    <3> QED BY <1>4, <2>1, <2>3, <3>1, <3>2 DEF Calling
  <2>5. /\ state' = "running" /\ UNCHANGED delegateQueue /\ GetProtocol("start", Rest) /\ workQueue # <<>>
    BY <2>4 DEF Resume, Running
  <2>6. storage'.bag = <<"start">> /\ workQueue' = Rest
    BY <2>1, <2>5 DEF GetProtocol, Stored
  <2>7. Unloaded'
    <3>1. Unloaded
      BY <2>1, NoProtocolYet DEF Orderly, NoneYet, Unloaded
    <3> QED BY <2>5, <2>6, <3>1, UnloadedKept
  <2> QED BY <1>3, <2>1, <2>3, <2>5, <2>6, <2>7 DEF Fresh, FirstStart
<1> QED BY <1>5, <1>6

-----------------------------------------------------------------------------
(* What is stored of a task that has not ended: the newest protocol, or none *)
(* when all have ended; a cached response is replayed by the newest.        *)
AllQuiet == NoneOpen /\ \A p \in 1 .. Newest : Quiet(p)
DroppedIsQuiet == storage.kind = "invalidated" => AllQuiet
StoredIsNewest == storage.kind = "existing" => storage.p = Newest
BlocksAreNewest ==
  \A i \in 1 .. Len(workQueue) :
     /\ workQueue[i].kind = "fulfil" => workQueue[i].p = Newest /\ NoneOpen
     /\ workQueue[i].kind = "start" /\ workQueue[i].p = NoProtocol => storage.kind = "invalidated"
     /\ workQueue[i].kind # "cancelled"
Current == ~Ended /\ crash = "none" => StoredIsNewest /\ DroppedIsQuiet /\ BlocksAreNewest

LEMMA EndsDropped ==
  ASSUME Shape, Turn, NoneOpen, crash' = "none", UNCHANGED pc,
         NEW p \in 1 .. Newest, p = Newest, protocols' = [protocols EXCEPT ![p] = TaskCompleted],
         NEW queue,
         Conclude(<<Op("complete", p)>>, queue) \/ Conclude(<<Op("notify", p), Op("complete", p)>>, queue)
  PROVE  AllQuiet'
<1>1. NoneOpen'
  <2>1. p \in ProtocolNumbers
    BY Counts DEF Newest
  <2> QED BY <2>1, CompletionOps, EndsOpens, NoneOpenMoves
<1>2. TaskCompleted \in ProtocolType /\ p \in 1 .. Len(protocols)
  BY DEF TaskCompleted, ProtocolType, ProtocolStates, Newest
<1>3. /\ Len(protocols') = Len(protocols) /\ protocols'[p] = TaskCompleted
      /\ \A o \in 1 .. Len(protocols) : o # p => protocols'[o] = protocols[o]
  BY <1>2, ProtocolChanged
<1>4. ASSUME NEW o \in 1 .. Newest'
      PROVE  Quiet(o)'
  <2>1. o \in 1 .. Newest
    BY <1>3 DEF Newest
  <2>2. CASE o = p
    BY <1>3, <2>2 DEF Quiet, TaskCompleted
  <2>3. CASE o # p
    <3>1. Quiet(o) /\ protocols'[o] = protocols[o]
      BY <1>3, <2>1, <2>3 DEF Turn, Newest
    <3> QED BY <3>1 DEF Quiet, TaskCompleted
  <2> QED BY <2>2, <2>3
<1> QED BY <1>1, <1>4 DEF AllQuiet

LEMMA StaysDropped ==
  ASSUME Shape, AllQuiet, crash' = "none", [Next]_vars, Newest' = Newest
  PROVE  AllQuiet'
<1>1. NoneOpen /\ \A p \in 1 .. Newest : Quiet(p) /\ ~Loading(p)
  BY DEF AllQuiet, Quiet, Loading, TaskCompleted
<1>2. Steady
  BY NextSteady
<1> QED BY <1>1, <1>2, NoneOpenNext DEF AllQuiet, Steady

(* What ends otherwise than by a cancellation ends the newest protocol, with *)
(* nothing open.                                                            *)
LEMMA TransferDrops ==
  ASSUME Shape, Turn, DeclineRedirect \/ TransferEnds, ~UNCHANGED storage, UNCHANGED pc, crash' = "none"
  PROVE  AllQuiet'
<1>1. PICK p : p = Head(workQueue).p
  OBVIOUS
<1>2. CASE DeclineRedirect
  <2>1. /\ protocols' = [protocols EXCEPT ![p] = TaskCompleted]
        /\ Conclude(<<Op("notify", p), Op("complete", p)>>, Rest)
    BY <1>1, <1>2 DEF DeclineRedirect
  <2>2. /\ 1 \in 1 .. Len(workQueue) /\ workQueue[1].kind = "decline" /\ Head(workQueue) = workQueue[1]
    BY <1>2, RunningBlock DEF DeclineRedirect
  <2>3. Answer(1)
    BY <2>2 DEF Answer, Answers
  <2>4. p = Newest /\ Newest # 0
    BY <1>1, <2>2, <2>3 DEF Turn, AnswerIsNewest
  <2>5. NoneOpen
    BY <2>2, <2>3 DEF Turn, OneOpen, NoneOpen
  <2>6. p \in 1 .. Newest
    BY <2>4, Counts DEF Newest
  <2> QED BY <2>1, <2>4, <2>5, <2>6, EndsDropped
<1>3. ASSUME NEW o \in 1 .. Len(protocols), TransferCompleted(o)
      PROVE  AllQuiet'
  <2>1. Loading(o)
    BY <1>3 DEF TransferCompleted
  <2>2. o = Newest /\ NoneOpen
    BY <2>1, LoadingIsNewest DEF NoneOpen
  <2>3. Head(replies) \in Replies
    <3>1. replies \in Seq(Replies) /\ replies # <<>>
      BY <1>3 DEF Shape, TypeOK, OtherTypes, TransferCompleted
    <3> QED BY <3>1, Dropped
  <2>4. Head(replies) \in {"ok", "fail"}
    <3>1. Head(replies) = "unauthorized" => UNCHANGED storage
      BY <1>3 DEF TransferCompleted, Tell
    <3>2. Head(replies) = "redirect" => UNCHANGED storage
      BY <1>3 DEF TransferCompleted, Tell
    <3> QED BY <2>3, <3>1, <3>2 DEF Replies
  <2>5. /\ protocols' = [protocols EXCEPT ![o] = TaskCompleted]
        /\ Conclude(<<Op("complete", o)>>, workQueue)
    BY <1>3, <2>4 DEF TransferCompleted
  <2> QED BY <2>2, <2>5, EndsDropped DEF Newest
<1>4. ASSUME NEW o \in 1 .. Len(protocols), TimedOut(o)
      PROVE  AllQuiet'
  <2>1. /\ protocols[o].timer /\ protocols[o].at # "waitingForRedirectCompletionHandler"
        /\ protocols' = [protocols EXCEPT ![o] = TaskCompleted]
        /\ Conclude(<<Op("complete", o)>>, workQueue)
    BY <1>4 DEF TimedOut
  <2>2. ~Quiet(o) /\ protocols[o].at # "taskCompleted"
    BY <2>1 DEF Quiet, TaskCompleted, Turn, TimerOK, Newest
  <2>3. o = Newest
    BY <2>2 DEF Turn, Newest
  <2>4. NoneOpen
    <3> SUFFICES ASSUME NEW i \in 1 .. Len(delegateQueue), OpenOp(i)
                 PROVE  FALSE
      BY DEF NoneOpen
    <3>1. delegateQueue[i].kind \in {"redirect", "challenge"}
      BY DEF OpenOp
    <3> QED BY <2>1, <2>2, <2>3, <3>1 DEF Turn, OpenIsNewest, AtRest
  <2> QED BY <2>1, <2>3, <2>4, EndsDropped DEF Newest
<1> QED BY <1>2, <1>3, <1>4 DEF TransferEnds

(* A step that drops the protocol ends it, with nothing open.               *)
LEMMA LoadDrops ==
  ASSUME Shape, Turn, BlocksAreNewest, DroppedIsQuiet, LoadAction, storage' = Invalidated, crash = "none",
         crash' = "none", [Next]_vars
  PROVE  AllQuiet'
<1>0. UNCHANGED pc /\ Len(protocols') = Len(protocols)
  BY LoadSteps DEF Loads
<1>1. CASE storage.kind = "invalidated"
  BY <1>0, <1>1, StaysDropped DEF DroppedIsQuiet, Newest
<1>2. CASE storage.kind # "invalidated"
  <2>0. ~UNCHANGED storage
    BY <1>2 DEF Invalidated, Stored
  <2>1. ~StopLoading /\ ~FollowRedirect /\ ~CancelLoading /\ ~StartLoading
    <3>1. ~StopLoading /\ ~FollowRedirect
      BY <2>0 DEF StopLoading, FollowRedirect
    <3>2. ~CancelLoading
      <4>1. CancelLoading => 1 \in 1 .. Len(workQueue) /\ workQueue[1].kind = "cancelled"
        BY RunningBlock DEF CancelLoading
      <4> QED BY <4>1 DEF BlocksAreNewest
    <3>3. ~StartLoading
      <4> SUFFICES ASSUME StartLoading
                   PROVE  FALSE
        OBVIOUS
      <4>1. 1 \in 1 .. Len(workQueue) /\ workQueue[1].kind = "start" /\ Head(workQueue) = workQueue[1]
        BY RunningBlock DEF StartLoading
      <4>2. Head(workQueue).p # NoProtocol
        BY <1>2, <4>1 DEF BlocksAreNewest
      <4>3. UNCHANGED storage
        BY <4>2 DEF StartLoading
      <4> QED BY <2>0, <4>3
    <3> QED BY <3>1, <3>2, <3>3
  <2>2. PICK p : p = Head(workQueue).p
    OBVIOUS
  <2>3. CASE FulfilFromCache
    <3>1. /\ 1 \in 1 .. Len(workQueue) /\ workQueue[1].kind = "fulfil" /\ Head(workQueue) = workQueue[1]
      BY <2>3, RunningBlock DEF FulfilFromCache
    <3>2. p = Newest /\ NoneOpen
      BY <2>2, <3>1 DEF BlocksAreNewest
    <3>3. p \in 1 .. Newest /\ protocols[p].at \in Replayed
      BY <2>2, <3>1 DEF Turn, FulfilsReplayed
    <3>4. protocols[p] \in ProtocolType /\ protocols[p].timer = FALSE
      BY <3>3, Counts, ElementOfSeq DEF Turn, TimerOK, Replayed, Newest
    <3>5. [protocols[p] EXCEPT !.at = "taskCompleted"] = TaskCompleted
      BY <3>4, ObjectChanges
    <3>6. /\ protocols' = [protocols EXCEPT ![p] = TaskCompleted]
          /\ Conclude(<<Op("notify", p), Op("complete", p)>>, Rest)
      BY <2>2, <2>3, <3>5 DEF FulfilFromCache
    <3> QED BY <1>0, <3>2, <3>3, <3>6, EndsDropped
  <2>4. CASE DeclineRedirect \/ TransferEnds
    BY <1>0, <2>0, <2>4, TransferDrops
  <2>5. \A o \in 1 .. Len(protocols) : ~ReceiveData(o)
    BY <2>0 DEF ReceiveData, Tell
  <2> QED BY <2>1, <2>3, <2>4, <2>5 DEF LoadAction
<1> QED BY <1>1, <1>2

LEMMA NextCrash ==
  ASSUME [Next]_vars, crash' = "none"
  PROVE  crash = "none"
BY DEF Next, vars, queueVars

LEMMA CurrentNext ==
  ASSUME Shape, Turn, Guarded, Fresh, Current, [Next]_vars
  PROVE  Current'
<1>1. SUFFICES ASSUME ~Ended', crash' = "none"
               PROVE  (StoredIsNewest /\ DroppedIsQuiet /\ BlocksAreNewest)'
  BY DEF Current
<1>2. ~Ended /\ crash = "none"
  BY <1>1, NextState, NextCrash
<1>3. StoredIsNewest /\ DroppedIsQuiet /\ BlocksAreNewest
  BY <1>2 DEF Current
<1>4. Invalidated.kind = "invalidated"
  BY DEF Invalidated, Stored
<1>5. StoredIsNewest'
  BY <1>3, <1>4, NextStored DEF StoredIsNewest, Newest, NoneYet
<1>6. NoneOpen => ~ReplaceProtocol
  BY NoneOpenWaits
<1>7. DroppedIsQuiet'
  <2> SUFFICES ASSUME storage'.kind = "invalidated"
               PROVE  AllQuiet'
    BY DEF DroppedIsQuiet
  <2>1. CASE UNCHANGED storage /\ Len(protocols') = Len(protocols)
    BY <1>1, <1>3, <2>1, StaysDropped DEF DroppedIsQuiet, Newest
  <2>2. CASE LoadAction /\ storage' = Invalidated
    BY <1>1, <1>2, <1>3, <2>2, LoadDrops
  <2> QED BY <2>1, <2>2, NextStored
<1>8. PICK d \in 0 .. 1 : Moved(d)
  BY BlocksMove
<1>9. ASSUME NEW i \in 1 .. Len(workQueue')
      PROVE  (/\ workQueue[i].kind = "fulfil" => workQueue[i].p = Newest /\ NoneOpen
              /\ workQueue[i].kind = "start" /\ workQueue[i].p = NoProtocol => storage.kind = "invalidated"
              /\ workQueue[i].kind # "cancelled")'
  <2>1. CASE i + d \in 1 .. Len(workQueue) /\ workQueue'[i] = workQueue[i + d]
    <3>1. PICK b : b = workQueue[i + d]
      OBVIOUS
    <3>2. b.kind # "cancelled"
      BY <1>3, <2>1, <3>1 DEF BlocksAreNewest
    <3>3. ASSUME b.kind = "fulfil"
          PROVE  b.p = Newest' /\ NoneOpen'
      <4>1. b.p = Newest /\ NoneOpen /\ Newest \in 1 .. Newest /\ protocols[Newest].at \in Replayed
        BY <1>2, <1>3, <2>1, <3>1, <3>3 DEF BlocksAreNewest, Turn, FulfilsReplayed
      <4>2. \A p \in 1 .. Newest : ~Loading(p)
        BY <4>1 DEF Turn, Quiet, TaskCompleted, Loading, Replayed
      <4>3. NoneOpen'
        BY <4>1, <4>2, NoneOpenNext
      <4>4. Newest' = Newest
        <5>1. storage.kind \notin NoneYet
          BY <4>1, Counts DEF Shape, Unserved, NoneYet, Newest
        <5> QED BY <1>6, <4>1, <5>1, NextStored DEF Newest, NoneYet
      <4> QED BY <4>1, <4>3, <4>4
    <3>4. ASSUME b.kind = "start", b.p = NoProtocol
          PROVE  storage'.kind = "invalidated"
      <4>1. storage.kind = "invalidated"
        BY <1>3, <2>1, <3>1, <3>4 DEF BlocksAreNewest
      <4>2. NoneOpen
        BY <1>3, <4>1 DEF DroppedIsQuiet, AllQuiet
      <4> QED BY <1>4, <1>6, <4>1, <4>2, NextStored DEF NoneYet
    <3> QED BY <2>1, <3>1, <3>2, <3>3, <3>4
  <2>2. CASE NewBlock(workQueue'[i])
    <3>1. PICK b : b = workQueue'[i]
      OBVIOUS
    <3>2. ASSUME b.kind = "fulfil"
          PROVE  b.p = Newest' /\ NoneOpen'
      <4>1. Replays(b.p)
        BY <2>2, <3>1, <3>2 DEF NewBlock, Callbacks, Calls, OnProtocol
      <4>2. b.p \in 1 .. Newest /\ protocols[b.p].at = "initial"
        <5>1. b.p = Head(workQueue).p /\ b.p # 0 /\ Running("start") /\ protocols[b.p].at = "initial"
          BY <4>1 DEF Replays, StartLoading
        <5> QED BY <5>1, RunningBlock, Counts DEF Newest
      <4>3. b.p = Newest
        BY <4>2 DEF Turn, Quiet, TaskCompleted
      <4>4. NoneOpen
        <5> SUFFICES ASSUME NEW k \in 1 .. Len(delegateQueue), OpenOp(k)
                     PROVE  FALSE
          BY DEF NoneOpen
        <5>1. delegateQueue[k].kind \in {"redirect", "challenge"}
          BY DEF OpenOp
        <5> QED BY <4>2, <4>3, <5>1 DEF Turn, OpenIsNewest, AtRest, Quiet, TaskCompleted
      <4>5. \A p \in 1 .. Newest : ~Loading(p)
        BY <4>2, <4>3 DEF Turn, Quiet, TaskCompleted, Loading
      <4>6. Newest' = Newest
        <5>1. LoadAction
          BY <4>1 DEF Replays, LoadAction
        <5> QED BY <5>1, LoadSteps DEF Loads, Newest
      <4> QED BY <4>3, <4>4, <4>5, <4>6, NoneOpenNext
    <3>3. ASSUME b.kind \in Callbacks
          PROVE  storage'.kind \notin NoneYet /\ CallsBack(b)
      BY <2>2, <3>1, <3>3 DEF NewBlock, Callbacks, Calls, OnProtocol
    <3>4. DeliverProtocol => Head(delivering) = "start"
      <4>1. DeliverProtocol => Asked /\ delivering # <<>>
        BY DEF DeliverProtocol, Asked
      <4>2. DeliverProtocol => delivering = <<"start">>
        BY <1>2, <4>1 DEF Fresh, FirstStart
      <4> QED BY <4>2
    <3>5. b.kind # "cancelled"
      BY <1>1, <3>3, <3>4 DEF Callbacks, CallsBack, Asks
    <3>6. ASSUME b.kind = "start", b.p = NoProtocol
          PROVE  storage'.kind = "invalidated"
      <4>1. b.p = storage'.p /\ storage'.kind \notin NoneYet
        BY <3>3, <3>6 DEF CallsBack, Callbacks, NoProtocol
      <4>2. Shape'
        BY ShapeNext
      <4>3. storage'.kind \in {"toBeCreated", "awaitingCacheReply", "existing", "invalidated"}
            /\ ((storage'.kind = "existing") <=> (storage'.p # NoProtocol))
        BY <4>2 DEF Shape, TypeOK, TaskTypes
      <4> QED BY <3>6, <4>1, <4>3 DEF NoneYet
    <3> QED BY <3>1, <3>2, <3>5, <3>6
  <2> QED BY <1>8, <2>1, <2>2 DEF Moved
<1>10. BlocksAreNewest'
  BY <1>9 DEF BlocksAreNewest
<1> QED BY <1>5, <1>7, <1>10

-----------------------------------------------------------------------------
(* Behind every start of a suspended task comes a stop.                     *)
Stops(j, p) == workQueue[j].kind = "stop" /\ workQueue[j].p = p
Starts(i, p) == workQueue[i].kind = "start" /\ workQueue[i].p = p
StopsFollow ==
  state = "suspended" =>
    \A p \in 1 .. Newest :
       /\ Loading(p) => \E j \in 1 .. Len(workQueue) : Stops(j, p)
       /\ crash = "none" /\ ~Quiet(p) =>
            \A i \in 1 .. Len(workQueue) : Starts(i, p) => \E j \in 1 .. Len(workQueue) : i < j /\ Stops(j, p)

(* The stop that suspending a running task leaves behind all other blocks.  *)
LEMMA SuspendStops ==
  ASSUME Shape, Turn, Guarded, Counted, Untouched, Current, Suspend, suspendCount = 0, crash = "none"
  PROVE  StopsFollow'
<1>1. ~Ended /\ GetProtocol("stop", Rest) /\ UNCHANGED crash
  BY DEF Suspend, Guarded
<1>2. state = "running"
  BY <1>1 DEF Counted
<1>3. StoredIsNewest /\ DroppedIsQuiet
  BY <1>1 DEF Current
<1>4. CASE storage.kind = "toBeCreated"
  BY <1>1, <1>2, <1>4 DEF Untouched
<1>5. CASE storage.kind = "awaitingCacheReply"
  <2>1. UNCHANGED protocols /\ protocols = <<>>
    BY <1>1, <1>5 DEF GetProtocol, Shape, Unserved
  <2> QED BY <2>1 DEF StopsFollow, Newest
<1>6. CASE storage.kind \notin NoneYet
  <2>1. UNCHANGED protocols /\ workQueue' = Append(Rest, Block("stop", storage.p))
    BY <1>1, <1>6 DEF GetProtocol, NoneYet
  <2>2. storage.kind \in {"existing", "invalidated"}
    BY <1>6, TaskParts DEF StorageOK, StorageType, NoneYet
  <2>3. CASE storage.kind = "invalidated"
    <3>1. \A p \in 1 .. Newest' : Quiet(p)' /\ ~Loading(p)'
      BY <1>3, <2>1, <2>3 DEF DroppedIsQuiet, AllQuiet, Newest, Quiet, Loading, TaskCompleted
    <3> QED BY <3>1 DEF StopsFollow
  <2>4. CASE storage.kind = "existing"
    <3>1. storage.p = Newest
      BY <1>3, <2>4 DEF StoredIsNewest
    <3>2. PICK r, b : r = Rest /\ b = Block("stop", Newest)
      OBVIOUS
    <3>3. r \in Seq(BlockType) /\ b \in BlockType
      <4>1. Rest \in Seq(BlockType)
        BY RunningBlock DEF Suspend
      <4>2. Newest \in ProtocolNumbers /\ "stop" \in BlockKinds
        BY Counts DEF Newest, BlockKinds, Callbacks
      <4> QED BY <3>2, <4>1, <4>2 DEF Block, BlockType
    <3>4. /\ Len(r) \in Nat /\ Len(Append(r, b)) = Len(r) + 1 /\ Append(r, b)[Len(r) + 1] = b
          /\ \A i \in 1 .. Len(r) : Append(r, b)[i] = r[i]
      BY <3>3, Added
    <3>5. workQueue' = Append(r, b) /\ b.kind = "stop" /\ b.p = Newest
      BY <2>1, <3>1, <3>2 DEF Block
    <3>6. Stops(Len(r) + 1, Newest)' /\ Len(workQueue') = Len(r) + 1 /\ Len(r) + 1 \in 1 .. Len(workQueue')
      BY <2>1, <3>4, <3>5 DEF Stops, Newest
    <3>7. ASSUME NEW p \in 1 .. Newest'
          PROVE  /\ Loading(p)' => \E j \in 1 .. Len(workQueue') : Stops(j, p)'
                 /\ ~Quiet(p)' =>
                      \A i \in 1 .. Len(workQueue') :
                         Starts(i, p)' => \E j \in 1 .. Len(workQueue') : i < j /\ Stops(j, p)'
      <4>1. p \in 1 .. Newest /\ Newest' = Newest
        BY <2>1 DEF Newest
      <4>2. CASE p = Newest
        <5>1. ASSUME NEW i \in 1 .. Len(workQueue'), Starts(i, p)'
              PROVE  i < Len(r) + 1
          <6>1. workQueue'[i].kind = "start"
            BY <5>1 DEF Starts
          <6>2. i # Len(r) + 1
            BY <3>4, <3>5, <6>1
          <6> QED BY <3>4, <3>6, <6>2
        <5> QED BY <3>6, <4>1, <4>2, <5>1
      <4>3. CASE p # Newest
        BY <2>1, <4>1, <4>3 DEF Turn, Quiet, Loading, TaskCompleted
      <4> QED BY <4>2, <4>3
    <3> QED BY <3>7 DEF StopsFollow
  <2> QED BY <2>2, <2>3, <2>4
<1> QED BY <1>4, <1>5, <1>6 DEF NoneYet

(* A stop moves on in the queue, or it runs and stops.                      *)
LEMMA StopsMove ==
  ASSUME Shape, [Next]_vars, NEW d \in 0 .. 1, Moved(d), state = "suspended",
         NEW p \in 1 .. Newest, NEW j \in 1 .. Len(workQueue), Stops(j, p), Loading(p)'
  PROVE  j > d
<1> SUFFICES ASSUME j = 1, d = 1
             PROVE  FALSE
  OBVIOUS
<1>1. RunWork /\ workQueue # <<>>
  BY DEF Moved
<1>2. Head(workQueue) = workQueue[1] /\ Head(workQueue).kind = "stop" /\ Head(workQueue).p = p
  <2>1. workQueue \in Seq(BlockType)
    BY DEF Shape, TypeOK, WorkTypes, BlockType
  <2> QED BY <1>1, <2>1, Dropped DEF Stops
<1>3. StopLoading
  BY <1>1, <1>2 DEF RunWork, Running, CheckState, Suspend, Resume, Cancel, AddTask, RemoveTask, FinishTasks,
     CloseSession, InvalidateSession, StartLoading, CancelLoading, FulfilFromCache, FollowRedirect, DeclineRedirect
<1>4. p \in 1 .. Len(protocols) /\ p # NoProtocol /\ protocols[p] \in ProtocolType
  BY Counts, ElementOfSeq DEF Newest, NoProtocol
<1>5. protocols' = [protocols EXCEPT ![p] = Stopped(protocols[p])]
  BY <1>2, <1>3, <1>4 DEF StopLoading
<1>6. Stopped(protocols[p]) \in ProtocolType /\ Stopped(protocols[p]).at # "transferInProgress"
  BY <1>4, ProtocolKinds, ObjectChanges
<1>7. protocols'[p] = Stopped(protocols[p])
  BY <1>4, <1>5, <1>6, ProtocolChanged
<1> QED BY <1>6, <1>7 DEF Loading

LEMMA StopsFollowNext ==
  ASSUME Shape, Turn, Guarded, Counted, Untouched, Fresh, Current, StopsFollow, [Next]_vars
  PROVE  StopsFollow'
<1>1. SUFFICES ASSUME state' = "suspended"
               PROVE  StopsFollow'
  BY DEF StopsFollow
<1>2. ~Ended' /\ ~Ended
  BY <1>1, NextState DEF Ended
<1>3. CASE Suspend /\ suspendCount = 0
  <2>1. crash = "none"
    <3>1. suspendCount' # suspendCount
      BY <1>3, TaskParts DEF Suspend
    <3> QED BY <3>1 DEF Next, vars, taskVars
  <2> QED BY <1>3, <2>1, SuspendStops
<1>4. CASE ~(Suspend /\ suspendCount = 0)
  <2>1. state = "suspended" /\ suspendCount > 0
    <3>1. suspendCount \in Nat /\ state \in States
      BY TaskParts
    <3>2. suspendCount # 0
      <4>1. CASE Suspend
        BY <1>4, <4>1
      <4>2. CASE Resume
        <5>1. OneLess # 0
          BY <1>1, <4>2 DEF Resume
        <5> QED BY <3>1, <5>1 DEF OneLess
      <4>3. CASE UNCHANGED state
        BY <1>1, <1>2, <4>3 DEF Counted
      <4> QED BY <1>2, <4>1, <4>2, <4>3, NextSuspension
    <3> QED BY <1>2, <3>1, <3>2 DEF Counted, States, Ended
  <2>2. PICK d \in 0 .. 1 : Moved(d)
    BY BlocksMove
  <2>3. Steady
    BY NextSteady
  <2>4. \A j \in 1 .. Len(workQueue), p \in 1 .. Newest :
          j > d /\ Stops(j, p) => j - d \in 1 .. Len(workQueue') /\ Stops(j - d, p)'
    BY <2>2 DEF Moved, Stops
  <2>5. ASSUME NEW i \in 1 .. Len(workQueue'), NEW p, Starts(i, p)', crash = "none"
        PROVE  i + d \in 1 .. Len(workQueue) /\ Starts(i + d, p)
    <3>1. CASE NewBlock(workQueue'[i])
      <4>1. workQueue'[i].kind = "start"
        BY <2>5 DEF Starts
      <4>2. CallsBack(workQueue'[i])
        BY <3>1, <4>1 DEF NewBlock, Callbacks, Calls, OnProtocol
      <4>3. DeliverProtocol
        BY <1>1, <4>1, <4>2 DEF CallsBack, Asks
      <4>4. Asked
        BY <4>3 DEF DeliverProtocol, Asked
      <4> QED BY <1>2, <2>1, <4>4 DEF Fresh
    <3> QED BY <2>2, <2>5, <3>1 DEF Moved, Starts
  <2>6. \A p \in 1 .. Newest' : p \in 1 .. Newest \/ protocols'[p] = NewProtocol
    <3>1. CASE Len(protocols') = Len(protocols)
      BY <3>1 DEF Newest
    <3>2. CASE protocols' = Append(protocols, NewProtocol)
      BY <3>2, ProtocolMade, Counts DEF Newest
    <3> QED BY <3>1, <3>2, NextStored
  <2>7. ASSUME NEW p \in 1 .. Newest', Loading(p)'
        PROVE  \E j \in 1 .. Len(workQueue') : Stops(j, p)'
    <3>1. p \in 1 .. Newest
      BY <2>6, <2>7 DEF Loading, NewProtocol
    <3>2. CASE Loading(p)
      <4>1. PICK j \in 1 .. Len(workQueue) : Stops(j, p)
        BY <2>1, <3>1, <3>2 DEF StopsFollow
      <4>2. j > d
        BY <2>1, <2>2, <2>7, <3>1, <4>1, StopsMove
      <4> QED BY <2>4, <3>1, <4>1, <4>2
    <3>3. CASE ~Loading(p)
      <4>1. Running("start") /\ Head(workQueue).p = p /\ ~Quiet(p)
        BY <2>1, <2>3, <2>7, <3>1, <3>3 DEF Steady
      <4>2. 1 \in 1 .. Len(workQueue) /\ Starts(1, p)
        BY <4>1, RunningBlock DEF Starts
      <4>3. crash = "none"
        BY <2>7, <3>3 DEF Next, vars, taskVars, Loading
      <4>4. PICK j \in 1 .. Len(workQueue) : 1 < j /\ Stops(j, p)
        BY <2>1, <3>1, <4>1, <4>2, <4>3 DEF StopsFollow
      <4> QED BY <2>4, <3>1, <4>4
    <3> QED BY <3>2, <3>3
  <2>8. ASSUME NEW p \in 1 .. Newest', crash' = "none", ~Quiet(p)', NEW i \in 1 .. Len(workQueue'), Starts(i, p)'
        PROVE  \E j \in 1 .. Len(workQueue') : i < j /\ Stops(j, p)'
    <3>1. crash = "none"
      BY <2>8, NextCrash
    <3>2. i + d \in 1 .. Len(workQueue) /\ Starts(i + d, p)
      BY <2>5, <2>8, <3>1
    <3>3. p \in 1 .. Newest
      <4>1. workQueue[i + d] \in BlockType
        BY <3>2, ElementOfSeq DEF Shape, TypeOK, WorkTypes, BlockType
      <4> QED BY <2>8, <3>2, <4>1, Counts DEF Starts, BlockType, Newest
    <3>4. ~Quiet(p)
      BY <2>3, <2>8, <3>3 DEF Steady
    <3>5. PICK j \in 1 .. Len(workQueue) : i + d < j /\ Stops(j, p)
      BY <2>1, <3>1, <3>2, <3>3, <3>4 DEF StopsFollow
    <3>6. j > d /\ i < j - d
      BY <3>5
    <3> QED BY <2>4, <3>3, <3>5, <3>6
  <2> QED BY <2>7, <2>8 DEF StopsFollow
<1> QED BY <1>3, <1>4

LEMMA InitSuspended ==
  ASSUME Init
  PROVE  Counted /\ Untouched /\ Fresh /\ Current /\ StopsFollow
<1>1. /\ state = "suspended" /\ suspendCount = 1 /\ storage.kind = "toBeCreated" /\ protocols = <<>>
      /\ delivering = <<>> /\ delegateQueue = <<>>
      /\ Len(workQueue) = 1 /\ workQueue[1].kind = "add"
  BY DEF Init, Stored, Block
<1>2. \A i \in 1 .. Len(workQueue) : workQueue[i].kind = "add"
  BY <1>1
<1>3. Counted /\ Untouched /\ Fresh /\ StopsFollow
  BY <1>1 DEF Counted, Untouched, Fresh, Asked, StopsFollow, Newest
<1>4. Current
  BY <1>1, <1>2 DEF Current, StoredIsNewest, DroppedIsQuiet, BlocksAreNewest
<1> QED BY <1>3, <1>4

(* Once what was on its way has run, a suspended task has no transfer in     *)
(* progress (URLSessionTask.swift:412), although a block decides by the      *)
(* state it meets and not by the call that queued it, startLoading() starts  *)
(* a transfer whatever the count of suspensions (NativeProtocol.swift:415),  *)
(* a redirect or a challenge starts a transfer of its own, and the cache    *)
(* answers late.  A configuration with a cache asks for an application that  *)
(* leaves the task alone once it has started it: the callbacks that wait     *)
(* for the cache's answer may reach the protocol out of order.               *)
THEOREM SuspendedStaysIdle ==
  ASSUME \A s \in Scenarios : StartsOnce(s) /\ StartsCachedOnce(s)
  PROVE  Spec => []SuspendedIsIdle
<1> DEFINE Base == Shape /\ Turn /\ Program /\ Orderly /\ Guarded /\ Beginning
           Inv == Base /\ Counted /\ Untouched /\ Fresh /\ Current /\ StopsFollow
<1>1. Init => Inv
  BY InitShape, InitTurn, InitCancel, InitSuspended
<1>2. Inv /\ [Next]_vars => Inv'
  <2> SUFFICES ASSUME Shape, Turn, Program, Orderly, Guarded, Beginning, Counted, Untouched, Fresh, Current,
                      StopsFollow, [Next]_vars
               PROVE  Inv'
    OBVIOUS
  <2>1. Shape' /\ Turn' /\ Program' /\ Orderly' /\ Beginning'
    BY ShapeNext, TurnNext, ProgramNext, OrderlyNext, BeginningNext
  <2>2. StartsOnce(scenario) /\ StartsCachedOnce(scenario)
    BY DEF Shape, TypeOK, OtherTypes
  <2>3. Guarded'
    BY <2>2, GuardedNext DEF Orderly
  <2>4. Counted' /\ Untouched' /\ Fresh'
    BY <2>2, CountedNext, UntouchedNext, FreshNext
  <2>5. Current' /\ StopsFollow'
    BY CurrentNext, StopsFollowNext
  <2> QED BY <2>1, <2>3, <2>4, <2>5
<1>3. Inv => SuspendedIsIdle
  <2> SUFFICES ASSUME StopsFollow, state = "suspended", Settled, NEW p \in 1 .. Len(protocols), Loading(p)
               PROVE  FALSE
    BY DEF SuspendedIsIdle
  <2>1. Len(workQueue) = 0
    BY DEF Settled
  <2> QED BY <2>1 DEF StopsFollow, Newest
<1> QED BY <1>1, <1>2, <1>3, PTL DEF Spec

-----------------------------------------------------------------------------
(* The last word of a task with a delegate.  Once its completion is on its  *)
(* way, no protocol object can tell anything: each is done, or was made for *)
(* the answer to a challenge after the task was cancelled, and is not       *)
(* started any more.                                                        *)
Dead(p) ==
  \/ Quiet(p)
  \/ /\ Ended /\ protocols[p] = NewProtocol
     /\ \A i \in 1 .. Len(workQueue) : ~Starts(i, p)
     /\ p = 1 => \A i \in 1 .. Len(delivering) : delivering[i] # "start"

Over ==
  Completing /\ crash = "none" =>
    /\ \A i \in 1 .. Len(workQueue) : workQueue[i].kind # "fulfil"
    /\ \A p \in 1 .. Newest : Dead(p)
    /\ ~Ended => storage.kind = "invalidated"

LEMMA DeadIsStill ==
  ASSUME NEW p, Dead(p)
  PROVE  protocols[p].at \in {"taskCompleted", "initial"} /\ protocols[p].timer = FALSE
BY DEF Dead, Quiet, TaskCompleted, NewProtocol

(* What becomes of a new protocol that is not started.                      *)
LEMMA NewKept ==
  ASSUME Shape, Turn, [Next]_vars, crash' = "none", NEW p \in 1 .. Newest, protocols[p] = NewProtocol,
         ~(Running("start") /\ Head(workQueue).p = p)
  PROVE  protocols'[p] \in {NewProtocol, TaskCompleted}
<1>0. /\ NewProtocol \in ProtocolType /\ NewProtocol.at = "initial" /\ NewProtocol.timer = FALSE
      /\ p \in 1 .. Len(protocols) /\ crash = "none"
  BY NextCrash DEF NewProtocol, ProtocolType, ProtocolStates, Newest
<1>1. Stopped(NewProtocol) \in {NewProtocol, TaskCompleted}
  BY <1>0 DEF Stopped, Suspended
<1>2. [NewProtocol EXCEPT !.at = "taskCompleted"] = TaskCompleted
  BY <1>0, ObjectChanges
<1>3. ASSUME NEW q \in 1 .. Len(protocols), NEW x \in ProtocolType, protocols' = [protocols EXCEPT ![q] = x],
             q = p => x \in {NewProtocol, TaskCompleted}
      PROVE  protocols'[p] \in {NewProtocol, TaskCompleted}
  BY <1>0, <1>3, ProtocolChanged
<1>4. CASE UNCHANGED protocols
  BY <1>4
<1>5. CASE protocols' = Append(protocols, NewProtocol)
  BY <1>0, <1>5, ProtocolMade
<1>6. ASSUME NEW q, Running("start") \/ Running("stop") \/ Running("cancelled") \/ Running("fulfil")
                    \/ Running("follow") \/ Running("decline"),
             q = Head(workQueue).p, q # NoProtocol
      PROVE  q \in 1 .. Len(protocols) /\ protocols[q] \in ProtocolType
  <2>1. q \in 1 .. Len(protocols)
    BY <1>6, RunningBlock, Counts DEF NoProtocol
  <2> QED BY <2>1, Counts, ElementOfSeq
<1>7. CASE StartLoading
  <2>1. PICK q : q = Head(workQueue).p
    OBVIOUS
  <2>2. UNCHANGED protocols \/ (q # NoProtocol /\ q # p)
    BY <1>7, <2>1 DEF StartLoading
  <2>3. CASE q # NoProtocol /\ q # p
    <3>1. q \in 1 .. Len(protocols) /\ protocols[q] \in ProtocolType
      BY <1>6, <1>7, <2>1, <2>3 DEF StartLoading
    <3>2. \/ protocols' = [protocols EXCEPT ![q] = [protocols[q] EXCEPT !.at = "fulfillingFromCache"]]
          \/ protocols' = [protocols EXCEPT ![q] = Resumed(protocols[q])]
      BY <1>7, <2>1, <2>3 DEF StartLoading
    <3>3. [protocols[q] EXCEPT !.at = "fulfillingFromCache"] \in ProtocolType /\ Resumed(protocols[q]) \in ProtocolType
      BY <3>1, ProtocolKinds DEF ProtocolStates
    <3> QED BY <1>3, <2>3, <3>1, <3>2, <3>3
  <2> QED BY <1>4, <2>2, <2>3
<1>8. CASE StopLoading \/ CancelLoading
  <2>1. PICK q : q = Head(workQueue).p
    OBVIOUS
  <2>2. UNCHANGED protocols \/ (q # NoProtocol /\ protocols' = [protocols EXCEPT ![q] = Stopped(protocols[q])])
    BY <1>8, <2>1 DEF StopLoading, CancelLoading
  <2>3. CASE q # NoProtocol /\ protocols' = [protocols EXCEPT ![q] = Stopped(protocols[q])]
    <3>1. q \in 1 .. Len(protocols) /\ protocols[q] \in ProtocolType
      BY <1>6, <1>8, <2>1, <2>3 DEF StopLoading, CancelLoading
    <3>2. Stopped(protocols[q]) \in ProtocolType
      BY <3>1, ProtocolKinds
    <3> QED BY <1>1, <1>3, <2>3, <3>1, <3>2
  <2> QED BY <1>4, <2>2, <2>3
<1>9. CASE FulfilFromCache
  <2>1. PICK q : q = Head(workQueue).p
    OBVIOUS
  <2>2. q # NoProtocol /\ protocols' = [protocols EXCEPT ![q] = [protocols[q] EXCEPT !.at = "taskCompleted"]]
    BY <1>9, <2>1, RunningBlock DEF FulfilFromCache, OnProtocol, NoProtocol
  <2>3. q \in 1 .. Len(protocols) /\ protocols[q] \in ProtocolType
    BY <1>6, <1>9, <2>1, <2>2 DEF FulfilFromCache
  <2>4. [protocols[q] EXCEPT !.at = "taskCompleted"] \in ProtocolType
    BY <2>3, ProtocolKinds DEF ProtocolStates
  <2> QED BY <1>2, <1>3, <2>2, <2>3, <2>4
<1>10. CASE FollowRedirect \/ DeclineRedirect
  <2>1. PICK q : q = Head(workQueue).p
    OBVIOUS
  <2>2. /\ q # NoProtocol /\ protocols[q].at = "waitingForRedirectCompletionHandler"
        /\ \/ protocols' = [protocols EXCEPT ![q] = StartNewTransfer]
           \/ protocols' = [protocols EXCEPT ![q] = TaskCompleted]
    <3>1. q # NoProtocol
      BY <1>10, <2>1, RunningBlock DEF FollowRedirect, DeclineRedirect, OnProtocol, NoProtocol
    <3> QED BY <1>10, <2>1, <3>1 DEF FollowRedirect, DeclineRedirect
  <2>3. q \in 1 .. Len(protocols) /\ protocols[q] \in ProtocolType
    BY <1>6, <1>10, <2>1, <2>2 DEF FollowRedirect, DeclineRedirect
  <2>4. StartNewTransfer \in ProtocolType /\ TaskCompleted \in ProtocolType
    BY <2>3, ProtocolKinds
  <2>5. q # p
    BY <1>0, <2>2
  <2> QED BY <1>3, <2>2, <2>3, <2>4, <2>5
<1>11. ASSUME NEW q \in 1 .. Len(protocols), TransferCompleted(q) \/ TimedOut(q) \/ ReceiveData(q)
       PROVE  protocols'[p] \in {NewProtocol, TaskCompleted}
  <2>1. ReceiveData(q) => UNCHANGED protocols
    BY DEF ReceiveData
  <2>2. CASE TransferCompleted(q) \/ TimedOut(q)
    <3>1. q # p
      BY <1>0, <2>2 DEF TransferCompleted, TimedOut, Loading
    <3>2. \E x : protocols' = [protocols EXCEPT ![q] = x]
      <4>1. CASE TransferCompleted(q)
        <5>1. Head(replies) \in Replies
          BY <4>1, Dropped DEF Shape, TypeOK, OtherTypes, TransferCompleted
        <5>2. CASE Head(replies) \in {"ok", "fail", "unauthorized"}
          BY <4>1, <5>2 DEF TransferCompleted
        <5>3. CASE Head(replies) = "redirect"
          BY <4>1, <5>3 DEF TransferCompleted
        <5> QED BY <5>1, <5>2, <5>3 DEF Replies
      <4> QED BY <2>2, <4>1 DEF TimedOut
    <3>3. protocols'[p] = protocols[p]
      BY <1>0, <3>1, <3>2, Counts, LenProperties
    <3> QED BY <3>3
  <2> QED BY <1>4, <1>11, <2>1, <2>2
<1>12. CASE ~LoadAction
  BY <1>4, <1>5, <1>12, NextObjects
<1> QED BY <1>7, <1>8, <1>9, <1>10, <1>11, <1>12, Zenon DEF LoadAction, TransferEnds

(* A protocol that cannot be started any more stays so.                     *)
LEMMA DeadStays ==
  ASSUME Shape, Turn, Guarded, [Next]_vars, crash' = "none", NEW p \in 1 .. Newest, Dead(p)
  PROVE  Dead(p)'
<1>1. CASE Quiet(p)
  <2>1. Quiet(p)'
    BY <1>1, NextSteady DEF Steady
  <2> QED BY <2>1 DEF Dead
<1>2. CASE ~Quiet(p)
  <2>1. /\ Ended /\ protocols[p] = NewProtocol
        /\ \A i \in 1 .. Len(workQueue) : ~Starts(i, p)
        /\ p = 1 => \A i \in 1 .. Len(delivering) : delivering[i] # "start"
    BY <1>2 DEF Dead
  <2>2. Ended'
    BY <2>1, NextState
  <2>3. protocols'[p] \in {NewProtocol, TaskCompleted}
    <3>1. ~(Running("start") /\ Head(workQueue).p = p)
      BY <2>1, RunningBlock DEF Starts
    <3> QED BY <2>1, <3>1, NewKept
  <2>4. DeliverProtocol /\ p = 1 => Head(delivering) # "start"
    BY <2>1, Dropped DEF DeliverProtocol, Shape, TypeOK, TaskTypes
  <2>5. \A i \in 1 .. Len(workQueue') : ~Starts(i, p)'
    <3> SUFFICES ASSUME NEW i \in 1 .. Len(workQueue'), workQueue'[i].kind = "start", workQueue'[i].p = p
                 PROVE  FALSE
      BY DEF Starts
    <3>1. PICK d \in 0 .. 1 : Moved(d)
      BY BlocksMove
    <3>2. CASE i + d \in 1 .. Len(workQueue) /\ workQueue'[i] = workQueue[i + d]
      BY <2>1, <3>2 DEF Starts
    <3>3. CASE NewBlock(workQueue'[i])
      <4>1. CallsBack(workQueue'[i])
        BY <3>3 DEF NewBlock, Callbacks, Calls, OnProtocol
      <4>2. ~Asks("start")
        BY <2>2 DEF Asks, Ended
      <4> QED BY <2>4, <4>1, <4>2 DEF CallsBack
    <3> QED BY <3>1, <3>2, <3>3 DEF Moved
  <2>6. p = 1 => \A i \in 1 .. Len(delivering') : delivering'[i] # "start"
    <3>1. CASE UNCHANGED delivering
      BY <2>1, <3>1
    <3>2. ~CacheReplies
      BY Counts DEF CacheReplies, Shape, Unserved, Newest
    <3>3. CASE DeliverProtocol
      <4>1. delivering' = Tail(delivering) /\ delivering # <<>> /\ delivering \in Seq(Callbacks)
        BY <3>3 DEF DeliverProtocol, Shape, TypeOK, TaskTypes
      <4>2. \A i \in 1 .. Len(delivering') : i + 1 \in 1 .. Len(delivering) /\ delivering'[i] = delivering[i + 1]
        BY <4>1, Dropped
      <4> QED BY <2>1, <4>2
    <3> QED BY <3>1, <3>2, <3>3, NextDelivering
  <2> QED BY <2>2, <2>3, <2>5, <2>6 DEF Dead, Quiet, NewProtocol, TaskCompleted
<1> QED BY <1>1, <1>2

LastDead == Dead(Newest)

(* The protocol that a cancelled task gets for the answer to a challenge is  *)
(* not started: the task ignores the resume that follows.                   *)
LEMMA ReplacedIsDead ==
  ASSUME Shape, ReplaceProtocol, Ended
  PROVE  /\ Newest' = Newest + 1 /\ Newest' \in 1 .. Newest'
         /\ LastDead'
<1>1. /\ protocols' = Append(protocols, NewProtocol)
      /\ workQueue' = Append(workQueue, SyncBlock("resume", "delegate"))
      /\ UNCHANGED <<state, delivering>>
  BY DEF ReplaceProtocol, Enter
<1>2. /\ Newest \in Nat /\ Newest' = Newest + 1 /\ protocols'[Newest'] = NewProtocol
  BY <1>1, ProtocolMade, Counts DEF Newest
<1>3. Ended'
  BY <1>1 DEF Ended
<1>4. \A i \in 1 .. Len(workQueue') : ~(workQueue'[i].kind = "start" /\ workQueue'[i].p = Newest')
  <2>1. workQueue \in Seq(BlockType)
    BY DEF Shape, TypeOK, WorkTypes, BlockType
  <2>2. \A i \in 1 .. Len(workQueue) : workQueue[i].p <= Newest
    <3>1. \A i \in 1 .. Len(workQueue) : workQueue[i] \in BlockType
      BY <2>1, ElementOfSeq
    <3> QED BY <1>2, <3>1 DEF BlockType, ProtocolNumbers, Newest
  <2>3. SyncBlock("resume", "delegate").kind = "resume"
    BY DEF SyncBlock
  <2>4. PICK b : b = SyncBlock("resume", "delegate")
    OBVIOUS
  <2>5. /\ Len(workQueue') = Len(workQueue) + 1 /\ Len(workQueue) \in Nat
        /\ \A i \in 1 .. Len(workQueue') :
             workQueue'[i] = IF i <= Len(workQueue) THEN workQueue[i] ELSE b
    BY <1>1, <2>1, <2>4, AppendProperties, LenProperties
  <2> QED BY <1>2, <2>2, <2>3, <2>4, <2>5
<1>5. Newest' = 1 => delivering' = <<>>
  <2>1. Newest = 0 => protocols = <<>>
    BY Counts DEF Newest
  <2> QED BY <1>1, <1>2, <2>1 DEF Shape, Unserved
<1> QED BY <1>2, <1>3, <1>4, <1>5 DEF LastDead, Dead, Starts

LEMMA ReplacedMakes ==
  ASSUME Shape, ReplaceProtocol
  PROVE  ~UNCHANGED protocols
BY ProtocolMade, Counts DEF ReplaceProtocol

LEMMA LastDies ==
  ASSUME NEW p, p = Newest'
  PROVE  LastDead' <=> Dead(p)'
BY DEF LastDead, Dead, Quiet, Starts

(* What else follows from the order of the calls.  A block that starts a     *)
(* dropped protocol comes after the end; nothing ends before there is a     *)
(* protocol; and only the newest one may have more to tell than a cancelled *)
(* one.                                                                     *)
LateStarts == \A i \in 1 .. Len(workQueue) : Starts(i, NoProtocol) => Completing
NotYet == storage.kind \in NoneYet => ~Completing
CancelsNewest ==
  crash = "none" =>
    /\ \A i \in 1 .. Len(workQueue) : Cancelling(i) => workQueue[i].p = Newest \/ LastDead
    /\ delivering # <<>> => Newest = 1 \/ LastDead

LEMMA StoredNext ==
  ASSUME Shape, StoredIsNewest, [Next]_vars
  PROVE  StoredIsNewest'
<1>1. Invalidated.kind = "invalidated"
  BY DEF Invalidated, Stored
<1> QED BY <1>1, NextStored DEF StoredIsNewest, Newest, NoneYet

LEMMA LateStartsNext ==
  ASSUME Shape, Guarded, TellsOnce, Finished, LateStarts, [Next]_vars, EndsReported'
  PROVE  LateStarts'
<1> SUFFICES ASSUME NEW i \in 1 .. Len(workQueue'), workQueue'[i].kind = "start", workQueue'[i].p = NoProtocol
             PROVE  Completing'
  BY DEF LateStarts, Starts
<1>1. PICK d \in 0 .. 1 : Moved(d)
  BY BlocksMove
<1>2. CASE i + d \in 1 .. Len(workQueue) /\ workQueue'[i] = workQueue[i + d]
  <2>1. Completing
    BY <1>2 DEF LateStarts, Starts
  <2> QED BY <2>1, CompletingStays
<1>3. CASE NewBlock(workQueue'[i])
  <2>1. storage'.kind \notin NoneYet /\ storage'.p = NoProtocol
    BY <1>3 DEF NewBlock, CallsBack, Callbacks, Calls, OnProtocol, NoProtocol
  <2>2. Shape'
    BY ShapeNext
  <2>3. storage'.kind = "invalidated"
    <3>1. /\ storage'.kind \in {"toBeCreated", "awaitingCacheReply", "existing", "invalidated"}
          /\ ((storage'.kind = "existing") <=> (storage'.p # NoProtocol))
      BY <2>2 DEF Shape, TypeOK, TaskTypes
    <3> QED BY <2>1, <3>1 DEF NoneYet
  <2> QED BY <2>3 DEF EndsReported
<1> QED BY <1>1, <1>2, <1>3 DEF Moved

LEMMA LastStays ==
  ASSUME Shape, Turn, Guarded, [Next]_vars, crash' = "none",
         Ended \/ ~ReplaceProtocol, storage.kind \notin NoneYet, Newest # 0
  PROVE  /\ Newest' = Newest \/ LastDead'
         /\ LastDead => LastDead'
<1>1. CASE ReplaceProtocol
  BY <1>1, ReplacedIsDead
<1>2. CASE ~ReplaceProtocol
  <2>1. Newest' = Newest
    BY <1>2, NextStored DEF NoneYet, Newest
  <2>2. Newest \in 1 .. Newest
    BY Counts DEF Newest
  <2>3. PICK p \in 1 .. Newest : p = Newest
    BY <2>2
  <2>4. LastDead => Dead(p)'
    BY <2>3, DeadStays DEF LastDead
  <2> QED BY <2>1, <2>3, <2>4, LastDies
<1> QED BY <1>1, <1>2

LEMMA CancelsNewestNext ==
  ASSUME Shape, Turn, Guarded, Served, Fresh, Current, StoredIsNewest, CancelsNewest, [Next]_vars
  PROVE  CancelsNewest'
<1>1. SUFFICES ASSUME crash' = "none"
               PROVE  /\ \A i \in 1 .. Len(workQueue') : Cancelling(i)' => workQueue'[i].p = Newest' \/ LastDead'
                      /\ delivering' # <<>> => Newest' = 1 \/ LastDead'
  BY DEF CancelsNewest
<1>2. crash = "none"
  BY <1>1, NextCrash
<1>3. Shape' /\ StoredIsNewest'
  BY ShapeNext, StoredNext
<1>4. ASSUME NEW i \in 1 .. Len(workQueue'), workQueue'[i].kind = "cancelled", workQueue'[i].p # NoProtocol
      PROVE  workQueue'[i].p = Newest' \/ LastDead'
  <2>1. PICK d \in 0 .. 1 : Moved(d)
    BY BlocksMove
  <2>2. CASE i + d \in 1 .. Len(workQueue) /\ workQueue'[i] = workQueue[i + d]
    <3>1. PICK j \in 1 .. Len(workQueue) : j = i + d
      BY <2>2
    <3>2. /\ workQueue[j].kind = "cancelled" /\ workQueue[j].p # NoProtocol /\ workQueue'[i] = workQueue[j]
      BY <1>4, <2>2, <3>1
    <3>3. workQueue[j].p = Newest \/ LastDead
      BY <1>2, <3>2 DEF CancelsNewest, Cancelling
    <3>4. Ended /\ storage.kind \notin NoneYet
      BY <1>2, <3>2 DEF Current, BlocksAreNewest, Served, Callbacks
    <3>5. Newest # 0
      <4>1. workQueue[j] \in BlockType
        BY ElementOfSeq DEF Shape, TypeOK, WorkTypes, BlockType
      <4> QED BY <3>2, <4>1, Counts DEF BlockType, NoProtocol, Newest
    <3> QED BY <1>1, <3>2, <3>3, <3>4, <3>5, LastStays
  <2>3. CASE NewBlock(workQueue'[i])
    <3>1. CallsBack(workQueue'[i]) /\ storage'.kind \notin NoneYet
      BY <1>4, <2>3 DEF NewBlock, Callbacks, Calls, OnProtocol
    <3>2. CASE workQueue'[i].p = storage'.p
      <4>1. storage'.kind = "existing"
        BY <1>3, <1>4, <3>2 DEF Shape, TypeOK, TaskTypes
      <4> QED BY <1>3, <3>2, <4>1 DEF StoredIsNewest
    <3>3. CASE DeliverProtocol /\ workQueue'[i].p = 1
      <4>1. delivering # <<>> /\ UNCHANGED <<protocols, storage>>
        BY <3>3 DEF DeliverProtocol
      <4>2. Newest' = Newest /\ Newest # 0 /\ storage.kind \notin NoneYet /\ ~ReplaceProtocol
        <5>1. ~ReplaceProtocol
          BY <4>1, ReplacedMakes
        <5> QED BY <4>1, <5>1, Counts DEF Shape, Unserved, Newest, NoneYet
      <4>3. Newest = 1 \/ LastDead
        BY <1>2, <4>1 DEF CancelsNewest
      <4> QED BY <1>1, <3>3, <4>2, <4>3, LastStays
    <3> QED BY <3>1, <3>2, <3>3 DEF CallsBack
  <2> QED BY <2>1, <2>2, <2>3 DEF Moved
<1>5. ASSUME delivering' # <<>>
      PROVE  Newest' = 1 \/ LastDead'
  <2>1. CASE CacheReplies
    <3>1. protocols = <<>> /\ protocols' = Append(protocols, NewProtocol)
      BY <2>1 DEF CacheReplies, Shape, Unserved
    <3>2. Newest' = 1
      BY <3>1, ProtocolMade, Counts DEF Newest
    <3> QED BY <3>2
  <2>2. CASE ~CacheReplies
    <3>1. delivering # <<>>
      <4>1. DeliverProtocol => delivering # <<>>
        BY DEF DeliverProtocol
      <4> QED BY <1>5, <2>2, <4>1, NextDelivering
    <3>2. Newest # 0 /\ storage.kind \notin NoneYet
      BY <3>1, Counts DEF Shape, Unserved, Newest, NoneYet
    <3>3. Ended \/ ~ReplaceProtocol
      <4>1. ~Ended => delegateQueue = <<>>
        BY <3>1 DEF Fresh, Asked
      <4>2. ReplaceProtocol => delegateQueue # <<>>
        BY DelegatePlace DEF ReplaceProtocol
      <4> QED BY <4>1, <4>2
    <3>4. Newest = 1 \/ LastDead
      BY <1>2, <3>1 DEF CancelsNewest
    <3> QED BY <1>1, <3>2, <3>3, <3>4, LastStays
  <2> QED BY <2>1, <2>2
<1> QED BY <1>1, <1>4, <1>5 DEF Cancelling

(* What a step tells the delegate.  The completion comes last, with the end  *)
(* of the protocol; and nothing but it and the end of the session is told,  *)
(* unless a response is replayed or the protocol speaks.                    *)
Closing == {"complete", "invalid"}
Speaking ==
  \/ Running("fulfil")
  \/ \E p \in 1 .. Newest : Loading(p) \/ protocols[p].at = "waitingForRedirectCompletionHandler"

LEMMA QuietWords ==
  ASSUME Shape, LoadAction, ~Speaking
  PROVE  \/ UNCHANGED delegateQueue
         \/ \E p \in ProtocolNumbers : /\ delegateQueue' = delegateQueue \o <<Op("complete", p)>>
                                       /\ storage' = Invalidated
<1>1. ASSUME NEW p \in ProtocolNumbers, NEW queue, Conclude(<<Op("complete", p)>>, queue)
      PROVE  \/ UNCHANGED delegateQueue
             \/ \E o \in ProtocolNumbers : /\ delegateQueue' = delegateQueue \o <<Op("complete", o)>>
                                           /\ storage' = Invalidated
  <2>1. \/ UNCHANGED delegateQueue
        \/ delegateQueue' = delegateQueue \o <<Op("complete", p)>> /\ storage' = Invalidated
    BY <1>1, Zenon DEF Conclude
  <2> QED BY <2>1
<1>2. PICK p : p = Head(workQueue).p
  OBVIOUS
<1>3. ASSUME NEW kind, Running(kind)
      PROVE  p \in ProtocolNumbers /\ (kind \in OnProtocol => p \in 1 .. Newest)
  BY <1>2, <1>3, RunningBlock, Counts DEF Newest
<1>4. CASE StartLoading
  <2>1. UNCHANGED delegateQueue \/ Conclude(<<Op("complete", p)>>, Rest)
    BY <1>2, <1>4 DEF StartLoading
  <2> QED BY <1>1, <1>3, <1>4, <2>1 DEF StartLoading
<1>5. CASE CancelLoading
  <2>1. UNCHANGED delegateQueue \/ Conclude(<<Op("complete", p)>>, Rest)
    BY <1>2, <1>5 DEF CancelLoading
  <2> QED BY <1>1, <1>3, <1>5, <2>1 DEF CancelLoading
<1>6. CASE DeclineRedirect
  <2>1. p \in 1 .. Newest
    BY <1>3, <1>6 DEF DeclineRedirect, OnProtocol
  <2>2. UNCHANGED delegateQueue
    BY <1>2, <1>6, <2>1 DEF DeclineRedirect, Speaking
  <2> QED BY <2>2
<1>7. CASE StopLoading \/ FollowRedirect
  BY <1>7 DEF StopLoading, FollowRedirect
<1>8. ~FulfilFromCache
  BY DEF FulfilFromCache, Speaking
<1>9. ASSUME NEW o \in 1 .. Len(protocols), TransferCompleted(o) \/ TimedOut(o) \/ ReceiveData(o)
      PROVE  \/ UNCHANGED delegateQueue
             \/ \E q \in ProtocolNumbers : /\ delegateQueue' = delegateQueue \o <<Op("complete", q)>>
                                           /\ storage' = Invalidated
  <2>1. ~TransferCompleted(o) /\ ~ReceiveData(o)
    BY DEF TransferCompleted, ReceiveData, Speaking, Newest
  <2>2. Conclude(<<Op("complete", o)>>, workQueue)
    BY <1>9, <2>1 DEF TimedOut, Speaking, Newest
  <2>3. o \in ProtocolNumbers
    BY Counts
  <2> QED BY <1>1, <2>2, <2>3
<1> QED BY <1>4, <1>5, <1>6, <1>7, <1>8, <1>9, Zenon DEF LoadAction, TransferEnds

LEMMA OthersTell ==
  ASSUME Shape, [Next]_vars, ~LoadAction
  PROVE  \/ UNCHANGED delegateQueue
         \/ RunDelegate /\ delegateQueue # <<>> /\ delegateQueue' = Tail(delegateQueue)
         \/ /\ Leaving /\ delegate
            /\ delegateQueue' = delegateQueue \o <<Op("invalid", NoProtocol)>>
<1>1. CASE Registering
  <2>1. UNCHANGED delegateQueue \/ (Leaving /\ delegateQueue' = delegateQueue \o Invalidation)
    BY <1>1 DEF Registering, AddTask, RemoveTask, FinishTasks, InvalidateSession, Leaving
  <2>2. ~delegate => delegateQueue \o Invalidation = delegateQueue
    <3>1. delegateQueue \in Seq(OpType)
      BY DEF Shape, TypeOK, DelegateTypes, OpType
    <3> QED BY <3>1, ConcatEmptySeq DEF Invalidation
  <2>3. delegate => Invalidation = <<Op("invalid", NoProtocol)>>
    BY DEF Invalidation
  <2> QED BY <2>1, <2>2, <2>3
<1>2. CASE RunDelegate
  BY <1>2, DelegatePlace DEF RunDelegate, BeginCallback, EndNotification, LeaveUnanswered,
       EndInvalidation, AnswerRedirect,
       EndCompletion, AnswerChallenge, ReplaceProtocol, EndChallenge, EndCallback
<1>3. Calling \/ CacheReplies \/ DeliverProtocol \/ Applying \/ CallbackCalls \/ UNCHANGED vars => UNCHANGED delegateQueue
  BY DEF Calling, CheckState, Suspend, Resume, Cancel, CloseSession, CacheReplies, DeliverProtocol, Applying,
     AppCalls, CancelTasks, LeaveInvalidation, CallbackCalls, queueVars, vars
<1> QED BY <1>1, <1>2, <1>3, Steps

(* A new operation of the delegate queue at the end of the queue, k from the *)
(* end of the operations of the step.                                       *)
LastWord(kind, last) ==
  /\ kind = "complete" => last /\ LoadAction /\ storage' = Invalidated
  /\ kind \in Closing \/ Speaking

Words ==
  \E base : /\ Passed(delegateQueue, base)
            /\ \E ops \in Seq(OpType') : /\ delegateQueue' = base \o ops
                                         /\ \A k \in 1 .. Len(ops) : LastWord(ops[k].kind, k = Len(ops))

LEMMA NextWords ==
  ASSUME Shape, [Next]_vars
  PROVE  Words
<1>0. /\ OpType \subseteq OpType' /\ Passed(delegateQueue, delegateQueue)
      /\ delegateQueue \in Seq(OpType)
  BY NextStorage DEF OpType, Passed, Shape, TypeOK, DelegateTypes
<1>1. ASSUME NEW base, Passed(delegateQueue, base), delegateQueue' = base
      PROVE  Words
  <2>1. base \in Seq(OpType)
    BY <1>0, <1>1, PassedElements
  <2>2. base \o <<>> = base
    BY <2>1, ConcatEmptySeq
  <2>3. <<>> \in Seq(OpType') /\ \A k \in 1 .. Len(<<>>) : LastWord(<<>>[k].kind, k = Len(<<>>))
    OBVIOUS
  <2> QED BY <1>1, <2>2, <2>3 DEF Words
<1>2. ASSUME NEW ops \in Seq(OpType), delegateQueue' = delegateQueue \o ops,
             \A k \in 1 .. Len(ops) : LastWord(ops[k].kind, k = Len(ops))
      PROVE  Words
  <2>1. ops \in Seq(OpType')
    BY <1>0, SeqMonotonic
  <2> QED BY <1>0, <1>2, <2>1 DEF Words
<1>3. ASSUME NEW o \in OpType, delegateQueue' = delegateQueue \o <<o>>, LastWord(o.kind, TRUE)
      PROVE  Words
  <2>1. PICK ops : ops = <<o>>
    OBVIOUS
  <2>2. ops \in Seq(OpType) /\ Len(ops) = 1 /\ ops[1] = o
    BY <2>1
  <2>3. \A k \in 1 .. Len(ops) : LastWord(ops[k].kind, k = Len(ops))
    <3> SUFFICES ASSUME NEW k \in 1 .. Len(ops)
                 PROVE  LastWord(ops[k].kind, k = Len(ops))
      OBVIOUS
    <3>1. k = 1 /\ (k = Len(ops)) = TRUE /\ ops[k].kind = o.kind
      BY <2>2
    <3> QED BY <1>3, <3>1
  <2> QED BY <1>2, <1>3, <2>1, <2>2, <2>3
<1>4. CASE LoadAction /\ ~Speaking
  <2>1. CASE UNCHANGED delegateQueue
    BY <1>0, <1>1, <2>1
  <2>2. ASSUME NEW p \in ProtocolNumbers, delegateQueue' = delegateQueue \o <<Op("complete", p)>>,
               storage' = Invalidated
        PROVE  Words
    <3>1. Op("complete", p) \in OpType /\ Op("complete", p).kind = "complete"
      BY DEF Op, OpType, OpKinds
    <3>2. LastWord(Op("complete", p).kind, TRUE)
      BY <1>4, <2>2, <3>1 DEF LastWord, Closing
    <3> QED BY <1>3, <2>2, <3>1, <3>2
  <2> QED BY <1>4, <2>1, <2>2, QuietWords
<1>5. CASE LoadAction /\ Speaking
  <2>1. PICK queue : Ends(queue) \/ Tells \/ Goes(queue)
    BY <1>5, LoadSteps DEF Loads
  <2>2. CASE Ends(queue)
    <3>1. PICK ops \in Seq(OpType) :
            /\ \A k \in 1 .. Len(ops) : ops[k].kind = "complete" <=> k = Len(ops)
            /\ Conclude(ops, queue)
      BY <2>2 DEF Ends
    <3>2. /\ UNCHANGED delegateQueue \/ delegateQueue' = delegateQueue \o ops
          /\ storage' = Invalidated
      BY <3>1, Zenon DEF Conclude
    <3>3. \A k \in 1 .. Len(ops) : LastWord(ops[k].kind, k = Len(ops))
      BY <1>5, <3>1, <3>2 DEF LastWord
    <3> QED BY <1>0, <1>1, <1>2, <3>2, <3>3
  <2>3. CASE Tells
    <3>1. PICK op \in OpType : op.kind \in {"notify", "redirect", "challenge"} /\ Tell(op, workQueue)
      BY <2>3, Zenon DEF Tells
    <3>2. delegateQueue' = delegateQueue \o <<op>>
      <4>1. delegateQueue' = Append(delegateQueue, op)
        BY <3>1, Zenon DEF Tell
      <4> QED BY <4>1, FewOps
    <3>3. LastWord(op.kind, TRUE)
      BY <1>5, <3>1 DEF LastWord
    <3> QED BY <1>3, <3>2, <3>3
  <2>4. CASE Goes(queue)
    BY <1>0, <1>1, <2>4 DEF Goes
  <2> QED BY <2>1, <2>2, <2>3, <2>4
<1>6. CASE ~LoadAction
  <2>1. CASE UNCHANGED delegateQueue
    BY <1>0, <1>1, <2>1
  <2>2. CASE delegateQueue # <<>> /\ delegateQueue' = Tail(delegateQueue)
    BY <1>1, <2>2 DEF Passed
  <2>3. CASE delegateQueue' = delegateQueue \o <<Op("invalid", NoProtocol)>>
    <3>1. Op("invalid", NoProtocol) \in OpType /\ Op("invalid", NoProtocol).kind = "invalid"
      BY Counts DEF Op, OpType, OpKinds, NoProtocol
    <3>2. LastWord(Op("invalid", NoProtocol).kind, TRUE)
      BY <3>1 DEF LastWord, Closing
    <3> QED BY <1>3, <2>3, <3>1, <3>2
  <2> QED BY <1>6, <2>1, <2>2, <2>3, OthersTell
<1> QED BY <1>4, <1>5, <1>6

(* Where the operations of the delegate queue come from.                    *)
WordsMoved(d) ==
  /\ Len(delegateQueue) \in Nat
  /\ \A i \in 1 .. Len(delegateQueue') :
       \/ i + d \in 1 .. Len(delegateQueue) /\ delegateQueue'[i] = delegateQueue[i + d]
       \/ i > Len(delegateQueue) - d /\ LastWord(delegateQueue'[i].kind, i = Len(delegateQueue'))

LEMMA WordsMove ==
  ASSUME Shape, [Next]_vars
  PROVE  \E d \in 0 .. 1 : WordsMoved(d)
<1>1. PICK base : /\ Passed(delegateQueue, base)
                  /\ \E ops \in Seq(OpType') : /\ delegateQueue' = base \o ops
                                               /\ \A k \in 1 .. Len(ops) : LastWord(ops[k].kind, k = Len(ops))
  BY NextWords DEF Words
<1>2. PICK ops \in Seq(OpType') : /\ delegateQueue' = base \o ops
                                  /\ \A k \in 1 .. Len(ops) : LastWord(ops[k].kind, k = Len(ops))
  BY <1>1
<1>3. PICK q, S : q = delegateQueue' /\ S = OpType'
  OBVIOUS
<1>4. delegateQueue \in Seq(S) /\ Len(delegateQueue) \in Nat /\ Len(ops) \in Nat
  <2>1. OpType \subseteq OpType'
    BY NextStorage DEF OpType
  <2> QED BY <1>3, <2>1, SeqMonotonic, LenProperties DEF Shape, TypeOK, DelegateTypes, OpType
<1>5. PICK d \in 0 .. 1 : Follows(delegateQueue, base, ops, q, d)
  BY <1>1, <1>2, <1>3, <1>4, FollowElements
<1>6. /\ d <= Len(delegateQueue) /\ Len(q) = Len(delegateQueue) - d + Len(ops)
      /\ \A i \in 1 .. Len(q) :
           \/ i <= Len(delegateQueue) - d /\ i + d \in 1 .. Len(delegateQueue) /\ q[i] = delegateQueue[i + d]
           \/ \E k \in 1 .. Len(ops) : i = Len(delegateQueue) - d + k /\ q[i] = ops[k]
  BY <1>5 DEF Follows
<1>7. ASSUME NEW i \in 1 .. Len(q)
      PROVE  \/ i + d \in 1 .. Len(delegateQueue) /\ q[i] = delegateQueue[i + d]
             \/ i > Len(delegateQueue) - d /\ LastWord(q[i].kind, i = Len(q))
  <2>1. ASSUME NEW k \in 1 .. Len(ops), i = Len(delegateQueue) - d + k, q[i] = ops[k]
        PROVE  i > Len(delegateQueue) - d /\ LastWord(q[i].kind, i = Len(q))
    <3>0. PICK m, n, l : m = Len(delegateQueue) /\ n = Len(ops) /\ l = Len(q)
      OBVIOUS
    <3>1. i > m - d /\ (k = n => i = l) /\ (i = l => k = n)
      <4>1. m \in Nat /\ n \in Nat /\ k \in 1 .. n /\ i = m - d + k /\ l = m - d + n
        BY <1>4, <1>6, <2>1, <3>0
      <4> QED BY <4>1
    <3>2. LastWord(ops[k].kind, k = Len(ops))
      BY <1>2
    <3> QED BY <2>1, <3>0, <3>1, <3>2 DEF LastWord
  <2> QED BY <1>6, <2>1
<1> QED BY <1>3, <1>4, <1>7 DEF WordsMoved

(* The step that makes the task complete drops its protocol.                *)
LEMMA Completes ==
  ASSUME Shape, Guarded, TellsOnce, [Next]_vars, ~Completing, Completing'
  PROVE  LoadAction /\ storage' = Invalidated
<1>1. completions' # 1
  <2>1. ~RunDelegate => completions' # 1
    BY NextCallback DEF Completing
  <2>2. CASE RunDelegate
    <3>1. BeginCallback => Operation.kind # "complete"
      BY OperationIsHead DEF BeginCallback, Completing
    <3>2. completions' = completions
      <4>1. CASE BeginCallback
        BY <3>1, <4>1 DEF BeginCallback, TellsOnce, Reported
      <4>2. CASE ~BeginCallback
        BY <2>2, <4>2 DEF RunDelegate, EndNotification, LeaveUnanswered, EndInvalidation, AnswerRedirect,
           EndCompletion, AnswerChallenge, ReplaceProtocol, EndChallenge, EndCallback
      <4> QED BY <4>1, <4>2
    <3> QED BY <3>2 DEF Completing
  <2> QED BY <2>1, <2>2
<1>2. PICK i \in 1 .. Len(delegateQueue') : delegateQueue'[i].kind = "complete"
  BY <1>1 DEF Completing
<1>3. PICK d \in 0 .. 1 : WordsMoved(d)
  BY WordsMove
<1> QED BY <1>2, <1>3 DEF WordsMoved, LastWord, Completing

(* Behind a completion only the end of the session is told.                 *)
LastOp ==
  /\ completions = 1 => \A i \in 1 .. Len(delegateQueue) : delegateQueue[i].kind \in Closing
  /\ \A i, j \in 1 .. Len(delegateQueue) :
       i < j /\ delegateQueue[i].kind = "complete" => delegateQueue[j].kind \in Closing

LEMMA OverIsQuiet ==
  ASSUME Shape, Over, Completing, crash = "none"
  PROVE  ~Speaking
<1>1. ~Running("fulfil")
  <2> SUFFICES ASSUME Running("fulfil") PROVE FALSE
    OBVIOUS
  <2>1. 1 \in 1 .. Len(workQueue) /\ workQueue[1].kind = "fulfil"
    BY RunningBlock
  <2> QED BY <2>1 DEF Over
<1>2. \A p \in 1 .. Newest : ~Loading(p) /\ protocols[p].at # "waitingForRedirectCompletionHandler"
  BY DeadIsStill DEF Over, Loading
<1> QED BY <1>1, <1>2 DEF Speaking

LEMMA LastOpNext ==
  ASSUME Shape, Guarded, TellsOnce, Over, LastOp, [Next]_vars
  PROVE  LastOp'
<1>1. CASE UNCHANGED <<delegateQueue, completions>>
  BY <1>1 DEF LastOp
<1>2. CASE ~UNCHANGED <<delegateQueue, completions>>
  <2>0. crash = "none"
    BY <1>2 DEF Next, vars, queueVars, clientVars
  <2>1. PICK d \in 0 .. 1 : WordsMoved(d)
    BY WordsMove
  <2>2. CASE Completing
    <3>1. ~Speaking
      BY <2>0, <2>2, OverIsQuiet
    <3>2. \A i \in 1 .. Len(delegateQueue') :
            \/ i + d \in 1 .. Len(delegateQueue) /\ delegateQueue'[i] = delegateQueue[i + d]
            \/ delegateQueue'[i].kind \in Closing
      BY <2>1, <3>1 DEF WordsMoved, LastWord
    <3>3. ASSUME completions' = 1, NEW i \in 1 .. Len(delegateQueue')
          PROVE  delegateQueue'[i].kind \in Closing
      <4>1. CASE completions = 1
        BY <3>2, <4>1 DEF LastOp
      <4>2. CASE completions # 1
        <5>1. RunDelegate
          BY <3>3, <4>2, NextCallback
        <5>2. BeginCallback /\ Operation.kind = "complete" /\ UNCHANGED delegateQueue /\ delegateQueue # <<>>
          <6>1. BeginCallback
            BY <3>3, <4>2, <5>1 DEF RunDelegate, EndNotification, LeaveUnanswered,
                 EndInvalidation, AnswerRedirect,
               EndCompletion, AnswerChallenge, ReplaceProtocol, EndChallenge, EndCallback
          <6>2. completions \in Nat
            BY DelegatePlace
          <6> QED BY <3>3, <4>2, <6>1, <6>2 DEF BeginCallback, Reported
        <5>3. delegateQueue[1].kind = "complete" /\ 1 \in 1 .. Len(delegateQueue)
          BY <5>2, OperationIsHead
        <5>4. i \in 1 .. Len(delegateQueue) /\ delegateQueue'[i] = delegateQueue[i]
          BY <5>2
        <5>5. CASE i = 1
          BY <5>3, <5>4, <5>5 DEF Closing
        <5>6. CASE i # 1
          <6>1. 1 < i
            BY <5>4, <5>6
          <6> QED BY <5>3, <5>4, <6>1 DEF LastOp
        <5> QED BY <5>5, <5>6
      <4> QED BY <4>1, <4>2
    <3>4. ASSUME NEW i \in 1 .. Len(delegateQueue'), NEW j \in 1 .. Len(delegateQueue'), i < j,
                 delegateQueue'[i].kind = "complete"
          PROVE  delegateQueue'[j].kind \in Closing
      <4>1. CASE j + d \in 1 .. Len(delegateQueue) /\ delegateQueue'[j] = delegateQueue[j + d]
        <5>1. i + d \in 1 .. Len(delegateQueue) /\ i + d < j + d
          BY <2>1, <3>4, <4>1 DEF WordsMoved
        <5>2. delegateQueue'[i] = delegateQueue[i + d]
          BY <2>1, <3>4, <4>1 DEF WordsMoved
        <5> QED BY <3>4, <4>1, <5>1, <5>2 DEF LastOp
      <4> QED BY <3>2, <4>1
    <3> QED BY <3>3, <3>4 DEF LastOp
  <2>3. CASE ~Completing
    <3>1. completions' # 1 \/ Completing'
      BY DEF Completing
    <3>2. completions' # 1
      <4> SUFFICES ASSUME completions' = 1 PROVE FALSE
        OBVIOUS
      <4>1. LoadAction
        BY <2>3, <3>1, Completes
      <4>2. UNCHANGED completions
        BY <4>1, LoadSteps DEF Loads
      <4> QED BY <2>3, <4>2 DEF Completing
    <3>3. ASSUME NEW i \in 1 .. Len(delegateQueue'), NEW j \in 1 .. Len(delegateQueue'), i < j,
                 delegateQueue'[i].kind = "complete"
          PROVE  FALSE
      <4>1. i = Len(delegateQueue')
        BY <2>1, <2>3, <3>3 DEF WordsMoved, LastWord, Completing
      <4> QED BY <3>3, <4>1
    <3> QED BY <3>2, <3>3 DEF LastOp
  <2> QED BY <2>2, <2>3
<1> QED BY <1>1, <1>2

LEMMA NotYetNext ==
  ASSUME Shape, Guarded, Served, TellsOnce, NotYet, [Next]_vars
  PROVE  NotYet'
<1> SUFFICES ASSUME storage'.kind \in NoneYet, Completing'
             PROVE  FALSE
  BY DEF NotYet
<1>1. storage.kind \in NoneYet
  BY NextStorage
<1>2. ~LoadAction /\ ~Completing
  BY <1>1, NoProtocolYet DEF NotYet
<1> QED BY <1>2, Completes

LEMMA SameScenario ==
  ASSUME Shape, [Next]_vars
  PROVE  UNCHANGED scenario
BY AppMoves, AppNext

(* A response is replayed only where the cache found one.                   *)
Miss == scenario.cache # "hit" => \A i \in 1 .. Len(workQueue) : workQueue[i].kind # "fulfil"

LEMMA MissNext ==
  ASSUME Shape, Miss, [Next]_vars
  PROVE  Miss'
<1> SUFFICES ASSUME scenario.cache # "hit", NEW i \in 1 .. Len(workQueue'), workQueue'[i].kind = "fulfil"
             PROVE  FALSE
  BY SameScenario DEF Miss
<1>1. \A j \in 1 .. Len(workQueue) : workQueue[j].kind # "fulfil"
  BY DEF Miss
<1>2. CASE StartLoading
  <2>1. PICK p : p = Head(workQueue).p
    OBVIOUS
  <2>2. workQueue' = Rest \/ workQueue' = Append(Rest, Block("remove", NoProtocol))
    <3>1. CASE p = NoProtocol
      <4>1. workQueue' = Rest \/ Conclude(<<Op("complete", p)>>, Rest)
        BY <1>2, <2>1, <3>1 DEF StartLoading
      <4>2. ASSUME Conclude(<<Op("complete", p)>>, Rest)
            PROVE  workQueue' = Rest \/ workQueue' = Append(Rest, Block("remove", NoProtocol))
        BY <4>2, Zenon DEF Conclude
      <4> QED BY <4>1, <4>2
    <3>2. CASE p # NoProtocol
      BY <1>2, <2>1, <3>2 DEF StartLoading, HasCachedResponse
    <3> QED BY <3>1, <3>2
  <2>3. ProtocolNumbers \subseteq ProtocolNumbers' /\ Passed(workQueue, Rest)
    BY <1>2, NextStorage, RunningBlock DEF StartLoading
  <2>4. Block("remove", NoProtocol) \in BlockType' /\ Block("remove", NoProtocol).kind = "remove"
    <3>1. NoProtocol \in ProtocolNumbers' /\ "remove" \in BlockKinds
      BY <2>3, ZeroKept DEF NoProtocol, BlockKinds
    <3> QED BY <2>3, <3>1, BlocksTyped
  <2>5. (\E j \in 1 .. Len(workQueue) : workQueue'[i] = workQueue[j]) \/ workQueue'[i] = Block("remove", NoProtocol)
    BY <2>2, <2>3, <2>4, WorkElements
  <2> QED BY <1>1, <2>4, <2>5
<1>3. CASE ~StartLoading
  <2>1. PICK d \in 0 .. 1 : Moved(d)
    BY BlocksMove
  <2>2. ~NewBlock(workQueue'[i])
    BY <1>3 DEF NewBlock, Replays, Callbacks, Calls
  <2> QED BY <1>1, <2>1, <2>2 DEF Moved
<1> QED BY <1>2, <1>3

(* While a response that the cache found is being replayed, or before, the   *)
(* delegate is told nothing, and nobody but the application could cancel.   *)
Replay ==
  /\ ~Ended /\ delegateQueue = <<>> /\ ~error /\ Newest <= 1
  /\ \A p \in 1 .. Newest : protocols[p].at \in {"initial", "fulfillingFromCache"}
  /\ \A i \in 1 .. Len(workQueue) : workQueue[i].kind = "fulfil" => protocols[workQueue[i].p].at = "fulfillingFromCache"
  /\ \A i, j \in 1 .. Len(workQueue) : workQueue[i].kind = "fulfil" /\ workQueue[j].kind = "fulfil" => i = j
Replaying == scenario.cache = "hit" /\ ~Completing /\ crash = "none" => Replay

SameProtocols == Len(protocols') = Len(protocols) /\ \A p \in 1 .. Newest : protocols'[p] = protocols[p]
ReplayStarts ==
  \E p \in 1 .. Newest :
     /\ Replays(p)
     /\ protocols' = [protocols EXCEPT ![p] = [protocols[p] EXCEPT !.at = "fulfillingFromCache"]]
     /\ workQueue' = Append(Rest, Block("fulfil", p))

LEMMA ReplayLoads ==
  ASSUME Shape, Turn, LateStarts, Current, scenario.cache = "hit", ~Completing, Replay, LoadAction,
         crash = "none", crash' = "none"
  PROVE  \/ FulfilFromCache
         \/ /\ UNCHANGED <<delegateQueue, error, storage>>
            /\ ReplayStarts \/ (SameProtocols /\ \A p : ~Replays(p))
<1>1. PICK p : p = Head(workQueue).p
  OBVIOUS
<1>2. ASSUME NEW q \in 1 .. Newest
      PROVE  /\ q = 1 /\ protocols[q] \in ProtocolType /\ protocols[q].at \in {"initial", "fulfillingFromCache"}
             /\ protocols[q].timer = FALSE
  <2>1. q = 1
    BY Counts DEF Replay, Newest
  <2>2. protocols[q] \in ProtocolType
    BY Counts, ElementOfSeq DEF Newest
  <2> QED BY <2>1, <2>2 DEF Replay, Turn, TimerOK
<1>3. ASSUME NEW kind, Running(kind)
      PROVE  /\ p # NoProtocol => p \in 1 .. Newest
             /\ kind \in OnProtocol => p # NoProtocol
             /\ 1 \in 1 .. Len(workQueue) /\ workQueue[1].kind = kind /\ workQueue[1].p = p
  BY <1>1, <1>3, RunningBlock, Counts DEF Newest, NoProtocol
<1>4. CASE StartLoading
  <2>1. p # NoProtocol
    BY <1>3, <1>4 DEF StartLoading, LateStarts, Starts
  <2>2. p \in 1 .. Newest
    BY <1>3, <1>4, <2>1 DEF StartLoading
  <2>3. UNCHANGED <<delegateQueue, error, storage>>
    BY <1>1, <1>4, <2>1 DEF StartLoading
  <2>4. CASE protocols[p].at = "initial"
    <3>1. HasCachedResponse(p)
      BY <1>2, <2>2 DEF HasCachedResponse
    <3>2. /\ protocols' = [protocols EXCEPT ![p] = [protocols[p] EXCEPT !.at = "fulfillingFromCache"]]
          /\ workQueue' = Append(Rest, Block("fulfil", p))
      BY <1>1, <1>4, <2>1, <2>4, <3>1 DEF StartLoading
    <3>3. Replays(p)
      BY <1>1, <1>4, <2>1, <2>4 DEF Replays, NoProtocol
    <3> QED BY <2>2, <2>3, <3>2, <3>3 DEF ReplayStarts
  <2>5. CASE protocols[p].at # "initial"
    <3>1. protocols' = [protocols EXCEPT ![p] = Resumed(protocols[p])]
      BY <1>1, <1>4, <2>1, <2>5 DEF StartLoading
    <3>2. Resumed(protocols[p]) = protocols[p]
      BY <1>2, <2>2, <2>5 DEF Resumed
    <3>3. SameProtocols
      BY <1>2, <2>2, <3>1, <3>2, ProtocolChanged DEF SameProtocols, Newest
    <3>4. \A q : ~Replays(q)
      BY <1>1, <2>5 DEF Replays
    <3> QED BY <2>3, <3>3, <3>4
  <2> QED BY <2>4, <2>5
<1>5. CASE StopLoading
  <2>1. UNCHANGED <<delegateQueue, error, storage>> /\ \A q : ~Replays(q)
    <3>1. ~StartLoading
      BY <1>5 DEF StopLoading, StartLoading, Running
    <3> QED BY <1>5, <3>1 DEF StopLoading, Replays
  <2>2. CASE p = NoProtocol
    <3>1. UNCHANGED protocols
      BY <1>1, <1>5, <2>2 DEF StopLoading
    <3> QED BY <2>1, <3>1 DEF SameProtocols
  <2>3. CASE p # NoProtocol
    <3>1. p \in 1 .. Newest
      BY <1>3, <1>5, <2>3 DEF StopLoading
    <3>2. /\ protocols' = [protocols EXCEPT ![p] = Stopped(protocols[p])]
          /\ crash' = IF StopAsserts THEN crash ELSE "stopped without an error"
      BY <1>1, <1>5, <2>3 DEF StopLoading
    <3>3. state = "suspended"
      BY <3>2 DEF StopAsserts, Replay
    <3>4. Stopped(protocols[p]) = protocols[p]
      BY <1>2, <3>1, <3>3 DEF Stopped, Suspended
    <3>5. SameProtocols
      BY <1>2, <3>1, <3>2, <3>4, ProtocolChanged DEF SameProtocols, Newest
    <3> QED BY <2>1, <3>5
  <2> QED BY <2>2, <2>3
<1>6. ~CancelLoading
  <2>1. BlocksAreNewest
    BY DEF Current, Replay
  <2> QED BY <1>3, <2>1 DEF CancelLoading, BlocksAreNewest
<1>7. ~FollowRedirect /\ ~DeclineRedirect
  <2>1. ASSUME NEW kind \in Answers, Running(kind)
        PROVE  FALSE
    <3>1. Answer(1) /\ 1 \in 1 .. Len(workQueue)
      BY <1>3, <2>1 DEF Answer
    <3>2. Newest \in 1 .. Newest /\ protocols[Newest].at \in AtRest
      BY <3>1, Counts DEF Turn, AnswerIsNewest, Newest
    <3> QED BY <1>2, <3>2 DEF AtRest
  <2> QED BY <2>1 DEF FollowRedirect, DeclineRedirect, Answers
<1>8. ASSUME NEW q \in 1 .. Len(protocols)
      PROVE  ~TransferCompleted(q) /\ ~TimedOut(q) /\ ~ReceiveData(q)
  BY <1>2 DEF TransferCompleted, TimedOut, ReceiveData, Loading, Newest
<1> QED BY <1>4, <1>5, <1>6, <1>7, <1>8 DEF LoadAction, TransferEnds

LEMMA NextError ==
  ASSUME [Next]_vars, ~LoadAction
  PROVE  UNCHANGED error
<1>1. Calling => UNCHANGED error
  BY DEF Calling, CheckState, Suspend, Resume, Cancel, CloseSession, taskVars
<1>2. Registering \/ CacheReplies \/ DeliverProtocol \/ Applying \/ CallbackCalls \/ UNCHANGED vars => UNCHANGED error
  BY DEF Registering, AddTask, RemoveTask, FinishTasks, InvalidateSession, CacheReplies, DeliverProtocol,
     Applying, AppCalls, CancelTasks, LeaveInvalidation, CallbackCalls, taskVars, vars
<1>3. RunDelegate => UNCHANGED error
  BY DEF RunDelegate, BeginCallback, EndNotification, LeaveUnanswered,
       EndInvalidation, AnswerRedirect, EndCompletion,
     AnswerChallenge, ReplaceProtocol, EndChallenge, EndCallback, taskVars
<1> QED BY <1>1, <1>2, <1>3, Steps

(* Nobody cancels a task whose response is being replayed.                  *)
LEMMA ReplayStays ==
  ASSUME Shape, Program, Guarded, Orderly, TellsOnce, Finished, Parted, Uncached, scenario.delegate,
         EndsReplay(scenario), scenario.cache = "hit", Replay, [Next]_vars, ~Completing'
  PROVE  ~Ended'
<1>1. state' # "completed"
  BY FinishedNext DEF Finished, Completing
<1>2. CASE state' = "canceling"
  <2>1. Cancel
    BY <1>2, NextCancels DEF Replay, Ended
  <2>2. /\ workQueue[1].kind = "cancel" /\ 1 \in 1 .. Len(workQueue) /\ Head(workQueue) = workQueue[1]
    BY <2>1, RunningBlock DEF Cancel
  <2>3. /\ workQueue[1].by \in Clients /\ Waiting(workQueue[1].by)
        /\ "cancel" \in Expected[pc[workQueue[1].by]]
    BY <2>1, <2>2, CallMoves DEF Calling
  <2>4. pc["delegate"] = "idle"
    BY DelegatePlace DEF Replay
  <2>5. workQueue[1].by = "app"
    BY <2>3, <2>4 DEF Waiting, AfterCall, Clients
  <2>6. pc["app"] \in AppPlaces
    BY DelegatePlace
  <2>7. pc["app"] \in {"waiting", "cancelling"}
    BY <2>3, <2>5, <2>6 DEF Expected, AppPlaces, Waiting, AfterCall
  <2>8. pc["app"] = "waiting"
    BY <2>7 DEF Uncached, LeavingPlaces
  <2>9. scenario.app[Made] = "cancel" /\ Made >= 1
    BY <2>2, <2>5, <2>8 DEF Program
  <2>10. Made \in 1 .. Len(scenario.app)
    BY <2>9, CallCounts
  <2> QED BY <2>9, <2>10 DEF EndsReplay
<1> QED BY <1>1, <1>2 DEF Ended

(* A step that leaves the replay as it is.                                  *)
LEMMA ReplayKept ==
  ASSUME Shape, Turn, Replay, crash = "none", [Next]_vars, \A p : ~Replays(p), ~Ended', UNCHANGED <<delegateQueue, error>>,
         SameProtocols \/ (protocols = <<>> /\ protocols' = Append(protocols, NewProtocol))
  PROVE  Replay'
<1>1. PICK d \in 0 .. 1 : Moved(d)
  BY BlocksMove
<1>2. \A i \in 1 .. Len(workQueue') : workQueue'[i].kind = "fulfil" =>
        i + d \in 1 .. Len(workQueue) /\ workQueue'[i] = workQueue[i + d]
  BY <1>1 DEF Moved, NewBlock, Callbacks, Calls
<1>3. \A i \in 1 .. Len(workQueue) : workQueue[i].kind = "fulfil" => workQueue[i].p \in 1 .. Newest
  BY DEF Turn, FulfilsReplayed
<1>4. \A p \in 1 .. Newest : protocols'[p] = protocols[p]
  BY ProtocolMade DEF SameProtocols, Newest
<1>5. Newest' <= 1 /\ \A p \in 1 .. Newest' : protocols'[p].at \in {"initial", "fulfillingFromCache"}
  <2>1. CASE SameProtocols
    BY <2>1 DEF SameProtocols, Replay, Newest
  <2>2. CASE protocols = <<>> /\ protocols' = Append(protocols, NewProtocol)
    <3>1. Newest' = 1 /\ protocols'[1] = NewProtocol
      BY <2>2, ProtocolMade, Counts DEF Newest
    <3> QED BY <3>1 DEF NewProtocol
  <2> QED BY <2>1, <2>2
<1>6. \A i \in 1 .. Len(workQueue') : workQueue'[i].kind = "fulfil" => protocols'[workQueue'[i].p].at = "fulfillingFromCache"
  BY <1>2, <1>3, <1>4 DEF Replay
<1>7. ASSUME NEW i \in 1 .. Len(workQueue'), NEW j \in 1 .. Len(workQueue'),
             workQueue'[i].kind = "fulfil", workQueue'[j].kind = "fulfil"
      PROVE  i = j
  <2>1. i + d = j + d
    BY <1>2, <1>7 DEF Replay
  <2> QED BY <2>1
<1> QED BY <1>5, <1>6, <1>7 DEF Replay

(* The start of the replay queues its only block.                           *)
LEMMA ReplayBegins ==
  ASSUME Shape, Turn, Replay, crash = "none", [Next]_vars, ReplayStarts, ~Ended', UNCHANGED <<delegateQueue, error>>
  PROVE  Replay'
<1>1. PICK p \in 1 .. Newest :
        /\ Replays(p)
        /\ protocols' = [protocols EXCEPT ![p] = [protocols[p] EXCEPT !.at = "fulfillingFromCache"]]
        /\ workQueue' = Append(Rest, Block("fulfil", p))
  BY DEF ReplayStarts
<1>2. PICK x : x = [protocols[p] EXCEPT !.at = "fulfillingFromCache"]
  OBVIOUS
<1>3. x \in ProtocolType /\ x.at = "fulfillingFromCache" /\ p = 1 /\ Newest = 1
  <2>1. protocols[p] \in ProtocolType
    BY Counts, ElementOfSeq DEF Newest
  <2>2. p = 1
    BY Counts DEF Replay, Newest
  <2>3. Newest = 1
    <3>1. Newest \in Nat /\ Newest <= 1
      BY Counts DEF Replay, Newest
    <3> QED BY <3>1
  <2> QED BY <1>2, <2>1, <2>2, <2>3 DEF ProtocolType, ProtocolStates
<1>4. Newest' = Newest /\ protocols'[p] = x /\ ProtocolNumbers' = ProtocolNumbers
  BY <1>1, <1>2, <1>3, ProtocolChanged DEF Newest
<1>5. \A i \in 1 .. Len(workQueue) : workQueue[i].kind # "fulfil"
  <2> SUFFICES ASSUME NEW i \in 1 .. Len(workQueue), workQueue[i].kind = "fulfil"
               PROVE  FALSE
    OBVIOUS
  <2>1. workQueue[i].p = p
    BY <1>3 DEF Turn, FulfilsReplayed
  <2> QED BY <1>1, <2>1 DEF Replay, Replays
<1>6. PICK b, q : b = Block("fulfil", p) /\ q = workQueue'
  OBVIOUS
<1>7. /\ workQueue \in Seq(BlockType) /\ b \in BlockType /\ b.kind = "fulfil" /\ b.p = p /\ Passed(workQueue, Rest)
  <2>1. p \in ProtocolNumbers /\ "fulfil" \in BlockKinds /\ ProtocolNumbers' = ProtocolNumbers
    BY <1>4, Counts DEF BlockKinds, Newest
  <2>2. Running("start")
    BY <1>1 DEF Replays, StartLoading
  <2>3. b \in BlockType' /\ b.kind = "fulfil" /\ b.p = p
    BY <1>6, <2>1, BlocksTyped
  <2> QED BY <2>1, <2>2, <2>3, RunningBlock DEF BlockType
<1>8. PICK d \in 0 .. 1, n \in 0 .. 1 : Grows(workQueue, Rest, b, q, d, n)
  <2>1. q = Append(Rest, b)
    BY <1>1, <1>6
  <2> QED BY <1>7, <2>1, GrownElements
<1>9. \A i \in 1 .. Len(q) : q[i].kind = "fulfil" => i = Len(workQueue) - d + 1 /\ q[i] = b
  BY <1>5, <1>8 DEF Grows
<1>10. (\A i \in 1 .. Len(workQueue) : workQueue[i].kind = "fulfil" => protocols[workQueue[i].p].at = "fulfillingFromCache")'
  BY <1>3, <1>4, <1>6, <1>7, <1>9
<1>11. (\A i, j \in 1 .. Len(workQueue) : workQueue[i].kind = "fulfil" /\ workQueue[j].kind = "fulfil" => i = j)'
  BY <1>6, <1>9
<1>12. \A o \in 1 .. Newest' : protocols'[o].at \in {"initial", "fulfillingFromCache"}
  BY <1>3, <1>4
<1> QED BY <1>3, <1>4, <1>10, <1>11, <1>12 DEF Replay

LEMMA ReplayingNext ==
  ASSUME Shape, Turn, Program, Guarded, Orderly, TellsOnce, EndsReported, Finished, Parted, Uncached, LateStarts, Current,
         Replaying, scenario.delegate, EndsReplay(scenario), [Next]_vars
  PROVE  Replaying'
<1> SUFFICES ASSUME (scenario.cache = "hit" /\ ~Completing /\ crash = "none")'
             PROVE  Replay'
  BY DEF Replaying
<1>1. scenario.cache = "hit" /\ ~Completing /\ crash = "none" /\ Replay
  BY SameScenario, CompletingStays, NextCrash DEF Replaying
<1>2. ~Ended'
  BY <1>1, ReplayStays
<1>3. CASE LoadAction
  <2>1. ~FulfilFromCache
    <3> SUFFICES ASSUME FulfilFromCache PROVE FALSE
      OBVIOUS
    <3>1. PICK p : p = Head(workQueue).p
      OBVIOUS
    <3>2. p \in ProtocolNumbers /\ Conclude(<<Op("notify", p), Op("complete", p)>>, Rest)
      BY <3>1, RunningBlock, Counts DEF FulfilFromCache
    <3> QED BY <3>2, CompletionOps, EndsComplete
  <2> QED BY <1>1, <1>2, <1>3, <2>1, ReplayLoads, ReplayKept, ReplayBegins
<1>4. CASE ~LoadAction
  <2>1. UNCHANGED delegateQueue
    <3>1. ~Leaving
      BY <1>1, LeavingEnds DEF Orderly, Replay
    <3> QED BY <1>1, <1>4, <3>1, OthersTell DEF Replay
  <2>2. UNCHANGED error
    BY <1>4, NextError
  <2>3. \A p : ~Replays(p)
    BY <1>4 DEF LoadAction, Replays
  <2>4. SameProtocols \/ (protocols = <<>> /\ protocols' = Append(protocols, NewProtocol))
    <3>1. CASE UNCHANGED protocols
      BY <3>1 DEF SameProtocols
    <3>2. CASE protocols' = Append(protocols, NewProtocol)
      <4>1. Len(protocols') = Len(protocols) + 1 /\ Len(protocols) \in Nat
        BY <3>2, ProtocolMade, Counts
      <4>2. ~ReplaceProtocol
        BY <1>1, DelegatePlace DEF ReplaceProtocol, Replay
      <4>3. storage.kind \in NoneYet
        BY <4>1, <4>2, NextStored
      <4>4. protocols = <<>>
        BY <4>3 DEF Shape, Unserved, NoneYet
      <4> QED BY <3>2, <4>4
    <3> QED BY <1>4, <3>1, <3>2, NextObjects
  <2> QED BY <1>1, <1>2, <2>1, <2>2, <2>3, <2>4, ReplayKept
<1> QED BY <1>3, <1>4

(* How it stays over.                                                       *)
LEMMA OverStays ==
  ASSUME Shape, Turn, Guarded, NotYet, Current, Over, Completing, crash' = "none", [Next]_vars
  PROVE  Over'
<1>0. crash = "none"
  BY NextCrash
<1>1. /\ \A i \in 1 .. Len(workQueue) : workQueue[i].kind # "fulfil"
      /\ \A p \in 1 .. Newest : Dead(p)
      /\ ~Ended => storage.kind = "invalidated"
  BY <1>0 DEF Over
<1>2. \A i \in 1 .. Len(workQueue') : workQueue'[i].kind # "fulfil"
  <2> SUFFICES ASSUME NEW i \in 1 .. Len(workQueue'), workQueue'[i].kind = "fulfil"
               PROVE  FALSE
    OBVIOUS
  <2>1. PICK d \in 0 .. 1 : Moved(d)
    BY BlocksMove
  <2>2. NewBlock(workQueue'[i])
    BY <1>1, <2>1 DEF Moved
  <2>3. PICK p : p = workQueue'[i].p /\ Replays(p)
    BY <2>2 DEF NewBlock, Callbacks, Calls
  <2>4. 1 \in 1 .. Len(workQueue) /\ Starts(1, p) /\ p \in 1 .. Newest
    BY <2>3, RunningBlock, Counts DEF Replays, StartLoading, Starts, Newest
  <2>5. protocols[p].at = "initial"
    BY <2>3 DEF Replays
  <2> QED BY <1>1, <2>4, <2>5 DEF Dead, Quiet, TaskCompleted
<1>3. storage.kind \notin NoneYet
  BY DEF NotYet
<1>4. ReplaceProtocol => Ended
  <2> SUFFICES ASSUME ReplaceProtocol, ~Ended PROVE FALSE
    OBVIOUS
  <2>1. NoneOpen
    BY <1>0, <1>1 DEF Current, DroppedIsQuiet, AllQuiet
  <2> QED BY <2>1, NoneOpenWaits
<1>5. \A p \in 1 .. Newest' : Dead(p)'
  <2>1. \A p \in 1 .. Newest : Dead(p)'
    BY <1>1, DeadStays
  <2>2. CASE ReplaceProtocol
    <3>1. Newest' = Newest + 1 /\ LastDead' /\ Newest \in Nat
      BY <1>4, <2>2, ReplacedIsDead, Counts DEF Newest
    <3> SUFFICES ASSUME NEW p \in 1 .. Newest'
                 PROVE  Dead(p)'
      OBVIOUS
    <3>2. p \in 1 .. Newest \/ p = Newest'
      BY <3>1
    <3> QED BY <2>1, <3>1, <3>2, LastDies
  <2>3. CASE ~ReplaceProtocol
    <3>1. Newest' = Newest
      BY <1>3, <2>3, NextStored DEF NoneYet, Newest
    <3> QED BY <2>1, <3>1
  <2> QED BY <2>2, <2>3
<1>6. ~Ended' => storage'.kind = "invalidated"
  <2> SUFFICES ASSUME ~Ended' PROVE storage'.kind = "invalidated"
    OBVIOUS
  <2>1. ~Ended /\ storage.kind = "invalidated"
    BY <1>1, NextState
  <2>2. ~ReplaceProtocol /\ Invalidated.kind = "invalidated"
    BY <1>4, <2>1 DEF Invalidated, Stored
  <2> QED BY <2>1, <2>2, NextStored DEF NoneYet
<1> QED BY <1>2, <1>5, <1>6 DEF Over

(* No response is replayed any more when the task has ended.                *)
LEMMA NoMoreReplays ==
  ASSUME Shape, Turn, Miss, Replaying, LateStarts, Current, ~Completing, crash = "none", crash' = "none",
         LoadAction, ~UNCHANGED storage, [Next]_vars
  PROVE  \A i \in 1 .. Len(workQueue') : workQueue'[i].kind # "fulfil"
<1>1. CASE scenario.cache # "hit"
  BY <1>1, MissNext, SameScenario DEF Miss
<1>2. CASE scenario.cache = "hit"
  <2>1. Replay
    BY <1>2 DEF Replaying
  <2>2. FulfilFromCache
    BY <1>2, <2>1, ReplayLoads
  <2>3. PICK p : p = Head(workQueue).p
    OBVIOUS
  <2>4. workQueue' = Rest \/ workQueue' = Append(Rest, Block("remove", NoProtocol))
    <3>1. Conclude(<<Op("notify", p), Op("complete", p)>>, Rest)
      BY <2>2, <2>3 DEF FulfilFromCache
    <3> QED BY <3>1, Zenon DEF Conclude
  <2>5. /\ workQueue \in Seq(BlockType) /\ workQueue # <<>> /\ Passed(workQueue, Rest)
        /\ 1 \in 1 .. Len(workQueue) /\ workQueue[1].kind = "fulfil"
    BY <2>2, RunningBlock DEF FulfilFromCache
  <2>6. PICK b, q : b = Block("remove", NoProtocol) /\ q = workQueue'
    OBVIOUS
  <2>7. b \in BlockType /\ b.kind = "remove"
    <3>1. NoProtocol \in ProtocolNumbers
      BY Counts DEF NoProtocol
    <3> QED BY <2>6, <3>1 DEF Block, BlockType, BlockKinds
  <2>8. PICK d \in 0 .. 1, n \in 0 .. 1 : Grows(workQueue, Rest, b, q, d, n)
    BY <2>4, <2>5, <2>6, <2>7, GrownElements
  <2>9. d = 1
    <3>1. Rest # workQueue
      BY <2>5, Dropped DEF Rest
    <3> QED BY <2>8, <3>1 DEF Grows
  <2> SUFFICES ASSUME NEW i \in 1 .. Len(q), q[i].kind = "fulfil"
               PROVE  FALSE
    BY <2>6
  <2>10. i + 1 \in 1 .. Len(workQueue) /\ workQueue[i + 1].kind = "fulfil"
    BY <2>7, <2>8, <2>9 DEF Grows
  <2>11. i + 1 = 1
    BY <2>1, <2>5, <2>10 DEF Replay
  <2> QED BY <2>11
<1> QED BY <1>1, <1>2

(* The end of a task that has been cancelled: every protocol is dead.        *)
LEMMA CancelDrops ==
  ASSUME Shape, Turn, Guarded, CancelsNewest, Ended, CancelLoading, ~UNCHANGED storage, crash = "none", crash' = "none",
         [Next]_vars
  PROVE  \A p \in 1 .. Newest : Dead(p)'
<1>1. PICK q : q = Head(workQueue).p
  OBVIOUS
<1>2. /\ 1 \in 1 .. Len(workQueue) /\ workQueue[1].kind = "cancelled" /\ workQueue[1].p = q
      /\ q \in 0 .. Len(protocols)
  BY <1>1, RunningBlock, Counts DEF CancelLoading
<1>3. q # NoProtocol
  BY <1>1 DEF CancelLoading
<1>4. q \in 1 .. Len(protocols) /\ protocols[q] \in ProtocolType
  BY <1>2, <1>3, Counts, ElementOfSeq DEF NoProtocol
<1>5. protocols' = [protocols EXCEPT ![q] = TaskCompleted]
  <2>1. Stopped(protocols[q]) = TaskCompleted
    BY DEF Stopped, Ended
  <2> QED BY <1>1, <1>3, <2>1 DEF CancelLoading
<1>6. Quiet(q)'
  <2>1. TaskCompleted \in ProtocolType
    BY <1>4, ProtocolKinds
  <2>2. protocols'[q] = TaskCompleted
    BY <1>4, <1>5, <2>1, ProtocolChanged
  <2> QED BY <2>2 DEF Quiet, TaskCompleted
<1>7. q = Newest \/ LastDead
  BY <1>2, <1>3 DEF CancelsNewest, Cancelling
<1> SUFFICES ASSUME NEW p \in 1 .. Newest
             PROVE  Dead(p)'
  OBVIOUS
<1>8. CASE p # Newest
  <2>1. Dead(p)
    BY <1>8 DEF Turn, Dead
  <2> QED BY <2>1, DeadStays
<1>9. CASE p = Newest /\ q = Newest
  BY <1>6, <1>9 DEF Dead
<1>10. CASE p = Newest /\ LastDead
  <2>1. Dead(p)
    BY <1>10 DEF LastDead
  <2> QED BY <2>1, DeadStays
<1> QED BY <1>7, <1>8, <1>9, <1>10

(* How it gets over.                                                        *)
LEMMA OverComes ==
  ASSUME Shape, Turn, Guarded, TellsOnce, EndsReported, Current, LateStarts, CancelsNewest, Miss, Replaying,
         ~Completing, Completing', crash' = "none", [Next]_vars
  PROVE  Over'
<1>0. crash = "none"
  BY NextCrash
<1>1. LoadAction /\ storage' = Invalidated
  BY Completes
<1>2. storage'.kind = "invalidated" /\ ~UNCHANGED storage
  BY <1>1 DEF EndsReported, Invalidated, Stored
<1>3. Newest' = Newest /\ UNCHANGED pc
  BY <1>1, LoadSteps DEF Loads, Newest
<1>4. \A i \in 1 .. Len(workQueue') : workQueue'[i].kind # "fulfil"
  BY <1>0, <1>1, <1>2, NoMoreReplays
<1>5. ASSUME AllQuiet'
      PROVE  \A p \in 1 .. Newest' : Dead(p)'
  BY <1>5 DEF AllQuiet, Dead
<1>6. CASE ~Ended
  <2>1. AllQuiet'
    BY <1>0, <1>1, <1>6, LoadDrops DEF Current
  <2> QED BY <1>2, <1>4, <1>5, <2>1 DEF Over
<1>7. CASE Ended
  <2>1. CASE DeclineRedirect \/ TransferEnds
    <3>1. AllQuiet'
      BY <1>2, <1>3, <2>1, TransferDrops
    <3> QED BY <1>2, <1>4, <1>5, <3>1 DEF Over
  <2>2. CASE CancelLoading
    <3>1. \A p \in 1 .. Newest : Dead(p)'
      BY <1>0, <1>2, <1>7, <2>2, CancelDrops
    <3> QED BY <1>2, <1>3, <1>4, <3>1 DEF Over
  <2>3. ~FulfilFromCache
    <3> SUFFICES ASSUME FulfilFromCache PROVE FALSE
      OBVIOUS
    <3>1. 1 \in 1 .. Len(workQueue) /\ workQueue[1].kind = "fulfil"
      BY RunningBlock DEF FulfilFromCache
    <3>2. scenario.cache = "hit"
      BY <3>1 DEF Miss
    <3> QED BY <1>0, <1>7, <3>2 DEF Replaying, Replay
  <2>4. ~StartLoading
    <3> SUFFICES ASSUME StartLoading PROVE FALSE
      OBVIOUS
    <3>1. 1 \in 1 .. Len(workQueue) /\ workQueue[1].kind = "start" /\ workQueue[1].p = Head(workQueue).p
      BY RunningBlock DEF StartLoading
    <3>2. Head(workQueue).p # NoProtocol
      BY <3>1 DEF LateStarts, Starts
    <3> QED BY <1>2, <3>2 DEF StartLoading
  <2>5. ~StopLoading /\ ~FollowRedirect /\ \A p \in 1 .. Len(protocols) : ~ReceiveData(p)
    BY <1>2 DEF StopLoading, FollowRedirect, ReceiveData, Tell
  <2> QED BY <1>1, <2>1, <2>2, <2>3, <2>4, <2>5 DEF LoadAction
<1> QED BY <1>6, <1>7

LEMMA OverNext ==
  ASSUME Shape, Turn, Guarded, TellsOnce, EndsReported, Finished, NotYet, Current, LateStarts, CancelsNewest, Miss,
         Replaying, Over, [Next]_vars
  PROVE  Over'
<1> SUFFICES ASSUME Completing', crash' = "none"
             PROVE  Over'
  BY DEF Over
<1> QED BY OverStays, OverComes

LEMMA InitLast ==
  ASSUME Init
  PROVE  StoredIsNewest /\ LateStarts /\ NotYet /\ CancelsNewest /\ Over /\ LastOp /\ Replaying /\ Miss
<1>1. /\ state = "suspended" /\ storage.kind = "toBeCreated" /\ protocols = <<>> /\ error = FALSE
      /\ delivering = <<>> /\ delegateQueue = <<>> /\ completions = 0
      /\ Len(workQueue) = 1 /\ workQueue[1].kind = "add"
  BY DEF Init, Stored, Block
<1>2. \A i \in 1 .. Len(workQueue) : workQueue[i].kind = "add"
  BY <1>1
<1>3. ~Completing
  BY <1>1 DEF Completing
<1>4. StoredIsNewest /\ NotYet /\ Over /\ LastOp
  BY <1>1, <1>3 DEF StoredIsNewest, NotYet, Over, LastOp
<1>5. LateStarts /\ CancelsNewest /\ Miss
  BY <1>1, <1>2 DEF LateStarts, Starts, CancelsNewest, Cancelling, Miss
<1>6. Replaying
  BY <1>1, <1>2 DEF Replaying, Replay, Ended, Newest
<1> QED BY <1>4, <1>5, <1>6

(* The completion is told once and last (URLSessionTask.swift:516), although *)
(* the cancellation, the timer and the end of the transfer report it from   *)
(* three places, a challenge may give a cancelled task another protocol, and *)
(* the end of the session is queued from a third thread.  What is asked of  *)
(* a scenario is that the application starts a task once, and does not      *)
(* cancel one whose response may be replayed from the cache: the block of   *)
(* the replay tells the delegate of the response after the cancellation.     *)
THEOREM CompletionStaysLast ==
  ASSUME \A s \in Scenarios : StartsOnce(s) /\ StaysWhileCached(s) /\ EndsReplay(s)
  PROVE  Spec => []CompletionIsLastWord
<1> DEFINE Base == Shape /\ Turn /\ Program /\ Orderly /\ Guarded /\ Beginning /\ TellsOnce /\ Completed /\ Uncached
           Last == scenario.delegate =>
                     /\ Counted /\ Untouched /\ Fresh /\ Current
                     /\ StoredIsNewest /\ LateStarts /\ NotYet /\ CancelsNewest
                     /\ Over /\ LastOp /\ Replaying /\ Miss
           Inv == Base /\ Last
<1>1. Init => Inv
  BY InitShape, InitTurn, InitCancel, InitCompleted, InitSuspended, InitLast
<1>2. Inv /\ [Next]_vars => Inv'
  <2> SUFFICES ASSUME Shape, Turn, Program, Orderly, Guarded, Beginning, TellsOnce, Completed, Uncached, Last,
                      [Next]_vars
               PROVE  Inv'
    OBVIOUS
  <2>1. Shape' /\ Turn' /\ Program' /\ Orderly' /\ Beginning'
    BY ShapeNext, TurnNext, ProgramNext, OrderlyNext, BeginningNext
  <2>2. StartsOnce(scenario) /\ StaysWhileCached(scenario) /\ EndsReplay(scenario)
    BY DEF Shape, TypeOK, OtherTypes
  <2>3. Guarded' /\ TellsOnce' /\ Completed' /\ Uncached'
    BY <2>2, GuardedNext, TellsOnceNext, CompletedNext, UncachedNext DEF Orderly
  <2>4. UNCHANGED scenario
    BY SameScenario
  <2>5. CASE scenario.delegate
    <3>1. /\ Counted /\ Untouched /\ Fresh /\ Current
          /\ StoredIsNewest /\ LateStarts /\ NotYet /\ CancelsNewest
          /\ Over /\ LastOp /\ Replaying /\ Miss
      BY <2>5
    <3>2. EndsReported /\ Finished /\ Parted /\ EndsReported' /\ Served
      BY <2>3, <2>4, <2>5 DEF Completed, Orderly
    <3>3. StartsCachedOnce(scenario)
      BY <2>2, <2>5 DEF StartsOnce, StartsCachedOnce
    <3>4. Counted' /\ Untouched' /\ Fresh' /\ Current'
      BY <3>1, <3>3, CountedNext, UntouchedNext, FreshNext, CurrentNext
    <3>5. StoredIsNewest' /\ LateStarts' /\ NotYet' /\ CancelsNewest'
      BY <3>1, <3>2, StoredNext, LateStartsNext, NotYetNext, CancelsNewestNext
    <3>6. Over' /\ LastOp'
      BY <3>1, <3>2, OverNext, LastOpNext
    <3>7. Replaying' /\ Miss'
      BY <2>2, <2>5, <3>1, <3>2, ReplayingNext, MissNext
    <3> QED BY <2>1, <2>3, <3>4, <3>5, <3>6, <3>7
  <2>6. CASE ~scenario.delegate
    <3>1. Last'
      BY <2>4, <2>6
    <3> QED BY <2>1, <2>3, <3>1
  <2> QED BY <2>5, <2>6
<1>3. Inv => CompletionIsLastWord
  <2> SUFFICES ASSUME TellsOnce, Orderly, Last
               PROVE  CompletionIsLastWord
    OBVIOUS
  <2>1. completions <= 1
    BY DEF TellsOnce
  <2>2. scenario.delegate => LastOp
    OBVIOUS
  <2>3. CASE scenario.delegate
    BY <2>1, <2>2, <2>3 DEF LastOp, Closing, CompletionIsLastWord
  <2>4. CASE ~scenario.delegate
    BY <2>1, <2>4 DEF Orderly, Silent, CompletionIsLastWord
  <2> QED BY <2>3, <2>4
<1> QED BY <1>1, <1>2, <1>3, PTL DEF Spec
=============================================================================
