------------------------ MODULE ThreadJobQueueProofs ------------------------
(***************************************************************************)
(* For every set of threads and jobs and every bound, ThreadJobQueue keeps *)
(* its types, never reads an empty queue and implements JobQueueSpec.      *)
(*                                                                         *)
(* The inductive invariant says what the lock buys: only the thread inside *)
(* the scope is between two steps of a call, so what it saw of the two     *)
(* pointers and the two queues is still true when it acts on it.           *)
(***************************************************************************)
EXTENDS ThreadJobQueue, SequenceTheorems, TLAPS

InScope(t) == pc[t] \in {"append", "size", "refill", "take", "leave"}

TwoQueues == writeQueue # readQueue

Exclusive == \A t \in Thread : InScope(t) => holder = t

PushingHasJob == \A t \in Thread : pc[t] \in {"push", "append"} => arg[t] \in Job

TargetIsCurrent == \A t \in Thread : pc[t] = "append" => target[t] = writeQueue

RefillIsDue == \A t \in Thread : pc[t] = "refill" =>
                  /\ queue_[readQueue] = <<>>
                  /\ queue_[writeQueue] # <<>>

IInv == /\ TypeOK
        /\ TwoQueues
        /\ Exclusive
        /\ PushingHasJob
        /\ TargetIsCurrent
        /\ RefillIsDue
        /\ NeverReadsEmptyQueue

-----------------------------------------------------------------------------
(***************************************************************************)
(* Taking the head of a non-empty sequence commutes with appending a       *)
(* second sequence behind it.                                              *)
(***************************************************************************)
LEMMA HeadTailOfConcat ==
  ASSUME NEW S, NEW s \in Seq(S), NEW u \in Seq(S), s # <<>>
  PROVE  /\ s \o u # <<>>
         /\ Head(s \o u) = Head(s)
         /\ Tail(s \o u) = Tail(s) \o u
<1>1. /\ s \o u \in Seq(S)
      /\ Len(s \o u) = Len(s) + Len(u)
      /\ \A i \in 1 .. Len(s) + Len(u) :
           (s \o u)[i] = IF i <= Len(s) THEN s[i] ELSE u[i - Len(s)]
  BY ConcatProperties
<1>2. Len(s) \in Nat \ {0} /\ Len(u) \in Nat
  BY EmptySeq, LenProperties
<1>3. s \o u # <<>>
  BY <1>1, <1>2, ConcatEqualIffEmpty
<1>4. Head(s \o u) = Head(s)
  BY <1>1, <1>2, <1>3
<1>5. /\ Tail(s) \in Seq(S) /\ Len(Tail(s)) = Len(s) - 1
      /\ \A i \in 1 .. Len(Tail(s)) : Tail(s)[i] = s[i+1]
  BY HeadTailProperties
<1>6. /\ Tail(s \o u) \in Seq(S) /\ Len(Tail(s \o u)) = Len(s \o u) - 1
      /\ \A i \in 1 .. Len(Tail(s \o u)) : Tail(s \o u)[i] = (s \o u)[i+1]
  BY <1>1, <1>3, HeadTailProperties
<1>7. /\ Tail(s) \o u \in Seq(S)
      /\ Len(Tail(s) \o u) = Len(Tail(s)) + Len(u)
      /\ \A i \in 1 .. Len(Tail(s)) + Len(u) :
           (Tail(s) \o u)[i] = IF i <= Len(Tail(s)) THEN Tail(s)[i]
                                                    ELSE u[i - Len(Tail(s))]
  BY <1>5, ConcatProperties
<1>8. \A i \in 1 .. Len(Tail(s \o u)) : Tail(s \o u)[i] = (Tail(s) \o u)[i]
  BY <1>1, <1>2, <1>5, <1>6, <1>7
<1>9. Tail(s \o u) = Tail(s) \o u
  <2>1. Len(Tail(s \o u)) = Len(Tail(s) \o u)
    BY <1>1, <1>2, <1>5, <1>6, <1>7
  <2> QED
    BY <2>1, <1>6, <1>7, <1>8, SeqEqual
<1> QED
  BY <1>3, <1>4, <1>9

(***************************************************************************)
(* Writing at the end of the second of two concatenated sequences writes   *)
(* at the end of the whole.                                                *)
(***************************************************************************)
LEMMA AppendToConcat ==
  ASSUME NEW S, NEW s \in Seq(S), NEW u \in Seq(S), NEW e \in S
  PROVE  s \o Append(u, e) = Append(s \o u, e)
<1>1. <<e>> \in Seq(S)
  OBVIOUS
<1>2. s \o u \in Seq(S)
  BY ConcatProperties
<1> QED
  BY <1>1, <1>2, AppendIsConcat, ConcatAssociative

(***************************************************************************)
(* The two lengths that size() adds up are zero exactly when both queues   *)
(* are empty.                                                              *)
(***************************************************************************)
LEMMA SizeZero ==
  ASSUME TypeOK, TwoQueues
  PROVE  size = 0 <=> queue_[readQueue] = <<>> /\ queue_[writeQueue] = <<>>
<1>1. /\ queue_["WRITE_QUEUE"] \in Seq(Job)
      /\ queue_["READ_QUEUE"] \in Seq(Job)
  BY DEF TypeOK, QueueId
<1>2. /\ Len(queue_["WRITE_QUEUE"]) \in Nat
      /\ Len(queue_["READ_QUEUE"]) \in Nat
      /\ Len(queue_["WRITE_QUEUE"]) = 0 <=> queue_["WRITE_QUEUE"] = <<>>
      /\ Len(queue_["READ_QUEUE"]) = 0 <=> queue_["READ_QUEUE"] = <<>>
  BY <1>1, EmptySeq, LenProperties
<1>3. size = 0 <=> /\ queue_["WRITE_QUEUE"] = <<>>
                   /\ queue_["READ_QUEUE"] = <<>>
  <2>1. ASSUME NEW m \in Nat, NEW n \in Nat PROVE m + n = 0 <=> m = 0 /\ n = 0
    OBVIOUS
  <2>2. size = 0 <=> /\ Len(queue_["WRITE_QUEUE"]) = 0
                     /\ Len(queue_["READ_QUEUE"]) = 0
    BY <2>1, <1>2 DEF size
  <2> QED
    BY <2>2, <1>2, Zenon
<1>4. \/ writeQueue = "WRITE_QUEUE" /\ readQueue = "READ_QUEUE"
      \/ writeQueue = "READ_QUEUE" /\ readQueue = "WRITE_QUEUE"
  BY DEF TypeOK, TwoQueues, QueueId
<1> QED
  BY <1>3, <1>4

-----------------------------------------------------------------------------
(***************************************************************************)
(* The inductive invariant holds of the constructed queue and of every     *)
(* step of push and pop.                                                   *)
(***************************************************************************)
LEMMA InitInv == Init => IInv
<1> SUFFICES ASSUME Init PROVE IInv
  OBVIOUS
<1>1. <<>> \in Seq(Job)
  BY EmptySeq
<1> QED
  BY <1>1, ThreadAssumption
  DEF Init, IInv, TypeOK, TwoQueues, Exclusive, PushingHasJob, TargetIsCurrent,
      RefillIsDue, NeverReadsEmptyQueue, InScope, QueueId, Where

LEMMA StepInv == IInv /\ [Next]_vars => IInv'
<1> SUFFICES ASSUME IInv, [Next]_vars PROVE IInv'
  OBVIOUS
<1> USE ThreadAssumption, JobAssumption
<1>t. TypeOK /\ TwoQueues
  BY DEF IInv
<1>q. queue_[readQueue] \in Seq(Job) /\ queue_[writeQueue] \in Seq(Job)
  BY <1>t DEF TypeOK
<1>0. CASE UNCHANGED vars
  BY <1>0 DEF IInv, vars, TypeOK, TwoQueues, Exclusive, PushingHasJob,
     TargetIsCurrent, RefillIsDue, NeverReadsEmptyQueue, InScope
<1>1. ASSUME NEW t \in Thread, CallPush(t) PROVE IInv'
  BY <1>1 DEF CallPush, Goto, IInv, TypeOK, TwoQueues, Exclusive, PushingHasJob,
     TargetIsCurrent, RefillIsDue, NeverReadsEmptyQueue, InScope, Where
<1>2. ASSUME NEW t \in Thread, EnterPush(t) PROVE IInv'
  BY <1>2 DEF EnterPush, Lock, Goto, IInv, TypeOK, TwoQueues, Exclusive,
     PushingHasJob, TargetIsCurrent, RefillIsDue, NeverReadsEmptyQueue, InScope, Where
<1>3. ASSUME NEW t \in Thread, AppendJob(t) PROVE IInv'
  <2>1. /\ target[t] = writeQueue /\ arg[t] \in Job /\ holder = t
    BY <1>3 DEF AppendJob, IInv, TargetIsCurrent, PushingHasJob, Exclusive, InScope
  <2>2. Append(queue_[writeQueue], arg[t]) \in Seq(Job)
    BY <2>1, <1>q, AppendProperties
  <2>3. \A u \in Thread : pc[u] # "refill" /\ pc[u] # "take"
    BY <1>3, <2>1 DEF AppendJob, IInv, Exclusive, InScope
  <2> QED
    BY <1>3, <2>1, <2>2, <2>3 DEF AppendJob, Goto, IInv, TypeOK, TwoQueues, Exclusive,
       PushingHasJob, TargetIsCurrent, RefillIsDue, NeverReadsEmptyQueue, InScope, Where
<1>4. ASSUME NEW t \in Thread, CallPop(t) PROVE IInv'
  BY <1>4 DEF CallPop, Goto, IInv, TypeOK, TwoQueues, Exclusive, PushingHasJob,
     TargetIsCurrent, RefillIsDue, NeverReadsEmptyQueue, InScope, Where
<1>5. ASSUME NEW t \in Thread, EnterPop(t) PROVE IInv'
  BY <1>5 DEF EnterPop, Lock, Goto, IInv, TypeOK, TwoQueues, Exclusive,
     PushingHasJob, TargetIsCurrent, RefillIsDue, NeverReadsEmptyQueue, InScope, Where
<1>6. ASSUME NEW t \in Thread, PopNothing(t) PROVE IInv'
  BY <1>6 DEF PopNothing, Goto, IInv, TypeOK, TwoQueues, Exclusive, PushingHasJob,
     TargetIsCurrent, RefillIsDue, NeverReadsEmptyQueue, InScope, Where
<1>7. ASSUME NEW t \in Thread, PopSomething(t) PROVE IInv'
  <2>1. queue_[readQueue] = <<>> => queue_[writeQueue] # <<>>
    BY <1>7, <1>t, SizeZero DEF PopSomething
  <2> QED
    BY <1>7, <2>1 DEF PopSomething, Goto, IInv, TypeOK, TwoQueues, Exclusive,
       PushingHasJob, TargetIsCurrent, RefillIsDue, NeverReadsEmptyQueue, InScope, Where
<1>8. ASSUME NEW t \in Thread, swap(t) PROVE IInv'
  <2>1. /\ writeQueue' = readQueue /\ readQueue' = writeQueue
    BY <1>8, <1>t DEF swap, TypeOK, TwoQueues, QueueId
  <2>2. queue_[writeQueue] # <<>>
    BY <1>8 DEF swap, IInv, RefillIsDue
  <2>3. \A u \in Thread : InScope(u) => u = t
    BY <1>8 DEF swap, IInv, Exclusive, InScope
  <2> QED
    BY <1>8, <2>1, <2>2, <2>3 DEF swap, Goto, IInv, TypeOK, TwoQueues, Exclusive,
       PushingHasJob, TargetIsCurrent, RefillIsDue, NeverReadsEmptyQueue, InScope, Where
<1>9. ASSUME NEW t \in Thread, Take(t) PROVE IInv'
  <2>1. /\ Head(queue_[readQueue]) \in Job
        /\ Tail(queue_[readQueue]) \in Seq(Job)
    BY <1>9, <1>q, HeadTailProperties DEF Take, IInv, NeverReadsEmptyQueue
  <2>2. \A u \in Thread : InScope(u) => u = t
    BY <1>9 DEF Take, IInv, Exclusive, InScope
  <2> QED
    BY <1>9, <2>1, <2>2 DEF Take, Goto, IInv, TypeOK, TwoQueues, Exclusive,
       PushingHasJob, TargetIsCurrent, RefillIsDue, NeverReadsEmptyQueue, InScope, Where
<1>10. ASSUME NEW t \in Thread, Leave(t) PROVE IInv'
  <2>1. \A u \in Thread : InScope(u) => u = t
    BY <1>10 DEF Leave, IInv, Exclusive, InScope
  <2> QED
    BY <1>10, <2>1 DEF Leave, Unlock, Goto, IInv, TypeOK, TwoQueues, Exclusive,
       PushingHasJob, TargetIsCurrent, RefillIsDue, NeverReadsEmptyQueue, InScope, Where
<1> QED
  BY <1>0, <1>1, <1>2, <1>3, <1>4, <1>5, <1>6, <1>7, <1>8, <1>9, <1>10 DEF Next, Step

LEMMA QueueInvariant == Spec => []IInv
BY InitInv, StepInv, PTL DEF Spec

(***************************************************************************)
(* ThreadJobQueue::pop, line 63: front() is never called on an empty read  *)
(* queue, however many threads push and pop.                               *)
(***************************************************************************)
THEOREM PopIsSafe == Spec => []NeverReadsEmptyQueue
<1>1. IInv => NeverReadsEmptyQueue
  BY DEF IInv
<1> QED
  BY <1>1, QueueInvariant, PTL

(***************************************************************************)
(* ThreadJobQueue.h: the two pointers always name queues of jobs, and a    *)
(* pushing thread always knows which of the two it writes to.              *)
(***************************************************************************)
THEOREM TypeCorrect == Spec => []TypeOK
<1>1. IInv => TypeOK
  BY DEF IInv
<1> QED
  BY <1>1, QueueInvariant, PTL

(***************************************************************************)
(* Every step of the two-buffer queue is a step of one first-in first-out  *)
(* queue, or changes nothing of it.                                        *)
(***************************************************************************)
LEMMA StepRefines == IInv /\ [Next]_vars => [Fifo!Next]_(Fifo!vars)
<1> SUFFICES ASSUME IInv, [Next]_vars PROVE [Fifo!Next]_(Fifo!vars)
  OBVIOUS
<1>t. TypeOK /\ TwoQueues
  BY DEF IInv
<1>q. queue_[readQueue] \in Seq(Job) /\ queue_[writeQueue] \in Seq(Job)
  BY <1>t DEF TypeOK
<1>u. ASSUME UNCHANGED <<queue_, readQueue, writeQueue, result>>
      PROVE  [Fifo!Next]_(Fifo!vars)
  BY <1>u DEF Fifo!vars
<1>0. CASE UNCHANGED vars
  BY <1>0, <1>u DEF vars
<1>1. ASSUME NEW t \in Thread,
             CallPush(t) \/ EnterPush(t) \/ CallPop(t) \/ EnterPop(t)
               \/ PopSomething(t) \/ Leave(t)
      PROVE  [Fifo!Next]_(Fifo!vars)
  BY <1>1, <1>u DEF CallPush, EnterPush, CallPop, EnterPop, PopSomething, Leave
<1>2. ASSUME NEW t \in Thread, AppendJob(t) PROVE [Fifo!Next]_(Fifo!vars)
  <2>1. /\ target[t] = writeQueue /\ arg[t] \in Job
    BY <1>2 DEF AppendJob, IInv, TargetIsCurrent, PushingHasJob
  <2>2. /\ queue_'[readQueue'] = queue_[readQueue]
        /\ queue_'[writeQueue'] = Append(queue_[writeQueue], arg[t])
    BY <1>2, <2>1, <1>t DEF AppendJob, TypeOK, TwoQueues
  <2>3. queue_[readQueue] \o Append(queue_[writeQueue], arg[t])
          = Append(queue_[readQueue] \o queue_[writeQueue], arg[t])
    <3>1. \A s, u \in Seq(Job) : \A e \in Job : s \o Append(u, e) = Append(s \o u, e)
      BY AppendToConcat
    <3> QED
      BY <2>1, <1>q, <3>1, Zenon
  <2>4. Fifo!Push(arg[t])
    BY <1>2, <2>2, <2>3 DEF AppendJob, Fifo!Push
  <2> QED
    BY <2>1, <2>4 DEF Fifo!Next
<1>3. ASSUME NEW t \in Thread, PopNothing(t) PROVE [Fifo!Next]_(Fifo!vars)
  <2>1. queue_[readQueue] = <<>> /\ queue_[writeQueue] = <<>>
    BY <1>3, <1>t, SizeZero DEF PopNothing
  <2>2. queue_[readQueue] \o queue_[writeQueue] = <<>>
    BY <2>1, <1>q, ConcatEqualIffEmpty
  <2>3. Fifo!PopNothing(t)
    BY <1>3, <2>2 DEF PopNothing, Fifo!PopNothing
  <2> QED
    BY <2>3 DEF Fifo!Next
<1>4. ASSUME NEW t \in Thread, swap(t) PROVE [Fifo!Next]_(Fifo!vars)
  <2>1. /\ writeQueue' = readQueue /\ readQueue' = writeQueue
        /\ queue_' = queue_ /\ result' = result
    BY <1>4, <1>t DEF swap, TypeOK, TwoQueues, QueueId
  <2>2. queue_[readQueue] = <<>>
    BY <1>4 DEF swap, IInv, RefillIsDue
  <2>3. /\ queue_[readQueue] \o queue_[writeQueue] = queue_[writeQueue]
        /\ queue_[writeQueue] \o queue_[readQueue] = queue_[writeQueue]
    BY <2>2, <1>q, ConcatEmptySeq
  <2> QED
    BY <2>1, <2>3 DEF Fifo!vars
<1>5. ASSUME NEW t \in Thread, Take(t) PROVE [Fifo!Next]_(Fifo!vars)
  <2>1. queue_[readQueue] # <<>>
    BY <1>5 DEF Take, IInv, NeverReadsEmptyQueue
  <2>2. /\ queue_'[readQueue'] = Tail(queue_[readQueue])
        /\ queue_'[writeQueue'] = queue_[writeQueue]
    BY <1>5, <1>t DEF Take, TypeOK, TwoQueues
  <2>q. /\ queue_[readQueue] \o queue_[writeQueue] # <<>>
        /\ Head(queue_[readQueue] \o queue_[writeQueue]) = Head(queue_[readQueue])
        /\ Tail(queue_[readQueue] \o queue_[writeQueue])
             = Tail(queue_[readQueue]) \o queue_[writeQueue]
    BY <2>1, <1>q, HeadTailOfConcat
  <2>3. Fifo!Pop(t)
    BY <1>5, <2>2, <2>q DEF Take, Fifo!Pop
  <2> QED
    BY <2>3 DEF Fifo!Next
<1> QED
  BY <1>0, <1>1, <1>2, <1>3, <1>4, <1>5 DEF Next, Step

(***************************************************************************)
(* ThreadJobQueue implements JobQueueSpec: seen by its callers the swapped *)
(* pair of queues is a single first-in first-out queue.                    *)
(***************************************************************************)
THEOREM QueueIsFifo == Spec => ImplementsFifo
<1>1. Init => Fifo!Init
  <2>1. <<>> \o <<>> = <<>>
    BY ConcatEmptySeq, EmptySeq
  <2> QED
    BY <2>1 DEF Init, Fifo!Init, QueueId
<1> QED
  BY <1>1, QueueInvariant, StepRefines, PTL DEF Spec, ImplementsFifo, Fifo!Spec
=============================================================================
