--------------------------- MODULE ThreadJobQueue ---------------------------
(***************************************************************************)
(* StaticLib1/ThreadJobQueue.h: the queue between the IO workers and the   *)
(* contents threads (and between the DB agent and its DB threads).  Two    *)
(* std::queue objects, a pointer to the one that is written and a pointer  *)
(* to the one that is read; pop exchanges the pointers when the read side  *)
(* has run dry.                                                            *)
(*                                                                         *)
(* A call is several steps: take lock_, look at the pointers, change a     *)
(* queue, leave the scope.  `holder' is the thread inside SAFE_LOCK; the   *)
(* scopes that size() and swap() open on the same recursive mutex never    *)
(* block and are part of the step that opens them.  The model describes    *)
(* the queue until _shutdown is raised; LockScope describes the lock after *)
(* that.                                                                   *)
(***************************************************************************)
EXTENDS Sequences, Naturals

CONSTANTS Thread,    \* every thread that calls push or pop
          Job,       \* what is queued (Package* or Query*)
          NoThread, NoJob,
          MaxQueued  \* bound: jobs in the two queues when a push starts

ASSUME ThreadAssumption == NoThread \notin Thread
ASSUME JobAssumption == NoJob \notin Job
ASSUME BoundAssumption == MaxQueued \in Nat

VARIABLES queue_,      \* the two std::queue objects
          writeQueue,  \* which one writeQueue_ points to
          readQueue,   \* which one readQueue_ points to
          holder,      \* who holds lock_
          pc,          \* where each thread is in push or pop
          arg,         \* the job a pushing thread brought
          target,      \* the queue a pushing thread found writeQueue_ pointing to
          result       \* what each thread's last pop gave

vars == <<queue_, writeQueue, readQueue, holder, pc, arg, target, result>>

QueueId == {"WRITE_QUEUE", "READ_QUEUE"}
Where   == {"idle", "push", "append", "pop", "size", "refill", "take", "leave"}

Init ==
  /\ queue_ = [q \in QueueId |-> <<>>]
  /\ writeQueue = "WRITE_QUEUE"
  /\ readQueue = "READ_QUEUE"
  /\ holder = NoThread
  /\ pc = [t \in Thread |-> "idle"]
  /\ arg = [t \in Thread |-> NoJob]
  /\ target = [t \in Thread |-> "WRITE_QUEUE"]
  /\ result = [t \in Thread |-> NoJob]

Goto(t, l) == pc' = [pc EXCEPT ![t] = l]

size == Len(queue_["WRITE_QUEUE"]) + Len(queue_["READ_QUEUE"])

(***************************************************************************)
(* SAFE_LOCK(lock_) and the end of the scope it opens.                     *)
(***************************************************************************)
Lock(t) == /\ holder = NoThread
           /\ holder' = t

Unlock(t) == holder' = NoThread

-----------------------------------------------------------------------------
(***************************************************************************)
(* push                                                                    *)
(***************************************************************************)
CallPush(t) ==
  /\ pc[t] = "idle"
  /\ size < MaxQueued
  /\ \E j \in Job : arg' = [arg EXCEPT ![t] = j]
  /\ Goto(t, "push")
  /\ UNCHANGED <<queue_, writeQueue, readQueue, holder, target, result>>

EnterPush(t) ==
  /\ pc[t] = "push"
  /\ Lock(t)
  /\ target' = [target EXCEPT ![t] = writeQueue]
  /\ Goto(t, "append")
  /\ UNCHANGED <<queue_, writeQueue, readQueue, arg, result>>

\* mutant: pushes what this thread popped last
AppendOldResult(t) ==
  /\ pc[t] = "append"
  /\ queue_' = [queue_ EXCEPT ![target[t]] = Append(@, result[t])]
  /\ Goto(t, "leave")
  /\ UNCHANGED <<writeQueue, readQueue, holder, arg, target, result>>

AppendJob(t) ==
  /\ pc[t] = "append"
  /\ queue_' = [queue_ EXCEPT ![target[t]] = Append(@, arg[t])]
  /\ Goto(t, "leave")
  /\ UNCHANGED <<writeQueue, readQueue, holder, arg, target, result>>

(***************************************************************************)
(* pop                                                                     *)
(***************************************************************************)
CallPop(t) ==
  /\ pc[t] = "idle"
  /\ Goto(t, "pop")
  /\ UNCHANGED <<queue_, writeQueue, readQueue, holder, arg, target, result>>

\* mutant: pop without SAFE_LOCK
EnterPopUnlocked(t) ==
  /\ pc[t] = "pop"
  /\ Goto(t, "size")
  /\ UNCHANGED <<queue_, writeQueue, readQueue, holder, arg, target, result>>

EnterPop(t) ==
  /\ pc[t] = "pop"
  /\ Lock(t)
  /\ Goto(t, "size")
  /\ UNCHANGED <<queue_, writeQueue, readQueue, arg, target, result>>

\* mutant: the early return forgets the lock
PopNothingLocked(t) ==
  /\ pc[t] = "size"
  /\ size = 0
  /\ result' = [result EXCEPT ![t] = NoJob]
  /\ Goto(t, "idle")
  /\ UNCHANGED <<queue_, writeQueue, readQueue, holder, arg, target>>

\* size_t size = this->size(); if (size == 0) return false;
PopNothing(t) ==
  /\ pc[t] = "size"
  /\ size = 0
  /\ result' = [result EXCEPT ![t] = NoJob]
  /\ Goto(t, "leave")
  /\ UNCHANGED <<queue_, writeQueue, readQueue, holder, arg, target>>

\* mutant: swaps whether or not the read queue is empty
PopAndSwap(t) ==
  /\ pc[t] = "size"
  /\ size # 0
  /\ Goto(t, IF queue_[writeQueue] # <<>> THEN "refill" ELSE "take")
  /\ UNCHANGED <<queue_, writeQueue, readQueue, holder, arg, target, result>>

PopSomething(t) ==
  /\ pc[t] = "size"
  /\ size # 0
  /\ Goto(t, IF queue_[readQueue] = <<>> THEN "refill" ELSE "take")
  /\ UNCHANGED <<queue_, writeQueue, readQueue, holder, arg, target, result>>

swap(t) ==
  /\ pc[t] = "refill"
  /\ IF writeQueue = "WRITE_QUEUE"
       THEN /\ writeQueue' = "READ_QUEUE"
            /\ readQueue' = "WRITE_QUEUE"
       ELSE /\ writeQueue' = "WRITE_QUEUE"
            /\ readQueue' = "READ_QUEUE"
  /\ Goto(t, "take")
  /\ UNCHANGED <<queue_, holder, arg, target, result>>

Take(t) ==
  /\ pc[t] = "take"
  /\ result' = [result EXCEPT ![t] = Head(queue_[readQueue])]
  /\ queue_' = [queue_ EXCEPT ![readQueue] = Tail(@)]
  /\ Goto(t, "leave")
  /\ UNCHANGED <<writeQueue, readQueue, holder, arg, target>>

Leave(t) ==
  /\ pc[t] = "leave"
  /\ Unlock(t)
  /\ Goto(t, "idle")
  /\ UNCHANGED <<queue_, writeQueue, readQueue, arg, target, result>>

-----------------------------------------------------------------------------
Step(t) == \/ AppendJob(t) \/ PopNothing(t) \/ PopSomething(t)
           \/ swap(t) \/ Take(t) \/ Leave(t)

Next == \E t \in Thread : \/ CallPush(t) \/ EnterPush(t)
                          \/ CallPop(t) \/ EnterPop(t) \/ Step(t)

Spec == Init /\ [][Next]_vars

(***************************************************************************)
(* A thread inside a call is scheduled, and the operating system's mutex   *)
(* does not pass the same waiting thread over for ever.  Nobody has to     *)
(* call the queue.                                                         *)
(***************************************************************************)
Fairness == \A t \in Thread : /\ WF_vars(Step(t))
                              /\ SF_vars(EnterPush(t))
                              /\ SF_vars(EnterPop(t))

FairSpec == Spec /\ Fairness
-----------------------------------------------------------------------------
TypeOK ==
  /\ queue_ \in [QueueId -> Seq(Job)]
  /\ writeQueue \in QueueId
  /\ readQueue \in QueueId
  /\ holder \in Thread \cup {NoThread}
  /\ pc \in [Thread -> Where]
  /\ arg \in [Thread -> Job \cup {NoJob}]
  /\ target \in [Thread -> QueueId]
  /\ result \in [Thread -> Job \cup {NoJob}]

(***************************************************************************)
(* pop never calls front() on an empty read queue (line 63: undefined      *)
(* behaviour): between the size test, the swap and the read nobody can     *)
(* have emptied it, and the pointer exchange always brings in a queue with *)
(* a job.                                                                  *)
(***************************************************************************)
NeverReadsEmptyQueue ==
  \A t \in Thread : pc[t] = "take" => queue_[readQueue] # <<>>

(***************************************************************************)
(* The refinement: what is still to be read, then what has been written    *)
(* since, is one first-in first-out queue, whatever threads interleave.    *)
(***************************************************************************)
Fifo == INSTANCE JobQueueSpec WITH
          queue <- queue_[readQueue] \o queue_[writeQueue]

ImplementsFifo == Fifo!Spec

(***************************************************************************)
(* Every push and every pop that has been called returns: neither the      *)
(* early return of an empty pop nor the swap leaves lock_ behind.          *)
(***************************************************************************)
EveryCallReturns == \A t \in Thread : pc[t] # "idle" ~> pc[t] = "idle"
=============================================================================
