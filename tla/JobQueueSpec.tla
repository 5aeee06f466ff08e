---------------------------- MODULE JobQueueSpec ----------------------------
(***************************************************************************)
(* What a ThreadJobQueue promises its callers: one first-in first-out      *)
(* queue on which every push and every pop takes effect at one instant.    *)
(* result[t] is what thread t's last finished pop gave it: a job, or       *)
(* NoJob when pop returned false.                                          *)
(***************************************************************************)
EXTENDS Sequences

CONSTANTS Thread, Job, NoJob

VARIABLES queue, result

vars == <<queue, result>>

Init == /\ queue = <<>>
        /\ result = [t \in Thread |-> NoJob]

Push(j) == /\ queue' = Append(queue, j)
           /\ UNCHANGED result

Pop(t) == /\ queue # <<>>
          /\ result' = [result EXCEPT ![t] = Head(queue)]
          /\ queue' = Tail(queue)

PopNothing(t) == /\ queue = <<>>
                 /\ result' = [result EXCEPT ![t] = NoJob]
                 /\ UNCHANGED queue

Next == \/ \E j \in Job : Push(j)
        \/ \E t \in Thread : Pop(t) \/ PopNothing(t)

Spec == Init /\ [][Next]_vars
=============================================================================
