----------------------------- MODULE LockScope ------------------------------
(***************************************************************************)
(* StaticLib1/Lock.cpp: SAFE_LOCK, a scope object over one recursive       *)
(* mutex, and _shutdown, which turns the scopes off while they are open.   *)
(*                                                                         *)
(* The constructor looks at _shutdown and only then locks; the destructor  *)
(* looks again and may leave without unlocking.  Scopes nest; those opened *)
(* after _shutdown lie inside those opened before, so each thread needs    *)
(* only a count of both kinds.  lockingFile_ and lockingLine_ are written  *)
(* after lock() and cleared after unlock() of the mutex, outside of it;    *)
(* they are modelled as the thread that wrote them.                        *)
(*                                                                         *)
(* Before it locks, the constructor searches for a cycle of threads that   *)
(* wait for each other's locks.                                            *)
(***************************************************************************)
EXTENDS Naturals

CONSTANTS Thread, NoThread,
          MaxNest   \* bound: scopes one thread has open

ASSUME ThreadAssumption == NoThread \notin Thread
ASSUME NestAssumption == MaxNest \in Nat

VARIABLES _shutdown,
          owner, depth,   \* mutex_
          lockingFile_,   \* who wrote it last, or NoThread once cleared
          pc,
          locked,         \* scopes of a thread that locked the mutex
          bare            \* scopes of a thread that did not

vars == <<_shutdown, owner, depth, lockingFile_, pc, locked, bare>>

Init ==
  /\ _shutdown = FALSE
  /\ owner = NoThread
  /\ depth = 0
  /\ lockingFile_ = NoThread
  /\ pc = [t \in Thread |-> "run"]
  /\ locked = [t \in Thread |-> 0]
  /\ bare = [t \in Thread |-> 0]

Inside(t) == locked[t] + bare[t] > 0

Goto(t, l) == pc' = [pc EXCEPT ![t] = l]

NoLock == "no lock"

\* Thread::lock(): nobody calls the constructor that sets lock_
waitsFor(t) == NoLock

\* searchLockCycle: from the caller along Thread::lock() and the thread of that lock,
\* until the lock asked for comes up or a thread has none; a walk of one step
checkDeadLock(t) == IF waitsFor(t) = NoLock THEN NoLock ELSE waitsFor(t)

\* LockSafeScope(): if (_shutdown == true) return; a cycle would end the process
OpenScope(t) ==
  /\ pc[t] = "run"
  /\ locked[t] + bare[t] < MaxNest
  /\ IF _shutdown
       THEN /\ bare' = [bare EXCEPT ![t] = @ + 1]
            /\ UNCHANGED pc
       ELSE /\ checkDeadLock(t) = NoLock
            /\ Goto(t, "lock")
            /\ UNCHANGED bare
  /\ UNCHANGED <<_shutdown, owner, depth, lockingFile_, locked>>

\* mutant: the mutex is not waited for
lockAtOnce(t) ==
  /\ pc[t] = "lock"
  /\ owner' = t
  /\ depth' = depth + 1
  /\ Goto(t, "name")
  /\ UNCHANGED <<_shutdown, lockingFile_, locked, bare>>

\* mutex_.lock()
lock(t) ==
  /\ pc[t] = "lock"
  /\ owner \in {NoThread, t}
  /\ owner' = t
  /\ depth' = depth + 1
  /\ Goto(t, "name")
  /\ UNCHANGED <<_shutdown, lockingFile_, locked, bare>>

\* lockingFile_ = fileName; lockingLine_ = lineNo; setThreadId
NameHolder(t) ==
  /\ pc[t] = "name"
  /\ lockingFile_' = t
  /\ locked' = [locked EXCEPT ![t] = @ + 1]
  /\ Goto(t, "run")
  /\ UNCHANGED <<_shutdown, owner, depth, bare>>

\* mutant: the destructor unlocks whenever its scope has a lock_
CloseAnyScope(t) ==
  /\ pc[t] = "run"
  /\ Inside(t)
  /\ Goto(t, "unlock")
  /\ UNCHANGED <<_shutdown, owner, depth, lockingFile_, locked, bare>>

\* ~LockSafeScope(): the innermost scope; if (_shutdown == true) return;
CloseScope(t) ==
  /\ pc[t] = "run"
  /\ IF bare[t] > 0
       THEN /\ bare' = [bare EXCEPT ![t] = @ - 1]
            /\ UNCHANGED <<locked, pc>>
       ELSE /\ locked[t] > 0
            /\ IF _shutdown
                 THEN /\ locked' = [locked EXCEPT ![t] = @ - 1]
                      /\ UNCHANGED pc
                 ELSE /\ Goto(t, "unlock")
                      /\ UNCHANGED locked
            /\ UNCHANGED bare
  /\ UNCHANGED <<_shutdown, owner, depth, lockingFile_>>

\* mutex_.unlock()
unlock(t) ==
  /\ pc[t] = "unlock"
  /\ depth' = depth - 1
  /\ owner' = IF depth = 1 THEN NoThread ELSE owner
  /\ locked' = [locked EXCEPT ![t] = @ - 1]
  /\ Goto(t, "clear")
  /\ UNCHANGED <<_shutdown, lockingFile_, bare>>

\* lockingFile_.clear(); lockingLine_ = INVALID_LINE;
ClearName(t) ==
  /\ pc[t] = "clear"
  /\ lockingFile_' = NoThread
  /\ Goto(t, "run")
  /\ UNCHANGED <<_shutdown, owner, depth, locked, bare>>

\* Terminal::connectProcess after its last attempt
Shutdown ==
  /\ ~_shutdown
  /\ _shutdown' = TRUE
  /\ UNCHANGED <<owner, depth, lockingFile_, pc, locked, bare>>

Next == \/ Shutdown
        \/ \E t \in Thread : \/ OpenScope(t) \/ lock(t) \/ NameHolder(t)
                             \/ CloseScope(t) \/ unlock(t) \/ ClearName(t)

Spec == Init /\ [][Next]_vars
-----------------------------------------------------------------------------
TypeOK ==
  /\ _shutdown \in BOOLEAN
  /\ owner \in Thread \cup {NoThread}
  /\ depth \in Nat
  /\ lockingFile_ \in Thread \cup {NoThread}
  /\ pc \in [Thread -> {"run", "lock", "name", "unlock", "clear"}]
  /\ locked \in [Thread -> Nat]
  /\ bare \in [Thread -> Nat]

(***************************************************************************)
(* Until _shutdown two threads are never inside scopes of the same lock,   *)
(* however the scopes nest.                                                *)
(***************************************************************************)
MutualExclusion ==
  ~_shutdown => \A t, u \in Thread : Inside(t) /\ Inside(u) => t = u

(***************************************************************************)
(* The mutex is unlocked only by the thread that holds it (anything else   *)
(* is undefined), also when _shutdown is raised while scopes are open: no  *)
(* scope that skipped the lock reaches the unlock.                         *)
(***************************************************************************)
UnlockedByOwner == \A t \in Thread : pc[t] = "unlock" => owner = t /\ depth > 0
=============================================================================
