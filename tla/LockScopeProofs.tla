--------------------------- MODULE LockScopeProofs --------------------------
(***************************************************************************)
(* What SAFE_LOCK guarantees, for any number of threads and any nesting.   *)
(*                                                                         *)
(* The mutex counts at least the scopes its owner has open and has locked; *)
(* nobody else has any.  At least, and not exactly: a scope closed after   *)
(* _shutdown leaves its count behind.                                      *)
(***************************************************************************)
EXTENDS LockScope, TLAPS

Entering(t) == IF pc[t] = "name" THEN 1 ELSE 0

\* the scopes of t that the mutex knows of
OwnerCounts ==
  \A t \in Thread :
    IF owner = t THEN depth > 0 /\ depth >= locked[t] + Entering(t)
                 ELSE locked[t] = 0 /\ pc[t] # "name"

UnlockHasScope == \A t \in Thread : pc[t] = "unlock" => locked[t] > 0

BareAfterShutdown == ~_shutdown => \A t \in Thread : bare[t] = 0

IInv == TypeOK /\ OwnerCounts /\ UnlockHasScope /\ BareAfterShutdown

LEMMA InitEstablishes == Init => IInv
<1> SUFFICES ASSUME Init PROVE IInv
    OBVIOUS
<1> USE ThreadAssumption DEF Init
<1>1. TypeOK
      BY DEF TypeOK
<1>2. OwnerCounts /\ UnlockHasScope /\ BareAfterShutdown
  <2> SUFFICES ASSUME NEW t \in Thread
               PROVE  owner # t /\ locked[t] = 0 /\ pc[t] = "run" /\ bare[t] = 0
      BY DEF OwnerCounts, UnlockHasScope, BareAfterShutdown
  <2> QED OBVIOUS
<1> QED BY <1>1, <1>2 DEF IInv

LEMMA NextPreserves == IInv /\ [Next]_vars => IInv'
<1> SUFFICES ASSUME IInv, [Next]_vars PROVE IInv'
    OBVIOUS
<1> USE ThreadAssumption, NestAssumption
        DEF IInv, TypeOK, OwnerCounts, UnlockHasScope, BareAfterShutdown, Entering
<1>1. CASE UNCHANGED vars
      BY <1>1 DEF vars
<1>2. CASE Shutdown
      BY <1>2 DEF Shutdown
<1>3. ASSUME NEW t \in Thread, OpenScope(t) PROVE IInv'
  <2>1. CASE _shutdown
        BY <1>3, <2>1 DEF OpenScope
  <2>2. CASE ~_shutdown
        BY <1>3, <2>2 DEF OpenScope, Goto
  <2> QED BY <2>1, <2>2
<1>4. ASSUME NEW t \in Thread, lock(t) PROVE IInv'
      BY <1>4 DEF lock, Goto
<1>5. ASSUME NEW t \in Thread, NameHolder(t) PROVE IInv'
      BY <1>5 DEF NameHolder, Goto
<1>6. ASSUME NEW t \in Thread, CloseScope(t) PROVE IInv'
  <2>1. CASE bare[t] > 0
        BY <1>6, <2>1 DEF CloseScope
  <2>2. CASE ~(bare[t] > 0) /\ _shutdown
        BY <1>6, <2>2 DEF CloseScope
  <2>3. CASE ~(bare[t] > 0) /\ ~_shutdown
        BY <1>6, <2>3 DEF CloseScope, Goto
  <2> QED BY <2>1, <2>2, <2>3
<1>7. ASSUME NEW t \in Thread, unlock(t) PROVE IInv'
      BY <1>7 DEF unlock, Goto
<1>8. ASSUME NEW t \in Thread, ClearName(t) PROVE IInv'
      BY <1>8 DEF ClearName, Goto
<1> QED BY <1>1, <1>2, <1>3, <1>4, <1>5, <1>6, <1>7, <1>8 DEF Next

LEMMA Inductive == Spec => []IInv
BY InitEstablishes, NextPreserves, PTL DEF Spec

(***************************************************************************)
(* Until _shutdown at most one thread is inside scopes of a lock           *)
(* (LockSafeScope, Lock.cpp lines 90 to 131).                              *)
(***************************************************************************)
THEOREM LockExcludes == Spec => []MutualExclusion
<1>1. IInv => MutualExclusion
  <2> SUFFICES ASSUME IInv, ~_shutdown, NEW t \in Thread, NEW u \in Thread,
                      Inside(t), Inside(u)
               PROVE  t = u
      BY DEF MutualExclusion
  <2>1. locked[t] > 0 /\ locked[u] > 0
        BY DEF IInv, TypeOK, BareAfterShutdown, Inside
  <2>2. owner = t /\ owner = u
        BY <2>1 DEF IInv, OwnerCounts
  <2> QED BY <2>2
<1> QED BY <1>1, Inductive, PTL

(***************************************************************************)
(* Only the holder unlocks the mutex, _shutdown or not (Lock.cpp lines 119 *)
(* to 131): std::recursive_mutex::unlock is never undefined here.          *)
(***************************************************************************)
THEOREM UnlockIsDefined == Spec => []UnlockedByOwner
<1>1. IInv => UnlockedByOwner
      BY DEF IInv, TypeOK, OwnerCounts, UnlockHasScope, UnlockedByOwner
<1> QED BY <1>1, Inductive, PTL
=============================================================================
