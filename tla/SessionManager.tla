--------------------------- MODULE SessionManager ---------------------------
(***************************************************************************)
(* StaticLib1/SessionManager.cpp: the list of connected sessions, its      *)
(* counter and its id seed.                                                *)
(*                                                                         *)
(* Sessions are known by address.  addSession and closeSession compare     *)
(* addresses only and run wholly under lock_, so each is one step; they    *)
(* are called with whatever pointer a thread still has, also with one      *)
(* whose session is gone and whose memory may hold a newer session.        *)
(* closeSession deletes the session inside the lock, and ~Session calls    *)
(* closeSession again: the nested call is part of the step.                *)
(***************************************************************************)
EXTENDS Naturals, FiniteSets

CONSTANTS Addr,           \* addresses the allocator may give a session
          Null,
          MaxConnection,  \* init(): SESSION_CAPACITY unless configured
          MaxSeed         \* bound: the seed stops here

ASSUME NullAssumption == Null \notin Addr
ASSUME CapacityAssumption == MaxConnection \in Nat /\ MaxSeed \in Nat

VARIABLES live,           \* allocated sessions
          sessionList_,   \* a list in the code, in the order of the ids
          sessionCount_,
          sessionSeed_,
          id_             \* Session::id_, whatever is in memory before setId

smVars == <<live, sessionList_, sessionCount_, sessionSeed_, id_>>

SMInit ==
  /\ live = {}
  /\ sessionList_ = {}
  /\ sessionCount_ = 0
  /\ sessionSeed_ = 1
  /\ id_ = [a \in Addr |-> 0]

\* new IOCPSession(): any free address
NewSession(a) ==
  /\ a \in Addr \ live
  /\ live' = live \cup {a}
  /\ UNCHANGED <<sessionList_, sessionCount_, sessionSeed_, id_>>

\* mutant: only a duplicate is refused
RefusesDuplicate(a) == a \in sessionList_

Refuses(a) == \/ a \in sessionList_
              \/ sessionCount_ > MaxConnection

\* mutant: the seed is not advanced
reuseSessionId(a) ==
  /\ id_' = [id_ EXCEPT ![a] = sessionSeed_]
  /\ UNCHANGED sessionSeed_

createSessionId(a) ==
  /\ id_' = [id_ EXCEPT ![a] = sessionSeed_]
  /\ sessionSeed_' = sessionSeed_ + 1

addSession(a) ==
  /\ a \in live
  /\ ~Refuses(a)
  /\ sessionSeed_ < MaxSeed
  /\ createSessionId(a)
  /\ sessionList_' = sessionList_ \cup {a}
  /\ sessionCount_' = sessionCount_ + 1
  /\ UNCHANGED live

\* mutants: the counter is forgotten; the list is forgotten
DropUncounted(a) ==
  /\ sessionList_' = sessionList_ \ {a}
  /\ live' = live \ {a}
  /\ UNCHANGED <<sessionCount_, sessionSeed_, id_>>

DropStillListed(a) ==
  /\ sessionCount_' = sessionCount_ - 1
  /\ live' = live \ {a}
  /\ UNCHANGED <<sessionList_, sessionSeed_, id_>>

\* list.remove, --sessionCount_, delete: the nested call finds nothing to do
Drop(a) ==
  /\ sessionList_' = sessionList_ \ {a}
  /\ sessionCount_' = sessionCount_ - 1
  /\ live' = live \ {a}
  /\ UNCHANGED <<sessionSeed_, id_>>

\* any pointer may be passed; one that is not in the list changes nothing
closeSession(a) ==
  \/ a \in sessionList_ /\ Drop(a)
  \/ a \notin sessionList_ /\ UNCHANGED smVars

\* the linger option set first is the network's affair
forceCloseSession(a) == closeSession(a)

\* at the end of the process: onClose of every session in a copy of the list
release ==
  /\ sessionList_' = {}
  /\ sessionCount_' = sessionCount_ - Cardinality(sessionList_)
  /\ live' = live \ sessionList_
  /\ UNCHANGED <<sessionSeed_, id_>>

\* SAFE_DELETE of a session that was never added, or was already taken out:
\* its destructor's closeSession finds nothing
DeleteUnlisted(a) ==
  /\ a \in live \ sessionList_
  /\ live' = live \ {a}
  /\ UNCHANGED <<sessionList_, sessionCount_, sessionSeed_, id_>>

\* session(id): the first in the list with that id, or Null
session(id) ==
  LET hits == {a \in sessionList_ : id_[a] = id}
  IN  IF hits = {} \/ \E a \in sessionList_ :
                         id_[a] >= sessionSeed_ /\ \A h \in hits : id_[a] <= id_[h]
        THEN Null
        ELSE CHOOSE a \in hits : TRUE

SMNext == \/ \E a \in Addr : \/ NewSession(a) \/ addSession(a)
                             \/ closeSession(a) \/ forceCloseSession(a)
                             \/ DeleteUnlisted(a)
          \/ release

SMSpec == SMInit /\ [][SMNext]_smVars
-----------------------------------------------------------------------------
SMTypeOK ==
  /\ live \subseteq Addr
  /\ sessionList_ \subseteq Addr
  /\ sessionCount_ \in Nat
  /\ sessionSeed_ \in Nat
  /\ id_ \in [Addr -> Nat]

(***************************************************************************)
(* The counter is the length of the list, through refused additions,       *)
(* closes with stale pointers and the nested close of the destructor       *)
(* (SessionManager.cpp lines 63 and 83).                                   *)
(***************************************************************************)
CountIsExact == sessionCount_ = Cardinality(sessionList_)

(***************************************************************************)
(* Every listed session is allocated memory: session(id) and the broadcast *)
(* loops never find a deleted one in the list.                             *)
(***************************************************************************)
ListedAreLive == sessionList_ \subseteq live

(***************************************************************************)
(* No two listed sessions share an id, and session(id) finds exactly the   *)
(* listed session of that id: its early exit for an id beyond the seed     *)
(* (line 115) never hides one.                                             *)
(***************************************************************************)
LookupFinds == \A a \in sessionList_ : session(id_[a]) = a

(***************************************************************************)
(* Admission stops at one more than maxConnection_: the test before an     *)
(* addition is count > maxConnection_ (line 55).                           *)
(***************************************************************************)
AdmissionBound == sessionCount_ <= MaxConnection + 1

(***************************************************************************)
(* An id, once given, never comes to name another session: a session that  *)
(* enters the list has an id no session had before, and listed sessions    *)
(* keep theirs.                                                            *)
(***************************************************************************)
IdsAreFresh ==
  [][/\ sessionSeed_' >= sessionSeed_
     /\ \A a \in sessionList_' :
          IF a \in sessionList_ THEN id_'[a] = id_[a] ELSE id_'[a] = sessionSeed_
     /\ \A a \in sessionList_ : id_[a] < sessionSeed_]_smVars
=============================================================================
