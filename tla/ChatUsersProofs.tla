--------------------------- MODULE ChatUsersProofs ---------------------------
(***************************************************************************)
(* SessionManager, for every set of addresses and every capacity: the      *)
(* counter is exact, admission is bounded, a lookup finds what is listed   *)
(* and ids are never given twice.  What carries the proof is that every    *)
(* listed id lies below the seed, so the id an addition takes from the     *)
(* seed is a new one.                                                      *)
(*                                                                         *)
(* ChatUsers, for every number of addresses, contents threads and packets: *)
(* what the chatting server does to the session list is what               *)
(* SessionManager allows, and nobody who keeps to the protocol speaks      *)
(* under another's name.  What carries the second proof is that a listed   *)
(* session's id is the number of its client, and that userPool_ keeps a    *)
(* proper registration under that very number.                             *)
(***************************************************************************)
EXTENDS ChatUsers, FiniteSetTheorems, TLAPS

IdsBelowSeed == \A a \in sessionList_ : id_[a] < sessionSeed_

IdsDistinct == \A a, b \in sessionList_ : id_[a] = id_[b] => a = b

SMInv == /\ SMTypeOK
         /\ IsFiniteSet(sessionList_)
         /\ CountIsExact
         /\ ListedAreLive
         /\ AdmissionBound
         /\ IdsBelowSeed
         /\ IdsDistinct

(***************************************************************************)
(* The invariant holds of the empty manager.                               *)
(***************************************************************************)
LEMMA SMInitInv == SMInit => SMInv
<1> SUFFICES ASSUME SMInit PROVE SMInv
  OBVIOUS
<1>1. IsFiniteSet({}) /\ Cardinality({}) = 0
  BY FS_EmptySet
<1> QED
  BY <1>1, CapacityAssumption
  DEF SMInit, SMInv, SMTypeOK, CountIsExact, ListedAreLive, AdmissionBound,
      IdsBelowSeed, IdsDistinct

(***************************************************************************)
(* Every call of the manager keeps it.                                     *)
(***************************************************************************)
LEMMA SMStepInv == SMInv /\ [SMNext]_smVars => SMInv'
<1> SUFFICES ASSUME SMInv, [SMNext]_smVars PROVE SMInv'
  OBVIOUS
<1> USE CapacityAssumption
<1>0. CASE UNCHANGED smVars
  BY <1>0 DEF SMInv, smVars, SMTypeOK, CountIsExact, ListedAreLive, AdmissionBound,
     IdsBelowSeed, IdsDistinct
<1>1. ASSUME NEW a \in Addr, NewSession(a) PROVE SMInv'
  BY <1>1 DEF NewSession, SMInv, SMTypeOK, CountIsExact, ListedAreLive,
     AdmissionBound, IdsBelowSeed, IdsDistinct
<1>2. ASSUME NEW a \in Addr, addSession(a) PROVE SMInv'
  <2>1. a \notin sessionList_ /\ sessionCount_ <= MaxConnection
    BY <1>2 DEF addSession, Refuses, SMInv, SMTypeOK
  <2>2. /\ IsFiniteSet(sessionList_ \cup {a})
        /\ Cardinality(sessionList_ \cup {a}) = Cardinality(sessionList_) + 1
    BY <2>1, FS_AddElement DEF SMInv
  <2>3. SMTypeOK' /\ IsFiniteSet(sessionList_)' /\ CountIsExact' /\ AdmissionBound'
    BY <1>2, <2>1, <2>2 DEF addSession, createSessionId, SMInv, SMTypeOK,
       CountIsExact, AdmissionBound
  <2>4. ListedAreLive'
    BY <1>2 DEF addSession, SMInv, ListedAreLive
  <2>5. IdsBelowSeed' /\ IdsDistinct'
    BY <1>2, <2>1 DEF addSession, createSessionId, SMInv, SMTypeOK, IdsBelowSeed,
       IdsDistinct
  <2> QED
    BY <2>3, <2>4, <2>5 DEF SMInv
<1>3. ASSUME NEW a \in sessionList_, Drop(a) PROVE SMInv'
  <2>1. /\ IsFiniteSet(sessionList_ \ {a})
        /\ Cardinality(sessionList_ \ {a}) = Cardinality(sessionList_) - 1
    BY <1>3, FS_RemoveElement DEF SMInv
  <2>2. Cardinality(sessionList_ \ {a}) \in Nat
    BY <2>1, FS_CardinalityType
  <2> QED
    BY <1>3, <2>1, <2>2 DEF Drop, SMInv, SMTypeOK, CountIsExact, ListedAreLive,
       AdmissionBound, IdsBelowSeed, IdsDistinct
<1>4. ASSUME NEW a \in Addr, closeSession(a) PROVE SMInv'
  BY <1>0, <1>3, <1>4 DEF closeSession
<1>5. ASSUME NEW a \in Addr, DeleteUnlisted(a) PROVE SMInv'
  BY <1>5 DEF DeleteUnlisted, SMInv, SMTypeOK, CountIsExact, ListedAreLive,
     AdmissionBound, IdsBelowSeed, IdsDistinct
<1>6. CASE release
  <2>1. IsFiniteSet({}) /\ Cardinality({}) = 0
    BY FS_EmptySet
  <2>2. sessionList_' = {} /\ sessionCount_' = 0
    <3>1. sessionCount_ = Cardinality(sessionList_) /\ sessionCount_ \in Nat
      BY DEF SMInv, CountIsExact, SMTypeOK
    <3> QED
      BY <1>6, <3>1 DEF release
  <2> QED
    BY <1>6, <2>1, <2>2 DEF release, SMInv, SMTypeOK, CountIsExact, ListedAreLive,
       AdmissionBound, IdsBelowSeed, IdsDistinct
<1> QED
  BY <1>0, <1>1, <1>2, <1>4, <1>5, <1>6 DEF SMNext, forceCloseSession

LEMMA ManagerInvariant == SMSpec => []SMInv
BY SMInitInv, SMStepInv, PTL DEF SMSpec

(***************************************************************************)
(* sessionCount_ always is the length of sessionList_ (addSession,         *)
(* closeSession and the destructor's nested call).                         *)
(***************************************************************************)
THEOREM CounterExact == SMSpec => []CountIsExact
<1>1. SMInv => CountIsExact
  BY DEF SMInv
<1> QED
  BY <1>1, ManagerInvariant, PTL

(***************************************************************************)
(* What is listed is allocated: closeSession deletes nothing it leaves in  *)
(* the list.                                                               *)
(***************************************************************************)
THEOREM ListIsLive == SMSpec => []ListedAreLive
<1>1. SMInv => ListedAreLive
  BY DEF SMInv
<1> QED
  BY <1>1, ManagerInvariant, PTL

(***************************************************************************)
(* At most maxConnection_ + 1 sessions are ever listed.                    *)
(***************************************************************************)
THEOREM AdmissionIsBounded == SMSpec => []AdmissionBound
<1>1. SMInv => AdmissionBound
  BY DEF SMInv
<1> QED
  BY <1>1, ManagerInvariant, PTL

(***************************************************************************)
(* session(id) returns the one listed session of that id: the early exit   *)
(* of its loop never fires.                                                *)
(***************************************************************************)
THEOREM LookupIsComplete == SMSpec => []LookupFinds
<1>1. ASSUME SMInv PROVE LookupFinds
  <2> SUFFICES ASSUME NEW a \in sessionList_ PROVE session(id_[a]) = a
    BY DEF LookupFinds
  <2> DEFINE hits == {b \in sessionList_ : id_[b] = id_[a]}
  <2>1. hits = {a}
    BY <1>1 DEF SMInv, IdsDistinct
  <2>2. \A b \in sessionList_ : ~(id_[b] >= sessionSeed_)
    BY <1>1 DEF SMInv, SMTypeOK, IdsBelowSeed
  <2>3. (CHOOSE b \in hits : TRUE) = a
    BY <2>1
  <2>4. session(id_[a]) = CHOOSE b \in hits : TRUE
    BY <2>1, <2>2 DEF session
  <2> QED
    BY <2>3, <2>4
<1> QED
  BY <1>1, ManagerInvariant, PTL

(***************************************************************************)
(* No id is given twice, and no listed session changes its id.             *)
(***************************************************************************)
THEOREM FreshIds == SMSpec => IdsAreFresh
<1>1. SMInv /\ [SMNext]_smVars =>
        [/\ sessionSeed_' >= sessionSeed_
         /\ \A a \in sessionList_' :
              IF a \in sessionList_ THEN id_'[a] = id_[a] ELSE id_'[a] = sessionSeed_
         /\ \A a \in sessionList_ : id_[a] < sessionSeed_]_smVars
  <2> SUFFICES ASSUME SMInv, [SMNext]_smVars, smVars' # smVars
               PROVE  /\ sessionSeed_' >= sessionSeed_
                      /\ \A a \in sessionList_' :
                           IF a \in sessionList_ THEN id_'[a] = id_[a]
                                                 ELSE id_'[a] = sessionSeed_
                      /\ \A a \in sessionList_ : id_[a] < sessionSeed_
    OBVIOUS
  <2>1. \A a \in sessionList_ : id_[a] < sessionSeed_
    BY DEF SMInv, IdsBelowSeed
  <2>2. CASE release
    BY <2>1, <2>2 DEF release, SMInv, SMTypeOK
  <2>3. ASSUME NEW a \in Addr,
               \/ NewSession(a) \/ addSession(a)
               \/ (a \in sessionList_ /\ Drop(a)) \/ DeleteUnlisted(a)
        PROVE  /\ sessionSeed_' >= sessionSeed_
               /\ \A b \in sessionList_' :
                    IF b \in sessionList_ THEN id_'[b] = id_[b]
                                          ELSE id_'[b] = sessionSeed_
    BY <2>3 DEF NewSession, addSession, createSessionId, Refuses, Drop,
       DeleteUnlisted, SMInv, SMTypeOK
  <2> QED
    BY <2>1, <2>2, <2>3 DEF SMNext, forceCloseSession, closeSession
<1> QED
  BY <1>1, ManagerInvariant, PTL DEF SMSpec, IdsAreFresh

-----------------------------------------------------------------------------
(***************************************************************************)
(* The chatting server.                                                    *)
(***************************************************************************)
Package == [type : Types, session_ : Addr, by : Nat]

User == [name : Nat, proper : BOOLEAN]

IdIsClient == /\ sessionSeed_ = clients + 1
              /\ \A a \in sessionList_ : id_[a] = client[a]

\* what is on its way was sent by a client that had been accepted
Sent(p) == p \in Package /\ p.by <= clients

RegisteredProperly ==
  \A i \in DOMAIN userPool_ : /\ userPool_[i] \in User
                              /\ userPool_[i].proper => userPool_[i].name = i

AboutToSay ==
  \A t \in Thread :
    pc[t] = "say" => /\ user[t] \in User
                     /\ Proper(t) /\ user[t].proper => user[t].name = pkg[t].by

ChatType == /\ clients \in Nat
            /\ client \in [Addr -> Nat]
            /\ pc \in [Thread -> {"idle", "at", "insert", "say", "close", "exit"}]
            /\ DOMAIN pkg = Thread /\ DOMAIN user = Thread
            /\ queue \in Seq(Package)

Arrivals == /\ \A i \in 1..Len(queue) : Sent(queue[i])
            /\ \A t \in Thread : pc[t] # "idle" => Sent(pkg[t])

ChatInv == /\ SMInv
           /\ ChatType
           /\ Arrivals
           /\ IdIsClient
           /\ RegisteredProperly
           /\ AboutToSay
           /\ SpeaksUnderOwnName

-----------------------------------------------------------------------------
(***************************************************************************)
(* Every step of the chatting server is one of the manager's, or leaves    *)
(* the manager alone.                                                      *)
(***************************************************************************)
LEMMA StepIsManagers == ChatType /\ Arrivals /\ [Next]_vars => [SMNext]_smVars
<1> SUFFICES ASSUME ChatType, Arrivals, Next PROVE [SMNext]_smVars
  BY DEF vars, smVars
<1>1. ASSUME NEW a \in Addr, onAccept(a) PROVE [SMNext]_smVars
  BY <1>1 DEF onAccept, NewIOCPSession, AddAccepted, DeleteAccepted, PortCreated,
     PortFails, SMNext
<1>2. ASSUME NEW a \in Addr, PacketArrives(a) PROVE [SMNext]_smVars
  BY <1>2 DEF PacketArrives
<1>3. ASSUME NEW a \in Addr, CloseByClient(a) PROVE [SMNext]_smVars
  BY <1>3 DEF CloseByClient, SMNext
<1>4. ASSUME NEW t \in Thread, execute(t) PROVE [SMNext]_smVars
  <2>1. CASE TakePackage(t) \/ FindUser(t) \/ InsertUser(t) \/ Say(t)
    BY <2>1 DEF TakePackage, FindUser, InsertUser, Say
  <2>2. CASE CloseSession(t) \/ C_REQ_EXIT(t)
    <3>1. session_(t) \in Addr
      BY <2>2 DEF CloseSession, C_REQ_EXIT, At, Arrivals, Sent, Package, session_
    <3> QED
      BY <2>2, <3>1 DEF CloseSession, C_REQ_EXIT, forceCloseSession, SMNext
  <2> QED
    BY <1>4, <2>1, <2>2 DEF execute
<1>5. CASE Release
  BY <1>5 DEF Release, SMNext
<1> QED
  BY <1>1, <1>2, <1>3, <1>4, <1>5 DEF Next

LEMMA ChatInitInv == Init => ChatInv
<1> SUFFICES ASSUME Init PROVE ChatInv
  OBVIOUS
<1>1. SMInv
  BY SMInitInv DEF Init
<1>2. queue = <<>> /\ userPool_ = <<>> /\ DOMAIN userPool_ = {}
  BY DEF Init
<1> QED
  BY <1>1, <1>2 DEF Init, SMInit, ChatInv, ChatType, Arrivals, IdIsClient,
     RegisteredProperly, AboutToSay, SpeaksUnderOwnName

(***************************************************************************)
(* What an action that handles no package does to what the invariant says  *)
(* of users: a session that is listed afterwards and was not listed before *)
(* belongs to a client that has sent nothing yet.                          *)
(***************************************************************************)
Newer == \A a \in Addr : a \in sessionList_' =>
           \/ a \in sessionList_ /\ client'[a] = client[a]
           \/ client'[a] = clients + 1

LEMMA ServerStep ==
  ASSUME ChatInv, Newer, SMInv', ChatType', Arrivals', IdIsClient',
         UNCHANGED <<userPool_, threadVars, answers>>
  PROVE  ChatInv'
<1>1. RegisteredProperly' /\ SpeaksUnderOwnName'
  BY DEF ChatInv, RegisteredProperly, SpeaksUnderOwnName
<1>2. ASSUME NEW t \in Thread, pc[t] = "say", Proper(t)' PROVE Proper(t)
  BY <1>2 DEF ChatInv, ChatType, Arrivals, Sent, Package, Proper, session_, Newer,
     threadVars
<1>3. AboutToSay'
  BY <1>2 DEF ChatInv, AboutToSay, Proper, threadVars
<1> QED
  BY <1>1, <1>3 DEF ChatInv

LEMMA ChatStepInv == ChatInv /\ [Next]_vars => ChatInv'
<1> SUFFICES ASSUME ChatInv, [Next]_vars PROVE ChatInv'
  OBVIOUS
<1>0. SMInv'
  BY StepIsManagers, SMStepInv DEF ChatInv
<1>1. CASE UNCHANGED vars
  BY <1>0, <1>1 DEF vars, smVars, serverVars, threadVars, ChatInv, ChatType, Arrivals, Sent,
     IdIsClient, RegisteredProperly, AboutToSay, Proper, session_, SpeaksUnderOwnName
<1>2. ASSUME NEW a \in Addr, onAccept(a) PROVE ChatInv'
  <2>1. CASE NewIOCPSession(a) \/ DeleteAccepted(a) \/ PortCreated(a) \/ PortFails(a)
    <3>1. UNCHANGED <<clients, client, sent, queue, userPool_, threadVars, answers>>
      BY <2>1 DEF NewIOCPSession, DeleteAccepted, PortCreated, PortFails
    <3>2. /\ sessionList_' \subseteq sessionList_
          /\ UNCHANGED <<id_, sessionSeed_>>
      BY <2>1 DEF NewIOCPSession, DeleteAccepted, PortCreated, PortFails, NewSession,
         DeleteUnlisted, closeSession, Drop, smVars
    <3>3. Newer /\ ChatType' /\ Arrivals' /\ IdIsClient'
      BY <3>1, <3>2 DEF ChatInv, Newer, ChatType, Arrivals, Sent, IdIsClient, threadVars
    <3> QED
      BY <1>0, <3>1, <3>3, ServerStep
  <2>2. CASE AddAccepted(a)
    <3>1. CASE Refuses(a) /\ UNCHANGED <<smVars, clients, client>>
      <4>1. UNCHANGED <<queue, userPool_, threadVars, answers>>
        BY <2>2 DEF AddAccepted
      <4>2. Newer /\ ChatType' /\ Arrivals' /\ IdIsClient'
        BY <3>1, <4>1 DEF ChatInv, Newer, ChatType, Arrivals, Sent, IdIsClient,
           threadVars, smVars
      <4> QED
        BY <1>0, <4>1, <4>2, ServerStep
    <3>2. CASE /\ addSession(a)
               /\ clients' = clients + 1
               /\ client' = [client EXCEPT ![a] = clients + 1]
      <4>1. UNCHANGED <<queue, userPool_, threadVars, answers>>
        BY <2>2 DEF AddAccepted
      <4>2. Newer /\ ChatType'
        BY <3>2, <4>1 DEF ChatInv, Newer, ChatType, threadVars, addSession
      <4>3. Arrivals'
        BY <3>2, <4>1 DEF ChatInv, ChatType, Arrivals, Sent, Package, threadVars
      <4>4. IdIsClient'
        BY <3>2 DEF ChatInv, ChatType, SMInv, SMTypeOK, IdIsClient, addSession,
           createSessionId, Refuses
      <4> QED
        BY <1>0, <4>1, <4>2, <4>3, <4>4, ServerStep
    <3> QED
      BY <2>2, <3>1, <3>2 DEF AddAccepted
  <2> QED
    BY <1>2, <2>1, <2>2 DEF onAccept
<1>3. ASSUME NEW a \in Addr, PacketArrives(a) PROVE ChatInv'
  <2>1. PICK type \in Types :
          queue' = Append(queue, [type |-> type, session_ |-> a, by |-> client[a]])
    BY <1>3 DEF PacketArrives
  <2>2. UNCHANGED <<smVars, clients, client, userPool_, threadVars, answers>>
    BY <1>3 DEF PacketArrives, serverVars
  <2>3. client[a] <= clients
    BY <1>3 DEF PacketArrives, Connected, ChatInv, IdIsClient, ChatType, SMInv, SMTypeOK,
       IdsBelowSeed
  <2>4. Newer /\ ChatType' /\ IdIsClient'
    BY <2>1, <2>2 DEF ChatInv, ChatType, Package, Newer, IdIsClient, smVars, threadVars
  <2>5. Arrivals'
    BY <2>1, <2>2, <2>3 DEF ChatInv, ChatType, Arrivals, Sent, Package, threadVars
  <2> QED
    BY <1>0, <2>2, <2>4, <2>5, ServerStep
<1>4. ASSUME NEW a \in Addr, CloseByClient(a) PROVE ChatInv'
  <2>1. /\ UNCHANGED <<clients, client, queue, userPool_, threadVars, answers>>
        /\ sessionList_' \subseteq sessionList_
        /\ UNCHANGED <<id_, sessionSeed_>>
    BY <1>4 DEF CloseByClient, closeSession, Drop, smVars, serverVars
  <2>2. Newer /\ ChatType' /\ Arrivals' /\ IdIsClient'
    BY <2>1 DEF ChatInv, Newer, ChatType, Arrivals, Sent, IdIsClient, threadVars
  <2> QED
    BY <1>0, <2>1, <2>2, ServerStep
<1>5. CASE Release
  <2>1. /\ UNCHANGED <<clients, client, queue, userPool_, threadVars, answers>>
        /\ sessionList_' = {}
        /\ UNCHANGED <<id_, sessionSeed_>>
    BY <1>5 DEF Release, release, serverVars
  <2>2. Newer /\ ChatType' /\ Arrivals' /\ IdIsClient'
    BY <2>1 DEF ChatInv, Newer, ChatType, Arrivals, Sent, IdIsClient, threadVars
  <2> QED
    BY <1>0, <2>1, <2>2, ServerStep
<1>6. ASSUME NEW t \in Thread, execute(t) PROVE ChatInv'
  <2>1. UNCHANGED <<clients, client>>
    BY <1>6 DEF execute, TakePackage, FindUser, CloseSession, C_REQ_EXIT, InsertUser, Say,
       serverVars
  <2>2. CASE TakePackage(t)
    <3>1. Sent(Head(queue)) /\ \A i \in 1..Len(Tail(queue)) : Sent(Tail(queue)[i])
      BY <2>2 DEF TakePackage, ChatInv, ChatType, Arrivals
    <3>2. ChatType' /\ Arrivals'
      BY <2>1, <2>2, <3>1 DEF TakePackage, ChatInv, ChatType, Arrivals, Sent
    <3>3. IdIsClient' /\ RegisteredProperly' /\ SpeaksUnderOwnName'
      BY <2>1, <2>2 DEF TakePackage, ChatInv, IdIsClient, RegisteredProperly,
         SpeaksUnderOwnName, smVars
    <3>4. AboutToSay'
      BY <2>1, <2>2 DEF TakePackage, ChatInv, ChatType, AboutToSay, Proper, session_, smVars
    <3> QED
      BY <1>0, <3>2, <3>3, <3>4 DEF ChatInv
  <2>3. CASE FindUser(t)
    <3>1. PICK id \in idsRead(t) :
            /\ user' = [user EXCEPT ![t] = UserAt(id)]
            /\ pc' = [pc EXCEPT ![t] =
                        CASE pkg[t].type = "C_REQ_CHATTING" /\ UserAt(id) # Null -> "say"
                          [] pkg[t].type # "C_REQ_CHATTING" /\ ~(UserAt(id) # Null) -> "insert"
                          [] OTHER -> "close"]
      BY <2>3 DEF FindUser
    <3>2. UNCHANGED <<smVars, clients, client, sent, queue, userPool_, pkg, answers>>
      BY <2>3 DEF FindUser, serverVars
    <3>3. pc[t] = "at" /\ Sent(pkg[t])
      BY <2>3 DEF FindUser, At, ChatInv, Arrivals
    <3>4. ChatType' /\ Arrivals'
      BY <3>1, <3>2, <3>3 DEF ChatInv, ChatType, Arrivals, Sent
    <3>5. IdIsClient' /\ RegisteredProperly' /\ SpeaksUnderOwnName'
      BY <3>2 DEF ChatInv, IdIsClient, RegisteredProperly, SpeaksUnderOwnName, smVars
    <3>6. ASSUME pc'[t] = "say"
          PROVE  /\ user'[t] \in User
                 /\ Proper(t) /\ user'[t].proper => user'[t].name = pkg[t].by
      <4>1. UserAt(id) # Null
        BY <3>1, <3>6 DEF ChatInv, ChatType
      <4>2. id \in DOMAIN userPool_ /\ user'[t] = userPool_[id]
        BY <3>1, <4>1 DEF UserAt, ChatInv, ChatType
      <4>3. user'[t] \in User /\ (user'[t].proper => user'[t].name = id)
        BY <4>2 DEF ChatInv, RegisteredProperly
      <4>4. Proper(t) => id = pkg[t].by
        BY <3>3 DEF Proper, idsRead, ChatInv, SMInv, ListedAreLive, IdIsClient
      <4> QED
        BY <4>3, <4>4
    <3>7. AboutToSay'
      BY <3>1, <3>2, <3>6 DEF ChatInv, ChatType, AboutToSay, Proper, session_, smVars
    <3> QED
      BY <1>0, <3>4, <3>5, <3>7 DEF ChatInv
  <2>4. CASE CloseSession(t) \/ C_REQ_EXIT(t)
    <3>1. /\ UNCHANGED <<clients, client, queue, userPool_, answers>>
          /\ sessionList_' \subseteq sessionList_
          /\ UNCHANGED <<id_, sessionSeed_>>
          /\ Finish(t)
      BY <2>4 DEF CloseSession, C_REQ_EXIT, forceCloseSession, closeSession, Drop, smVars,
         serverVars
    <3>2. ChatType' /\ Arrivals'
      BY <3>1 DEF Finish, ChatInv, ChatType, Arrivals, Sent
    <3>3. IdIsClient' /\ RegisteredProperly' /\ SpeaksUnderOwnName'
      BY <3>1 DEF ChatInv, IdIsClient, RegisteredProperly, SpeaksUnderOwnName
    <3>4. AboutToSay'
      BY <3>1 DEF Finish, ChatInv, ChatType, AboutToSay, Proper, session_
    <3> QED
      BY <1>0, <3>2, <3>3, <3>4 DEF ChatInv
  <2>5. CASE InsertUser(t)
    <3>1. PICK id \in idsRead(t) :
            userPool_' = [i \in DOMAIN userPool_ \cup {id} |->
                            IF i \in DOMAIN userPool_ THEN userPool_[i] ELSE NewUser(t)]
      BY <2>5 DEF InsertUser
    <3>2. UNCHANGED <<smVars, clients, client, queue, answers>> /\ Finish(t)
      BY <2>5 DEF InsertUser, serverVars
    <3>3. Sent(pkg[t])
      BY <2>5 DEF InsertUser, At, ChatInv, Arrivals
    <3>4. NewUser(t) \in User /\ (Proper(t) => id = pkg[t].by)
      BY <3>3 DEF NewUser, User, Sent, Package, Proper, idsRead, ChatInv, SMInv,
         ListedAreLive, IdIsClient
    <3>5. RegisteredProperly'
      BY <3>1, <3>4 DEF RegisteredProperly, ChatInv, NewUser
    <3>6. ChatType' /\ Arrivals'
      BY <3>2 DEF Finish, ChatInv, ChatType, Arrivals, Sent
    <3>7. IdIsClient' /\ SpeaksUnderOwnName'
      BY <3>2 DEF ChatInv, IdIsClient, SpeaksUnderOwnName, smVars
    <3>8. AboutToSay'
      BY <3>2 DEF Finish, ChatInv, ChatType, AboutToSay, Proper, session_, smVars
    <3> QED
      BY <1>0, <3>5, <3>6, <3>7, <3>8 DEF ChatInv
  <2>6. CASE Say(t)
    <3>1. /\ UNCHANGED <<smVars, clients, client, queue, userPool_>> /\ Finish(t)
          /\ answers' = answers \cup {[by |-> pkg[t].by, name |-> user[t].name,
                                       proper |-> Proper(t) /\ user[t].proper]}
      BY <2>6 DEF Say, serverVars
    <3>2. Proper(t) /\ user[t].proper => user[t].name = pkg[t].by
      BY <2>6 DEF Say, At, ChatInv, AboutToSay
    <3>3. SpeaksUnderOwnName'
      <4> SUFFICES ASSUME NEW m \in answers', m.proper PROVE m.name = m.by
        BY DEF SpeaksUnderOwnName
      <4>1. CASE m \in answers
        BY <4>1 DEF ChatInv, SpeaksUnderOwnName
      <4>2. CASE m = [by |-> pkg[t].by, name |-> user[t].name,
                      proper |-> Proper(t) /\ user[t].proper]
        <5>1. /\ m.by = pkg[t].by /\ m.name = user[t].name
              /\ m.proper = (Proper(t) /\ user[t].proper)
          BY <4>2
        <5>2. Proper(t) /\ user[t].proper
          BY <5>1, Zenon
        <5> QED
          BY <3>2, <5>1, <5>2
      <4> QED
        BY <3>1, <4>1, <4>2
    <3>4. ChatType' /\ Arrivals'
      BY <3>1 DEF Finish, ChatInv, ChatType, Arrivals, Sent
    <3>5. IdIsClient' /\ RegisteredProperly'
      BY <3>1 DEF ChatInv, IdIsClient, RegisteredProperly, smVars
    <3>6. AboutToSay'
      BY <3>1 DEF Finish, ChatInv, ChatType, AboutToSay, Proper, session_, smVars
    <3> QED
      BY <1>0, <3>3, <3>4, <3>5, <3>6 DEF ChatInv
  <2> QED
    BY <1>6, <2>2, <2>3, <2>4, <2>5, <2>6 DEF execute
<1> QED
  BY <1>1, <1>2, <1>3, <1>4, <1>5, <1>6 DEF Next

LEMMA ChatInvariant == Spec => []ChatInv
BY ChatInitInv, ChatStepInv, PTL DEF Spec

(***************************************************************************)
(* The chatting server uses the session list as SessionManager allows, so  *)
(* all that is proved of the list holds in it.                             *)
(***************************************************************************)
THEOREM UsesSessionManager == Spec => SMSpec
<1>1. Init => SMInit
  BY DEF Init
<1>2. ChatInv /\ [Next]_vars => [SMNext]_smVars
  BY StepIsManagers DEF ChatInv
<1> QED
  BY <1>1, <1>2, ChatInvariant, PTL DEF Spec, SMSpec

(***************************************************************************)
(* A client's words go out under the name it has registered, however       *)
(* sessions are closed and their memory is used again: C_REQ_CHATTING      *)
(* looks the name up under an id that was never given before.              *)
(***************************************************************************)
THEOREM NamesAreOwn == Spec => []SpeaksUnderOwnName
<1>1. ChatInv => SpeaksUnderOwnName
  BY DEF ChatInv
<1> QED
  BY <1>1, ChatInvariant, PTL
=============================================================================
