------------------------------ MODULE ChatUsers ------------------------------
(***************************************************************************)
(* ChattingServer: the users who chat, on top of the session list.         *)
(* IOCPServer::onAccept makes sessions, ChattingProcess registers a name   *)
(* under the id of the session, looks it up for every message and closes   *)
(* the sessions of clients that do not keep to the order.                  *)
(*                                                                         *)
(* A package holds the raw pointer of its session, and contents threads    *)
(* run packages at any later time: the session may be deleted by then, and *)
(* its memory may hold the session of another client.  An id read from     *)
(* deleted memory is what is left there, or 0, which stands for anything.  *)
(*                                                                         *)
(* userPool_ is an unordered_map without a lock.  Nobody takes a user out  *)
(* of it: ChattingProcess::C_REQ_EXIT would, but the table of handlers     *)
(* already has ContentsProcess::C_REQ_EXIT, which closes the session.      *)
(***************************************************************************)
EXTENDS SessionManager, Sequences

CONSTANTS Thread,         \* the contents threads
          MaxPacket       \* bound: packets the clients send

ASSUME ChatBound == MaxPacket \in Nat

VARIABLES
  running,       \* the process has not crashed
  accepting,     \* the accept thread: its session and what it does with it
  clients,       \* ghost: how many clients have been accepted
  client,        \* ghost: which of them each address was given to last
  sent,
  queue,         \* packages waiting: type, pointer of the session, who sent it
  userPool_,     \* id -> the name, and whether it was registered properly
  pc, pkg,       \* each thread: where it is, the package it handles
  user,          \* each thread: what at() has returned
  answers        \* ghost: who has spoken, under which name, both properly or not

serverVars == <<accepting, clients, client>>
threadVars == <<pc, pkg, user>>
vars == <<smVars, running, serverVars, sent, queue, userPool_, threadVars, answers>>

Types == {"C_REQ_REGIST_CHATTING_NAME", "C_REQ_CHATTING", "C_REQ_EXIT"}

Nobody == [at |-> Null, step |-> "wait"]

Init ==
  /\ SMInit
  /\ running = TRUE
  /\ accepting = Nobody
  /\ clients = 0
  /\ client = [a \in Addr |-> 0]
  /\ sent = 0
  /\ queue = <<>>
  /\ userPool_ = <<>>
  /\ pc = [t \in Thread |-> "idle"]
  /\ pkg = [t \in Thread |-> Null]
  /\ user = [t \in Thread |-> Null]
  /\ answers = {}

\* an access that is undefined when `bad' holds
MayFail(bad) == running' \in IF bad THEN BOOLEAN ELSE {TRUE}

-----------------------------------------------------------------------------
(***************************************************************************)
(* IOCPServer::onAccept, in the accept thread.  A refused session is       *)
(* deleted and its socket left open.                                       *)
(***************************************************************************)
Accepting(step) == running /\ accepting.step = step

AcceptStep(a, step) == accepting' = [at |-> a, step |-> step]

\* a session whose keep-alive cannot be switched on is not wanted
setSocketOpt == {"add", "delete"}

NewIOCPSession(a) ==
  /\ Accepting("wait") /\ sessionSeed_ < MaxSeed
  /\ NewSession(a)
  /\ \E step \in setSocketOpt : AcceptStep(a, step)
  /\ UNCHANGED <<running, clients, client, sent, queue, userPool_, threadVars, answers>>

AddAccepted(a) ==
  /\ Accepting("add") /\ accepting.at = a
  /\ \/ /\ addSession(a)
        /\ AcceptStep(a, "port")
        /\ clients' = clients + 1
        /\ client' = [client EXCEPT ![a] = clients + 1]
     \/ /\ Refuses(a)
        /\ AcceptStep(a, "delete")
        /\ UNCHANGED <<smVars, clients, client>>
  /\ UNCHANGED <<running, sent, queue, userPool_, threadVars, answers>>

DeleteAccepted(a) ==
  /\ Accepting("delete") /\ accepting.at = a
  /\ DeleteUnlisted(a)
  /\ accepting' = Nobody
  /\ UNCHANGED <<running, clients, client, sent, queue, userPool_, threadVars, answers>>

\* recvStandBy, unless a stale pointer has closed the new session already
PortCreated(a) ==
  /\ Accepting("port") /\ accepting.at = a
  /\ MayFail(a \notin live)
  /\ accepting' = Nobody
  /\ UNCHANGED <<smVars, clients, client, sent, queue, userPool_, threadVars,
                 answers>>

\* SAFE_DELETE of a session that is listed: ~Session finds it in the list and
\* deletes it a second time
PortFails(a) ==
  /\ Accepting("port") /\ accepting.at = a
  /\ closeSession(a)
  /\ MayFail(TRUE)
  /\ accepting' = Nobody
  /\ UNCHANGED <<clients, client, sent, queue, userPool_, threadVars, answers>>

-----------------------------------------------------------------------------
(***************************************************************************)
(* The clients, through the IO workers.                                    *)
(***************************************************************************)
Connected(a) == running /\ a \in sessionList_ /\ accepting.at # a

PacketArrives(a) ==
  /\ Connected(a) /\ sent < MaxPacket
  /\ sent' = sent + 1
  /\ \E type \in Types :
       queue' = Append(queue, [type |-> type, session_ |-> a, by |-> client[a]])
  /\ UNCHANGED <<smVars, running, serverVars, userPool_, threadVars, answers>>

CloseByClient(a) ==
  /\ Connected(a)
  /\ closeSession(a)
  /\ UNCHANGED <<running, serverVars, sent, queue, userPool_, threadVars, answers>>

-----------------------------------------------------------------------------
(***************************************************************************)
(* The contents threads.                                                   *)
(***************************************************************************)
At(t, l) == running /\ pc[t] = l

Finish(t) == /\ pc' = [pc EXCEPT ![t] = "idle"]
             /\ pkg' = [pkg EXCEPT ![t] = Null]
             /\ user' = [user EXCEPT ![t] = Null]

TakePackage(t) ==
  /\ At(t, "idle") /\ queue # <<>>
  /\ pkg' = [pkg EXCEPT ![t] = Head(queue)]
  /\ queue' = Tail(queue)
  /\ pc' = [pc EXCEPT ![t] = IF Head(queue).type = "C_REQ_EXIT" THEN "exit" ELSE "at"]
  /\ UNCHANGED <<smVars, running, serverVars, sent, userPool_, user, answers>>

session_(t) == pkg[t].session_

\* the session is still that of the client who sent the package
Proper(t) == session_(t) \in sessionList_ /\ client[session_(t)] = pkg[t].by

\* session->id()
idsRead(t) == {id_[session_(t)]} \cup IF session_(t) \in live THEN {} ELSE {0}

\* an insert in the middle of another access to userPool_
Races(t, mine) == \E u \in Thread \ {t} : {mine, pc[u]} \in {{"insert"}, {"at", "insert"}}

UserAt(id) == IF id \in DOMAIN userPool_ THEN userPool_[id] ELSE Null

\* user = USERMANAGER.at(session->id()); a name is registered once, before the
\* first message, or the session is closed
FindUser(t) ==
  /\ At(t, "at")
  /\ MayFail(session_(t) \notin live \/ Races(t, "at"))
  /\ \E id \in idsRead(t) :
       LET known == UserAt(id) # Null
       IN  /\ user' = [user EXCEPT ![t] = UserAt(id)]
           /\ pc' = [pc EXCEPT ![t] =
                       CASE pkg[t].type = "C_REQ_CHATTING" /\ known -> "say"
                         [] pkg[t].type # "C_REQ_CHATTING" /\ ~known -> "insert"
                         [] OTHER -> "close"]
  /\ UNCHANGED <<smVars, serverVars, sent, queue, userPool_, pkg, answers>>

\* session->onClose(): the pointer is looked for in the list, so the session of
\* another client may be the one that is closed
CloseSession(t) ==
  /\ At(t, "close")
  /\ closeSession(session_(t))
  /\ MayFail(session_(t) \notin live)
  /\ Finish(t)
  /\ UNCHANGED <<serverVars, sent, queue, userPool_, answers>>

C_REQ_EXIT(t) ==
  /\ At(t, "exit")
  /\ forceCloseSession(session_(t))
  /\ MayFail(session_(t) \notin live)
  /\ Finish(t)
  /\ UNCHANGED <<serverVars, sent, queue, userPool_, answers>>

\* new User, setName
NewUser(t) == [name |-> pkg[t].by, proper |-> Proper(t)]

\* USERMANAGER.insert(user): the key is read from the session once more, and an
\* id that has a user by now keeps it
InsertUser(t) ==
  /\ At(t, "insert")
  /\ MayFail(session_(t) \notin live \/ Races(t, "insert"))
  /\ \E id \in idsRead(t) :
       userPool_' = [i \in DOMAIN userPool_ \cup {id} |->
                       IF i \in DOMAIN userPool_ THEN userPool_[i] ELSE NewUser(t)]
  /\ Finish(t)
  /\ UNCHANGED <<smVars, serverVars, sent, queue, answers>>

\* the answer goes to all of session_storage (Lobby), where deleted sessions
\* stay behind
Say(t) ==
  /\ At(t, "say")
  /\ MayFail(sessionCount_ < clients)
  /\ answers' = answers \cup {[by |-> pkg[t].by, name |-> user[t].name,
                               proper |-> Proper(t) /\ user[t].proper]}
  /\ Finish(t)
  /\ UNCHANGED <<smVars, serverVars, sent, queue, userPool_>>
-----------------------------------------------------------------------------
\* the threads have ended, each after its package, and main releases the managers
Release ==
  /\ running /\ accepting = Nobody /\ \A t \in Thread : pc[t] = "idle"
  /\ release
  /\ running' = FALSE
  /\ UNCHANGED <<serverVars, sent, queue, userPool_, threadVars, answers>>

onAccept(a) == \/ NewIOCPSession(a) \/ AddAccepted(a) \/ DeleteAccepted(a)
               \/ PortCreated(a) \/ PortFails(a)

execute(t) == \/ TakePackage(t) \/ FindUser(t) \/ CloseSession(t)
              \/ C_REQ_EXIT(t) \/ InsertUser(t) \/ Say(t)

Next == \/ \E a \in Addr : onAccept(a) \/ PacketArrives(a) \/ CloseByClient(a)
        \/ \E t \in Thread : execute(t)
        \/ Release

Spec == Init /\ [][Next]_vars
-----------------------------------------------------------------------------
(***************************************************************************)
(* What a client says goes out under the name that it has registered, also *)
(* after sessions were closed and their addresses were used again: a user  *)
(* is never taken out of userPool_, and only the freshness of the ids      *)
(* keeps the users of closed sessions apart from the sessions that follow. *)
(* Nothing is claimed of a message or a registration whose session was     *)
(* gone when the contents thread came to it.                               *)
(***************************************************************************)
SpeaksUnderOwnName == \A m \in answers : m.proper => m.name = m.by
=============================================================================
