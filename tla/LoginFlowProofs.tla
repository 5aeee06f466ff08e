---------------------------- MODULE LoginFlowProofs ----------------------------
(***************************************************************************)
(* For every number of clients, accounts, requests and database threads,   *)
(* and any number of restarts, broken connections and failing queries: an  *)
(* answer reaches who asked, success is only said of a player, and no      *)
(* request is answered twice.                                              *)
(*                                                                         *)
(* A packet or query that is under way carries the session id and the      *)
(* account of its request; the requests of the login server's present run  *)
(* have ids that no other client is given.  The second theorem rests on    *)
(* what a database thread has read by then.                                *)
(***************************************************************************)
EXTENDS LoginFlow, TLAPS

PacketType == {"C_REQ_ID_PW", "I_DB_REQ_ID_PW", "I_DB_ANS_ID_PW", "I_CHTTING_NOTIFY_ID",
               "I_DB_REQ_LOAD_DATA", "I_DB_ANS_PARSE_DATA", "I_LOGIN_NOTIFY_ID_LOADED"}

AnswerType == {"S_ANS_ID_PW_FAIL", "S_ANS_ID_PW_SUCCESS"}

Token == [type : PacketType, clientId_ : Nat, oid : Client, result_ : BOOLEAN, req : Nat]

Request == [who : Client, id : Nat, run : Nat]

Delivery == [to : Client, type : AnswerType, name : Client, req : Nat, run : Nat]

Procedure == {"p_AccountData_Select", "p_Character_Select"}

Statement == [procedure : Procedure, type : {"QUERY_CALL_BACK"}, params : Seq(Client)]

DBQuery == [type : PacketType, clientId_ : Nat, oid : Client, req : Nat, statement : Statement]

ClientType == /\ sessionId \in [Client -> Nat] /\ idSeed_ \in Nat /\ run \in Nat
              /\ requests \in Seq(Request) /\ delivered \in Seq(Delivery)

DBType == /\ queryPool_ \in Seq(DBQuery)
          /\ dbpc \in [DBWorker -> {"loop", "pop", "execute", "rows", "send"}]
          /\ query \in [DBWorker -> DBQuery \cup {NoQuery}]
          /\ record_ \in [DBWorker -> Record]
          /\ result_ \in [DBWorker -> BOOLEAN]

\* a packet or a query is about a request that has been made
Carries(p) == /\ p.req \in DOMAIN requests
              /\ p.clientId_ = requests[p.req].id
              /\ p.oid = requests[p.req].who

AskedCarry == asked \subseteq Token /\ \A p \in asked : Carries(p)

\* what the DBAgent found of a character is true
Honest(l, p) == l \in {D_C, C_L} /\ p.result_ => Account[p.oid] = "player"

PacketsCarry == /\ onTheWay \in [Link -> SUBSET Token]
                /\ \A l \in Link : \A p \in onTheWay[l] : Carries(p) /\ Honest(l, p)

Built(q) == q \in DBQuery /\ q.statement = StatementOf(q)

PoolCarries == \A i \in 1..Len(queryPool_) : Built(queryPool_[i]) /\ Carries(queryPool_[i])

Working(w) == dbpc[w] \in {"execute", "rows", "send"}

WorkersCarry == \A w \in DBWorker : Working(w) => Built(query[w]) /\ Carries(query[w])

\* an answer is TRUE only after a row of its own query has been read
RowsAreRead ==
  \A w \in DBWorker : dbpc[w] \in {"rows", "send"} =>
    /\ record_[w].state = "open" => record_[w].rows = RowsFound(query[w].statement)
    /\ result_[w] => RowsFound(query[w].statement) > 0

DBInv == DBType /\ PoolCarries /\ WorkersCarry /\ RowsAreRead

OneSessionEach ==
  /\ \A c \in Client : sessionId[c] <= idSeed_
  /\ \A c, d \in Client : sessionId[c] # 0 /\ sessionId[c] = sessionId[d] => c = d

LoggedOut == /\ proc \in [Server -> {"up", "down", "stopping"}]
             /\ proc["Login"] = "down" => \A c \in Client : sessionId[c] = 0

\* in the present run of the login server the id of a request is its client's alone
IdsTellWho ==
  \A n \in DOMAIN requests :
    /\ requests[n].run <= run /\ requests[n].id # 0
    /\ requests[n].run = run =>
         /\ requests[n].id <= idSeed_
         /\ \A c \in Client : sessionId[c] = requests[n].id => c = requests[n].who

ClientInv == ClientType /\ AskedCarry /\ OneSessionEach /\ LoggedOut /\ IdsTellWho

AnswersAreRight ==
  \A i \in DOMAIN delivered :
    LET d == delivered[i]  r == requests[d.req]
    IN  /\ d.req \in DOMAIN requests
        /\ r.run = d.run => r.who = d.to /\ r.who = d.name
        /\ d.type = "S_ANS_ID_PW_SUCCESS" => Account[d.name] = "player"

FlowInv == ClientInv /\ PacketsCarry /\ DBInv /\ AnswersAreRight

-----------------------------------------------------------------------------
(***************************************************************************)
(* Queries and rows.                                                       *)
(***************************************************************************)
LEMMA QueryIsBuilt ==
  ASSUME NEW p \in Token
  PROVE  /\ Built(Query(p))
         /\ Query(p).req = p.req /\ Query(p).clientId_ = p.clientId_ /\ Query(p).oid = p.oid
<1> DEFINE q == Query(p)
<1>1. /\ q.type = p.type /\ q.clientId_ = p.clientId_ /\ q.oid = p.oid /\ q.req = p.req
      /\ q.statement = StatementOf(p)
      /\ q = [type |-> p.type, clientId_ |-> p.clientId_, oid |-> p.oid, req |-> p.req,
              statement |-> StatementOf(p)]
  BY DEF Query
<1>2. p.oid \in Client /\ p.type \in PacketType /\ p.clientId_ \in Nat /\ p.req \in Nat
  BY DEF Token
<1>3. StatementOf(p) \in Statement
  <2>1. Append(Append(<<>>, p.oid), p.oid) \in Seq(Client) /\ Append(<<>>, p.oid) \in Seq(Client)
    BY <1>2
  <2>2. ASSUME NEW name \in Procedure, NEW params \in Seq(Client)
        PROVE  [procedure |-> name, type |-> "QUERY_CALL_BACK", params |-> params] \in Statement
    BY DEF Statement
  <2>3. \/ StatementOf(p) = [procedure |-> "p_AccountData_Select", type |-> "QUERY_CALL_BACK",
                             params |-> Append(Append(<<>>, p.oid), p.oid)]
        \/ StatementOf(p) = [procedure |-> "p_Character_Select", type |-> "QUERY_CALL_BACK",
                             params |-> Append(<<>>, p.oid)]
    BY DEF StatementOf, addParam, setQuery
  <2> QED BY <2>1, <2>2, <2>3 DEF Procedure
<1>4. StatementOf(q) = StatementOf(p)
  BY <1>1 DEF StatementOf
<1>5. q \in DBQuery
  BY <1>1, <1>2, <1>3 DEF DBQuery
<1> QED BY <1>1, <1>4, <1>5 DEF Built

LEMMA FoundIsPlayer ==
  ASSUME NEW q, Built(q)
  PROVE  /\ RowsFound(q.statement) \in {0, 1}
         /\ q.type # "I_DB_REQ_ID_PW" /\ RowsFound(q.statement) > 0 =>
              Account[q.oid] = "player"
<1>1. RowsFound(q.statement) \in {0, 1}
  BY DEF RowsFound
<1>2. SUFFICES ASSUME q.type # "I_DB_REQ_ID_PW", RowsFound(q.statement) > 0
               PROVE  Account[q.oid] = "player"
  BY <1>1
<1>3. q.oid \in Client /\ q.statement = StatementOf(q)
  BY DEF Built, DBQuery
<1>4. StatementOf(q) = [procedure |-> "p_Character_Select", type |-> "QUERY_CALL_BACK",
                        params |-> Append(<<>>, q.oid)]
  BY <1>2 DEF StatementOf, addParam, setQuery
<1>5. Append(<<>>, q.oid)[1] = q.oid
  BY <1>3
<1>6. q.statement.procedure = "p_Character_Select" /\ q.statement.params[1] = q.oid
  BY <1>3, <1>4, <1>5
<1> QED BY <1>2, <1>6 DEF RowsFound

-----------------------------------------------------------------------------
(***************************************************************************)
(* What a step that leaves their variables alone keeps.                    *)
(***************************************************************************)
LEMMA DBStays ==
  ASSUME DBInv, UNCHANGED <<dbVars, requests>>
  PROVE  DBInv'
BY DEF dbVars, DBInv, DBType, PoolCarries, WorkersCarry, RowsAreRead, Carries, Working

LEMMA PacketsStay ==
  ASSUME PacketsCarry, UNCHANGED <<onTheWay, requests>>
  PROVE  PacketsCarry'
BY DEF PacketsCarry, Carries

LEMMA ClientStays ==
  ASSUME ClientInv, UNCHANGED <<sessionId, idSeed_, requests, run, proc>>,
         delivered' \in Seq(Delivery), asked' \subseteq asked
  PROVE  ClientInv'
BY DEF ClientInv, ClientType, AskedCarry, OneSessionEach, LoggedOut, IdsTellWho, Carries

LEMMA AnswersStay ==
  ASSUME AnswersAreRight, UNCHANGED <<delivered, requests>>
  PROVE  AnswersAreRight'
BY DEF AnswersAreRight

(***************************************************************************)
(* A connection that loses packets, or is sent one that is right.          *)
(***************************************************************************)
LEMMA PacketSent ==
  ASSUME PacketsCarry, UNCHANGED requests,
         NEW from, NEW p, NEW to, NEW a \in Token, Carries(a), Honest(to, a),
         sendPacket(from, p, to, a)
  PROVE  PacketsCarry'
<1>1. onTheWay' \in [Link -> SUBSET Token]
  BY DEF PacketsCarry, sendPacket
<1>2. ASSUME NEW l \in Link, NEW x \in onTheWay'[l]
      PROVE  Carries(x) /\ Honest(l, x)
  <2>1. x \in onTheWay[l] \/ (l = to /\ x = a)
    BY <1>2 DEF sendPacket
  <2> QED BY <2>1 DEF PacketsCarry
<1> QED BY <1>1, <1>2 DEF PacketsCarry, Carries, Honest

LEMMA PacketsLost ==
  ASSUME PacketsCarry, UNCHANGED requests, onTheWay' \in [Link -> SUBSET Token],
         \A l \in Link : onTheWay'[l] \subseteq onTheWay[l]
  PROVE  PacketsCarry'
BY DEF PacketsCarry, Carries, Honest

(***************************************************************************)
(* An answer handed to the session its packet names.                       *)
(***************************************************************************)
LEMMA DeliveredToWhoAsked ==
  ASSUME ClientInv, AnswersAreRight, UNCHANGED requests,
         NEW p \in Token, Carries(p), SessionOf(p.clientId_) # {}, NEW type \in AnswerType,
         type = "S_ANS_ID_PW_SUCCESS" => Account[p.oid] = "player",
         Deliver(p, type)
  PROVE  delivered' \in Seq(Delivery) /\ AnswersAreRight'
<1> DEFINE c == CHOOSE d \in SessionOf(p.clientId_) : TRUE
           a == [to |-> c, type |-> type, name |-> p.oid, req |-> p.req, run |-> run]
<1>1. c \in Client /\ sessionId[c] = p.clientId_
  BY DEF SessionOf
<1>2. a \in Delivery /\ delivered' = Append(delivered, a)
  BY <1>1 DEF Deliver, Delivery, Token, ClientInv, ClientType
<1>3. /\ delivered \in Seq(Delivery) /\ delivered' \in Seq(Delivery)
      /\ DOMAIN delivered' = DOMAIN delivered \cup {Len(delivered) + 1}
      /\ delivered'[Len(delivered) + 1] = a
      /\ \A i \in DOMAIN delivered : delivered'[i] = delivered[i]
  BY <1>2 DEF ClientInv, ClientType
<1>4. /\ a.req \in DOMAIN requests /\ requests[a.req].who = a.name
      /\ requests[a.req].run = a.run => requests[a.req].who = a.to
  <2>1. a.req = p.req /\ a.name = p.oid /\ a.run = run /\ a.to = c
    OBVIOUS
  <2> QED BY <2>1, <1>1 DEF Carries, ClientInv, IdsTellWho
<1>5. a.type = "S_ANS_ID_PW_SUCCESS" => Account[a.name] = "player"
  OBVIOUS
<1> HIDE DEF a
<1>6. ASSUME NEW i \in DOMAIN delivered'
      PROVE  /\ delivered'[i].req \in DOMAIN requests
             /\ requests[delivered'[i].req].run = delivered'[i].run =>
                  /\ requests[delivered'[i].req].who = delivered'[i].to
                  /\ requests[delivered'[i].req].who = delivered'[i].name
             /\ delivered'[i].type = "S_ANS_ID_PW_SUCCESS" =>
                  Account[delivered'[i].name] = "player"
  <2>1. CASE i \in DOMAIN delivered
    BY <2>1, <1>3 DEF AnswersAreRight
  <2>2. CASE i = Len(delivered) + 1
    BY <2>2, <1>3, <1>4, <1>5
  <2> QED BY <1>3, <2>1, <2>2
<1> QED BY <1>3, <1>6 DEF AnswersAreRight

-----------------------------------------------------------------------------
LEMMA InitEstablishes == Init => FlowInv
<1> SUFFICES ASSUME Init PROVE FlowInv
  OBVIOUS
<1>1. PICK b \in Bounds : TerminalsInit(b.faults, b.starts) /\ DatabaseInit(b.dbFaults)
  BY DEF Init
<1>2. ClientInv
  BY <1>1, LoginConstants DEF Init, TerminalsInit, ClientInv, ClientType, AskedCarry,
     OneSessionEach, LoggedOut, IdsTellWho
<1>3. PacketsCarry
  BY <1>1 DEF TerminalsInit, PacketsCarry
<1>4. DBInv
  BY <1>1 DEF DatabaseInit, DBInv, DBType, PoolCarries, WorkersCarry, RowsAreRead, Working,
     Unopened, Record
<1>5. AnswersAreRight
  BY DEF Init, AnswersAreRight
<1> QED BY <1>2, <1>3, <1>4, <1>5 DEF FlowInv

(***************************************************************************)
(* Clients connect, leave and ask.                                         *)
(***************************************************************************)
LEMMA Opens ==
  ASSUME FlowInv, NEW c \in Client, OpenSession(c)
  PROVE  FlowInv'
<1> USE DEF OpenSession
<1>1. UNCHANGED <<dbVars, onTheWay, proc, delivered, requests, run, asked>>
  BY DEF netVars, history
<1>2. DBInv' /\ PacketsCarry' /\ AnswersAreRight'
  BY <1>1, DBStays, PacketsStay, AnswersStay DEF FlowInv
<1>n. \A n \in DOMAIN requests : requests[n].id \in Nat /\ requests[n].run \in Nat
  <2>1. \A n \in DOMAIN requests : requests[n] \in Request
    BY DEF FlowInv, ClientInv, ClientType
  <2> QED BY <2>1 DEF Request
<1>3. /\ sessionId' = [sessionId EXCEPT ![c] = idSeed_ + 1] /\ idSeed_' = idSeed_ + 1
      /\ ClientType /\ ClientType'
  BY <1>1 DEF createSessionId, FlowInv, ClientInv, ClientType
<1>4. AskedCarry'
  BY <1>1 DEF FlowInv, ClientInv, AskedCarry, Carries
<1>5. OneSessionEach'
  BY <1>3 DEF FlowInv, ClientInv, ClientType, OneSessionEach
<1>6. LoggedOut'
  BY <1>1 DEF FlowInv, ClientInv, LoggedOut, Up
<1>7. IdsTellWho'
  <2>1. \A d \in Client : sessionId'[d] = IF d = c THEN idSeed_ + 1 ELSE sessionId[d]
    BY <1>3 DEF ClientType
  <2>2. ASSUME NEW n \in DOMAIN requests, requests[n].run = run, NEW d \in Client,
               sessionId'[d] = requests[n].id
        PROVE  d = requests[n].who
    <3>1. requests[n].id <= idSeed_
      BY <2>2 DEF FlowInv, ClientInv, IdsTellWho
    <3>2. d # c
      BY <1>n, <1>3, <2>1, <2>2, <3>1 DEF ClientType
    <3> QED BY <2>1, <2>2, <3>2 DEF FlowInv, ClientInv, IdsTellWho
  <2>3. \A n \in DOMAIN requests : requests[n].id <= idSeed_ => requests[n].id <= idSeed_'
    BY <1>n, <1>3 DEF ClientType
  <2> QED BY <1>1, <2>2, <2>3 DEF FlowInv, ClientInv, IdsTellWho
<1> QED BY <1>2, <1>3, <1>4, <1>5, <1>6, <1>7 DEF FlowInv, ClientInv

LEMMA Closes ==
  ASSUME FlowInv, NEW c \in Client, CloseSession(c)
  PROVE  FlowInv'
<1> USE DEF CloseSession
<1>1. UNCHANGED <<dbVars, onTheWay, proc, delivered, requests, run, idSeed_>>
  BY DEF netVars, history
<1>2. DBInv' /\ PacketsCarry' /\ AnswersAreRight'
  BY <1>1, DBStays, PacketsStay, AnswersStay DEF FlowInv
<1>3. ClientType /\ ClientType' /\ sessionId' = [sessionId EXCEPT ![c] = 0]
  BY <1>1 DEF FlowInv, ClientInv, ClientType
<1>4. AskedCarry'
  BY <1>1 DEF FlowInv, ClientInv, AskedCarry, Carries
<1>5. OneSessionEach'
  BY <1>1, <1>3 DEF FlowInv, ClientInv, ClientType, OneSessionEach
<1>6. LoggedOut'
  BY <1>1, <1>3 DEF FlowInv, ClientInv, ClientType, LoggedOut
<1>7. IdsTellWho'
  BY <1>1, <1>3 DEF FlowInv, ClientInv, ClientType, IdsTellWho, Request
<1> QED BY <1>2, <1>3, <1>4, <1>5, <1>6, <1>7 DEF FlowInv, ClientInv

LEMMA Asks ==
  ASSUME FlowInv, NEW c \in Client, Ask(c)
  PROVE  FlowInv'
<1> DEFINE n == Len(requests) + 1
           r == [who |-> c, id |-> sessionId[c], run |-> run]
           p == Packet("C_REQ_ID_PW", sessionId[c], c, FALSE, n)
<1>1. UNCHANGED <<dbVars, onTheWay, proc, delivered, run, idSeed_, sessionId>>
  BY DEF Ask, netVars
<1>2. ClientType /\ r \in Request /\ n \in Nat
  BY DEF FlowInv, ClientInv, ClientType, Request
<1>3. requests' = Append(requests, r) /\ Len(requests') = n /\ asked' = asked \cup {p}
  BY <1>2 DEF Ask, ClientType
<1>4. /\ requests \in Seq(Request) /\ requests' \in Seq(Request)
      /\ DOMAIN requests' = DOMAIN requests \cup {n}
      /\ requests'[n] = r
      /\ \A m \in DOMAIN requests : requests'[m] = requests[m]
  BY <1>2, <1>3 DEF ClientType
<1>5. ASSUME NEW x, Carries(x) PROVE Carries(x)'
  BY <1>4, <1>5 DEF Carries
<1>6. p \in Token /\ \A x : x = p => Carries(x)'
  <2>1. sessionId[c] \in Nat /\ c \in Client
    BY <1>2 DEF ClientType
  <2>2. p \in Token
    BY <2>1, <1>2 DEF Token, PacketType, Packet
  <2>3. p.req = n /\ p.clientId_ = r.id /\ p.oid = r.who
    BY DEF Packet
  <2> QED BY <2>2, <2>3, <1>4 DEF Carries
<1> HIDE DEF p
<1>7. AskedCarry'
  BY <1>3, <1>5, <1>6 DEF FlowInv, ClientInv, AskedCarry
<1>8. PacketsCarry'
  BY <1>1, <1>5 DEF FlowInv, PacketsCarry, Honest
<1>9. DBInv'
  BY <1>1, <1>5 DEF FlowInv, dbVars, DBInv, DBType, PoolCarries, WorkersCarry, RowsAreRead,
     Working
<1>10. OneSessionEach' /\ LoggedOut' /\ ClientType'
  BY <1>1, <1>2, <1>4 DEF FlowInv, ClientInv, ClientType, OneSessionEach, LoggedOut
<1>11. IdsTellWho'
  <2>1. /\ r.run = run /\ r.id = sessionId[c] /\ r.who = c
        /\ sessionId[c] # 0 /\ sessionId[c] <= idSeed_
        /\ \A d \in Client : sessionId[d] = sessionId[c] => d = c
    BY DEF Ask, FlowInv, ClientInv, OneSessionEach
  <2> QED BY <1>1, <1>2, <1>4, <2>1 DEF FlowInv, ClientInv, ClientType, IdsTellWho
<1>12. AnswersAreRight'
  BY <1>1, <1>4 DEF FlowInv, AnswersAreRight
<1> QED BY <1>7, <1>8, <1>9, <1>10, <1>11, <1>12 DEF FlowInv, ClientInv

(***************************************************************************)
(* The handlers of the login and the chatting server.                      *)
(***************************************************************************)
LEMMA Forwards ==
  ASSUME FlowInv, UNCHANGED <<dbVars, sessionId, idSeed_, requests, run, delivered>>,
         asked' \subseteq asked,
         NEW from, NEW to, NEW type \in PacketType, NEW result \in BOOLEAN,
         NEW p \in Token, Carries(p),
         to \in {D_C, C_L} /\ result => Account[p.oid] = "player",
         Forward(from, p, to, type, p.clientId_, result)
  PROVE  FlowInv'
<1> DEFINE a == Packet(type, p.clientId_, p.oid, result, p.req)
<1>1. a \in Token /\ Carries(a) /\ Honest(to, a)
  BY DEF Packet, Token, Carries, Honest
<1>2. sendPacket(from, p, to, a) /\ UNCHANGED proc
  BY DEF Forward
<1>3. PacketsCarry'
  BY <1>1, <1>2, PacketSent DEF FlowInv
<1>4. DBInv' /\ ClientInv' /\ AnswersAreRight'
  BY <1>2, DBStays, ClientStays, AnswersStay DEF FlowInv, ClientInv, ClientType
<1> QED BY <1>3, <1>4 DEF FlowInv

LEMMA Answered ==
  ASSUME FlowInv, UNCHANGED <<dbVars, sessionId, idSeed_, asked, requests, run>>,
         NEW from, NEW p \in Token, Carries(p), Handled(from, p),
         NEW type \in AnswerType, type = "S_ANS_ID_PW_SUCCESS" => Account[p.oid] = "player",
         \/ UNCHANGED delivered
         \/ SessionOf(p.clientId_) # {} /\ Deliver(p, type)
  PROVE  FlowInv'
<1>1. UNCHANGED proc /\ onTheWay' = [onTheWay EXCEPT ![from] = @ \ {p}]
  BY DEF Handled
<1>2. PacketsCarry'
  <2>1. onTheWay' \in [Link -> SUBSET Token] /\ \A l \in Link : onTheWay'[l] \subseteq onTheWay[l]
    BY <1>1 DEF FlowInv, PacketsCarry
  <2> QED BY <2>1, PacketsLost DEF FlowInv
<1>3. delivered' \in Seq(Delivery) /\ AnswersAreRight'
  BY DeliveredToWhoAsked, AnswersStay DEF FlowInv, ClientInv, ClientType
<1>4. DBInv' /\ ClientInv'
  BY <1>1, <1>3, DBStays, ClientStays DEF FlowInv
<1> QED BY <1>2, <1>3, <1>4 DEF FlowInv

LEMMA PacketHeld ==
  ASSUME FlowInv, NEW l \in Link, NEW p \in onTheWay[l]
  PROVE  p \in Token /\ Carries(p) /\ Honest(l, p)
BY DEF FlowInv, PacketsCarry

LEMMA LinkNames == {L_D, L_C, C_D, C_L, D_L, D_C} \subseteq Link
BY LoginConstants DEF L_D, L_C, C_D, C_L, D_L, D_C

LEMMA HandlersKeep ==
  ASSUME FlowInv, NEW p,
         \/ C_REQ_ID_PW(p) \/ I_DB_ANS_ID_PW(p) \/ I_LOGIN_NOTIFY_ID_LOADED(p)
         \/ I_CHTTING_NOTIFY_ID(p) \/ I_DB_ANS_PARSE_DATA(p)
  PROVE  FlowInv'
<1>1. L_D \notin {D_C, C_L} /\ L_C \notin {D_C, C_L} /\ C_D \notin {D_C, C_L}
  BY DEF L_D, L_C, C_D, D_C, C_L
<1>2. CASE C_REQ_ID_PW(p)
  <2>1. p \in Token /\ Carries(p)
    BY <1>2 DEF C_REQ_ID_PW, FlowInv, ClientInv, AskedCarry
  <2>2. Forward(<<>>, p, L_D, "I_DB_REQ_ID_PW", p.clientId_, FALSE)
        /\ UNCHANGED <<dbVars, sessionId, idSeed_, requests, run, delivered>>
        /\ asked' \subseteq asked
    BY <1>2 DEF C_REQ_ID_PW
  <2>3. "I_DB_REQ_ID_PW" \in PacketType
    BY DEF PacketType
  <2> QED BY <1>1, <2>1, <2>2, <2>3, Forwards
<1>3. CASE I_DB_ANS_ID_PW(p)
  <2>1. p \in Token /\ Carries(p)
    BY <1>3, LinkNames, PacketHeld DEF I_DB_ANS_ID_PW
  <2>2. UNCHANGED <<dbVars, sessionId, idSeed_, asked, requests, run>>
    BY <1>3 DEF I_DB_ANS_ID_PW, clientVars
  <2>3. CASE SessionOf(p.clientId_) = {} \/ ~p.result_
    <3>1. Handled(D_L, p)
      BY <1>3, <2>3 DEF I_DB_ANS_ID_PW
    <3>2. \/ UNCHANGED delivered
          \/ SessionOf(p.clientId_) # {} /\ Deliver(p, "S_ANS_ID_PW_FAIL")
      BY <1>3, <2>3 DEF I_DB_ANS_ID_PW
    <3>3. "S_ANS_ID_PW_FAIL" \in AnswerType /\ "S_ANS_ID_PW_FAIL" # "S_ANS_ID_PW_SUCCESS"
      BY DEF AnswerType
    <3> QED BY <2>1, <2>2, <3>1, <3>2, <3>3, Answered
  <2>4. CASE ~(SessionOf(p.clientId_) = {} \/ ~p.result_)
    <3>1. Forward(D_L, p, L_C, "I_CHTTING_NOTIFY_ID", p.clientId_, FALSE) /\ UNCHANGED delivered
      BY <1>3, <2>4 DEF I_DB_ANS_ID_PW
    <3>2. "I_CHTTING_NOTIFY_ID" \in PacketType
      BY DEF PacketType
    <3> QED BY <1>1, <2>1, <2>2, <3>1, <3>2, Forwards
  <2> QED BY <2>3, <2>4
<1>4. CASE I_LOGIN_NOTIFY_ID_LOADED(p)
  <2>1. p \in Token /\ Carries(p) /\ Honest(C_L, p)
    BY <1>4, LinkNames, PacketHeld DEF I_LOGIN_NOTIFY_ID_LOADED
  <2>2. UNCHANGED <<dbVars, sessionId, idSeed_, asked, requests, run>> /\ Handled(C_L, p)
    BY <1>4 DEF I_LOGIN_NOTIFY_ID_LOADED, clientVars
  <2>3. "S_ANS_ID_PW_SUCCESS" \in AnswerType /\ "S_ANS_ID_PW_FAIL" \in AnswerType
        /\ "S_ANS_ID_PW_FAIL" # "S_ANS_ID_PW_SUCCESS"
    BY DEF AnswerType
  <2>4. CASE p.result_ /\ SessionOf(p.clientId_) # {}
    <3>1. Deliver(p, "S_ANS_ID_PW_SUCCESS") /\ Account[p.oid] = "player"
      BY <1>4, <2>1, <2>4 DEF I_LOGIN_NOTIFY_ID_LOADED, Honest
    <3> QED BY <2>1, <2>2, <2>3, <2>4, <3>1, Answered
  <2>5. CASE ~(p.result_ /\ SessionOf(p.clientId_) # {})
    <3>1. UNCHANGED delivered
      BY <1>4, <2>5 DEF I_LOGIN_NOTIFY_ID_LOADED
    <3> QED BY <2>1, <2>2, <2>3, <3>1, Answered
  <2> QED BY <2>4, <2>5
<1>5. CASE I_CHTTING_NOTIFY_ID(p)
  <2>1. p \in Token /\ Carries(p)
    BY <1>5, LinkNames, PacketHeld DEF I_CHTTING_NOTIFY_ID
  <2>2. Forward(L_C, p, C_D, "I_DB_REQ_LOAD_DATA", p.clientId_, FALSE)
        /\ UNCHANGED <<dbVars, sessionId, idSeed_, asked, requests, run, delivered>>
    BY <1>5 DEF I_CHTTING_NOTIFY_ID, clientVars
  <2>3. "I_DB_REQ_LOAD_DATA" \in PacketType
    BY DEF PacketType
  <2> QED BY <1>1, <2>1, <2>2, <2>3, Forwards
<1>6. CASE I_DB_ANS_PARSE_DATA(p)
  <2>1. p \in Token /\ Carries(p) /\ Honest(D_C, p)
    BY <1>6, LinkNames, PacketHeld DEF I_DB_ANS_PARSE_DATA
  <2>2. Forward(D_C, p, C_L, "I_LOGIN_NOTIFY_ID_LOADED", p.clientId_, p.result_)
        /\ UNCHANGED <<dbVars, sessionId, idSeed_, asked, requests, run, delivered>>
    BY <1>6 DEF I_DB_ANS_PARSE_DATA, clientVars
  <2>3. "I_LOGIN_NOTIFY_ID_LOADED" \in PacketType /\ p.result_ \in BOOLEAN
        /\ (p.result_ => Account[p.oid] = "player")
    BY <2>1 DEF PacketType, Token, Honest
  <2> QED BY <2>1, <2>2, <2>3, Forwards
<1> QED BY <1>2, <1>3, <1>4, <1>5, <1>6

(***************************************************************************)
(* The DBAgent: a query is queued, and a thread works at its own.          *)
(***************************************************************************)
LEMMA Queues ==
  ASSUME FlowInv, NEW l \in {L_D, C_D}, NEW p, I_DB_REQ(l, p)
  PROVE  FlowInv'
<1>1. l \in Link
  BY LinkNames
<1>2. p \in Token /\ Carries(p)
  BY <1>1, PacketHeld DEF I_DB_REQ
<1>3. Handled(l, p) /\ pushQuery(Query(p)) /\ UNCHANGED <<clientVars, history>>
  BY DEF I_DB_REQ
<1>4. ClientInv' /\ AnswersAreRight'
  BY <1>3, ClientStays, AnswersStay
  DEF FlowInv, ClientInv, ClientType, clientVars, history, Handled
<1>5. PacketsCarry'
  <2>1. onTheWay' \in [Link -> SUBSET Token] /\ \A k \in Link : onTheWay'[k] \subseteq onTheWay[k]
    BY <1>3 DEF FlowInv, PacketsCarry, Handled
  <2> QED BY <1>3, <2>1, PacketsLost DEF FlowInv, history
<1>6. DBInv'
  <2> DEFINE q == Query(p)
  <2>1. Built(q) /\ Carries(q) /\ q \in DBQuery
    BY <1>2, QueryIsBuilt DEF Carries, Built
  <2>2. /\ queryPool_ \in Seq(DBQuery) /\ queryPool_' = Append(queryPool_, q)
        /\ UNCHANGED <<dbpc, query, record_, result_, requests>>
    BY <1>3 DEF pushQuery, history, FlowInv, DBInv, DBType
  <2> HIDE DEF q
  <2>3. /\ queryPool_' \in Seq(DBQuery) /\ Len(queryPool_') = Len(queryPool_) + 1
        /\ Len(queryPool_) \in Nat
        /\ queryPool_'[Len(queryPool_) + 1] = q
        /\ \A i \in 1..Len(queryPool_) : queryPool_'[i] = queryPool_[i]
    BY <2>1, <2>2
  <2>4. ASSUME NEW i \in 1..Len(queryPool_')
        PROVE  Built(queryPool_'[i]) /\ Carries(queryPool_'[i])
    <3>1. i \in 1..Len(queryPool_) \/ i = Len(queryPool_) + 1
      BY <2>3
    <3> QED BY <2>1, <2>3, <3>1 DEF FlowInv, DBInv, PoolCarries
  <2>5. PoolCarries'
    BY <2>2, <2>4 DEF PoolCarries, Carries
  <2> QED BY <2>2, <2>3, <2>5 DEF FlowInv, DBInv, DBType, WorkersCarry, RowsAreRead, Carries,
          Working
<1> QED BY <1>4, <1>5, <1>6 DEF FlowInv

LEMMA OneWorker ==
  ASSUME DBInv, UNCHANGED requests, NEW w \in DBWorker, DBType', PoolCarries',
         \A v \in DBWorker \ {w} : /\ dbpc'[v] = dbpc[v] /\ query'[v] = query[v]
                                   /\ record_'[v] = record_[v] /\ result_'[v] = result_[v],
         dbpc'[w] \in {"execute", "rows", "send"} => Built(query'[w]) /\ Carries(query'[w]),
         dbpc'[w] \in {"rows", "send"} =>
           /\ record_'[w].state = "open" => record_'[w].rows = RowsFound(query'[w].statement)
           /\ result_'[w] => RowsFound(query'[w].statement) > 0
  PROVE  DBInv'
<1>1. WorkersCarry'
  <2>1. ASSUME NEW v \in DBWorker, dbpc'[v] \in {"execute", "rows", "send"}
        PROVE  Built(query'[v]) /\ Carries(query'[v])
    BY <2>1 DEF DBInv, WorkersCarry, Working
  <2> QED BY <2>1 DEF WorkersCarry, Working, Carries
<1>2. RowsAreRead'
  BY DEF DBInv, RowsAreRead
<1> QED BY <1>1, <1>2 DEF DBInv

LEMMA PoolStays ==
  ASSUME PoolCarries, UNCHANGED <<queryPool_, requests>>
  PROVE  PoolCarries'
BY DEF PoolCarries, Carries

LEMMA Pops ==
  ASSUME DBInv, UNCHANGED requests, NEW w \in DBWorker, runQueryCount(w) \/ popQuery(w)
  PROVE  DBInv'
<1> USE DEF DBGoto
<1>t. DBType /\ PoolCarries
  BY DEF DBInv
<1>1. CASE runQueryCount(w) \/ (popQuery(w) /\ queryPool_ = <<>>)
  <2>1. DBType' /\ UNCHANGED <<queryPool_, query, record_, result_>>
        /\ dbpc'[w] \in {"pop", "loop"} /\ \A v \in DBWorker \ {w} : dbpc'[v] = dbpc[v]
    BY <1>1, <1>t DEF DBType, runQueryCount, popQuery
  <2> QED BY <1>t, <2>1, PoolStays, OneWorker
<1>2. CASE popQuery(w) /\ queryPool_ # <<>>
  <2>1. /\ query' = [query EXCEPT ![w] = Head(queryPool_)]
        /\ queryPool_' = Tail(queryPool_)
        /\ dbpc' = [dbpc EXCEPT ![w] = "execute"]
        /\ UNCHANGED <<record_, result_>>
    BY <1>2 DEF popQuery
  <2>2. /\ queryPool_ \in Seq(DBQuery) /\ queryPool_' \in Seq(DBQuery)
        /\ Head(queryPool_) = queryPool_[1] /\ 1 \in 1..Len(queryPool_)
        /\ Head(queryPool_) \in DBQuery
        /\ Len(queryPool_') = Len(queryPool_) - 1 /\ Len(queryPool_) \in Nat
        /\ \A i \in 1..Len(queryPool_') : queryPool_'[i] = queryPool_[i + 1]
    BY <1>2, <1>t, <2>1 DEF DBType
  <2>3. DBType'
    BY <1>t, <2>1, <2>2 DEF DBType
  <2>4. PoolCarries'
    <3>1. ASSUME NEW i \in 1..Len(queryPool_')
          PROVE  Built(queryPool_'[i]) /\ Carries(queryPool_'[i])
      <4>1. i + 1 \in 1..Len(queryPool_)
        BY <2>2
      <4> QED BY <1>t, <2>2, <4>1 DEF PoolCarries
    <3> QED BY <3>1 DEF PoolCarries, Carries
  <2>5. dbpc'[w] = "execute" /\ query'[w] = queryPool_[1]
        /\ \A v \in DBWorker \ {w} : /\ dbpc'[v] = dbpc[v] /\ query'[v] = query[v]
                                     /\ record_'[v] = record_[v] /\ result_'[v] = result_[v]
    BY <1>t, <2>1, <2>2 DEF DBType
  <2>6. Built(queryPool_[1]) /\ Carries(queryPool_[1])
    BY <1>t, <2>2 DEF PoolCarries
  <2> QED BY <2>3, <2>4, <2>5, <2>6, OneWorker
<1> QED BY <1>1, <1>2

LEMMA Executes ==
  ASSUME DBInv, UNCHANGED requests, NEW w \in DBWorker,
         execute(w, RowsFound(query[w].statement)) \/ comError(w)
  PROVE  DBInv'
<1> DEFINE n == RowsFound(query[w].statement)
<1>t. DBType /\ PoolCarries /\ dbpc[w] = "execute"
  BY DEF DBInv, execute, comError
<1>1. Built(query[w]) /\ Carries(query[w])
  BY <1>t DEF DBInv, WorkersCarry, Working
<1>2. n \in Nat
  BY <1>1, FoundIsPlayer
<1> HIDE DEF n
<1>3. PICK r \in {Unopened, Opened(n), NotFetched(n)} :
        /\ beginDelete(w, r) /\ UNCHANGED <<queryPool_, query>>
  BY DEF execute, comError, Executed, n
<1>4. /\ r \in Record /\ moveFirst(r) \in Record
      /\ r.state = "open" => r.rows = n
      /\ moveFirst(r).state = "open" => moveFirst(r).rows = n
  BY <1>2 DEF Unopened, Opened, NotFetched, Record, moveFirst
<1>5. PICK s \in {r, moveFirst(r)} :
        /\ record_' = [record_ EXCEPT ![w] = s]
        /\ result_' = [result_ EXCEPT ![w] = FALSE]
        /\ dbpc' = [dbpc EXCEPT ![w] = "rows"]
  BY <1>3 DEF beginDelete, ResultBefore, DBGoto
<1>6. s \in Record /\ (s.state = "open" => s.rows = n)
  BY <1>4, <1>5
<1>7. DBType'
  BY <1>t, <1>3, <1>5, <1>6 DEF DBType
<1>8. /\ record_'[w] = s /\ result_'[w] = FALSE /\ query'[w] = query[w]
      /\ \A v \in DBWorker \ {w} : /\ dbpc'[v] = dbpc[v] /\ query'[v] = query[v]
                                   /\ record_'[v] = record_[v] /\ result_'[v] = result_[v]
  BY <1>t, <1>3, <1>5 DEF DBType
<1> QED BY <1>t, <1>1, <1>3, <1>6, <1>7, <1>8, PoolStays, OneWorker DEF n

LEMMA Reads ==
  ASSUME DBInv, UNCHANGED requests, NEW w \in DBWorker, nextRow(w)
  PROVE  DBInv'
<1> DEFINE r == record_[w]
           n == RowsFound(query[w].statement)
<1>t. DBType /\ PoolCarries /\ dbpc[w] = "rows" /\ UNCHANGED <<queryPool_, query>>
  BY DEF DBInv, nextRow
<1>1. Built(query[w]) /\ Carries(query[w])
  BY <1>t DEF DBInv, WorkersCarry, Working
<1>2. r \in Record /\ (r.state = "open" => r.rows = n) /\ (result_[w] => n > 0)
  BY <1>t DEF DBInv, DBType, RowsAreRead
<1>3. moveNext(r) \in Record /\ (moveNext(r).state = "open" => moveNext(r).rows = n)
  BY <1>2 DEF moveNext, isEof, Record
<1>4. get(r) => n > 0
  BY <1>2 DEF get, isEof, Record
<1>5. /\ dbpc' \in [DBWorker -> {"loop", "pop", "execute", "rows", "send"}]
      /\ \A v \in DBWorker \ {w} : dbpc'[v] = dbpc[v]
  BY <1>t DEF nextRow, DBGoto, DBType
<1>6. /\ record_' \in [DBWorker -> Record]
      /\ record_'[w] \in {r, moveNext(r)} /\ \A v \in DBWorker \ {w} : record_'[v] = record_[v]
  BY <1>t, <1>2, <1>3 DEF nextRow, DBType
<1>7. /\ result_' \in [DBWorker -> BOOLEAN]
      /\ result_'[w] => result_[w] \/ get(r)
      /\ \A v \in DBWorker \ {w} : result_'[v] = result_[v]
  <2>1. CASE UNCHANGED result_
    BY <1>t, <2>1 DEF DBType
  <2>2. CASE result_' = [result_ EXCEPT ![w] = @ \/ get(r)]
    BY <1>t, <2>2 DEF DBType, get
  <2> QED BY <2>1, <2>2 DEF nextRow
<1>8. DBType'
  BY <1>t, <1>5, <1>6, <1>7 DEF DBType
<1> QED BY <1>t, <1>1, <1>2, <1>3, <1>4, <1>5, <1>6, <1>7, <1>8, PoolStays, OneWorker

LEMMA SendsAnswer ==
  ASSUME FlowInv, NEW w \in DBWorker, SendAnswer(w)
  PROVE  FlowInv'
<1> DEFINE to == IF query[w].type = "I_DB_REQ_ID_PW" THEN D_L ELSE D_C
           type == IF query[w].type = "I_DB_REQ_ID_PW" THEN "I_DB_ANS_ID_PW"
                                                       ELSE "I_DB_ANS_PARSE_DATA"
           a == Packet(type, query[w].clientId_, query[w].oid, result_[w], query[w].req)
<1>1. /\ deleteQuery(w) /\ sendPacket(<<>>, query[w], to, a)
      /\ UNCHANGED <<proc, clientVars, requests, run, delivered>>
  BY DEF SendAnswer
<1>t. DBType /\ PoolCarries /\ dbpc[w] = "send"
  BY <1>1 DEF FlowInv, DBInv, deleteQuery
<1>2. /\ Built(query[w]) /\ Carries(query[w])
      /\ result_[w] \in BOOLEAN /\ (result_[w] => RowsFound(query[w].statement) > 0)
  BY <1>t DEF FlowInv, DBInv, DBType, WorkersCarry, RowsAreRead, Working
<1>3. type \in PacketType /\ query[w] \in DBQuery
  BY <1>2 DEF PacketType, Built
<1>4. a \in Token /\ Carries(a)
  BY <1>2, <1>3 DEF Packet, Token, DBQuery, Carries
<1>5. Honest(to, a)
  <2>1. query[w].type = "I_DB_REQ_ID_PW" => to \notin {D_C, C_L}
    BY DEF D_L, D_C, C_L
  <2>2. a.result_ = result_[w] /\ a.oid = query[w].oid
    BY DEF Packet
  <2> QED BY <1>2, <2>1, <2>2, FoundIsPlayer DEF Honest
<1> HIDE DEF to, a
<1>6. PacketsCarry'
  BY <1>1, <1>4, <1>5, PacketSent DEF FlowInv
<1>7. ClientInv' /\ AnswersAreRight'
  BY <1>1, ClientStays, AnswersStay DEF FlowInv, ClientInv, ClientType, clientVars
<1>8. DBInv'
  <2>1. DBType' /\ dbpc'[w] = "loop" /\ UNCHANGED queryPool_
        /\ \A v \in DBWorker \ {w} : /\ dbpc'[v] = dbpc[v] /\ query'[v] = query[v]
                                     /\ record_'[v] = record_[v] /\ result_'[v] = result_[v]
    BY <1>1, <1>t DEF DBType, deleteQuery, DBGoto, Unopened, Record
  <2> QED BY <1>t, <1>1, <2>1, PoolStays, OneWorker DEF FlowInv
<1> QED BY <1>6, <1>7, <1>8 DEF FlowInv

LEMMA Works ==
  ASSUME FlowInv, NEW w \in DBWorker, DBThread(w) \/ DBFault(w)
  PROVE  FlowInv'
<1>1. CASE SendAnswer(w)
  BY <1>1, SendsAnswer
<1>2. CASE ~SendAnswer(w)
  <2>1. UNCHANGED <<netVars, clientVars, history>>
    BY <1>2 DEF DBThread, DBFault
  <2>2. UNCHANGED <<proc, onTheWay, sessionId, idSeed_, asked, requests, run, delivered>>
    BY <2>1 DEF netVars, clientVars, history
  <2>3. ClientInv' /\ PacketsCarry' /\ AnswersAreRight'
    BY <2>2, ClientStays, PacketsStay, AnswersStay DEF FlowInv, ClientInv, ClientType
  <2>4. \/ runQueryCount(w) \/ popQuery(w)
        \/ execute(w, RowsFound(query[w].statement)) \/ comError(w)
        \/ nextRow(w)
        \/ LoseConnection(w)
    BY <1>2 DEF DBThread, DBFault
  <2>5. LoseConnection(w) => DBInv'
    BY <2>2 DEF FlowInv, LoseConnection, DBInv, DBType, PoolCarries, WorkersCarry, RowsAreRead,
       Carries, Working
  <2>6. DBInv'
    BY <2>2, <2>4, <2>5, Pops, Executes, Reads DEF FlowInv
  <2> QED BY <2>3, <2>6 DEF FlowInv
<1> QED BY <1>1, <1>2

(***************************************************************************)
(* Connections and servers.                                                *)
(***************************************************************************)
LEMMA Connections ==
  ASSUME FlowInv, NEW l \in Link, connectProcess(l) \/ ConnectionBreaks(l)
  PROVE  FlowInv'
<1>1. UNCHANGED <<dbVars, clientVars, requests, run, delivered>>
  BY DEF connectProcess, ConnectionBreaks, history
<1>2. DBInv' /\ AnswersAreRight'
  BY <1>1, DBStays, AnswersStay DEF FlowInv
<1>3. PacketsCarry'
  <2>1. onTheWay \in [Link -> SUBSET Token]
    BY DEF FlowInv, PacketsCarry
  <2>2. onTheWay' \in [Link -> SUBSET Token] /\ \A k \in Link : onTheWay'[k] \subseteq onTheWay[k]
    <3>1. CASE connectProcess(l)
      BY <2>1, <3>1 DEF connectProcess, connectTo, tryConnect
    <3>2. CASE ConnectionBreaks(l)
      BY <2>1, <3>2 DEF ConnectionBreaks, Disconnect, Drop
    <3> QED BY <3>1, <3>2
  <2> QED BY <1>1, <2>2, PacketsLost DEF FlowInv
<1>4. ClientInv'
  <2>1. proc \in [Server -> {"up", "down", "stopping"}] /\ l[1] \in Server
    BY TerminalsConstants DEF FlowInv, ClientInv, LoggedOut
  <2>2. /\ proc' \in [Server -> {"up", "down", "stopping"}]
        /\ proc'["Login"] = "down" => proc["Login"] = "down"
    <3>1. \/ UNCHANGED proc
          \/ proc' = [proc EXCEPT ![l[1]] = "stopping"]
      BY DEF connectProcess, ConnectionBreaks, connectTo, tryConnect, Disconnect
    <3>2. "Login" \in Server
      BY LoginConstants
    <3> QED BY <2>1, <3>1, <3>2
  <2> QED BY <1>1, <2>2 DEF clientVars, FlowInv, ClientInv, ClientType, AskedCarry, Carries,
          OneSessionEach, LoggedOut, IdsTellWho
<1> QED BY <1>2, <1>3, <1>4 DEF FlowInv

LEMMA Servers ==
  ASSUME FlowInv, NEW s \in Server, ServerGoes(s) \/ ServerStarts(s)
  PROVE  FlowInv'
<1>1. UNCHANGED <<requests, delivered>>
  BY DEF ServerGoes, ServerStarts
<1>2. AnswersAreRight'
  BY <1>1, AnswersStay DEF FlowInv
<1>3. PacketsCarry'
  <2>1. onTheWay \in [Link -> SUBSET Token]
    BY DEF FlowInv, PacketsCarry
  <2>2. onTheWay' \in [Link -> SUBSET Token] /\ \A k \in Link : onTheWay'[k] \subseteq onTheWay[k]
    BY <2>1 DEF ServerGoes, ServerStarts, Goes, Starts, Drop
  <2> QED BY <1>1, <2>2, PacketsLost DEF FlowInv
<1>4. DBInv'
  <2>1. CASE UNCHANGED dbVars
    BY <1>1, <2>1, DBStays DEF FlowInv
  <2>2. CASE ServerGoes(s) /\ s = "DBAgent"
    <3>1. /\ queryPool_' = <<>> /\ dbpc' = [w \in DBWorker |-> "loop"]
          /\ query' = [w \in DBWorker |-> NoQuery]
          /\ record_' = [w \in DBWorker |-> Unopened]
          /\ result_' = [w \in DBWorker |-> FALSE]
      BY <2>2 DEF ServerGoes
    <3> QED BY <3>1 DEF DBInv, DBType, PoolCarries, WorkersCarry, RowsAreRead, Working,
            Unopened, Record
  <2> QED BY <2>1, <2>2 DEF ServerGoes, ServerStarts
<1>5. ClientInv'
  <2>t. ClientType /\ AskedCarry /\ OneSessionEach /\ LoggedOut /\ IdsTellWho
        /\ "Login" \in Server
    BY LoginConstants DEF FlowInv, ClientInv
  <2>1. CASE ServerGoes(s)
    <3>1. /\ UNCHANGED <<idSeed_, run, requests, delivered>>
          /\ proc' = [proc EXCEPT ![s] = "down"]
          /\ \/ s = "Login" /\ sessionId' = [c \in Client |-> 0] /\ asked' = {}
             \/ s # "Login" /\ UNCHANGED <<sessionId, asked>>
      BY <2>1 DEF ServerGoes, Goes
    <3>2. /\ sessionId' \in [Client -> Nat]
          /\ \A c \in Client : sessionId'[c] = sessionId[c] \/ sessionId'[c] = 0
      BY <2>t, <3>1 DEF ClientType
    <3>3. ClientType' /\ AskedCarry'
      BY <2>t, <3>1, <3>2 DEF ClientType, AskedCarry, Carries
    <3>4. OneSessionEach'
      BY <2>t, <3>1, <3>2 DEF ClientType, OneSessionEach
    <3>5. LoggedOut'
      BY <2>t, <3>1 DEF LoggedOut
    <3>6. IdsTellWho'
      BY <2>t, <3>1, <3>2 DEF IdsTellWho
    <3> QED BY <3>3, <3>4, <3>5, <3>6 DEF ClientInv
  <2>2. CASE ServerStarts(s)
    <3>1. /\ UNCHANGED <<sessionId, asked, requests, delivered>>
          /\ proc' = [proc EXCEPT ![s] = "up"] /\ proc[s] = "down"
          /\ \/ s = "Login" /\ idSeed_' = 0 /\ run' = run + 1
             \/ s # "Login" /\ UNCHANGED <<idSeed_, run>>
      BY <2>2 DEF ServerStarts, Starts
    <3>2. ClientType' /\ AskedCarry'
      BY <2>t, <3>1 DEF ClientType, AskedCarry, Carries
    <3>3. OneSessionEach'
      BY <2>t, <3>1 DEF ClientType, OneSessionEach, LoggedOut
    <3>4. LoggedOut'
      BY <2>t, <3>1 DEF LoggedOut
    <3>5. IdsTellWho'
      <4>1. \A n \in DOMAIN requests : requests[n] \in Request
        BY <2>t DEF ClientType
      <4>2. \A n \in DOMAIN requests : requests[n].run \in Nat
        BY <4>1 DEF Request
      <4>3. CASE s = "Login"
        BY <2>t, <3>1, <4>2, <4>3 DEF ClientType, IdsTellWho
      <4>4. CASE s # "Login"
        BY <2>t, <3>1, <4>4 DEF IdsTellWho
      <4> QED BY <4>3, <4>4
    <3> QED BY <3>2, <3>3, <3>4, <3>5 DEF ClientInv
  <2> QED BY <2>1, <2>2
<1> QED BY <1>2, <1>3, <1>4, <1>5 DEF FlowInv

-----------------------------------------------------------------------------
LEMMA StepKeeps == FlowInv /\ [Next]_vars => FlowInv'
<1> SUFFICES ASSUME FlowInv, [Next]_vars PROVE FlowInv'
  OBVIOUS
<1>1. CASE UNCHANGED vars
  <2>1. UNCHANGED <<dbVars, proc, onTheWay, sessionId, idSeed_, asked, requests, run, delivered>>
    BY <1>1 DEF vars, netVars, clientVars, history
  <2> QED BY <2>1, DBStays, PacketsStay, ClientStays, AnswersStay
          DEF FlowInv, ClientInv, ClientType
<1>2. ASSUME NEW c \in Client, OpenSession(c) \/ CloseSession(c) \/ Ask(c) PROVE FlowInv'
  BY <1>2, Opens, Closes, Asks
<1>3. CASE Handler
  BY <1>3, HandlersKeep, Queues DEF Handler
<1>4. ASSUME NEW w \in DBWorker, DBThread(w) \/ DBFault(w) PROVE FlowInv'
  BY <1>4, Works
<1>5. ASSUME NEW l \in Link, connectProcess(l) \/ ConnectionBreaks(l) PROVE FlowInv'
  BY <1>5, Connections
<1>6. ASSUME NEW s \in Server, ServerGoes(s) \/ ServerStarts(s) PROVE FlowInv'
  BY <1>6, Servers
<1> QED BY <1>1, <1>2, <1>3, <1>4, <1>5, <1>6 DEF Next

LEMMA FlowInvariant == Spec => []FlowInv
BY InitEstablishes, StepKeeps, PTL DEF Spec

(***************************************************************************)
(* LoginProcess.cpp finds the client of an answer by its session id alone. *)
(* As long as the login server has not been started again since, that is   *)
(* the client that asked, however many clients share the id space and      *)
(* however often connections break and queries fail.                       *)
(***************************************************************************)
THEOREM AnswersFindAsker == Spec => []AnswerGoesToWhoAsked
<1>1. FlowInv => AnswerGoesToWhoAsked
  BY DEF FlowInv, AnswersAreRight, AnswerGoesToWhoAsked
<1> QED BY <1>1, FlowInvariant, PTL

(***************************************************************************)
(* QI_DB_REQ_LOAD_DATA.h answers TRUE only after it has read a row of its  *)
(* own query, and neither server on the way back mixes answers up: a       *)
(* client is told of success only if its account has a character.          *)
(***************************************************************************)
THEOREM SuccessIsTrue == Spec => []SuccessIsEarned
<1>1. FlowInv => SuccessIsEarned
  BY DEF FlowInv, AnswersAreRight, SuccessIsEarned
<1> QED BY <1>1, FlowInvariant, PTL

-----------------------------------------------------------------------------
(***************************************************************************)
(* A request is in one place at a time: with its client, on one of the     *)
(* connections, in the pool of queries, at one database thread, or         *)
(* answered; and there it is once.  So it cannot be answered twice.        *)
(***************************************************************************)
IsAsked(n) == \E p \in asked : p.req = n
IsSent(n) == \E l \in Link : \E p \in onTheWay[l] : p.req = n
IsPooled(n) == \E i \in 1..Len(queryPool_) : queryPool_[i].req = n
IsWorkedAt(n) == \E w \in DBWorker : Working(w) /\ query[w].req = n

Apart(n) ==
  /\ IsAsked(n) => ~IsSent(n) /\ ~IsPooled(n) /\ ~IsWorkedAt(n) /\ ~Answers(n)
  /\ IsSent(n) => ~IsPooled(n) /\ ~IsWorkedAt(n) /\ ~Answers(n)
  /\ IsPooled(n) => ~IsWorkedAt(n) /\ ~Answers(n)
  /\ IsWorkedAt(n) => ~Answers(n)

PlacesApart == \A n \in DOMAIN requests : Apart(n)

OneAsked == \A p, q \in asked : p.req = q.req => p = q
OneSent == \A l, k \in Link : \A p \in onTheWay[l], q \in onTheWay[k] :
             p.req = q.req => l = k /\ p = q
OnePooled == \A i, j \in 1..Len(queryPool_) : queryPool_[i].req = queryPool_[j].req => i = j
OneAtWork == \A v, w \in DBWorker :
               Working(v) /\ Working(w) /\ query[v].req = query[w].req => v = w

OneEach == OneAsked /\ OneSent /\ OnePooled /\ OneAtWork /\ AnsweredOnce

OnceInv == PlacesApart /\ OneEach

\* a step after which request n is in no place where it was not before
Fewer(n) == /\ n \in DOMAIN requests' => n \in DOMAIN requests
            /\ IsAsked(n)' => IsAsked(n)
            /\ IsSent(n)' => IsSent(n)
            /\ IsPooled(n)' => IsPooled(n)
            /\ IsWorkedAt(n)' => IsWorkedAt(n)
            /\ Answers(n)' => Answers(n)

LEMMA OneMoves ==
  ASSUME PlacesApart, NEW n, n \in DOMAIN requests' => Apart(n)',
         \A m \in DOMAIN requests' \ {n} : Fewer(m)
  PROVE  PlacesApart'
<1>1. ASSUME NEW m \in DOMAIN requests', m # n PROVE Apart(m)'
  <2>1. Fewer(m) /\ Apart(m)
    BY <1>1 DEF Fewer, PlacesApart
  <2> QED BY <2>1 DEF Fewer, Apart
<1> QED BY <1>1 DEF PlacesApart

(***************************************************************************)
(* What leaves a place as it is, or takes something away from it.          *)
(***************************************************************************)
LEMMA AskedFewer ==
  ASSUME OneAsked, asked' \subseteq asked
  PROVE  OneAsked' /\ \A m : IsAsked(m)' => IsAsked(m)
BY DEF OneAsked, IsAsked

LEMMA SentFewer ==
  ASSUME OneSent, \A l \in Link : onTheWay'[l] \subseteq onTheWay[l]
  PROVE  OneSent' /\ \A m : IsSent(m)' => IsSent(m)
<1>1. OneSent'
  BY DEF OneSent
<1>2. ASSUME NEW m, IsSent(m)' PROVE IsSent(m)
  BY <1>2 DEF IsSent
<1> QED BY <1>1, <1>2

LEMMA PooledStay ==
  ASSUME OnePooled, UNCHANGED queryPool_
  PROVE  OnePooled' /\ \A m : IsPooled(m)' <=> IsPooled(m)
BY DEF OnePooled, IsPooled

LEMMA WorkFewer ==
  ASSUME OneAtWork, \A w \in DBWorker : Working(w)' => Working(w) /\ query'[w] = query[w]
  PROVE  OneAtWork' /\ \A m : IsWorkedAt(m)' => IsWorkedAt(m)
<1>1. OneAtWork'
  BY DEF OneAtWork
<1>2. ASSUME NEW m, IsWorkedAt(m)' PROVE IsWorkedAt(m)
  BY <1>2 DEF IsWorkedAt
<1> QED BY <1>1, <1>2

LEMMA ToldStay ==
  ASSUME AnsweredOnce, UNCHANGED delivered
  PROVE  AnsweredOnce' /\ \A m : Answers(m)' <=> Answers(m)
BY DEF AnsweredOnce, Answers

\* one packet is sent about the request of another that has been handled
LEMMA SentMoves ==
  ASSUME OneSent, OnceInv, NEW from, NEW p, NEW to, NEW a, a.req = p.req,
         sendPacket(from, p, to, a),
         (from \in Link /\ p \in onTheWay[from]) \/ ~IsSent(p.req)
  PROVE  OneSent' /\ \A m : m # p.req => (IsSent(m)' => IsSent(m))
<1>1. ASSUME NEW l \in Link, NEW x \in onTheWay'[l]
      PROVE  x \in onTheWay[l] \/ (l = to /\ x = a)
  BY <1>1 DEF sendPacket
<1>2. ASSUME NEW l \in Link, NEW x \in onTheWay'[l], x.req = p.req
      PROVE  l = to /\ x = a
  <2>1. CASE from \in Link /\ p \in onTheWay[from]
    <3>1. x \in onTheWay[l] => l = from /\ x = p
      BY <1>2, <2>1 DEF OneSent
    <3>2. l = from => x # p
      BY <2>1 DEF sendPacket
    <3> QED BY <1>1, <3>1, <3>2
  <2>2. CASE ~IsSent(p.req)
    BY <1>1, <1>2, <2>2 DEF IsSent
  <2> QED BY <2>1, <2>2
<1>3. ASSUME NEW l \in Link, NEW k \in Link, NEW x \in onTheWay'[l], NEW y \in onTheWay'[k],
             x.req = y.req
      PROVE  l = k /\ x = y
  <2>1. CASE x.req = p.req
    BY <1>2, <1>3, <2>1
  <2>2. CASE x.req # p.req
    BY <1>1, <1>3, <2>2 DEF OneSent
  <2> QED BY <2>1, <2>2
<1>4. ASSUME NEW m, m # p.req, IsSent(m)' PROVE IsSent(m)
  BY <1>1, <1>4 DEF IsSent
<1> QED BY <1>3, <1>4 DEF OneSent

LEMMA AllFewer ==
  ASSUME OnceInv, UNCHANGED <<requests, delivered>>, asked' \subseteq asked,
         \A l \in Link : onTheWay'[l] \subseteq onTheWay[l],
         queryPool_' = queryPool_ \/ queryPool_' = <<>>,
         \A w \in DBWorker : Working(w)' => Working(w) /\ query'[w] = query[w]
  PROVE  OnceInv'
<1>1. OneAsked' /\ \A m : IsAsked(m)' => IsAsked(m)
  BY AskedFewer DEF OnceInv, OneEach
<1>2. OneSent' /\ \A m : IsSent(m)' => IsSent(m)
  BY SentFewer DEF OnceInv, OneEach
<1>3. OnePooled' /\ \A m : IsPooled(m)' => IsPooled(m)
  <2>1. CASE queryPool_' = queryPool_
    BY <2>1, PooledStay DEF OnceInv, OneEach
  <2>2. CASE queryPool_' = <<>>
    BY <2>2 DEF OnePooled, IsPooled
  <2> QED BY <2>1, <2>2
<1>4. OneAtWork' /\ \A m : IsWorkedAt(m)' => IsWorkedAt(m)
  BY WorkFewer DEF OnceInv, OneEach
<1>5. AnsweredOnce' /\ \A m : Answers(m)' => Answers(m)
  BY ToldStay DEF OnceInv, OneEach
<1>6. \A m \in DOMAIN requests' : Fewer(m)
  BY <1>1, <1>2, <1>3, <1>4, <1>5 DEF Fewer
<1>7. PlacesApart'
  BY <1>6, OneMoves DEF OnceInv
<1> QED BY <1>1, <1>2, <1>3, <1>4, <1>5, <1>7 DEF OnceInv, OneEach

(***************************************************************************)
(* A request is made, with a number nothing carries yet.                   *)
(***************************************************************************)
LEMMA AskMoves ==
  ASSUME FlowInv, OnceInv, NEW c \in Client, Ask(c)
  PROVE  OnceInv'
<1>1. PICK n, p :
        /\ asked' = asked \cup {p} /\ p.req = n /\ n \in Nat /\ n \notin DOMAIN requests
        /\ DOMAIN requests' = DOMAIN requests \cup {n}
        /\ UNCHANGED <<dbVars, onTheWay, delivered>>
  <2> DEFINE p == Packet("C_REQ_ID_PW", sessionId[c], c, FALSE, Len(requests) + 1)
  <2>1. /\ asked' = asked \cup {p} /\ UNCHANGED <<dbVars, onTheWay, delivered>>
        /\ DOMAIN requests' = DOMAIN requests \cup {Len(requests) + 1}
        /\ Len(requests) + 1 \in Nat \ DOMAIN requests
    BY DEF Ask, FlowInv, ClientInv, ClientType, netVars
  <2>2. p.req = Len(requests) + 1
    BY DEF Packet
  <2> QED BY <2>1, <2>2
<1>2. /\ ~IsAsked(n)
      /\ ~IsSent(n) /\ ~IsPooled(n) /\ ~IsWorkedAt(n) /\ ~Answers(n)
  <2>1. ~IsAsked(n) /\ ~IsSent(n)
    BY <1>1 DEF FlowInv, ClientInv, AskedCarry, PacketsCarry, Carries, IsAsked, IsSent
  <2>2. ~IsPooled(n) /\ ~IsWorkedAt(n)
    BY <1>1 DEF FlowInv, DBInv, PoolCarries, WorkersCarry, Carries, IsPooled, IsWorkedAt
  <2>3. ~Answers(n)
    BY <1>1 DEF FlowInv, AnswersAreRight, Answers
  <2> QED BY <2>1, <2>2, <2>3
<1>3. OneAsked' /\ \A m : m # n => (IsAsked(m)' => IsAsked(m))
  BY <1>1, <1>2 DEF OnceInv, OneEach, OneAsked, IsAsked
<1>4. OneSent' /\ \A m : IsSent(m)' => IsSent(m)
  BY <1>1, SentFewer DEF OnceInv, OneEach
<1>5. OnePooled' /\ OneAtWork'
      /\ \A m : (IsPooled(m)' => IsPooled(m)) /\ (IsWorkedAt(m)' => IsWorkedAt(m))
  BY <1>1, PooledStay, WorkFewer DEF OnceInv, OneEach, dbVars, Working
<1>6. AnsweredOnce' /\ \A m : Answers(m)' => Answers(m)
  BY <1>1, ToldStay DEF OnceInv, OneEach
<1>7. Apart(n)'
  BY <1>2, <1>4, <1>5, <1>6 DEF Apart
<1>8. \A m \in DOMAIN requests' \ {n} : Fewer(m)
  BY <1>1, <1>3, <1>4, <1>5, <1>6 DEF Fewer
<1>9. PlacesApart'
  BY <1>7, <1>8, OneMoves DEF OnceInv
<1> QED BY <1>3, <1>4, <1>5, <1>6, <1>9 DEF OnceInv, OneEach

(***************************************************************************)
(* A handler makes one packet of another, or an answer.                    *)
(***************************************************************************)
LEMMA ForwardMoves ==
  ASSUME OnceInv, UNCHANGED <<dbVars, requests, delivered>>, asked' \subseteq asked,
         NEW from, NEW p, NEW to, NEW type, NEW id, NEW result,
         Forward(from, p, to, type, id, result),
         \/ from \in Link /\ p \in onTheWay[from]
         \/ p \in asked /\ p \notin asked',
         p.req \in DOMAIN requests
  PROVE  OnceInv'
<1> DEFINE a == Packet(type, id, p.oid, result, p.req)
           n == p.req
<1>1. a.req = n /\ sendPacket(from, p, to, a)
  BY DEF Forward, Packet
<1> HIDE DEF a
<1>2. Apart(n) /\ (IsSent(n) \/ IsAsked(n))
  BY DEF OnceInv, PlacesApart, IsSent, IsAsked
<1>3. OneAsked' /\ \A m : IsAsked(m)' => IsAsked(m)
  BY AskedFewer DEF OnceInv, OneEach
<1>4. ~IsAsked(n)'
  <2>1. CASE from \in Link /\ p \in onTheWay[from]
    BY <1>2, <1>3, <2>1 DEF IsSent, Apart
  <2>2. CASE p \in asked /\ p \notin asked'
    BY <2>2 DEF OnceInv, OneEach, OneAsked, IsAsked
  <2> QED BY <2>1, <2>2
<1>5. (from \in Link /\ p \in onTheWay[from]) \/ ~IsSent(n)
  BY <1>2 DEF Apart, IsAsked
<1>6. OneSent' /\ \A m : m # n => (IsSent(m)' => IsSent(m))
  BY <1>1, <1>5, SentMoves DEF OnceInv, OneEach
<1>7. OnePooled' /\ OneAtWork'
      /\ \A m : (IsPooled(m)' => IsPooled(m)) /\ (IsWorkedAt(m)' => IsWorkedAt(m))
  BY PooledStay, WorkFewer DEF OnceInv, OneEach, dbVars, Working
<1>8. AnsweredOnce' /\ \A m : Answers(m)' => Answers(m)
  BY ToldStay DEF OnceInv, OneEach
<1>9. Apart(n)'
  BY <1>2, <1>4, <1>7, <1>8 DEF Apart
<1>10. \A m \in DOMAIN requests' \ {n} : Fewer(m)
  BY <1>3, <1>6, <1>7, <1>8 DEF Fewer
<1>11. PlacesApart'
  BY <1>9, <1>10, OneMoves DEF OnceInv
<1> QED BY <1>3, <1>6, <1>7, <1>8, <1>11 DEF OnceInv, OneEach

LEMMA AnswerMoves ==
  ASSUME FlowInv, OnceInv, UNCHANGED <<dbVars, asked, requests>>,
         NEW l \in Link, NEW p \in onTheWay[l], Handled(l, p),
         NEW type, UNCHANGED delivered \/ Deliver(p, type)
  PROVE  OnceInv'
<1> DEFINE n == p.req
<1>1. onTheWay' = [onTheWay EXCEPT ![l] = @ \ {p}] /\ onTheWay \in [Link -> SUBSET Token]
  BY DEF Handled, FlowInv, PacketsCarry
<1>2. \A k \in Link : onTheWay'[k] \subseteq onTheWay[k]
  BY <1>1
<1>3. CASE UNCHANGED delivered
  BY <1>2, <1>3, AllFewer DEF dbVars, Working
<1>4. CASE Deliver(p, type)
  <2>1. n \in DOMAIN requests /\ IsSent(n) /\ Apart(n)
    BY PacketHeld DEF Carries, OnceInv, PlacesApart, IsSent
  <2>2. ~Answers(n) /\ ~IsAsked(n) /\ ~IsPooled(n) /\ ~IsWorkedAt(n)
    BY <2>1 DEF Apart
  <2>3. PICK a : delivered' = Append(delivered, a) /\ a.req = n
    BY <1>4 DEF Deliver
  <2>4. /\ DOMAIN delivered' = DOMAIN delivered \cup {Len(delivered) + 1}
        /\ delivered'[Len(delivered) + 1] = a
        /\ \A i \in DOMAIN delivered : delivered'[i] = delivered[i]
    BY <2>3 DEF FlowInv, ClientInv, ClientType
  <2>5. AnsweredOnce' /\ \A m : m # n => (Answers(m)' => Answers(m))
    BY <2>2, <2>3, <2>4 DEF OnceInv, OneEach, AnsweredOnce, Answers
  <2>6. OneSent' /\ (\A m : IsSent(m)' => IsSent(m)) /\ ~IsSent(n)'
    <3>1. ASSUME NEW k \in Link, NEW x \in onTheWay'[k] PROVE x.req # n
      BY <1>1, <1>2 DEF OnceInv, OneEach, OneSent
    <3> QED BY <1>2, <3>1, SentFewer DEF OnceInv, OneEach, IsSent
  <2>7. OnePooled' /\ OneAtWork' /\ OneAsked'
        /\ \A m : /\ IsPooled(m)' => IsPooled(m)
                  /\ IsWorkedAt(m)' => IsWorkedAt(m)
                  /\ IsAsked(m)' => IsAsked(m)
    BY PooledStay, WorkFewer, AskedFewer DEF OnceInv, OneEach, dbVars, Working
  <2>8. Apart(n)'
    BY <2>2, <2>6, <2>7 DEF Apart
  <2>9. \A m \in DOMAIN requests' \ {n} : Fewer(m)
    BY <2>5, <2>6, <2>7 DEF Fewer
  <2>10. PlacesApart'
    BY <2>8, <2>9, OneMoves DEF OnceInv
  <2> QED BY <2>5, <2>6, <2>7, <2>10 DEF OnceInv, OneEach
<1> QED BY <1>3, <1>4

LEMMA HandlersMove ==
  ASSUME FlowInv, OnceInv, NEW p,
         \/ C_REQ_ID_PW(p) \/ I_DB_ANS_ID_PW(p) \/ I_LOGIN_NOTIFY_ID_LOADED(p)
         \/ I_CHTTING_NOTIFY_ID(p) \/ I_DB_ANS_PARSE_DATA(p)
  PROVE  OnceInv'
<1>1. CASE C_REQ_ID_PW(p)
  <2>1. p \in asked /\ p \notin asked' /\ asked' \subseteq asked
        /\ Forward(<<>>, p, L_D, "I_DB_REQ_ID_PW", p.clientId_, FALSE)
        /\ UNCHANGED <<dbVars, requests, delivered>>
    BY <1>1 DEF C_REQ_ID_PW
  <2>2. p.req \in DOMAIN requests
    BY <2>1 DEF FlowInv, ClientInv, AskedCarry, Carries
  <2> QED BY <2>1, <2>2, ForwardMoves
<1>2. CASE I_DB_ANS_ID_PW(p)
  <2>1. D_L \in Link /\ p \in onTheWay[D_L] /\ p.req \in DOMAIN requests
        /\ UNCHANGED <<dbVars, asked, requests>>
    BY <1>2, LinkNames, PacketHeld DEF I_DB_ANS_ID_PW, Carries, clientVars
  <2>2. \/ /\ Handled(D_L, p)
           /\ UNCHANGED delivered \/ Deliver(p, "S_ANS_ID_PW_FAIL")
        \/ /\ Forward(D_L, p, L_C, "I_CHTTING_NOTIFY_ID", p.clientId_, FALSE)
           /\ UNCHANGED delivered
    BY <1>2 DEF I_DB_ANS_ID_PW
  <2> QED BY <2>1, <2>2, ForwardMoves, AnswerMoves
<1>3. CASE I_LOGIN_NOTIFY_ID_LOADED(p)
  <2>1. C_L \in Link /\ p \in onTheWay[C_L] /\ UNCHANGED <<dbVars, asked, requests>>
        /\ Handled(C_L, p) /\ (UNCHANGED delivered \/ Deliver(p, "S_ANS_ID_PW_SUCCESS"))
    BY <1>3, LinkNames DEF I_LOGIN_NOTIFY_ID_LOADED, clientVars
  <2> QED BY <2>1, AnswerMoves
<1>4. CASE I_CHTTING_NOTIFY_ID(p)
  <2>1. L_C \in Link /\ p \in onTheWay[L_C] /\ p.req \in DOMAIN requests
        /\ UNCHANGED <<dbVars, asked, requests, delivered>>
        /\ Forward(L_C, p, C_D, "I_DB_REQ_LOAD_DATA", p.clientId_, FALSE)
    BY <1>4, LinkNames, PacketHeld DEF I_CHTTING_NOTIFY_ID, Carries, clientVars
  <2> QED BY <2>1, ForwardMoves
<1>5. CASE I_DB_ANS_PARSE_DATA(p)
  <2>1. D_C \in Link /\ p \in onTheWay[D_C] /\ p.req \in DOMAIN requests
        /\ UNCHANGED <<dbVars, asked, requests, delivered>>
        /\ Forward(D_C, p, C_L, "I_LOGIN_NOTIFY_ID_LOADED", p.clientId_, p.result_)
    BY <1>5, LinkNames, PacketHeld DEF I_DB_ANS_PARSE_DATA, Carries, clientVars
  <2> QED BY <2>1, ForwardMoves
<1> QED BY <1>1, <1>2, <1>3, <1>4, <1>5

(***************************************************************************)
(* The DBAgent: from a connection to the pool, to a thread, and back.      *)
(***************************************************************************)
LEMMA QueueMoves ==
  ASSUME FlowInv, OnceInv, NEW l \in {L_D, C_D}, NEW p, I_DB_REQ(l, p)
  PROVE  OnceInv'
<1> DEFINE n == p.req
           q == Query(p)
<1>1. /\ l \in Link /\ p \in onTheWay[l] /\ p \in Token /\ n \in DOMAIN requests
      /\ onTheWay' = [onTheWay EXCEPT ![l] = @ \ {p}] /\ onTheWay \in [Link -> SUBSET Token]
      /\ UNCHANGED <<asked, requests, delivered, dbpc, query>>
      /\ queryPool_' = Append(queryPool_, q) /\ queryPool_ \in Seq(DBQuery)
  BY LinkNames, PacketHeld
  DEF I_DB_REQ, Handled, pushQuery, clientVars, history, Carries, FlowInv, PacketsCarry,
      DBInv, DBType
<1>2. q.req = n /\ q \in DBQuery
  BY <1>1, QueryIsBuilt DEF Built
<1> HIDE DEF q
<1>3. /\ Len(queryPool_) \in Nat /\ Len(queryPool_') = Len(queryPool_) + 1
      /\ queryPool_'[Len(queryPool_) + 1] = q
      /\ \A i \in 1..Len(queryPool_) : queryPool_'[i] = queryPool_[i]
  BY <1>1, <1>2
<1>4. IsSent(n) /\ Apart(n)
  BY <1>1 DEF IsSent, OnceInv, PlacesApart
<1>5. ~IsPooled(n) /\ ~IsAsked(n) /\ ~IsWorkedAt(n) /\ ~Answers(n)
  BY <1>4 DEF Apart
<1>6. OneSent' /\ (\A m : IsSent(m)' => IsSent(m)) /\ ~IsSent(n)'
  <2>1. \A k \in Link : onTheWay'[k] \subseteq onTheWay[k]
    BY <1>1
  <2>2. ASSUME NEW k \in Link, NEW x \in onTheWay'[k] PROVE x.req # n
    BY <1>1, <2>1 DEF OnceInv, OneEach, OneSent
  <2> QED BY <2>1, <2>2, SentFewer DEF OnceInv, OneEach, IsSent
<1>7. OnePooled' /\ \A m : m # n => (IsPooled(m)' => IsPooled(m))
  <2>1. ASSUME NEW i \in 1..Len(queryPool_')
        PROVE  i \in 1..Len(queryPool_) \/ i = Len(queryPool_) + 1
    BY <1>3
  <2>2. OnePooled'
    BY <1>2, <1>3, <1>5, <2>1 DEF OnceInv, OneEach, OnePooled, IsPooled
  <2>3. \A m : m # n => (IsPooled(m)' => IsPooled(m))
    BY <1>2, <1>3, <2>1 DEF IsPooled
  <2> QED BY <2>2, <2>3
<1>8. OneAsked' /\ OneAtWork' /\ AnsweredOnce'
      /\ \A m : /\ IsAsked(m)' => IsAsked(m)
                /\ IsWorkedAt(m)' => IsWorkedAt(m)
                /\ Answers(m)' => Answers(m)
  BY <1>1, AskedFewer, WorkFewer, ToldStay DEF OnceInv, OneEach, Working
<1>9. Apart(n)'
  BY <1>5, <1>6, <1>8 DEF Apart
<1>10. \A m \in DOMAIN requests' \ {n} : Fewer(m)
  BY <1>1, <1>6, <1>7, <1>8 DEF Fewer
<1>11. PlacesApart'
  BY <1>9, <1>10, OneMoves DEF OnceInv
<1> QED BY <1>6, <1>7, <1>8, <1>11 DEF OnceInv, OneEach

LEMMA PopMoves ==
  ASSUME FlowInv, OnceInv, NEW w \in DBWorker, popQuery(w), queryPool_ # <<>>,
         UNCHANGED <<netVars, clientVars, history>>
  PROVE  OnceInv'
<1>1. PICK n, q :
        /\ queryPool_[1] = q /\ q.req = n /\ q \in DBQuery /\ queryPool_' = Tail(queryPool_)
        /\ query' = [query EXCEPT ![w] = q] /\ dbpc' = [dbpc EXCEPT ![w] = "execute"]
  BY DEF popQuery, DBGoto, FlowInv, DBInv, DBType
<1>2. /\ queryPool_ \in Seq(DBQuery) /\ 1 \in 1..Len(queryPool_)
      /\ Len(queryPool_) \in Nat /\ Len(queryPool_') = Len(queryPool_) - 1
      /\ \A i \in 1..Len(queryPool_') : /\ i + 1 \in 1..Len(queryPool_) /\ i \in Nat
                                        /\ queryPool_'[i] = queryPool_[i + 1]
  BY <1>1 DEF FlowInv, DBInv, DBType
<1>3. IsPooled(n) /\ n \in DOMAIN requests /\ Apart(n)
  BY <1>1, <1>2 DEF FlowInv, DBInv, PoolCarries, Carries, IsPooled, OnceInv, PlacesApart
<1>4. ~IsAsked(n) /\ ~IsSent(n) /\ ~IsWorkedAt(n) /\ ~Answers(n)
  BY <1>3 DEF Apart
<1>5. OnePooled' /\ (\A m : IsPooled(m)' => IsPooled(m)) /\ ~IsPooled(n)'
  <2>1. OnePooled'
    <3>1. ASSUME NEW i \in 1..Len(queryPool_'), NEW j \in 1..Len(queryPool_'),
                 queryPool_'[i].req = queryPool_'[j].req
          PROVE  i = j
      <4>1. i + 1 = j + 1
        BY <1>2, <3>1 DEF OnceInv, OneEach, OnePooled
      <4> QED BY <1>2, <4>1
    <3> QED BY <3>1 DEF OnePooled
  <2>2. ASSUME NEW m, IsPooled(m)' PROVE IsPooled(m) /\ m # n
    <3>1. PICK i \in 1..Len(queryPool_') : queryPool_'[i].req = m
      BY <2>2 DEF IsPooled
    <3>2. i + 1 # 1 /\ queryPool_[i + 1].req = m /\ i + 1 \in 1..Len(queryPool_)
      BY <1>2, <3>1
    <3>3. m # n
      BY <1>1, <1>2, <3>2 DEF OnceInv, OneEach, OnePooled
    <3> QED BY <3>2, <3>3 DEF IsPooled
  <2> QED BY <2>1, <2>2
<1>6. OneAtWork' /\ \A m : m # n => (IsWorkedAt(m)' => IsWorkedAt(m))
  <2>1. /\ query'[w] = q /\ dbpc'[w] = "execute"
        /\ \A v \in DBWorker \ {w} : query'[v] = query[v] /\ dbpc'[v] = dbpc[v]
    BY <1>1 DEF FlowInv, DBInv, DBType
  <2>2. ASSUME NEW v \in DBWorker, Working(v)'
        PROVE  (v # w /\ Working(v)) \/ v = w
    BY <2>1, <2>2 DEF Working
  <2>3. OneAtWork'
    BY <1>1, <1>4, <2>1, <2>2 DEF OnceInv, OneEach, OneAtWork, IsWorkedAt
  <2>4. \A m : m # n => (IsWorkedAt(m)' => IsWorkedAt(m))
    BY <1>1, <2>1, <2>2 DEF IsWorkedAt
  <2> QED BY <2>3, <2>4
<1>7. OneAsked' /\ OneSent' /\ AnsweredOnce'
      /\ \A m : /\ IsAsked(m)' => IsAsked(m)
                /\ IsSent(m)' => IsSent(m)
                /\ Answers(m)' => Answers(m)
  BY AskedFewer, SentFewer, ToldStay DEF OnceInv, OneEach, netVars, clientVars, history
<1>8. Apart(n)'
  BY <1>4, <1>5, <1>7 DEF Apart
<1>9. \A m \in DOMAIN requests' \ {n} : Fewer(m)
  BY <1>5, <1>6, <1>7 DEF Fewer, history
<1>10. PlacesApart'
  BY <1>8, <1>9, OneMoves DEF OnceInv
<1> QED BY <1>5, <1>6, <1>7, <1>10 DEF OnceInv, OneEach

LEMMA SendMoves ==
  ASSUME FlowInv, OnceInv, NEW w \in DBWorker, SendAnswer(w)
  PROVE  OnceInv'
<1>1. PICK n, q, to, a :
        /\ query[w] = q /\ q.req = n /\ a.req = n /\ sendPacket(<<>>, q, to, a)
        /\ deleteQuery(w) /\ UNCHANGED <<clientVars, requests, delivered>>
  <2> DEFINE to == IF query[w].type = "I_DB_REQ_ID_PW" THEN D_L ELSE D_C
             type == IF query[w].type = "I_DB_REQ_ID_PW" THEN "I_DB_ANS_ID_PW"
                                                         ELSE "I_DB_ANS_PARSE_DATA"
             a == Packet(type, query[w].clientId_, query[w].oid, result_[w], query[w].req)
  <2>1. /\ deleteQuery(w) /\ sendPacket(<<>>, query[w], to, a)
        /\ UNCHANGED <<clientVars, requests, delivered>>
    BY DEF SendAnswer
  <2>2. a.req = query[w].req
    BY DEF Packet
  <2> QED BY <2>1, <2>2
<1>2. /\ Working(w) /\ dbpc' = [dbpc EXCEPT ![w] = "loop"] /\ UNCHANGED queryPool_
      /\ query' = [query EXCEPT ![w] = NoQuery] /\ DBType
  BY <1>1 DEF deleteQuery, DBGoto, Working, FlowInv, DBInv
<1>3. IsWorkedAt(n) /\ n \in DOMAIN requests /\ Apart(n)
  BY <1>1, <1>2 DEF FlowInv, DBInv, WorkersCarry, Carries, IsWorkedAt, OnceInv, PlacesApart
<1>4. ~IsAsked(n) /\ ~IsSent(n) /\ ~IsPooled(n) /\ ~Answers(n)
  BY <1>3 DEF Apart
<1>5. OneSent' /\ \A m : m # n => (IsSent(m)' => IsSent(m))
  BY <1>1, <1>4, SentMoves DEF OnceInv, OneEach
<1>6. \A v \in DBWorker : Working(v)' => v # w /\ Working(v) /\ query'[v] = query[v]
  BY <1>2 DEF DBType, Working
<1>7. OneAtWork' /\ (\A m : IsWorkedAt(m)' => IsWorkedAt(m)) /\ ~IsWorkedAt(n)'
  <2>1. ~IsWorkedAt(n)'
    BY <1>1, <1>2, <1>6 DEF OnceInv, OneEach, OneAtWork, IsWorkedAt
  <2> QED BY <1>6, <2>1, WorkFewer DEF OnceInv, OneEach
<1>8. OneAsked' /\ OnePooled' /\ AnsweredOnce'
      /\ \A m : /\ IsAsked(m)' => IsAsked(m)
                /\ IsPooled(m)' => IsPooled(m)
                /\ Answers(m)' => Answers(m)
  BY <1>1, <1>2, AskedFewer, PooledStay, ToldStay DEF OnceInv, OneEach, clientVars
<1>9. Apart(n)'
  BY <1>4, <1>7, <1>8 DEF Apart
<1>10. \A m \in DOMAIN requests' \ {n} : Fewer(m)
  BY <1>1, <1>5, <1>7, <1>8 DEF Fewer
<1>11. PlacesApart'
  BY <1>9, <1>10, OneMoves DEF OnceInv
<1> QED BY <1>5, <1>7, <1>8, <1>11 DEF OnceInv, OneEach

LEMMA WorkMoves ==
  ASSUME FlowInv, OnceInv, NEW w \in DBWorker, DBThread(w) \/ DBFault(w)
  PROVE  OnceInv'
<1>1. CASE SendAnswer(w)
  BY <1>1, SendMoves
<1>2. CASE popQuery(w) /\ queryPool_ # <<>> /\ ~SendAnswer(w)
  <2>1. UNCHANGED <<netVars, clientVars, history>>
    BY <1>2 DEF DBThread, DBFault
  <2> QED BY <1>2, <2>1, PopMoves
<1>3. CASE ~SendAnswer(w) /\ ~(popQuery(w) /\ queryPool_ # <<>>)
  <2>1. UNCHANGED <<onTheWay, asked, requests, delivered>>
    BY <1>3 DEF DBThread, DBFault, netVars, clientVars, history
  <2>2. /\ queryPool_' = queryPool_ /\ query' = query
        /\ \A v \in DBWorker : Working(v)' => Working(v)
    <3>1. DBType
      BY DEF FlowInv, DBInv
    <3>2. CASE runQueryCount(w) \/ popQuery(w)
      BY <1>3, <3>1, <3>2 DEF runQueryCount, popQuery, DBGoto, DBType, Working
    <3>3. CASE execute(w, RowsFound(query[w].statement)) \/ comError(w)
      BY <3>1, <3>3 DEF execute, comError, beginDelete, DBGoto, DBType, Working
    <3>4. CASE nextRow(w)
      BY <3>1, <3>4 DEF nextRow, DBGoto, DBType, Working
    <3>5. CASE LoseConnection(w)
      BY <3>5 DEF LoseConnection, Working
    <3> QED BY <1>3, <3>2, <3>3, <3>4, <3>5 DEF DBThread, DBFault
  <2> QED BY <2>1, <2>2, AllFewer
<1> QED BY <1>1, <1>2, <1>3

(***************************************************************************)
(* Connections and servers take requests away, and never bring one back.   *)
(***************************************************************************)
LEMMA FaultsMove ==
  ASSUME FlowInv, OnceInv,
         \/ \E l \in Link : connectProcess(l) \/ ConnectionBreaks(l)
         \/ \E s \in Server : ServerGoes(s) \/ ServerStarts(s)
  PROVE  OnceInv'
<1>t. onTheWay \in [Link -> SUBSET Token]
  BY DEF FlowInv, PacketsCarry
<1>1. ASSUME NEW l \in Link, connectProcess(l) \/ ConnectionBreaks(l) PROVE OnceInv'
  <2>1. UNCHANGED <<dbVars, asked, requests, delivered>>
    BY <1>1 DEF connectProcess, ConnectionBreaks, clientVars, history
  <2>2. \A k \in Link : onTheWay'[k] \subseteq onTheWay[k]
    BY <1>1, <1>t
    DEF connectProcess, connectTo, tryConnect, ConnectionBreaks, Disconnect, Drop
  <2> QED BY <2>1, <2>2, AllFewer DEF dbVars, Working
<1>2. ASSUME NEW s \in Server, ServerGoes(s) \/ ServerStarts(s) PROVE OnceInv'
  <2>1. UNCHANGED <<requests, delivered>> /\ asked' \subseteq asked
    BY <1>2 DEF ServerGoes, ServerStarts
  <2>2. \A k \in Link : onTheWay'[k] \subseteq onTheWay[k]
    BY <1>2, <1>t DEF ServerGoes, ServerStarts, Goes, Starts, Drop
  <2>3. \/ UNCHANGED dbVars
        \/ queryPool_' = <<>> /\ dbpc' = [w \in DBWorker |-> "loop"]
    BY <1>2 DEF ServerGoes, ServerStarts
  <2>4. /\ queryPool_' = queryPool_ \/ queryPool_' = <<>>
        /\ \A w \in DBWorker : Working(w)' => Working(w) /\ query'[w] = query[w]
    BY <2>3 DEF dbVars, Working
  <2> QED BY <2>1, <2>2, <2>4, AllFewer
<1> QED BY <1>1, <1>2

LEMMA OnceKept == FlowInv /\ OnceInv /\ [Next]_vars => OnceInv'
<1> SUFFICES ASSUME FlowInv, OnceInv, [Next]_vars PROVE OnceInv'
  OBVIOUS
<1>1. CASE UNCHANGED vars
  BY <1>1, AllFewer DEF vars, netVars, dbVars, clientVars, history, Working
<1>2. ASSUME NEW c \in Client, OpenSession(c) \/ CloseSession(c) PROVE OnceInv'
  BY <1>2, AllFewer DEF OpenSession, CloseSession, netVars, dbVars, history, Working
<1>3. ASSUME NEW c \in Client, Ask(c) PROVE OnceInv'
  BY <1>3, AskMoves
<1>4. CASE Handler
  BY <1>4, HandlersMove, QueueMoves DEF Handler
<1>5. ASSUME NEW w \in DBWorker, DBThread(w) \/ DBFault(w) PROVE OnceInv'
  BY <1>5, WorkMoves
<1> QED BY <1>1, <1>2, <1>3, <1>4, <1>5, FaultsMove DEF Next

(***************************************************************************)
(* Nothing on the way of a request is repeated: a terminal does not send   *)
(* again after a broken connection (Terminal.cpp), a query is taken from   *)
(* the pool once (DBManager.cpp), and its destructor answers once, whether *)
(* it has been executed or has failed.  So a request is answered at most   *)
(* once.                                                                   *)
(***************************************************************************)
THEOREM OneAnswerEach == Spec => []AnsweredOnce
<1>1. Init => OnceInv
  <2> SUFFICES ASSUME Init PROVE OnceInv
    OBVIOUS
  <2>1. PICK b \in Bounds : TerminalsInit(b.faults, b.starts) /\ DatabaseInit(b.dbFaults)
    BY DEF Init
  <2>2. /\ asked = {} /\ requests = <<>> /\ delivered = <<>> /\ queryPool_ = <<>>
        /\ \A l \in Link : onTheWay[l] = {}
        /\ \A w \in DBWorker : ~Working(w)
    BY <2>1 DEF Init, TerminalsInit, DatabaseInit, Working
  <2> QED BY <2>2 DEF OnceInv, PlacesApart, OneEach, OneAsked, OneSent, OnePooled, OneAtWork,
          AnsweredOnce
<1>2. OnceInv => AnsweredOnce
  BY DEF OnceInv, OneEach
<1> QED BY <1>1, <1>2, OnceKept, FlowInvariant, PTL DEF Spec
=============================================================================
