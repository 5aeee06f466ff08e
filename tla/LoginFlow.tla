------------------------------- MODULE LoginFlow -------------------------------
(***************************************************************************)
(* A login: LoginServer/LoginProcess.cpp, ChattingServer/                  *)
(* ChattingProcess.cpp (42-66), DBAgent/DBAgentProcess.cpp and QI_*.h, over *)
(* the terminals and the database.                                         *)
(*                                                                         *)
(*   client -> Login -> DBAgent (id, password) -> Login -> Chatting        *)
(*          -> DBAgent (character) -> Chatting -> Login -> client          *)
(*                                                                         *)
(* Nothing but clientId_, the client's session id on the login server,     *)
(* says whom an answer is for.  A request has a number here (req), which   *)
(* is history: no handler looks at it.                                     *)
(***************************************************************************)
EXTENDS Terminals, Database

CONSTANTS Client,
          Account,       \* of each client: "player", "nobody" without a character,
                         \* "wrong" id or password
          MaxRequests,   \* bound: requests of all clients
          MaxSessions,   \* bound: sessions of all clients
          Bounds         \* bounds: [requests, faults, starts, dbFaults], one of them
                         \* chosen for a behaviour

ASSUME LoginConstants ==
  /\ Account \in [Client -> {"player", "nobody", "wrong"}]
  /\ Server = {"Login", "Chatting", "DBAgent"}
  /\ Link = {<<"Login", "DBAgent">>, <<"Login", "Chatting">>, <<"Chatting", "DBAgent">>,
             <<"Chatting", "Login">>, <<"DBAgent", "Login">>, <<"DBAgent", "Chatting">>}
  /\ MaxRequests \in Nat /\ MaxSessions \in Nat
  /\ Bounds \subseteq [requests : 0..MaxRequests, faults : Nat, starts : Nat, dbFaults : Nat]

VARIABLES
  sessionId,    \* each client: the id of its session on the login server, 0 if none
  idSeed_,      \* the last id createSessionId has given
  asked,        \* C_REQ_ID_PW packets not yet handled
  requests,     \* ghost: the requests, numbered: who, in which session, of which run
  run,          \* ghost: how often the login server has been started
  lost,         \* ghost: requests of which a packet, a row or a server's memory was lost
  delivered,    \* ghost: the answers clients have been sent, in order
  sessions,     \* bound: sessions opened so far
  limit         \* bound: requests of this behaviour

clientVars == <<sessionId, idSeed_, asked, sessions, limit>>
history == <<requests, run, lost, delivered>>
vars == <<netVars, dbVars, clientVars, history>>

Init ==
  /\ \E b \in Bounds : /\ TerminalsInit(b.faults, b.starts)
                        /\ DatabaseInit(b.dbFaults)
                        /\ limit = b.requests
  /\ sessionId = [c \in Client |-> 0] /\ idSeed_ = 0
  /\ asked = {} /\ sessions = 0
  /\ requests = <<>> /\ run = 1 /\ lost = {} /\ delivered = <<>>

L_D == <<"Login", "DBAgent">>     L_C == <<"Login", "Chatting">>
C_D == <<"Chatting", "DBAgent">>  C_L == <<"Chatting", "Login">>
D_L == <<"DBAgent", "Login">>     D_C == <<"DBAgent", "Chatting">>

Packet(type, id, oid, result, n) ==
  [type |-> type, clientId_ |-> id, oid |-> oid, result_ |-> result, req |-> n]

-----------------------------------------------------------------------------
(***************************************************************************)
(* The clients.                                                            *)
(***************************************************************************)
\* mutant: ids are given again
createSessionIdAgain == CHOOSE i \in 1..Cardinality(Client) : \A c \in Client : sessionId[c] # i

createSessionId == idSeed_ + 1

OpenSession(c) ==
  /\ Up("Login") /\ sessionId[c] = 0 /\ sessions < MaxSessions
  /\ sessions' = sessions + 1
  /\ sessionId' = [sessionId EXCEPT ![c] = createSessionId]
  /\ idSeed_' = idSeed_ + 1
  /\ UNCHANGED <<netVars, dbVars, asked, limit, history>>

CloseSession(c) ==
  /\ sessionId[c] # 0
  /\ sessionId' = [sessionId EXCEPT ![c] = 0]
  /\ asked' = {p \in asked : p.clientId_ # sessionId[c]}
  /\ UNCHANGED <<netVars, dbVars, idSeed_, sessions, limit, history>>

Ask(c) ==
  /\ sessionId[c] # 0 /\ Len(requests) < limit
  /\ requests' = Append(requests, [who |-> c, id |-> sessionId[c], run |-> run])
  /\ asked' = asked \cup {Packet("C_REQ_ID_PW", sessionId[c], c, FALSE, Len(requests'))}
  /\ UNCHANGED <<netVars, dbVars, sessionId, idSeed_, sessions, limit, run, lost, delivered>>

-----------------------------------------------------------------------------
(***************************************************************************)
(* LoginProcess.                                                           *)
(***************************************************************************)
Lose(l, p) == lost' = IF Dropped(l) THEN lost \cup {p.req} ELSE lost

Forward(from, p, to, type, id, result) ==
  /\ sendPacket(from, p, to, Packet(type, id, p.oid, result, p.req))
  /\ Lose(to, p)
  /\ UNCHANGED <<proc, connection, tryCount, faults, starts>>

Handled(from, p) == /\ onTheWay' = [onTheWay EXCEPT ![from] = @ \ {p}]
                    /\ UNCHANGED <<proc, connection, tryCount, faults, starts>>

C_REQ_ID_PW(p) ==
  /\ Up("Login") /\ p \in asked
  /\ asked' = asked \ {p}
  /\ Forward(<<>>, p, L_D, "I_DB_REQ_ID_PW", p.clientId_, FALSE)
  /\ UNCHANGED <<dbVars, sessionId, idSeed_, sessions, limit, requests, run, delivered>>

\* SESSIONMANAGER.session(clientId_)
SessionOf(id) == {c \in Client : sessionId[c] = id}

Deliver(p, type) ==
  delivered' = Append(delivered, [to |-> CHOOSE c \in SessionOf(p.clientId_) : TRUE,
                                  type |-> type, name |-> p.oid, req |-> p.req, run |-> run])

I_DB_ANS_ID_PW(p) ==
  /\ Up("Login") /\ p \in onTheWay[D_L]
  /\ IF SessionOf(p.clientId_) = {} \/ ~p.result_
       THEN /\ Handled(D_L, p)
            /\ IF SessionOf(p.clientId_) = {} THEN UNCHANGED delivered
                                              ELSE Deliver(p, "S_ANS_ID_PW_FAIL")
            /\ UNCHANGED lost
       ELSE /\ Forward(D_L, p, L_C, "I_CHTTING_NOTIFY_ID", p.clientId_, FALSE)
            /\ UNCHANGED delivered
  /\ UNCHANGED <<dbVars, clientVars, requests, run>>

\* an account without a character is not answered
I_LOGIN_NOTIFY_ID_LOADED(p) ==
  /\ Up("Login") /\ p \in onTheWay[C_L]
  /\ Handled(C_L, p)
  /\ IF p.result_ /\ SessionOf(p.clientId_) # {} THEN Deliver(p, "S_ANS_ID_PW_SUCCESS")
                                                 ELSE UNCHANGED delivered
  /\ UNCHANGED <<dbVars, clientVars, requests, run, lost>>

(***************************************************************************)
(* ChattingProcess.                                                        *)
(***************************************************************************)
I_CHTTING_NOTIFY_ID(p) ==
  /\ Up("Chatting") /\ p \in onTheWay[L_C]
  /\ Forward(L_C, p, C_D, "I_DB_REQ_LOAD_DATA", p.clientId_, FALSE)
  /\ UNCHANGED <<dbVars, clientVars, requests, run, delivered>>

I_DB_ANS_PARSE_DATA(p) ==
  /\ Up("Chatting") /\ p \in onTheWay[D_C]
  /\ Forward(D_C, p, C_L, "I_LOGIN_NOTIFY_ID_LOADED", p.clientId_, p.result_)
  /\ UNCHANGED <<dbVars, clientVars, requests, run, delivered>>

(***************************************************************************)
(* DBAgentProcess, and the database threads.                               *)
(***************************************************************************)
\* the statement of QI_DB_REQ_ID_PW, of QI_DB_REQ_LOAD_DATA; id and password of
\* an account, and its oid, are one value here
StatementOf(p) ==
  IF p.type = "I_DB_REQ_ID_PW"
    THEN addParam(addParam(setQuery("p_AccountData_Select", "QUERY_CALL_BACK"), p.oid), p.oid)
    ELSE addParam(setQuery("p_Character_Select", "QUERY_CALL_BACK"), p.oid)

Query(p) == [type |-> p.type, clientId_ |-> p.clientId_, oid |-> p.oid, req |-> p.req,
             statement |-> StatementOf(p)]

I_DB_REQ(l, p) ==
  /\ Up("DBAgent") /\ p \in onTheWay[l]
  /\ Handled(l, p)
  /\ pushQuery(Query(p))
  /\ UNCHANGED <<clientVars, history>>

\* how many rows the procedure selects
RowsFound(statement) ==
  LET found == IF statement.procedure = "p_AccountData_Select" THEN {"player", "nobody"}
                                                              ELSE {"player"}
  IN  IF Account[statement.params[1]] \in found THEN 1 ELSE 0

\* a character whose row was not there in time is not reported, as if there were none
MissesRow(w) == /\ query[w].type = "I_DB_REQ_LOAD_DATA"
                /\ ~result_[w] /\ record_[w].rows > 0

\* ~QI_DB_REQ_ID_PW, ~QI_DB_REQ_LOAD_DATA
SendAnswer(w) ==
  LET q == query[w]
      to == IF q.type = "I_DB_REQ_ID_PW" THEN D_L ELSE D_C
      type == IF q.type = "I_DB_REQ_ID_PW" THEN "I_DB_ANS_ID_PW" ELSE "I_DB_ANS_PARSE_DATA"
  IN /\ deleteQuery(w)
     /\ sendPacket(<<>>, q, to, Packet(type, q.clientId_, q.oid, result_[w], q.req))
     /\ lost' = IF Dropped(to) \/ MissesRow(w) THEN lost \cup {q.req} ELSE lost
     /\ UNCHANGED <<proc, connection, tryCount, faults, starts>>
     /\ UNCHANGED <<clientVars, requests, run, delivered>>

DBThread(w) ==
  /\ Up("DBAgent")
  /\ \/ /\ \/ runQueryCount(w) \/ popQuery(w) \/ nextRow(w)
           \/ dbpc[w] = "execute" /\ execute(w, RowsFound(query[w].statement))
           \/ w \notin connected /\ comError(w)
        /\ UNCHANGED <<netVars, clientVars, history>>
     \/ SendAnswer(w)

DBFault(w) == /\ Up("DBAgent")
              /\ (w \in connected /\ comError(w)) \/ LoseConnection(w)
              /\ UNCHANGED <<netVars, clientVars, history>>

-----------------------------------------------------------------------------
(***************************************************************************)
(* Servers and connections come and go.                                    *)
(***************************************************************************)
Reqs(S) == {p.req : p \in S}
Carried(Links) == UNION {Reqs(onTheWay[l]) : l \in Links}

ConnectionBreaks(l) ==
  /\ Disconnect(l)
  /\ lost' = lost \cup Carried({l})
  /\ UNCHANGED <<dbVars, clientVars, requests, run, delivered>>

InDBAgent == Reqs(ToSet(queryPool_)) \cup {query[w].req : w \in {v \in DBWorker : query[v] # NoQuery}}

\* what a server has in its memory goes with it
ServerGoes(s) ==
  /\ Goes(s)
  /\ lost' = lost \cup Carried(LinksOf(s))
                  \cup (IF s = "Login" THEN DOMAIN requests ELSE {})
                  \cup (IF s = "DBAgent" THEN InDBAgent ELSE {})
  /\ IF s = "Login"
       THEN /\ sessionId' = [c \in Client |-> 0]
            /\ asked' = {}
       ELSE UNCHANGED <<sessionId, asked>>
  /\ IF s = "DBAgent"
       THEN /\ queryPool_' = <<>>
            /\ dbpc' = [w \in DBWorker |-> "loop"]
            /\ query' = [w \in DBWorker |-> NoQuery]
            /\ record_' = [w \in DBWorker |-> Unopened]
            /\ result_' = [w \in DBWorker |-> FALSE]
            /\ connected' = DBWorker
            /\ UNCHANGED dbFaults
       ELSE UNCHANGED dbVars
  /\ UNCHANGED <<idSeed_, sessions, limit, requests, run, delivered>>

ServerStarts(s) ==
  /\ Starts(s)
  /\ IF s = "Login" THEN idSeed_' = 0 /\ run' = run + 1 ELSE UNCHANGED <<idSeed_, run>>
  /\ UNCHANGED <<dbVars, sessionId, asked, sessions, limit, requests, lost, delivered>>

connectProcess(l) == /\ connectTo(l) \/ tryConnect(l)
                     /\ UNCHANGED <<dbVars, clientVars, history>>

-----------------------------------------------------------------------------
Handler == \/ \E p \in asked : C_REQ_ID_PW(p)
           \/ \E p \in onTheWay[D_L] : I_DB_ANS_ID_PW(p)
           \/ \E p \in onTheWay[C_L] : I_LOGIN_NOTIFY_ID_LOADED(p)
           \/ \E p \in onTheWay[L_C] : I_CHTTING_NOTIFY_ID(p)
           \/ \E p \in onTheWay[D_C] : I_DB_ANS_PARSE_DATA(p)
           \/ \E l \in {L_D, C_D} : \E p \in onTheWay[l] : I_DB_REQ(l, p)

Next == \/ \E c \in Client : OpenSession(c) \/ CloseSession(c) \/ Ask(c)
        \/ Handler
        \/ \E w \in DBWorker : DBThread(w) \/ DBFault(w)
        \/ \E l \in Link : connectProcess(l) \/ ConnectionBreaks(l)
        \/ \E s \in Server : ServerGoes(s) \/ ServerStarts(s)

Spec == Init /\ [][Next]_vars

(***************************************************************************)
(* Handlers, terminals and database threads loop until the process stops.  *)
(***************************************************************************)
FairSpec ==
  /\ Spec
  /\ WF_vars(Handler)
  /\ \A w \in DBWorker : WF_vars(DBThread(w))
  /\ \A l \in Link : WF_vars(connectProcess(l))
-----------------------------------------------------------------------------
(***************************************************************************)
(* The answer to a login reaches the client that asked, whoever connects,  *)
(* leaves and connects again meanwhile - unless the login server has been  *)
(* restarted since, when ids begin anew and answers to the old ones may    *)
(* still come.                                                             *)
(***************************************************************************)
AnswerGoesToWhoAsked ==
  \A i \in DOMAIN delivered :
    LET d == delivered[i]  r == requests[d.req]
    IN  r.run = d.run => r.who = d.to /\ r.who = d.name

(***************************************************************************)
(* A request is answered at most once, through broken connections,         *)
(* restarts and failing queries.                                           *)
(***************************************************************************)
AnsweredOnce ==
  \A i, j \in DOMAIN delivered : delivered[i].req = delivered[j].req => i = j

(***************************************************************************)
(* Success is only said of an account that exists and has a character,     *)
(* however the database fails.                                             *)
(***************************************************************************)
SuccessIsEarned ==
  \A i \in DOMAIN delivered :
    delivered[i].type = "S_ANS_ID_PW_SUCCESS" => Account[delivered[i].name] = "player"

(***************************************************************************)
(* A request is answered in the end, even if the database fails, unless    *)
(* one of the known holes swallows it: a packet dropped, a row not fetched *)
(* in time or a server's memory gone (lost), the client or the session     *)
(* gone, a server stopping, an account without a character, or a character *)
(* query that has failed.                                                  *)
(***************************************************************************)
Answers(n) == \E i \in DOMAIN delivered : delivered[i].req = n

Swallowed(n) ==
  \/ n \in lost
  \/ sessionId[requests[n].who] # requests[n].id
  \/ \E s \in Server : ~Up(s)
  \/ Account[requests[n].who] = "nobody"
  \/ \A w \in DBWorker : Endless(w)
  \/ \E w \in DBWorker : Endless(w) /\ query[w].req = n

LoginIsAnswered ==
  \A n \in 1..MaxRequests :
    n \in DOMAIN requests ~> Answers(n) \/ (n \in DOMAIN requests /\ Swallowed(n))

(***************************************************************************)
(* A terminal whose two servers stay up is connected in the end.           *)
(***************************************************************************)
TerminalsComeBack ==
  \A l \in Link : <>[](Up(l[1]) /\ proc[l[2]] # "down") => <>[](connection[l] = "ready")
=============================================================================
