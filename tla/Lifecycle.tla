----------------------------- MODULE Lifecycle ------------------------------
(***************************************************************************)
(* The life of one server process: main() of the four servers, their       *)
(* *ServerClass.cpp, and the construction and destruction of Server,       *)
(* IOCPServer, ContentsProcess, TaskManager and ThreadManager.             *)
(*                                                                         *)
(* main initialises the managers, runs the server in a thread of its own,  *)
(* joins it and releases the managers.  The server thread starts all other *)
(* threads, one after another, waits at the console and is the destructor  *)
(* of everything it has made.  _shutdown is what they all look at; only a  *)
(* terminal that gives up sets it.                                         *)
(*                                                                         *)
(* There is a thread for each terminal and one of each other kind, and the *)
(* package queue is counted: which package it is does not matter here.  A  *)
(* terminal puts none into it: no server sends to one over the connection  *)
(* the other has opened.  threadPool_ is a map without                     *)
(* a lock: touching it while another thread inserts or erases is           *)
(* undefined, and so is the use of a Server, a ContentsProcess or a Task   *)
(* that is deleted.  The process then stops, or goes on without notice.    *)
(***************************************************************************)
EXTENDS Integers, Sequences, FiniteSets

CONSTANTS MaxTry,       \* attempts of a terminal, 100 in the code
          Setups        \* bound: one of the four servers, the terminals of its
                        \* configuration, how many clients connect to it and how many
                        \* packets they send

Servers == {"ChattingServer", "InGameServer", "LoginServer", "DBAgent"}

ASSUME LifeBounds ==
  /\ MaxTry \in Nat
  /\ Setups \subseteq [name : Servers, terminals : Seq(Servers) \ {<<>>},
                       clients : Nat, packets : Nat]

\* the packets with handlers of each contents class
Default == {"C_NOTIFY_HEARTBEAT", "I_NOTIFY_TERMINAL", "C_REQ_EXIT"}
ChattingProcess == {"I_CHTTING_NOTIFY_ID", "I_DB_ANS_PARSE_DATA", "C_REQ_CHATTING",
                    "C_REQ_REGIST_CHATTING_NAME", "C_REQ_EXIT", "C_REQ_LOBBY_INFO",
                    "C_REQ_ENTER_ROOM", "I_INITIALIZE_ROOMMEMBER"}
InGameProcess == {"C_REQ_ENEMY_EXPLOSION", "C_REQ_PLAYER_MOVE", "I_USER_INFO",
                  "C_REQ_FIRE_BULLET", "C_REQ_MAKE_ENEMY", "C_REQ_MAKE_BOSS",
                  "C_REQ_BOSS_EXPLOSION"}
LoginProcess == {"C_REQ_ID_PW", "I_DB_ANS_ID_PW", "I_LOGIN_NOTIFY_ID_LOADED"}
DBAgentProcess == {"I_DB_REQ_ID_PW", "I_DB_REQ_LOAD_DATA"}

\* a thread is started and then put into threadPool_
Make(t) == <<<<"start", t>>, <<"put", t>>>>

\* ContentsProcess::initialize
initialize == Make("Contents") \o <<<<"regist", "default">>>>

\* Server::Server; the first three are the loop of TerminalManager::initialize
newServer == Make("Terminal") \o <<<<"put", "terminal">>, <<"status", "INITIALZE">>,
                                   <<"do", "DBManager">>>>

\* IOCPServer::run
runServer == <<<<"do", "listen">>>> \o Make("Accept") \o Make("Worker")
             \o <<<<"status", "READY">>, <<"do", "getline">>>>

\* ~IOCPServer, ~Server
deleteServer == <<<<"do", "close">>, <<"status", "STOP">>, <<"do", "delete">>>>

\* mutant: the derived class registers its handlers once the server runs
LateContents ==
  initialize \o newServer \o <<<<"add", "report">>, <<"do", "listen">>>>
    \o Make("Accept") \o Make("Worker")
    \o <<<<"regist", "sub">>, <<"status", "READY">>, <<"do", "getline">>>>
    \o deleteServer

\* the server thread: new ChattingProcess, new IOCPServer, the report, run()
serverProcess == initialize \o <<<<"regist", "sub">>>> \o newServer
                   \o <<<<"add", "report">>>> \o runServer \o deleteServer

\* mutant: the threads are joined last
ReleasedFirst == <<"TASKMANAGER", "LOCKAMANGER", "SESSIONMANAGER", "CLOCK", "WINSOCK",
                   "THREADMANAGER">>

releaseOrder == <<"TASKMANAGER", "THREADMANAGER", "LOCKAMANGER", "SESSIONMANAGER",
                  "CLOCK", "WINSOCK">>

initOrder == <<"WINSOCK", "CLOCK", "SESSIONMANAGER", "LOCKAMANGER", "THREADMANAGER",
               "TASKMANAGER">>

\* main(): the managers, run(), release(), and what is destroyed after it returns
mainWith(database) == initOrder \o database \o <<"run", "put", "join">> \o releaseOrder
                        \o <<"exit">>

mainPlain == mainWith(<<>>)

\* what each server runs, its handlers, and whether its configuration has a Task element
ChattingServer == [main |-> mainPlain, process |-> serverProcess,
                   handlers |-> ChattingProcess, task |-> TRUE]
InGameServer == [main |-> mainPlain, process |-> serverProcess,
                 handlers |-> InGameProcess, task |-> TRUE]
LoginServer == [main |-> mainPlain, process |-> serverProcess,
                handlers |-> LoginProcess, task |-> TRUE]
DBAgent == [main |-> mainWith(<<"DBManager", "runDB">>), process |-> serverProcess,
            handlers |-> DBAgentProcess, task |-> FALSE]

ServerOf(name) == CASE name = "ChattingServer" -> ChattingServer
                    [] name = "InGameServer" -> InGameServer
                    [] name = "LoginServer" -> LoginServer
                    [] name = "DBAgent" -> DBAgent
-----------------------------------------------------------------------------
VARIABLES
  setup,          \* which of the servers this process is, and its bounds
  running,        \* the process has neither crashed nor left by ExitProcess
  _shutdown,
  mainAt, serverAt,  \* where main and the server thread are
  alive,          \* threads started and not ended
  threadPool_,    \* threads that ThreadManager knows
  inPut,          \* main or the server thread, inside an insert
  raced,          \* ghost: two were inside at once
  runFuncTable_, terminalPool_,
  elem,           \* the terminal of the configuration that is made next
  status_,        \* of the server
  sockets,        \* listen socket and completion port
  deleted,        \* "Task" and "Server" objects that are deleted
  report,         \* its node in the task list: none, waiting, due
  knocking,       \* clients not yet accepted
  accepted, wire, \* clients, and packets sent and not received
  sent,
  early,          \* ghost: a client was accepted before the server was ready
  broken,         \* ghost: WSAAccept failed while the listen socket was open
  packageQueue_,  \* how many packages wait
  holder,         \* of packageQueue_'s lock, or "none"
  pc,             \* of the other threads
  tries           \* of each terminal

procVars == <<mainAt, serverAt, alive, threadPool_, inPut, raced, runFuncTable_,
              terminalPool_, elem, status_, sockets, deleted>>
clientVars == <<knocking, accepted, wire, sent, early, broken>>
lifeVars == <<running, _shutdown, procVars, report, clientVars, packageQueue_, holder, pc,
              tries>>
vars == <<setup, lifeVars>>

server == ServerOf(setup.name)

\* what the loop of TerminalManager::initialize is at
Terminal == setup.terminals[elem]

\* a thread, as it is called in the steps of the server
Thread(t) == IF t = "Terminal" THEN Terminal ELSE t

\* where a thread begins
First(t) == CASE t = "Contents" -> "scope"
              [] t = "Worker" -> "wait"
              [] t = "Accept" -> "WSAAccept"
              [] t \in Servers -> "connect"

Init ==
  /\ setup \in Setups
  /\ running = TRUE /\ _shutdown = FALSE
  /\ mainAt = 1 /\ serverAt = 0
  /\ alive = {} /\ threadPool_ = {} /\ inPut = {} /\ raced = FALSE
  /\ runFuncTable_ = {} /\ terminalPool_ = {} /\ elem = 1
  /\ status_ = "STOP" /\ sockets = "none" /\ deleted = {}
  /\ report = "none"
  /\ knocking = 0 /\ accepted = 0 /\ wire = 0 /\ sent = 0
  /\ early = FALSE /\ broken = FALSE
  /\ packageQueue_ = 0 /\ holder = "none"
  /\ pc = [t \in {"Contents", "Worker", "Accept"} \cup Servers |-> First(t)]
  /\ tries = [t \in Servers |-> 0]

\* an access that is undefined when `bad' holds
MayFail(bad) == running' \in IF bad THEN BOOLEAN ELSE {TRUE}

\* SLog: LogWriter::log looks the thread up in threadPool_
Logs == MayFail(inPut # {})

-----------------------------------------------------------------------------
(***************************************************************************)
(* Threads are put into threadPool_ by their constructor, after they have  *)
(* started.  An insert that meets another may lose its node.               *)
(***************************************************************************)
StartThread(t, by) ==
  /\ alive' = IF _shutdown /\ t # "Server" THEN alive ELSE alive \cup {t}
  /\ inPut' = inPut \cup {by}
  /\ UNCHANGED <<threadPool_, raced>>

PutThread(t, by) ==
  /\ inPut' = inPut \ {by}
  /\ MayFail(inPut # {by})
  /\ raced' = (raced \/ inPut # {by})
  /\ threadPool_' \in {threadPool_ \cup {t}} \cup IF inPut # {by} THEN {threadPool_} ELSE {}
  /\ UNCHANGED alive

(***************************************************************************)
(* main.                                                                   *)
(***************************************************************************)
At(step) == running /\ mainAt <= Len(server.main) /\ server.main[mainAt] = step

Returned == mainAt >= Len(server.main)

\* ThreadManager::remove, called by ~Thread; the erase may meet whoever looks its
\* thread up for a log
remove(ts, others) == /\ threadPool_' = threadPool_ \ ts
                      /\ MayFail(others # {})

\* TaskManager::initialize starts a thread for each Task
InitManager ==
  /\ \E m \in {"WINSOCK", "CLOCK", "SESSIONMANAGER", "LOCKAMANGER", "THREADMANAGER",
               "TASKMANAGER"} :
       /\ At(m) /\ serverAt = 0
       /\ LET made == IF m = "TASKMANAGER" /\ server.task THEN {"Task"} ELSE {}
          IN  alive' = alive \cup made /\ threadPool_' = threadPool_ \cup made
  /\ mainAt' = mainAt + 1
  /\ UNCHANGED <<running, _shutdown, serverAt, inPut, raced, runFuncTable_, terminalPool_,
                 elem, status_, sockets, deleted, report, clientVars, packageQueue_, holder,
                 pc, tries>>

\* connect(): SQLNCLI10 to SQLNCLI19, then SQLNCLI, until one opens the database
Providers == 10..20
connect(opens) == \E p \in Providers : p \in opens

\* state_ of the ADODatabase is no longer DB_STOP
dbConnected == \E i \in 1..mainAt - 1 : server.main[i] = "DBManager"

\* DBManager::run, first by the constructor and then by main, which finds nothing to
\* connect; a connection that fails ends the process
RunDatabases ==
  /\ At("DBManager") \/ At("runDB")
  /\ IF dbConnected
       THEN UNCHANGED <<running, alive, threadPool_>>
       ELSE /\ \E opens \in SUBSET Providers : running' = connect(opens)
            /\ alive' = alive \cup {"ADODatabase"}
            /\ threadPool_' = threadPool_ \cup {"ADODatabase"}
  /\ mainAt' = mainAt + 1
  /\ UNCHANGED <<_shutdown, serverAt, inPut, raced, runFuncTable_, terminalPool_, elem,
                 status_, sockets, deleted, report, clientVars, packageQueue_, holder, pc,
                 tries>>

RunServer ==
  /\ \/ At("run") /\ StartThread("Server", "main") /\ serverAt' = 1 /\ UNCHANGED running
     \/ At("put") /\ PutThread("Server", "main") /\ UNCHANGED serverAt
  /\ mainAt' = mainAt + 1
  /\ UNCHANGED <<_shutdown, runFuncTable_, terminalPool_, elem, status_, sockets, deleted,
                 report, clientVars, packageQueue_, holder, pc, tries>>

\* ~shared_ptr<Thread>: join, remove
JoinServer ==
  /\ At("join") /\ "Server" \notin alive
  /\ remove({"Server"}, alive)
  /\ mainAt' = mainAt + 1
  /\ UNCHANGED <<_shutdown, serverAt, alive, inPut, raced, runFuncTable_, terminalPool_,
                 elem, status_, sockets, deleted, report, clientVars, packageQueue_, holder,
                 pc, tries>>

\* delete of the Tasks; delete, and so join, of every Thread in threadPool_
Release ==
  /\ serverAt # 0
  /\ \/ /\ At("TASKMANAGER")
        /\ deleted' = deleted \cup {"Task"}
        /\ UNCHANGED <<running, threadPool_>>
     \/ /\ At("THREADMANAGER")
        /\ threadPool_ \cap alive = {}
        /\ IF Cardinality(threadPool_) > 1 THEN remove(threadPool_, threadPool_)
                                           ELSE remove(threadPool_, {})
        /\ UNCHANGED deleted
     \/ /\ \E m \in {"LOCKAMANGER", "SESSIONMANAGER", "CLOCK", "WINSOCK"} : At(m)
        /\ UNCHANGED <<running, threadPool_, deleted>>
  /\ mainAt' = mainAt + 1
  /\ UNCHANGED <<_shutdown, serverAt, alive, inPut, raced, runFuncTable_, terminalPool_,
                 elem, status_, sockets, report, clientVars, packageQueue_, holder, pc,
                 tries>>

\* ~DBManager deletes queryPool_ and then disconnects, which asks the pool for its size
disconnect == running' = ~dbConnected

Exit ==
  /\ At("exit")
  /\ disconnect
  /\ mainAt' = mainAt + 1
  /\ UNCHANGED <<_shutdown, serverAt, alive, threadPool_, inPut, raced, runFuncTable_,
                 terminalPool_, elem, status_, sockets, deleted, report, clientVars,
                 packageQueue_, holder, pc, tries>>

(***************************************************************************)
(* The server thread.                                                      *)
(***************************************************************************)
ServerAt(step) == /\ running /\ "Server" \in alive
                  /\ serverAt \in DOMAIN server.process /\ server.process[serverAt] = step

Before(step) == \E i \in DOMAIN server.process : i >= serverAt /\ server.process[i] = step

Then == serverAt' = serverAt + 1

\* MAKE_THREAD
MakeThread ==
  /\ \E t \in {"Contents", "Terminal", "Accept", "Worker"} :
       \/ ServerAt(<<"start", t>>) /\ StartThread(Thread(t), "server") /\ UNCHANGED running
       \/ ServerAt(<<"put", t>>) /\ PutThread(Thread(t), "server")
  /\ Then
  /\ UNCHANGED <<_shutdown, mainAt, runFuncTable_, terminalPool_, elem, status_, sockets,
                 deleted, report, clientVars, packageQueue_, holder, pc, tries>>

\* registDefaultPacketFunc, registSubPacketFunc
Regist ==
  /\ \E k \in {"default", "sub"} :
       /\ ServerAt(<<"regist", k>>)
       /\ runFuncTable_' = runFuncTable_ \cup IF k = "sub" THEN server.handlers ELSE Default
  /\ Then
  /\ UNCHANGED <<running, _shutdown, mainAt, alive, threadPool_, inPut, raced,
                 terminalPool_, elem, status_, sockets, deleted, report, clientVars,
                 packageQueue_, holder, pc, tries>>

\* TerminalManager::put, and on to the next element of the configuration
PutTerminal ==
  /\ ServerAt(<<"put", "terminal">>)
  /\ terminalPool_' = terminalPool_ \cup {Terminal}
  /\ elem' = elem + 1
  /\ serverAt' = serverAt + IF elem < Len(setup.terminals) THEN -2 ELSE 1
  /\ UNCHANGED <<running, _shutdown, mainAt, alive, threadPool_, inPut, raced,
                 runFuncTable_, status_, sockets, deleted, report, clientVars,
                 packageQueue_, holder, pc, tries>>

\* mutant: run() never says that the server is ready
StatusForgotten ==
  /\ \E s \in {"INITIALZE", "READY", "STOP"} :
       /\ ServerAt(<<"status", s>>)
       /\ status_' = IF s = "READY" THEN status_ ELSE s
       /\ serverAt' = serverAt + IF s = "READY" /\ _shutdown THEN 2 ELSE 1
  /\ UNCHANGED <<running, _shutdown, mainAt, alive, threadPool_, inPut, raced,
                 runFuncTable_, terminalPool_, elem, sockets, deleted, report, clientVars,
                 packageQueue_, holder, pc, tries>>

\* run() sets SERVER_READY last, and then tests _shutdown
Status ==
  /\ \E s \in {"INITIALZE", "READY", "STOP"} :
       /\ ServerAt(<<"status", s>>)
       /\ status_' = s
       /\ serverAt' = serverAt + IF s = "READY" /\ _shutdown THEN 2 ELSE 1
  /\ UNCHANGED <<running, _shutdown, mainAt, alive, threadPool_, inPut, raced,
                 runFuncTable_, terminalPool_, elem, sockets, deleted, report, clientVars,
                 packageQueue_, holder, pc, tries>>

\* DBMANAGER is there already, or has nothing to start; a failed bind or listen leaves
\* by ExitProcess
Prepare ==
  /\ \/ ServerAt(<<"do", "DBManager">>) /\ UNCHANGED <<running, sockets>>
     \/ ServerAt(<<"do", "listen">>) /\ running' \in BOOLEAN /\ sockets' = "open"
  /\ Then
  /\ UNCHANGED <<_shutdown, mainAt, alive, threadPool_, inPut, raced, runFuncTable_,
                 terminalPool_, elem, status_, deleted, report, clientVars, packageQueue_,
                 holder, pc, tries>>

\* TaskNode::nextTick
nextTick == "waiting"

\* TASKMANAGER.add: into the list that the thread of its Task walks
AddReport ==
  /\ ServerAt(<<"add", "report">>)
  /\ report' = IF server.task THEN nextTick ELSE report
  /\ MayFail(server.task)
  /\ Then
  /\ UNCHANGED <<_shutdown, mainAt, alive, threadPool_, inPut, raced, runFuncTable_,
                 terminalPool_, elem, status_, sockets, deleted, clientVars, packageQueue_,
                 holder, pc, tries>>

\* getline, runCommand: no command is registered; while (!_shutdown)
GetLine ==
  /\ ServerAt(<<"do", "getline">>)
  /\ serverAt' = serverAt + IF _shutdown THEN 1 ELSE 0
  /\ UNCHANGED <<running, _shutdown, mainAt, alive, threadPool_, inPut, raced,
                 runFuncTable_, terminalPool_, elem, status_, sockets, deleted, report,
                 clientVars, packageQueue_, holder, pc, tries>>

\* mutant: ~IOCPServer does not close the completion port
KeepOpen ==
  /\ \/ /\ ServerAt(<<"do", "close">>)
        /\ UNCHANGED <<deleted, alive>>
     \/ /\ ServerAt(<<"do", "delete">>)
        /\ deleted' = deleted \cup {"Server"}
        /\ alive' = alive \ {"Server"}
  /\ Then
  /\ UNCHANGED <<running, _shutdown, mainAt, threadPool_, inPut, raced, runFuncTable_,
                 terminalPool_, elem, status_, sockets, report, clientVars, packageQueue_,
                 holder, pc, tries>>

\* ~IOCPServer; the end of ~Server and of the thread
CloseServer ==
  /\ \/ /\ ServerAt(<<"do", "close">>)
        /\ sockets' = "closed"
        /\ UNCHANGED <<deleted, alive>>
     \/ /\ ServerAt(<<"do", "delete">>)
        /\ deleted' = deleted \cup {"Server"}
        /\ alive' = alive \ {"Server"}
        /\ UNCHANGED sockets
  /\ Then
  /\ UNCHANGED <<running, _shutdown, mainAt, threadPool_, inPut, raced, runFuncTable_,
                 terminalPool_, elem, status_, report, clientVars, packageQueue_, holder,
                 pc, tries>>

main == InitManager \/ RunDatabases \/ RunServer \/ JoinServer \/ Release \/ Exit

serverThread == \/ MakeThread \/ Regist \/ PutTerminal \/ Status \/ Prepare \/ AddReport
                \/ CloseServer
-----------------------------------------------------------------------------
(***************************************************************************)
(* The other threads.  Each is a loop on _shutdown; the test is taken with *)
(* the step before it, or with the start of the thread.                    *)
(***************************************************************************)
Runs(t, l) == running /\ t \in alive /\ pc[t] = l

Goto(t, l) == pc' = [pc EXCEPT ![t] = l]

Ends(t) == alive' = alive \ {t} /\ UNCHANGED pc

\* while (!_shutdown)
Loops(t, l) == IF _shutdown THEN Ends(t) ELSE Goto(t, l) /\ UNCHANGED alive

Gone(what) == what \in deleted

threadOnly == <<mainAt, serverAt, threadPool_, inPut, raced, runFuncTable_, terminalPool_,
                elem, status_, sockets, deleted>>

(***************************************************************************)
(* Terminal::connectProcess.  With _shutdown it falls through both loops.  *)
(***************************************************************************)
connectProcess(t) ==
  /\ Runs(t, "connect")
  /\ Logs
  /\ IF _shutdown
       THEN Ends(t) /\ UNCHANGED <<_shutdown, tries>>
       ELSE \/ /\ Goto(t, "recv")
               /\ tries' = [tries EXCEPT ![t] = 0]    \* what CONNECT_START does later
               /\ UNCHANGED <<_shutdown, alive>>
            \/ /\ tries' = [tries EXCEPT ![t] = @ + 1]
               /\ _shutdown' = (tries[t] > MaxTry)
               /\ IF tries[t] > MaxTry THEN Ends(t) ELSE UNCHANGED <<alive, pc>>
  /\ UNCHANGED <<threadOnly, report, clientVars, packageQueue_, holder>>

\* the other server closes the connection, or its process ends
PeerGoes(t) ==
  /\ Runs(t, "recv")
  /\ Goto(t, "connect")
  /\ UNCHANGED <<running, _shutdown, alive, threadOnly, report, clientVars, packageQueue_,
                 holder, tries>>

\* ADODatabase::process; a query is DBAgent's own affair
DBProcess ==
  /\ running /\ "ADODatabase" \in alive /\ _shutdown
  /\ alive' = alive \ {"ADODatabase"}
  /\ UNCHANGED <<running, _shutdown, threadOnly, report, clientVars, packageQueue_, holder,
                 pc, tries>>

(***************************************************************************)
(* Task::process.  A node whose tick has come waits for the next walk.     *)
(***************************************************************************)
TickPasses ==
  /\ running /\ report = "waiting"
  /\ report' = "due"
  /\ UNCHANGED <<running, _shutdown, procVars, clientVars, packageQueue_, holder, pc,
                 tries>>

TICK_INFINTY == 0

\* mutant: the duration is compared although it is infinite
expiredAlways(duration) == TRUE

\* a finite duration is compared with the seconds since 1970: it is over at once
expired(duration) == duration # TICK_INFINTY

\* TaskNode::tick, when nextTick_ has passed
tick == /\ report = "due"
        /\ report' = nextTick

TaskProcess ==
  /\ running /\ "Task" \in alive
  /\ MayFail(Gone("Task"))
  /\ IF _shutdown
       THEN Ends("Task") /\ UNCHANGED report
       ELSE /\ report # "none"
            /\ IF expired(TICK_INFINTY) THEN report' = "none" ELSE tick
            /\ UNCHANGED <<alive, pc>>
  /\ UNCHANGED <<_shutdown, threadOnly, clientVars, packageQueue_, holder, tries>>

(***************************************************************************)
(* IOCPServer::acceptThread: accept, then test the status.  When WSAAccept *)
(* fails it leaves for good, by either test, whether the listen socket is  *)
(* closed or not: `!status() == SERVER_STOP' holds of a server that runs.  *)
(***************************************************************************)
ClientConnects ==
  /\ running /\ sockets = "open" /\ knocking + accepted < setup.clients
  /\ knocking' = knocking + 1
  /\ UNCHANGED <<running, _shutdown, procVars, report, accepted, wire, sent, early, broken,
                 packageQueue_, holder, pc, tries>>

WSAAccept ==
  /\ Runs("Accept", "WSAAccept")
  /\ sockets = "open" /\ knocking > 0
  /\ Logs
  /\ knocking' = knocking - 1
  /\ accepted' = accepted + 1
  /\ Goto("Accept", "status")
  /\ UNCHANGED <<_shutdown, alive, threadOnly, report, wire, sent, early, broken,
                 packageQueue_, holder, tries>>

AcceptFails ==
  /\ Runs("Accept", "WSAAccept")
  /\ sockets = "closed"
  /\ MayFail(Gone("Server"))
  /\ Ends("Accept")
  /\ UNCHANGED <<_shutdown, threadOnly, report, clientVars, packageQueue_, holder, tries>>

\* the client is gone again, or there are too many sockets
AcceptBreaks ==
  /\ Runs("Accept", "WSAAccept")
  /\ sockets = "open"
  /\ Logs
  /\ broken' = TRUE
  /\ Ends("Accept")
  /\ UNCHANGED <<_shutdown, threadOnly, report, knocking, accepted, wire, sent, early,
                 packageQueue_, holder, tries>>

\* if (server->status() != SERVER_READY) break
TestStatus ==
  /\ Runs("Accept", "status")
  /\ MayFail(Gone("Server"))
  /\ early' = (early \/ Before(<<"status", "READY">>))
  /\ IF status_ = "READY" THEN Loops("Accept", "WSAAccept") ELSE Ends("Accept")
  /\ UNCHANGED <<_shutdown, threadOnly, report, knocking, accepted, wire, sent, broken,
                 packageQueue_, holder, tries>>

(***************************************************************************)
(* IOCPServer::workerThread puts packages, ContentsProcess::process takes  *)
(* them, both inside a scope of packageQueue_'s lock, which _shutdown      *)
(* turns off (LockScope).                                                  *)
(***************************************************************************)
ClientSends ==
  /\ running /\ accepted > 0 /\ sent < setup.packets
  /\ sent' = sent + 1
  /\ wire' = wire + 1
  /\ UNCHANGED <<running, _shutdown, procVars, report, knocking, accepted, early, broken,
                 packageQueue_, holder, pc, tries>>

\* which fails once the port is closed
GetQueuedCompletionStatus ==
  /\ Runs("Worker", "wait")
  /\ Logs
  /\ \/ /\ sockets = "open" /\ wire > 0
        /\ wire' = wire - 1
        /\ Goto("Worker", "scope") /\ UNCHANGED alive
     \/ /\ sockets = "closed"
        /\ Loops("Worker", "wait") /\ UNCHANGED wire
  /\ UNCHANGED <<_shutdown, threadOnly, report, knocking, accepted, sent, early, broken,
                 packageQueue_, holder, tries>>

\* push by the worker, pop by the contents thread
Takes(t) == t = "Contents" /\ packageQueue_ > 0

Moves(t) == packageQueue_' = IF t = "Worker" THEN packageQueue_ + 1
                             ELSE IF Takes(t) THEN packageQueue_ - 1 ELSE packageQueue_

\* after push the worker waits; after pop the package, if any, is run
Proceeds(t, taken) == IF t = "Contents" /\ taken
                        THEN Goto(t, "run") /\ UNCHANGED alive
                        ELSE Loops(t, IF t = "Worker" THEN "wait" ELSE "scope")

InScope == {t \in alive \cap {"Worker", "Contents"} : pc[t] \in {"leave", "leaveToRun"}}

\* LockSafeScope() sees _shutdown and does not lock; searchLockCycle looks the thread up
EnterScope(t) ==
  /\ Runs(t, "scope")
  /\ IF _shutdown
       THEN /\ MayFail(Gone("Server") \/ InScope # {})
            /\ Moves(t)
            /\ Proceeds(t, Takes(t))
       ELSE MayFail(inPut # {}) /\ Goto(t, "lock") /\ UNCHANGED <<alive, packageQueue_>>
  /\ UNCHANGED <<_shutdown, threadOnly, report, clientVars, holder, tries>>

LockQueue(t) ==
  /\ Runs(t, "lock") /\ holder = "none"
  /\ MayFail(Gone("Server"))
  /\ holder' = t
  /\ Moves(t)
  /\ Goto(t, IF Takes(t) THEN "leaveToRun" ELSE "leave")
  /\ UNCHANGED <<_shutdown, alive, threadOnly, report, clientVars, tries>>

\* ~LockSafeScope() sees _shutdown and does not unlock
LeaveScope(t) ==
  /\ Runs(t, pc[t]) /\ t \in InScope
  /\ holder' = IF _shutdown THEN holder ELSE "none"
  /\ Proceeds(t, pc[t] = "leaveToRun")
  /\ UNCHANGED <<running, _shutdown, threadOnly, report, clientVars, packageQueue_, tries>>

\* run(package): runFuncTable_, and handlers that ask TERMINALMANAGER
RunPackage ==
  /\ Runs("Contents", "run")
  /\ MayFail(Gone("Server"))
  /\ Loops("Contents", "scope")
  /\ UNCHANGED <<_shutdown, threadOnly, report, clientVars, packageQueue_, holder, tries>>
-----------------------------------------------------------------------------
workerThread == GetQueuedCompletionStatus
                \/ EnterScope("Worker") \/ LockQueue("Worker") \/ LeaveScope("Worker")

process == RunPackage
           \/ EnterScope("Contents") \/ LockQueue("Contents") \/ LeaveScope("Contents")

acceptThread == WSAAccept \/ AcceptFails \/ TestStatus

Outside == \/ GetLine \/ TickPasses \/ ClientConnects \/ ClientSends \/ AcceptBreaks
           \/ \E t \in Servers : PeerGoes(t)

Next == /\ \/ main \/ serverThread \/ DBProcess \/ TaskProcess
           \/ acceptThread \/ workerThread \/ process \/ Outside
           \/ \E t \in Servers : connectProcess(t)
        /\ UNCHANGED setup

Spec == Init /\ [][Next]_vars

(***************************************************************************)
(* The operating system runs every thread, time passes, and somebody       *)
(* enters a line at the console now and then.  Nothing is assumed of the   *)
(* other servers.                                                          *)
(***************************************************************************)
FairSpec ==
  /\ Spec
  /\ WF_lifeVars(main) /\ WF_lifeVars(serverThread)
  /\ \A t \in Servers : WF_lifeVars(connectProcess(t))
  /\ WF_lifeVars(DBProcess)
  /\ WF_lifeVars(TaskProcess) /\ WF_lifeVars(acceptThread)
  /\ WF_lifeVars(workerThread) /\ WF_lifeVars(process)
  /\ WF_lifeVars(GetLine) /\ WF_lifeVars(TickPasses)
-----------------------------------------------------------------------------
(***************************************************************************)
(* No package meets a server that is not ready for it: when a contents     *)
(* thread runs one, the handlers of the derived class are registered and   *)
(* the terminals they ask for are in the pool, although the contents       *)
(* threads are started before both.                                        *)
(***************************************************************************)
HandlersReady ==
  running /\ pc["Contents"] = "run" =>
    /\ runFuncTable_ = Default \cup server.handlers
    /\ terminalPool_ = {setup.terminals[i] : i \in DOMAIN setup.terminals}

(***************************************************************************)
(* The locks, the sessions, the clock and the sockets are released only    *)
(* when no thread is left that could use them, unless two inserts into     *)
(* threadPool_ met.                                                        *)
(***************************************************************************)
JoinAt == CHOOSE i \in DOMAIN server.main : server.main[i] = "join"

JoinedBeforeRelease ==
  running /\ ~raced =>
    \A i \in JoinAt + 1 .. mainAt - 1 :
      server.main[i] \in {"LOCKAMANGER", "SESSIONMANAGER", "CLOCK", "WINSOCK"} => alive = {}

(***************************************************************************)
(* A client that connects is accepted: it is never the case for good that  *)
(* one is left knocking.  Only four things keep it waiting: the shutdown,  *)
(* the stop of the process, a client that was accepted before run() had    *)
(* set SERVER_READY, and a WSAAccept that fails once: after either the     *)
(* accept thread has ended (IOCPServer.cpp lines 69-74, 151 and 140-147).  *)
(***************************************************************************)
ClientsAreAccepted ==
  []<>(knocking = 0 \/ early \/ broken \/ _shutdown \/ ~running)

(***************************************************************************)
(* The report is added, and when it is due it is made and waits again, for *)
(* as long as the server is up: the node never expires.                    *)
(***************************************************************************)
ReportIsMade == []<>(report = "waiting" \/ ~server.task \/ _shutdown \/ ~running)

(***************************************************************************)
(* A process does not stay in a shutdown: main returns.  Two things hold   *)
(* it up: a lock that a scope has left locked (LockScope), as a thread     *)
(* that waits for it is never joined, and a terminal in recv, as nothing   *)
(* wakes it but its peer.  A server closes what it has accepted after the  *)
(* join: two that shut down and have terminals to each other wait for ever.*)
(***************************************************************************)
LeftLocked == holder # "none" /\ holder \notin InScope

InRecv == \E t \in Servers : Runs(t, "recv")

ProcessEnds == []<>(~_shutdown \/ Returned \/ ~running \/ LeftLocked \/ InRecv)

(***************************************************************************)
(* "shutdown() => stop receiving packets -> handle the packets already     *)
(* received -> update the DB -> ready to end" (main of each server, after  *)
(* run() has returned): no package is left when main returns.              *)
(***************************************************************************)
ReceivedAreHandled == running /\ Returned => packageQueue_ = 0
=============================================================================
