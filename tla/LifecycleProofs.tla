---------------------------- MODULE LifecycleProofs ----------------------------
(***************************************************************************)
(* For each of the four servers, any terminals, clients and packets:       *)
(* no package meets a server whose handlers or terminals are missing, and  *)
(* what the other threads use is released when all of them have ended.     *)
(*                                                                         *)
(* What the server thread has registered is told by the step it is at.     *)
(* The first package needs a client, and clients are accepted by a thread  *)
(* that starts when all handlers are registered.  A thread that has        *)
(* started is in threadPool_ or is put there by the next step, so that     *)
(* main, which waits for the server thread first, joins all of them.       *)
(***************************************************************************)
EXTENDS Lifecycle, TLAPS

Threads == {"Contents", "Worker", "Accept"} \cup Servers

Labels == {"scope", "lock", "leave", "leaveToRun", "run", "wait", "WSAAccept", "status",
           "connect", "recv"}

LifeTypes ==
  /\ setup \in Setups
  /\ mainAt \in Nat \ {0} /\ serverAt \in 0..21 /\ elem \in Nat \ {0}
  /\ pc \in [Threads -> Labels]

\* where main starts the server thread
RunAt == IF setup.name = "DBAgent" THEN 9 ELSE 7

\* the server thread runs when main waits for it or is about to
InStep ==
  /\ serverAt = 0 <=> mainAt <= RunAt
  /\ "Server" \in alive <=> serverAt \in 1..20
  /\ mainAt > RunAt + 2 => serverAt = 21

Registered ==
  /\ runFuncTable_ = IF serverAt <= 3 THEN {} ELSE IF serverAt = 4 THEN Default
                                              ELSE Default \cup server.handlers

\* the terminals made so far; the loop of TerminalManager::initialize is at 5, 6 and 7
Configured ==
  /\ terminalPool_ = {setup.terminals[i] : i \in 1..elem - 1}
  /\ serverAt < 5 => elem = 1
  /\ serverAt \in 5..7 => elem \in 1..Len(setup.terminals)
  /\ serverAt > 7 => elem = Len(setup.terminals) + 1

\* before the accept thread is started nothing arrives
Unserved ==
  serverAt <= 12 => /\ "Accept" \notin alive
                    /\ accepted = 0 /\ wire = 0 /\ packageQueue_ = 0
                    /\ pc["Worker"] = "wait" /\ pc["Contents"] \in {"scope", "lock", "leave"}

\* a thread started and not yet put into threadPool_
Unput(t) ==
  \/ mainAt = RunAt + 1 /\ t = "Server"
  \/ serverAt = 2 /\ t = "Contents"
  \/ serverAt = 6 /\ t = Terminal
  \/ serverAt = 13 /\ t = "Accept"
  \/ serverAt = 15 /\ t = "Worker"

Pooled ==
  ~raced => /\ \A t \in alive : t \in threadPool_ \/ Unput(t)
            /\ mainAt > RunAt + 4 => alive = {}

LifeInv == LifeTypes /\ InStep /\ Registered /\ Configured /\ Unserved /\ Pooled
-----------------------------------------------------------------------------
(***************************************************************************)
(* The steps of the server thread, by their numbers.                       *)
(***************************************************************************)
LEMMA ProcessSteps ==
  /\ DOMAIN serverProcess = 1..20
  /\ serverProcess[1] = <<"start", "Contents">> /\ serverProcess[2] = <<"put", "Contents">>
  /\ serverProcess[3] = <<"regist", "default">> /\ serverProcess[4] = <<"regist", "sub">>
  /\ serverProcess[5] = <<"start", "Terminal">> /\ serverProcess[6] = <<"put", "Terminal">>
  /\ serverProcess[7] = <<"put", "terminal">> /\ serverProcess[8] = <<"status", "INITIALZE">>
  /\ serverProcess[9] = <<"do", "DBManager">> /\ serverProcess[10] = <<"add", "report">>
  /\ serverProcess[11] = <<"do", "listen">>
  /\ serverProcess[12] = <<"start", "Accept">> /\ serverProcess[13] = <<"put", "Accept">>
  /\ serverProcess[14] = <<"start", "Worker">> /\ serverProcess[15] = <<"put", "Worker">>
  /\ serverProcess[16] = <<"status", "READY">> /\ serverProcess[17] = <<"do", "getline">>
  /\ serverProcess[18] = <<"do", "close">> /\ serverProcess[19] = <<"status", "STOP">>
  /\ serverProcess[20] = <<"do", "delete">>
  BY DEF serverProcess, initialize, newServer, runServer, deleteServer, Make

(***************************************************************************)
(* Every server runs the same process; main of one has two more steps.     *)
(***************************************************************************)
WithDatabase == mainWith(<<"DBManager", "runDB">>)

LEMMA ServerMain ==
  ASSUME setup \in Setups
  PROVE  /\ server.process = serverProcess
         /\ \/ RunAt = 7 /\ server.main = mainPlain
            \/ RunAt = 9 /\ server.main = WithDatabase
<1>1. setup.name \in {"ChattingServer", "InGameServer", "LoginServer", "DBAgent"}
  BY LifeBounds DEF Servers
<1>2. CASE setup.name = "ChattingServer"
  <2>1. server = ChattingServer /\ RunAt = 7
    BY <1>2 DEF server, ServerOf, RunAt
  <2>2. server.process = serverProcess /\ server.main = mainPlain
    BY <2>1 DEF ChattingServer
  <2> QED BY <2>1, <2>2, Zenon
<1>3. CASE setup.name = "InGameServer"
  <2>1. server = InGameServer /\ RunAt = 7
    BY <1>3 DEF server, ServerOf, RunAt
  <2>2. server.process = serverProcess /\ server.main = mainPlain
    BY <2>1 DEF InGameServer
  <2> QED BY <2>1, <2>2, Zenon
<1>4. CASE setup.name = "LoginServer"
  <2>1. server = LoginServer /\ RunAt = 7
    BY <1>4 DEF server, ServerOf, RunAt
  <2>2. server.process = serverProcess /\ server.main = mainPlain
    BY <2>1 DEF LoginServer
  <2> QED BY <2>1, <2>2, Zenon
<1>5. CASE setup.name = "DBAgent"
  <2>1. server = DBAgent /\ RunAt = 9
    BY <1>5 DEF server, ServerOf, RunAt
  <2>2. server.process = serverProcess /\ server.main = WithDatabase
    BY <2>1 DEF DBAgent, WithDatabase
  <2> QED BY <2>1, <2>2, Zenon
<1> QED BY <1>1, <1>2, <1>3, <1>4, <1>5

LEMMA PlainSteps ==
  /\ Len(mainPlain) = 16
  /\ mainPlain[1] = "WINSOCK" /\ mainPlain[2] = "CLOCK" /\ mainPlain[3] = "SESSIONMANAGER"
  /\ mainPlain[4] = "LOCKAMANGER" /\ mainPlain[5] = "THREADMANAGER"
  /\ mainPlain[6] = "TASKMANAGER" /\ mainPlain[7] = "run" /\ mainPlain[8] = "put"
  /\ mainPlain[9] = "join" /\ mainPlain[10] = "TASKMANAGER"
  /\ mainPlain[11] = "THREADMANAGER" /\ mainPlain[12] = "LOCKAMANGER"
  /\ mainPlain[13] = "SESSIONMANAGER" /\ mainPlain[14] = "CLOCK" /\ mainPlain[15] = "WINSOCK"
  /\ mainPlain[16] = "exit"
  BY DEF mainPlain, mainWith, initOrder, releaseOrder

LEMMA DatabaseSteps ==
  /\ Len(WithDatabase) = 18
  /\ WithDatabase[1] = "WINSOCK" /\ WithDatabase[2] = "CLOCK"
  /\ WithDatabase[3] = "SESSIONMANAGER" /\ WithDatabase[4] = "LOCKAMANGER"
  /\ WithDatabase[5] = "THREADMANAGER" /\ WithDatabase[6] = "TASKMANAGER"
  /\ WithDatabase[7] = "DBManager" /\ WithDatabase[8] = "runDB"
  /\ WithDatabase[9] = "run" /\ WithDatabase[10] = "put" /\ WithDatabase[11] = "join"
  /\ WithDatabase[12] = "TASKMANAGER" /\ WithDatabase[13] = "THREADMANAGER"
  /\ WithDatabase[14] = "LOCKAMANGER" /\ WithDatabase[15] = "SESSIONMANAGER"
  /\ WithDatabase[16] = "CLOCK" /\ WithDatabase[17] = "WINSOCK" /\ WithDatabase[18] = "exit"
  BY DEF WithDatabase, mainWith, initOrder, releaseOrder

(***************************************************************************)
(* Where main, and the server thread, are when they take a step.           *)
(***************************************************************************)
LEMMA MainSteps ==
  ASSUME setup \in Setups, mainAt \in Nat \ {0}, NEW s, At(s)
  PROVE  /\ s = "run" => mainAt = RunAt
         /\ s = "put" => mainAt = RunAt + 1
         /\ s = "join" => mainAt = RunAt + 2
         /\ s = "DBManager" => mainAt < RunAt
         /\ s = "runDB" => mainAt < RunAt
         /\ s = "TASKMANAGER" => mainAt \in {6, RunAt + 3}
         /\ s = "THREADMANAGER" => mainAt \in {5, RunAt + 4}
         /\ s = "LOCKAMANGER" => mainAt \in {4, RunAt + 5}
         /\ s = "SESSIONMANAGER" => mainAt \in {3, RunAt + 6}
         /\ s = "CLOCK" => mainAt \in {2, RunAt + 7}
         /\ s = "WINSOCK" => mainAt \in {1, RunAt + 8}
         /\ s = "exit" => mainAt = RunAt + 9
<1>1. CASE RunAt = 7 /\ server.main = mainPlain
  <2>1. mainAt \in 1..16 /\ mainPlain[mainAt] = s
    BY <1>1, PlainSteps DEF At
  <2> QED BY <1>1, <2>1, PlainSteps
<1>2. CASE RunAt = 9 /\ server.main = WithDatabase
  <2>1. mainAt \in 1..18 /\ WithDatabase[mainAt] = s
    BY <1>2, DatabaseSteps DEF At
  <2> QED BY <1>2, <2>1, DatabaseSteps
<1> QED BY <1>1, <1>2, ServerMain, Zenon

LEMMA ServerSteps ==
  ASSUME setup \in Setups, NEW s, ServerAt(s)
  PROVE  /\ "Server" \in alive /\ serverAt \in 1..20
         /\ s = <<"start", "Contents">> => serverAt = 1
         /\ s = <<"put", "Contents">> => serverAt = 2
         /\ s = <<"regist", "default">> => serverAt = 3
         /\ s = <<"regist", "sub">> => serverAt = 4
         /\ s = <<"start", "Terminal">> => serverAt = 5
         /\ s = <<"put", "Terminal">> => serverAt = 6
         /\ s = <<"put", "terminal">> => serverAt = 7
         /\ s = <<"start", "Accept">> => serverAt = 12
         /\ s = <<"put", "Accept">> => serverAt = 13
         /\ s = <<"start", "Worker">> => serverAt = 14
         /\ s = <<"put", "Worker">> => serverAt = 15
         /\ s[1] = "status" => serverAt \in {8, 16, 19} /\ (serverAt = 16 <=> s[2] = "READY")
         /\ s = <<"do", "DBManager">> => serverAt = 9
         /\ s = <<"add", "report">> => serverAt = 10
         /\ s = <<"do", "listen">> => serverAt = 11
         /\ s = <<"do", "getline">> => serverAt = 17
         /\ s = <<"do", "close">> => serverAt = 18
         /\ s = <<"do", "delete">> => serverAt = 20
<1>1. server.process = serverProcess
  BY ServerMain
<1>2. "Server" \in alive /\ serverAt \in 1..20 /\ serverProcess[serverAt] = s
  BY <1>1, ProcessSteps, Zenon DEF ServerAt
<1> QED BY <1>2, ProcessSteps
-----------------------------------------------------------------------------
LEMMA Configuration ==
  ASSUME setup \in Setups
  PROVE  /\ Len(setup.terminals) \in Nat \ {0}
         /\ DOMAIN setup.terminals = 1..Len(setup.terminals)
         /\ \A i \in 1..Len(setup.terminals) : setup.terminals[i] \in Servers
<1>1. setup.terminals \in Seq(Servers) /\ setup.terminals # <<>>
  BY LifeBounds
<1> QED BY <1>1

LEMMA LifeInit == Init => LifeInv
<1> SUFFICES ASSUME Init PROVE LifeInv
  OBVIOUS
<1>1. setup \in Setups /\ RunAt \in {7, 9}
  BY ServerMain DEF Init
<1>2. pc \in [Threads -> Labels]
  <2>1. ASSUME NEW t \in Threads PROVE First(t) \in Labels
    <3>1. CASE t \in Servers
      BY <3>1 DEF First, Labels, Servers
    <3>2. CASE t \in {"Contents", "Worker", "Accept"}
      BY <3>2 DEF First, Labels
    <3> QED BY <3>1, <3>2 DEF Threads
  <2>2. pc = [t \in Threads |-> First(t)]
    BY DEF Init, Threads
  <2> QED BY <2>1, <2>2
<1>3. pc["Worker"] = "wait" /\ pc["Contents"] = "scope"
  <2>1. pc["Worker"] = First("Worker") /\ pc["Contents"] = First("Contents")
    BY DEF Init
  <2>2. First("Worker") = "wait" /\ First("Contents") = "scope"
    BY DEF First, Servers
  <2> QED BY <2>1, <2>2
<1>4. Configured
  BY <1>1 DEF Init, Configured
<1> QED
  BY <1>1, <1>2, <1>3, <1>4
  DEF Init, LifeInv, LifeTypes, InStep, Registered, Unserved, Pooled, Unput

LEMMA ConfiguredKeeps ==
  ASSUME LifeInv, UNCHANGED <<setup, elem, terminalPool_>>,
         \/ serverAt' = serverAt
         \/ serverAt \in 0..6 /\ serverAt' = serverAt + 1
         \/ serverAt > 7 /\ serverAt' \in 8..21
  PROVE  Configured' /\ Terminal' = Terminal
<1>1. serverAt \in 0..21 /\ Len(setup.terminals) \in Nat \ {0}
  BY Configuration DEF LifeInv, LifeTypes
<1>2. Terminal' = Terminal
  BY DEF Terminal
<1>3. PICK n \in Nat \ {0} : n = Len(setup.terminals)
  BY <1>1
<1>4. /\ serverAt < 5 => elem = 1
      /\ serverAt \in 5..7 => elem \in 1..n
      /\ serverAt > 7 => elem = n + 1
  BY <1>3 DEF LifeInv, Configured
<1>5. /\ serverAt' < 5 => elem = 1
      /\ serverAt' \in 5..7 => elem \in 1..n
      /\ serverAt' > 7 => elem = n + 1
  BY <1>1, <1>4
<1>6. terminalPool_' = {setup.terminals[i] : i \in 1..elem - 1}
  BY DEF LifeInv, Configured
<1> QED BY <1>2, <1>3, <1>5, <1>6 DEF Configured

(***************************************************************************)
(* Three parts look at main, the server thread and what they keep alone.   *)
(***************************************************************************)
LEMMA ThreadsKeep ==
  ASSUME LifeInv, UNCHANGED setup, UNCHANGED threadOnly,
         alive' \subseteq alive, "Server" \in alive => "Server" \in alive'
  PROVE  InStep' /\ Registered' /\ Configured' /\ Pooled'
<1>1. UNCHANGED <<RunAt, server>>
  BY DEF RunAt, server
<1>2. Configured' /\ Terminal' = Terminal
  BY ConfiguredKeeps DEF threadOnly
<1>3. InStep'
  BY <1>1 DEF LifeInv, InStep, threadOnly
<1>4. Registered'
  BY <1>1 DEF LifeInv, Registered, threadOnly
<1>5. Pooled'
  BY <1>1, <1>2 DEF LifeInv, Pooled, Unput, threadOnly
<1> QED BY <1>3, <1>4, <1>5, <1>2

LEMMA ThreadsKeepTypes ==
  ASSUME LifeInv, UNCHANGED setup, UNCHANGED threadOnly,
         pc' = pc \/ \E t \in Threads, l \in Labels : Goto(t, l)
  PROVE  LifeTypes'
  BY DEF LifeInv, LifeTypes, threadOnly, Goto

(***************************************************************************)
(* The threads that neither start others nor serve a client.               *)
(***************************************************************************)
LEMMA connectKeeps ==
  ASSUME LifeInv, UNCHANGED setup, NEW t \in Servers, connectProcess(t) \/ PeerGoes(t)
  PROVE  LifeInv'
<1>1. t \in Threads /\ t # "Server" /\ t # "Accept" /\ t # "Worker" /\ t # "Contents"
  BY DEF Threads, Servers
<1>2. /\ UNCHANGED threadOnly /\ UNCHANGED <<accepted, wire, packageQueue_>>
      /\ alive' = alive \/ alive' = alive \ {t}
      /\ pc' = pc \/ Goto(t, "recv") \/ Goto(t, "connect")
  BY DEF connectProcess, PeerGoes, Ends, threadOnly, clientVars
<1>3. InStep' /\ Registered' /\ Configured' /\ Pooled'
  BY <1>1, <1>2, ThreadsKeep
<1>4. LifeTypes'
  BY <1>1, <1>2, ThreadsKeepTypes DEF Labels
<1>5. pc'["Worker"] = pc["Worker"] /\ pc'["Contents"] = pc["Contents"]
  BY <1>1, <1>2 DEF Goto, LifeInv, LifeTypes, Threads
<1>6. Unserved'
  BY <1>2, <1>5 DEF Unserved, LifeInv, threadOnly
<1> QED BY <1>3, <1>4, <1>6 DEF LifeInv

LEMMA aloneKeeps ==
  ASSUME LifeInv, UNCHANGED setup, DBProcess \/ TickPasses \/ TaskProcess PROVE LifeInv'
<1>1. /\ UNCHANGED threadOnly /\ UNCHANGED <<accepted, wire, packageQueue_, pc>>
      /\ alive' = alive \/ alive' = alive \ {"ADODatabase"} \/ alive' = alive \ {"Task"}
  BY DEF DBProcess, TickPasses, TaskProcess, Ends, threadOnly, clientVars, procVars, tick
<1>2. InStep' /\ Registered' /\ Configured' /\ Pooled'
  BY <1>1, ThreadsKeep
<1>3. LifeTypes'
  BY <1>1, ThreadsKeepTypes
<1>4. Unserved'
  BY <1>1 DEF Unserved, LifeInv, threadOnly
<1> QED BY <1>2, <1>3, <1>4 DEF LifeInv

LEMMA clientKeeps ==
  ASSUME LifeInv, UNCHANGED setup, ClientConnects \/ ClientSends PROVE LifeInv'
<1>1. /\ UNCHANGED threadOnly /\ UNCHANGED <<accepted, packageQueue_, alive, pc>>
      /\ wire' = wire \/ accepted > 0
  BY DEF ClientConnects, ClientSends, threadOnly, procVars
<1>2. InStep' /\ Registered' /\ Configured' /\ Pooled'
  BY <1>1, ThreadsKeep
<1>3. LifeTypes'
  BY <1>1, ThreadsKeepTypes
<1>4. Unserved'
  BY <1>1 DEF Unserved, LifeInv, threadOnly
<1> QED BY <1>2, <1>3, <1>4 DEF LifeInv

LEMMA acceptKeeps ==
  ASSUME LifeInv, UNCHANGED setup, acceptThread \/ AcceptBreaks PROVE LifeInv'
<1>1. /\ UNCHANGED threadOnly /\ UNCHANGED <<wire, packageQueue_>>
      /\ "Accept" \in alive
      /\ alive' = alive \/ alive' = alive \ {"Accept"}
      /\ pc' = pc \/ Goto("Accept", "status") \/ Goto("Accept", "WSAAccept")
  BY DEF acceptThread, WSAAccept, AcceptFails, AcceptBreaks, TestStatus, Runs, Loops, Ends,
         threadOnly, clientVars
<1>2. InStep' /\ Registered' /\ Configured' /\ Pooled'
  BY <1>1, ThreadsKeep
<1>3. LifeTypes'
  BY <1>1, ThreadsKeepTypes DEF Threads, Labels
<1>4. Unserved'
  BY <1>1 DEF Unserved, LifeInv, threadOnly
<1> QED BY <1>2, <1>3, <1>4 DEF LifeInv

(***************************************************************************)
(* The worker and the contents thread.                                     *)
(***************************************************************************)
LEMMA scopesKeep ==
  ASSUME LifeInv, UNCHANGED setup, workerThread \/ process PROVE LifeInv'
<1>1. PICK t \in {"Worker", "Contents"} :
        /\ t = "Worker" => GetQueuedCompletionStatus \/ EnterScope(t) \/ LockQueue(t)
                             \/ LeaveScope(t)
        /\ t = "Contents" => RunPackage \/ EnterScope(t) \/ LockQueue(t) \/ LeaveScope(t)
  BY DEF workerThread, process
<1>2. /\ UNCHANGED threadOnly /\ UNCHANGED accepted
      /\ alive' = alive \/ alive' = alive \ {t}
      /\ pc' = pc \/ \E l \in Labels : Goto(t, l)
  BY <1>1 DEF GetQueuedCompletionStatus, RunPackage, EnterScope, LockQueue, LeaveScope,
     Proceeds, Loops, Ends, threadOnly, clientVars, Labels
<1>3. InStep' /\ Registered' /\ Configured' /\ Pooled'
  BY <1>2, ThreadsKeep
<1>4. LifeTypes'
  BY <1>2, ThreadsKeepTypes DEF Threads
<1>5. ASSUME serverAt' <= 12 PROVE Unserved'
  <2>1. /\ serverAt <= 12 /\ "Accept" \notin alive'
        /\ accepted' = 0 /\ wire = 0 /\ packageQueue_ = 0
        /\ pc["Worker"] = "wait" /\ pc["Contents"] \in {"scope", "lock", "leave"}
    BY <1>2, <1>5 DEF LifeInv, Unserved, threadOnly
  <2>2. CASE t = "Worker"
    <3>1. pc' = pc \/ Goto(t, "wait")
      BY <1>1, <2>1, <2>2 DEF GetQueuedCompletionStatus, EnterScope, LockQueue, LeaveScope,
         InScope, Runs, Loops, Ends
    <3>2. wire' = 0 /\ packageQueue_' = 0
      BY <1>1, <2>1, <2>2 DEF GetQueuedCompletionStatus, EnterScope, LockQueue, LeaveScope,
         InScope, Runs
    <3>3. pc'["Worker"] = "wait" /\ pc'["Contents"] = pc["Contents"]
      BY <3>1, <2>1, <2>2 DEF Goto, LifeInv, LifeTypes, Threads
    <3> QED BY <2>1, <3>2, <3>3 DEF Unserved
  <2>3. CASE t = "Contents"
    <3>1. ~Takes("Contents")
      BY <2>1 DEF Takes
    <3>2. pc' = pc \/ Goto(t, "lock") \/ Goto(t, "leave") \/ Goto(t, "scope")
      BY <1>1, <2>1, <2>3, <3>1 DEF RunPackage, EnterScope, LockQueue, LeaveScope,
         InScope, Runs, Loops, Ends, Proceeds
    <3>3. wire' = 0 /\ packageQueue_' = 0
      BY <1>1, <2>1, <2>3, <3>1 DEF RunPackage, EnterScope, LockQueue, LeaveScope,
         InScope, Runs, Moves, clientVars
    <3>4. /\ pc'["Worker"] = pc["Worker"]
          /\ pc'["Contents"] \in {"scope", "lock", "leave"}
      BY <3>2, <2>1, <2>3 DEF Goto, LifeInv, LifeTypes, Threads
    <3> QED BY <2>1, <3>3, <3>4 DEF Unserved
  <2> QED BY <2>2, <2>3
<1>6. Unserved'
  BY <1>5 DEF Unserved
<1> QED BY <1>3, <1>4, <1>6 DEF LifeInv

(***************************************************************************)
(* The server thread.  Only its own threads are not in threadPool_ yet.    *)
(***************************************************************************)
LEMMA NothingArrives ==
  ASSUME LifeInv, UNCHANGED <<clientVars, packageQueue_, pc>>,
         serverAt' <= 12 => /\ serverAt <= 12
                            /\ "Accept" \in alive' => "Accept" \in alive
  PROVE  Unserved'
  BY DEF LifeInv, Unserved, clientVars

LEMMA makeKeeps ==
  ASSUME LifeInv, UNCHANGED setup, MakeThread PROVE LifeInv'
<1> PICK k \in {"Contents", "Terminal", "Accept", "Worker"} :
        \/ ServerAt(<<"start", k>>) /\ StartThread(Thread(k), "server")
        \/ ServerAt(<<"put", k>>) /\ PutThread(Thread(k), "server")
  BY DEF MakeThread
<1> PICK t : t = Thread(k)
  OBVIOUS
<1>1. \/ ServerAt(<<"start", k>>) /\ StartThread(t, "server")
      \/ ServerAt(<<"put", k>>) /\ PutThread(t, "server")
  OBVIOUS
<1>2. setup \in Setups
  BY DEF LifeInv, LifeTypes
<1>3. /\ UNCHANGED <<mainAt, runFuncTable_, terminalPool_, elem, RunAt, server>>
      /\ UNCHANGED <<clientVars, packageQueue_, pc>>
      /\ serverAt' = serverAt + 1
  BY DEF MakeThread, Then, RunAt, server
<1>4. serverAt = 5 => Terminal \in Servers
  BY <1>2, Configuration DEF LifeInv, Configured, Terminal
<1>5. CASE ServerAt(<<"start", k>>) /\ StartThread(t, "server")
  <2>1. /\ \/ serverAt = 1 /\ t = "Contents"
           \/ serverAt = 5 /\ t = Terminal
           \/ serverAt = 12 /\ t = "Accept"
           \/ serverAt = 14 /\ t = "Worker"
        /\ "Server" \in alive
    BY <1>1, <1>2, <1>5, ServerSteps DEF Thread
  <2>2. /\ alive' = alive \/ alive' = alive \cup {t}
        /\ UNCHANGED <<threadPool_, raced>>
    BY <1>5 DEF StartThread
  <2>3. t \in {"Contents", "Accept", "Worker"} \cup Servers \/ UNCHANGED alive
    BY <1>4, <2>1, <2>2
  <2>4. Configured' /\ Terminal' = Terminal
    BY <1>3, <2>1, ConfiguredKeeps
  <2>5. LifeTypes'
    BY <1>3, <2>1 DEF LifeInv, LifeTypes
  <2>6. InStep' /\ Registered'
    <3>1. t # "Server" \/ UNCHANGED alive
      BY <2>3 DEF Servers
    <3>2. "Server" \in alive' <=> "Server" \in alive
      BY <2>2, <3>1
    <3> QED BY <1>3, <2>1, <3>2 DEF LifeInv, LifeTypes, InStep, Registered
  <2>7. Unserved'
    <3>1. t # "Accept" \/ serverAt = 12 \/ UNCHANGED alive
      BY <1>4, <2>1 DEF Servers
    <3> QED BY <1>3, <2>1, <2>2, <3>1, NothingArrives
  <2>8. Pooled'
    BY <1>3, <2>1, <2>2, <2>4 DEF LifeInv, LifeTypes, InStep, Pooled, Unput
  <2> QED BY <2>5, <2>6, <2>7, <2>8, <2>4 DEF LifeInv
<1>6. CASE ServerAt(<<"put", k>>) /\ PutThread(t, "server")
  <2>1. /\ \/ serverAt = 2 /\ t = "Contents"
           \/ serverAt = 6 /\ t = Terminal
           \/ serverAt = 13 /\ t = "Accept"
           \/ serverAt = 15 /\ t = "Worker"
        /\ "Server" \in alive
    BY <1>1, <1>2, <1>6, ServerSteps DEF Thread
  <2>2. /\ UNCHANGED alive
        /\ ~raced' => ~raced /\ threadPool_' = threadPool_ \cup {t}
    BY <1>6 DEF PutThread
  <2>3. t \in {"Contents", "Accept", "Worker"} \cup Servers \/ UNCHANGED alive
    BY <1>4, <2>1, <2>2
  <2>4. Configured' /\ Terminal' = Terminal
    BY <1>3, <2>1, ConfiguredKeeps
  <2>5. LifeTypes'
    BY <1>3, <2>1 DEF LifeInv, LifeTypes
  <2>6. InStep' /\ Registered'
    <3>1. t # "Server" \/ UNCHANGED alive
      BY <2>3 DEF Servers
    <3>2. "Server" \in alive' <=> "Server" \in alive
      BY <2>2, <3>1
    <3> QED BY <1>3, <2>1, <3>2 DEF LifeInv, LifeTypes, InStep, Registered
  <2>7. Unserved'
    <3>1. t # "Accept" \/ serverAt = 12 \/ UNCHANGED alive
      BY <2>2
    <3> QED BY <1>3, <2>1, <2>2, <3>1, NothingArrives
  <2>8. Pooled'
    BY <1>3, <2>1, <2>2, <2>4 DEF LifeInv, LifeTypes, InStep, Pooled, Unput
  <2> QED BY <2>5, <2>6, <2>7, <2>8, <2>4 DEF LifeInv
<1> QED BY <1>1, <1>5, <1>6

LEMMA registKeeps ==
  ASSUME LifeInv, UNCHANGED setup, Regist PROVE LifeInv'
<1>1. setup \in Setups
  BY DEF LifeInv, LifeTypes
<1>2. /\ UNCHANGED <<mainAt, alive, threadPool_, raced, terminalPool_, elem, RunAt, server>>
      /\ UNCHANGED <<clientVars, packageQueue_, pc>>
      /\ serverAt' = serverAt + 1
  BY DEF Regist, Then, RunAt, server
<1>3. /\ serverAt \in {3, 4} /\ "Server" \in alive
      /\ serverAt = 3 => runFuncTable_' = runFuncTable_ \cup Default
      /\ serverAt = 4 => runFuncTable_' = runFuncTable_ \cup server.handlers
  BY <1>1, ServerSteps DEF Regist
<1>4. LifeTypes'
  BY <1>2, <1>3 DEF LifeInv, LifeTypes
<1>5. InStep'
  BY <1>2, <1>3 DEF LifeInv, LifeTypes, InStep
<1>6. Registered'
  <2>1. CASE serverAt = 3
    <3>1. runFuncTable_' = {} \cup Default
      BY <1>3, <2>1 DEF LifeInv, Registered
    <3> QED BY <1>2, <2>1, <3>1 DEF Registered
  <2>2. CASE serverAt = 4
    <3>1. runFuncTable_' = Default \cup server.handlers
      BY <1>3, <2>2 DEF LifeInv, Registered
    <3> QED BY <1>2, <2>2, <3>1 DEF Registered
  <2> QED BY <1>3, <2>1, <2>2
<1>7. Configured'
  BY <1>2, <1>3, ConfiguredKeeps
<1>8. Unserved'
  BY <1>2, <1>3, NothingArrives
<1>9. Pooled'
  BY <1>2, <1>3 DEF LifeInv, LifeTypes, InStep, Pooled, Unput
<1> QED BY <1>4, <1>5, <1>6, <1>7, <1>8, <1>9 DEF LifeInv

\* one terminal more is in the pool; the loop goes on or is left
LEMMA terminalKeeps ==
  ASSUME LifeInv, UNCHANGED setup, PutTerminal PROVE LifeInv'
<1>1. /\ UNCHANGED <<mainAt, alive, threadPool_, raced, runFuncTable_, RunAt, server>>
      /\ UNCHANGED <<clientVars, packageQueue_, pc>>
      /\ elem' = elem + 1 /\ terminalPool_' = terminalPool_ \cup {setup.terminals[elem]}
      /\ serverAt' = serverAt + IF elem < Len(setup.terminals) THEN -2 ELSE 1
  BY DEF PutTerminal, RunAt, server, Terminal
<1>2. PICK n \in Nat : n = Len(setup.terminals)
  BY Configuration DEF LifeInv, LifeTypes
<1>3. serverAt = 7 /\ "Server" \in alive /\ elem \in 1..n
  BY <1>2, ServerSteps DEF PutTerminal, LifeInv, LifeTypes, Configured
<1>4. \/ elem < n /\ serverAt' = 5
      \/ elem = n /\ serverAt' = 8
  BY <1>1, <1>2, <1>3
<1>5. LifeTypes'
  BY <1>1, <1>3, <1>4 DEF LifeInv, LifeTypes
<1>6. InStep' /\ Registered'
  BY <1>1, <1>3, <1>4 DEF LifeInv, LifeTypes, InStep, Registered
<1>7. Configured'
  <2>1. terminalPool_ = {setup.terminals[i] : i \in 1..elem - 1}
    BY DEF LifeInv, Configured
  <2>2. terminalPool_' = {setup.terminals[i] : i \in 1..elem' - 1}
    BY <1>1, <1>3, <2>1
  <2> QED BY <1>1, <1>2, <1>3, <1>4, <2>2 DEF Configured
<1>8. Unserved'
  BY <1>1, <1>3, <1>4, NothingArrives
<1>9. Pooled'
  BY <1>1, <1>3, <1>4 DEF LifeInv, LifeTypes, InStep, Pooled, Unput
<1> QED BY <1>5, <1>6, <1>7, <1>8, <1>9 DEF LifeInv

LEMMA serverKeeps ==
  ASSUME LifeInv, UNCHANGED setup,
         Status \/ Prepare \/ AddReport \/ GetLine \/ CloseServer
  PROVE  LifeInv'
<1>1. setup \in Setups
  BY DEF LifeInv, LifeTypes
<1>2. /\ UNCHANGED <<mainAt, threadPool_, raced, runFuncTable_, terminalPool_, elem>>
      /\ UNCHANGED <<RunAt, server>> /\ UNCHANGED <<clientVars, packageQueue_, pc>>
  BY DEF Status, Prepare, AddReport, GetLine, CloseServer, RunAt, server
<1>3. /\ "Server" \in alive
      /\ \/ serverAt \in {8, 9, 10, 11, 16, 17, 18, 19} /\ serverAt' = serverAt + 1
              /\ UNCHANGED alive
         \/ serverAt = 16 /\ serverAt' = 18 /\ UNCHANGED alive
         \/ serverAt = 17 /\ serverAt' = 17 /\ UNCHANGED alive
         \/ serverAt = 20 /\ serverAt' = 21 /\ alive' = alive \ {"Server"}
  <2>1. CASE Status
    <3>1. PICK s \in {"INITIALZE", "READY", "STOP"} :
            /\ ServerAt(<<"status", s>>)
            /\ serverAt' = serverAt + IF s = "READY" /\ _shutdown THEN 2 ELSE 1
      BY <2>1 DEF Status
    <3>2. /\ "Server" \in alive /\ serverAt \in {8, 16, 19}
          /\ serverAt = 16 <=> s = "READY"
      BY <1>1, <3>1, ServerSteps
    <3> QED BY <2>1, <3>1, <3>2 DEF Status
  <2>2. CASE Prepare \/ AddReport
    BY <1>1, <2>2, ServerSteps DEF Prepare, AddReport, Then
  <2>3. CASE GetLine
    BY <1>1, <2>3, ServerSteps DEF GetLine
  <2>4. CASE CloseServer
    BY <1>1, <2>4, ServerSteps DEF CloseServer, Then
  <2> QED BY <2>1, <2>2, <2>3, <2>4
<1>4. LifeTypes'
  BY <1>2, <1>3 DEF LifeInv, LifeTypes
<1>5. InStep' /\ Registered'
  BY <1>2, <1>3 DEF LifeInv, LifeTypes, InStep, Registered
<1>6. Configured'
  BY <1>2, <1>3, ConfiguredKeeps
<1>7. Unserved'
  BY <1>2, <1>3, NothingArrives
<1>8. Pooled'
  BY <1>2, <1>3 DEF LifeInv, LifeTypes, InStep, Pooled, Unput
<1> QED BY <1>4, <1>5, <1>7, <1>8, <1>6 DEF LifeInv

(***************************************************************************)
(* main.                                                                   *)
(***************************************************************************)
LEMMA managersKeep ==
  ASSUME LifeInv, UNCHANGED setup, InitManager \/ RunDatabases PROVE LifeInv'
<1>1. setup \in Setups /\ mainAt \in Nat \ {0}
  BY DEF LifeInv, LifeTypes
<1>2. /\ UNCHANGED <<serverAt, raced, runFuncTable_, terminalPool_, elem, RunAt, server>>
      /\ UNCHANGED <<clientVars, packageQueue_, pc>>
      /\ mainAt' = mainAt + 1
  BY DEF InitManager, RunDatabases, RunAt, server
<1>3. PICK made : /\ alive' = alive \cup made /\ threadPool_' = threadPool_ \cup made
                  /\ "Accept" \notin made /\ "Server" \notin made
  <2>1. CASE InitManager
    <3>1. PICK m : LET made == IF m = "TASKMANAGER" /\ server.task THEN {"Task"} ELSE {}
                   IN  alive' = alive \cup made /\ threadPool_' = threadPool_ \cup made
      BY <2>1 DEF InitManager
    <3>2. CASE m = "TASKMANAGER" /\ server.task
      <4> WITNESS {"Task"}
      <4> QED BY <3>1, <3>2
    <3>3. CASE ~(m = "TASKMANAGER" /\ server.task)
      <4> WITNESS {}
      <4> QED BY <3>1, <3>3
    <3> QED BY <3>2, <3>3
  <2>2. CASE RunDatabases
    <3>1. CASE dbConnected
      <4> WITNESS {}
      <4> QED BY <2>2, <3>1 DEF RunDatabases
    <3>2. CASE ~dbConnected
      <4> WITNESS {"ADODatabase"}
      <4> QED BY <2>2, <3>2 DEF RunDatabases
    <3> QED BY <3>1, <3>2
  <2> QED BY <2>1, <2>2
<1>4. mainAt < RunAt /\ RunAt \in {7, 9}
  <2>1. RunAt \in {7, 9}
    BY <1>1, ServerMain
  <2>2. CASE InitManager
    <3>1. serverAt = 0
      BY <2>2 DEF InitManager
    <3>2. mainAt <= RunAt
      BY <3>1 DEF LifeInv, InStep
    <3> QED BY <1>1, <2>1, <2>2, <3>2, MainSteps DEF InitManager
  <2>3. CASE RunDatabases
    BY <1>1, <2>1, <2>3, MainSteps DEF RunDatabases
  <2> QED BY <2>1, <2>2, <2>3
<1>5. LifeTypes'
  BY <1>2 DEF LifeInv, LifeTypes
<1>6. InStep' /\ Registered'
  BY <1>1, <1>2, <1>3, <1>4 DEF LifeInv, LifeTypes, InStep, Registered
<1>7. Unserved'
  BY <1>2, <1>3, NothingArrives
<1>8. Configured' /\ Terminal' = Terminal
  BY <1>2, ConfiguredKeeps
<1>9. Pooled'
  BY <1>1, <1>2, <1>3, <1>4, <1>8 DEF LifeInv, LifeTypes, Pooled, Unput
<1> QED BY <1>5, <1>6, <1>7, <1>8, <1>9 DEF LifeInv

LEMMA runKeeps ==
  ASSUME LifeInv, UNCHANGED setup, RunServer PROVE LifeInv'
<1>1. setup \in Setups /\ mainAt \in Nat \ {0} /\ RunAt \in {7, 9}
  BY ServerMain DEF LifeInv, LifeTypes
<1>2. /\ UNCHANGED <<runFuncTable_, terminalPool_, elem, RunAt, server>>
      /\ UNCHANGED <<clientVars, packageQueue_, pc>>
      /\ mainAt' = mainAt + 1
  BY DEF RunServer, RunAt, server
<1>3. CASE At("run") /\ StartThread("Server", "main") /\ serverAt' = 1
  <2>1. mainAt = RunAt
    BY <1>1, <1>3, MainSteps
  <2>2. serverAt = 0 /\ "Server" \notin alive
    BY <1>1, <2>1 DEF LifeInv, LifeTypes, InStep
  <2>3. alive' = alive \cup {"Server"} /\ UNCHANGED <<threadPool_, raced>>
    BY <1>3 DEF StartThread
  <2>4. LifeTypes'
    BY <1>2, <1>3 DEF LifeInv, LifeTypes
  <2>5. InStep' /\ Registered'
    BY <1>1, <1>2, <1>3, <2>1, <2>2, <2>3 DEF LifeInv, LifeTypes, InStep, Registered
  <2>6. Unserved'
    BY <1>2, <1>3, <2>2, <2>3, NothingArrives
  <2>7. Configured' /\ Terminal' = Terminal
    BY <1>2, <1>3, <2>2, ConfiguredKeeps
  <2>8. Pooled'
    BY <1>1, <1>2, <1>3, <2>1, <2>2, <2>3, <2>7 DEF LifeInv, LifeTypes, Pooled, Unput
  <2> QED BY <2>4, <2>5, <2>6, <2>7, <2>8 DEF LifeInv
<1>4. CASE At("put") /\ PutThread("Server", "main") /\ UNCHANGED serverAt
  <2>1. mainAt = RunAt + 1
    BY <1>1, <1>4, MainSteps
  <2>2. /\ UNCHANGED alive
        /\ ~raced' => ~raced /\ threadPool_' = threadPool_ \cup {"Server"}
    BY <1>4 DEF PutThread
  <2>3. LifeTypes'
    BY <1>2, <1>4 DEF LifeInv, LifeTypes
  <2>4. InStep' /\ Registered'
    BY <1>1, <1>2, <1>4, <2>1, <2>2 DEF LifeInv, LifeTypes, InStep, Registered
  <2>5. Unserved'
    BY <1>2, <1>4, <2>2, NothingArrives
  <2>6. Configured' /\ Terminal' = Terminal
    BY <1>2, <1>4, ConfiguredKeeps
  <2>7. Pooled'
    BY <1>1, <1>2, <1>4, <2>1, <2>2, <2>6 DEF LifeInv, LifeTypes, Pooled, Unput
  <2> QED BY <2>3, <2>4, <2>5, <2>6, <2>7 DEF LifeInv
<1> QED BY <1>3, <1>4 DEF RunServer

LEMMA joinKeeps ==
  ASSUME LifeInv, UNCHANGED setup, JoinServer \/ Release \/ Exit PROVE LifeInv'
<1>1. setup \in Setups /\ mainAt \in Nat \ {0} /\ RunAt \in {7, 9} /\ serverAt \in 0..21
  BY ServerMain DEF LifeInv, LifeTypes
<1>2. /\ UNCHANGED <<serverAt, alive, raced, runFuncTable_, terminalPool_, elem, RunAt, server>>
      /\ UNCHANGED <<clientVars, packageQueue_, pc>>
      /\ mainAt' = mainAt + 1
  BY DEF JoinServer, Release, Exit, RunAt, server
<1>3. mainAt > RunAt + 1 /\ serverAt = 21
  <2>1. CASE JoinServer
    <3>1. mainAt = RunAt + 2 /\ "Server" \notin alive
      BY <1>1, <2>1, MainSteps DEF JoinServer
    <3> QED BY <1>1, <3>1 DEF LifeInv, InStep
  <2>2. CASE Release
    <3>1. mainAt > RunAt
      BY <1>1, <2>2 DEF Release, LifeInv, InStep
    <3>2. mainAt > RunAt + 2
      BY <1>1, <2>2, <3>1, MainSteps DEF Release
    <3> QED BY <1>1, <3>2 DEF LifeInv, InStep
  <2>3. CASE Exit
    <3>1. mainAt = RunAt + 9
      BY <1>1, <2>3, MainSteps DEF Exit
    <3> QED BY <1>1, <3>1 DEF LifeInv, InStep
  <2> QED BY <2>1, <2>2, <2>3
<1>4. LifeTypes'
  BY <1>2 DEF LifeInv, LifeTypes
<1>5. InStep' /\ Registered'
  BY <1>1, <1>2, <1>3 DEF LifeInv, InStep, Registered
<1>6. Unserved'
  BY <1>2, NothingArrives
<1>7. ASSUME ~raced' PROVE /\ \A t \in alive : t \in threadPool_ \/ mainAt = RunAt + 1
                           /\ mainAt > RunAt + 4 => alive = {}
  BY <1>2, <1>3, <1>7 DEF LifeInv, Pooled, Unput
<1>8. Pooled'
  <2>1. CASE JoinServer
    <3>1. mainAt = RunAt + 2 /\ "Server" \notin alive /\ threadPool_' = threadPool_ \ {"Server"}
      BY <1>1, <2>1, MainSteps DEF JoinServer, remove
    <3> QED BY <1>1, <1>2, <1>7, <3>1 DEF Pooled, Unput
  <2>2. CASE Release /\ At("THREADMANAGER")
    <3>1. threadPool_ \cap alive = {}
      BY <2>2 DEF Release, At
    <3>2. ~raced' => alive = {}
      BY <1>1, <1>3, <1>7, <3>1
    <3> QED BY <1>2, <3>2 DEF Pooled
  <2>3. CASE Release /\ ~At("THREADMANAGER")
    <3>1. /\ UNCHANGED threadPool_
          /\ \E m \in {"TASKMANAGER", "LOCKAMANGER", "SESSIONMANAGER", "CLOCK", "WINSOCK"} : At(m)
      BY <2>3 DEF Release
    <3>2. mainAt # RunAt + 4
      BY <1>1, <3>1, MainSteps
    <3> QED BY <1>1, <1>2, <1>3, <1>7, <3>1, <3>2 DEF Pooled, Unput
  <2>4. CASE Exit
    <3>1. mainAt = RunAt + 9 /\ UNCHANGED threadPool_
      BY <1>1, <2>4, MainSteps DEF Exit
    <3> QED BY <1>1, <1>2, <1>7, <3>1 DEF Pooled
  <2> QED BY <2>1, <2>2, <2>3, <2>4
<1>9. Configured'
  BY <1>2, ConfiguredKeeps
<1> QED BY <1>4, <1>5, <1>6, <1>8, <1>9 DEF LifeInv

(***************************************************************************)
(* The invariant holds in every state.                                     *)
(***************************************************************************)
LEMMA LifeStep == LifeInv /\ [Next]_vars => LifeInv'
<1> SUFFICES ASSUME LifeInv, [Next]_vars PROVE LifeInv'
  OBVIOUS
<1>1. CASE UNCHANGED vars
  <2>1. UNCHANGED <<RunAt, server>>
    BY <1>1 DEF vars, RunAt, server
  <2> QED
    BY <1>1, <2>1 DEF vars, lifeVars, procVars, clientVars, LifeInv, LifeTypes, InStep,
       Registered, Configured, Unserved, Pooled, Unput, Terminal
<1>2. CASE Next
  <2>1. UNCHANGED setup
    BY <1>2 DEF Next
  <2>2. CASE main
    BY <2>1, <2>2, managersKeep, runKeeps, joinKeeps DEF main
  <2>3. CASE serverThread
    BY <2>1, <2>3, makeKeeps, registKeeps, terminalKeeps, serverKeeps DEF serverThread
  <2>4. CASE DBProcess \/ TaskProcess \/ \E t \in Servers : connectProcess(t)
    BY <2>1, <2>4, connectKeeps, aloneKeeps
  <2>5. CASE acceptThread \/ workerThread \/ process
    BY <2>1, <2>5, acceptKeeps, scopesKeep
  <2>6. CASE Outside
    BY <2>1, <2>6, serverKeeps, connectKeeps, aloneKeeps, clientKeeps, acceptKeeps DEF Outside
  <2> QED BY <1>2, <2>2, <2>3, <2>4, <2>5, <2>6 DEF Next
<1> QED BY <1>1, <1>2

LEMMA LifeAlways == Spec => []LifeInv
  BY LifeInit, LifeStep, PTL DEF Spec

(***************************************************************************)
(* Whatever packets come and whenever they do: when a contents thread runs *)
(* one, the handlers of the derived class and all terminals are there      *)
(* (registDefaultPacketFunc, registSubPacketFunc, Server::Server).         *)
(***************************************************************************)
THEOREM HandlersFound == Spec => []HandlersReady
<1>1. LifeInv => HandlersReady
  <2> SUFFICES ASSUME LifeInv, pc["Contents"] = "run"
               PROVE  /\ runFuncTable_ = Default \cup server.handlers
                      /\ terminalPool_ = {setup.terminals[i] : i \in DOMAIN setup.terminals}
    BY DEF HandlersReady
  <2>1. serverAt > 12
    BY DEF LifeInv, LifeTypes, Unserved
  <2>2. runFuncTable_ = Default \cup server.handlers
    BY <2>1 DEF LifeInv, LifeTypes, Registered
  <2>3. elem - 1 = Len(setup.terminals) /\ DOMAIN setup.terminals = 1..Len(setup.terminals)
    BY <2>1, Configuration DEF LifeInv, LifeTypes, Configured
  <2> QED BY <2>2, <2>3 DEF LifeInv, Configured
<1> QED BY <1>1, LifeAlways, PTL

LEMMA JoinIsAt ==
  ASSUME setup \in Setups
  PROVE  /\ JoinAt = RunAt + 2 /\ RunAt \in {7, 9}
         /\ server.main[RunAt + 3] = "TASKMANAGER"
         /\ server.main[RunAt + 4] = "THREADMANAGER"
<1>1. CASE RunAt = 7 /\ server.main = mainPlain
  <2>1. \A i \in DOMAIN mainPlain : mainPlain[i] = "join" <=> i = 9
    BY PlainSteps
  <2> QED BY <1>1, <2>1, PlainSteps DEF JoinAt
<1>2. CASE RunAt = 9 /\ server.main = WithDatabase
  <2>1. \A i \in DOMAIN WithDatabase : WithDatabase[i] = "join" <=> i = 11
    BY DatabaseSteps
  <2> QED BY <1>2, <2>1, DatabaseSteps DEF JoinAt
<1> QED BY <1>1, <1>2, ServerMain, Zenon

(***************************************************************************)
(* main() of each server: when the locks, the sessions, the clock and the  *)
(* sockets are released, every thread has ended, unless two inserts into   *)
(* threadPool_ met.                                                        *)
(***************************************************************************)
THEOREM ReleasedWhenJoined == Spec => []JoinedBeforeRelease
<1>1. LifeInv => JoinedBeforeRelease
  <2> SUFFICES ASSUME LifeInv, ~raced, NEW i \in JoinAt + 1 .. mainAt - 1,
                      server.main[i] \in {"LOCKAMANGER", "SESSIONMANAGER", "CLOCK", "WINSOCK"}
               PROVE  alive = {}
    BY DEF JoinedBeforeRelease
  <2>1. /\ JoinAt = RunAt + 2 /\ RunAt \in {7, 9}
        /\ server.main[RunAt + 3] = "TASKMANAGER" /\ server.main[RunAt + 4] = "THREADMANAGER"
    BY JoinIsAt DEF LifeInv, LifeTypes
  <2>2. mainAt \in Nat /\ i \in (RunAt + 3)..(mainAt - 1) /\ i # RunAt + 3 /\ i # RunAt + 4
    BY <2>1 DEF LifeInv, LifeTypes
  <2>3. mainAt > RunAt + 4
    BY <2>1, <2>2
  <2> QED BY <2>3 DEF LifeInv, Pooled
<1> QED BY <1>1, LifeAlways, PTL
=============================================================================
