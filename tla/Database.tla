------------------------------- MODULE Database -------------------------------
(***************************************************************************)
(* StaticLib1/DBManager.cpp, ADODatabase.cpp, Query.cpp, QueryRecord.cpp   *)
(* and DBAgent/QI_*.h: threads take queries from one pool and execute      *)
(* them.  The answer is sent by the destructor of the query, from what its *)
(* record holds by then; nothing is sent when an execution fails.          *)
(***************************************************************************)
EXTENDS QueryRecord, SequencesExt, FiniteSets

CONSTANTS DBWorker,      \* the ADODatabase objects of dbPool_, each with its thread
          NoQuery

VARIABLES
  queryPool_,   \* the queue of queries (ThreadJobQueue)
  dbpc,         \* each thread: "loop", "pop", "execute", "rows", "send"
  query,        \* each thread: its query
  record_,      \* of that query
  result_,      \* of the answer that its destructor makes
  connected,    \* threads whose connection stands
  dbFaults      \* bound: failures of the database still to come

dbVars == <<queryPool_, dbpc, query, record_, result_, connected, dbFaults>>

\* initialize() and run(): every connection has been opened, or the process is gone
DatabaseInit(f) ==
  /\ queryPool_ = <<>>
  /\ dbpc = [w \in DBWorker |-> "loop"]
  /\ query = [w \in DBWorker |-> NoQuery]
  /\ record_ = [w \in DBWorker |-> Unopened]
  /\ result_ = [w \in DBWorker |-> FALSE]
  /\ connected = DBWorker
  /\ dbFaults = f

DBGoto(w, l) == dbpc' = [dbpc EXCEPT ![w] = l]

pushQuery(q) ==
  /\ queryPool_' = Append(queryPool_, q)
  /\ UNCHANGED <<dbpc, query, record_, result_, connected, dbFaults>>

runQueryCount(w) ==
  /\ dbpc[w] = "loop" /\ queryPool_ # <<>>
  /\ DBGoto(w, "pop")
  /\ UNCHANGED <<queryPool_, query, record_, result_, connected, dbFaults>>

\* mutant: the query stays in the pool
peekQuery(w) ==
  /\ dbpc[w] = "pop" /\ queryPool_ # <<>>
  /\ query' = [query EXCEPT ![w] = Head(queryPool_)]
  /\ DBGoto(w, "execute")
  /\ UNCHANGED <<queryPool_, record_, result_, connected, dbFaults>>

\* another thread may have taken the last one since the count
popQuery(w) ==
  /\ dbpc[w] = "pop"
  /\ IF queryPool_ = <<>>
       THEN DBGoto(w, "loop") /\ UNCHANGED <<queryPool_, query>>
       ELSE /\ query' = [query EXCEPT ![w] = Head(queryPool_)]
            /\ queryPool_' = Tail(queryPool_)
            /\ DBGoto(w, "execute")
  /\ UNCHANGED <<record_, result_, connected, dbFaults>>

\* what command->Execute returns for a statement that has n rows
Executed(statement, n) ==
  IF statement.type = "QUERY_NOT_RETURN" THEN {Unopened}
  ELSE {Opened(n)} \cup (IF statement.type = "QUERY_CALL_BACK" THEN {NotFetched(n)} ELSE {})

\* mutant: the answer begins as TRUE
ResultIsTrue == TRUE

\* iPacket.result_ = FALSE
ResultBefore == FALSE

\* the destructor of the query begins: to the first row, if there is one
beginDelete(w, record) ==
  /\ record_' = [record_ EXCEPT ![w] = IF isEof(record) THEN record ELSE moveFirst(record)]
  /\ result_' = [result_ EXCEPT ![w] = ResultBefore]
  /\ DBGoto(w, "rows")

execute(w, n) ==
  /\ dbpc[w] = "execute" /\ w \in connected
  /\ \E record \in Executed(query[w].statement, n) :
       /\ beginDelete(w, record)
       /\ IF record = NotFetched(n) /\ n > 0 THEN dbFaults > 0 /\ dbFaults' = dbFaults - 1
                                             ELSE UNCHANGED dbFaults
  /\ UNCHANGED <<queryPool_, query, connected>>

\* it throws: record_ stays unopened (and state_, which only disconnect() reads, DB_RUNNING)
comError(w) ==
  /\ dbpc[w] = "execute"
  /\ IF w \in connected THEN dbFaults > 0 /\ dbFaults' = dbFaults - 1
                        ELSE UNCHANGED dbFaults
  /\ beginDelete(w, Unopened)
  /\ UNCHANGED <<queryPool_, query, connected>>

\* process() notices at most: it never connects again
LoseConnection(w) ==
  /\ w \in connected /\ dbFaults > 0
  /\ connected' = connected \ {w}
  /\ dbFaults' = dbFaults - 1
  /\ UNCHANGED <<queryPool_, dbpc, query, record_, result_>>

\* mutant: the loop of QI_DB_REQ_ID_PW goes on to the next row
NeverBreaks(q) == q.type = "none"

\* QI_DB_REQ_ID_PW leaves its loop in the first round, whatever get() says
Breaks(q) == q.type = "I_DB_REQ_ID_PW"

\* a round of while (!record_.isEof()); on a record that was never opened this
\* goes on for ever in QI_DB_REQ_LOAD_DATA
nextRow(w) ==
  /\ dbpc[w] = "rows"
  /\ LET r == record_[w]
     IN  IF isEof(r) THEN DBGoto(w, "send") /\ UNCHANGED <<record_, result_>>
         ELSE /\ result_' = [result_ EXCEPT ![w] = @ \/ get(r)]
              /\ IF Breaks(query[w])
                   THEN DBGoto(w, "send") /\ UNCHANGED record_
                   ELSE record_' = [record_ EXCEPT ![w] = moveNext(r)] /\ UNCHANGED dbpc
  /\ UNCHANGED <<queryPool_, query, connected, dbFaults>>

Endless(w) == /\ dbpc[w] = "rows" /\ query[w].type = "I_DB_REQ_LOAD_DATA"
              /\ ~isEof(record_[w]) /\ moveNext(record_[w]) = record_[w]

\* the end of the destructor, and ~Query; who composes this sends the answer
deleteQuery(w) ==
  /\ dbpc[w] = "send"
  /\ query' = [query EXCEPT ![w] = NoQuery]
  /\ record_' = [record_ EXCEPT ![w] = Unopened]
  /\ result_' = [result_ EXCEPT ![w] = FALSE]
  /\ DBGoto(w, "loop")
  /\ UNCHANGED <<queryPool_, connected, dbFaults>>
=============================================================================
