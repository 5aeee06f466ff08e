---------------------------- MODULE QueryRecord -----------------------------
(***************************************************************************)
(* StaticLib1/QueryStatement.cpp and QueryRecord.cpp: a statement with its *)
(* parameters, and the cursor over the rows an execution returns.          *)
(*                                                                         *)
(* The methods of the cursor catch what the ADO recordset throws: on a     *)
(* recordset that was never opened isEof() says false, get() fails and the *)
(* moves do nothing.                                                       *)
(***************************************************************************)
EXTENDS Naturals, Sequences

\* a statement is its procedure and the parameters, in the order they were added
setQuery(procedure, type) == [procedure |-> procedure, type |-> type, params |-> <<>>]

addParam(statement, value) ==
  [procedure |-> statement.procedure, type |-> statement.type,
   params |-> Append(statement.params, value)]

(***************************************************************************)
(* A recordset: whether it is open, its rows, and the row it is at, one    *)
(* after the last at the end of the file.                                  *)
(***************************************************************************)
Record == [state : {"unopened", "open"}, rows : Nat, at : Nat \ {0}]

Unopened == [state |-> "unopened", rows |-> 0, at |-> 1]

Opened(n) == [state |-> "open", rows |-> n, at |-> 1]

\* adAsyncFetchNonBlocking: a row that has not arrived is the end of the file
NotFetched(n) == [state |-> "open", rows |-> n, at |-> n + 1]

isEof(r) == r.state = "open" /\ r.at > r.rows

moveFirst(r) == IF r.state = "open" THEN [r EXCEPT !.at = 1] ELSE r

moveNext(r) == IF r.state = "open" /\ ~isEof(r) THEN [r EXCEPT !.at = @ + 1] ELSE r

\* any of the seven overloads: whether there was a value
get(r) == r.state = "open" /\ ~isEof(r)
=============================================================================
