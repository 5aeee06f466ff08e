---------------------------- MODULE MCLifecycle -----------------------------
(***************************************************************************)
(* Instances of Lifecycle, from main to its end: a server with a task and  *)
(* one of its terminals; the server without a task with two of its three   *)
(* terminals, so that one gives up while the other is connected; and with  *)
(* one terminal and two clients, one after the other, or one client and a  *)
(* packet of it.                                                           *)
(***************************************************************************)
EXTENDS Lifecycle

Idle == {[name |-> "LoginServer", terminals |-> <<"ChattingServer">>,
          clients |-> 0, packets |-> 0],
         [name |-> "DBAgent", terminals |-> <<"LoginServer", "ChattingServer">>,
          clients |-> 0, packets |-> 0]}

Served == {[name |-> "DBAgent", terminals |-> <<"LoginServer">>, clients |-> 2, packets |-> 0],
           [name |-> "DBAgent", terminals |-> <<"LoginServer">>, clients |-> 1, packets |-> 1]}

SetupsChecked == Idle \cup Served
=============================================================================
