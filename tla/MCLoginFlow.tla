------------------------------ MODULE MCLoginFlow ------------------------------
(***************************************************************************)
(* Two clients, a player and one with a wrong password; either both ask    *)
(* and the database fails, or one asks while a server or a connection goes.*)
(***************************************************************************)
EXTENDS LoginFlow

CONSTANTS c1, c2

MCAccount == (c1 :> "player") @@ (c2 :> "wrong")
MCServer == {"Login", "Chatting", "DBAgent"}
MCLink == {<<"Login", "DBAgent">>, <<"Login", "Chatting">>, <<"Chatting", "DBAgent">>,
           <<"Chatting", "Login">>, <<"DBAgent", "Login">>, <<"DBAgent", "Chatting">>}
MCBounds == {[requests |-> 2, faults |-> 0, starts |-> 0, dbFaults |-> 1],
             [requests |-> 1, faults |-> 1, starts |-> 1, dbFaults |-> 0]}
=============================================================================
