---------------------------- MODULE SessionStream ----------------------------
(***************************************************************************)
(* The three ways bytes go: from a client, or the terminal of another      *)
(* server, to a session, from a session to its client, and from another    *)
(* server to a terminal.  They share no state, so a behaviour follows one  *)
(* of them.                                                                *)
(***************************************************************************)
EXTENDS RecvFraming, SendPath, TerminalStream

VARIABLE way    \* "in", "out" or "terminal"

streamVars == <<way, recvVars, sendVars, terminalVars>>

StreamInit == /\ way \in {"in", "out", "terminal"}
              /\ RecvInit /\ SendInit /\ TerminalInit

StreamNext ==
  /\ \/ way = "in" /\ RecvNext /\ UNCHANGED <<sendVars, terminalVars>>
     \/ way = "out" /\ SendNext /\ UNCHANGED <<recvVars, terminalVars>>
     \/ way = "terminal" /\ TerminalNext /\ UNCHANGED <<recvVars, sendVars>>
  /\ UNCHANGED way

StreamSpec == StreamInit /\ [][StreamNext]_streamVars
=============================================================================
