------------------------------- MODULE Terminals -------------------------------
(***************************************************************************)
(* StaticLib1/Terminal.cpp, TerminalManager.cpp and TerminalSession.cpp:   *)
(* the connections a server opens to the others, each with a thread that   *)
(* connects, waits until the connection is lost, and connects again.  A    *)
(* packet sent while a terminal has no connection is dropped without a     *)
(* word, and a broken connection takes what is on the way with it.         *)
(*                                                                         *)
(* A packet on the way is a record; the five contents threads of the       *)
(* receiver handle packets in any order, so a connection carries a set.    *)
(***************************************************************************)
EXTENDS Naturals, FiniteSets

CONSTANTS Server,
          Link,        \* <<from, to>>: the terminals configured
          MaxTries     \* 100 in connectProcess

ASSUME TerminalsConstants ==
  /\ Link \subseteq Server \X Server
  /\ MaxTries \in Nat

VARIABLES
  proc,       \* each server: "up", "down", or "stopping" once _shutdown is set
  connection, \* each terminal: "none", or "ready" with its socket connected
  tryCount,
  onTheWay,   \* each terminal: the packets sent and not yet handled
  faults,     \* bound: crashes and broken connections still to come
  starts      \* bound: servers still to be started again

netVars == <<proc, connection, tryCount, onTheWay, faults, starts>>

TerminalsInit(f, n) ==
  /\ proc = [s \in Server |-> "up"]
  /\ connection = [l \in Link |-> "ready"]
  /\ tryCount = [l \in Link |-> 0]
  /\ onTheWay = [l \in Link |-> {}]
  /\ faults = f /\ starts = n

Up(s) == proc[s] = "up"

\* Terminal::sendPacket, called by the handler of a packet that came over `from'
Dropped(l) == connection[l] # "ready"

sendPacket(from, packet, l, answer) ==
  onTheWay' = [k \in Link |->
    (IF k = l /\ ~Dropped(l) THEN onTheWay[k] \cup {answer} ELSE onTheWay[k])
      \ (IF k = from THEN {packet} ELSE {})]

-----------------------------------------------------------------------------
(***************************************************************************)
(* connectProcess.                                                         *)
(***************************************************************************)
Connecting(l) == Up(l[1]) /\ connection[l] = "none"

\* connectTo succeeds: the other process listens, even one that is stopping
connectTo(l) ==
  /\ Connecting(l) /\ proc[l[2]] # "down"
  /\ connection' = [connection EXCEPT ![l] = "ready"]
  /\ tryCount' = [tryCount EXCEPT ![l] = 0]
  /\ UNCHANGED <<proc, onTheWay, faults, starts>>

\* if (tryCount++ > 100) _shutdown = true; else Sleep and try again
tryConnect(l) ==
  /\ Connecting(l) /\ proc[l[2]] = "down"
  /\ IF tryCount[l] > MaxTries
       THEN proc' = [proc EXCEPT ![l[1]] = "stopping"] /\ UNCHANGED tryCount
       ELSE tryCount' = [tryCount EXCEPT ![l] = @ + 1] /\ UNCHANGED proc
  /\ UNCHANGED <<connection, onTheWay, faults, starts>>

Drop(L) ==
  /\ connection' = [l \in Link |-> IF l \in L THEN "none" ELSE connection[l]]
  /\ onTheWay' = [l \in Link |-> IF l \in L THEN {} ELSE onTheWay[l]]
  /\ tryCount' = [l \in Link |-> IF l \in L THEN 0 ELSE tryCount[l]]

\* mutant: the thread returns
DisconnectForGood(l) ==
  /\ faults > 0 /\ Up(l[1]) /\ connection[l] = "ready"
  /\ faults' = faults - 1
  /\ connection' = [connection EXCEPT ![l] = "gone"]
  /\ onTheWay' = [onTheWay EXCEPT ![l] = {}]
  /\ UNCHANGED <<proc, tryCount, starts>>

\* the connection is reset: onRecv returns nullptr, goto CONNECT_START
Disconnect(l) ==
  /\ faults > 0 /\ Up(l[1]) /\ connection[l] = "ready"
  /\ faults' = faults - 1
  /\ Drop({l})
  /\ UNCHANGED <<proc, starts>>

LinksOf(s) == {l \in Link : s \in {l[1], l[2]}}

\* a server is stopped or crashes (one that is stopping waits for its console)
Goes(s) ==
  /\ Up(s) /\ faults > 0
  /\ faults' = faults - 1
  /\ proc' = [proc EXCEPT ![s] = "down"]
  /\ Drop(LinksOf(s))
  /\ UNCHANGED starts

Starts(s) ==
  /\ proc[s] = "down" /\ starts > 0
  /\ starts' = starts - 1
  /\ proc' = [proc EXCEPT ![s] = "up"]
  /\ UNCHANGED <<connection, tryCount, onTheWay, faults>>
=============================================================================
