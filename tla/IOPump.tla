------------------------------- MODULE IOPump --------------------------------
(***************************************************************************)
(* StaticLib1/IOCPServer.cpp, IOCPSession.cpp and ContentsProcess.cpp: how *)
(* a packet gets from a socket to its handler.  A session has one receive  *)
(* outstanding; an IO worker takes its completion, cuts the packets out    *)
(* into the session's packageStorage, asks for the next receive and only   *)
(* then moves the packages to the contents queue, so that another worker   *)
(* may already be at the next completion of the same session.  Contents    *)
(* threads take the packages and run their handlers.                       *)
(*                                                                         *)
(* A segment holds whole packets (RecvFraming is about segments that do    *)
(* not), packageQueue_ is the queue ThreadJobQueue is shown to implement,  *)
(* and each call on packageStorage is one step: its SRW lock covers one    *)
(* call.  Using a deleted session stops the process or goes unnoticed.     *)
(***************************************************************************)
EXTENDS Naturals, Sequences, SequencesExt, FiniteSets

CONSTANTS Session, Worker, Thread, Null,
          Kind,        \* of packet: "ok" to answer, "exit" C_REQ_EXIT,
                       \* "nofunc" no handler, "invalid" unknown to PacketFactory
          MaxPackets,  \* bound: packets one client sends
          Setups       \* how a server may be set up: the threads it is
                       \* configured with, and the bounds on what it meets

Package == [session : Session, n : 1..MaxPackets, kind : Kind]

ASSUME PumpConstants ==
  /\ Null \notin Session \cup Package
  /\ Kind \subseteq {"ok", "exit", "nofunc", "invalid"}
  /\ MaxPackets \in Nat
  /\ Setups \subseteq [session : SUBSET Session, worker : SUBSET Worker,
                       thread : SUBSET Thread, kind : SUBSET Kind, packets : 0..MaxPackets,
                       breaks : BOOLEAN]

VARIABLES
  setup,          \* the setup of this server, which never changes
  running,        \* the process has not crashed
  sent,           \* packets each client has sent, those a broken connection took aside
  hungUp,         \* clients that have closed their side
  broken,         \* those whose connection was reset or has timed out
  wire,           \* packets on the way
  deleted,        \* sessions closed and deleted by the server
  recv,           \* the receive of a session: posted, done, failed, or none
  buffer,         \* what it has brought: ioData_[IO_READ] and main_buffer_
  packageStorage,
  wpc, wsession,  \* each worker: where it is, the session of its completion
  whand,          \* each worker: the package between PopPackage and putPackage
  packageQueue_,
  tpkg,           \* each contents thread: its package, or Null
  taken,          \* ghost: packages the contents threads have taken, in order
  left,           \* ghost: sessions deleted because the client hung up, no other
                  \* worker being at them
  crossed         \* ghost: sessions two workers have had packages of in hand at once

clientVars == <<sent, hungUp, broken, wire>>
workerVars == <<wpc, wsession, whand>>
contentsVars == <<packageQueue_, tpkg, taken>>
pastVars == <<left, crossed>>
pumpVars == <<running, sent, hungUp, broken, wire, deleted, recv, buffer, packageStorage,
              wpc, wsession, whand, packageQueue_, tpkg, taken, left, crossed>>
vars == <<setup, pumpVars>>

PumpInit ==
  /\ setup \in Setups
  /\ running = TRUE
  /\ sent = [s \in Session |-> 0]
  /\ hungUp = {} /\ broken = {}
  /\ wire = [s \in Session |-> <<>>]
  /\ deleted = {}
  /\ recv = [s \in Session |-> "posted"]
  /\ buffer = [s \in Session |-> <<>>]
  /\ packageStorage = [s \in Session |-> <<>>]
  /\ wpc = [w \in Worker |-> "wait"]
  /\ wsession = [w \in Worker |-> Null]
  /\ whand = [w \in Worker |-> Null]
  /\ packageQueue_ = <<>>
  /\ tpkg = [t \in Thread |-> Null]
  /\ taken = <<>>
  /\ left = {} /\ crossed = {}

-----------------------------------------------------------------------------
(***************************************************************************)
(* The clients and the network.                                            *)
(***************************************************************************)
ClientSends(s, kind) ==
  /\ running /\ s \notin hungUp /\ sent[s] < setup.packets
  /\ sent' = [sent EXCEPT ![s] = @ + 1]
  /\ wire' = [wire EXCEPT ![s] = Append(@, [session |-> s, n |-> sent'[s], kind |-> kind])]
  /\ UNCHANGED <<running, hungUp, broken, deleted, recv, buffer, packageStorage, workerVars,
                 contentsVars, pastVars>>

ClientHangsUp(s) ==
  /\ running /\ s \notin hungUp
  /\ hungUp' = hungUp \cup {s}
  /\ UNCHANGED <<running, sent, broken, wire, deleted, recv, buffer, packageStorage,
                 workerVars, contentsVars, pastVars>>

\* the receive completes with some of the bytes sent, or with none after the last
RecvCompletes(s, k) ==
  /\ running /\ recv[s] = "posted"
  /\ k \in 0..Len(wire[s])
  /\ k = 0 => wire[s] = <<>> /\ s \in hungUp
  /\ recv' = [recv EXCEPT ![s] = "done"]
  /\ buffer' = [buffer EXCEPT ![s] = SubSeq(wire[s], 1, k)]
  /\ wire' = [wire EXCEPT ![s] = SubSeq(@, k + 1, Len(@))]
  /\ UNCHANGED <<running, sent, hungUp, broken, deleted, packageStorage, workerVars,
                 contentsVars, pastVars>>

\* a reset, or the keep-alive time-out: what is on the way is gone
ConnectionBreaks(s) ==
  /\ running /\ setup.breaks /\ s \notin hungUp
  /\ hungUp' = hungUp \cup {s} /\ broken' = broken \cup {s}
  /\ sent' = [sent EXCEPT ![s] = @ - Len(wire[s])]
  /\ wire' = [wire EXCEPT ![s] = <<>>]
  /\ recv' = [recv EXCEPT ![s] = IF @ = "posted" THEN "failed" ELSE @]
  /\ UNCHANGED <<running, deleted, buffer, packageStorage, workerVars, contentsVars, pastVars>>

-----------------------------------------------------------------------------
Crash == /\ running' = FALSE
         /\ UNCHANGED <<clientVars, deleted, recv, buffer, packageStorage, workerVars,
                        contentsVars, pastVars>>

Using(s) == running' \in IF s \in deleted THEN BOOLEAN ELSE {TRUE}

\* SESSIONMANAGER.closeSession: a posted receive is aborted, and its failed
\* completion is ignored; one already done stays in the completion port
Delete(s) ==
  /\ deleted' = deleted \cup {s}
  /\ recv' = [recv EXCEPT ![s] = IF @ = "posted" THEN "none" ELSE @]
  /\ packageStorage' = [packageStorage EXCEPT ![s] = <<>>]

(***************************************************************************)
(* The IO workers.                                                         *)
(***************************************************************************)
At(w, l) == running /\ wpc[w] = l

Goto(w, l) == wpc' = [wpc EXCEPT ![w] = l]

\* another worker is at session s, or has one of its packages in hand
AnotherAt(w, s) == \E v \in Worker \ {w} : wpc[v] # "wait" /\ wsession[v] = s

AnotherHolds(w, s) ==
  \E v \in Worker \ {w} : whand[v] # Null /\ whand[v].session = s

GetQueuedCompletionStatus(w, s) ==
  /\ At(w, "wait")
  /\ recv[s] = "done"
  /\ recv' = [recv EXCEPT ![s] = "none"]
  /\ wsession' = [wsession EXCEPT ![w] = s]
  /\ Goto(w, IF buffer[s] = <<>> THEN "close" ELSE "onRecv")
  /\ UNCHANGED <<running, clientVars, deleted, buffer, packageStorage, whand,
                 contentsVars, pastVars>>

\* if (!ret) continue: the session keeps its place in the list
IgnoresFailed(w, s) ==
  /\ At(w, "wait")
  /\ recv[s] = "failed"
  /\ recv' = [recv EXCEPT ![s] = "none"]
  /\ UNCHANGED <<running, clientVars, deleted, buffer, packageStorage, workerVars,
                 contentsVars, pastVars>>

\* transferSize == 0
CloseByClient(w) ==
  LET s == wsession[w]
  IN /\ At(w, "close")
     /\ Using(s)
     /\ Delete(s)
     /\ left' = IF s \in deleted \/ AnotherAt(w, s) THEN left ELSE left \cup {s}
     /\ Goto(w, "wait")
     /\ UNCHANGED <<clientVars, buffer, wsession, whand, contentsVars, crossed>>

\* mutant: push_front
onRecvAtFront(w) ==
  LET s == wsession[w]
  IN /\ At(w, "onRecv")
     /\ buffer[s] # <<>>
     /\ Using(s)
     /\ packageStorage' = [packageStorage EXCEPT ![s] =
          IF s \in deleted THEN @ ELSE <<Head(buffer[s])>> \o @]
     /\ buffer' = [buffer EXCEPT ![s] = Tail(@)]
     /\ UNCHANGED <<clientVars, deleted, recv, workerVars, contentsVars, pastVars>>

\* one turn of the loop of onRecv: analyzer, new Package, PutPackage
onRecv(w) ==
  LET s == wsession[w]
  IN /\ At(w, "onRecv")
     /\ buffer[s] # <<>>
     /\ IF Head(buffer[s]).kind = "invalid"
          THEN Crash                     \* packet->type() of the null packet
          ELSE /\ Using(s)
               /\ packageStorage' = [packageStorage EXCEPT ![s] =
                    IF s \in deleted THEN @ ELSE Append(@, Head(buffer[s]))]
               /\ buffer' = [buffer EXCEPT ![s] = Tail(@)]
               /\ UNCHANGED <<clientVars, deleted, recv, workerVars, contentsVars, pastVars>>

\* on a broken connection WSARecv fails at once, which is logged
recvStandBy(w) ==
  LET s == wsession[w]
  IN /\ At(w, "onRecv")
     /\ buffer[s] = <<>>
     /\ Using(s)
     /\ recv' = [recv EXCEPT ![s] = IF s \in deleted \cup broken THEN "none" ELSE "posted"]
     /\ Goto(w, "IsEmpty")
     /\ UNCHANGED <<clientVars, deleted, buffer, packageStorage, wsession, whand,
                    contentsVars, pastVars>>

\* while (!session->IsEmpty())
IsEmpty(w) ==
  LET s == wsession[w]
  IN /\ At(w, "IsEmpty")
     /\ Using(s)
     /\ Goto(w, IF packageStorage[s] = <<>> THEN "wait" ELSE "PopPackage")
     /\ UNCHANGED <<clientVars, deleted, recv, buffer, packageStorage, wsession,
                    whand, contentsVars, pastVars>>

\* mutant: front() without pop_front()
PopKeeps(w) ==
  LET s == wsession[w]
  IN /\ At(w, "PopPackage")
     /\ packageStorage[s] # <<>> /\ Len(packageQueue_) < MaxPackets
     /\ whand' = [whand EXCEPT ![w] = Head(packageStorage[s])]
     /\ Goto(w, "putPackage")
     /\ UNCHANGED <<running, clientVars, deleted, recv, buffer, packageStorage,
                    wsession, contentsVars, pastVars>>

\* front() and pop_front(), undefined on an empty list
PopPackage(w) ==
  LET s == wsession[w]
  IN /\ At(w, "PopPackage")
     /\ IF packageStorage[s] = <<>>
          THEN Crash
          ELSE /\ whand' = [whand EXCEPT ![w] = Head(packageStorage[s])]
               /\ packageStorage' = [packageStorage EXCEPT ![s] = Tail(@)]
               /\ crossed' = IF AnotherHolds(w, s) THEN crossed \cup {s} ELSE crossed
               /\ Goto(w, "putPackage")
               /\ UNCHANGED <<running, clientVars, deleted, recv, buffer, wsession,
                              contentsVars, left>>

\* mutant: `if' instead of `while'
putOnePackage(w) ==
  /\ At(w, "putPackage")
  /\ packageQueue_' = Append(packageQueue_, whand[w])
  /\ whand' = [whand EXCEPT ![w] = Null]
  /\ Goto(w, "wait")
  /\ UNCHANGED <<running, clientVars, deleted, recv, buffer, packageStorage, wsession,
                 tpkg, taken, pastVars>>

putPackage(w) ==
  /\ At(w, "putPackage")
  /\ packageQueue_' = Append(packageQueue_, whand[w])
  /\ whand' = [whand EXCEPT ![w] = Null]
  /\ Goto(w, "IsEmpty")
  /\ UNCHANGED <<running, clientVars, deleted, recv, buffer, packageStorage, wsession,
                 tpkg, taken, pastVars>>

-----------------------------------------------------------------------------
(***************************************************************************)
(* The contents threads: execute() is pop, run, SAFE_DELETE(package).      *)
(***************************************************************************)
pop(t) ==
  /\ running /\ tpkg[t] = Null /\ packageQueue_ # <<>>
  /\ tpkg' = [tpkg EXCEPT ![t] = Head(packageQueue_)]
  /\ packageQueue_' = Tail(packageQueue_)
  /\ taken' = Append(taken, Head(packageQueue_))
  /\ UNCHANGED <<running, clientVars, deleted, recv, buffer, packageStorage,
                 workerVars, pastVars>>

\* the handler answers through the session, or closes it
run(t) ==
  /\ running /\ tpkg[t] # Null
  /\ Using(tpkg[t].session)
  /\ IF tpkg[t].kind = "ok" THEN UNCHANGED <<deleted, recv, packageStorage>>
                            ELSE Delete(tpkg[t].session)
  /\ tpkg' = [tpkg EXCEPT ![t] = Null]
  /\ UNCHANGED <<clientVars, buffer, workerVars, packageQueue_, taken, pastVars>>

-----------------------------------------------------------------------------
workerThread(w) == \/ \E s \in Session : GetQueuedCompletionStatus(w, s) \/ IgnoresFailed(w, s)
                   \/ CloseByClient(w) \/ onRecv(w) \/ recvStandBy(w)
                   \/ IsEmpty(w) \/ PopPackage(w) \/ putPackage(w)

execute(t) == pop(t) \/ run(t)

Network == \E s \in setup.session : \/ \E kind \in setup.kind : ClientSends(s, kind)
                                    \/ ClientHangsUp(s) \/ ConnectionBreaks(s)
                                    \/ \E k \in 0..MaxPackets : RecvCompletes(s, k)

Next == /\ \/ Network
           \/ \E w \in setup.worker : workerThread(w)
           \/ \E t \in setup.thread : execute(t)
        /\ UNCHANGED setup

Spec == PumpInit /\ [][Next]_vars

(***************************************************************************)
(* The network delivers, and the worker and contents threads loop until    *)
(* shutdown; a completion is given to any worker that waits.               *)
(***************************************************************************)
FairSpec ==
  /\ Spec
  /\ \A s \in Session : WF_pumpVars(\E k \in 0..MaxPackets : RecvCompletes(s, k))
  /\ \A s \in Session : SF_pumpVars(\E w \in setup.worker : GetQueuedCompletionStatus(w, s))
  /\ \A w \in Worker : WF_pumpVars(w \in setup.worker /\ wpc[w] # "wait" /\ workerThread(w))
  /\ \A t \in Thread : WF_pumpVars(t \in setup.thread /\ execute(t))
-----------------------------------------------------------------------------
TypeOK ==
  /\ setup \in Setups
  /\ running \in BOOLEAN
  /\ sent \in [Session -> 0..MaxPackets]
  /\ broken \subseteq hungUp /\ hungUp \subseteq Session
  /\ wire \in [Session -> Seq(Package)]
  /\ deleted \subseteq Session
  /\ recv \in [Session -> {"posted", "done", "failed", "none"}]
  /\ buffer \in [Session -> Seq(Package)]
  /\ packageStorage \in [Session -> Seq(Package)]
  /\ wpc \in [Worker -> {"wait", "close", "onRecv", "IsEmpty", "PopPackage", "putPackage"}]
  /\ wsession \in [Worker -> Session \cup {Null}]
  /\ whand \in [Worker -> Package \cup {Null}]
  /\ packageQueue_ \in Seq(Package)
  /\ tpkg \in [Thread -> Package \cup {Null}]
  /\ taken \in Seq(Package)
  /\ left \subseteq Session /\ crossed \subseteq Session

IsPacket(p, s, n) == p.session = s /\ p.n = n

\* what the contents threads have been given, in order
given == taken \o packageQueue_

Given(s, n) == \E i \in DOMAIN given : IsPacket(given[i], s, n)
Holds(w, s, n) == whand[w] # Null /\ IsPacket(whand[w], s, n)
InHand(s, n) == \E w \in Worker : Holds(w, s, n)

NeverTwice ==
  /\ \A i, j \in DOMAIN given : IsPacket(given[i], given[j].session, given[j].n) => i = j
  /\ \A s \in Session, n \in 1..MaxPackets :
       /\ Given(s, n) => ~InHand(s, n)
       /\ \A v, w \in Worker : Holds(v, s, n) /\ Holds(w, s, n) => v = w

(***************************************************************************)
(* As long as its session is open, every packet a client has sent is in    *)
(* exactly one place between the socket and the handlers, those not yet    *)
(* taken from packageStorage in the order of sending: no worker loses one  *)
(* or queues it twice, though two may drain one packageStorage.            *)
(***************************************************************************)
NothingLost ==
  NeverTwice /\ \A s \in Session \ deleted :
    LET rest   == packageStorage[s] \o buffer[s] \o wire[s]
        popped == sent[s] - Len(rest)
    IN  /\ \A i \in DOMAIN rest : IsPacket(rest[i], s, popped + i)
        /\ \A n \in 1..MaxPackets : Given(s, n) \/ InHand(s, n) <=> n <= popped

(***************************************************************************)
(* The packages of a session reach the contents threads in the order its   *)
(* client sent them, before a package those sent before it, unless two     *)
(* workers have had packages of this session in hand at once: popping in   *)
(* order is not queueing in order.  Two workers that drain one session by  *)
(* turns keep the order, and a single worker never crosses itself.         *)
(***************************************************************************)
OrderKept ==
  /\ \A i \in DOMAIN given, n \in 1..MaxPackets : given[i].session \notin crossed =>
       (n < given[i].n <=> \E j \in 1..(i - 1) : IsPacket(given[j], given[i].session, n))
  /\ crossed # {} => \A w \in Worker : setup.worker # {w}

(***************************************************************************)
(* A client that sends and hangs up is heard: its session is deleted only  *)
(* after all it sent has been given to the contents threads, unless at     *)
(* that moment another worker is still at one of its completions.  A       *)
(* worker that has left the session has left nothing behind, though others *)
(* have put packages there while it was leaving.                           *)
(***************************************************************************)
HangUpLosesNothing == \A s \in left : \A n \in 1..sent[s] : Given(s, n)

(***************************************************************************)
(* All that is sent on a session that stays open reaches the contents      *)
(* threads, or the process has stopped: a worker that leaves its loop      *)
(* early leaves nothing behind in packageStorage.                          *)
(***************************************************************************)
EveryPacketIsTaken ==
  \A s \in Session : sent[s] > 0 ~>
    \/ ~running \/ s \in deleted
    \/ \A n \in 1..sent[s] : \E i \in DOMAIN taken : IsPacket(taken[i], s, n)
=============================================================================
