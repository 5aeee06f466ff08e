------------------------------- MODULE SendPath -------------------------------
(***************************************************************************)
(* StaticLib1/IOCPSession.cpp, sending: sendPacket writes the length and   *)
(* the data of a packet into the one write buffer of the session and sends *)
(* as many bytes as the data has; the completion of that send is handled   *)
(* by an IO worker, which sends what needMoreIO finds missing.  Several    *)
(* contents threads may send on one session.                               *)
(***************************************************************************)
EXTENDS PacketCodec

CONSTANTS ServerPacket,    \* packets the handlers send
          MaxSends         \* bound: packets sent on the session

ASSUME SendConstants == MaxSends \in Nat

ASSUME ServerPackets == \A p \in ServerPacket : WellFormed(p)

VARIABLES
  sends,        \* ghost: the packets sendPacket has been called with and has not refused
  wtotal, wcur, \* totalBytes_ and currentBytes_ of ioData_[IO_WRITE]
  pending,      \* the WSASend calls not yet completed, oldest first: their sizes
  onWire,       \* the bytes sent: <<which packet's buffer, first byte, end>>
  overlapped    \* ghost: a packet was sent before the last one was done with

sendVars == <<sends, wtotal, wcur, pending, onWire, overlapped>>

SendInit == /\ sends = <<>> /\ wtotal = 0 /\ wcur = 0
            /\ pending = <<>> /\ onWire = <<>> /\ overlapped = FALSE

\* setData clears the buffer, and then refuses what does not leave room for more
Fits(size) == size < SocketBufSize

\* wsaBuf.len in sendPacket
FirstSend(size) == size

sendPacket(p) ==
  LET size == Bytes(Encode(p))
  IN /\ Len(sends) < MaxSends
     /\ wcur' = 0
     /\ overlapped' = (overlapped \/ pending # <<>>)
     /\ \/ /\ Fits(size)
           /\ sends' = Append(sends, p)
           /\ wtotal' = HeaderSize + size
           /\ pending' = Append(pending, FirstSend(size))
           /\ onWire' = Append(onWire, <<Len(sends'), 0, FirstSend(size)>>)
        \/ /\ ~Fits(size)
           /\ wtotal' = 0
           /\ UNCHANGED <<sends, pending, onWire>>

\* mutant: the rest is sent from the beginning of the buffer
onSendAgain ==
  LET cur == wcur + Head(pending)
  IN /\ pending # <<>>
     /\ wcur' = cur
     /\ IF cur < wtotal
          THEN /\ pending' = Append(Tail(pending), wtotal)
               /\ onWire' = Append(onWire, <<Len(sends), 0, wtotal>>)
          ELSE pending' = Tail(pending) /\ UNCHANGED onWire
     /\ UNCHANGED <<sends, wtotal, overlapped>>

\* IO_WRITE: onSend; the buffer holds the packet sent last, and several workers
\* may handle completions in any order
onSend ==
  \E i \in DOMAIN pending :
    LET cur  == wcur + pending[i]
        rest == RemoveAt(pending, i)
        more == wsabuf(cur, wtotal)
    IN /\ wcur' = cur
       /\ IF needMoreIO(cur, wtotal)
            THEN /\ pending' = Append(rest, more.len)
                 /\ onWire' = Append(onWire, <<Len(sends), more.first, more.end>>)
            ELSE pending' = rest /\ UNCHANGED onWire
       /\ UNCHANGED <<sends, wtotal, overlapped>>

SendNext == (\E p \in ServerPacket : sendPacket(p)) \/ onSend
-----------------------------------------------------------------------------
(***************************************************************************)
(* As long as each packet is sent after the last one is done with, every   *)
(* packet leaves once, whole and in order: the header that the first send  *)
(* leaves out at the end is made up for by its completion.                 *)
(***************************************************************************)
Framing(i) == HeaderSize + Bytes(Encode(sends[i]))

Continues(a, b) == \/ a[1] = b[1] /\ a[3] = b[2]
                   \/ b[1] = a[1] + 1 /\ b[2] = 0 /\ a[3] = Framing(a[1])

SendsAreWhole ==
  ~overlapped =>
    /\ \A i \in 1..(Len(onWire) - 1) : Continues(onWire[i], onWire[i + 1])
    /\ \A i \in DOMAIN onWire : onWire[i][3] <= Framing(onWire[i][1])
    /\ pending = <<>> /\ sends # <<>> =>
         Last(onWire)[1] = Len(sends) /\ Last(onWire)[3] = Framing(Len(sends))

(***************************************************************************)
(* Whatever a handler sends is what PacketAnalyzer makes of its bytes at   *)
(* the other end: encode and decode of every packet class agree, in the    *)
(* order, the types and the number of their members.                       *)
(***************************************************************************)
DecodesAsSent ==
  \A i \in DOMAIN sends : sends[i].type # "S_NOTIFY_SERVER_IP" =>
    Analyze(Encode(sends[i])) = sends[i]
=============================================================================
