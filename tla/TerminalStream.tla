---------------------------- MODULE TerminalStream ----------------------------
(***************************************************************************)
(* StaticLib1/TerminalSession.cpp, receiving: the terminal's own thread    *)
(* reads with a blocking recv into an array of the call, goes on until it  *)
(* has as many bytes as the header says, and makes one packet of them.     *)
(* What else the array holds is gone when the call returns.  The header is *)
(* read after the first recv, however little that has brought, out of an   *)
(* array that is not initialised.                                          *)
(*                                                                         *)
(* The servers answer over terminals of their own, so in this repository   *)
(* nobody sends on the connection a terminal reads: this is what the code  *)
(* would do with packets, and in Lifecycle a terminal waits here for ever. *)
(***************************************************************************)
EXTENDS PacketCodec

CONSTANTS PeerPacket,    \* packets another server answers with
          MaxAnswers     \* bound: packets it sends

ASSUME TerminalConstants == MaxAnswers \in Nat

\* only a client is sent S_NOTIFY_SERVER_IP (ChattingProcess.cpp lines 221 and 231)
ASSUME PeerPackets == \A p \in PeerPacket : WellFormed(p) /\ p.type # "S_NOTIFY_SERVER_IP"

VARIABLES
  answers,     \* ghost: the packets the other server has sent
  toTerminal,  \* their bytes on the way, as cells
  begun,       \* how many bytes of the header it begins with have been read already
  peerUp,      \* the connection stands
  rowData,     \* what the call of onRecv has read
  packetLen,   \* the length it goes by
  reading,     \* "start" of onRecv, "more" in its loop, "stuck" for ever
  handed,      \* packets given to putPackage
  alone,       \* ghost: no call has read beyond its packet
  split        \* ghost: a first recv has brought less than a header

terminalVars == <<answers, toTerminal, begun, peerUp, rowData, packetLen, reading, handed,
                  alone, split>>

NoUse == [type |-> "garbled", body |-> <<>>]   \* a packet made of what the array held

TerminalInit == /\ answers = <<>> /\ toTerminal = <<>> /\ begun = 0 /\ peerUp = TRUE
                /\ rowData = <<>> /\ packetLen = 0 /\ reading = "start"
                /\ handed = <<>> /\ alone = TRUE /\ split = FALSE

PeerSends(p) ==
  /\ peerUp /\ Len(answers) < MaxAnswers
  /\ answers' = Append(answers, p)
  /\ toTerminal' = toTerminal \o Framed(p)
  /\ UNCHANGED <<begun, peerUp, rowData, packetLen, reading, handed, alone, split>>

PeerGoes ==
  /\ peerUp
  /\ peerUp' = FALSE
  /\ UNCHANGED <<answers, toTerminal, begun, rowData, packetLen, reading, handed, alone, split>>

Unread(k) == SubSeq(toTerminal, k + 1, Len(toTerminal))
Row(k) == rowData \o SubSeq(toTerminal, 1, k)

\* recv returns some of what is on the way, up to the room left in rowData: k cells,
\* and b bytes of the header that follows
recvSome(k, b) ==
  /\ reading # "stuck"
  /\ k \in 0..Len(toTerminal)
  /\ b > 0 => Unread(k) # <<>> /\ AtBoundary(Unread(k))
  /\ Bytes(SubSeq(toTerminal, 1, k)) + b > begun
  /\ Bytes(Row(k)) + b <= SocketBufSize

\* packetLen: in its low bytes what has come of it, above them what the array held.  That
\* makes less than has come, the right length, or more than ever comes
Lengths(k, b) ==
  IF reading = "more" THEN {packetLen}
  ELSE IF Bytes(Row(k)) + b >= HeaderSize THEN {PacketLen(Row(k))}
  ELSE {0, Huge} \cup (IF b > 0 THEN {PacketLen(Unread(k))} ELSE {})

\* the array of the call goes, and with it what it holds of the next header
CallEnds(k, b) ==
  /\ rowData' = <<>> /\ begun' = 0 /\ packetLen' = 0 /\ reading' = "start"
  /\ toTerminal' = IF b = 0 THEN Unread(k)
                   ELSE <<Cell("rest", HeaderSize - b, 0)>> \o Tail(Unread(k))

LoopsOn(k, b, len) ==
  /\ rowData' = Row(k) /\ begun' = b /\ packetLen' = len /\ reading' = "more"
  /\ toTerminal' = Unread(k)
  /\ UNCHANGED <<handed, peerUp>>

\* a null packet is taken for the end of the connection: onClose, connect again
Hands(p, k, b) ==
  \/ /\ p.type # NoPacketType
     /\ handed' = Append(handed, p)
     /\ CallEnds(k, b) /\ UNCHANGED peerUp
  \/ /\ p.type = NoPacketType
     /\ rowData' = <<>> /\ begun' = 0 /\ packetLen' = 0 /\ reading' = "start"
     /\ peerUp' = FALSE /\ toTerminal' = <<>>
     /\ UNCHANGED handed

\* analyzer on bytes behind those that have come: a packet of no use, none, or a crash
HandsGarbled(k, b) ==
  \/ Hands(NoUse, k, b)
  \/ Hands([type |-> NoPacketType], k, b)
  \/ reading' = "stuck" /\ UNCHANGED <<toTerminal, begun, peerUp, rowData, packetLen, handed>>

\* mutant: makes a packet of what one recv has brought
onRecvAtOnce(k, b) ==
  /\ recvSome(k, b) /\ Bytes(Row(k)) >= HeaderSize
  /\ CallEnds(k, b)
  /\ handed' = Append(handed, Analyze(TakeBytes(PacketLen(Row(k)), Tail(Row(k)))))
  /\ alone' = (alone /\ Bytes(Row(k)) + b <= PacketLen(Row(k)))
  /\ UNCHANGED <<answers, peerUp, split>>

onRecvRow(k, b) ==
  LET held == Bytes(Row(k)) + b
  IN /\ recvSome(k, b)
     /\ \E len \in Lengths(k, b) :
          /\ \/ held < len /\ LoopsOn(k, b, len)
             \/ /\ held >= len /\ held >= HeaderSize
                /\ Hands(Analyze(TakeBytes(len, Tail(Row(k)))), k, b)
             \/ held >= len /\ held < HeaderSize /\ HandsGarbled(k, b)
          /\ alone' = (alone /\ held <= len)
     /\ split' = (split \/ held < HeaderSize)
     /\ UNCHANGED answers

\* recv fails: nullptr at the start, but the loop only adds the result to ret
onRecvFails ==
  /\ ~peerUp /\ toTerminal = <<>> /\ reading = "more"
  /\ reading' = "stuck"
  /\ UNCHANGED <<answers, toTerminal, begun, peerUp, rowData, packetLen, handed, alone, split>>

TerminalNext == \/ \E p \in PeerPacket : PeerSends(p)
                \/ PeerGoes
                \/ \E k \in 0..Len(toTerminal), b \in 0..(HeaderSize - 1) : onRecvRow(k, b)
                \/ onRecvFails
-----------------------------------------------------------------------------
(***************************************************************************)
(* A terminal whose calls never read beyond their packet - the answers     *)
(* come one at a time - and whose first recv always brings a whole header  *)
(* hands on what the other server has sent, in order and without a gap,    *)
(* however each packet is split behind its header.                         *)
(***************************************************************************)
AnswersAreHanded ==
  alone /\ ~split => /\ IsPrefix(handed, answers)
                     /\ reading = "start" => Len(handed) + Headers(toTerminal) = Len(answers)
=============================================================================
