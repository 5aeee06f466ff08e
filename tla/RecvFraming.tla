----------------------------- MODULE RecvFraming -----------------------------
(***************************************************************************)
(* StaticLib1/IOCPSession.cpp, receiving: a stream of bytes in segments is *)
(* cut into packets.  A segment that brings less than its first packet is  *)
(* kept in the buffer of the receive and another receive is posted behind  *)
(* it; any other is appended to main_buffer_, from which whole packets are *)
(* cut.  A packet is preceded by its length, the four bytes of the header  *)
(* included.                                                               *)
(*                                                                         *)
(* The null packet and a packet longer than packetData stop the process.   *)
(* A write past buffer_, or to the place line 240 computes when something  *)
(* is left in main_buffer_, either stops it or goes on: the bytes are then *)
(* counted but not there, and what is cut may be anything (strayed).       *)
(***************************************************************************)
EXTENDS PacketCodec

CONSTANTS ClientPacket,    \* packets a client may send
          TerminalPacket,  \* packets the terminal of another server may send
          MaxReceived      \* bound: packets either sends

ASSUME RecvConstants == MaxReceived \in Nat

ASSUME ReceivedPackets == \A p \in ClientPacket \cup TerminalPacket : WellFormed(p)

VARIABLES
  toRecv,       \* the sender's bytes on the way, as cells
  ahead,        \* how many bytes of the header it begins with have come already
  requests,     \* ghost: the packets the sender has sent
  buffer_,      \* ioData_[IO_READ]: what the receive has brought so far
  posted,       \* how many bytes the outstanding WSARecv may bring
  totalBytes_,
  main_buffer_, main_buffer_offset,
  offset,       \* in onRecv: where the data of a packet begins
  cutting,      \* a worker is in the loop of onRecv
  storage,      \* packageStorage: the packets cut out
  receiving,    \* the process has not crashed
  aligned,      \* ghost: every segment so far has ended where a packet ends
  strayed       \* ghost: bytes have been written past an array

recvVars == <<toRecv, ahead, requests, buffer_, posted, totalBytes_, main_buffer_,
              main_buffer_offset, offset, cutting, storage, receiving, aligned, strayed>>

MaxRow == 200   \* sizeof(packetData) in onRecv
Stale == -1     \* a main_buffer_offset with nothing behind it: in memory used before
Garbled == [type |-> "garbled", body |-> <<>>]   \* a packet cut out of stale bytes

\* main_buffer_offset is not initialised: 0 in fresh memory
RecvInit ==
  /\ toRecv = <<>> /\ ahead = 0 /\ requests = <<>>
  /\ buffer_ = <<>> /\ posted = SocketBufSize /\ totalBytes_ = 0
  /\ main_buffer_ = <<>> /\ main_buffer_offset \in {0, Stale}
  /\ offset = 0 /\ cutting = FALSE
  /\ storage = <<>> /\ receiving = TRUE
  /\ aligned = TRUE /\ strayed = FALSE

OnTheWay(p) ==
  /\ receiving /\ Len(requests) < MaxReceived
  /\ requests' = Append(requests, p)
  /\ toRecv' = toRecv \o Framed(p)
  /\ UNCHANGED <<ahead, buffer_, posted, totalBytes_, main_buffer_, main_buffer_offset,
                 offset, cutting, storage, receiving, aligned, strayed>>

SendsFramed(p) == OnTheWay(p)

\* TerminalSession::sendPacket: header and data in an array of the call and in one
\* send; memcpy_s copies four bytes more than the data, for which there must be room
TerminalSends(p) ==
  /\ Bytes(Encode(p)) + 2 * HeaderSize <= SocketBufSize
  /\ OnTheWay(p)

setupTotalBytes(total, len) ==
  [total |-> total + len, offset |-> IF total = 0 THEN HeaderSize ELSE 0]

\* the int32 at the start of buffer_, which is filled with zeros: of a header only h
\* bytes of which have come, the low ones
LengthSoFar(cells, rest, h) ==
  IF cells = <<>> /\ h > 0 THEN rest[1].value % 256^h ELSE PacketLen(cells)

(***************************************************************************)
(* onRecv for a segment of k cells and h bytes of the header that follows, *)
(* up to its loop.  needMoreIO: the receive is posted for what is missing, *)
(* and then the total set again.                                           *)
(***************************************************************************)
RecvMore(cells, held, total, len) ==
  /\ buffer_' = cells
  /\ posted' = wsabuf(held, total).len
  /\ totalBytes_' = setupTotalBytes(total, len).total
  /\ UNCHANGED <<main_buffer_, main_buffer_offset, offset, cutting, receiving>>

Stops == /\ receiving' = FALSE
         /\ UNCHANGED <<buffer_, posted, totalBytes_, main_buffer_, main_buffer_offset,
                        offset, cutting, strayed>>

\* to the loop, with held bytes more in main_buffer_
ToLoop(cells, held, first) ==
  /\ main_buffer_offset' = IF main_buffer_offset = Stale THEN Stale ELSE main_buffer_offset + held
  /\ totalBytes_' = main_buffer_offset'
  /\ offset' = first
  /\ cutting' = TRUE
  /\ buffer_' = cells /\ posted' = 0
  /\ UNCHANGED receiving

\* memcpy_s to &main_buffer_ + main_buffer_offset: main_buffer_offset arrays further on
ToMainBuffer(cells, held, first) ==
  \/ /\ main_buffer_offset = 0
     /\ main_buffer_' = cells
     /\ ToLoop(cells, held, first)
     /\ UNCHANGED strayed
  \/ main_buffer_offset # 0 /\ Stops
  \/ /\ main_buffer_offset # 0
     /\ strayed' = TRUE
     /\ ToLoop(cells, held, first)
     /\ UNCHANGED main_buffer_

\* what a receive was posted for is not compared with the room left in buffer_: the
\* counters of the session lie behind it
PastBuffer(cells, held, setup, len) ==
  \/ Stops
  \/ RecvMore(cells, held, setup.total, len) /\ strayed' = TRUE
  \/ ToLoop(cells, held, setup.offset) /\ strayed' = TRUE /\ UNCHANGED main_buffer_

Receive(k, h) ==
  LET segment == SubSeq(toRecv, 1, k)
      rest    == SubSeq(toRecv, k + 1, Len(toRecv))
      cells   == buffer_ \o segment
      came    == Bytes(segment) + h - ahead
      held    == Bytes(cells) + h
      len     == LengthSoFar(cells, rest, h)
      setup   == setupTotalBytes(totalBytes_, len)
      more    == needMoreIO(held, setup.total)
  IN /\ receiving /\ ~cutting
     /\ k \in 0..Len(toRecv)
     /\ h > 0 => rest # <<>> /\ AtBoundary(rest)
     /\ came \in 1..posted
     /\ \/ held > SocketBufSize /\ PastBuffer(cells, held, setup, len)
        \/ /\ held <= SocketBufSize /\ more
           /\ RecvMore(cells, held, setup.total, len) /\ UNCHANGED strayed
        \/ /\ held <= SocketBufSize /\ ~more
           /\ ToMainBuffer(cells, held, setup.offset)
     /\ toRecv' = rest /\ ahead' = h
     /\ aligned' = (aligned /\ h = 0 /\ AtBoundary(rest))
     /\ UNCHANGED <<requests, storage>>

-----------------------------------------------------------------------------
(***************************************************************************)
(* The loop of onRecv.                                                     *)
(***************************************************************************)
Whole == /\ HeaderSize < main_buffer_offset   \* sizeof(packet_len) is 4 or 8
         /\ PacketLen(main_buffer_) <= main_buffer_offset

\* memcpy of the data, analyzer, PutPackage, and the rest of the buffer moved up
CutPacket ==
  LET len  == PacketLen(main_buffer_)
      data == TakeBytes(len - HeaderSize, DropBytes(offset, main_buffer_))
      p    == Analyze(data)
  IN /\ receiving /\ cutting /\ ~strayed /\ Whole
     /\ IF len - HeaderSize > MaxRow \/ p.type = NoPacketType
          THEN /\ receiving' = FALSE
               /\ UNCHANGED <<storage, main_buffer_, main_buffer_offset, totalBytes_>>
          ELSE /\ storage' = Append(storage, p)
               /\ main_buffer_' = DropBytes(len, main_buffer_)
               /\ main_buffer_offset' = main_buffer_offset - len
               /\ totalBytes_' = main_buffer_offset'
               /\ UNCHANGED receiving
     /\ UNCHANGED <<toRecv, ahead, requests, buffer_, posted, offset, cutting, aligned, strayed>>

\* the same out of bytes nobody wrote there: nothing that can be used, or whatever packet
\* they happen to make; bound: one packet more than are sent
CutAstray ==
  /\ receiving /\ cutting /\ strayed
  /\ \/ receiving' = FALSE /\ UNCHANGED storage
     \/ /\ Len(storage) <= MaxReceived
        /\ storage' = Append(storage, Garbled) /\ UNCHANGED receiving
  /\ UNCHANGED <<toRecv, ahead, requests, buffer_, posted, totalBytes_, main_buffer_,
                 main_buffer_offset, offset, cutting, aligned, strayed>>

\* break, and recvStandBy().  A header begun in main_buffer_ goes on in buffer_
PostReceive ==
  /\ cutting' = FALSE
  /\ buffer_' = <<>> /\ totalBytes_' = 0 /\ posted' = SocketBufSize
  /\ toRecv' = IF ahead = 0 THEN toRecv
               ELSE <<Cell("rest", HeaderSize - ahead, 0)>> \o Tail(toRecv)
  /\ ahead' = 0
  /\ UNCHANGED <<requests, main_buffer_, offset, storage, receiving, aligned, strayed>>

\* mutant: `if' instead of `while'
StandByAfterOne ==
  /\ receiving /\ cutting /\ storage # <<>>
  /\ PostReceive /\ UNCHANGED main_buffer_offset

StandBy ==
  /\ receiving /\ cutting
  /\ PostReceive
  /\ \/ ~strayed /\ ~Whole /\ UNCHANGED main_buffer_offset
     \/ strayed /\ main_buffer_offset' \in {0, Stale}

RecvNext == \/ \E p \in ClientPacket : SendsFramed(p)
            \/ \E p \in TerminalPacket : TerminalSends(p)
            \/ \E k \in 0..Len(toRecv), h \in 0..(HeaderSize - 1) : Receive(k, h)
            \/ CutPacket \/ CutAstray \/ StandBy

RecvSpec == RecvInit /\ [][RecvNext]_recvVars
-----------------------------------------------------------------------------
(***************************************************************************)
(* However the stream is split and coalesced, in the middle of a header    *)
(* too, the packets handed on are those the sender has sent, in its order, *)
(* member by member, until bytes are written past an array: what onRecv    *)
(* cannot cut it leaves.  A packet is made of two only out of a            *)
(* main_buffer_ in which something was left over.                          *)
(***************************************************************************)
CutInOrder == ~strayed => IsPrefix(storage, requests)

(***************************************************************************)
(* As long as every segment ends where a packet ends, several in one       *)
(* segment or one in each, nothing received is left in main_buffer_ when   *)
(* the next receive is posted - in a session whose main_buffer_offset was  *)
(* 0 when it was made.                                                     *)
(***************************************************************************)
WholeSegmentsAreCut ==
  receiving /\ aligned /\ ~strayed /\ ~cutting => Len(storage) + Headers(toRecv) = Len(requests)

(***************************************************************************)
(* "totalBytes_ is set; if it is set already, this is ignored and the size *)
(* of the packet returned" (IOCPSession.h line 44).                        *)
(***************************************************************************)
TotalIsSetOnce ==
  [][totalBytes_ # 0 /\ ~cutting /\ ~cutting' => totalBytes_' = totalBytes_]_recvVars
=============================================================================
