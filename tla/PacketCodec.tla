----------------------------- MODULE PacketCodec -----------------------------
(***************************************************************************)
(* StaticLib1/PacketHeader.h, PacketClass.h, PacketFactory.h, Stream.cpp   *)
(* and PacketAnalyzer.cpp: how a packet becomes bytes and bytes a packet.  *)
(*                                                                         *)
(* A packet is its type and the values of its members.  The bytes are a    *)
(* sequence of cells, one for each value the code writes with one memcpy,  *)
(* and one for the characters of a string; a cell knows how many bytes it  *)
(* takes.  A string is [len, of]: how many characters of which text (no    *)
(* text holds a NUL).                                                      *)
(***************************************************************************)
EXTENDS Integers, Sequences, SequencesExt, FiniteSets

CONSTANT SocketBufSize   \* SOCKET_BUF_SIZE: bytes of a Stream, and of a session's buffer_

ASSUME CodecConstants == SocketBufSize \in Nat \ {0}

\* PacketType in the order of the enumeration, which starts at 128
PacketTypes ==
  << "C_REQ_EXIT", "S_ANS_EXIT", "I_NOTIFY_TERMINAL", "C_NOTIFY_HEARTBEAT",
     "C_REQ_ID_PW", "S_ANS_ID_PW_FAIL", "S_ANS_ID_PW_SUCCESS", "I_DB_REQ_ID_PW",
     "I_DB_ANS_ID_PW", "I_CHTTING_NOTIFY_ID", "I_DB_REQ_LOAD_DATA",
     "I_DB_ANS_PARSE_DATA", "I_LOGIN_NOTIFY_ID_LOADED", "C_REQ_REGIST_CHATTING_NAME",
     "C_REQ_CHATTING", "S_ANS_CHATTING", "C_REQ_LOBBY_INFO", "S_ANS_LOBBY_INFO",
     "C_REQ_ENTER_ROOM", "S_ANS_ENTER_ROOM", "S_NOTIFY_SERVER_IP",
     "C_REQ_PLAYER_MOVE", "I_USER_INFO", "S_ANS_PLAYER_MOVE", "C_REQ_FIRE_BULLET",
     "S_ANS_FIRE_BULLET", "C_REQ_MAKE_ENEMY", "S_ANS_MAKE_ENEMY",
     "C_REQ_ENEMY_EXPLOSION", "S_ANS_ENEMY_EXPLOSION", "C_REQ_MAKE_BOSS",
     "S_ANS_MAKE_BOSS", "C_REQ_BOSS_EXPLOSION", "S_ANS_BOSS_EXPLOSION",
     "I_INITIALIZE_ROOMMEMBER", "S_REQ_CHANGE_SCENE", "S_REQ_ON_GAME" >>

TypeId(type) == 127 + CHOOSE i \in DOMAIN PacketTypes : PacketTypes[i] = type

\* PacketFactory::getPacket knows every type but one; nullptr for the rest
NoPacketType == "nullptr"
getPacket(id) ==
  LET made == {i \in DOMAIN PacketTypes : PacketTypes[i] # "S_NOTIFY_SERVER_IP"}
  IN  IF id - 127 \in made THEN PacketTypes[id - 127] ELSE NoPacketType

-----------------------------------------------------------------------------
(***************************************************************************)
(* The members in the order encode() writes them and in the order decode() *)
(* reads them; a class without members inherits Packet's.                  *)
(***************************************************************************)
Order(written, read) == [encode |-> written, decode |-> read]

LoginPackets ==
  [ C_REQ_EXIT          |-> Order(<<>>, <<>>),
    S_ANS_EXIT          |-> Order(<<>>, <<>>),
    I_NOTIFY_TERMINAL   |-> Order(<<>>, <<>>),
    C_NOTIFY_HEARTBEAT  |-> Order(<<>>, <<>>),
    C_REQ_ID_PW         |-> Order(<<"id_", "password_">>, <<"id_", "password_">>),
    S_ANS_ID_PW_FAIL    |-> Order(<<>>, <<>>),
    S_ANS_ID_PW_SUCCESS |-> Order(<<"ip_", "port_", "name_">>, <<"ip_", "port_", "name_">>),
    I_DB_REQ_ID_PW      |-> Order(<<"clientId_", "id_", "password_">>,
                                  <<"clientId_", "id_", "password_">>),
    I_DB_ANS_ID_PW      |-> Order(<<"clientId_", "oidAccountId_", "result_">>,
                                  <<"clientId_", "oidAccountId_", "result_">>) ]

ChattingPackets ==
  [ I_CHTTING_NOTIFY_ID        |-> Order(<<"clientId_", "oidAccountId_">>,
                                         <<"clientId_", "oidAccountId_">>),
    I_DB_REQ_LOAD_DATA         |-> Order(<<"clientId_", "oidAccountId_">>,
                                         <<"clientId_", "oidAccountId_">>),
    I_DB_ANS_PARSE_DATA        |-> Order(<<"clientId_", "name_", "result_">>,
                                         <<"clientId_", "name_", "result_">>),
    I_LOGIN_NOTIFY_ID_LOADED   |-> Order(<<"clientId_", "name_", "result_">>,
                                         <<"clientId_", "name_", "result_">>),
    C_REQ_REGIST_CHATTING_NAME |-> Order(<<"name_">>, <<"name_">>),
    C_REQ_CHATTING             |-> Order(<<"text_">>, <<"text_">>),
    S_ANS_CHATTING             |-> Order(<<"name_", "text_">>, <<"name_", "text_">>) ]

LobbyPackets ==
  [ C_REQ_LOBBY_INFO   |-> Order(<<"member_count", "Room_num">>, <<"member_count", "Room_num">>),
    S_ANS_LOBBY_INFO   |-> Order(<<"member_count", "Room_num">>, <<"member_count", "Room_num">>),
    C_REQ_ENTER_ROOM   |-> Order(<<"member_count", "Room_num">>, <<"member_count", "Room_num">>),
    S_ANS_ENTER_ROOM   |-> Order(<<"member_count", "Room_num">>, <<"member_count", "Room_num">>),
    S_NOTIFY_SERVER_IP |-> Order(<<"ip_", "port_">>, <<"ip_", "port_">>),
    C_REQ_PLAYER_MOVE  |-> Order(<<"Room_num", "x", "y">>, <<"Room_num", "x", "y">>),
    I_USER_INFO        |-> Order(<<"room_Num", "User1_ID", "User2_ID">>,
                                 <<"room_Num", "User1_ID", "User2_ID">>) ]

PlayPackets ==
  [ S_ANS_PLAYER_MOVE     |-> Order(<<"room_num", "x", "y">>, <<"room_num", "x", "y">>),
    C_REQ_FIRE_BULLET     |-> Order(<<"room_num", "x", "y">>, <<"room_num", "x", "y">>),
    S_ANS_FIRE_BULLET     |-> Order(<<"room_num", "x", "y">>, <<"room_num", "x", "y">>),
    C_REQ_MAKE_ENEMY      |-> Order(<<"room_num", "x">>, <<"room_num", "x">>),
    S_ANS_MAKE_ENEMY      |-> Order(<<"x">>, <<"x">>),
    C_REQ_ENEMY_EXPLOSION |-> Order(<<"room_num", "enemycount">>, <<"room_num", "enemycount">>),
    S_ANS_ENEMY_EXPLOSION |-> Order(<<"room_num", "enemycount">>, <<"room_num", "enemycount">>) ]

BossPackets ==
  [ C_REQ_MAKE_BOSS         |-> Order(<<"room_num">>, <<"room_num">>),
    S_ANS_MAKE_BOSS         |-> Order(<<"room_num">>, <<"room_num">>),
    C_REQ_BOSS_EXPLOSION    |-> Order(<<"room_num">>, <<"room_num">>),
    S_ANS_BOSS_EXPLOSION    |-> Order(<<"room_num", "ip_", "port_">>, <<"room_num", "ip_", "port_">>),
    I_INITIALIZE_ROOMMEMBER |-> Order(<<"room_num", "member_count">>, <<"room_num", "member_count">>),
    S_REQ_CHANGE_SCENE      |-> Order(<<"room_num">>, <<"room_num">>),
    S_REQ_ON_GAME           |-> Order(<<"room_num">>, <<"room_num">>) ]

AllPackets(type) ==
  CASE type \in DOMAIN LoginPackets    -> LoginPackets[type]
    [] type \in DOMAIN ChattingPackets -> ChattingPackets[type]
    [] type \in DOMAIN LobbyPackets    -> LobbyPackets[type]
    [] type \in DOMAIN PlayPackets     -> PlayPackets[type]
    [] type \in DOMAIN BossPackets     -> BossPackets[type]

\* mutant: decode() reads the password first
MembersSwapped(type) ==
  IF type = "C_REQ_ID_PW" THEN Order(<<"id_", "password_">>, <<"password_", "id_">>)
                          ELSE AllPackets(type)

Members(type) == AllPackets(type)

\* the C++ types of the members: str_t, Byte, UInt32, float, UInt64
Strings == {"id_", "password_", "ip_", "name_", "text_"}
Width(member) == CASE member = "result_" -> 1
                   [] member \in {"port_", "x", "y"} -> 4
                   [] member \notin Strings \cup {"result_", "port_", "x", "y"} -> 8

-----------------------------------------------------------------------------
(***************************************************************************)
(* Stream.  kind tells an integer, whose first four bytes are its value,   *)
(* from bytes that mean something else when they are read as a length.     *)
(***************************************************************************)
Cell(kind, width, value) == [kind |-> kind, width |-> width, value |-> value]

Bytes(cells) ==
  LET upTo[i \in 0..Len(cells)] == IF i = 0 THEN 0 ELSE upTo[i - 1] + cells[i].width
  IN  upTo[Len(cells)]

\* operator <<: checkWriteBound skips what does not fit, character by character
Write(stream, cell) ==
  LET room == SocketBufSize - Bytes(stream)
  IN  IF cell.width <= room THEN Append(stream, cell)
      ELSE IF cell.kind = "chars" /\ room > 0 THEN Append(stream, [cell EXCEPT !.width = room])
      ELSE stream

CellsOf(member, value) ==
  CASE member \in Strings ->
         <<Cell("int", 4, value.len)>> \o
           (IF value.len = 0 THEN <<>> ELSE <<Cell("chars", value.len, value)>>)
    [] member \in {"x", "y"} -> <<Cell("float", 4, value)>>
    [] member \notin Strings \cup {"x", "y"} -> <<Cell("int", Width(member), value)>>

\* the values in the order encode() writes them, after the type
Written(packet) ==
  LET order == Members(packet.type).encode
      upTo[i \in 0..Len(order)] ==
        IF i = 0 THEN <<Cell("int", 8, TypeId(packet.type))>>
        ELSE upTo[i - 1] \o CellsOf(order[i], packet.body[order[i]])
  IN  upTo[Len(order)]

Encode(packet) ==
  LET cells == Written(packet)
      stream[i \in 0..Len(cells)] == IF i = 0 THEN <<>> ELSE Write(stream[i - 1], cells[i])
  IN  stream[Len(cells)]

Unset == "unset"   \* a member that decode() leaves as it was

\* operator >>: nothing is read past offset_; a read that does not meet what was
\* written there yields bytes of something else
Read(at, member, stream) ==
  LET there(i, w) == i <= Len(stream) /\ stream[i].width = w
      n == IF at <= Len(stream) THEN stream[at].value ELSE 0
  IN  IF at > Len(stream) THEN [next |-> at, value |-> Unset]
      ELSE IF member \notin Strings
        THEN [next |-> at + 1, value |-> IF there(at, Width(member)) THEN n ELSE <<"bytes of", n>>]
      ELSE IF ~there(at, 4) THEN [next |-> at + 1, value |-> <<"bytes of", n>>]
      ELSE IF n = 0 THEN [next |-> at + 1, value |-> [len |-> 0, of |-> ""]]
      ELSE IF there(at + 1, n) THEN [next |-> at + 2, value |-> stream[at + 1].value]
      ELSE [next |-> at + 1, value |-> Unset]

\* what decode() makes of the members in that order
Decode(order, stream) ==
  LET upTo[i \in 0..Len(order)] ==
        IF i = 0 THEN [at |-> 2, body |-> [m \in {} |-> Unset]]
        ELSE LET last == upTo[i - 1]
                 r    == Read(last.at, order[i], stream)
             IN  [at |-> r.next,
                  body |-> [m \in DOMAIN last.body \cup {order[i]} |->
                              IF m = order[i] THEN r.value ELSE last.body[m]]]
  IN  upTo[Len(order)].body

\* PacketAnalyzer::analyzer: the type, the class, its decode()
Analyze(stream) ==
  LET type == IF stream # <<>> /\ stream[1].width = 8 /\ stream[1].value \in Nat
                THEN getPacket(stream[1].value) ELSE NoPacketType
  IN  [type |-> type,
       body |-> IF type = NoPacketType THEN <<>> ELSE Decode(Members(type).decode, stream)]

(***************************************************************************)
(* A packet as the handlers and the clients make them: a known type, its   *)
(* members and no others, every text with its length - "" is the same in   *)
(* all members - and all of it not more than a Stream holds.               *)
(***************************************************************************)
Text(value) == /\ value.len \in Nat
               /\ value.len = 0 => value = [len |-> 0, of |-> ""]

WellFormed(packet) ==
  /\ packet = [type |-> packet.type, body |-> packet.body]
  /\ packet.type \in ToSet(PacketTypes)
  /\ packet.body = [m \in ToSet(Members(packet.type).encode) |-> packet.body[m]]
  /\ \A m \in ToSet(Members(packet.type).encode) \cap Strings : Text(packet.body[m])
  /\ Bytes(Written(packet)) <= SocketBufSize
-----------------------------------------------------------------------------
(***************************************************************************)
(* On a socket a packet is preceded by its length, the four bytes of the   *)
(* length included.                                                        *)
(***************************************************************************)
HeaderSize == 4
Huge == 2^20    \* the first bytes of anything else, read as a length

Framed(packet) ==
  LET data == Encode(packet)
  IN  <<Cell("length", HeaderSize, HeaderSize + Bytes(data))>> \o data

\* the int32 at the start of a buffer, zero where nothing has come in
PacketLen(cells) ==
  IF cells = <<>> THEN 0
  ELSE IF cells[1].kind \in {"length", "int"} /\ cells[1].width >= HeaderSize
    THEN cells[1].value ELSE Huge

AtBoundary(cells) == cells = <<>> \/ cells[1].kind = "length"

Headers(cells) == Cardinality({i \in DOMAIN cells : cells[i].kind = "length"})

TakeBytes(n, cells) ==
  SubSeq(cells, 1, Cardinality({i \in DOMAIN cells : Bytes(SubSeq(cells, 1, i)) <= n}))

\* mutant: what follows a packet is not moved up
DropNothing(n, cells) == IF n = HeaderSize THEN Tail(cells) ELSE cells

DropBytes(n, cells) == SubSeq(cells, Len(TakeBytes(n, cells)) + 1, Len(cells))

\* of an IoData: whether more is to come or to go, and the part of its buffer for it
needMoreIO(currentBytes, totalBytes) == currentBytes < totalBytes

wsabuf(currentBytes, totalBytes) ==
  [first |-> currentBytes, end |-> totalBytes, len |-> totalBytes - currentBytes]
=============================================================================
