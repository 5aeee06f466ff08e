---------------------------- MODULE MCSessionStream ----------------------------
(***************************************************************************)
(* One packet of every class to send, and one of 10240 bytes, which does   *)
(* not fit; a few kinds to receive: with and without members, one of 202   *)
(* bytes, one of 10200, one PacketFactory does not know.                   *)
(***************************************************************************)
EXTENDS SessionStream

Sample(type, text) ==
  [type |-> type,
   body |-> [m \in ToSet(Members(type).decode) |->
               IF m \in Strings THEN [len |-> text, of |-> m] ELSE TypeId(type) % 7]]

MCServerPacket == {Sample(t, 3) : t \in ToSet(PacketTypes)} \cup {Sample("C_REQ_CHATTING", 10228)}
MCClientPacket == {Sample("C_NOTIFY_HEARTBEAT", 0),
                   Sample("C_REQ_CHATTING", 190),
                   Sample("C_REQ_CHATTING", 10188),
                   Sample("S_NOTIFY_SERVER_IP", 3)}
MCTerminalPacket == {Sample("I_DB_REQ_ID_PW", 3)}
MCPeerPacket == {Sample("I_DB_ANS_ID_PW", 0), Sample("I_DB_ANS_PARSE_DATA", 5)}
=============================================================================
