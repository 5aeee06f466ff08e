------------------------------- MODULE Lobby -------------------------------
(***************************************************************************)
(* ChattingServer/ChattingProcess.cpp and LobbyValue.cpp: the lobby.       *)
(* Clients ask for the rooms, enter one, and when a room counts two        *)
(* members the server tells the members where the game server is and tells *)
(* the game server who they are.  The game server later resets the count.  *)
(*                                                                         *)
(* The contents threads run the handlers.  No handler takes a lock (the    *)
(* LockEvent call is commented out), so every access to a room another     *)
(* thread may change is a step of its own.  room_array, the user pointers  *)
(* and session_storage hold raw Session pointers: closing a session leaves *)
(* them as they are.                                                       *)
(*                                                                         *)
(* Undefined behaviour: using a pointer to a deleted session stops the     *)
(* process, has no effect the lobby can see or, when a later session was   *)
(* put at the same address, uses that session instead; a null pointer      *)
(* stops it; changing session_storage while another thread walks it may    *)
(* stop it.  A pointer is written here as the client it was taken for;     *)
(* Obj says whose session it leads to.                                     *)
(*                                                                         *)
(* The clients and the game server are outside: a client that knows the    *)
(* rooms asks to enter one it last saw with a free place, sending the      *)
(* count it saw; the game server resets a room it was given a match for.   *)
(***************************************************************************)
EXTENDS Naturals, Sequences, FiniteSets, SequencesExt

CONSTANTS Client,        \* chatting sessions of game clients
          Address,       \* where new IOCPSession may put a session
          Room,          \* keys of room_array
          Thread,        \* the contents threads
          Null,
          MaxAsk,        \* bound: requests to enter a room
          MaxClose       \* bound: clients that disconnect

ASSUME ClientAssumption == Null \notin Client /\ Null \notin Address
ASSUME LobbyBounds == MaxAsk \in Nat /\ MaxClose \in Nat

VARIABLES
  running,          \* the process has not crashed
  member,           \* Current_member_in_room
  user1, user2,     \* Session pointers of a room
  storage,          \* session_storage
  sessionOne,       \* session id 1 is still listed (line 219 looks it up)
  addr,             \* where a client's session was put, Null before it connects
  closed,           \* sessions whose object is deleted
  wire,             \* each client's request on its way, or Null
  queue,            \* packages waiting for a contents thread
  pc, pkg,          \* each thread: where it is, the package it handles
  ids,              \* each thread: the two ids it has read for the game server
  ret,              \* each thread: retpacket.member_count
  view,             \* what each client last saw of a room: a count, or Null
  asked,            \* requests to enter sent so far
  waiting,          \* clients seated in a room and not yet told the address
  told,             \* clients told the address whose game has not ended
  games,            \* matches handed to the game server, not yet finished
  ended,            \* rooms whose reset is on its way back
  met,              \* two threads were at one room at once
  mistaken          \* a seat was followed to the session of somebody else

roomVars == <<member, user1, user2>>
threadVars == <<pc, pkg, ids, ret>>
sessions == <<sessionOne, addr, closed>>
clientVars == <<view, asked, wire>>
knowledge == <<waiting, told>>
outcome == <<games, ended>>
ghosts == <<met, mistaken>>
vars == <<running, member, user1, user2, storage, sessionOne, addr, closed, wire, queue,
          pc, pkg, ids, ret, view, asked, waiting, told, games, ended, met, mistaken>>

Package == [type : {"LOBBY_INFO"}, from : Client]
             \cup [type : {"ENTER_ROOM"}, from : Client, room : Room, count : 0..1]
             \cup [type : {"INITIALIZE_ROOMMEMBER"}, room : Room]

Where == {"idle", "info", "check", "count", "seat", "seat1", "seat2", "announce",
          "announcing", "full", "ids", "notify", "handoff", "clear", "reset"}

LobbyInit ==
  /\ running = TRUE
  /\ member = [r \in Room |-> 0]
  /\ user1 = [r \in Room |-> Null]
  /\ user2 = [r \in Room |-> Null]
  /\ storage = {}
  /\ sessionOne \in BOOLEAN
  /\ addr = [c \in Client |-> Null]
  /\ closed = {}
  /\ wire = [c \in Client |-> Null]
  /\ queue = <<>>
  /\ pc = [t \in Thread |-> "idle"]
  /\ pkg = [t \in Thread |-> Null]
  /\ ids = [t \in Thread |-> <<Null, Null>>]
  /\ ret = [t \in Thread |-> 0]
  /\ view = [c \in Client |-> [r \in Room |-> Null]]
  /\ asked = 0
  /\ waiting = [r \in Room |-> {}]
  /\ told = {}
  /\ games = <<>>
  /\ ended = <<>>
  /\ met = FALSE
  /\ mistaken = FALSE

-----------------------------------------------------------------------------
(***************************************************************************)
(* The outside: clients, their connections, the game server.               *)
(***************************************************************************)
\* the clients that have a session
Open == {c \in Client : addr[c] # Null} \ closed

(***************************************************************************)
(* The session a pointer taken for c leads to: c's own or, once that is    *)
(* deleted, the one that lies at its address.                              *)
(***************************************************************************)
Obj(c) == IF c \in closed /\ \E d \in Open : addr[d] = addr[c]
            THEN CHOOSE d \in Open : addr[d] = addr[c]
            ELSE c

Send(p) == queue' = Append(queue, p)

Request(c, p) == wire' = [wire EXCEPT ![c] = p]

Pending(c) == \/ wire[c] # Null
              \/ \E i \in DOMAIN queue : queue[i].type # "INITIALIZE_ROOMMEMBER"
                                         /\ queue[i].from = c
              \/ \E t \in Thread : /\ pc[t] # "idle"
                                   /\ pkg[t].type # "INITIALIZE_ROOMMEMBER"
                                   /\ pkg[t].from = c

\* a client that waits in a room or was told the game server's address asks
\* again only when its game has ended
Outside(c) == c \notin told /\ \A r \in Room : c \notin waiting[r]

MayAsk(c) == running /\ c \in Open /\ ~Pending(c) /\ Outside(c)

\* AcceptEx, new IOCPSession: at an address no live session has
Connect(c, a) ==
  /\ running /\ addr[c] = Null
  /\ \A d \in Open : addr[d] # a
  /\ addr' = [addr EXCEPT ![c] = a]
  /\ UNCHANGED <<running, roomVars, storage, sessionOne, closed, queue, threadVars,
                 clientVars, knowledge, outcome, ghosts>>

AskLobbyInfo(c) ==
  /\ MayAsk(c)
  /\ Request(c, [type |-> "LOBBY_INFO", from |-> c])
  /\ UNCHANGED <<running, roomVars, storage, sessions, queue, threadVars,
                 view, asked, knowledge, outcome, ghosts>>

AskEnterRoom(c, r) ==
  /\ MayAsk(c)
  /\ asked < MaxAsk
  /\ view[c][r] \in {0, 1}
  /\ asked' = asked + 1
  /\ Request(c, [type |-> "ENTER_ROOM", from |-> c, room |-> r, count |-> view[c][r]])
  /\ UNCHANGED <<running, roomVars, storage, sessions, queue, threadVars,
                 view, knowledge, outcome, ghosts>>

RequestArrives(c) ==
  /\ running /\ wire[c] # Null
  /\ Send(wire[c])
  /\ wire' = [wire EXCEPT ![c] = Null]
  /\ UNCHANGED <<running, roomVars, storage, sessions, threadVars, view,
                 asked, knowledge, outcome, ghosts>>

\* an IO worker closes the session and deletes it
CloseClient(c) ==
  /\ running /\ c \in Open /\ Cardinality(closed) < MaxClose
  /\ closed' = closed \cup {c}
  /\ waiting' = [r \in Room |-> waiting[r] \ {c}]
  /\ wire' = [wire EXCEPT ![c] = Null]
  /\ UNCHANGED <<running, roomVars, storage, sessionOne, addr, queue,
                 threadVars, view, asked, told, outcome, ghosts>>

CloseSessionOne ==
  /\ running /\ sessionOne
  /\ sessionOne' = FALSE
  /\ UNCHANGED <<running, roomVars, storage, addr, closed, queue, threadVars,
                 clientVars, knowledge, outcome, ghosts>>

\* the game server ends game i; its players hear of it before the lobby does
GameEnds(i) ==
  /\ running /\ i \in DOMAIN games
  /\ games' = RemoveAt(games, i)
  /\ ended' = Append(ended, games[i].room)
  /\ told' = told \ {games[i].id1, games[i].id2}
  /\ UNCHANGED <<running, roomVars, storage, sessions, queue, threadVars,
                 clientVars, waiting, ghosts>>

ResetArrives ==
  /\ running /\ ended # <<>>
  /\ ended' = Tail(ended)
  /\ Send([type |-> "INITIALIZE_ROOMMEMBER", room |-> Head(ended)])
  /\ UNCHANGED <<running, roomVars, storage, sessions, threadVars,
                 clientVars, knowledge, games, ghosts>>

-----------------------------------------------------------------------------
(***************************************************************************)
(* The contents threads.                                                   *)
(***************************************************************************)
Goto(t, l) == /\ pc' = [pc EXCEPT ![t] = l]
              /\ UNCHANGED <<pkg, ids, ret>>

\* the handler returns and execute() deletes the package
Finish(t) == /\ pc' = [pc EXCEPT ![t] = "idle"]
             /\ pkg' = [pkg EXCEPT ![t] = Null]
             /\ ids' = [ids EXCEPT ![t] = <<Null, Null>>]
             /\ ret' = [ret EXCEPT ![t] = 0]

FirstStep(p) == IF p.type = "LOBBY_INFO" THEN "info"
                ELSE IF p.type = "ENTER_ROOM" THEN "check" ELSE "reset"

\* a handler with a room, and another that would meet it there
HasRoom(t) == pc[t] \notin {"idle", "info"}

Meets(t, p) == p.type # "LOBBY_INFO"
                 /\ \E u \in Thread \ {t} : HasRoom(u) /\ pkg[u].room = p.room

TakePackage(t) ==
  /\ running /\ pc[t] = "idle" /\ queue # <<>>
  /\ pkg' = [pkg EXCEPT ![t] = Head(queue)]
  /\ queue' = Tail(queue)
  /\ pc' = [pc EXCEPT ![t] = FirstStep(Head(queue))]
  /\ met' = (met \/ Meets(t, Head(queue)))
  /\ UNCHANGED <<running, roomVars, storage, sessions, ids, ret, clientVars,
                 knowledge, outcome, mistaken>>

At(t, l) == running /\ pc[t] = l

Crash == /\ running' = FALSE
         /\ UNCHANGED <<roomVars, storage, sessions, queue, threadVars,
                        clientVars, knowledge, outcome, ghosts>>

MayStop(undefined) == running' \in IF undefined THEN BOOLEAN ELSE {TRUE}

\* the pointers in S are used
Using(S) == MayStop(\E s \in S : Obj(s) \in closed)

\* the seats S of a room are followed
Follow(S) == /\ Using(S)
             /\ mistaken' = (mistaken \/ \E s \in S : Obj(s) # s)
             /\ UNCHANGED met

\* another thread is between two elements of session_storage
Walked(t) == \E u \in Thread \ {t} : pc[u] = "announcing"

C_REQ_LOBBY_INFO(t) ==
  LET c == Obj(pkg[t].from)
  IN /\ At(t, "info")
     /\ storage' = storage \cup {c}
     /\ view' = [view EXCEPT ![c] = member]
     /\ MayStop(c \in closed \/ (c \notin storage /\ Walked(t)))
     /\ Finish(t)
     /\ UNCHANGED <<roomVars, sessions, queue, asked, wire, knowledge, outcome, ghosts>>

I_INITIALIZE_ROOMMEMBER(t) ==
  /\ At(t, "reset")
  /\ member' = [member EXCEPT ![pkg[t].room] = 0]
  /\ Finish(t)
  /\ UNCHANGED <<running, user1, user2, storage, sessions, queue,
                 clientVars, knowledge, outcome, ghosts>>

\* if (Get_Current_member() >= 2) return;
EnterCheck(t) ==
  /\ At(t, "check")
  /\ IF member[pkg[t].room] >= 2 THEN Finish(t) ELSE Goto(t, "count")
  /\ UNCHANGED <<running, roomVars, storage, sessions, queue,
                 clientVars, knowledge, outcome, ghosts>>

\* Set_Current_member(++packet->member_count)
EnterCount(t) ==
  /\ At(t, "count")
  /\ member' = [member EXCEPT ![pkg[t].room] = pkg[t].count + 1]
  /\ Goto(t, "seat")
  /\ UNCHANGED <<running, user1, user2, storage, sessions, queue,
                 clientVars, knowledge, outcome, ghosts>>

\* if (user1 == NULL)
EnterSeat(t) ==
  /\ At(t, "seat")
  /\ Goto(t, IF user1[pkg[t].room] = Null THEN "seat1" ELSE "seat2")
  /\ UNCHANGED <<running, roomVars, storage, sessions, queue,
                 clientVars, knowledge, outcome, ghosts>>

\* user1 = session; or user2 = session;
TakeSeat(t) ==
  LET r == pkg[t].room  c == pkg[t].from
  IN /\ running
     /\ \/ /\ pc[t] = "seat1"
           /\ user1' = [user1 EXCEPT ![r] = c]
           /\ UNCHANGED user2
        \/ /\ pc[t] = "seat2"
           /\ user2' = [user2 EXCEPT ![r] = c]
           /\ UNCHANGED user1
     /\ waiting' = [waiting EXCEPT ![r] = @ \cup ({c} \ closed)]
     /\ Goto(t, "announce")
     /\ UNCHANGED <<running, member, storage, sessions, queue,
                    clientVars, told, outcome, ghosts>>

\* retpacket.member_count and the log line, up to the first element
AnnounceBegins(t) ==
  /\ At(t, "announce")
  /\ ret' = [ret EXCEPT ![t] = member[pkg[t].room]]
  /\ Using({pkg[t].from})
  /\ pc' = [pc EXCEPT ![t] = "announcing"]
  /\ UNCHANGED <<roomVars, pkg, ids, storage, sessions, queue,
                 clientVars, knowledge, outcome, ghosts>>

\* session_storage: everybody in the lobby is sent the count
Announce(t) ==
  LET r == pkg[t].room
  IN /\ At(t, "announcing")
     /\ Using(storage)
     /\ view' = [c \in Client |-> IF \E s \in storage : Obj(s) = c
                                    THEN [view[c] EXCEPT ![r] = ret[t]]
                                    ELSE view[c]]
     /\ Goto(t, "full")
     /\ UNCHANGED <<roomVars, storage, sessions, queue,
                    asked, wire, knowledge, outcome, ghosts>>

\* if (Get_Current_member() == 2)
RoomIsFull(t) ==
  /\ At(t, "full")
  /\ IF member[pkg[t].room] = 2 THEN Goto(t, "ids") ELSE Finish(t)
  /\ UNCHANGED <<running, roomVars, storage, sessions, queue,
                 clientVars, knowledge, outcome, ghosts>>

\* mutant: reads user1 twice
ReadUser1Twice(t) ==
  LET c == user1[pkg[t].room]
  IN /\ At(t, "ids")
     /\ c # Null
     /\ ids' = [ids EXCEPT ![t] = <<Obj(c), Obj(c)>>]
     /\ Follow({c})
     /\ pc' = [pc EXCEPT ![t] = "notify"]
     /\ UNCHANGED <<roomVars, storage, sessions, queue, pkg, ret, clientVars, knowledge,
                    outcome>>

\* mutant: returns when one of the seats is empty
ReadIdsGuarded(t) ==
  LET a == user1[pkg[t].room]  b == user2[pkg[t].room]
  IN /\ At(t, "ids")
     /\ IF Null \in {a, b}
          THEN Finish(t) /\ UNCHANGED <<running, mistaken, met>>
          ELSE /\ ids' = [ids EXCEPT ![t] = <<Obj(a), Obj(b)>>]
               /\ Follow({a, b})
               /\ pc' = [pc EXCEPT ![t] = "notify"]
               /\ UNCHANGED <<pkg, ret>>
     /\ UNCHANGED <<roomVars, storage, sessions, queue, clientVars, knowledge, outcome>>

\* User1_ID = user1->id(); User2_ID = user2->id();
ReadIds(t) ==
  LET a == user1[pkg[t].room]  b == user2[pkg[t].room]
  IN /\ At(t, "ids")
     /\ IF Null \in {a, b}
          THEN Crash
          ELSE /\ ids' = [ids EXCEPT ![t] = <<Obj(a), Obj(b)>>]
               /\ Follow({a, b})
               /\ pc' = [pc EXCEPT ![t] = "notify"]
               /\ UNCHANGED <<roomVars, storage, sessions, queue, pkg, ret, clientVars,
                              knowledge, outcome>>

\* NOTIFY_SERVER_IP through a seat of r
Tell(r, s) == /\ told' = told \cup ({Obj(s)} \ closed)
              /\ waiting' = [waiting EXCEPT ![r] = @ \ {Obj(s)}]

\* mutant: user1 is reset but not told
NotifyUser1Unset(t) ==
  LET r == pkg[t].room
  IN /\ At(t, "notify")
     /\ user1[r] # Null /\ sessionOne
     /\ user1' = [user1 EXCEPT ![r] = Null]
     /\ UNCHANGED <<running, member, user2, storage, sessions, queue, threadVars,
                    clientVars, knowledge, outcome, ghosts>>

(***************************************************************************)
(* One turn of the loop of line 217.  Its test looks up the session whose  *)
(* id is the truth value of user1 != NULL: session 1 while user1 is set,   *)
(* session 0, which nobody has, afterwards.  Line 225 looks the user up    *)
(* again and uses the result: null if the session the pointer leads to is  *)
(* closed.                                                                 *)
(***************************************************************************)
NotifyUser1(t) ==
  LET r == pkg[t].room
  IN /\ At(t, "notify")
     /\ user1[r] # Null /\ sessionOne
     /\ IF Obj(user1[r]) \in closed
          THEN Crash
          ELSE /\ Tell(r, user1[r])
               /\ Follow({user1[r]})
               /\ user1' = [user1 EXCEPT ![r] = Null]
               /\ UNCHANGED <<member, user2, storage, sessions, queue, threadVars,
                              clientVars, outcome>>

NotifyUser2(t) ==
  LET r == pkg[t].room
  IN /\ At(t, "notify")
     /\ user1[r] = Null \/ ~sessionOne
     /\ IF user2[r] = Null
          THEN Crash
          ELSE /\ Tell(r, user2[r])
               /\ Follow({user2[r]})
               /\ user2' = [user2 EXCEPT ![r] = Null]
               /\ Goto(t, "handoff")
               /\ UNCHANGED <<member, user1, storage, sessions, queue, clientVars, outcome>>

\* terminal->sendPacket(&passidOfUserInRoom)
HandOff(t) ==
  /\ At(t, "handoff")
  /\ games' = Append(games, [room |-> pkg[t].room,
                             id1 |-> ids[t][1], id2 |-> ids[t][2]])
  /\ Goto(t, "clear")
  /\ UNCHANGED <<running, roomVars, storage, sessions, queue,
                 clientVars, knowledge, ended, ghosts>>

\* mutant: the lobby resets the count itself
ClearRoomAndCount(t) ==
  /\ At(t, "clear")
  /\ user1' = [user1 EXCEPT ![pkg[t].room] = Null]
  /\ member' = [member EXCEPT ![pkg[t].room] = 0]
  /\ storage' = storage \ {ids[t][1], ids[t][2]}
  /\ MayStop(storage' # storage /\ Walked(t))
  /\ Finish(t)
  /\ UNCHANGED <<user2, sessions, queue, clientVars, knowledge, outcome, ghosts>>

\* user1 = NULL; session_storage.erase, twice
ClearRoom(t) ==
  /\ At(t, "clear")
  /\ user1' = [user1 EXCEPT ![pkg[t].room] = Null]
  /\ storage' = storage \ {ids[t][1], ids[t][2]}
  /\ MayStop(storage' # storage /\ Walked(t))
  /\ Finish(t)
  /\ UNCHANGED <<member, user2, sessions, queue, clientVars, knowledge, outcome, ghosts>>
-----------------------------------------------------------------------------
EnterRoom(t) == \/ EnterCheck(t) \/ EnterCount(t) \/ EnterSeat(t) \/ TakeSeat(t)
                \/ AnnounceBegins(t) \/ Announce(t) \/ RoomIsFull(t) \/ ReadIds(t)
                \/ NotifyUser1(t) \/ NotifyUser2(t) \/ HandOff(t) \/ ClearRoom(t)

Handler(t) == \/ C_REQ_LOBBY_INFO(t) \/ I_INITIALIZE_ROOMMEMBER(t) \/ EnterRoom(t)

Clients == \E c \in Client : \/ AskLobbyInfo(c) \/ RequestArrives(c) \/ CloseClient(c)
                             \/ \E a \in Address : Connect(c, a)
                             \/ \E r \in Room : AskEnterRoom(c, r)

LobbyStep == \/ Clients \/ CloseSessionOne \/ ResetArrives
             \/ \E t \in Thread : TakePackage(t) \/ Handler(t)

Next == LobbyStep \/ \E i \in DOMAIN games : GameEnds(i)

Spec == LobbyInit /\ [][Next]_vars
-----------------------------------------------------------------------------
TypeOK ==
  /\ running \in BOOLEAN
  /\ member \in [Room -> 0..2]
  /\ user1 \in [Room -> Client \cup {Null}]
  /\ user2 \in [Room -> Client \cup {Null}]
  /\ storage \subseteq Client
  /\ sessionOne \in BOOLEAN
  /\ addr \in [Client -> Address \cup {Null}]
  /\ closed \subseteq Client
  /\ wire \in [Client -> Package \cup {Null}]
  /\ queue \in Seq(Package)
  /\ pc \in [Thread -> Where]
  /\ pkg \in [Thread -> Package \cup {Null}]
  /\ ids \in [Thread -> (Client \cup {Null}) \X (Client \cup {Null})]
  /\ ret \in [Thread -> 0..2]
  /\ view \in [Client -> [Room -> 0..2 \cup {Null}]]
  /\ asked \in 0..MaxAsk
  /\ waiting \in [Room -> SUBSET Client]
  /\ told \subseteq Client
  /\ games \in Seq([room : Room, id1 : Client, id2 : Client])
  /\ ended \in Seq(Room)
  /\ met \in BOOLEAN
  /\ mistaken \in BOOLEAN

(***************************************************************************)
(* Until two threads are at one room at once, a room is given to the game  *)
(* server for one pair at a time: no second I_USER_INFO for a room goes    *)
(* out while its game runs or its reset is on its way back, however old    *)
(* the counts are that the clients send.                                   *)
(***************************************************************************)
OneGamePerRoom ==
  ~met =>
    /\ \A i, j \in DOMAIN games : games[i].room = games[j].room => i = j
    /\ \A i, j \in DOMAIN ended : ended[i] = ended[j] => i = j
    /\ \A i \in DOMAIN games, j \in DOMAIN ended : games[i].room # ended[j]

(***************************************************************************)
(* A full room is in somebody's hands: of a handler that has counted two   *)
(* and is on its way to the game server, of a game, or of its reset on the *)
(* way back.  So it becomes free again, unless a terminal drops the match  *)
(* or the reset: with any number of threads at the room, in whatever order *)
(* they test the count (line 168), write it, read it again (line 204) and  *)
(* take the seats, none that leaves it full returns without handing over.  *)
(***************************************************************************)
Matching == {"seat", "seat1", "seat2", "announce", "announcing", "full", "ids", "notify",
             "handoff"}

IsReset(p) == p.type = "INITIALIZE_ROOMMEMBER"

InMatch(r) == \E t \in Thread : pc[t] \in Matching /\ pkg[t].room = r
InGames(r) == \E i \in DOMAIN games : games[i].room = r
InEnded(r) == \E i \in DOMAIN ended : ended[i] = r
InQueue(r) == \E i \in DOMAIN queue : IsReset(queue[i]) /\ queue[i].room = r
InReset(r) == \E t \in Thread : pc[t] = "reset" /\ pkg[t].room = r

Held(r) == InGames(r) \/ InEnded(r) \/ InQueue(r) \/ InReset(r)

FullIsInHand == \A r \in Room : member[r] = 2 => InMatch(r) \/ Held(r)

(***************************************************************************)
(* A client plays one game at a time: the ids handed to the game server,   *)
(* read from pointers that other requests overwrite, never name a client   *)
(* twice, neither in one match nor in two that both run.  Two things can   *)
(* break it: two threads at one room, and a seat whose session was closed  *)
(* and that leads to the session of the next client to connect.            *)
(***************************************************************************)
PlaysOneGame ==
  ~met /\ ~mistaken =>
    \A i, j \in DOMAIN games :
      /\ games[i].id1 # games[j].id2
      /\ i # j => games[i].id1 # games[j].id1 /\ games[i].id2 # games[j].id2

(***************************************************************************)
(* Until two threads are at one room at once, the count of a full room     *)
(* changes only when the game server resets it: "this room is already      *)
(* full" (line 170) keeps everybody else out.                              *)
(***************************************************************************)
FullUntilReset ==
  [][~met => \A r \in Room : member[r] = 2 /\ member'[r] # 2 =>
       \E t \in Thread : pc[t] = "reset" /\ pkg[t].room = r]_vars

(***************************************************************************)
(* The first to enter goes to user1, the second to user2 (line 177): a     *)
(* third entrant never takes a seat somebody sits in.                      *)
(***************************************************************************)
SeatIsFree ==
  [][\A t \in Thread :
       LET r == pkg[t].room
       IN  /\ pc[t] = "seat1" /\ pc'[t] = "announce" => user1[r] = Null
           /\ pc[t] = "seat2" /\ pc'[t] = "announce" => user2[r] = Null]_vars

(***************************************************************************)
(* When a match is handed to the game server both of its players have been *)
(* told its address (line 219), if they are still connected.  The lookup   *)
(* of line 219 asks for session 1 and not for the user: the second player  *)
(* is told all the same, the first is unless session 1 is closed.  The     *)
(* exceptions are those of PlaysOneGame.                                   *)
(***************************************************************************)
HandOffTellsBoth ==
  ~met /\ ~mistaken =>
    \A t \in Thread : pc[t] = "handoff" =>
      /\ ids[t][2] \in told \cup closed
      /\ ids[t][1] \in told \cup closed \/ ~sessionOne
=============================================================================
